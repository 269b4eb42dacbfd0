SPECIFICATION Spec
CHECK_DEADLOCK FALSE
CONSTANTS
  Vertex = {0, 1, 2}
  FirstOf <- OneThread
  Val = {0, 1}
  InitOut <- Sparse
  NewEdges <- Lists
  Unwritten = {0, 7}
  Plans <- Replace
INVARIANTS
  NoAssertionFails
