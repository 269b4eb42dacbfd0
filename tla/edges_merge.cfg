SPECIFICATION Spec
CHECK_DEADLOCK FALSE
CONSTANTS
  Vertex = {0, 1, 2}
  FirstOf <- TwoThreads
  Val = {0, 1}
  InitOut <- Sparse
  NewEdges <- Lists
  Unwritten = {0, 7}
  Plans <- ReplaceOrIterate
INVARIANTS
  OutEdgesAsRequested
  ReadYourWrites
  InDegreesFollowOut
PROPERTIES
  SingleEdgesAsRequested
  InEdgesFollowOut
  OnlyIdleVerticesFail
