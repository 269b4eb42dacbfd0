SPECIFICATION Spec
CHECK_DEADLOCK FALSE
CONSTANTS
  x = x
  y = y
  NumVertexes = 5
  NumThreads = 2
  BitsPerWord = 2
  OutEdge <- Ring5
  Payload = {x, y}
  Program <- MCProgram
  EndChoice = {TRUE, FALSE}
  DirectionLimit = 2
  MaxSuperstep = 2
  MayFail = TRUE
INVARIANTS
  TurnsInv
  FreshMessages
  ImportsWhatWasSent
PROPERTIES
  ImplementsSupersteps
  RunEnds
  WorkersEnd
