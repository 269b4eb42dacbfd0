SPECIFICATION Spec
CONSTANTS
  p1 = p1
  p2 = p2
  p3 = p3
  v1 = v1
  v2 = v2
  v3 = v3
  x = x
  y = y
  Place = {p1, p2}
  Vertex <- MCVertex
  Owner <- MCOwner
  OutEdge <- MCOutEdge
  Payload = {x, y}
  Program <- MCProgram
  MayThrow = {}
  EndChoice = {FALSE}
  HasAggregator = FALSE
  HasCombiner = TRUE
  EnableStatistics = TRUE
  DirectionLimit = 0
  MaxSuperstep = 3
INVARIANTS
  NoStaleSend
  BufferInv
PROPERTIES
  ImplementsSupersteps
