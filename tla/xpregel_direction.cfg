SPECIFICATION Spec
CONSTANTS
  p1 = p1
  p2 = p2
  p3 = p3
  v1 = v1
  v2 = v2
  v3 = v3
  x = x
  y = y
  Place = {p1, p2, p3}
  Vertex <- MCVertex
  Owner <- MCOwner3
  OutEdge <- MCOutEdge
  Payload = {x, y}
  Program <- MCProgram
  MayThrow = {}
  EndChoice = {TRUE, FALSE}
  HasAggregator = TRUE
  HasCombiner = FALSE
  EnableStatistics = TRUE
  DirectionLimit = 3
  MaxSuperstep = 2
INVARIANTS
  CollectivesMatch
PROPERTIES
  ImplementsSupersteps
