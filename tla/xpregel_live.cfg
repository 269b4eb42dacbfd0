SPECIFICATION FairSpec
CHECK_DEADLOCK FALSE
CONSTANTS
  p1 = p1
  p2 = p2
  p3 = p3
  v1 = v1
  v2 = v2
  v3 = v3
  x = x
  y = y
  Place = {p1, p2, p3}
  Vertex <- MCVertex
  Owner <- MCOwner3
  OutEdge <- MCOutEdge
  Payload = {x, y}
  Program <- MCProgramTeam
  MayThrow = {v2, v3}
  EndChoice = {TRUE, FALSE}
  HasAggregator = TRUE
  HasCombiner = TRUE
  EnableStatistics = TRUE
  DirectionLimit = 2
  MaxSuperstep = 2
PROPERTIES
  RunReturns
  ThrowStopsTeam
