SPECIFICATION Spec
CONSTANTS
  NumWorkers = 2
  NumVertexes = 3
  BitsPerWord = 2
  NumOutEdges = 2
  NumInEdges = 0
  ValueTypes = {"Double", "Float", "Byte"}
  AskedViews = {"sendMsgN_flags"}
  Counts = {0, 1}
  NumRuns = 2
  MaxSupersteps = 2
  MaxCalls = 6
  MaxRuns = 2
INVARIANTS
  ViewsShowTheirSegments
  ImportedAsSent
  FlagsAsSet
  HandlesAlive
  ResultsAreFresh
