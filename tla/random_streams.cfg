SPECIFICATION Spec
CONSTANTS
  W = 5
  X = 6
  Y = 5
  Byte = 3
  WordBytes = 2
  T = 1
  UserSeeds <- MCUserSeeds
  Operands <- MCOperands
  Skips <- MCSkips
  MaxDrawn = 100
INVARIANTS SkipIsSteps SeedsAreValid ArithmeticAgrees
