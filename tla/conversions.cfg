SPECIFICATION Spec
CONSTANTS
  ByteBits = 3
  ShortBits = 4
  IntBits = 6
  LongBits = 8
  NumberFormatException = NumberFormatException
  Chars <- MCChars
  MaxText = 3
  NumeralBytes <- MCNumeralBytes
  MaxNumeral = 4
  Lengths = {0, 5, 6, 7, 8, 14, 15, 16}
  ExchangesByValue = TRUE
  MaxArray = 4
  W = 8
  M0 = 17
  M1 = 165
  MaxScale = 5
  ScrambleValues = {0, 1, 2, 16, 86, 89, 120, 254, 255}
  MaxPiece = 8
  MaxChunk = 6
  AttrSizes = {0, 1, 8}
  MaxElems = 2
  numBlocksPerPlace = 1
  minNumBlocks = 3
  minBlockSize = 8
  maxBlockSize = 10
  IOException = IOException
  FileNotFoundException = FileNotFoundException
  IllegalArgumentException = IllegalArgumentException
  AssertionFails = AssertionFails
  FileSteps <- MCFileSteps
  MaxFileSteps = 3
  ArithmeticException = ArithmeticException
  Places = 2
  NoFile = NoFile
  ArgumentError = ArgumentError
  ConfigError = ConfigError
  ScaleGraphError = ScaleGraphError
  Inputs <- MCInputs
  Outputs <- MCOutputs
  Flows <- MCFlows
  ExtraOptions <- MCExtraOptions
  Worlds <- MCWorlds
  Disks <- MCDisks
INVARIANTS
  CallsDoWhatWasAsked
  StringsAreCharacters
  NumbersReadBack
  TuplesStayTogether
  IdsStayDistinct
  MemoryAsAsked
  FilesReadBack
  AppendersKeepEverything
