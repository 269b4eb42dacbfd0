SPECIFICATION Spec
CONSTANTS
  ByteBits = 3
  ShortBits = 4
  IntBits = 6
  LongBits = 8
  NumberFormatException = NumberFormatException
  NULL = NULL
  H_CHUNK_SIZE = 2
  EOFException = EOFException
  TypeName <- MCTypeName
  Jobs <- MCJobs
INVARIANTS RowsReadOnce
PROPERTIES ChunksInTurn
