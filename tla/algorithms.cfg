CONSTANTS
  None = None
  Missing = Missing
  Valid = Valid
  ChunkEntries <- MCChunkEntries
  MaxEntries = 3
  U8 = 4
  U16 = 8
  U32 = 16
  SampleEvery = 2
  BitsPerKey = 3
  MinBits = 4
  ByteBits = 4
  Xxh3 <- MCXxh3
  Tables <- MCTables
  Queries <- MCQueries
  Limits = {1, 2}
  Within <- MCWithin
  Schemas <- MCSchemas
  Values <- MCValues
SPECIFICATION Spec
INVARIANT FileHoldsEntries
INVARIANT PagesPartition
INVARIANT ValidateIsExact
CHECK_DEADLOCK FALSE
