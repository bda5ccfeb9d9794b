SPECIFICATION Spec
CONSTANTS
  k1 = k1
  Keys = {k1}
  MaxVersion = 2
  MaxCommits = 2
  MaxTables = 3
  MaxChunks = 4
  MaxFaults = 0
  MaxCrashes = 0
  MaxLosses = 0
  Tombstones = {1}
  NoEntry = NoEntry
  NoRow = NoRow
INVARIANT FlushedBodiesMatch
CHECK_DEADLOCK FALSE
