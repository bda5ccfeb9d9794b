SPECIFICATION Spec
CONSTANTS
  k1 = k1
  Keys = {k1}
  MaxVersion = 2
  MaxCommits = 2
  MaxTables = 3
  MaxChunks = 4
  MaxFaults = 1
  MaxCrashes = 1
  MaxLosses = 1
  Tombstones = {1}
  NoEntry = NoEntry
  NoRow = NoRow
INVARIANT SnapshotNotExceeded
INVARIANT NewestExactAtRest
INVARIANT PointersResolve
INVARIANT VersionsNotReused
INVARIANT CommittingRowInLog
PROPERTY RebuildRestoresReads
PROPERTY ReachesS3
PROPERTY ImplementsRecordReads
CHECK_DEADLOCK FALSE
