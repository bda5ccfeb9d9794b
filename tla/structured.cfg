CONSTANTS
  r1 = r1
  lax = lax  strict = strict  plain = plain
  Tombstone = Tombstone
  Nothing = Nothing
  Rids = {r1}
  MaxTxns = 2
  MaxCalls = 1
  SchemaBodies = {lax, strict}
  RecordBodies = {plain}
  Conforms <- MCConforms
  MaxVersion = 2
  MaxSchema = 2
  UsesAt <- MCUsesAt
  Overlap = FALSE
  MaxWrites = 2
  MaxMishaps = 1
SPECIFICATION Spec
INVARIANT TypeOK
INVARIANT IndexIsChain
INVARIANT RecordsConform
INVARIANT SchemaVersionsInOrder
INVARIANT LastBindingHolds
INVARIANT SnapshotReadsAgree
CHECK_DEADLOCK FALSE
