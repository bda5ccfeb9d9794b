CONSTANTS
  h1 = h1
  h2 = h2
  t0 = t0
  t1 = t1
  t2 = t2
  k1 = k1
  k2 = k2
  NoEntry = NoEntry
  NoRecord = NoRecord
  NoTxn = NoTxn
  NoKey = NoKey
  Refused = Refused
  Handlers <- TwoHandlers
  TxnIds <- SeedAndTwo
  Keys <- TwoKeys
  SeedTxn = t0
  SeedKeys <- OneKey
  U64Max = 9
  MaxVersion = 3
  Ops = {"begin", "stage", "heartbeat", "commit", "abort"}
  FaultOps = {"begin", "stage", "commit", "abort", "sweep"}
  Overlap = FALSE
  Sweeps = TRUE
  MaxCrashes = 2
  MaxFaults = 2
  MaxMishaps = 2
SPECIFICATION Spec
SYMMETRY Symmetry
INVARIANTS
  OutcomeMatchesChains
  CommitAnswersAgree
  PinsAccounted
  NotLeftCommitting
  LeftCommittingIsDecided
  MirrorLagsOnlyRepairs
PROPERTIES
  RecoveryClosesLogs
  LoggedCommitStands
