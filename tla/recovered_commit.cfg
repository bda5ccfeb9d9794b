CONSTANTS
  h1 = h1
  h2 = h2
  t0 = t0
  t1 = t1
  t2 = t2
  k1 = k1
  k2 = k2
  NoEntry = NoEntry
  NoRecord = NoRecord
  NoTxn = NoTxn
  NoKey = NoKey
  Refused = Refused
  Handlers <- TwoHandlers
  TxnIds <- SeedAndTwo
  Keys <- OneKey
  SeedTxn = t0
  SeedKeys <- OneKey
  U64Max = 9
  MaxVersion = 3
  Ops = {"begin", "stage", "commit", "abort"}
  FaultOps = {}
  Overlap = FALSE
  Sweeps = TRUE
  MaxCrashes = 1
  MaxFaults = 0
  MaxMishaps = 1
SPECIFICATION Spec
SYMMETRY Symmetry
INVARIANTS
  CommittedIsReadable
