CONSTANTS
  h1 = h1
  h2 = h2
  t0 = t0
  t1 = t1
  t2 = t2
  k1 = k1
  k2 = k2
  NoEntry = NoEntry
  NoRecord = NoRecord
  NoTxn = NoTxn
  NoKey = NoKey
  Refused = Refused
  Handlers <- TwoHandlers
  TxnIds <- SeedAndTwo
  Keys <- TwoKeys
  SeedTxn = t0
  SeedKeys <- TwoKeys
  U64Max = 9
  MaxVersion = 3
  Ops = {"begin", "stage", "read", "commit"}
  FaultOps = {}
  Overlap = FALSE
  Sweeps = FALSE
  MaxCrashes = 0
  MaxFaults = 0
  MaxMishaps = 0
SPECIFICATION Spec
SYMMETRY Symmetry
INVARIANTS
  NoWriteSkew
