CONSTANTS
  r1 = r1
  r2 = r2
  k1 = k1
  k2 = k2
  t1 = t1
  Readers <- MCReaders
  Keys <- MCKeys
  TxnIds <- MCTxnIds
  MaxVersion = 3
  U64Max = 9
  NoEntry = NoEntry
  NoSnapshot = NoSnapshot
SPECIFICATION Spec
SYMMETRY MCSymmetry
INVARIANTS
  TypeOK
  ChainsAscending
  PinsCountHolders
  RowsAgreeWithChains
PROPERTIES
  HeldReadsStable
