---------------------------- MODULE Identifiers ----------------------------
(* The opaque names of xtable-core/src/ids.rs.                             *)
CONSTANTS
  Keys,         \* object keys
  TxnIds        \* transaction ids

=============================================================================
