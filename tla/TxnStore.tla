------------------------------ MODULE TxnStore ------------------------------
(***************************************************************************)
(* The transaction tables of the redb store: TBL_TXN_STATE, TBL_WRITE_SET  *)
(* and the write-ahead log (xtable-storage/src/store.rs, txn_state.rs,     *)
(* wal.rs).  Each operation is one redb write transaction and constrains   *)
(* only the table it writes.                                               *)
(*                                                                         *)
(* A state record keeps its status, snapshot, the keys it wrote and read   *)
(* and the commit version allocated to it (alloc_versions gives all keys   *)
(* of write_keys the same version; 0 stands for the empty list).  The log  *)
(* is kept as what recovery makes of it: per transaction, the status its   *)
(* records fold to and the keys of its Committing record.                  *)
(***************************************************************************)
EXTENDS LocalStore

CONSTANTS NoRecord   \* no row in TBL_TXN_STATE

VARIABLES
  txn_state,    \* TBL_TXN_STATE: txn -> record or NoRecord
  write_set,    \* TBL_WRITE_SET: txn -> keys with a staged entry
  wal           \* TBL_WAL, folded: txn -> [status, keys]

txn_vars == <<txn_state, write_set, wal>>

TxnStatus == {"Active", "Committing", "Committed", "Aborted"}

TxnStateRecord ==
  [status : TxnStatus, snapshot : Versions, write_keys : SUBSET Keys,
   read_keys : SUBSET Keys, alloc : Versions]

WalFold == [status : TxnStatus \cup {"none"}, keys : SUBSET Keys]

TxnStoreTypeOK ==
  /\ txn_state \in [TxnIds -> TxnStateRecord \cup {NoRecord}]
  /\ write_set \in [TxnIds -> SUBSET Keys]
  /\ wal \in [TxnIds -> WalFold]

NewActive(snapshot) ==
  [status |-> "Active", snapshot |-> snapshot, write_keys |-> {},
   read_keys |-> {}, alloc |-> 0]

HasStatus(t, statuses) ==
  txn_state[t] # NoRecord /\ txn_state[t].status \in statuses

PutTxnState(t, rec) == txn_state' = [txn_state EXCEPT ![t] = rec]

DeleteTxnState(t) == txn_state' = [txn_state EXCEPT ![t] = NoRecord]

(* The read, the comparison and the write are one redb transaction.        *)
CompareAndSetTxnStatus(t, expected, new) ==
  /\ HasStatus(t, {expected})
  /\ txn_state' = [txn_state EXCEPT ![t].status = new]

PutWriteEntry(t, k) == write_set' = [write_set EXCEPT ![t] = @ \cup {k}]

DeleteWriteEntries(t) == write_set' = [write_set EXCEPT ![t] = {}]

(* Begin and Stage only count for a transaction the log has not seen.      *)
AppendWalOpen(t) ==
  wal' = [wal EXCEPT ![t].status = IF @ = "none" THEN "Active" ELSE @]

AppendWalCommitting(t, upload_keys) ==
  wal' = [wal EXCEPT ![t] = [status |-> "Committing", keys |-> upload_keys]]

(* Committed (with the CommitResult that follows it) and Aborted.          *)
AppendWalOutcome(t, status) == wal' = [wal EXCEPT ![t].status = status]

(* Deviation: the snapshot instead of the allocated version.               *)
SnapshotVersionOf(rec) == rec.snapshot

(* The version a Committed record answers a repeated commit with.          *)
CommitVersionOf(rec) == IF rec.alloc # 0 THEN rec.alloc ELSE rec.snapshot

=============================================================================
