----------------------------- MODULE LocalStore -----------------------------
(***************************************************************************)
(* The MVCC tables of the redb store (xtable-storage/src/store.rs) and the *)
(* operations on them.  redb runs one write transaction at a time and a    *)
(* write transaction is atomic and durable, so every operation is one      *)
(* action.  An action constrains only the tables its transaction touches;  *)
(* the modules that extend this one say who calls it and leave the rest    *)
(* unchanged.                                                              *)
(*                                                                         *)
(* Bodies, content types, etags and sizes are not modelled: a version is   *)
(* its commit version and the transaction that wrote it.                   *)
(***************************************************************************)
EXTENDS VersionChain, Identifiers, FiniteSets

CONSTANTS
  MaxVersion    \* bound: highest commit version a behaviour allocates

ASSUME MaxVersionAssumption == MaxVersion \in Nat /\ MaxVersion < U64Max

VARIABLES
  global_version,     \* TBL_META / GLOBAL_VERSION
  version_chains,     \* TBL_VERSION_CHAINS: key -> chain
  versions,           \* TBL_VERSIONS: key -> latest version, 0 if no row
  active_snapshots,   \* TBL_ACTIVE_SNAPSHOTS: version -> count, 0 if no row
  record_index,       \* TBL_RECORD_INDEX: key -> version of the latest row
  record_versions     \* TBL_RECORD_VERSIONS: key -> versions that have a row

store_vars == <<global_version, version_chains, versions, active_snapshots,
                record_index, record_versions>>

Versions == 0 .. MaxVersion
Entries  == [cv : Versions, txn : TxnIds]

StoreTypeOK ==
  /\ global_version \in Versions
  /\ version_chains \in [Keys -> Seq(Entries)]
  /\ versions \in [Keys -> Versions]
  /\ active_snapshots \in [Versions -> Nat]
  /\ record_index \in [Keys -> Versions]
  /\ record_versions \in [Keys -> SUBSET Versions]

StoreInit ==
  /\ global_version = 0
  /\ version_chains = [k \in Keys |-> <<>>]
  /\ versions = [k \in Keys |-> 0]
  /\ active_snapshots = [v \in Versions |-> 0]
  /\ record_index = [k \in Keys |-> 0]
  /\ record_versions = [k \in Keys |-> {}]

-----------------------------------------------------------------------------
(* Versions and chains.                                                    *)

NextGlobalVersion ==
  /\ global_version < MaxVersion
  /\ global_version' = global_version + 1

(* Deviation: a chain may be one version ahead of the snapshot.            *)
SnapshotConflictOffByOne(chain, snapshot) ==
  chain # <<>> /\ LatestCommitVersion(chain) > snapshot + 1

(***************************************************************************)
(* The checks append_chain_entries_bulk makes for one entry, in the order  *)
(* of the code: a chain newer than the caller's snapshot is a conflict, a  *)
(* repeated entry is skipped, any other version that is not newer than the *)
(* chain is an error.                                                      *)
(***************************************************************************)
SnapshotConflict(chain, snapshot) ==
  chain # <<>> /\ LatestCommitVersion(chain) > snapshot

Duplicate(chain, entry) ==
  /\ chain # <<>>
  /\ chain[Len(chain)].cv = entry.cv
  /\ chain[Len(chain)].txn = entry.txn

Appendable(chain, entry, snapshot) ==
  /\ ~ SnapshotConflict(chain, snapshot)
  /\ \/ Duplicate(chain, entry)
     \/ chain = <<>>
     \/ entry.cv > LatestCommitVersion(chain)

(* Deviation: the newest entry goes first.                                 *)
AppendEntryAtHead(chain, entry) == <<entry>> \o chain

AppendEntry(chain, entry) ==
  IF Duplicate(chain, entry) THEN chain ELSE Append(chain, entry)

(***************************************************************************)
(* One entry for each key of keys, all in one redb transaction: if any key *)
(* fails its check nothing is written.                                     *)
(***************************************************************************)
BulkAppendable(keys, entry, snapshot) ==
  \A k \in keys : Appendable(version_chains[k], entry, snapshot)

AppendChainEntriesBulk(keys, entry) ==
  version_chains' =
    [k \in Keys |-> IF k \in keys THEN AppendEntry(version_chains[k], entry)
                                  ELSE version_chains[k]]

PutVersionsBulk(keys, v) ==
  versions' = [k \in Keys |-> IF k \in keys THEN v ELSE versions[k]]

-----------------------------------------------------------------------------
(* The record rows the structured layer keeps beside the chains.           *)

(* Deviation: the rows are written at the version after the commit's.      *)
PutRecordIndexOneLater(keys, v) ==
  /\ record_index' = [k \in Keys |-> IF k \in keys THEN v + 1 ELSE record_index[k]]
  /\ UNCHANGED record_versions

(***************************************************************************)
(* put_record_index_with_body: always a row for the version, the latest    *)
(* row only if the version is not older than the one it holds.             *)
(***************************************************************************)
PutRecordIndexWithBody(keys, v) ==
  /\ record_index' =
       [k \in Keys |-> IF k \in keys /\ v >= record_index[k]
                       THEN v ELSE record_index[k]]
  /\ record_versions' =
       [k \in Keys |-> IF k \in keys THEN record_versions[k] \cup {v}
                                     ELSE record_versions[k]]

(***************************************************************************)
(* get_record_version_at_snapshot: the newest row at or below a snapshot,  *)
(* 0 if there is none.                                                     *)
(***************************************************************************)
RecordVersionAtSnapshot(rows, snapshot) ==
  CHOOSE v \in rows \cup {0} :
    /\ v <= snapshot
    /\ \A w \in rows : w <= snapshot => w <= v

-----------------------------------------------------------------------------
(* The registry of active snapshots.                                       *)

RegisterSnapshot(s) ==
  active_snapshots' = [active_snapshots EXCEPT ![s] = @ + 1]

(* The version read and the pin are one redb transaction.                  *)
CaptureAndRegisterSnapshot == RegisterSnapshot(global_version)

(* Deviation: one release removes the row, whatever its count.             *)
UnregisterSnapshotRemovesRow(s) ==
  active_snapshots' = [active_snapshots EXCEPT ![s] = 0]

UnregisterSnapshot(s) ==
  active_snapshots' =
    [active_snapshots EXCEPT ![s] = IF @ <= 1 THEN 0 ELSE @ - 1]

Pinned == {v \in Versions : active_snapshots[v] > 0}

MinActiveSnapshot ==
  IF Pinned = {} THEN U64Max
  ELSE CHOOSE v \in Pinned : \A w \in Pinned : v <= w

-----------------------------------------------------------------------------
(* Deviation: the pins are ignored.                                        *)
GcThresholdIgnoresPins(requested) == requested

(* Deviation: every row below the threshold goes, the anchor included.     *)
RetainedRowsNoAnchor(rows, min_snapshot) == {v \in rows : v >= min_snapshot}

(***************************************************************************)
(* gc_chains_inner: one redb transaction takes the minimum of the request  *)
(* and the oldest pinned snapshot, prunes every chain to it and removes    *)
(* the record rows older than the newest row at or below it.  The call     *)
(* without a request is a request for u64::MAX.                            *)
(***************************************************************************)
GcThreshold(requested) ==
  IF requested <= MinActiveSnapshot THEN requested ELSE MinActiveSnapshot

RetainedRows(rows, min_snapshot) ==
  {v \in rows : ~ \E w \in rows : v < w /\ w <= min_snapshot}

GcChains(requested) ==
  LET min_snapshot == GcThreshold(requested)
  IN  /\ version_chains' =
           [k \in Keys |-> PruneBelow(version_chains[k], min_snapshot)]
      /\ record_versions' =
           [k \in Keys |-> RetainedRows(record_versions[k], min_snapshot)]

=============================================================================
