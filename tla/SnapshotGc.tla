----------------------------- MODULE SnapshotGc -----------------------------
(***************************************************************************)
(* Snapshot readers, one committing writer and the garbage collector over  *)
(* the MVCC tables.  A reader is anything that captures and pins a         *)
(* snapshot and later drops the pin: StructuredReader in xtable-schema, or *)
(* a transaction between begin and its end.  Commits are serialised by the *)
(* coordinator's commit_lock, so one version is in flight at a time; the   *)
(* steps of a commit that touch these tables are separate redb             *)
(* transactions and readers and the collector run between them.            *)
(***************************************************************************)
EXTENDS LocalStore

CONSTANTS
  Readers,
  NoSnapshot    \* what a reader holds when it has no snapshot

ASSUME ReadersAssumption == IsFiniteSet(Readers) /\ NoSnapshot \notin Nat

VARIABLES
  held,         \* reader -> the snapshot it holds, or NoSnapshot
  in_flight,    \* commit version allocated by the running commit, 0 if none
  unindexed     \* keys the running commit has published but not yet indexed

vars == <<store_vars, held, in_flight, unindexed>>

TypeOK ==
  /\ StoreTypeOK
  /\ held \in [Readers -> Versions \cup {NoSnapshot}]
  /\ in_flight \in Versions
  /\ unindexed \in SUBSET Keys

Init ==
  /\ StoreInit
  /\ held = [r \in Readers |-> NoSnapshot]
  /\ in_flight = 0
  /\ unindexed = {}

AcquireSnapshot(r) ==
  /\ held[r] = NoSnapshot
  /\ CaptureAndRegisterSnapshot
  /\ held' = [held EXCEPT ![r] = global_version]
  /\ UNCHANGED <<global_version, version_chains, versions, record_index,
                 record_versions, in_flight, unindexed>>

ReleaseSnapshot(r) ==
  /\ held[r] # NoSnapshot
  /\ UnregisterSnapshot(held[r])
  /\ held' = [held EXCEPT ![r] = NoSnapshot]
  /\ UNCHANGED <<global_version, version_chains, versions, record_index,
                 record_versions, in_flight, unindexed>>

(* A commit with writes takes the next version before it publishes.        *)
AllocateCommitVersion ==
  /\ in_flight = 0
  /\ NextGlobalVersion
  /\ in_flight' = global_version + 1
  /\ UNCHANGED <<version_chains, versions, active_snapshots, record_index,
                 record_versions, held, unindexed>>

(* The append of a multi-key commit made by txn at the given snapshot.     *)
PublishCommit(keys, txn, snapshot) ==
  LET entry == [cv |-> in_flight, txn |-> txn]
  IN  /\ in_flight # 0
      /\ unindexed = {}
      /\ BulkAppendable(keys, entry, snapshot)
      /\ AppendChainEntriesBulk(keys, entry)
      /\ unindexed' = keys
      /\ UNCHANGED <<global_version, versions, active_snapshots,
                     record_index, record_versions, held, in_flight>>

(* A snapshot conflict, or an error before the append: the version is lost. *)
AbandonCommit ==
  /\ in_flight # 0
  /\ unindexed = {}
  /\ in_flight' = 0
  /\ UNCHANGED <<store_vars, held, unindexed>>

(* The post-commit hook indexes one record in one redb transaction; the    *)
(* commit ends with the last one.                                          *)
IndexRecord(k) ==
  /\ k \in unindexed
  /\ PutRecordIndexWithBody({k}, in_flight)
  /\ unindexed' = unindexed \ {k}
  /\ in_flight' = IF unindexed = {k} THEN 0 ELSE in_flight
  /\ UNCHANGED <<global_version, version_chains, versions,
                 active_snapshots, held>>

CollectGarbage(requested) ==
  /\ GcChains(requested)
  /\ UNCHANGED <<global_version, versions, active_snapshots, record_index,
                 held, in_flight, unindexed>>

Next ==
  \/ \E r \in Readers : AcquireSnapshot(r) \/ ReleaseSnapshot(r)
  \/ AllocateCommitVersion
  \/ \E keys \in SUBSET Keys \ {{}}, txn \in TxnIds, s \in Versions :
       PublishCommit(keys, txn, s)
  \/ AbandonCommit
  \/ \E k \in Keys : IndexRecord(k)
  \/ \E m \in Versions \cup {U64Max} : CollectGarbage(m)

Spec == Init /\ [][Next]_vars

-----------------------------------------------------------------------------
Holders(v) == {r \in Readers : held[r] = v}

(***************************************************************************)
(* Every chain is strictly ascending by commit version, through appends    *)
(* and prunes in any order (I1 of version_chain.rs).                       *)
(***************************************************************************)
ChainsAscending == \A k \in Keys : Ascending(version_chains[k])

(***************************************************************************)
(* The registry counts exactly the readers that hold each snapshot: no     *)
(* release of one reader drops the pin of another (the ref-count of        *)
(* register_snapshot and unregister_snapshot).                             *)
(***************************************************************************)
PinsCountHolders ==
  \A v \in Versions : active_snapshots[v] = Cardinality(Holders(v))

(***************************************************************************)
(* The record rows answer a held snapshot as the chain does, once the      *)
(* running commit has indexed its records: the collector applies "the same *)
(* retention rule" to both tables.  The same holds for the snapshot a new  *)
(* reader would get.                                                       *)
(***************************************************************************)
ChainVersionAt(k, s) ==
  IF RPosition(version_chains[k], s) = 0 THEN 0
  ELSE ReadAtSnapshot(version_chains[k], s).cv

RowsAgreeWithChains ==
  \A k \in Keys \ unindexed :
    \A s \in {held[r] : r \in Readers} \cup {global_version} :
      s # NoSnapshot =>
        RecordVersionAtSnapshot(record_versions[k], s) = ChainVersionAt(k, s)

(***************************************************************************)
(* What a reader sees of a chain at its snapshot changes only when a       *)
(* commit publishes a version at or below that snapshot; no step of the    *)
(* collector, and no release by another reader, changes it (I8).           *)
(***************************************************************************)
HeldReadStep ==
  \A r \in Readers, k \in Keys :
    held[r] # NoSnapshot /\ held'[r] = held[r] =>
      \/ ReadAtSnapshot(version_chains'[k], held[r])
           = ReadAtSnapshot(version_chains[k], held[r])
      \/ /\ in_flight # 0 /\ in_flight <= held[r]
         /\ \E txn \in TxnIds :
              version_chains'[k] =
                Append(version_chains[k], [cv |-> in_flight, txn |-> txn])

HeldReadsStable == [][HeldReadStep]_vars

=============================================================================
