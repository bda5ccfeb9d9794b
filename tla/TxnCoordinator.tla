--------------------------- MODULE TxnCoordinator ---------------------------
(***************************************************************************)
(* The transaction coordinator (xtable-tx/src/coordinator.rs) with the     *)
(* structured layer's read and post-commit hook.  StaleTxnSweep and        *)
(* WalRecovery add what runs beside it, TxnSystem composes them.           *)
(*                                                                         *)
(* A handler is a task that serves one request.  Each of its steps is one  *)
(* redb transaction, together with the in-memory calls that follow it up   *)
(* to the next one; other handlers, the sweeper and a crash come between   *)
(* any two steps.  commit and abort hold commit_lock from their first step *)
(* to their last.  A request that is refused at once and changes nothing   *)
(* has no action.                                                          *)
(*                                                                         *)
(* A staged write is an upsert: tombstones, bodies and the spilling of     *)
(* large ones are left out.                                                *)
(***************************************************************************)
EXTENDS TxnStore, SiLockManager

CONSTANTS
  Handlers,
  Ops,          \* requests clients make: begin, stage, read, heartbeat, commit, abort
  FaultOps,     \* operations in which a store call may fail
  Overlap,      \* may two requests, or a request and the sweeper, work on
                \* one transaction at the same time?
  Sweeps,       \* does the stale-transaction sweeper run?
  SeedTxn,      \* a transaction that committed before the behaviour starts
  SeedKeys,     \* the keys it wrote
  MaxCrashes,   \* bound: process crashes
  MaxFaults,    \* bound: failing store calls
  MaxMishaps,   \* bound: crashes and failing store calls together
  NoTxn, NoKey, Refused

ASSUME CoordinatorAssumption ==
  /\ SeedTxn \in TxnIds /\ SeedKeys \in SUBSET Keys /\ SeedKeys # {}
  /\ MaxVersion >= 1
  /\ NoTxn \notin TxnIds \cup Handlers
  /\ NoKey \notin Keys /\ Refused \notin Versions
  /\ NoRecord \notin TxnStateRecord
  /\ Overlap \in BOOLEAN /\ Sweeps \in BOOLEAN
  /\ MaxCrashes \in Nat /\ MaxFaults \in Nat /\ MaxMishaps \in Nat

VARIABLES
  memtable,     \* key -> version the active memtable serves, 0 if none
  pending,      \* PendingMap: txn -> keys staged through the structured layer
  req,          \* handler -> the request it serves
  commit_lock,  \* the handler that holds it, or NoTxn
  sweeper,      \* the transaction the sweeper is aborting, the snapshot it
                \* read from its record, and its next step
  recovery,     \* WAL recovery: its next step, "off" while requests are served
  begun,        \* transaction ids handed out by next_txn_id
  crashes, faults,
  published,    \* history: txn -> version at which its entries reached the chains
  answers,      \* history: txn -> definite answers its commits returned
  observed,     \* history: txn -> [k, v] its reads returned
  rw            \* history: <<reader, writer>>, the write registered after the read

mvcc_vars  == <<global_version, version_chains, versions, record_index,
                record_versions>>
mem_vars   == <<memtable, pending>>
env_vars   == <<sweeper, recovery, begun, crashes, faults>>
ghost_vars == <<published, answers, observed, rw>>
vars == <<store_vars, txn_vars, si_vars, mem_vars, req, commit_lock, env_vars,
          ghost_vars>>

BeginPcs  == {"begin_put", "begin_wal", "begin_unpin", "begin_undo", "begin_delete"}
StagePcs  == {"stage_wal", "stage_entry", "stage_keys", "stage_lock"}
ReadPcs   == {"read_edges", "read_lock", "read_keys"}
CommitPcs == {"load", "ssi_wal", "ssi_put", "ssi_unpin", "alloc", "check",
              "conflict_put", "conflict_unpin", "alloc_put", "append",
              "versions", "committed_wal", "committed_put", "memtable", "hook"}
RepairPcs == {"reconcile", "published_put", "published_unpin",
              "unpublished_wal", "unpublished_put", "unpublished_unpin"}
AbortPcs  == {"abort_drop", "abort_wal", "abort_unpin"}
Pcs == {"idle", "heartbeat_put"} \cup BeginPcs \cup StagePcs \cup ReadPcs
         \cup CommitPcs \cup RepairPcs \cup AbortPcs

Requests ==
  [pc : Pcs, t : TxnIds \cup {NoTxn}, k : Keys \cup {NoKey},
   rec : TxnStateRecord \cup {NoRecord}, keys : SUBSET Keys,
   edges : SUBSET TxnIds, v : Versions]

Idle == [pc |-> "idle", t |-> NoTxn, k |-> NoKey, rec |-> NoRecord,
         keys |-> {}, edges |-> {}, v |-> 0]

NotSweeping == [t |-> NoTxn, snapshot |-> 0, pc |-> "idle"]
Serving     == [t |-> NoTxn, pc |-> "off", todo |-> {}]

TypeOK ==
  /\ StoreTypeOK /\ TxnStoreTypeOK /\ SiTypeOK
  /\ memtable \in [Keys -> Versions]
  /\ pending \in [TxnIds -> SUBSET Keys]
  /\ req \in [Handlers -> Requests]
  /\ commit_lock \in Handlers \cup {NoTxn}
  /\ sweeper \in [t : TxnIds \cup {NoTxn}, snapshot : Versions,
                  pc : {"idle", "drop", "wal", "unpin"}]
  /\ recovery \in [t : TxnIds \cup {NoTxn}, todo : SUBSET TxnIds,
                   pc : {"off", "pick", "drop", "wal", "unpin", "put",
                         "won_wal", "won_put"}]
  /\ begun \in SUBSET TxnIds
  /\ crashes \in 0 .. MaxCrashes /\ faults \in 0 .. MaxFaults
  /\ published \in [TxnIds -> Versions]
  /\ answers \in [TxnIds -> SUBSET (Versions \cup {Refused})]
  /\ observed \in [TxnIds -> SUBSET [k : Keys, v : Versions]]
  /\ rw \in SUBSET (TxnIds \X TxnIds)

(* A process just started on a store in which SeedTxn has committed and    *)
(* flushed version 1 of SeedKeys.                                          *)
Init ==
  /\ global_version = 1
  /\ version_chains = [k \in Keys |-> IF k \in SeedKeys
                         THEN <<[cv |-> 1, txn |-> SeedTxn]>> ELSE <<>>]
  /\ versions = [k \in Keys |-> IF k \in SeedKeys THEN 1 ELSE 0]
  /\ active_snapshots = [v \in Versions |-> 0]
  /\ record_index = versions
  /\ record_versions = [k \in Keys |-> IF k \in SeedKeys THEN {1} ELSE {}]
  /\ txn_state = [t \in TxnIds |-> IF t = SeedTxn
                    THEN [status |-> "Committed", snapshot |-> 0,
                          write_keys |-> SeedKeys, read_keys |-> {}, alloc |-> 1]
                    ELSE NoRecord]
  /\ write_set = [t \in TxnIds |-> IF t = SeedTxn THEN SeedKeys ELSE {}]
  /\ wal = [t \in TxnIds |-> IF t = SeedTxn
              THEN [status |-> "Committed", keys |-> SeedKeys]
              ELSE [status |-> "none", keys |-> {}]]
  /\ SiInit
  /\ memtable = [k \in Keys |-> 0]
  /\ pending = [t \in TxnIds |-> {}]
  /\ req = [h \in Handlers |-> Idle]
  /\ commit_lock = NoTxn
  /\ sweeper = NotSweeping
  /\ recovery = Serving
  /\ begun = {SeedTxn}
  /\ crashes = 0 /\ faults = 0
  /\ published = [t \in TxnIds |-> IF t = SeedTxn THEN 1 ELSE 0]
  /\ answers = [t \in TxnIds |-> {}]
  /\ observed = [t \in TxnIds |-> {}]
  /\ rw = {}

-----------------------------------------------------------------------------
Busy(t) == sweeper.t = t \/ \E h \in Handlers : req[h].t = t

(* h, idle, takes up a request for the operation op on transaction t.  A   *)
(* client knows an id once begin, whose last step is the log, returned it. *)
Accepts(h, op, t) ==
  /\ recovery.pc = "off"
  /\ op \in Ops
  /\ req[h] = Idle
  /\ op # "begin" => wal[t].status # "none"
  /\ Overlap \/ ~ Busy(t)

At(h, pc)   == req[h].pc = pc
Goto(h, pc) == req' = [req EXCEPT ![h].pc = pc]
Done(h)     == req' = [req EXCEPT ![h] = Idle]

(* PendingMap: what the hook will index of t, kept by the structured layer. *)
RecordPending(t, k) == pending' = [pending EXCEPT ![t] = @ \cup {k}]
TakePending(t) == pending' = [pending EXCEPT ![t] = {}]

Answer(t, a) == answers' = [answers EXCEPT ![t] = @ \cup {a}]

-----------------------------------------------------------------------------
(* begin: the snapshot pin, the Active record, the log.                    *)

BeginCapture(h, t) ==
  /\ Accepts(h, "begin", t)
  /\ t \notin begun
  /\ CaptureAndRegisterSnapshot
  /\ begun' = begun \cup {t}
  /\ req' = [req EXCEPT ![h] = [Idle EXCEPT !.pc = "begin_put", !.t = t,
                                            !.v = global_version]]
  /\ UNCHANGED <<mvcc_vars, txn_vars, si_vars, mem_vars, commit_lock, sweeper,
                 recovery, crashes, faults, ghost_vars>>

BeginPut(h) ==
  /\ At(h, "begin_put")
  /\ PutTxnState(req[h].t, NewActive(req[h].v))
  /\ Goto(h, "begin_wal")
  /\ UNCHANGED <<store_vars, write_set, wal, si_vars, mem_vars, commit_lock,
                 env_vars, ghost_vars>>

BeginWal(h) ==
  /\ At(h, "begin_wal")
  /\ SiBeginTxn(req[h].t)
  /\ AppendWalOpen(req[h].t)
  /\ Done(h)
  /\ UNCHANGED <<store_vars, txn_state, write_set, mem_vars, commit_lock,
                 env_vars, ghost_vars>>

(* The failure paths release the pin, and delete the record if it is there. *)
BeginUnpin(h) ==
  /\ At(h, "begin_unpin") \/ At(h, "begin_undo")
  /\ UnregisterSnapshot(req[h].v)
  /\ IF At(h, "begin_undo") THEN Goto(h, "begin_delete") ELSE Done(h)
  /\ UNCHANGED <<mvcc_vars, txn_vars, si_vars, mem_vars, commit_lock,
                 env_vars, ghost_vars>>

BeginDelete(h) ==
  /\ At(h, "begin_delete")
  /\ DeleteTxnState(req[h].t)
  /\ Done(h)
  /\ UNCHANGED <<store_vars, write_set, wal, si_vars, mem_vars, commit_lock,
                 env_vars, ghost_vars>>

-----------------------------------------------------------------------------
(***************************************************************************)
(* stage, read and heartbeat check that the transaction is Active on a     *)
(* copy of its record and later put the whole copy back.                   *)
(***************************************************************************)
RequireActive(h, op, t, k, pc) ==
  /\ Accepts(h, op, t)
  /\ HasStatus(t, {"Active"})
  /\ req' = [req EXCEPT ![h] = [Idle EXCEPT !.pc = pc, !.t = t, !.k = k,
                                            !.rec = txn_state[t]]]

StageRequest(h, t, k) ==
  /\ RequireActive(h, "stage", t, k, "stage_wal")
  /\ UNCHANGED <<store_vars, txn_vars, si_vars, mem_vars, commit_lock,
                 env_vars, ghost_vars>>

StageWal(h) ==
  /\ At(h, "stage_wal")
  /\ AppendWalOpen(req[h].t)
  /\ Goto(h, "stage_entry")
  /\ UNCHANGED <<store_vars, txn_state, write_set, si_vars, mem_vars,
                 commit_lock, env_vars, ghost_vars>>

StageEntry(h) ==
  /\ At(h, "stage_entry")
  /\ PutWriteEntry(req[h].t, req[h].k)
  /\ Goto(h, IF req[h].k \in req[h].rec.write_keys THEN "stage_lock"
                                                   ELSE "stage_keys")
  /\ UNCHANGED <<store_vars, txn_state, wal, si_vars, mem_vars, commit_lock,
                 env_vars, ghost_vars>>

StageKeys(h) ==
  /\ At(h, "stage_keys")
  /\ PutTxnState(req[h].t, [req[h].rec EXCEPT !.write_keys = @ \cup {req[h].k}])
  /\ Goto(h, "stage_lock")
  /\ UNCHANGED <<store_vars, write_set, wal, si_vars, mem_vars, commit_lock,
                 env_vars, ghost_vars>>

(* register_write, and the structured layer's pending record.              *)
StageLock(h) ==
  LET t == req[h].t
      k == req[h].k
  IN  /\ At(h, "stage_lock")
      /\ SiRegisterWrite(t, k)
      /\ RecordPending(t, k)
      /\ rw' = rw \cup {<<r, t>> : r \in readers_of[k] \ {t}}
      /\ Done(h)
      /\ UNCHANGED <<store_vars, txn_vars, memtable, commit_lock, env_vars,
                     published, answers, observed>>

(* Deviation: the memtable answers whatever the snapshot.                  *)
ReadRecordNewest(k, snapshot) ==
  IF memtable[k] # 0 THEN memtable[k]
  ELSE RecordVersionAtSnapshot(record_versions[k], snapshot)

(* The memtable, then the newest record row, at or below the snapshot.     *)
ReadRecord(k, snapshot) ==
  IF memtable[k] # 0 /\ memtable[k] <= snapshot THEN memtable[k]
  ELSE RecordVersionAtSnapshot(record_versions[k], snapshot)

(* get_record returns what it found; only a record that is there is        *)
(* registered with the coordinator.                                        *)
ReadRequest(h, t, k) ==
  LET v == ReadRecord(k, txn_state[t].snapshot)
  IN  /\ Accepts(h, "read", t)
      /\ HasStatus(t, {"Active"})
      /\ observed' = [observed EXCEPT ![t] = @ \cup {[k |-> k, v |-> v]}]
      /\ req' = IF v = 0 THEN req
                ELSE [req EXCEPT ![h] = [Idle EXCEPT !.pc = "read_edges",
                                           !.t = t, !.k = k, !.v = v]]
      /\ UNCHANGED <<store_vars, txn_vars, si_vars, mem_vars, commit_lock,
                     env_vars, published, answers, rw>>

ReadEdges(h) ==
  LET t == req[h].t
  IN  /\ At(h, "read_edges")
      /\ IF HasStatus(t, {"Active"})
         THEN req' = [req EXCEPT ![h].pc = "read_lock",
                                 ![h].rec = txn_state[t],
                                 ![h].edges = NewInEdges(req[h].k, req[h].v)]
         ELSE Done(h)
      /\ UNCHANGED <<store_vars, txn_vars, si_vars, mem_vars, commit_lock,
                     env_vars, ghost_vars>>

ReadLock(h) ==
  /\ At(h, "read_lock")
  /\ SiRegisterRead(req[h].t, req[h].k, req[h].edges)
  /\ IF req[h].k \in req[h].rec.read_keys THEN Done(h) ELSE Goto(h, "read_keys")
  /\ UNCHANGED <<store_vars, txn_vars, mem_vars, commit_lock, env_vars,
                 ghost_vars>>

ReadKeys(h) ==
  /\ At(h, "read_keys")
  /\ PutTxnState(req[h].t, [req[h].rec EXCEPT !.read_keys = @ \cup {req[h].k}])
  /\ Done(h)
  /\ UNCHANGED <<store_vars, write_set, wal, si_vars, mem_vars, commit_lock,
                 env_vars, ghost_vars>>

HeartbeatRequest(h, t) ==
  /\ RequireActive(h, "heartbeat", t, NoKey, "heartbeat_put")
  /\ UNCHANGED <<store_vars, txn_vars, si_vars, mem_vars, commit_lock,
                 env_vars, ghost_vars>>

HeartbeatPut(h) ==
  /\ At(h, "heartbeat_put")
  /\ PutTxnState(req[h].t, req[h].rec)
  /\ Done(h)
  /\ UNCHANGED <<store_vars, write_set, wal, si_vars, mem_vars, commit_lock,
                 env_vars, ghost_vars>>

-----------------------------------------------------------------------------
(***************************************************************************)
(* commit, under commit_lock.  A finished transaction answers at once; the *)
(* status check and the compare-and-set are one step, since a change of    *)
(* status between them is answered as the check would answer it.           *)
(***************************************************************************)
Takes(h) == commit_lock = NoTxn /\ commit_lock' = h
Releases(h) == commit_lock' = NoTxn /\ Done(h)

CommitReplay(h, t) ==
  /\ Accepts(h, "commit", t)
  /\ commit_lock = NoTxn
  /\ \/ /\ HasStatus(t, {"Committed"})
        /\ Answer(t, CommitVersionOf(txn_state[t]))
        /\ TakePending(t)
     \/ /\ HasStatus(t, {"Aborted"})
        /\ Answer(t, Refused)
        /\ UNCHANGED pending
  /\ UNCHANGED <<store_vars, txn_vars, si_vars, memtable, req, commit_lock,
                 env_vars, published, observed, rw>>

CommitRequest(h, t) ==
  /\ Accepts(h, "commit", t)
  /\ Takes(h)
  /\ CompareAndSetTxnStatus(t, "Active", "Committing")
  /\ req' = [req EXCEPT ![h] = [Idle EXCEPT !.pc = "load", !.t = t]]
  /\ UNCHANGED <<store_vars, write_set, wal, si_vars, mem_vars, env_vars,
                 ghost_vars>>

(* Load the record and the staged entries, look for a dangerous structure. *)
CommitLoad(h) ==
  LET t == req[h].t
  IN  /\ At(h, "load")
      /\ req' = [req EXCEPT ![h].rec = txn_state[t],
                            ![h].keys = write_set[t],
                            ![h].pc = IF FindDangerousStructure(t)
                                      THEN "ssi_wal" ELSE "alloc"]
      /\ UNCHANGED <<store_vars, txn_vars, si_vars, mem_vars, commit_lock,
                     env_vars, ghost_vars>>

(* The log says Aborted before the record does, for both kinds of conflict. *)
SsiWal(h) ==
  /\ At(h, "ssi_wal")
  /\ AppendWalOutcome(req[h].t, "Aborted")
  /\ Goto(h, "ssi_put")
  /\ UNCHANGED <<store_vars, txn_state, write_set, si_vars, mem_vars,
                 commit_lock, env_vars, ghost_vars>>

(* The put ends an SSI abort in the lock manager; a snapshot conflict does  *)
(* not tell the lock manager.                                               *)
SsiPut(h) ==
  /\ At(h, "ssi_put")
  /\ PutTxnState(req[h].t, [req[h].rec EXCEPT !.status = "Aborted"])
  /\ SiMarkAborted(req[h].t)
  /\ Goto(h, "ssi_unpin")
  /\ UNCHANGED <<store_vars, write_set, wal, mem_vars, commit_lock, env_vars,
                 ghost_vars>>

ConflictPut(h) ==
  /\ At(h, "conflict_put")
  /\ PutTxnState(req[h].t, [req[h].rec EXCEPT !.status = "Aborted"])
  /\ Goto(h, "conflict_unpin")
  /\ UNCHANGED <<store_vars, write_set, wal, si_vars, mem_vars, commit_lock,
                 env_vars, ghost_vars>>

ConflictUnpin(h) ==
  /\ At(h, "ssi_unpin") \/ At(h, "conflict_unpin")
  /\ UnregisterSnapshot(req[h].rec.snapshot)
  /\ Answer(req[h].t, Refused)
  /\ Releases(h)
  /\ UNCHANGED <<mvcc_vars, txn_vars, si_vars, mem_vars, env_vars, published,
                 observed, rw>>

(* One version for the whole transaction; an empty one takes none.         *)
CommitAlloc(h) ==
  /\ At(h, "alloc")
  /\ IF req[h].rec.write_keys = {}
     THEN /\ req' = [req EXCEPT ![h].pc = "check", ![h].v = req[h].rec.snapshot]
          /\ UNCHANGED global_version
     ELSE /\ NextGlobalVersion
          /\ req' = [req EXCEPT ![h].pc = "check", ![h].v = global_version']
  /\ UNCHANGED <<version_chains, versions, active_snapshots, record_index,
                 record_versions, txn_vars, si_vars, mem_vars, commit_lock,
                 env_vars, ghost_vars>>

(* Deviation: no conflict check before the log record.                     *)
CommitUnchecked(h) ==
  /\ At(h, "check")
  /\ AppendWalCommitting(req[h].t, req[h].rec.write_keys)
  /\ Goto(h, "alloc_put")
  /\ UNCHANGED <<store_vars, txn_state, write_set, si_vars, mem_vars,
                 commit_lock, env_vars, ghost_vars>>

(* The conflict check only reads chains, which no one else extends while   *)
(* commit_lock is held; the log record that follows is the step.           *)
CommitCheck(h) ==
  LET t    == req[h].t
      keys == req[h].rec.write_keys
      conflict == \E k \in keys :
                    SnapshotConflict(version_chains[k], req[h].rec.snapshot)
  IN  /\ At(h, "check")
      /\ \/ /\ conflict
            /\ AppendWalOutcome(t, "Aborted")
            /\ Goto(h, "conflict_put")
         \/ /\ ~ conflict
            /\ AppendWalCommitting(t, keys)
            /\ Goto(h, "alloc_put")
      /\ UNCHANGED <<store_vars, txn_state, write_set, si_vars, mem_vars,
                     commit_lock, env_vars, ghost_vars>>

(* Deviation: the version after the allocated one.                         *)
AllocOneLater(h) == req[h].v + 1

AllocOf(h) == IF req[h].rec.write_keys = {} THEN 0 ELSE req[h].v

AllocPut(h) ==
  LET rec == [req[h].rec EXCEPT !.alloc = AllocOf(h)]
  IN  /\ At(h, "alloc_put")
      /\ PutTxnState(req[h].t, rec)
      /\ req' = [req EXCEPT ![h].pc = "append", ![h].rec = rec]
      /\ UNCHANGED <<store_vars, write_set, wal, si_vars, mem_vars,
                     commit_lock, env_vars, ghost_vars>>

(* All entries in one redb transaction, or an error and no entry.          *)
CommitAppend(h) ==
  LET t     == req[h].t
      keys  == req[h].rec.write_keys
      entry == [cv |-> req[h].v, txn |-> t]
  IN  /\ At(h, "append")
      /\ \/ /\ BulkAppendable(keys, entry, req[h].rec.snapshot)
            /\ AppendChainEntriesBulk(keys, entry)
            /\ published' = [published EXCEPT ![t] = AllocOf(h)]
            /\ Goto(h, "versions")
         \/ /\ ~ BulkAppendable(keys, entry, req[h].rec.snapshot)
            /\ Goto(h, "reconcile")
            /\ UNCHANGED <<version_chains, published>>
      /\ UNCHANGED <<global_version, versions, active_snapshots, record_index,
                     record_versions, txn_vars, si_vars, mem_vars,
                     commit_lock, env_vars, answers, observed, rw>>

PutVersions(h) ==
  /\ At(h, "versions")
  /\ PutVersionsBulk(req[h].rec.write_keys, req[h].v)
  /\ Goto(h, "committed_wal")
  /\ UNCHANGED <<global_version, version_chains, active_snapshots,
                 record_index, record_versions, txn_vars, si_vars, mem_vars,
                 commit_lock, env_vars, ghost_vars>>

CommittedWal(h) ==
  /\ At(h, "committed_wal")
  /\ AppendWalOutcome(req[h].t, "Committed")
  /\ Goto(h, "committed_put")
  /\ UNCHANGED <<store_vars, txn_state, write_set, si_vars, mem_vars,
                 commit_lock, env_vars, ghost_vars>>

CommittedPut(h) ==
  /\ At(h, "committed_put")
  /\ PutTxnState(req[h].t, [req[h].rec EXCEPT !.status = "Committed"])
  /\ Goto(h, "memtable")
  /\ UNCHANGED <<store_vars, write_set, wal, si_vars, mem_vars, commit_lock,
                 env_vars, ghost_vars>>

(* One staged entry after another; readers run between them.               *)
PublishMemtable(h) ==
  /\ At(h, "memtable")
  /\ \E k \in req[h].keys :
       /\ memtable' = [memtable EXCEPT ![k] = req[h].v]
       /\ req' = [req EXCEPT ![h].keys = @ \ {k}]
  /\ UNCHANGED <<store_vars, txn_vars, si_vars, pending, commit_lock,
                 env_vars, ghost_vars>>

(* mark_committed, and the hook takes the pending records.                 *)
CommitMark(h) ==
  LET t == req[h].t
  IN  /\ At(h, "memtable") /\ req[h].keys = {}
      /\ SiMarkCommitted(t, req[h].v)
      /\ TakePending(t)
      /\ req' = [req EXCEPT ![h].pc = "hook", ![h].keys = pending[t]]
      /\ UNCHANGED <<store_vars, txn_vars, memtable, commit_lock, env_vars,
                     ghost_vars>>

(* The hook indexes one pending record per redb transaction; a record the  *)
(* commit did not publish gets version 0.                                  *)
CommitHook(h) ==
  /\ At(h, "hook")
  /\ \E k \in req[h].keys :
       /\ PutRecordIndexWithBody({k}, IF k \in req[h].rec.write_keys
                                      THEN req[h].v ELSE 0)
       /\ req' = [req EXCEPT ![h].keys = @ \ {k}]
  /\ UNCHANGED <<global_version, version_chains, versions, active_snapshots,
                 txn_vars, si_vars, mem_vars, commit_lock, env_vars, ghost_vars>>

CommitUnpin(h) ==
  /\ At(h, "hook") /\ req[h].keys = {}
  /\ UnregisterSnapshot(req[h].rec.snapshot)
  /\ Answer(req[h].t, req[h].v)
  /\ TakePending(req[h].t)
  /\ Releases(h)
  /\ UNCHANGED <<mvcc_vars, txn_vars, si_vars, memtable, env_vars, published,
                 observed, rw>>

-----------------------------------------------------------------------------
(***************************************************************************)
(* reconcile_failed_commit: after an error of a commit that set the status *)
(* to Committing.  The entries are in all chains or the transaction        *)
(* aborts.                                                                 *)
(***************************************************************************)
(* Deviation: a failed commit always aborts.                               *)
NeverPublished(t, rec) == FALSE

PublishedInChains(t, rec) ==
  /\ rec.alloc # 0
  /\ \A k \in rec.write_keys : \E i \in 1 .. Len(version_chains[k]) :
       version_chains[k][i] = [cv |-> rec.alloc, txn |-> t]

Reconcile(h) ==
  LET t == req[h].t
  IN  /\ At(h, "reconcile")
      /\ IF HasStatus(t, {"Committing"})
         THEN /\ req' = [req EXCEPT ![h].rec = txn_state[t],
                                    ![h].pc = IF PublishedInChains(t, txn_state[t])
                                              THEN "published_put"
                                              ELSE "unpublished_wal"]
              /\ UNCHANGED commit_lock
         ELSE Releases(h)
      /\ UNCHANGED <<store_vars, txn_vars, si_vars, mem_vars, env_vars, ghost_vars>>

PublishedPut(h) ==
  /\ At(h, "published_put")
  /\ PutTxnState(req[h].t, [req[h].rec EXCEPT !.status = "Committed"])
  /\ SiMarkCommitted(req[h].t, CommitVersionOf(req[h].rec))
  /\ Goto(h, "published_unpin")
  /\ UNCHANGED <<store_vars, write_set, wal, mem_vars, commit_lock, env_vars,
                 ghost_vars>>

UnpublishedWal(h) ==
  /\ At(h, "unpublished_wal")
  /\ AppendWalOutcome(req[h].t, "Aborted")
  /\ Goto(h, "unpublished_put")
  /\ UNCHANGED <<store_vars, txn_state, write_set, si_vars, mem_vars,
                 commit_lock, env_vars, ghost_vars>>

UnpublishedPut(h) ==
  /\ At(h, "unpublished_put")
  /\ PutTxnState(req[h].t, [req[h].rec EXCEPT !.status = "Aborted"])
  /\ SiMarkAborted(req[h].t)
  /\ Goto(h, "unpublished_unpin")
  /\ UNCHANGED <<store_vars, write_set, wal, mem_vars, commit_lock, env_vars,
                 ghost_vars>>

(* Deviation: the repair forgets the pin.                                  *)
ReconcileKeepsPin(h) ==
  /\ At(h, "published_unpin") \/ At(h, "unpublished_unpin")
  /\ Releases(h)
  /\ UNCHANGED <<store_vars, txn_vars, si_vars, mem_vars, env_vars, ghost_vars>>

ReconcileUnpin(h) ==
  /\ At(h, "published_unpin") \/ At(h, "unpublished_unpin")
  /\ UnregisterSnapshot(req[h].rec.snapshot)
  /\ Releases(h)
  /\ UNCHANGED <<mvcc_vars, txn_vars, si_vars, mem_vars, env_vars, ghost_vars>>

-----------------------------------------------------------------------------
(***************************************************************************)
(* abort, under commit_lock: Active to Aborted, then the staged entries,   *)
(* the log, the pin and the lock manager.  In any other status only the    *)
(* structured layer drops its pending records.                             *)
(***************************************************************************)
AbortRequest(h, t) ==
  /\ Accepts(h, "abort", t)
  /\ Takes(h)
  /\ CompareAndSetTxnStatus(t, "Active", "Aborted")
  /\ req' = [req EXCEPT ![h] = [Idle EXCEPT !.pc = "abort_drop", !.t = t,
                                            !.rec = txn_state[t]]]
  /\ UNCHANGED <<store_vars, write_set, wal, si_vars, mem_vars, env_vars,
                 ghost_vars>>

AbortReplay(h, t) ==
  /\ Accepts(h, "abort", t)
  /\ commit_lock = NoTxn
  /\ HasStatus(t, {"Committing", "Committed", "Aborted"})
  /\ TakePending(t)
  /\ UNCHANGED <<store_vars, txn_vars, si_vars, memtable, req, commit_lock,
                 env_vars, ghost_vars>>

AbortDrop(h) ==
  /\ At(h, "abort_drop")
  /\ DeleteWriteEntries(req[h].t)
  /\ Goto(h, "abort_wal")
  /\ UNCHANGED <<store_vars, txn_state, wal, si_vars, mem_vars, commit_lock,
                 env_vars, ghost_vars>>

AbortWal(h) ==
  /\ At(h, "abort_wal")
  /\ AppendWalOutcome(req[h].t, "Aborted")
  /\ Goto(h, "abort_unpin")
  /\ UNCHANGED <<store_vars, txn_state, write_set, si_vars, mem_vars,
                 commit_lock, env_vars, ghost_vars>>

AbortUnpin(h) ==
  /\ At(h, "abort_unpin")
  /\ UnregisterSnapshot(req[h].rec.snapshot)
  /\ SiMarkAborted(req[h].t)
  /\ TakePending(req[h].t)
  /\ Releases(h)
  /\ UNCHANGED <<mvcc_vars, txn_vars, memtable, env_vars, ghost_vars>>

-----------------------------------------------------------------------------
(***************************************************************************)
(* A store call fails: the operation takes its error path.  A commit that  *)
(* owns the Committing status is reconciled; the hook only logs.  The      *)
(* calls an error path makes, and every release of a pin, whose errors the *)
(* code drops, do not fail here.                                           *)
(***************************************************************************)
StoreFault(op) ==
  /\ op \in FaultOps
  /\ faults < MaxFaults /\ crashes + faults < MaxMishaps
  /\ faults' = faults + 1

Fault(op) ==
  /\ StoreFault(op)
  /\ UNCHANGED <<sweeper, recovery, begun, crashes>>

BeginFails(h) ==
  /\ Fault("begin")
  /\ \/ At(h, "begin_put") /\ Goto(h, "begin_unpin")
     \/ At(h, "begin_wal") /\ Goto(h, "begin_undo")
  /\ UNCHANGED <<store_vars, txn_vars, si_vars, mem_vars, commit_lock, ghost_vars>>

StageFails(h) ==
  /\ Fault("stage")
  /\ req[h].pc \in {"stage_wal", "stage_entry", "stage_keys", "read_keys",
                    "heartbeat_put"}
  /\ Done(h)
  /\ UNCHANGED <<store_vars, txn_vars, si_vars, mem_vars, commit_lock, ghost_vars>>

(* Deviation: the error of a commit is returned without a repair.          *)
CommitFailsUnrepaired(h) ==
  /\ Fault("commit")
  /\ req[h].pc \in {"load", "alloc", "check", "alloc_put", "append", "versions"}
  /\ Releases(h)
  /\ UNCHANGED <<store_vars, txn_vars, si_vars, mem_vars, ghost_vars>>

(* Deviation: a failing write of TBL_VERSIONS is passed over.              *)
CommitFailsMirrorIgnored(h) ==
  /\ Fault("commit")
  /\ At(h, "versions")
  /\ Goto(h, "committed_wal")
  /\ UNCHANGED <<store_vars, txn_vars, si_vars, mem_vars, commit_lock, ghost_vars>>

CommitFails(h) ==
  /\ Fault("commit")
  /\ req[h].pc \in {"load", "ssi_wal", "ssi_put", "alloc", "check",
                    "conflict_put", "alloc_put", "append", "versions",
                    "committed_wal", "committed_put"}
  /\ Goto(h, "reconcile")
  /\ UNCHANGED <<store_vars, txn_vars, si_vars, mem_vars, commit_lock, ghost_vars>>

HookFails(h) ==
  /\ Fault("hook")
  /\ At(h, "hook")
  /\ \E k \in req[h].keys : req' = [req EXCEPT ![h].keys = @ \ {k}]
  /\ UNCHANGED <<store_vars, txn_vars, si_vars, mem_vars, commit_lock, ghost_vars>>

AbortFails(h) ==
  /\ Fault("abort")
  /\ At(h, "abort_drop") \/ At(h, "abort_wal")
  /\ TakePending(req[h].t)
  /\ Releases(h)
  /\ UNCHANGED <<store_vars, txn_vars, si_vars, memtable, ghost_vars>>

-----------------------------------------------------------------------------
Request(h) ==
  \/ \E t \in TxnIds \ {SeedTxn} :
       \/ BeginCapture(h, t)
       \/ HeartbeatRequest(h, t)
       \/ CommitReplay(h, t)
       \/ CommitRequest(h, t)
       \/ AbortRequest(h, t)
       \/ AbortReplay(h, t)
  \/ \E t \in TxnIds, k \in Keys : StageRequest(h, t, k) \/ ReadRequest(h, t, k)

(* The steps a running request takes by itself.                            *)
Serve(h) ==
  \/ BeginPut(h) \/ BeginWal(h) \/ BeginUnpin(h) \/ BeginDelete(h)
  \/ StageWal(h) \/ StageEntry(h) \/ StageKeys(h) \/ StageLock(h)
  \/ ReadEdges(h) \/ ReadLock(h) \/ ReadKeys(h) \/ HeartbeatPut(h)
  \/ CommitLoad(h) \/ SsiWal(h) \/ SsiPut(h) \/ ConflictPut(h)
  \/ ConflictUnpin(h) \/ CommitAlloc(h) \/ CommitCheck(h) \/ AllocPut(h)
  \/ CommitAppend(h) \/ PutVersions(h) \/ CommittedWal(h) \/ CommittedPut(h)
  \/ PublishMemtable(h) \/ CommitMark(h) \/ CommitHook(h) \/ CommitUnpin(h)
  \/ Reconcile(h) \/ PublishedPut(h) \/ UnpublishedWal(h)
  \/ UnpublishedPut(h) \/ ReconcileUnpin(h)
  \/ AbortDrop(h) \/ AbortWal(h) \/ AbortUnpin(h)

Fails(h) ==
  BeginFails(h) \/ StageFails(h) \/ CommitFails(h) \/ HookFails(h) \/ AbortFails(h)

=============================================================================
