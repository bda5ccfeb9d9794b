--------------------------- MODULE TxnStepProofs ----------------------------
(***************************************************************************)
(* What each step of the transaction service does to the variables it      *)
(* writes, and what the program counter of a handler says about who holds  *)
(* commit_lock, what the request has loaded and which transactions are     *)
(* still being begun.  Every step of a request keeps the types, and        *)
(* touches the record and the log of its own transaction only.             *)
(***************************************************************************)
EXTENDS TxnSystem, StoreFacts, TLAPS

(* Time enough for each prover on a busy machine.                          *)
USE SMTT(20), ZenonT(30)

(***************************************************************************)
(* Entries carry natural numbers, as the chain lemmas require.             *)
(***************************************************************************)
LEMMA EntriesHaveVersions ==
  /\ \A e \in Entries : e.cv \in Nat
  /\ Versions \subseteq Nat
BY MaxVersionAssumption DEF Entries, Versions

(***************************************************************************)
(* The newest entry of a chain is one of its entries, and the version      *)
(* latest_commit_version answers is its version.                           *)
(***************************************************************************)
LEMMA NewestIsEntry ==
  ASSUME NEW E, NEW chain \in Seq(E), chain # <<>>
  PROVE  /\ chain[Len(chain)] \in EntriesOf(chain)
         /\ chain[Len(chain)] \in E
         /\ LatestCommitVersion(chain) = chain[Len(chain)].cv
<1>1. Len(chain) \in 1 .. Len(chain)
  OBVIOUS
<1> QED BY <1>1 DEF EntriesOf, LatestCommitVersion

(***************************************************************************)
(* Entries have the type of the chain.                                     *)
(***************************************************************************)
LEMMA EntriesOfType ==
  ASSUME NEW E, NEW chain \in Seq(E)
  PROVE  EntriesOf(chain) \subseteq E
BY DEF EntriesOf

(***************************************************************************)
(* append_chain_entries_bulk, on one chain, adds the entry and no other,   *)
(* and the entry is then the newest.                                       *)
(***************************************************************************)
LEMMA AppendEntryEntries ==
  ASSUME NEW chain \in Seq(Entries), NEW entry \in Entries
  PROVE  /\ AppendEntry(chain, entry) \in Seq(Entries)
         /\ AppendEntry(chain, entry) # <<>>
         /\ EntriesOf(AppendEntry(chain, entry)) = EntriesOf(chain) \cup {entry}
         /\ LatestCommitVersion(AppendEntry(chain, entry)) = entry.cv
         /\ AppendEntry(chain, entry)[Len(AppendEntry(chain, entry))] = entry
<1>1. CASE Duplicate(chain, entry)
  <2>1. chain # <<>> /\ AppendEntry(chain, entry) = chain
    BY <1>1 DEF AppendEntry, Duplicate
  <2>2. chain[Len(chain)] \in Entries /\ chain[Len(chain)] \in EntriesOf(chain)
    BY <2>1, NewestIsEntry
  <2>3. chain[Len(chain)] = entry
    BY <1>1, <2>2 DEF Duplicate, Entries
  <2> QED BY <2>1, <2>2, <2>3, NewestIsEntry
<1>2. CASE ~ Duplicate(chain, entry)
  <2> DEFINE new == Append(chain, entry)
  <2>1. AppendEntry(chain, entry) = new
    BY <1>2 DEF AppendEntry
  <2>2. /\ new \in Seq(Entries) /\ new # <<>>
        /\ Len(new) = Len(chain) + 1
        /\ Len(chain) \in Nat
        /\ \A i \in 1 .. Len(chain) : new[i] = chain[i]
        /\ new[Len(chain) + 1] = entry
    OBVIOUS
  <2> HIDE DEF new
  <2>3. ASSUME NEW e \in EntriesOf(new) PROVE e \in EntriesOf(chain) \cup {entry}
    <3>1. PICK i \in 1 .. Len(new) : e = new[i]
      BY DEF EntriesOf
    <3>2. i \in 1 .. Len(chain) \/ i = Len(chain) + 1
      BY <2>2
    <3> QED BY <2>2, <3>1, <3>2 DEF EntriesOf
  <2>4. ASSUME NEW e \in EntriesOf(chain) PROVE e \in EntriesOf(new)
    <3>1. PICK i \in 1 .. Len(chain) : e = chain[i]
      BY DEF EntriesOf
    <3>2. i \in 1 .. Len(new)
      BY <2>2
    <3> QED BY <2>2, <3>1, <3>2 DEF EntriesOf
  <2>5. entry \in EntriesOf(new)
    <3>1. Len(chain) + 1 \in 1 .. Len(new)
      BY <2>2
    <3> QED BY <2>2, <3>1 DEF EntriesOf
  <2> QED BY <2>1, <2>2, <2>3, <2>4, <2>5, NewestIsEntry
<1> QED BY <1>1, <1>2

(***************************************************************************)
(* Types of the small operations: pins, the version counter, TBL_VERSIONS  *)
(* and the record rows.                                                    *)
(***************************************************************************)
LEMMA StoreTypes ==
  ASSUME StoreTypeOK, NEW v \in Versions, NEW keys \in SUBSET Keys
  PROVE  /\ RegisterSnapshot(v) => active_snapshots' \in [Versions -> Nat]
         /\ UnregisterSnapshot(v) => active_snapshots' \in [Versions -> Nat]
         /\ NextGlobalVersion => /\ global_version' \in Versions
                                 /\ global_version' = global_version + 1
         /\ PutVersionsBulk(keys, v) => versions' \in [Keys -> Versions]
         /\ PutRecordIndexWithBody(keys, v) =>
              /\ record_index' \in [Keys -> Versions]
              /\ record_versions' \in [Keys -> SUBSET Versions]
<1> USE DEF StoreTypeOK
<1>1. ASSUME UnregisterSnapshot(v) PROVE active_snapshots' \in [Versions -> Nat]
  BY <1>1 DEF UnregisterSnapshot
<1>2. ASSUME NextGlobalVersion
      PROVE  global_version' \in Versions /\ global_version' = global_version + 1
  BY <1>2, MaxVersionAssumption DEF NextGlobalVersion, Versions
<1>3. ASSUME PutRecordIndexWithBody(keys, v)
      PROVE  /\ record_index' \in [Keys -> Versions]
             /\ record_versions' \in [Keys -> SUBSET Versions]
  BY <1>3 DEF PutRecordIndexWithBody
<1>4. ASSUME RegisterSnapshot(v) PROVE active_snapshots' \in [Versions -> Nat]
  BY <1>4 DEF RegisterSnapshot
<1>5. ASSUME PutVersionsBulk(keys, v) PROVE versions' \in [Keys -> Versions]
  BY <1>5 DEF PutVersionsBulk
<1> QED BY <1>1, <1>2, <1>3, <1>4, <1>5

(***************************************************************************)
(* append_chain_entries_bulk: the keys get the entry, as their newest.     *)
(***************************************************************************)
LEMMA AppendBulkSpec ==
  ASSUME StoreTypeOK, NEW keys \in SUBSET Keys, NEW entry \in Entries,
         AppendChainEntriesBulk(keys, entry)
  PROVE  /\ version_chains' \in [Keys -> Seq(Entries)]
         /\ \A k \in Keys \ keys : version_chains'[k] = version_chains[k]
         /\ \A k \in keys : Extends(version_chains'[k], version_chains[k], entry)
<1>1. version_chains' =
        [k \in Keys |-> IF k \in keys THEN AppendEntry(version_chains[k], entry)
                                      ELSE version_chains[k]]
  BY DEF AppendChainEntriesBulk
<1>2. \A k \in Keys : version_chains[k] \in Seq(Entries)
  BY DEF StoreTypeOK
<1>3. \A k \in Keys : AppendEntry(version_chains[k], entry) \in Seq(Entries)
  BY <1>2, AppendEntryEntries
<1>4. version_chains' \in [Keys -> Seq(Entries)]
  BY <1>1, <1>2, <1>3
<1>5. \A k \in Keys \ keys : version_chains'[k] = version_chains[k]
  BY <1>1
<1>6. ASSUME NEW k \in keys
      PROVE  Extends(version_chains'[k], version_chains[k], entry)
  <2>1. version_chains'[k] = AppendEntry(version_chains[k], entry)
    BY <1>1
  <2> DEFINE a == AppendEntry(version_chains[k], entry)
  <2>2. version_chains[k] \in Seq(Entries)
    BY <1>2
  <2>3. /\ EntriesOf(a) = EntriesOf(version_chains[k]) \cup {entry}
        /\ a # <<>> /\ a[Len(a)] = entry /\ LatestCommitVersion(a) = entry.cv
    BY Zenon, <2>2, AppendEntryEntries
  <2> QED BY <2>1, <2>3 DEF Extends
<1> QED BY <1>4, <1>5, <1>6

-----------------------------------------------------------------------------
(* The steps between commit_lock and its release.                          *)
LockedPcs == CommitPcs \cup RepairPcs \cup AbortPcs

(* The steps that work on a key, and on a copy of the state record.        *)
KeyPcs == StagePcs \cup ReadPcs

RecPcs == {"stage_wal", "stage_entry", "stage_keys", "read_lock", "read_keys",
           "heartbeat_put"} \cup (LockedPcs \ {"load", "reconcile"})

(* From the allocation of the version to the append.                       *)
AppendPcs == {"check", "alloc_put", "append"}

(* What the program counter of a handler says about its request.           *)
RequestOK(h) ==
  LET r == req[h]
  IN  /\ r.pc = "idle" => r = Idle
      /\ r.pc # "idle" => r.t \in TxnIds /\ recovery.pc = "off"
      /\ r.pc \in KeyPcs => r.k \in Keys
      /\ r.pc \in RecPcs => r.rec \in TxnStateRecord
      /\ r.pc \in LockedPcs => commit_lock = h
      /\ r.pc = "load" => txn_state[r.t] # NoRecord

(* No one but the sweeper works on a transaction that is being begun, and  *)
(* not before its record is there.                                         *)
BeginOK(h) ==
  LET t == req[h].t
  IN  req[h].pc \in BeginPcs =>
        /\ t \in begun
        /\ \A g \in Handlers \ {h} : req[g].t # t
        /\ sweeper.t = t => HasStatus(t, {"Aborted"})
        /\ wal[t].status = "none" \/ HasStatus(t, {"Aborted"})
        /\ req[h].pc \in {"begin_put", "begin_unpin"} => txn_state[t] = NoRecord

NotBegunOK ==
  \A t \in TxnIds \ begun :
    /\ txn_state[t] = NoRecord /\ wal[t].status = "none" /\ sweeper.t # t
    /\ \A h \in Handlers : req[h].t # t

SweeperOK ==
  /\ sweeper.pc = "idle" => sweeper = NotSweeping
  /\ sweeper.pc # "idle" => sweeper.t \in TxnIds /\ recovery.pc = "off"

RecoveryOK ==
  recovery.pc \notin {"off", "pick"} =>
    recovery.t \in TxnIds /\ txn_state[recovery.t] # NoRecord

ControlOK ==
  /\ \A h \in Handlers : RequestOK(h) /\ BeginOK(h)
  /\ NotBegunOK /\ SweeperOK /\ RecoveryOK

TInv == TypeOK /\ ControlOK

-----------------------------------------------------------------------------
(* What the operators that write one variable do to it.                    *)

(***************************************************************************)
(* A handler writes its own request and no other.                          *)
(***************************************************************************)
LEMMA ReqTo ==
  ASSUME req \in [Handlers -> Requests], NEW h \in Handlers, NEW r \in Requests,
         req' = [req EXCEPT ![h] = r]
  PROVE  /\ req' \in [Handlers -> Requests] /\ req'[h] = r
         /\ \A g \in Handlers \ {h} : req'[g] = req[g]
OBVIOUS

(* The request of h becomes the one with these fields, and no other        *)
(* request changes.                                                        *)
RequestBecomes(h, pc, t, k, rec, keys, edges, v) ==
  /\ req' \in [Handlers -> Requests]
  /\ \A g \in Handlers \ {h} : req'[g] = req[g]
  /\ req'[h].pc = pc /\ req'[h].t = t /\ req'[h].k = k /\ req'[h].rec = rec
  /\ req'[h].keys = keys /\ req'[h].edges = edges /\ req'[h].v = v

(***************************************************************************)
(* A step that only moves a handler on to its next call keeps what the     *)
(* handler has read and computed so far.                                   *)
(***************************************************************************)
LEMMA GotoSpec ==
  ASSUME req \in [Handlers -> Requests], NEW h \in Handlers, NEW pc \in Pcs,
         Goto(h, pc)
  PROVE  RequestBecomes(h, pc, req[h].t, req[h].k,
                        req[h].rec, req[h].keys, req[h].edges, req[h].v)
BY DEF RequestBecomes, Goto, Requests

(***************************************************************************)
(* A handler that has answered is idle again, and the others go on.        *)
(***************************************************************************)
LEMMA DoneSpec ==
  ASSUME req \in [Handlers -> Requests], NEW h \in Handlers, Done(h)
  PROVE  /\ req' \in [Handlers -> Requests] /\ req'[h] = Idle
         /\ \A g \in Handlers \ {h} : req'[g] = req[g]
BY MaxVersionAssumption DEF Done, Requests, Idle, Pcs, Versions

(***************************************************************************)
(* put_txn_state replaces the record of one transaction.                   *)
(***************************************************************************)
LEMMA PutTxnStateSpec ==
  ASSUME TxnStoreTypeOK, NEW t \in TxnIds, NEW rec \in TxnStateRecord,
         PutTxnState(t, rec)
  PROVE  /\ txn_state' \in [TxnIds -> TxnStateRecord \cup {NoRecord}]
         /\ txn_state'[t] = rec
         /\ \A u \in TxnIds \ {t} : txn_state'[u] = txn_state[u]
BY DEF PutTxnState, TxnStoreTypeOK

(***************************************************************************)
(* delete_txn_state removes the record of one transaction.                 *)
(***************************************************************************)
LEMMA DeleteTxnStateSpec ==
  ASSUME TxnStoreTypeOK, NEW t \in TxnIds, DeleteTxnState(t)
  PROVE  /\ txn_state' \in [TxnIds -> TxnStateRecord \cup {NoRecord}]
         /\ txn_state'[t] = NoRecord
         /\ \A u \in TxnIds \ {t} : txn_state'[u] = txn_state[u]
BY DEF DeleteTxnState, TxnStoreTypeOK

(***************************************************************************)
(* A record written back with another status keeps its snapshot, its       *)
(* keys and its allocated version.                                         *)
(***************************************************************************)
LEMMA WithStatus ==
  ASSUME NEW rec \in TxnStateRecord, NEW s \in TxnStatus
  PROVE  LET new == [rec EXCEPT !.status = s]
         IN  /\ new \in TxnStateRecord
             /\ new.status = s /\ new.snapshot = rec.snapshot
             /\ new.write_keys = rec.write_keys
             /\ new.read_keys = rec.read_keys /\ new.alloc = rec.alloc
BY DEF TxnStateRecord

(* The status of t goes from old to s, and nothing else changes.           *)
StatusSet(t, old, s) ==
  /\ txn_state' \in [TxnIds -> TxnStateRecord \cup {NoRecord}]
  /\ txn_state[t] \in TxnStateRecord /\ txn_state[t].status = old
  /\ HasStatus(t, {old})
  /\ txn_state'[t] \in TxnStateRecord /\ txn_state'[t] # NoRecord
  /\ txn_state'[t].status = s
  /\ txn_state'[t].snapshot = txn_state[t].snapshot
  /\ txn_state'[t].write_keys = txn_state[t].write_keys
  /\ txn_state'[t].alloc = txn_state[t].alloc
  /\ \A u \in TxnIds \ {t} : txn_state'[u] = txn_state[u]

(***************************************************************************)
(* compare_and_set_txn_status, when it finds the status it expects.        *)
(***************************************************************************)
LEMMA CompareAndSetSpec ==
  ASSUME TxnStoreTypeOK, NEW t \in TxnIds, NEW old, NEW s \in TxnStatus,
         CompareAndSetTxnStatus(t, old, s)
  PROVE  StatusSet(t, old, s)
<1> DEFINE new == [txn_state[t] EXCEPT !.status = s]
<1>1. /\ txn_state[t] \in TxnStateRecord /\ txn_state[t].status = old
      /\ HasStatus(t, {old})
  BY DEF CompareAndSetTxnStatus, HasStatus, TxnStoreTypeOK
<1>2. txn_state' = [txn_state EXCEPT ![t] = new]
  BY DEF CompareAndSetTxnStatus
<1>3. /\ new \in TxnStateRecord /\ new.status = s
      /\ new.snapshot = txn_state[t].snapshot
      /\ new.write_keys = txn_state[t].write_keys /\ new.alloc = txn_state[t].alloc
  BY <1>1, WithStatus
<1> HIDE DEF new
<1>4. new # NoRecord
  BY <1>3, CoordinatorAssumption
<1>5. /\ txn_state' \in [TxnIds -> TxnStateRecord \cup {NoRecord}]
      /\ txn_state'[t] = new
      /\ \A u \in TxnIds \ {t} : txn_state'[u] = txn_state[u]
  BY <1>2, <1>3 DEF TxnStoreTypeOK
<1> QED BY <1>1, <1>3, <1>4, <1>5 DEF StatusSet

(***************************************************************************)
(* append_wal for the log row of a begin or a stage: the fold of           *)
(* the log (WalRecovery) opens a transaction it has not seen, and leaves   *)
(* one that has a status alone.                                            *)
(***************************************************************************)
LEMMA AppendWalOpenSpec ==
  ASSUME TxnStoreTypeOK, NEW t \in TxnIds, AppendWalOpen(t)
  PROVE  /\ wal' \in [TxnIds -> WalFold]
         /\ wal'[t].status = IF wal[t].status = "none" THEN "Active"
                             ELSE wal[t].status
         /\ wal'[t].keys = wal[t].keys
         /\ \A u \in TxnIds \ {t} : wal'[u] = wal[u]
<1> DEFINE w == [wal[t] EXCEPT !.status = IF @ = "none" THEN "Active" ELSE @]
<1>1. wal' = [wal EXCEPT ![t] = w]
  BY DEF AppendWalOpen
<1>2. wal[t] \in WalFold
  BY DEF TxnStoreTypeOK
<1>3. /\ w \in WalFold /\ w.keys = wal[t].keys
      /\ w.status = IF wal[t].status = "none" THEN "Active" ELSE wal[t].status
  BY <1>2 DEF WalFold, TxnStatus
<1> QED BY <1>1, <1>3 DEF TxnStoreTypeOK

(***************************************************************************)
(* append_wal for the Committing row: the fold of the log has the status   *)
(* and the keys of that row.                                               *)
(***************************************************************************)
LEMMA AppendWalCommittingSpec ==
  ASSUME TxnStoreTypeOK, NEW t \in TxnIds, NEW keys \in SUBSET Keys,
         AppendWalCommitting(t, keys)
  PROVE  /\ wal' \in [TxnIds -> WalFold]
         /\ wal'[t].status = "Committing" /\ wal'[t].keys = keys
         /\ \A u \in TxnIds \ {t} : wal'[u] = wal[u]
BY DEF AppendWalCommitting, TxnStoreTypeOK, WalFold, TxnStatus

(***************************************************************************)
(* append_wal for a Committed or Aborted row: the fold of the log takes    *)
(* the status and keeps the keys.                                          *)
(***************************************************************************)
LEMMA AppendWalOutcomeSpec ==
  ASSUME TxnStoreTypeOK, NEW t \in TxnIds, NEW s \in TxnStatus,
         AppendWalOutcome(t, s)
  PROVE  /\ wal' \in [TxnIds -> WalFold]
         /\ wal'[t].status = s /\ wal'[t].keys = wal[t].keys
         /\ \A u \in TxnIds \ {t} : wal'[u] = wal[u]
<1>1. wal' = [wal EXCEPT ![t] = [wal[t] EXCEPT !.status = s]]
  BY DEF AppendWalOutcome
<1>2. wal[t] \in WalFold
  BY DEF TxnStoreTypeOK
<1>3. LET w == [wal[t] EXCEPT !.status = s]
      IN  w \in WalFold /\ w.status = s /\ w.keys = wal[t].keys
  BY <1>2 DEF WalFold
<1> QED BY <1>1, <1>3 DEF TxnStoreTypeOK

(* The operations of the SSI tables on transaction t keep their types.     *)
SiTypesKept(t) ==
  /\ SiBeginTxn(t) => SiTypeOK'
  /\ \A k \in Keys, E \in SUBSET TxnIds :
       SiRegisterRead(t, k, E) => SiTypeOK'
  /\ \A k \in Keys : SiRegisterWrite(t, k) => SiTypeOK'
  /\ \A v \in Nat : SiMarkCommitted(t, v) => SiTypeOK'
  /\ SiMarkAborted(t) => SiTypeOK'

(***************************************************************************)
(* begin_txn, register_read, register_write, mark_committed and            *)
(* mark_aborted of si_lock_table.rs.                                       *)
(***************************************************************************)
LEMMA SiTypes ==
  ASSUME SiTypeOK, NEW t \in TxnIds
  PROVE  SiTypesKept(t)
<1> USE DEF SiTypeOK
<1>0. \A u \in TxnIds : by_txn[u] \in SiTxnLocks
  OBVIOUS
<1>1. ASSUME SiBeginTxn(t) PROVE SiTypeOK'
  <2>1. [NoLocks EXCEPT !.phase = "Active"] \in SiTxnLocks
    BY DEF NoLocks, SiTxnLocks
  <2> QED BY <1>1, <2>1 DEF SiBeginTxn
<1>2. ASSUME NEW k \in Keys, NEW E \in SUBSET TxnIds, SiRegisterRead(t, k, E)
      PROVE  SiTypeOK'
  <2>1. [by_txn[t] EXCEPT !.in_edges = @ \cup E] \in SiTxnLocks
    BY <1>0 DEF SiTxnLocks
  <2>2. by_txn' \in [TxnIds -> SiTxnLocks]
    <3>1. by_txn' = by_txn
          \/ by_txn' = [by_txn EXCEPT ![t] = [by_txn[t] EXCEPT !.in_edges = @ \cup E]]
      BY <1>2 DEF SiRegisterRead
    <3> QED BY Zenon, <2>1, <3>1
  <2> QED BY <1>2, <2>2 DEF SiRegisterRead
<1>3. ASSUME NEW k \in Keys, SiRegisterWrite(t, k) PROVE SiTypeOK'
  <2> DEFINE readers == readers_of[k] \ {t}
             own == [by_txn[t] EXCEPT !.out_edges = @ \cup readers,
                                      !.writes = @ \cup {k}]
             mirror(r) == [by_txn[r] EXCEPT !.in_edges = @ \cup {t}]
  <2>1. own \in SiTxnLocks
    <3> DEFINE half == [by_txn[t] EXCEPT !.out_edges = @ \cup readers]
    <3>1. half \in SiTxnLocks
      BY <1>0 DEF SiTxnLocks
    <3>2. own = [half EXCEPT !.writes = @ \cup {k}]
      OBVIOUS
    <3> HIDE DEF half, own
    <3> QED BY <3>1, <3>2 DEF SiTxnLocks
  <2>2. \A r \in TxnIds : mirror(r) \in SiTxnLocks
    BY <1>0 DEF SiTxnLocks
  <2>3. by_txn' = [r \in TxnIds |->
                      IF ~ Tracked(r) THEN by_txn[r]
                      ELSE IF r = t THEN own
                      ELSE IF r \in readers THEN mirror(r)
                      ELSE by_txn[r]]
    BY <1>3 DEF SiRegisterWrite
  <2> HIDE DEF own, mirror, readers
  <2>4. by_txn' \in [TxnIds -> SiTxnLocks]
    BY <1>0, <2>1, <2>2, <2>3
  <2>5. [txn |-> t, cv |-> 0] \in [txn : TxnIds, cv : Nat]
    OBVIOUS
  <2>6. writers_of' = [writers_of EXCEPT ![k] = @ \cup {[txn |-> t, cv |-> 0]}]
    BY <1>3 DEF SiRegisterWrite
  <2>7. writers_of' \in [Keys -> SUBSET [txn : TxnIds, cv : Nat]]
    BY <2>5, <2>6
  <2>8. readers_of' = readers_of
    BY <1>3 DEF SiRegisterWrite
  <2> QED BY <2>4, <2>7, <2>8
<1>4. ASSUME NEW v \in Nat, SiMarkCommitted(t, v) PROVE SiTypeOK'
  <2> DEFINE commit(w) == IF w.txn = t THEN [w EXCEPT !.cv = v] ELSE w
             done == [by_txn[t] EXCEPT !.phase = "Committed"]
             mirror(r) == IF r \in by_txn[t].out_edges
                          THEN [by_txn[r] EXCEPT !.in_edges = @ \cup {t}]
                          ELSE by_txn[r]
  <2>1. done \in SiTxnLocks
    BY <1>0 DEF SiTxnLocks
  <2>2. \A r \in TxnIds : mirror(r) \in SiTxnLocks
    BY <1>0 DEF SiTxnLocks
  <2>3. by_txn' = [r \in TxnIds |-> IF ~ Tracked(r) THEN by_txn[r]
                                    ELSE IF r = t THEN done ELSE mirror(r)]
    BY <1>4 DEF SiMarkCommitted
  <2>4. \A w \in [txn : TxnIds, cv : Nat] : commit(w) \in [txn : TxnIds, cv : Nat]
    OBVIOUS
  <2>5. writers_of' = [k \in Keys |-> IF k \in by_txn[t].writes
                                      THEN {commit(w) : w \in writers_of[k]}
                                      ELSE writers_of[k]]
    BY <1>4 DEF SiMarkCommitted
  <2> HIDE DEF commit, done, mirror
  <2>6. by_txn' \in [TxnIds -> SiTxnLocks]
    BY <1>0, <2>1, <2>2, <2>3
  <2>7. writers_of' \in [Keys -> SUBSET [txn : TxnIds, cv : Nat]]
    BY <2>4, <2>5
  <2>8. readers_of' = readers_of
    BY <1>4 DEF SiMarkCommitted
  <2> QED BY <2>6, <2>7, <2>8
<1>5. ASSUME SiMarkAborted(t) PROVE SiTypeOK'
  <2> DEFINE without(r) == [by_txn[r] EXCEPT !.in_edges = @ \ {t},
                                             !.out_edges = @ \ {t}]
  <2>1. ASSUME NEW r \in TxnIds PROVE without(r) \in SiTxnLocks
    <3> DEFINE half == [by_txn[r] EXCEPT !.in_edges = @ \ {t}]
    <3>1. half \in SiTxnLocks
      BY <1>0 DEF SiTxnLocks
    <3>2. without(r) = [half EXCEPT !.out_edges = @ \ {t}]
      OBVIOUS
    <3> HIDE DEF half, without
    <3> QED BY <3>1, <3>2 DEF SiTxnLocks
  <2>2. NoLocks \in SiTxnLocks
    BY DEF NoLocks, SiTxnLocks
  <2>3. by_txn' = [r \in TxnIds |-> IF r = t THEN NoLocks ELSE without(r)]
    BY Zenon, <1>5 DEF SiMarkAborted
  <2> HIDE DEF without
  <2>4. by_txn' \in [TxnIds -> SiTxnLocks]
    BY <2>1, <2>2, <2>3
  <2>5. /\ readers_of' \in [Keys -> SUBSET TxnIds]
        /\ writers_of' \in [Keys -> SUBSET [txn : TxnIds, cv : Nat]]
    BY Zenon, <1>5 DEF SiMarkAborted
  <2> QED BY <2>4, <2>5
<1> QED BY <1>1, <1>2, <1>3, <1>4, <1>5 DEF SiTypesKept

-----------------------------------------------------------------------------
(***************************************************************************)
(* A step of a request that is under way, other than begin: it moves its   *)
(* own request on or ends it, gives up commit_lock only if it has it, and  *)
(* touches the record and the log of no other transaction.                 *)
(***************************************************************************)
MovesOn(h) ==
  /\ req'[h].t = req[h].t /\ commit_lock' = commit_lock
  /\ req'[h].pc \notin BeginPcs \cup {"idle", "load"}
  /\ req'[h].pc \in KeyPcs => req'[h].k \in Keys
  /\ req'[h].pc \in RecPcs => req'[h].rec \in TxnStateRecord
  /\ req'[h].pc \in LockedPcs => req[h].pc \in LockedPcs
  /\ req'[h].pc \in AppendPcs => req[h].pc \in {"alloc", "check", "alloc_put"}

ReqStep(h) ==
  /\ req' \in [Handlers -> Requests]
  /\ commit_lock' \in Handlers \cup {NoTxn}
  /\ req[h].pc \notin BeginPcs \cup {"idle"}
  /\ \A g \in Handlers \ {h} : req'[g] = req[g]
  /\ req'[h] = Idle \/ MovesOn(h)
  /\ \/ commit_lock' = commit_lock
     \/ commit_lock' = NoTxn /\ req[h].pc \in LockedPcs

WorkStep(h) ==
  /\ ReqStep(h)
  /\ \A t \in TxnIds :
       /\ t # req[h].t => txn_state'[t] = txn_state[t] /\ wal'[t] = wal[t]
       /\ txn_state[t] # NoRecord => txn_state'[t] # NoRecord
  /\ UNCHANGED <<sweeper, recovery, begun>>

(* The request goes from step p to step q and keeps what it holds.         *)
PcStep(p, q) ==
  /\ p \notin BeginPcs \cup {"idle"}
  /\ q \in Pcs /\ q \notin BeginPcs \cup {"idle", "load"}
  /\ q \in KeyPcs => p \in KeyPcs
  /\ q \in RecPcs => p \in RecPcs
  /\ q \in LockedPcs => p \in LockedPcs
  /\ q \in AppendPcs => p \in {"alloc", "check", "alloc_put"}

(* The steps of stage, read, commit, the repair and abort, in the order of *)
(* coordinator.rs.                                                         *)
PcTable ==
  /\ PcStep("stage_wal", "stage_entry")
  /\ PcStep("stage_entry", "stage_lock") /\ PcStep("stage_entry", "stage_keys")
  /\ PcStep("stage_keys", "stage_lock") /\ PcStep("read_lock", "read_keys")
  /\ PcStep("ssi_wal", "ssi_put") /\ PcStep("ssi_put", "ssi_unpin")
  /\ PcStep("conflict_put", "conflict_unpin")
  /\ PcStep("check", "conflict_put") /\ PcStep("check", "alloc_put")
  /\ PcStep("append", "versions") /\ PcStep("append", "reconcile")
  /\ PcStep("versions", "committed_wal")
  /\ PcStep("committed_wal", "committed_put")
  /\ PcStep("committed_put", "memtable")
  /\ PcStep("published_put", "published_unpin")
  /\ PcStep("unpublished_wal", "unpublished_put")
  /\ PcStep("unpublished_put", "unpublished_unpin")
  /\ PcStep("abort_drop", "abort_wal") /\ PcStep("abort_wal", "abort_unpin")
  /\ \A p \in {"load", "ssi_wal", "ssi_put", "alloc", "check", "conflict_put",
               "alloc_put", "append", "versions", "committed_wal",
               "committed_put"} : PcStep(p, "reconcile")

(***************************************************************************)
(* None of these steps needs more than its predecessor holds.              *)
(***************************************************************************)
LEMMA PcSteps == PcTable
BY ZenonT(60) DEF PcTable, PcStep, AppendPcs, Pcs, BeginPcs, StagePcs, ReadPcs,
             CommitPcs, RepairPcs, AbortPcs, LockedPcs, KeyPcs, RecPcs

(***************************************************************************)
(* Moving on to the next step with the same request.                       *)
(***************************************************************************)
LEMMA GotoStep ==
  ASSUME TInv, NEW h \in Handlers, NEW q, PcStep(req[h].pc, q), Goto(h, q),
         commit_lock' = commit_lock
  PROVE  ReqStep(h)
<1>1. req \in [Handlers -> Requests] /\ commit_lock \in Handlers \cup {NoTxn}
  BY DEF TInv, TypeOK
<1>2. /\ req[h].pc \notin BeginPcs \cup {"idle"}
      /\ q \in Pcs /\ q \notin BeginPcs \cup {"idle", "load"}
      /\ q \in KeyPcs => req[h].k \in Keys
      /\ q \in RecPcs => req[h].rec \in TxnStateRecord
      /\ q \in LockedPcs => req[h].pc \in LockedPcs
      /\ q \in AppendPcs => req[h].pc \in {"alloc", "check", "alloc_put"}
  BY DEF TInv, ControlOK, RequestOK, PcStep
<1>3. /\ req' \in [Handlers -> Requests]
      /\ \A g \in Handlers \ {h} : req'[g] = req[g]
      /\ req'[h].pc = q /\ req'[h].t = req[h].t /\ req'[h].k = req[h].k
      /\ req'[h].rec = req[h].rec
  BY <1>1, <1>2, GotoSpec DEF RequestBecomes
<1>4. MovesOn(h)
  BY <1>2, <1>3 DEF MovesOn
<1> QED BY <1>1, <1>2, <1>3, <1>4 DEF ReqStep

(***************************************************************************)
(* Ending a request, with or without commit_lock.                          *)
(***************************************************************************)
LEMMA DoneStep ==
  ASSUME TInv, NEW h \in Handlers, Done(h),
         req[h].pc \notin BeginPcs \cup {"idle"},
         \/ commit_lock' = commit_lock
         \/ commit_lock' = NoTxn /\ req[h].pc \in LockedPcs
  PROVE  ReqStep(h)
<1>1. req \in [Handlers -> Requests] /\ commit_lock \in Handlers \cup {NoTxn}
  BY DEF TInv, TypeOK
<1>2. /\ req' \in [Handlers -> Requests] /\ req'[h] = Idle
      /\ \A g \in Handlers \ {h} : req'[g] = req[g]
  BY <1>1, DoneSpec
<1> QED BY <1>1, <1>2 DEF ReqStep

(***************************************************************************)
(* Moving on with a request in which the step has noted something.         *)
(***************************************************************************)
LEMMA NoteStep ==
  ASSUME TInv, NEW h \in Handlers, req' \in [Handlers -> Requests],
         \A g \in Handlers \ {h} : req'[g] = req[g],
         req[h].pc \notin BeginPcs \cup {"idle"}, MovesOn(h)
  PROVE  ReqStep(h)
<1>1. commit_lock \in Handlers \cup {NoTxn}
  BY DEF TInv, TypeOK
<1>2. commit_lock' = commit_lock
  BY DEF MovesOn
<1> QED BY <1>1, <1>2 DEF ReqStep

(* What a request holds at each step, spelled out.                         *)
Held(h) ==
  /\ req[h] \in Requests
  /\ req[h].pc # "idle" => req[h].t \in TxnIds /\ recovery.pc = "off"
  /\ req[h].pc \in {"stage_wal", "stage_entry", "stage_keys", "stage_lock",
                    "read_edges", "read_lock", "read_keys"}
       => req[h].k \in Keys
  /\ req[h].pc \in {"stage_wal", "stage_entry", "stage_keys", "read_lock",
                    "read_keys", "heartbeat_put", "ssi_wal", "ssi_put",
                    "ssi_unpin", "alloc", "check", "conflict_put",
                    "conflict_unpin", "alloc_put", "append", "versions",
                    "committed_wal", "committed_put", "memtable", "hook",
                    "published_put", "published_unpin", "unpublished_wal",
                    "unpublished_put", "unpublished_unpin", "abort_drop",
                    "abort_wal", "abort_unpin"}
       => /\ req[h].rec \in TxnStateRecord
          /\ req[h].rec.snapshot \in Versions /\ req[h].rec.alloc \in Versions
          /\ req[h].rec.write_keys \in SUBSET Keys
          /\ req[h].rec.read_keys \in SUBSET Keys
  /\ req[h].keys \in SUBSET Keys /\ req[h].v \in Versions
  /\ req[h].edges \in SUBSET TxnIds

(***************************************************************************)
(* A call that fails counts against the bound on failing calls.            *)
(***************************************************************************)
LEMMA FaultCounts ==
  ASSUME TypeOK, NEW op, StoreFault(op)
  PROVE  faults' \in 0 .. MaxFaults
<1>1. /\ faults \in 0 .. MaxFaults /\ faults < MaxFaults
      /\ faults' = faults + 1
  BY Zenon DEF TypeOK, StoreFault
<1>2. MaxFaults \in Nat
  BY Zenon, CoordinatorAssumption
<1> QED BY <1>1, <1>2

(***************************************************************************)
(* A request holds what its program counter says.                          *)
(***************************************************************************)
LEMMA Holds ==
  ASSUME TInv, NEW h \in Handlers
  PROVE  Held(h)
<1>1. req[h] \in Requests /\ RequestOK(h)
  BY DEF TInv, TypeOK, ControlOK
<1>2. ASSUME req[h].rec \in TxnStateRecord
      PROVE  /\ req[h].rec.snapshot \in Versions /\ req[h].rec.alloc \in Versions
             /\ req[h].rec.write_keys \in SUBSET Keys
             /\ req[h].rec.read_keys \in SUBSET Keys
  BY <1>2 DEF TxnStateRecord
<1>3. /\ req[h].pc # "idle" => req[h].t \in TxnIds /\ recovery.pc = "off"
      /\ req[h].pc \in KeyPcs => req[h].k \in Keys
      /\ req[h].pc \in RecPcs => req[h].rec \in TxnStateRecord
  BY <1>1 DEF RequestOK
<1>4. /\ req[h].keys \in SUBSET Keys /\ req[h].v \in Versions
      /\ req[h].edges \in SUBSET TxnIds
  BY <1>1 DEF Requests
<1> QED BY <1>1, <1>2, <1>3, <1>4
        DEF Held, KeyPcs, RecPcs, LockedPcs, StagePcs, ReadPcs, CommitPcs, RepairPcs,
            AbortPcs

StepOK(h) == TypeOK' /\ WorkStep(h)

(***************************************************************************)
(* A step that puts a state record back.                                   *)
(***************************************************************************)
LEMMA PutStep ==
  ASSUME TInv, NEW h \in Handlers, ReqStep(h), req[h].t \in TxnIds,
         NEW rec \in TxnStateRecord, PutTxnState(req[h].t, rec),
         UNCHANGED <<wal, sweeper, recovery, begun>>
  PROVE  /\ txn_state' \in [TxnIds -> TxnStateRecord \cup {NoRecord}]
         /\ WorkStep(h)
<1>1. /\ txn_state' \in [TxnIds -> TxnStateRecord \cup {NoRecord}]
      /\ txn_state'[req[h].t] = rec
      /\ \A u \in TxnIds \ {req[h].t} : txn_state'[u] = txn_state[u]
  BY Zenon, PutTxnStateSpec DEF TInv, TypeOK
<1>2. rec # NoRecord
  BY CoordinatorAssumption
<1> QED BY <1>1, <1>2 DEF WorkStep

(***************************************************************************)
(* A step that writes a log record.                                        *)
(***************************************************************************)
LEMMA WalStep ==
  ASSUME TInv, NEW h \in Handlers, ReqStep(h), req[h].t \in TxnIds,
         \/ AppendWalOpen(req[h].t)
         \/ \E s \in TxnStatus : AppendWalOutcome(req[h].t, s)
         \/ \E keys \in SUBSET Keys : AppendWalCommitting(req[h].t, keys),
         UNCHANGED <<txn_state, sweeper, recovery, begun>>
  PROVE  /\ wal' \in [TxnIds -> WalFold]
         /\ WorkStep(h)
<1>1. /\ wal' \in [TxnIds -> WalFold]
      /\ \A u \in TxnIds \ {req[h].t} : wal'[u] = wal[u]
  <2>0. TxnStoreTypeOK
    BY DEF TInv, TypeOK
  <2>1. CASE AppendWalOpen(req[h].t)
    BY Zenon, <2>0, <2>1, AppendWalOpenSpec
  <2>2. ASSUME NEW s \in TxnStatus, AppendWalOutcome(req[h].t, s)
        PROVE  /\ wal' \in [TxnIds -> WalFold]
               /\ \A u \in TxnIds \ {req[h].t} : wal'[u] = wal[u]
    BY Zenon, <2>0, <2>2, AppendWalOutcomeSpec
  <2>3. ASSUME NEW keys \in SUBSET Keys, AppendWalCommitting(req[h].t, keys)
        PROVE  /\ wal' \in [TxnIds -> WalFold]
               /\ \A u \in TxnIds \ {req[h].t} : wal'[u] = wal[u]
    BY <2>0, <2>3, AppendWalCommittingSpec
  <2> QED BY Zenon, <2>1, <2>2, <2>3
<1> QED BY <1>1 DEF WorkStep

(* register_read: the record and the edges found.                          *)
SetPcRecEdges(h, pc, rec, edges) ==
  req' = [req EXCEPT ![h].pc = pc, ![h].rec = rec, ![h].edges = edges]

SetPcRecEdgesOK(h) ==
  \A pc \in Pcs, rec \in TxnStateRecord, edges \in SUBSET TxnIds :
    SetPcRecEdges(h, pc, rec, edges) =>
      RequestBecomes(h, pc, req[h].t, req[h].k, rec, req[h].keys, edges,
                     req[h].v)

(* commit_inner: the record and the staged keys loaded.                    *)
SetRecKeysPc(h, rec, keys, pc) ==
  req' = [req EXCEPT ![h].rec = rec, ![h].keys = keys, ![h].pc = pc]

SetRecKeysPcOK(h) ==
  \A rec \in TxnStateRecord, keys \in SUBSET Keys, pc \in Pcs :
    SetRecKeysPc(h, rec, keys, pc) =>
      RequestBecomes(h, pc, req[h].t, req[h].k, rec, keys, req[h].edges,
                     req[h].v)

(* commit_inner: the version allocated.                                    *)
SetPcV(h, pc, v) ==
  req' = [req EXCEPT ![h].pc = pc, ![h].v = v]

SetPcVOK(h) ==
  \A pc \in Pcs, v \in Versions :
    SetPcV(h, pc, v) =>
      RequestBecomes(h, pc, req[h].t, req[h].k, req[h].rec, req[h].keys,
                     req[h].edges, v)

(* commit_inner: the record with its allocated version.                    *)
SetPcRec(h, pc, rec) ==
  req' = [req EXCEPT ![h].pc = pc, ![h].rec = rec]

SetPcRecOK(h) ==
  \A pc \in Pcs, rec \in TxnStateRecord :
    SetPcRec(h, pc, rec) =>
      RequestBecomes(h, pc, req[h].t, req[h].k, rec, req[h].keys, req[h].edges,
                     req[h].v)

(* reconcile_failed_commit: the record read again.                         *)
SetRecPc(h, rec, pc) ==
  req' = [req EXCEPT ![h].rec = rec, ![h].pc = pc]

SetRecPcOK(h) ==
  \A rec \in TxnStateRecord, pc \in Pcs :
    SetRecPc(h, rec, pc) =>
      RequestBecomes(h, pc, req[h].t, req[h].k, rec, req[h].keys, req[h].edges,
                     req[h].v)

(* The hook takes the pending records.                                     *)
SetPcKeys(h, pc, keys) ==
  req' = [req EXCEPT ![h].pc = pc, ![h].keys = keys]

SetPcKeysOK(h) ==
  \A pc \in Pcs, keys \in SUBSET Keys :
    SetPcKeys(h, pc, keys) =>
      RequestBecomes(h, pc, req[h].t, req[h].k, req[h].rec, keys, req[h].edges,
                     req[h].v)

(* One key of several is done.                                             *)
SetKeys(h, keys) ==
  req' = [req EXCEPT ![h].keys = keys]

SetKeysOK(h) ==
  \A keys \in SUBSET Keys :
    SetKeys(h, keys) =>
      RequestBecomes(h, req[h].pc, req[h].t, req[h].k, req[h].rec, keys,
                     req[h].edges, req[h].v)

(* begin: the snapshot it captured.                                        *)
StartsBegin(h, pc, t, v) ==
  req' = [req EXCEPT ![h] = [Idle EXCEPT !.pc = pc, !.t = t, !.v = v]]

StartsBeginOK(h) ==
  \A pc \in Pcs, t \in TxnIds, v \in Versions :
    StartsBegin(h, pc, t, v) =>
      RequestBecomes(h, pc, t, NoKey, NoRecord, {}, {}, v)

(* stage and heartbeat: the record they read.                              *)
StartsStage(h, pc, t, k, rec) ==
  req' = [req EXCEPT ![h] = [Idle EXCEPT !.pc = pc, !.t = t, !.k = k,
    !.rec = rec]]

StartsStageOK(h) ==
  \A pc \in Pcs, t \in TxnIds, k \in Keys \cup {NoKey},
     rec \in TxnStateRecord :
    StartsStage(h, pc, t, k, rec) =>
      RequestBecomes(h, pc, t, k, rec, {}, {}, 0)

(* read: the version it found.                                             *)
StartsRead(h, pc, t, k, v) ==
  req' = [req EXCEPT ![h] = [Idle EXCEPT !.pc = pc, !.t = t, !.k = k, !.v = v]]

StartsReadOK(h) ==
  \A pc \in Pcs, t \in TxnIds, k \in Keys \cup {NoKey}, v \in Versions :
    StartsRead(h, pc, t, k, v) =>
      RequestBecomes(h, pc, t, k, NoRecord, {}, {}, v)

(* commit: the transaction alone.                                          *)
StartsCommit(h, pc, t) ==
  req' = [req EXCEPT ![h] = [Idle EXCEPT !.pc = pc, !.t = t]]

StartsCommitOK(h) ==
  \A pc \in Pcs, t \in TxnIds :
    StartsCommit(h, pc, t) =>
      RequestBecomes(h, pc, t, NoKey, NoRecord, {}, {}, 0)

(* abort: the record it read.                                              *)
StartsAbort(h, pc, t, rec) ==
  req' = [req EXCEPT ![h] = [Idle EXCEPT !.pc = pc, !.t = t, !.rec = rec]]

StartsAbortOK(h) ==
  \A pc \in Pcs, t \in TxnIds, rec \in TxnStateRecord :
    StartsAbort(h, pc, t, rec) =>
      RequestBecomes(h, pc, t, NoKey, rec, {}, {}, 0)

(***************************************************************************)
(* The first request of each operation: what it names, and nothing else.   *)
(***************************************************************************)
LEMMA IdleRequest ==
  /\ Idle \in Requests
  /\ Idle.pc = "idle" /\ Idle.t = NoTxn /\ Idle.k = NoKey
  /\ Idle.rec = NoRecord /\ Idle.keys = {} /\ Idle.edges = {} /\ Idle.v = 0
<1>1. Idle.pc \in Pcs /\ Idle.v \in Versions
  BY MaxVersionAssumption DEF Idle, Pcs, Versions
<1> QED BY Zenon, <1>1 DEF Idle, Requests

(***************************************************************************)
(* What a step notes in its request, and what a new request starts with:   *)
(* the fields the step names change, the others and every other request    *)
(* stay.                                                                   *)
(***************************************************************************)
LEMMA RequestWrites ==
  ASSUME req \in [Handlers -> Requests], NEW h \in Handlers
  PROVE  /\ SetPcRecEdgesOK(h) /\ SetRecKeysPcOK(h) /\ SetPcVOK(h)
         /\ SetPcRecOK(h) /\ SetRecPcOK(h) /\ SetPcKeysOK(h)
         /\ SetKeysOK(h) /\ StartsBeginOK(h) /\ StartsStageOK(h)
         /\ StartsReadOK(h) /\ StartsCommitOK(h) /\ StartsAbortOK(h)
<1>0. req[h] \in Requests
  OBVIOUS
<1>1. ASSUME NEW pc \in Pcs, NEW rec \in TxnStateRecord,
             NEW edges \in SUBSET TxnIds, SetPcRecEdges(h, pc, rec, edges)
      PROVE  RequestBecomes(h, pc, req[h].t, req[h].k, rec, req[h].keys, edges,
                            req[h].v)
  <2> DEFINE r1 == [req[h] EXCEPT !.pc = pc]
             r2 == [r1 EXCEPT !.rec = rec]
             r3 == [r2 EXCEPT !.edges = edges]
  <2>1. req' = [req EXCEPT ![h] = r3]
    BY Zenon, <1>1 DEF SetPcRecEdges
  <2>2. /\ r1 \in Requests
        /\ r1.pc = pc /\ r1.t = req[h].t /\ r1.k = req[h].k /\ r1.rec = req[h].rec
        /\ r1.keys = req[h].keys /\ r1.edges = req[h].edges /\ r1.v = req[h].v
    BY <1>0 DEF Requests
  <2> HIDE DEF r1
  <2>3. /\ r2 \in Requests
        /\ r2.pc = r1.pc /\ r2.t = r1.t /\ r2.k = r1.k /\ r2.rec = rec
        /\ r2.keys = r1.keys /\ r2.edges = r1.edges /\ r2.v = r1.v
    BY <2>2 DEF Requests
  <2> HIDE DEF r2
  <2>4. /\ r3 \in Requests
        /\ r3.pc = r2.pc /\ r3.t = r2.t /\ r3.k = r2.k /\ r3.rec = r2.rec
        /\ r3.keys = r2.keys /\ r3.edges = edges /\ r3.v = r2.v
    BY <2>3 DEF Requests
  <2> HIDE DEF r3
  <2> QED BY Zenon, <2>1, <2>2, <2>3, <2>4, ReqTo DEF RequestBecomes
<1>2. ASSUME NEW rec \in TxnStateRecord, NEW keys \in SUBSET Keys,
             NEW pc \in Pcs, SetRecKeysPc(h, rec, keys, pc)
      PROVE  RequestBecomes(h, pc, req[h].t, req[h].k, rec, keys, req[h].edges,
                            req[h].v)
  <2> DEFINE r1 == [req[h] EXCEPT !.rec = rec]
             r2 == [r1 EXCEPT !.keys = keys]
             r3 == [r2 EXCEPT !.pc = pc]
  <2>1. req' = [req EXCEPT ![h] = r3]
    BY Zenon, <1>2 DEF SetRecKeysPc
  <2>2. /\ r1 \in Requests
        /\ r1.pc = req[h].pc /\ r1.t = req[h].t /\ r1.k = req[h].k /\ r1.rec = rec
        /\ r1.keys = req[h].keys /\ r1.edges = req[h].edges /\ r1.v = req[h].v
    BY <1>0 DEF Requests
  <2> HIDE DEF r1
  <2>3. /\ r2 \in Requests
        /\ r2.pc = r1.pc /\ r2.t = r1.t /\ r2.k = r1.k /\ r2.rec = r1.rec
        /\ r2.keys = keys /\ r2.edges = r1.edges /\ r2.v = r1.v
    BY <2>2 DEF Requests
  <2> HIDE DEF r2
  <2>4. /\ r3 \in Requests
        /\ r3.pc = pc /\ r3.t = r2.t /\ r3.k = r2.k /\ r3.rec = r2.rec
        /\ r3.keys = r2.keys /\ r3.edges = r2.edges /\ r3.v = r2.v
    BY <2>3 DEF Requests
  <2> HIDE DEF r3
  <2> QED BY Zenon, <2>1, <2>2, <2>3, <2>4, ReqTo DEF RequestBecomes
<1>3. ASSUME NEW pc \in Pcs, NEW v \in Versions, SetPcV(h, pc, v)
      PROVE  RequestBecomes(h, pc, req[h].t, req[h].k, req[h].rec, req[h].keys,
                            req[h].edges, v)
  <2> DEFINE r1 == [req[h] EXCEPT !.pc = pc]
             r2 == [r1 EXCEPT !.v = v]
  <2>1. req' = [req EXCEPT ![h] = r2]
    BY Zenon, <1>3 DEF SetPcV
  <2>2. /\ r1 \in Requests
        /\ r1.pc = pc /\ r1.t = req[h].t /\ r1.k = req[h].k /\ r1.rec = req[h].rec
        /\ r1.keys = req[h].keys /\ r1.edges = req[h].edges /\ r1.v = req[h].v
    BY <1>0 DEF Requests
  <2> HIDE DEF r1
  <2>3. /\ r2 \in Requests
        /\ r2.pc = r1.pc /\ r2.t = r1.t /\ r2.k = r1.k /\ r2.rec = r1.rec
        /\ r2.keys = r1.keys /\ r2.edges = r1.edges /\ r2.v = v
    BY <2>2 DEF Requests
  <2> HIDE DEF r2
  <2> QED BY Zenon, <2>1, <2>2, <2>3, ReqTo DEF RequestBecomes
<1>4. ASSUME NEW pc \in Pcs, NEW rec \in TxnStateRecord, SetPcRec(h, pc, rec)
      PROVE  RequestBecomes(h, pc, req[h].t, req[h].k, rec, req[h].keys,
                            req[h].edges, req[h].v)
  <2> DEFINE r1 == [req[h] EXCEPT !.pc = pc]
             r2 == [r1 EXCEPT !.rec = rec]
  <2>1. req' = [req EXCEPT ![h] = r2]
    BY Zenon, <1>4 DEF SetPcRec
  <2>2. /\ r1 \in Requests
        /\ r1.pc = pc /\ r1.t = req[h].t /\ r1.k = req[h].k /\ r1.rec = req[h].rec
        /\ r1.keys = req[h].keys /\ r1.edges = req[h].edges /\ r1.v = req[h].v
    BY <1>0 DEF Requests
  <2> HIDE DEF r1
  <2>3. /\ r2 \in Requests
        /\ r2.pc = r1.pc /\ r2.t = r1.t /\ r2.k = r1.k /\ r2.rec = rec
        /\ r2.keys = r1.keys /\ r2.edges = r1.edges /\ r2.v = r1.v
    BY <2>2 DEF Requests
  <2> HIDE DEF r2
  <2> QED BY Zenon, <2>1, <2>2, <2>3, ReqTo DEF RequestBecomes
<1>5. ASSUME NEW rec \in TxnStateRecord, NEW pc \in Pcs, SetRecPc(h, rec, pc)
      PROVE  RequestBecomes(h, pc, req[h].t, req[h].k, rec, req[h].keys,
                            req[h].edges, req[h].v)
  <2> DEFINE r1 == [req[h] EXCEPT !.rec = rec]
             r2 == [r1 EXCEPT !.pc = pc]
  <2>1. req' = [req EXCEPT ![h] = r2]
    BY Zenon, <1>5 DEF SetRecPc
  <2>2. /\ r1 \in Requests
        /\ r1.pc = req[h].pc /\ r1.t = req[h].t /\ r1.k = req[h].k /\ r1.rec = rec
        /\ r1.keys = req[h].keys /\ r1.edges = req[h].edges /\ r1.v = req[h].v
    BY <1>0 DEF Requests
  <2> HIDE DEF r1
  <2>3. /\ r2 \in Requests
        /\ r2.pc = pc /\ r2.t = r1.t /\ r2.k = r1.k /\ r2.rec = r1.rec
        /\ r2.keys = r1.keys /\ r2.edges = r1.edges /\ r2.v = r1.v
    BY <2>2 DEF Requests
  <2> HIDE DEF r2
  <2> QED BY Zenon, <2>1, <2>2, <2>3, ReqTo DEF RequestBecomes
<1>6. ASSUME NEW pc \in Pcs, NEW keys \in SUBSET Keys, SetPcKeys(h, pc, keys)
      PROVE  RequestBecomes(h, pc, req[h].t, req[h].k, req[h].rec, keys,
                            req[h].edges, req[h].v)
  <2> DEFINE r1 == [req[h] EXCEPT !.pc = pc]
             r2 == [r1 EXCEPT !.keys = keys]
  <2>1. req' = [req EXCEPT ![h] = r2]
    BY Zenon, <1>6 DEF SetPcKeys
  <2>2. /\ r1 \in Requests
        /\ r1.pc = pc /\ r1.t = req[h].t /\ r1.k = req[h].k /\ r1.rec = req[h].rec
        /\ r1.keys = req[h].keys /\ r1.edges = req[h].edges /\ r1.v = req[h].v
    BY <1>0 DEF Requests
  <2> HIDE DEF r1
  <2>3. /\ r2 \in Requests
        /\ r2.pc = r1.pc /\ r2.t = r1.t /\ r2.k = r1.k /\ r2.rec = r1.rec
        /\ r2.keys = keys /\ r2.edges = r1.edges /\ r2.v = r1.v
    BY <2>2 DEF Requests
  <2> HIDE DEF r2
  <2> QED BY Zenon, <2>1, <2>2, <2>3, ReqTo DEF RequestBecomes
<1>7. ASSUME NEW keys \in SUBSET Keys, SetKeys(h, keys)
      PROVE  RequestBecomes(h, req[h].pc, req[h].t, req[h].k, req[h].rec, keys,
                            req[h].edges, req[h].v)
  <2> DEFINE r1 == [req[h] EXCEPT !.keys = keys]
  <2>1. req' = [req EXCEPT ![h] = r1]
    BY Zenon, <1>7 DEF SetKeys
  <2>2. /\ r1 \in Requests
        /\ r1.pc = req[h].pc /\ r1.t = req[h].t /\ r1.k = req[h].k /\ r1.rec = req[h].rec
        /\ r1.keys = keys /\ r1.edges = req[h].edges /\ r1.v = req[h].v
    BY <1>0 DEF Requests
  <2> HIDE DEF r1
  <2> QED BY Zenon, <2>1, <2>2, ReqTo DEF RequestBecomes
<1>8. ASSUME NEW pc \in Pcs, NEW t \in TxnIds, NEW v \in Versions,
             StartsBegin(h, pc, t, v)
      PROVE  RequestBecomes(h, pc, t, NoKey, NoRecord, {}, {}, v)
  <2> DEFINE r1 == [Idle EXCEPT !.pc = pc]
             r2 == [r1 EXCEPT !.t = t]
             r3 == [r2 EXCEPT !.v = v]
  <2>1. req' = [req EXCEPT ![h] = r3]
    BY Zenon, <1>8 DEF StartsBegin
  <2>2. /\ r1 \in Requests
        /\ r1.pc = pc /\ r1.t = Idle.t /\ r1.k = Idle.k /\ r1.rec = Idle.rec
        /\ r1.keys = Idle.keys /\ r1.edges = Idle.edges /\ r1.v = Idle.v
    BY IdleRequest DEF Requests
  <2> HIDE DEF r1
  <2>3. /\ r2 \in Requests
        /\ r2.pc = r1.pc /\ r2.t = t /\ r2.k = r1.k /\ r2.rec = r1.rec
        /\ r2.keys = r1.keys /\ r2.edges = r1.edges /\ r2.v = r1.v
    BY <2>2 DEF Requests
  <2> HIDE DEF r2
  <2>4. /\ r3 \in Requests
        /\ r3.pc = r2.pc /\ r3.t = r2.t /\ r3.k = r2.k /\ r3.rec = r2.rec
        /\ r3.keys = r2.keys /\ r3.edges = r2.edges /\ r3.v = v
    BY <2>3 DEF Requests
  <2> HIDE DEF r3
  <2> QED BY Zenon, IdleRequest, <2>1, <2>2, <2>3, <2>4, ReqTo DEF RequestBecomes
<1>9. ASSUME NEW pc \in Pcs, NEW t \in TxnIds, NEW k \in Keys \cup {NoKey},
             NEW rec \in TxnStateRecord, StartsStage(h, pc, t, k, rec)
      PROVE  RequestBecomes(h, pc, t, k, rec, {}, {}, 0)
  <2> DEFINE r1 == [Idle EXCEPT !.pc = pc]
             r2 == [r1 EXCEPT !.t = t]
             r3 == [r2 EXCEPT !.k = k]
             r4 == [r3 EXCEPT !.rec = rec]
  <2>1. req' = [req EXCEPT ![h] = r4]
    BY Zenon, <1>9 DEF StartsStage
  <2>2. /\ r1 \in Requests
        /\ r1.pc = pc /\ r1.t = Idle.t /\ r1.k = Idle.k /\ r1.rec = Idle.rec
        /\ r1.keys = Idle.keys /\ r1.edges = Idle.edges /\ r1.v = Idle.v
    BY IdleRequest DEF Requests
  <2> HIDE DEF r1
  <2>3. /\ r2 \in Requests
        /\ r2.pc = r1.pc /\ r2.t = t /\ r2.k = r1.k /\ r2.rec = r1.rec
        /\ r2.keys = r1.keys /\ r2.edges = r1.edges /\ r2.v = r1.v
    BY <2>2 DEF Requests
  <2> HIDE DEF r2
  <2>4. /\ r3 \in Requests
        /\ r3.pc = r2.pc /\ r3.t = r2.t /\ r3.k = k /\ r3.rec = r2.rec
        /\ r3.keys = r2.keys /\ r3.edges = r2.edges /\ r3.v = r2.v
    BY <2>3 DEF Requests
  <2> HIDE DEF r3
  <2>5. /\ r4 \in Requests
        /\ r4.pc = r3.pc /\ r4.t = r3.t /\ r4.k = r3.k /\ r4.rec = rec
        /\ r4.keys = r3.keys /\ r4.edges = r3.edges /\ r4.v = r3.v
    BY <2>4 DEF Requests
  <2> HIDE DEF r4
  <2> QED BY ZenonT(60), IdleRequest, <2>1, <2>2, <2>3, <2>4, <2>5, ReqTo DEF RequestBecomes
<1>10. ASSUME NEW pc \in Pcs, NEW t \in TxnIds, NEW k \in Keys \cup {NoKey},
              NEW v \in Versions, StartsRead(h, pc, t, k, v)
       PROVE  RequestBecomes(h, pc, t, k, NoRecord, {}, {}, v)
  <2> DEFINE r1 == [Idle EXCEPT !.pc = pc]
             r2 == [r1 EXCEPT !.t = t]
             r3 == [r2 EXCEPT !.k = k]
             r4 == [r3 EXCEPT !.v = v]
  <2>1. req' = [req EXCEPT ![h] = r4]
    BY Zenon, <1>10 DEF StartsRead
  <2>2. /\ r1 \in Requests
        /\ r1.pc = pc /\ r1.t = Idle.t /\ r1.k = Idle.k /\ r1.rec = Idle.rec
        /\ r1.keys = Idle.keys /\ r1.edges = Idle.edges /\ r1.v = Idle.v
    BY IdleRequest DEF Requests
  <2> HIDE DEF r1
  <2>3. /\ r2 \in Requests
        /\ r2.pc = r1.pc /\ r2.t = t /\ r2.k = r1.k /\ r2.rec = r1.rec
        /\ r2.keys = r1.keys /\ r2.edges = r1.edges /\ r2.v = r1.v
    BY <2>2 DEF Requests
  <2> HIDE DEF r2
  <2>4. /\ r3 \in Requests
        /\ r3.pc = r2.pc /\ r3.t = r2.t /\ r3.k = k /\ r3.rec = r2.rec
        /\ r3.keys = r2.keys /\ r3.edges = r2.edges /\ r3.v = r2.v
    BY <2>3 DEF Requests
  <2> HIDE DEF r3
  <2>5. /\ r4 \in Requests
        /\ r4.pc = r3.pc /\ r4.t = r3.t /\ r4.k = r3.k /\ r4.rec = r3.rec
        /\ r4.keys = r3.keys /\ r4.edges = r3.edges /\ r4.v = v
    BY <2>4 DEF Requests
  <2> HIDE DEF r4
  <2> QED BY ZenonT(60), IdleRequest, <2>1, <2>2, <2>3, <2>4, <2>5, ReqTo DEF RequestBecomes
<1>11. ASSUME NEW pc \in Pcs, NEW t \in TxnIds, StartsCommit(h, pc, t)
       PROVE  RequestBecomes(h, pc, t, NoKey, NoRecord, {}, {}, 0)
  <2> DEFINE r1 == [Idle EXCEPT !.pc = pc]
             r2 == [r1 EXCEPT !.t = t]
  <2>1. req' = [req EXCEPT ![h] = r2]
    BY Zenon, <1>11 DEF StartsCommit
  <2>2. /\ r1 \in Requests
        /\ r1.pc = pc /\ r1.t = Idle.t /\ r1.k = Idle.k /\ r1.rec = Idle.rec
        /\ r1.keys = Idle.keys /\ r1.edges = Idle.edges /\ r1.v = Idle.v
    BY IdleRequest DEF Requests
  <2> HIDE DEF r1
  <2>3. /\ r2 \in Requests
        /\ r2.pc = r1.pc /\ r2.t = t /\ r2.k = r1.k /\ r2.rec = r1.rec
        /\ r2.keys = r1.keys /\ r2.edges = r1.edges /\ r2.v = r1.v
    BY <2>2 DEF Requests
  <2> HIDE DEF r2
  <2> QED BY Zenon, IdleRequest, <2>1, <2>2, <2>3, ReqTo DEF RequestBecomes
<1>12. ASSUME NEW pc \in Pcs, NEW t \in TxnIds, NEW rec \in TxnStateRecord,
              StartsAbort(h, pc, t, rec)
       PROVE  RequestBecomes(h, pc, t, NoKey, rec, {}, {}, 0)
  <2> DEFINE r1 == [Idle EXCEPT !.pc = pc]
             r2 == [r1 EXCEPT !.t = t]
             r3 == [r2 EXCEPT !.rec = rec]
  <2>1. req' = [req EXCEPT ![h] = r3]
    BY Zenon, <1>12 DEF StartsAbort
  <2>2. /\ r1 \in Requests
        /\ r1.pc = pc /\ r1.t = Idle.t /\ r1.k = Idle.k /\ r1.rec = Idle.rec
        /\ r1.keys = Idle.keys /\ r1.edges = Idle.edges /\ r1.v = Idle.v
    BY Zenon, IdleRequest DEF Requests
  <2> HIDE DEF r1
  <2>3. /\ r2 \in Requests
        /\ r2.pc = r1.pc /\ r2.t = t /\ r2.k = r1.k /\ r2.rec = r1.rec
        /\ r2.keys = r1.keys /\ r2.edges = r1.edges /\ r2.v = r1.v
    BY <2>2 DEF Requests
  <2> HIDE DEF r2
  <2>4. /\ r3 \in Requests
        /\ r3.pc = r2.pc /\ r3.t = r2.t /\ r3.k = r2.k /\ r3.rec = rec
        /\ r3.keys = r2.keys /\ r3.edges = r2.edges /\ r3.v = r2.v
    BY <2>3 DEF Requests
  <2> HIDE DEF r3
  <2> QED BY ZenonT(60), IdleRequest, <2>1, <2>2, <2>3, <2>4, ReqTo DEF RequestBecomes
<1> QED BY ZenonT(60), <1>1, <1>2, <1>3, <1>4, <1>5, <1>6, <1>7, <1>8, <1>9, <1>10,
        <1>11, <1>12
        DEF SetPcRecEdgesOK, SetRecKeysPcOK, SetPcVOK, SetPcRecOK, SetRecPcOK,
            SetPcKeysOK, SetKeysOK, StartsBeginOK, StartsStageOK, StartsReadOK,
            StartsCommitOK, StartsAbortOK

-----------------------------------------------------------------------------
(***************************************************************************)
(* The steps of stage, read and heartbeat after the request is accepted.   *)
(***************************************************************************)
LEMMA StageSteps ==
  ASSUME TInv, NEW h \in Handlers
  PROVE  /\ StageWal(h) => StepOK(h)
         /\ StageEntry(h) => StepOK(h)
         /\ StageKeys(h) => StepOK(h)
         /\ StageLock(h) => StepOK(h)
         /\ ReadLock(h) => StepOK(h)
         /\ ReadKeys(h) => StepOK(h)
         /\ HeartbeatPut(h) => StepOK(h)
<1> USE DEF store_vars, txn_vars, si_vars, mem_vars, env_vars, ghost_vars, mvcc_vars
<1>0. TypeOK /\ StoreTypeOK /\ TxnStoreTypeOK /\ SiTypeOK
  BY DEF TInv, TypeOK
<1> USE <1>0
<1>1. ASSUME StageWal(h) PROVE StepOK(h)
  <2> USE <1>1
  <2>h. req[h].t \in TxnIds
    BY ZenonT(60), Holds DEF Held, StageWal, At
  <2>1. ReqStep(h)
    BY GotoStep, PcSteps DEF PcTable, StageWal, At
  <2>3. wal' \in [TxnIds -> WalFold] /\ WorkStep(h)
    BY Zenon, <2>h, <2>1, WalStep DEF StageWal, TxnStatus
  <2>9. TypeOK'
    BY Zenon, <2>1, <2>3
       DEF StageWal, ReqStep, TypeOK, StoreTypeOK, TxnStoreTypeOK, SiTypeOK
  <2> QED BY <2>3, <2>9 DEF StepOK
<1>2. ASSUME StageEntry(h) PROVE StepOK(h)
  <2> USE <1>2
  <2>h. req[h].t \in TxnIds /\ req[h].k \in Keys
    BY Zenon, Holds DEF Held, StageEntry, At
  <2>1. ReqStep(h)
    BY Zenon, GotoStep, PcSteps DEF PcTable, StageEntry, At
  <2>2. write_set' \in [TxnIds -> SUBSET Keys]
    BY Zenon, <2>h DEF StageEntry, PutWriteEntry, TxnStoreTypeOK
  <2>8. WorkStep(h)
    BY Zenon, <2>1 DEF StageEntry, WorkStep
  <2>9. TypeOK'
    BY Zenon, <2>1, <2>2
       DEF StageEntry, ReqStep, TypeOK, StoreTypeOK, TxnStoreTypeOK, SiTypeOK
  <2> QED BY <2>8, <2>9 DEF StepOK
<1>3. ASSUME StageKeys(h) PROVE StepOK(h)
  <2> USE <1>3
  <2>h. /\ req[h].t \in TxnIds /\ req[h].k \in Keys
        /\ req[h].rec \in TxnStateRecord
    BY Holds DEF Held, StageKeys, At
  <2>1. ReqStep(h)
    BY GotoStep, PcSteps DEF PcTable, StageKeys, At
  <2>2. [req[h].rec EXCEPT !.write_keys = @ \cup {req[h].k}] \in TxnStateRecord
    BY <2>h DEF TxnStateRecord, TxnStatus
  <2>3. /\ txn_state' \in [TxnIds -> TxnStateRecord \cup {NoRecord}]
        /\ WorkStep(h)
    BY <2>h, <2>1, <2>2, PutStep DEF StageKeys
  <2>9. TypeOK'
    BY <2>1, <2>3
       DEF StageKeys, ReqStep, TypeOK, StoreTypeOK, TxnStoreTypeOK, SiTypeOK
  <2> QED BY Zenon, <2>3, <2>9 DEF StepOK
<1>4. ASSUME StageLock(h) PROVE StepOK(h)
  <2> USE <1>4
  <2>h. req[h].t \in TxnIds /\ req[h].k \in Keys
    BY Zenon, Holds DEF Held, StageLock, At
  <2>1. ReqStep(h)
    BY Zenon, DoneStep DEF StageLock, At, BeginPcs
  <2>2. SiTypeOK'
    BY Zenon, <2>h, SiTypes DEF SiTypesKept, StageLock
  <2>3. pending' \in [TxnIds -> SUBSET Keys]
    BY ZenonT(60), <2>h DEF StageLock, RecordPending, TypeOK
  <2>4. rw' \in SUBSET (TxnIds \X TxnIds)
    <3>1. /\ rw \in SUBSET (TxnIds \X TxnIds)
          /\ readers_of \in [Keys -> SUBSET TxnIds]
      BY Zenon DEF TInv, TypeOK, SiTypeOK
    <3>2. rw' = rw \cup {<<r, req[h].t>> : r \in readers_of[req[h].k] \ {req[h].t}}
      BY Zenon DEF StageLock
    <3>3. readers_of[req[h].k] \in SUBSET TxnIds
      BY Zenon, <2>h, <3>1
    <3> QED BY <2>h, <3>1, <3>2, <3>3
  <2>8. WorkStep(h)
    BY Zenon, <2>1 DEF StageLock, WorkStep
  <2>9. TypeOK'
    BY Zenon, <2>1, <2>2, <2>3, <2>4
       DEF StageLock, ReqStep, TypeOK, StoreTypeOK, TxnStoreTypeOK, SiTypeOK
  <2> QED BY <2>8, <2>9 DEF StepOK
<1>5. ASSUME ReadLock(h) PROVE StepOK(h)
  <2> USE <1>5
  <2>h. /\ req[h].t \in TxnIds /\ req[h].k \in Keys
        /\ req[h].edges \in SUBSET TxnIds
    BY Zenon, Holds DEF Held, ReadLock, At
  <2>1. ReqStep(h)
    <3>1. CASE Done(h)
      BY Zenon, <3>1, DoneStep DEF ReadLock, At, BeginPcs
    <3>2. CASE Goto(h, "read_keys")
      BY ZenonT(60), <3>2, GotoStep, PcSteps DEF PcTable, ReadLock, At
    <3> QED BY Zenon, <3>1, <3>2 DEF ReadLock
  <2>2. SiTypeOK'
    BY <2>h, SiTypes DEF SiTypesKept, ReadLock
  <2>8. WorkStep(h)
    BY Zenon, <2>1 DEF ReadLock, WorkStep
  <2>9. TypeOK'
    BY ZenonT(60), <2>1, <2>2
       DEF ReadLock, ReqStep, TypeOK, StoreTypeOK, TxnStoreTypeOK, SiTypeOK
  <2> QED BY <2>8, <2>9 DEF StepOK
<1>6. ASSUME ReadKeys(h) PROVE StepOK(h)
  <2> USE <1>6
  <2>h. /\ req[h].t \in TxnIds /\ req[h].k \in Keys
        /\ req[h].rec \in TxnStateRecord
    BY Holds DEF Held, ReadKeys, At
  <2>1. ReqStep(h)
    BY DoneStep DEF ReadKeys, At, BeginPcs
  <2>2. [req[h].rec EXCEPT !.read_keys = @ \cup {req[h].k}] \in TxnStateRecord
    BY <2>h DEF TxnStateRecord, TxnStatus
  <2>3. /\ txn_state' \in [TxnIds -> TxnStateRecord \cup {NoRecord}]
        /\ WorkStep(h)
    BY <2>h, <2>1, <2>2, PutStep DEF ReadKeys
  <2>9. TypeOK'
    BY Zenon, <2>1, <2>3
       DEF ReadKeys, ReqStep, TypeOK, StoreTypeOK, TxnStoreTypeOK, SiTypeOK
  <2> QED BY <2>3, <2>9 DEF StepOK
<1>7. ASSUME HeartbeatPut(h) PROVE StepOK(h)
  <2> USE <1>7
  <2>h. req[h].t \in TxnIds /\ req[h].rec \in TxnStateRecord
    BY Zenon, Holds DEF Held, HeartbeatPut, At
  <2>1. ReqStep(h)
    BY Zenon, DoneStep DEF HeartbeatPut, At, BeginPcs
  <2>2. req[h].rec \in TxnStateRecord
    BY <2>h DEF TxnStateRecord, TxnStatus
  <2>3. /\ txn_state' \in [TxnIds -> TxnStateRecord \cup {NoRecord}]
        /\ WorkStep(h)
    BY Zenon, <2>h, <2>1, <2>2, PutStep DEF HeartbeatPut
  <2>9. TypeOK'
    BY Zenon, <2>1, <2>3
       DEF HeartbeatPut, ReqStep, TypeOK, StoreTypeOK, TxnStoreTypeOK, SiTypeOK
  <2> QED BY <2>3, <2>9 DEF StepOK
<1> QED BY Zenon, <1>1, <1>2, <1>3, <1>4, <1>5, <1>6, <1>7

(***************************************************************************)
(* The steps of commit that write a record, the log or the versions.       *)
(***************************************************************************)
LEMMA CommitPutSteps ==
  ASSUME TInv, NEW h \in Handlers
  PROVE  /\ SsiWal(h) => StepOK(h)
         /\ SsiPut(h) => StepOK(h)
         /\ ConflictPut(h) => StepOK(h)
         /\ ConflictUnpin(h) => StepOK(h)
         /\ CommitCheck(h) => StepOK(h)
         /\ PutVersions(h) => StepOK(h)
         /\ CommittedWal(h) => StepOK(h)
         /\ CommittedPut(h) => StepOK(h)
         /\ CommitUnpin(h) => StepOK(h)
<1> USE DEF store_vars, txn_vars, si_vars, mem_vars, env_vars, ghost_vars, mvcc_vars
<1>0. TypeOK /\ StoreTypeOK /\ TxnStoreTypeOK /\ SiTypeOK
  BY DEF TInv, TypeOK
<1> USE <1>0
<1>1. ASSUME SsiWal(h) PROVE StepOK(h)
  <2> USE <1>1
  <2>h. req[h].t \in TxnIds
    BY Zenon, Holds DEF Held, SsiWal, At
  <2>1. ReqStep(h)
    BY Zenon, GotoStep, PcSteps DEF PcTable, SsiWal, At
  <2>3. wal' \in [TxnIds -> WalFold] /\ WorkStep(h)
    BY <2>h, <2>1, WalStep DEF SsiWal, TxnStatus
  <2>9. TypeOK'
    BY ZenonT(60), <2>1, <2>3
       DEF SsiWal, ReqStep, TypeOK, StoreTypeOK, TxnStoreTypeOK, SiTypeOK
  <2> QED BY <2>3, <2>9 DEF StepOK
<1>2. ASSUME SsiPut(h) PROVE StepOK(h)
  <2> USE <1>2
  <2>h. req[h].t \in TxnIds /\ req[h].rec \in TxnStateRecord
    BY Holds DEF Held, SsiPut, At
  <2>1. ReqStep(h)
    BY GotoStep, PcSteps DEF PcTable, SsiPut, At
  <2>2. [req[h].rec EXCEPT !.status = "Aborted"] \in TxnStateRecord
    BY <2>h DEF TxnStateRecord, TxnStatus
  <2>3. /\ txn_state' \in [TxnIds -> TxnStateRecord \cup {NoRecord}]
        /\ WorkStep(h)
    BY <2>h, <2>1, <2>2, PutStep DEF SsiPut
  <2>4. SiTypeOK'
    BY <2>h, SiTypes DEF SiTypesKept, SsiPut
  <2>9. TypeOK'
    BY Zenon, <2>1, <2>3, <2>4
       DEF SsiPut, ReqStep, TypeOK, StoreTypeOK, TxnStoreTypeOK, SiTypeOK
  <2> QED BY <2>3, <2>9 DEF StepOK
<1>3. ASSUME ConflictPut(h) PROVE StepOK(h)
  <2> USE <1>3
  <2>h. req[h].t \in TxnIds /\ req[h].rec \in TxnStateRecord
    BY Holds DEF Held, ConflictPut, At
  <2>1. ReqStep(h)
    BY GotoStep, PcSteps DEF PcTable, ConflictPut, At
  <2>2. [req[h].rec EXCEPT !.status = "Aborted"] \in TxnStateRecord
    BY <2>h DEF TxnStateRecord, TxnStatus
  <2>3. /\ txn_state' \in [TxnIds -> TxnStateRecord \cup {NoRecord}]
        /\ WorkStep(h)
    BY Zenon, <2>h, <2>1, <2>2, PutStep DEF ConflictPut
  <2>9. TypeOK'
    BY Zenon, <2>1, <2>3
       DEF ConflictPut, ReqStep, TypeOK, StoreTypeOK, TxnStoreTypeOK, SiTypeOK
  <2> QED BY <2>3, <2>9 DEF StepOK
<1>4. ASSUME ConflictUnpin(h) PROVE StepOK(h)
  <2> USE <1>4
  <2>h. req[h].t \in TxnIds /\ req[h].rec.snapshot \in Versions
    BY Zenon, Holds DEF Held, ConflictUnpin, At
  <2>1. ReqStep(h)
    BY Zenon, DoneStep DEF ConflictUnpin, At, Releases, BeginPcs, LockedPcs, CommitPcs, RepairPcs, AbortPcs
  <2>2. active_snapshots' \in [Versions -> Nat]
    BY ZenonT(60), <2>h, StoreTypes DEF ConflictUnpin
  <2>4. answers' \in [TxnIds -> SUBSET (Versions \cup {Refused})]
    BY <2>h DEF ConflictUnpin, Answer, TypeOK
  <2>8. WorkStep(h)
    BY Zenon, <2>1 DEF ConflictUnpin, WorkStep
  <2>9. TypeOK'
    BY ZenonT(60), <2>1, <2>2, <2>4
       DEF ConflictUnpin, ReqStep, TypeOK, StoreTypeOK, TxnStoreTypeOK, SiTypeOK
  <2> QED BY <2>8, <2>9 DEF StepOK
<1>5. ASSUME CommitCheck(h) PROVE StepOK(h)
  <2> USE <1>5
  <2>h. req[h].t \in TxnIds /\ req[h].rec.write_keys \in SUBSET Keys
    BY Zenon, Holds DEF Held, CommitCheck, At
  <2>1. ReqStep(h)
    BY Zenon, GotoStep, PcSteps DEF PcTable, CommitCheck, At
  <2>3. wal' \in [TxnIds -> WalFold] /\ WorkStep(h)
    BY Zenon, <2>h, <2>1, WalStep DEF CommitCheck, TxnStatus
  <2>9. TypeOK'
    BY ZenonT(60), <2>1, <2>3
       DEF CommitCheck, ReqStep, TypeOK, StoreTypeOK, TxnStoreTypeOK, SiTypeOK
  <2> QED BY <2>3, <2>9 DEF StepOK
<1>6. ASSUME PutVersions(h) PROVE StepOK(h)
  <2> USE <1>6
  <2>h. req[h].rec.write_keys \in SUBSET Keys /\ req[h].v \in Versions
    BY Zenon, Holds DEF Held, PutVersions, At
  <2>1. ReqStep(h)
    BY Zenon, GotoStep, PcSteps DEF PcTable, PutVersions, At
  <2>2. versions' \in [Keys -> Versions]
    BY Zenon, <2>h, StoreTypes DEF PutVersions
  <2>8. WorkStep(h)
    BY Zenon, <2>1 DEF PutVersions, WorkStep
  <2>9. TypeOK'
    BY Zenon, <2>1, <2>2
       DEF PutVersions, ReqStep, TypeOK, StoreTypeOK, TxnStoreTypeOK, SiTypeOK
  <2> QED BY <2>8, <2>9 DEF StepOK
<1>7. ASSUME CommittedWal(h) PROVE StepOK(h)
  <2> USE <1>7
  <2>h. req[h].t \in TxnIds
    BY Zenon, Holds DEF Held, CommittedWal, At
  <2>1. ReqStep(h)
    BY ZenonT(60), GotoStep, PcSteps DEF PcTable, CommittedWal, At
  <2>3. wal' \in [TxnIds -> WalFold] /\ WorkStep(h)
    BY <2>h, <2>1, WalStep DEF CommittedWal, TxnStatus
  <2>9. TypeOK'
    BY ZenonT(60), <2>1, <2>3
       DEF CommittedWal, ReqStep, TypeOK, StoreTypeOK, TxnStoreTypeOK, SiTypeOK
  <2> QED BY <2>3, <2>9 DEF StepOK
<1>8. ASSUME CommittedPut(h) PROVE StepOK(h)
  <2> USE <1>8
  <2>h. req[h].t \in TxnIds /\ req[h].rec \in TxnStateRecord
    BY Holds DEF Held, CommittedPut, At
  <2>1. ReqStep(h)
    BY GotoStep, PcSteps DEF PcTable, CommittedPut, At
  <2>2. [req[h].rec EXCEPT !.status = "Committed"] \in TxnStateRecord
    BY <2>h DEF TxnStateRecord, TxnStatus
  <2>3. /\ txn_state' \in [TxnIds -> TxnStateRecord \cup {NoRecord}]
        /\ WorkStep(h)
    BY Zenon, <2>h, <2>1, <2>2, PutStep DEF CommittedPut
  <2>9. TypeOK'
    BY Zenon, <2>1, <2>3
       DEF CommittedPut, ReqStep, TypeOK, StoreTypeOK, TxnStoreTypeOK, SiTypeOK
  <2> QED BY <2>3, <2>9 DEF StepOK
<1>9. ASSUME CommitUnpin(h) PROVE StepOK(h)
  <2> USE <1>9
  <2>h. /\ req[h].t \in TxnIds /\ req[h].rec.snapshot \in Versions
        /\ req[h].v \in Versions
    BY Zenon, Holds DEF Held, CommitUnpin, At
  <2>1. ReqStep(h)
    BY Zenon, DoneStep DEF CommitUnpin, At, Releases, BeginPcs, LockedPcs, CommitPcs, RepairPcs, AbortPcs
  <2>2. active_snapshots' \in [Versions -> Nat]
    BY Zenon, <2>h, StoreTypes DEF CommitUnpin
  <2>4. answers' \in [TxnIds -> SUBSET (Versions \cup {Refused})]
    BY Zenon, <2>h DEF CommitUnpin, Answer, TypeOK
  <2>5. pending' \in [TxnIds -> SUBSET Keys]
    BY Zenon, <2>h DEF CommitUnpin, TakePending, TypeOK
  <2>8. WorkStep(h)
    BY Zenon, <2>1 DEF CommitUnpin, WorkStep
  <2>9. TypeOK'
    BY ZenonT(60), <2>1, <2>2, <2>4, <2>5
       DEF CommitUnpin, ReqStep, TypeOK, StoreTypeOK, TxnStoreTypeOK, SiTypeOK
  <2> QED BY <2>8, <2>9 DEF StepOK
<1> QED BY <1>1, <1>2, <1>3, <1>4, <1>5, <1>6, <1>7, <1>8, <1>9

(***************************************************************************)
(* The steps of the repair of a failed commit, of abort, and the errors of *)
(* stage, commit and abort.                                                *)
(***************************************************************************)
LEMMA RepairSteps ==
  ASSUME TInv, NEW h \in Handlers
  PROVE  /\ PublishedPut(h) => StepOK(h)
         /\ UnpublishedWal(h) => StepOK(h)
         /\ UnpublishedPut(h) => StepOK(h)
         /\ ReconcileUnpin(h) => StepOK(h)
         /\ AbortDrop(h) => StepOK(h)
         /\ AbortWal(h) => StepOK(h)
         /\ AbortUnpin(h) => StepOK(h)
         /\ StageFails(h) => StepOK(h)
         /\ CommitFails(h) => StepOK(h)
         /\ AbortFails(h) => StepOK(h)
<1> USE DEF store_vars, txn_vars, si_vars, mem_vars, env_vars, ghost_vars, mvcc_vars
<1>0. TypeOK /\ StoreTypeOK /\ TxnStoreTypeOK /\ SiTypeOK
  BY DEF TInv, TypeOK
<1> USE <1>0
<1>1. ASSUME PublishedPut(h) PROVE StepOK(h)
  <2> USE <1>1
  <2>h. /\ req[h].t \in TxnIds /\ req[h].rec \in TxnStateRecord
        /\ CommitVersionOf(req[h].rec) \in Nat
    BY Holds, EntriesHaveVersions DEF Held, PublishedPut, At, CommitVersionOf
  <2>1. ReqStep(h)
    BY GotoStep, PcSteps DEF PcTable, PublishedPut, At
  <2>2. [req[h].rec EXCEPT !.status = "Committed"] \in TxnStateRecord
    BY <2>h DEF TxnStateRecord, TxnStatus
  <2>3. /\ txn_state' \in [TxnIds -> TxnStateRecord \cup {NoRecord}]
        /\ WorkStep(h)
    BY <2>h, <2>1, <2>2, PutStep DEF PublishedPut
  <2>4. SiTypeOK'
    BY <2>h, SiTypes DEF SiTypesKept, PublishedPut
  <2>9. TypeOK'
    BY ZenonT(60), <2>1, <2>3, <2>4
       DEF PublishedPut, ReqStep, TypeOK, StoreTypeOK, TxnStoreTypeOK, SiTypeOK
  <2> QED BY <2>3, <2>9 DEF StepOK
<1>2. ASSUME UnpublishedWal(h) PROVE StepOK(h)
  <2> USE <1>2
  <2>h. req[h].t \in TxnIds
    BY Zenon, Holds DEF Held, UnpublishedWal, At
  <2>1. ReqStep(h)
    BY ZenonT(60), GotoStep, PcSteps DEF PcTable, UnpublishedWal, At
  <2>3. wal' \in [TxnIds -> WalFold] /\ WorkStep(h)
    BY <2>h, <2>1, WalStep DEF UnpublishedWal, TxnStatus
  <2>9. TypeOK'
    BY ZenonT(60), <2>1, <2>3
       DEF UnpublishedWal, ReqStep, TypeOK, StoreTypeOK, TxnStoreTypeOK, SiTypeOK
  <2> QED BY <2>3, <2>9 DEF StepOK
<1>3. ASSUME UnpublishedPut(h) PROVE StepOK(h)
  <2> USE <1>3
  <2>h. req[h].t \in TxnIds /\ req[h].rec \in TxnStateRecord
    BY Holds DEF Held, UnpublishedPut, At
  <2>1. ReqStep(h)
    BY GotoStep, PcSteps DEF PcTable, UnpublishedPut, At
  <2>2. [req[h].rec EXCEPT !.status = "Aborted"] \in TxnStateRecord
    BY <2>h DEF TxnStateRecord, TxnStatus
  <2>3. /\ txn_state' \in [TxnIds -> TxnStateRecord \cup {NoRecord}]
        /\ WorkStep(h)
    BY <2>h, <2>1, <2>2, PutStep DEF UnpublishedPut
  <2>4. SiTypeOK'
    BY <2>h, SiTypes DEF SiTypesKept, UnpublishedPut
  <2>9. TypeOK'
    BY Zenon, <2>1, <2>3, <2>4
       DEF UnpublishedPut, ReqStep, TypeOK, StoreTypeOK, TxnStoreTypeOK, SiTypeOK
  <2> QED BY <2>3, <2>9 DEF StepOK
<1>4. ASSUME ReconcileUnpin(h) PROVE StepOK(h)
  <2> USE <1>4
  <2>h. req[h].t \in TxnIds /\ req[h].rec.snapshot \in Versions
    BY Holds DEF Held, ReconcileUnpin, At
  <2>1. ReqStep(h)
    BY Zenon, DoneStep DEF ReconcileUnpin, At, Releases, BeginPcs, LockedPcs, CommitPcs, RepairPcs, AbortPcs
  <2>2. active_snapshots' \in [Versions -> Nat]
    BY Zenon, <2>h, StoreTypes DEF ReconcileUnpin
  <2>8. WorkStep(h)
    BY Zenon, <2>1 DEF ReconcileUnpin, WorkStep
  <2>9. TypeOK'
    BY ZenonT(60), <2>1, <2>2
       DEF ReconcileUnpin, ReqStep, TypeOK, StoreTypeOK, TxnStoreTypeOK, SiTypeOK
  <2> QED BY <2>8, <2>9 DEF StepOK
<1>5. ASSUME AbortDrop(h) PROVE StepOK(h)
  <2> USE <1>5
  <2>h. req[h].t \in TxnIds
    BY Zenon, Holds DEF Held, AbortDrop, At
  <2>1. ReqStep(h)
    BY Zenon, GotoStep, PcSteps DEF PcTable, AbortDrop, At
  <2>2. write_set' \in [TxnIds -> SUBSET Keys]
    BY <2>h DEF AbortDrop, DeleteWriteEntries, TxnStoreTypeOK
  <2>8. WorkStep(h)
    BY Zenon, <2>1 DEF AbortDrop, WorkStep
  <2>9. TypeOK'
    BY Zenon, <2>1, <2>2
       DEF AbortDrop, ReqStep, TypeOK, StoreTypeOK, TxnStoreTypeOK, SiTypeOK
  <2> QED BY <2>8, <2>9 DEF StepOK
<1>6. ASSUME AbortWal(h) PROVE StepOK(h)
  <2> USE <1>6
  <2>h. req[h].t \in TxnIds
    BY Zenon, Holds DEF Held, AbortWal, At
  <2>1. ReqStep(h)
    BY ZenonT(60), GotoStep, PcSteps DEF PcTable, AbortWal, At
  <2>3. wal' \in [TxnIds -> WalFold] /\ WorkStep(h)
    BY <2>h, <2>1, WalStep DEF AbortWal, TxnStatus
  <2>9. TypeOK'
    BY Zenon, <2>1, <2>3
       DEF AbortWal, ReqStep, TypeOK, StoreTypeOK, TxnStoreTypeOK, SiTypeOK
  <2> QED BY <2>3, <2>9 DEF StepOK
<1>7. ASSUME AbortUnpin(h) PROVE StepOK(h)
  <2> USE <1>7
  <2>h. req[h].t \in TxnIds /\ req[h].rec.snapshot \in Versions
    BY Zenon, Holds DEF Held, AbortUnpin, At
  <2>1. ReqStep(h)
    BY Zenon, DoneStep DEF AbortUnpin, At, Releases, BeginPcs, LockedPcs, CommitPcs, RepairPcs, AbortPcs
  <2>2. active_snapshots' \in [Versions -> Nat]
    BY ZenonT(60), <2>h, StoreTypes DEF AbortUnpin
  <2>4. SiTypeOK'
    BY Zenon, <2>h, SiTypes DEF SiTypesKept, AbortUnpin
  <2>5. pending' \in [TxnIds -> SUBSET Keys]
    BY <2>h DEF AbortUnpin, TakePending, TypeOK
  <2>8. WorkStep(h)
    BY Zenon, <2>1 DEF AbortUnpin, WorkStep
  <2>9. TypeOK'
    BY ZenonT(60), <2>1, <2>2, <2>4, <2>5
       DEF AbortUnpin, ReqStep, TypeOK, StoreTypeOK, TxnStoreTypeOK, SiTypeOK
  <2> QED BY <2>8, <2>9 DEF StepOK
<1>8. ASSUME StageFails(h) PROVE StepOK(h)
  <2> USE <1>8
  <2>1. ReqStep(h)
    BY Zenon, DoneStep DEF StageFails, At, BeginPcs
  <2>2. faults' \in 0 .. MaxFaults
    BY Zenon, FaultCounts DEF StageFails, Fault
  <2>8. WorkStep(h)
    BY Zenon, <2>1 DEF StageFails, WorkStep, Fault
  <2>9. TypeOK'
    BY Zenon, <2>1, <2>2
       DEF StageFails, Fault, ReqStep, TypeOK, StoreTypeOK, TxnStoreTypeOK, SiTypeOK
  <2> QED BY <2>8, <2>9 DEF StepOK
<1>9. ASSUME CommitFails(h) PROVE StepOK(h)
  <2> USE <1>9
  <2>1. ReqStep(h)
    BY Zenon, GotoStep, PcSteps DEF PcTable, CommitFails, At
  <2>2. faults' \in 0 .. MaxFaults
    BY Zenon, FaultCounts DEF CommitFails, Fault
  <2>8. WorkStep(h)
    BY Zenon, <2>1 DEF CommitFails, WorkStep, Fault
  <2>9. TypeOK'
    BY Zenon, <2>1, <2>2
       DEF CommitFails, Fault, ReqStep, TypeOK, StoreTypeOK, TxnStoreTypeOK, SiTypeOK
  <2> QED BY <2>8, <2>9 DEF StepOK
<1>10. ASSUME AbortFails(h) PROVE StepOK(h)
  <2> USE <1>10
  <2>h. req[h].t \in TxnIds
    BY Zenon, Holds DEF Held, AbortFails, At
  <2>1. ReqStep(h)
    BY Zenon, DoneStep DEF AbortFails, At, Releases, BeginPcs, LockedPcs, CommitPcs, RepairPcs, AbortPcs
  <2>2. faults' \in 0 .. MaxFaults
    BY Zenon, FaultCounts DEF AbortFails, Fault
  <2>5. pending' \in [TxnIds -> SUBSET Keys]
    BY <2>h DEF AbortFails, TakePending, TypeOK
  <2>8. WorkStep(h)
    BY Zenon, <2>1 DEF AbortFails, WorkStep, Fault
  <2>9. TypeOK'
    BY Zenon, <2>1, <2>2, <2>5
       DEF AbortFails, Fault, ReqStep, TypeOK, StoreTypeOK, TxnStoreTypeOK, SiTypeOK
  <2> QED BY <2>8, <2>9 DEF StepOK
<1> QED BY Zenon, <1>1, <1>2, <1>3, <1>4, <1>5, <1>6, <1>7, <1>8, <1>9, <1>10

(***************************************************************************)
(* The steps that note something in their request.                         *)
(***************************************************************************)
LEMMA NoteSteps ==
  ASSUME TInv, NEW h \in Handlers
  PROVE  /\ CommitLoad(h) => StepOK(h)
         /\ CommitAlloc(h) => StepOK(h)
         /\ AllocPut(h) => StepOK(h)
         /\ CommitAppend(h) => StepOK(h)
         /\ PublishMemtable(h) => StepOK(h)
         /\ CommitMark(h) => StepOK(h)
         /\ CommitHook(h) => StepOK(h)
         /\ HookFails(h) => StepOK(h)
         /\ Reconcile(h) => StepOK(h)
         /\ ReadEdges(h) => StepOK(h)
<1> USE DEF store_vars, txn_vars, si_vars, mem_vars, env_vars, ghost_vars, mvcc_vars
<1>0. TypeOK /\ StoreTypeOK /\ TxnStoreTypeOK /\ SiTypeOK
  BY DEF TInv, TypeOK
<1> USE <1>0
<1>q. req \in [Handlers -> Requests]
  BY DEF TypeOK
<1> USE <1>q
<1>1. ASSUME CommitLoad(h) PROVE StepOK(h)
  <2> USE <1>1
  <2>h. /\ txn_state[req[h].t] \in TxnStateRecord
        /\ write_set[req[h].t] \in SUBSET Keys
    BY Holds DEF Held, CommitLoad, At, TInv, ControlOK, RequestOK, TxnStoreTypeOK
  <2>a. PICK a \in TxnStateRecord, b \in SUBSET Keys, c \in Pcs : SetRecKeysPc(h, a, b, c) /\ c \in {"ssi_wal", "alloc"}
    BY Zenon, <2>h DEF CommitLoad, At, Pcs, CommitPcs, SetRecKeysPc
  <2>b. SetRecKeysPcOK(h)
    BY Zenon, RequestWrites
  <2>0. /\ req' \in [Handlers -> Requests]
        /\ \A g \in Handlers \ {h} : req'[g] = req[g]
        /\ req'[h].pc = c /\ req'[h].t = req[h].t /\ req'[h].k = req[h].k
        /\ req'[h].rec = a
    BY Zenon, <2>a, <2>b DEF SetRecKeysPcOK, RequestBecomes
  <2>1. ReqStep(h)
    BY Zenon, <2>h, <2>a, <2>0, NoteStep
       DEF MovesOn, CommitLoad, At, Pcs, BeginPcs, KeyPcs, RecPcs, LockedPcs, AppendPcs, StagePcs,
           ReadPcs, CommitPcs,
           RepairPcs, AbortPcs
  <2>8. WorkStep(h)
    BY <2>1 DEF CommitLoad, WorkStep
  <2>9. TypeOK'
    BY ZenonT(60), <2>1
       DEF CommitLoad, ReqStep, TypeOK, StoreTypeOK, TxnStoreTypeOK, SiTypeOK
  <2> QED BY Zenon, <2>8, <2>9 DEF StepOK
<1>2. ASSUME CommitAlloc(h) PROVE StepOK(h)
  <2> USE <1>2
  <2>h. /\ req[h].rec \in TxnStateRecord /\ req[h].rec.snapshot \in Versions
    BY Holds DEF Held, CommitAlloc, At
  <2>g. global_version' \in Versions
    BY Zenon, <2>h, StoreTypes DEF CommitAlloc, StoreTypeOK
  <2>0. /\ req' \in [Handlers -> Requests]
        /\ \A g \in Handlers \ {h} : req'[g] = req[g]
        /\ req'[h].pc = "check" /\ req'[h].t = req[h].t
        /\ req'[h].rec = req[h].rec
    <3>1. PICK v \in Versions : SetPcV(h, "check", v)
      BY <2>h, <2>g DEF CommitAlloc, SetPcV
    <3> QED BY ZenonT(60), <3>1, RequestWrites DEF SetPcVOK, RequestBecomes, TypeOK, Pcs, CommitPcs
  <2>1. ReqStep(h)
    BY <2>h, <2>0, NoteStep
       DEF MovesOn, CommitAlloc, At, Pcs, BeginPcs, KeyPcs, RecPcs, LockedPcs, AppendPcs, StagePcs,
           ReadPcs, CommitPcs,
           RepairPcs, AbortPcs
  <2>2. global_version' \in Versions
    BY <2>g
  <2>8. WorkStep(h)
    BY <2>1 DEF CommitAlloc, WorkStep
  <2>9. TypeOK'
    BY Zenon, <2>1, <2>2
       DEF CommitAlloc, ReqStep, TypeOK, StoreTypeOK, TxnStoreTypeOK, SiTypeOK
  <2> QED BY <2>8, <2>9 DEF StepOK
<1>3. ASSUME AllocPut(h) PROVE StepOK(h)
  <2> USE <1>3
  <2>h. /\ req[h].t \in TxnIds /\ req[h].rec \in TxnStateRecord
        /\ req[h].v \in Versions
    BY Holds DEF Held, AllocPut, At
  <2> DEFINE rec == [req[h].rec EXCEPT !.alloc = AllocOf(h)]
  <2>2. rec \in TxnStateRecord
    BY <2>h, MaxVersionAssumption DEF TxnStateRecord, AllocOf, Versions
  <2>a. /\ PutTxnState(req[h].t, rec)
        /\ SetPcRec(h, "append", rec)
    BY DEF AllocPut, SetPcRec
  <2> HIDE DEF rec
  <2>b. "append" \in Pcs
    BY DEF Pcs, CommitPcs
  <2>0. /\ req' \in [Handlers -> Requests]
        /\ \A g \in Handlers \ {h} : req'[g] = req[g]
        /\ req'[h].pc = "append" /\ req'[h].t = req[h].t
        /\ req'[h].rec = rec
    BY ZenonT(60), <2>2, <2>a, <2>b, RequestWrites DEF SetPcRecOK, RequestBecomes
  <2>1. ReqStep(h)
    BY <2>0, <2>2, NoteStep
       DEF MovesOn, AllocPut, At, Pcs, BeginPcs, KeyPcs, RecPcs, LockedPcs, AppendPcs, StagePcs,
           ReadPcs, CommitPcs,
           RepairPcs, AbortPcs
  <2>3. /\ txn_state' \in [TxnIds -> TxnStateRecord \cup {NoRecord}]
        /\ WorkStep(h)
    BY <2>h, <2>1, <2>2, <2>a, PutStep DEF AllocPut
  <2>9. TypeOK'
    BY ZenonT(60), <2>1, <2>3
       DEF AllocPut, ReqStep, TypeOK, StoreTypeOK, TxnStoreTypeOK, SiTypeOK
  <2> QED BY <2>3, <2>9 DEF StepOK
<1>4. ASSUME CommitAppend(h) PROVE StepOK(h)
  <2> USE <1>4
  <2>h. /\ req[h].t \in TxnIds /\ req[h].rec.write_keys \in SUBSET Keys
        /\ req[h].v \in Versions
    BY ZenonT(60), Holds DEF Held, CommitAppend, At
  <2>e. [cv |-> req[h].v, txn |-> req[h].t] \in Entries
    BY <2>h DEF Entries
  <2>1. ReqStep(h)
    BY Zenon, GotoStep, PcSteps DEF PcTable, CommitAppend, At
  <2>2. version_chains' \in [Keys -> Seq(Entries)]
    BY ZenonT(60), <2>h, <2>e, AppendBulkSpec DEF CommitAppend, StoreTypeOK
  <2>3. published' \in [TxnIds -> Versions]
    <3>1. AllocOf(h) \in Versions
      BY <2>h, MaxVersionAssumption DEF AllocOf, Versions
    <3>2. \/ published' = [published EXCEPT ![req[h].t] = AllocOf(h)]
          \/ published' = published
      BY Zenon DEF CommitAppend
    <3>3. published \in [TxnIds -> Versions]
      BY DEF TypeOK
    <3> QED BY Zenon, <2>h, <3>1, <3>2, <3>3
  <2>8. WorkStep(h)
    BY Zenon, <2>1 DEF CommitAppend, WorkStep
  <2>9. TypeOK'
    BY ZenonT(60), <2>1, <2>2, <2>3
       DEF CommitAppend, ReqStep, TypeOK, StoreTypeOK, TxnStoreTypeOK, SiTypeOK
  <2> QED BY <2>8, <2>9 DEF StepOK
<1>5. ASSUME PublishMemtable(h) PROVE StepOK(h)
  <2> USE <1>5
  <2>h. /\ req[h].rec \in TxnStateRecord /\ req[h].keys \in SUBSET Keys
        /\ req[h].v \in Versions
    BY Holds DEF Held, PublishMemtable, At
  <2>a. PICK a \in SUBSET Keys : SetKeys(h, a)
    BY Zenon, <2>h DEF PublishMemtable, At, Pcs, CommitPcs, SetKeys
  <2>0. /\ req' \in [Handlers -> Requests]
        /\ \A g \in Handlers \ {h} : req'[g] = req[g]
        /\ req'[h].pc = req[h].pc /\ req'[h].t = req[h].t /\ req'[h].k = req[h].k
        /\ req'[h].rec = req[h].rec
    BY Zenon, <2>a, RequestWrites DEF SetKeysOK, RequestBecomes
  <2>1. ReqStep(h)
    BY ZenonT(60), <2>h, <2>a, <2>0, NoteStep
       DEF MovesOn, PublishMemtable, At, Pcs, BeginPcs, KeyPcs, RecPcs, LockedPcs, AppendPcs, StagePcs,
           ReadPcs, CommitPcs,
           RepairPcs, AbortPcs
  <2>2. memtable' \in [Keys -> Versions]
    BY <2>h DEF PublishMemtable, TypeOK
  <2>8. WorkStep(h)
    BY <2>1 DEF PublishMemtable, WorkStep
  <2>9. TypeOK'
    BY Zenon, <2>1, <2>2
       DEF PublishMemtable, ReqStep, TypeOK, StoreTypeOK, TxnStoreTypeOK, SiTypeOK
  <2> QED BY Zenon, <2>8, <2>9 DEF StepOK
<1>6. ASSUME CommitMark(h) PROVE StepOK(h)
  <2> USE <1>6
  <2>h. /\ req[h].rec \in TxnStateRecord /\ req[h].v \in Versions
        /\ req[h].t \in TxnIds /\ pending[req[h].t] \in SUBSET Keys
    BY Holds DEF Held, CommitMark, At, TypeOK
  <2>a. PICK a \in Pcs, b \in SUBSET Keys : SetPcKeys(h, a, b) /\ a = "hook"
    BY Zenon, <2>h DEF CommitMark, At, Pcs, CommitPcs, SetPcKeys
  <2>0. /\ req' \in [Handlers -> Requests]
        /\ \A g \in Handlers \ {h} : req'[g] = req[g]
        /\ req'[h].pc = a /\ req'[h].t = req[h].t /\ req'[h].k = req[h].k
        /\ req'[h].rec = req[h].rec
    BY Zenon, <2>a, RequestWrites DEF SetPcKeysOK, RequestBecomes
  <2>1. ReqStep(h)
    BY ZenonT(60), <2>h, <2>a, <2>0, NoteStep
       DEF MovesOn, CommitMark, At, Pcs, BeginPcs, KeyPcs, RecPcs, LockedPcs, AppendPcs, StagePcs,
           ReadPcs, CommitPcs,
           RepairPcs, AbortPcs
  <2>2. SiTypeOK'
    BY <2>h, SiTypes, EntriesHaveVersions DEF SiTypesKept, CommitMark
  <2>3. pending' \in [TxnIds -> SUBSET Keys]
    BY <2>h DEF CommitMark, TakePending, TypeOK
  <2>8. WorkStep(h)
    BY <2>1 DEF CommitMark, WorkStep
  <2>9. TypeOK'
    BY ZenonT(60), <2>1, <2>2, <2>3
       DEF CommitMark, ReqStep, TypeOK, StoreTypeOK, TxnStoreTypeOK, SiTypeOK
  <2> QED BY Zenon, <2>8, <2>9 DEF StepOK
<1>7. ASSUME CommitHook(h) PROVE StepOK(h)
  <2> USE <1>7
  <2>h. /\ req[h].rec \in TxnStateRecord /\ req[h].keys \in SUBSET Keys
        /\ req[h].v \in Versions
    BY Holds DEF Held, CommitHook, At
  <2>a. PICK a \in SUBSET Keys : SetKeys(h, a)
    BY Zenon, <2>h DEF CommitHook, At, Pcs, CommitPcs, SetKeys
  <2>0. /\ req' \in [Handlers -> Requests]
        /\ \A g \in Handlers \ {h} : req'[g] = req[g]
        /\ req'[h].pc = req[h].pc /\ req'[h].t = req[h].t /\ req'[h].k = req[h].k
        /\ req'[h].rec = req[h].rec
    BY Zenon, <2>a, RequestWrites DEF SetKeysOK, RequestBecomes
  <2>1. ReqStep(h)
    BY ZenonT(60), <2>h, <2>a, <2>0, NoteStep
       DEF MovesOn, CommitHook, At, Pcs, BeginPcs, KeyPcs, RecPcs, LockedPcs, AppendPcs, StagePcs,
           ReadPcs, CommitPcs,
           RepairPcs, AbortPcs
  <2>2. /\ record_index' \in [Keys -> Versions]
        /\ record_versions' \in [Keys -> SUBSET Versions]
    BY <2>h, StoreTypes, MaxVersionAssumption DEF CommitHook, Versions
  <2>8. WorkStep(h)
    BY <2>1 DEF CommitHook, WorkStep
  <2>9. TypeOK'
    BY ZenonT(60), <2>1, <2>2
       DEF CommitHook, ReqStep, TypeOK, StoreTypeOK, TxnStoreTypeOK, SiTypeOK
  <2> QED BY <2>8, <2>9 DEF StepOK
<1>8. ASSUME HookFails(h) PROVE StepOK(h)
  <2> USE <1>8
  <2>h. /\ req[h].rec \in TxnStateRecord /\ req[h].keys \in SUBSET Keys
    BY Holds DEF Held, HookFails, At
  <2>a. PICK a \in SUBSET Keys : SetKeys(h, a)
    BY Zenon, <2>h DEF HookFails, At, Pcs, CommitPcs, SetKeys
  <2>0. /\ req' \in [Handlers -> Requests]
        /\ \A g \in Handlers \ {h} : req'[g] = req[g]
        /\ req'[h].pc = req[h].pc /\ req'[h].t = req[h].t /\ req'[h].k = req[h].k
        /\ req'[h].rec = req[h].rec
    BY Zenon, <2>a, RequestWrites DEF SetKeysOK, RequestBecomes
  <2>1. ReqStep(h)
    BY ZenonT(60), <2>h, <2>a, <2>0, NoteStep
       DEF MovesOn, HookFails, At, Pcs, BeginPcs, KeyPcs, RecPcs, LockedPcs, AppendPcs, StagePcs,
           ReadPcs, CommitPcs,
           RepairPcs, AbortPcs
  <2>2. faults' \in 0 .. MaxFaults
    BY Zenon, FaultCounts DEF HookFails, Fault
  <2>8. WorkStep(h)
    BY <2>1 DEF HookFails, WorkStep, Fault
  <2>9. TypeOK'
    BY ZenonT(60), <2>1, <2>2
       DEF HookFails, Fault, ReqStep, TypeOK, StoreTypeOK, TxnStoreTypeOK, SiTypeOK
  <2> QED BY <2>8, <2>9 DEF StepOK
<1>9. ASSUME Reconcile(h) PROVE StepOK(h)
  <2> USE <1>9
  <2>h. req[h].t \in TxnIds
    BY Holds DEF Held, Reconcile, At
  <2>1. ReqStep(h)
    <3>1. CASE HasStatus(req[h].t, {"Committing"})
      <4> USE <3>1
      <4>1. txn_state[req[h].t] \in TxnStateRecord
        BY <2>h DEF HasStatus, TxnStoreTypeOK
      <4>a. PICK a \in TxnStateRecord, b \in Pcs : SetRecPc(h, a, b) /\ b \in {"published_put", "unpublished_wal"}
        BY Zenon, <4>1 DEF Reconcile, Pcs, RepairPcs, SetRecPc
      <4>0. /\ req' \in [Handlers -> Requests]
            /\ \A g \in Handlers \ {h} : req'[g] = req[g]
            /\ req'[h].pc = b /\ req'[h].t = req[h].t /\ req'[h].k = req[h].k
            /\ req'[h].rec = a
        BY Zenon, <4>a, RequestWrites DEF SetRecPcOK, RequestBecomes
      <4> QED BY Zenon, <4>a, <4>0, NoteStep
              DEF MovesOn, Reconcile, At, Pcs, BeginPcs, KeyPcs, RecPcs, LockedPcs, AppendPcs, StagePcs,
           ReadPcs, CommitPcs,
           RepairPcs, AbortPcs
    <3>2. CASE ~ HasStatus(req[h].t, {"Committing"})
      BY <3>2, DoneStep DEF Reconcile, At, Releases, BeginPcs, LockedPcs, RepairPcs
    <3> QED BY <3>1, <3>2
  <2>8. WorkStep(h)
    BY <2>1 DEF Reconcile, WorkStep
  <2>9. TypeOK'
    BY ZenonT(60), <2>1
       DEF Reconcile, ReqStep, TypeOK, StoreTypeOK, TxnStoreTypeOK, SiTypeOK
  <2> QED BY <2>8, <2>9 DEF StepOK
<1>10. ASSUME ReadEdges(h) PROVE StepOK(h)
  <2> USE <1>10
  <2>h. req[h].t \in TxnIds /\ req[h].k \in Keys
    BY Holds DEF Held, ReadEdges, At
  <2>1. ReqStep(h)
    <3>1. CASE HasStatus(req[h].t, {"Active"})
      <4> USE <3>1
      <4>1. /\ txn_state[req[h].t] \in TxnStateRecord
            /\ NewInEdges(req[h].k, req[h].v) \in SUBSET TxnIds
        BY <2>h DEF HasStatus, TxnStoreTypeOK, SiTypeOK, NewInEdges
      <4>a. PICK a \in Pcs, b \in TxnStateRecord, c \in SUBSET TxnIds : SetPcRecEdges(h, a, b, c) /\ a = "read_lock"
        BY Zenon, <4>1 DEF ReadEdges, Pcs, ReadPcs, SetPcRecEdges
      <4>b. SetPcRecEdgesOK(h)
        BY Zenon, RequestWrites
      <4>0. /\ req' \in [Handlers -> Requests]
            /\ \A g \in Handlers \ {h} : req'[g] = req[g]
            /\ req'[h].pc = a /\ req'[h].t = req[h].t /\ req'[h].k = req[h].k
            /\ req'[h].rec = b
        BY Zenon, <4>a, <4>b DEF SetPcRecEdgesOK, RequestBecomes
      <4> QED BY Zenon, <2>h, <4>a, <4>0, NoteStep
              DEF MovesOn, ReadEdges, At, Pcs, BeginPcs, KeyPcs, RecPcs, LockedPcs, AppendPcs, StagePcs,
           ReadPcs, CommitPcs,
           RepairPcs, AbortPcs
    <3>2. CASE ~ HasStatus(req[h].t, {"Active"})
      BY <3>2, DoneStep DEF ReadEdges, At, BeginPcs
    <3> QED BY <3>1, <3>2
  <2>8. WorkStep(h)
    BY <2>1 DEF ReadEdges, WorkStep
  <2>9. TypeOK'
    BY Zenon, <2>1
       DEF ReadEdges, ReqStep, TypeOK, StoreTypeOK, TxnStoreTypeOK, SiTypeOK
  <2> QED BY <2>8, <2>9 DEF StepOK
<1> QED BY Zenon, <1>1, <1>2, <1>3, <1>4, <1>5, <1>6, <1>7, <1>8, <1>9, <1>10

=============================================================================
