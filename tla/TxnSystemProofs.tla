-------------------------- MODULE TxnSystemProofs ---------------------------
(***************************************************************************)
(* The transaction service keeps its types and the meaning of its program  *)
(* counters, however requests, the sweeper, failing calls, crashes and     *)
(* recovery interleave; and the conflict check of a commit still holds     *)
(* when its entries are appended.                                          *)
(***************************************************************************)
EXTENDS TxnStepProofs

(* Time enough for each prover on a busy machine.                          *)
USE SMTT(20), ZenonT(30)

(***************************************************************************)
(* Such a step keeps what the program counters say: the other handlers     *)
(* keep their requests, commit_lock stays with its holder, and a           *)
(* transaction that is being begun is not touched.                         *)
(***************************************************************************)
LEMMA WorkKeepsControl ==
  ASSUME TInv, NEW h \in Handlers, WorkStep(h)
  PROVE  ControlOK'
<1>0. /\ req'[h] = Idle \/ MovesOn(h)
      /\ \A g \in Handlers \ {h} : req'[g] = req[g]
      /\ req[h].pc \notin BeginPcs \cup {"idle"}
      /\ \/ commit_lock' = commit_lock
         \/ commit_lock' = NoTxn /\ req[h].pc \in LockedPcs
      /\ sweeper' = sweeper /\ recovery' = recovery /\ begun' = begun
      /\ \A t \in TxnIds :
           /\ t # req[h].t => txn_state'[t] = txn_state[t] /\ wal'[t] = wal[t]
           /\ txn_state[t] # NoRecord => txn_state'[t] # NoRecord
  BY DEF WorkStep, ReqStep
<1> USE <1>0
<1>1. /\ Idle.pc = "idle" /\ Idle.t = NoTxn /\ NoTxn \notin TxnIds
      /\ "idle" \notin BeginPcs \cup LockedPcs \cup KeyPcs \cup RecPcs
  BY CoordinatorAssumption
     DEF Idle, BeginPcs, LockedPcs, KeyPcs, RecPcs, StagePcs, ReadPcs, CommitPcs,
         RepairPcs, AbortPcs
<1> USE <1>1
<1>2. /\ \A g \in Handlers : RequestOK(g) /\ BeginOK(g)
      /\ NotBegunOK /\ SweeperOK /\ RecoveryOK
  BY DEF TInv, ControlOK
<1> USE <1>2
<1>3. req[h].t \in TxnIds /\ recovery.pc = "off"
  BY DEF RequestOK
<1>4. req'[h].t \in {req[h].t, NoTxn} /\ req'[h].pc \notin BeginPcs
  BY DEF MovesOn
<1>5. RequestOK(h)'
  <2>1. CASE req'[h] = Idle
    BY Zenon, <2>1 DEF RequestOK
  <2>2. CASE MovesOn(h)
    <3> USE <2>2
    <3>1. req'[h].pc \in LockedPcs => commit_lock' = h
      BY Zenon DEF MovesOn, RequestOK
    <3> QED BY Zenon, <3>1, <1>3 DEF MovesOn, RequestOK
  <2> QED BY <2>1, <2>2
<1>6. ASSUME NEW g \in Handlers \ {h} PROVE RequestOK(g)'
  <2>1. req'[g] = req[g] /\ RequestOK(g) /\ RequestOK(h)
    BY Zenon
  <2>2. req[g].pc \in LockedPcs => commit_lock' = g
    BY Zenon, <2>1 DEF RequestOK
  <2>3. req[g].pc = "load" => txn_state'[req[g].t] # NoRecord
    BY <2>1 DEF RequestOK
  <2> QED BY <2>1, <2>2, <2>3 DEF RequestOK
<1>7. ASSUME NEW g \in Handlers PROVE BeginOK(g)'
  <2>1. CASE g = h
    BY Zenon, <1>4, <2>1 DEF BeginOK
  <2>2. CASE g # h /\ req[g].pc \in BeginPcs
    <3> USE <2>2
    <3>1. /\ req'[g] = req[g] /\ BeginOK(g) /\ req[g].t \in TxnIds
          /\ req[h].t # req[g].t
      BY DEF BeginOK, RequestOK
    <3>2. txn_state'[req[g].t] = txn_state[req[g].t] /\ wal'[req[g].t] = wal[req[g].t]
      BY Zenon, <3>1
    <3>3. \A f \in Handlers \ {g} : req'[f].t # req[g].t
      BY ZenonT(60), <1>4, <3>1 DEF BeginOK
    <3> QED BY ZenonT(60), <3>1, <3>2, <3>3 DEF BeginOK, HasStatus
  <2>3. CASE g # h /\ req[g].pc \notin BeginPcs
    BY Zenon, <2>3 DEF BeginOK
  <2> QED BY Zenon, <2>1, <2>2, <2>3
<1>8. NotBegunOK'
  <2> SUFFICES ASSUME NEW t \in TxnIds \ begun
               PROVE  /\ txn_state'[t] = NoRecord /\ wal'[t].status = "none"
                      /\ sweeper'.t # t /\ \A g \in Handlers : req'[g].t # t
    BY DEF NotBegunOK
  <2>1. /\ txn_state[t] = NoRecord /\ wal[t].status = "none" /\ sweeper.t # t
        /\ \A g \in Handlers : req[g].t # t
    BY DEF NotBegunOK
  <2> QED BY <1>4, <2>1
<1>9. SweeperOK' /\ RecoveryOK'
  BY <1>3 DEF SweeperOK, RecoveryOK
<1> QED BY <1>5, <1>6, <1>7, <1>8, <1>9 DEF ControlOK

-----------------------------------------------------------------------------
(***************************************************************************)
(* An idle handler takes up a request on a transaction whose begin has     *)
(* returned.                                                               *)
(***************************************************************************)
AcceptStep(h, t) ==
  /\ req[h] = Idle /\ recovery.pc = "off"
  /\ wal[t].status # "none" /\ HasStatus(t, {"Active"})
  /\ req' \in [Handlers -> Requests]
  /\ \A g \in Handlers \ {h} : req'[g] = req[g]
  /\ req'[h].t = t /\ req'[h].pc \notin BeginPcs \cup AppendPcs \cup {"idle"}
  /\ req'[h].pc \in KeyPcs => req'[h].k \in Keys
  /\ req'[h].pc \in RecPcs => req'[h].rec \in TxnStateRecord
  /\ req'[h].pc \in LockedPcs => commit_lock' = h
  /\ commit_lock' = commit_lock \/ (commit_lock = NoTxn /\ commit_lock' = h)
  /\ txn_state'[t] # NoRecord
  /\ \A u \in TxnIds \ {t} : txn_state'[u] = txn_state[u]
  /\ UNCHANGED <<wal, sweeper, recovery, begun>>

(***************************************************************************)
(* Taking up a request keeps what the program counters say: a transaction  *)
(* that is still being begun cannot be meant, its id is not known.         *)
(***************************************************************************)
LEMMA AcceptKeepsControl ==
  ASSUME TInv, NEW h \in Handlers, NEW t \in TxnIds, AcceptStep(h, t)
  PROVE  ControlOK'
<1>1. /\ \A g \in Handlers : RequestOK(g) /\ BeginOK(g)
      /\ NotBegunOK /\ SweeperOK /\ RecoveryOK
  BY DEF TInv, ControlOK
<1> USE <1>1
<1>2. NoTxn \notin TxnIds /\ NoTxn \notin Handlers
  BY CoordinatorAssumption
<1>3. RequestOK(h)'
  BY Zenon DEF AcceptStep, RequestOK
<1>4. ASSUME NEW g \in Handlers \ {h} PROVE RequestOK(g)'
  <2>1. req'[g] = req[g] /\ RequestOK(g)
    BY Zenon DEF AcceptStep
  <2>2. req[g].pc \in LockedPcs => commit_lock' = g
    BY <1>2, <2>1 DEF RequestOK, AcceptStep
  <2>3. req[g].pc = "load" => txn_state'[req[g].t] # NoRecord
    BY <2>1 DEF RequestOK, AcceptStep
  <2> QED BY Zenon, <2>1, <2>2, <2>3 DEF RequestOK, AcceptStep
<1>5. ASSUME NEW g \in Handlers PROVE BeginOK(g)'
  <2>1. CASE g = h
    BY <2>1 DEF BeginOK, AcceptStep
  <2>2. CASE g # h /\ req[g].pc \in BeginPcs
    <3> USE <2>2
    <3>1. /\ req'[g] = req[g] /\ BeginOK(g) /\ req[g].t \in TxnIds
      BY Zenon DEF AcceptStep, RequestOK, BeginPcs
    <3>2. req[g].t # t
      BY Zenon, <3>1 DEF BeginOK, AcceptStep, HasStatus
    <3>3. \A f \in Handlers \ {g} : req'[f].t # req[g].t
      BY Zenon, <3>1, <3>2 DEF BeginOK, AcceptStep
    <3>4. UNCHANGED <<wal, sweeper, begun>> /\ txn_state'[req[g].t] = txn_state[req[g].t]
      BY <3>1, <3>2 DEF AcceptStep
    <3>5. /\ req[g].t \in begun
          /\ sweeper.t = req[g].t => HasStatus(req[g].t, {"Aborted"})
          /\ wal[req[g].t].status = "none" \/ HasStatus(req[g].t, {"Aborted"})
          /\ req[g].pc \in {"begin_put", "begin_unpin"} =>
               txn_state[req[g].t] = NoRecord
      BY Zenon, <3>1 DEF BeginOK
    <3> QED BY Zenon, <3>1, <3>3, <3>4, <3>5 DEF BeginOK, HasStatus
  <2>3. CASE g # h /\ req[g].pc \notin BeginPcs
    BY <2>3 DEF BeginOK, AcceptStep
  <2> QED BY Zenon, <2>1, <2>2, <2>3
<1>6. NotBegunOK'
  <2>1. t \in begun
    BY Zenon DEF NotBegunOK, AcceptStep
  <2> SUFFICES ASSUME NEW u \in TxnIds \ begun
               PROVE  /\ txn_state'[u] = NoRecord /\ wal'[u].status = "none"
                      /\ sweeper'.t # u /\ \A g \in Handlers : req'[g].t # u
    BY DEF NotBegunOK, AcceptStep
  <2>2. /\ txn_state[u] = NoRecord /\ wal[u].status = "none" /\ sweeper.t # u
        /\ \A g \in Handlers : req[g].t # u
    BY Zenon DEF NotBegunOK
  <2> QED BY <2>1, <2>2 DEF AcceptStep
<1>7. SweeperOK' /\ RecoveryOK'
  BY DEF AcceptStep, SweeperOK, RecoveryOK
<1> QED BY <1>3, <1>4, <1>5, <1>6, <1>7 DEF ControlOK

SameControlVars ==
  UNCHANGED <<req, commit_lock, txn_state, wal, sweeper, recovery, begun>>

TakesUp(h, t) == TypeOK' /\ (AcceptStep(h, t) \/ SameControlVars)

(***************************************************************************)
(* A step that leaves requests, records, log, sweeper and recovery alone   *)
(* keeps what the program counters say.                                    *)
(***************************************************************************)
LEMMA SameControl ==
  ASSUME ControlOK, SameControlVars
  PROVE  ControlOK'
BY ZenonT(60) DEF SameControlVars, ControlOK, RequestOK, BeginOK, NotBegunOK, SweeperOK, RecoveryOK, HasStatus

(***************************************************************************)
(* Requests being taken up: stage, read, heartbeat, commit and abort.      *)
(***************************************************************************)
LEMMA RequestSteps ==
  ASSUME TInv, SearchFacts, NEW h \in Handlers, NEW t \in TxnIds
  PROVE  /\ \A k \in Keys : StageRequest(h, t, k) => TakesUp(h, t)
         /\ \A k \in Keys : ReadRequest(h, t, k) => TakesUp(h, t)
         /\ HeartbeatRequest(h, t) => TakesUp(h, t)
         /\ CommitRequest(h, t) => TakesUp(h, t)
         /\ AbortRequest(h, t) => TakesUp(h, t)
         /\ CommitReplay(h, t) => TakesUp(h, t)
         /\ AbortReplay(h, t) => TakesUp(h, t)
<1> USE DEF store_vars, txn_vars, si_vars, mem_vars, env_vars, ghost_vars, mvcc_vars
<1>0. /\ TypeOK /\ StoreTypeOK /\ TxnStoreTypeOK /\ SiTypeOK /\ ControlOK
      /\ req \in [Handlers -> Requests]
  BY DEF TInv, TypeOK
<1> USE <1>0
<1>a. /\ HasStatus(t, {"Active"}) => txn_state[t] \in TxnStateRecord
      /\ txn_state[t] \in TxnStateRecord => txn_state[t] # NoRecord
  BY CoordinatorAssumption DEF HasStatus, TxnStoreTypeOK
<1> USE <1>a
<1>1. ASSUME NEW op, NEW x \in Keys \cup {NoKey}, NEW pc \in {"stage_wal", "heartbeat_put"},
             op # "begin", pc = "stage_wal" => x \in Keys,
             RequireActive(h, op, t, x, pc),
             UNCHANGED <<store_vars, txn_vars, si_vars, mem_vars, commit_lock,
                         env_vars, ghost_vars>>
      PROVE  TakesUp(h, t)
  <2> USE <1>1
  <2>1. /\ Accepts(h, op, t) /\ HasStatus(t, {"Active"})
        /\ StartsStage(h, pc, t, x, txn_state[t])
    BY DEF RequireActive, StartsStage
  <2>2. pc \in Pcs
    BY DEF Pcs, StagePcs
  <2>3. /\ req' \in [Handlers -> Requests]
        /\ \A g \in Handlers \ {h} : req'[g] = req[g]
        /\ req'[h].pc = pc /\ req'[h].t = t /\ req'[h].k = x
        /\ req'[h].rec = txn_state[t]
    <3>1. StartsStageOK(h) /\ txn_state[t] \in TxnStateRecord
      BY Zenon, <2>1, RequestWrites
    <3> QED BY ZenonT(60), <2>1, <2>2, <3>1 DEF StartsStageOK, RequestBecomes
  <2>4. AcceptStep(h, t)
    BY Zenon, <2>1, <2>3
       DEF AcceptStep, Accepts, BeginPcs, AppendPcs, KeyPcs, RecPcs, LockedPcs, StagePcs, ReadPcs,
           CommitPcs, RepairPcs, AbortPcs
  <2>5. TypeOK'
    BY ZenonT(60), <2>3 DEF TypeOK, StoreTypeOK, TxnStoreTypeOK, SiTypeOK
  <2> QED BY <2>4, <2>5 DEF TakesUp
<1>2. \A k \in Keys : StageRequest(h, t, k) => TakesUp(h, t)
  BY Zenon, <1>1 DEF StageRequest
<1>3. HeartbeatRequest(h, t) => TakesUp(h, t)
  BY <1>1 DEF HeartbeatRequest
<1>4. ASSUME NEW k \in Keys, ReadRequest(h, t, k) PROVE TakesUp(h, t)
  <2> USE <1>4
  <2> DEFINE v == ReadRecord(k, txn_state[t].snapshot)
  <2>1. v \in Versions
    <3>1. txn_state[t].snapshot \in Versions
      BY DEF ReadRequest, TxnStateRecord
    <3>2. record_versions[k] \in SUBSET Versions /\ memtable[k] \in Versions
      BY Zenon DEF StoreTypeOK, TypeOK
    <3>3. RecordVersionAtSnapshot(record_versions[k], txn_state[t].snapshot)
            \in record_versions[k] \cup {0}
      BY Zenon, <3>1, <3>2, EntriesHaveVersions DEF SearchFacts, RowsAreFound
    <3> QED BY <3>2, <3>3, MaxVersionAssumption DEF ReadRecord, Versions
  <2>2. /\ Accepts(h, "read", t) /\ HasStatus(t, {"Active"})
        /\ observed' = [observed EXCEPT ![t] = @ \cup {[k |-> k, v |-> v]}]
        /\ \/ req' = req
           \/ StartsRead(h, "read_edges", t, k, v)
        /\ UNCHANGED <<store_vars, txn_vars, si_vars, mem_vars, commit_lock,
                       env_vars, published, answers, rw>>
    BY Zenon DEF ReadRequest, StartsRead
  <2> HIDE DEF v
  <2>3. observed' \in [TxnIds -> SUBSET [k : Keys, v : Versions]]
    BY <2>1, <2>2 DEF TypeOK
  <2>4. CASE req' = req
    <3> USE <2>4
    <3>1. TypeOK'
      BY ZenonT(60), <2>2, <2>3 DEF TypeOK, StoreTypeOK, TxnStoreTypeOK, SiTypeOK
    <3>2. SameControlVars
      BY Zenon, <2>2 DEF SameControlVars
    <3> QED BY <3>1, <3>2 DEF TakesUp
  <2>5. CASE StartsRead(h, "read_edges", t, k, v)
    <3>1. "read_edges" \in Pcs
      BY DEF Pcs, ReadPcs
    <3>2. /\ req' \in [Handlers -> Requests]
          /\ \A g \in Handlers \ {h} : req'[g] = req[g]
          /\ req'[h].pc = "read_edges" /\ req'[h].t = t /\ req'[h].k = k
      <4>1. StartsReadOK(h) /\ k \in Keys \cup {NoKey}
        BY Zenon, RequestWrites
      <4> QED BY Zenon, <2>1, <2>5, <3>1, <4>1 DEF StartsReadOK, RequestBecomes
    <3>3. AcceptStep(h, t)
      BY Zenon, <2>2, <3>2
         DEF AcceptStep, Accepts, BeginPcs, AppendPcs, KeyPcs, RecPcs, LockedPcs, StagePcs, ReadPcs,
             CommitPcs, RepairPcs, AbortPcs
    <3>4. TypeOK'
      BY ZenonT(60), <2>2, <2>3, <3>2 DEF TypeOK, StoreTypeOK, TxnStoreTypeOK, SiTypeOK
    <3> QED BY <3>3, <3>4 DEF TakesUp
  <2> QED BY Zenon, <2>2, <2>4, <2>5
<1>5. ASSUME CommitRequest(h, t) PROVE TakesUp(h, t)
  <2> USE <1>5
  <2>1. /\ Accepts(h, "commit", t) /\ commit_lock = NoTxn /\ commit_lock' = h
        /\ CompareAndSetTxnStatus(t, "Active", "Committing")
        /\ StartsCommit(h, "load", t)
    BY DEF CommitRequest, StartsCommit, Takes
  <2>2. /\ txn_state' \in [TxnIds -> TxnStateRecord \cup {NoRecord}]
        /\ txn_state'[t] # NoRecord /\ HasStatus(t, {"Active"})
        /\ \A u \in TxnIds \ {t} : txn_state'[u] = txn_state[u]
    <3>1. "Committing" \in TxnStatus
      BY DEF TxnStatus
    <3> QED BY Zenon, <2>1, <3>1, CompareAndSetSpec DEF StatusSet
  <2>3. "load" \in Pcs
    BY DEF Pcs, CommitPcs
  <2>4. /\ req' \in [Handlers -> Requests]
        /\ \A g \in Handlers \ {h} : req'[g] = req[g]
        /\ req'[h].pc = "load" /\ req'[h].t = t
    BY ZenonT(60), <2>1, <2>3, RequestWrites DEF StartsCommitOK, RequestBecomes
  <2>5. AcceptStep(h, t)
    BY Zenon, <2>1, <2>2, <2>4
       DEF CommitRequest, AcceptStep, Accepts, BeginPcs, AppendPcs, KeyPcs, RecPcs, LockedPcs,
           StagePcs, ReadPcs, CommitPcs, RepairPcs, AbortPcs
  <2>6. TypeOK'
    BY ZenonT(60), <2>1, <2>2, <2>4
       DEF CommitRequest, TypeOK, StoreTypeOK, TxnStoreTypeOK, SiTypeOK
  <2> QED BY <2>5, <2>6 DEF TakesUp
<1>6. ASSUME AbortRequest(h, t) PROVE TakesUp(h, t)
  <2> USE <1>6
  <2>1. /\ Accepts(h, "abort", t) /\ commit_lock = NoTxn /\ commit_lock' = h
        /\ CompareAndSetTxnStatus(t, "Active", "Aborted")
        /\ StartsAbort(h, "abort_drop", t, txn_state[t])
    BY DEF AbortRequest, StartsAbort, Takes
  <2>2. /\ txn_state' \in [TxnIds -> TxnStateRecord \cup {NoRecord}]
        /\ txn_state'[t] # NoRecord /\ HasStatus(t, {"Active"})
        /\ \A u \in TxnIds \ {t} : txn_state'[u] = txn_state[u]
    <3>1. "Aborted" \in TxnStatus
      BY DEF TxnStatus
    <3> QED BY Zenon, <2>1, <3>1, CompareAndSetSpec DEF StatusSet
  <2>3. "abort_drop" \in Pcs
    BY DEF Pcs, AbortPcs
  <2>4. /\ req' \in [Handlers -> Requests]
        /\ \A g \in Handlers \ {h} : req'[g] = req[g]
        /\ req'[h].pc = "abort_drop" /\ req'[h].t = t
        /\ req'[h].rec = txn_state[t]
    <3>1. txn_state[t] \in TxnStateRecord
      BY Zenon, <2>2
    <3>2. StartsAbort(h, "abort_drop", t, txn_state[t])
      BY <2>1
    <3>3. StartsAbortOK(h)
      BY Zenon, RequestWrites
    <3> QED BY Zenon, <2>3, <3>1, <3>2, <3>3 DEF StartsAbortOK, RequestBecomes
  <2>5. AcceptStep(h, t)
    BY Zenon, <2>1, <2>2, <2>4
       DEF AbortRequest, AcceptStep, Accepts, BeginPcs, AppendPcs, KeyPcs, RecPcs, LockedPcs,
           StagePcs, ReadPcs, CommitPcs, RepairPcs, AbortPcs
  <2>6. TypeOK'
    BY ZenonT(60), <2>1, <2>2, <2>4
       DEF AbortRequest, TypeOK, StoreTypeOK, TxnStoreTypeOK, SiTypeOK
  <2> QED BY <2>5, <2>6 DEF TakesUp
<1>7. ASSUME CommitReplay(h, t) PROVE TakesUp(h, t)
  <2> USE <1>7
  <2>1. answers' \in [TxnIds -> SUBSET (Versions \cup {Refused})]
    <3>1. PICK a : a \in Versions \cup {Refused} /\ Answer(t, a)
      <4>1. HasStatus(t, {"Committed"}) => CommitVersionOf(txn_state[t]) \in Versions
        BY Zenon DEF HasStatus, TxnStoreTypeOK, TxnStateRecord, CommitVersionOf
      <4> QED BY Zenon, <4>1 DEF CommitReplay
    <3> QED BY Zenon, <3>1 DEF Answer, TypeOK
  <2>2. pending' \in [TxnIds -> SUBSET Keys]
    BY DEF CommitReplay, TakePending, TypeOK
  <2>3. TypeOK'
    BY ZenonT(60), <2>1, <2>2
       DEF CommitReplay, TypeOK, StoreTypeOK, TxnStoreTypeOK, SiTypeOK
  <2>4. SameControlVars
    BY Zenon DEF CommitReplay, SameControlVars
  <2> QED BY <2>3, <2>4 DEF TakesUp
<1>8. ASSUME AbortReplay(h, t) PROVE TakesUp(h, t)
  <2> USE <1>8
  <2>1. pending' \in [TxnIds -> SUBSET Keys]
    BY Zenon DEF AbortReplay, TakePending, TypeOK
  <2>2. TypeOK'
    BY ZenonT(60), <2>1
       DEF AbortReplay, TypeOK, StoreTypeOK, TxnStoreTypeOK, SiTypeOK
  <2>3. SameControlVars
    BY Zenon DEF AbortReplay, SameControlVars
  <2> QED BY <2>2, <2>3 DEF TakesUp
<1> QED BY <1>2, <1>3, <1>4, <1>5, <1>6, <1>7, <1>8

-----------------------------------------------------------------------------
(***************************************************************************)
(* A step of begin touches the record and the log of its own transaction,  *)
(* which no other request knows yet.                                       *)
(***************************************************************************)
BeginStep(h) ==
  /\ req[h].pc \in BeginPcs
  /\ req' \in [Handlers -> Requests]
  /\ \A g \in Handlers \ {h} : req'[g] = req[g]
  /\ \/ req'[h] = Idle
     \/ /\ req'[h].t = req[h].t /\ req'[h].pc \in BeginPcs
        /\ wal' = wal
        /\ HasStatus(req[h].t, {"Aborted"}) => HasStatus(req[h].t, {"Aborted"})'
        /\ txn_state[req[h].t] = NoRecord \/ txn_state' = txn_state
        /\ req'[h].pc \in {"begin_put", "begin_unpin"} =>
             txn_state'[req[h].t] = NoRecord
  /\ \A u \in TxnIds \ {req[h].t} : txn_state'[u] = txn_state[u] /\ wal'[u] = wal[u]
  /\ UNCHANGED <<commit_lock, sweeper, recovery, begun>>

Begins(h) == TypeOK' /\ BeginStep(h)

(***************************************************************************)
(* Begin keeps what the program counters say.                              *)
(***************************************************************************)
LEMMA BeginKeepsControl ==
  ASSUME TInv, NEW h \in Handlers, BeginStep(h)
  PROVE  ControlOK'
<1>1. /\ \A g \in Handlers : RequestOK(g) /\ BeginOK(g)
      /\ NotBegunOK /\ SweeperOK /\ RecoveryOK
  BY DEF TInv, ControlOK
<1>2. /\ NoTxn \notin TxnIds /\ "idle" \notin BeginPcs
      /\ BeginPcs \cap (LockedPcs \cup KeyPcs \cup RecPcs \cup {"load"}) = {}
      /\ "idle" \notin LockedPcs \cup KeyPcs \cup RecPcs \cup {"load"}
  BY CoordinatorAssumption
     DEF BeginPcs, KeyPcs, RecPcs, LockedPcs, StagePcs, ReadPcs, CommitPcs,
         RepairPcs, AbortPcs
<1>3. /\ req[h].t \in TxnIds /\ recovery.pc = "off"
      /\ \A g \in Handlers \ {h} : req[g].t # req[h].t
      /\ req[h].t \in begun
  BY Zenon, <1>1, <1>2 DEF BeginStep, RequestOK, BeginOK
<1>4. /\ req'[h].t \in {req[h].t, NoTxn}
      /\ req'[h].pc \in BeginPcs \cup {"idle"}
      /\ req'[h].pc = "idle" => req'[h] = Idle
  BY Zenon, <1>2, IdleRequest DEF BeginStep
<1>5. RequestOK(h)'
  <2>1. req'[h].pc \notin LockedPcs /\ req'[h].pc \notin KeyPcs
    BY Zenon, <1>2, <1>4
  <2>2. req'[h].pc \notin RecPcs /\ req'[h].pc # "load"
    BY Zenon, <1>2, <1>4
  <2>3. req'[h].pc # "idle" => req'[h].t = req[h].t /\ recovery' = recovery
    BY IdleRequest DEF BeginStep
  <2> QED BY Zenon, <1>3, <1>4, <2>1, <2>2, <2>3 DEF RequestOK
<1>6. ASSUME NEW g \in Handlers \ {h} PROVE RequestOK(g)'
  <2>1. req'[g] = req[g] /\ RequestOK(g) /\ req[g].t # req[h].t
    BY ZenonT(60), <1>1, <1>3 DEF BeginStep
  <2>2. req[g].pc = "load" => txn_state'[req[g].t] # NoRecord
    BY <2>1 DEF RequestOK, BeginStep
  <2> QED BY Zenon, <2>1, <2>2 DEF RequestOK, BeginStep
<1>7. ASSUME NEW g \in Handlers \ {h} PROVE BeginOK(g)'
  <2>1. CASE req[g].pc \in BeginPcs
    <3> USE <2>1
    <3>1. /\ req'[g] = req[g] /\ BeginOK(g) /\ req[g].t \in TxnIds
          /\ req[h].t # req[g].t
      BY Zenon, <1>1, <1>2, <1>3 DEF BeginStep, RequestOK
    <3>2. txn_state'[req[g].t] = txn_state[req[g].t] /\ wal'[req[g].t] = wal[req[g].t]
      BY Zenon, <3>1 DEF BeginStep
    <3>3. \A f \in Handlers \ {g} : req'[f].t # req[g].t
      BY ZenonT(60), <1>2, <1>4, <3>1 DEF BeginOK, BeginStep
    <3> QED BY ZenonT(60), <3>1, <3>2, <3>3 DEF BeginOK, BeginStep, HasStatus
  <2>2. CASE req[g].pc \notin BeginPcs
    BY Zenon, <2>2 DEF BeginOK, BeginStep
  <2> QED BY <2>1, <2>2
<1>8. BeginOK(h)'
  <2>1. CASE req'[h] = Idle
    BY Zenon, <1>2, <2>1, IdleRequest DEF BeginOK
  <2>2. CASE req'[h] # Idle
    <3> USE <2>2
    <3>1. BeginOK(h) /\ req[h].pc \in BeginPcs
      BY Zenon, <1>1 DEF BeginStep
    <3>2. /\ req'[h].t = req[h].t
          /\ \A g \in Handlers \ {h} : req'[g].t # req'[h].t
          /\ req'[h].pc \in {"begin_put", "begin_unpin"} =>
               txn_state'[req[h].t] = NoRecord
      BY Zenon, <1>3 DEF BeginStep
    <3>3. HasStatus(req[h].t, {"Aborted"}) => HasStatus(req[h].t, {"Aborted"})'
      BY Zenon DEF BeginStep
    <3>4. wal' = wal /\ sweeper' = sweeper /\ begun' = begun
      BY ZenonT(60) DEF BeginStep
    <3> QED BY ZenonT(60), <1>3, <3>1, <3>2, <3>3, <3>4 DEF BeginOK
  <2> QED BY <2>1, <2>2
<1>9. NotBegunOK'
  <2> SUFFICES ASSUME NEW u \in TxnIds \ begun
               PROVE  /\ txn_state'[u] = NoRecord /\ wal'[u].status = "none"
                      /\ sweeper'.t # u /\ \A g \in Handlers : req'[g].t # u
    BY Zenon DEF NotBegunOK, BeginStep
  <2>1. /\ txn_state[u] = NoRecord /\ wal[u].status = "none" /\ sweeper.t # u
        /\ \A g \in Handlers : req[g].t # u
    BY <1>1 DEF NotBegunOK
  <2> QED BY <1>2, <1>4, <2>1 DEF BeginStep
<1>10. SweeperOK' /\ RecoveryOK'
  BY Zenon, <1>1, <1>3 DEF BeginStep, SweeperOK, RecoveryOK
<1> QED BY <1>5, <1>6, <1>7, <1>8, <1>9, <1>10 DEF ControlOK

(***************************************************************************)
(* The steps of begin, its error paths included.                           *)
(***************************************************************************)
LEMMA BeginSteps ==
  ASSUME TInv, NEW h \in Handlers
  PROVE  /\ BeginPut(h) => Begins(h)
         /\ BeginWal(h) => Begins(h)
         /\ BeginUnpin(h) => Begins(h)
         /\ BeginDelete(h) => Begins(h)
         /\ BeginFails(h) => Begins(h)
<1> USE DEF store_vars, txn_vars, si_vars, mem_vars, env_vars, ghost_vars, mvcc_vars
<1>0. /\ TypeOK /\ StoreTypeOK /\ TxnStoreTypeOK /\ SiTypeOK
      /\ req \in [Handlers -> Requests]
  BY Zenon DEF TInv, TypeOK
<1> USE <1>0
<1>a. /\ req[h].pc # "idle" => req[h].t \in TxnIds
      /\ req[h].v \in Versions
  BY Holds DEF Held
<1> USE <1>a
<1>b. \A pc \in BeginPcs : pc \in Pcs
  BY Zenon DEF Pcs
<1>g. ASSUME NEW pc \in BeginPcs, Goto(h, pc)
      PROVE  /\ req' \in [Handlers -> Requests]
             /\ \A g \in Handlers \ {h} : req'[g] = req[g]
             /\ req'[h].pc = pc /\ req'[h].t = req[h].t
  BY Zenon, <1>b, <1>g, GotoSpec DEF RequestBecomes
<1> USE <1>g
<1>d. ASSUME Done(h)
      PROVE  /\ req' \in [Handlers -> Requests] /\ req'[h] = Idle
             /\ \A g \in Handlers \ {h} : req'[g] = req[g]
  BY Zenon, <1>d, DoneSpec
<1>p. "begin_put" \in BeginPcs /\ "begin_wal" \in BeginPcs /\ "begin_unpin" \in BeginPcs
        /\ "begin_undo" \in BeginPcs /\ "begin_delete" \in BeginPcs
  BY Zenon DEF BeginPcs
<1> USE <1>p
<1>1. ASSUME BeginPut(h) PROVE Begins(h)
  <2> USE <1>1
  <2>1. /\ req[h].t \in TxnIds /\ txn_state[req[h].t] = NoRecord
        /\ NewActive(req[h].v) \in TxnStateRecord
    <3>1. req[h].pc = "begin_put" /\ BeginOK(h)
      BY Zenon DEF BeginPut, At, TInv, ControlOK
    <3>2. req[h].t \in TxnIds /\ txn_state[req[h].t] = NoRecord
      BY Zenon, <3>1 DEF BeginOK
    <3>3. 0 \in Versions
      BY MaxVersionAssumption DEF Versions
    <3>4. NewActive(req[h].v) \in TxnStateRecord
      <4>1. req[h].v \in Versions
        BY Zenon, Holds DEF Held
      <4> QED BY <3>3, <4>1 DEF NewActive, TxnStateRecord, TxnStatus
    <3> QED BY <3>2, <3>4
  <2>2. /\ txn_state' \in [TxnIds -> TxnStateRecord \cup {NoRecord}]
        /\ \A u \in TxnIds \ {req[h].t} : txn_state'[u] = txn_state[u]
    BY Zenon, <2>1, PutTxnStateSpec DEF BeginPut
  <2>3. BeginStep(h)
    BY Zenon, <2>1, <2>2 DEF BeginPut, At, BeginStep, HasStatus
  <2>4. TypeOK'
    BY ZenonT(60), <2>2, <2>3
       DEF BeginPut, BeginStep, TypeOK, StoreTypeOK, TxnStoreTypeOK, SiTypeOK
  <2> QED BY ZenonT(60), <2>3, <2>4 DEF Begins
<1>2. ASSUME BeginWal(h) PROVE Begins(h)
  <2> USE <1>2
  <2>1. req[h].t \in TxnIds
    BY Zenon DEF BeginWal, At
  <2>2. /\ wal' \in [TxnIds -> WalFold]
        /\ \A u \in TxnIds \ {req[h].t} : wal'[u] = wal[u]
    BY ZenonT(60), <2>1, AppendWalOpenSpec DEF BeginWal
  <2>3. SiTypeOK'
    BY <2>1, SiTypes DEF SiTypesKept, BeginWal
  <2>4. BeginStep(h)
    BY Zenon, <1>d, <2>2 DEF BeginWal, At, BeginStep
  <2>5. TypeOK'
    BY ZenonT(60), <2>2, <2>3, <2>4
       DEF BeginWal, BeginStep, TypeOK, StoreTypeOK, TxnStoreTypeOK, SiTypeOK
  <2> QED BY <2>4, <2>5 DEF Begins
<1>3. ASSUME BeginUnpin(h) PROVE Begins(h)
  <2> USE <1>3
  <2>1. active_snapshots' \in [Versions -> Nat]
    BY Zenon, StoreTypes DEF BeginUnpin
  <2>2. BeginStep(h)
    <3>1. CASE At(h, "begin_undo")
      BY Zenon, <3>1 DEF BeginUnpin, At, BeginStep, HasStatus
    <3>2. CASE ~ At(h, "begin_undo")
      BY Zenon, <1>d, <3>2 DEF BeginUnpin, At, BeginStep
    <3> QED BY <3>1, <3>2
  <2>3. TypeOK'
    BY ZenonT(60), <2>1, <2>2
       DEF BeginUnpin, BeginStep, TypeOK, StoreTypeOK, TxnStoreTypeOK, SiTypeOK
  <2> QED BY <2>2, <2>3 DEF Begins
<1>4. ASSUME BeginDelete(h) PROVE Begins(h)
  <2> USE <1>4
  <2>1. req[h].t \in TxnIds
    BY Zenon DEF BeginDelete, At
  <2>2. /\ txn_state' \in [TxnIds -> TxnStateRecord \cup {NoRecord}]
        /\ \A u \in TxnIds \ {req[h].t} : txn_state'[u] = txn_state[u]
    BY Zenon, <2>1, DeleteTxnStateSpec DEF BeginDelete
  <2>3. BeginStep(h)
    BY Zenon, <1>d, <2>2 DEF BeginDelete, At, BeginStep
  <2>4. TypeOK'
    BY ZenonT(60), <2>2, <2>3
       DEF BeginDelete, BeginStep, TypeOK, StoreTypeOK, TxnStoreTypeOK, SiTypeOK
  <2> QED BY <2>3, <2>4 DEF Begins
<1>5. ASSUME BeginFails(h) PROVE Begins(h)
  <2> USE <1>5
  <2>1. faults' \in 0 .. MaxFaults
    BY Zenon, FaultCounts DEF BeginFails, Fault
  <2>2. BeginStep(h)
    <3>1. CASE At(h, "begin_put") /\ Goto(h, "begin_unpin")
      <4> USE <3>1
      <4>1. txn_state[req[h].t] = NoRecord
        BY Zenon DEF At, TInv, ControlOK, BeginOK, BeginPcs
      <4> QED BY Zenon, <4>1
              DEF BeginFails, Fault, At, BeginStep, HasStatus
    <3>2. CASE At(h, "begin_wal") /\ Goto(h, "begin_undo")
      BY Zenon, <3>2 DEF BeginFails, Fault, At, BeginStep, HasStatus
    <3> QED BY Zenon, <3>1, <3>2 DEF BeginFails
  <2>3. TypeOK'
    BY Zenon, <2>1, <2>2
       DEF BeginFails, Fault, BeginStep, TypeOK, StoreTypeOK, TxnStoreTypeOK, SiTypeOK
  <2> QED BY <2>2, <2>3 DEF Begins
<1> QED BY Zenon, <1>1, <1>2, <1>3, <1>4, <1>5

(***************************************************************************)
(* The first step of begin: a fresh id, the snapshot captured and pinned.  *)
(***************************************************************************)
LEMMA BeginCaptureStep ==
  ASSUME TInv, NEW h \in Handlers, NEW t \in TxnIds, BeginCapture(h, t)
  PROVE  /\ TInv'
         /\ \A g \in Handlers \ {h} : req'[g] = req[g]
         /\ req'[h].pc = "begin_put" /\ req'[h].t = t
<1> USE DEF store_vars, txn_vars, si_vars, mem_vars, env_vars, ghost_vars, mvcc_vars
<1>0. /\ TypeOK /\ StoreTypeOK /\ TxnStoreTypeOK /\ SiTypeOK
      /\ req \in [Handlers -> Requests] /\ global_version \in Versions
  BY Zenon DEF TInv, TypeOK, StoreTypeOK
<1>1. /\ \A g \in Handlers : RequestOK(g) /\ BeginOK(g)
      /\ NotBegunOK /\ SweeperOK /\ RecoveryOK
  BY Zenon DEF TInv, ControlOK
<1>2. /\ "begin_put" \in Pcs /\ "begin_put" \in BeginPcs /\ "idle" \notin BeginPcs
      /\ "begin_put" \notin KeyPcs \cup RecPcs \cup LockedPcs \cup {"idle", "load"}
  BY Zenon DEF Pcs, BeginPcs, KeyPcs, RecPcs, LockedPcs, StagePcs, ReadPcs, CommitPcs,
         RepairPcs, AbortPcs
<1>3. /\ StartsBegin(h, "begin_put", t, global_version)
      /\ recovery.pc = "off" /\ req[h] = Idle /\ t \notin begun
      /\ begun' = begun \cup {t}
      /\ UNCHANGED <<txn_state, wal, commit_lock, sweeper, recovery>>
  BY DEF BeginCapture, StartsBegin, Accepts
<1>4. /\ req' \in [Handlers -> Requests]
      /\ \A g \in Handlers \ {h} : req'[g] = req[g]
      /\ req'[h].pc = "begin_put" /\ req'[h].t = t
  <2>1. StartsBeginOK(h)
    BY Zenon, <1>0, RequestWrites
  <2> QED BY Zenon, <1>0, <1>2, <1>3, <2>1 DEF StartsBeginOK, RequestBecomes
<1>5. active_snapshots' \in [Versions -> Nat] /\ begun' \in SUBSET TxnIds
  BY ZenonT(60), <1>0, <1>3, StoreTypes DEF BeginCapture, CaptureAndRegisterSnapshot, TypeOK
<1>6. TypeOK'
  BY ZenonT(60), <1>0, <1>4, <1>5
     DEF BeginCapture, TypeOK, StoreTypeOK, TxnStoreTypeOK, SiTypeOK
<1>7. /\ txn_state[t] = NoRecord /\ wal[t].status = "none" /\ sweeper.t # t
      /\ \A g \in Handlers : req[g].t # t
  BY Zenon, <1>1, <1>3 DEF NotBegunOK
<1>8. ASSUME NEW g \in Handlers PROVE RequestOK(g)' /\ BeginOK(g)'
  <2>1. CASE g = h
    BY ZenonT(60), <1>2, <1>3, <1>4, <1>7, <2>1 DEF RequestOK, BeginOK
  <2>2. CASE g # h
    <3>1. req'[g] = req[g] /\ RequestOK(g) /\ BeginOK(g)
      BY <1>1, <1>4, <2>2
    <3>2. RequestOK(g)'
      BY Zenon, <1>3, <3>1 DEF RequestOK
    <3>3. req[g].pc \in BeginPcs => \A f \in Handlers \ {g} : req'[f].t # req[g].t
      BY Zenon, <1>4, <1>7, <3>1 DEF BeginOK
    <3> QED BY ZenonT(60), <1>3, <3>1, <3>2, <3>3 DEF BeginOK, HasStatus
  <2> QED BY <2>1, <2>2
<1>9. NotBegunOK'
  <2> SUFFICES ASSUME NEW u \in TxnIds \ begun'
               PROVE  /\ txn_state'[u] = NoRecord /\ wal'[u].status = "none"
                      /\ sweeper'.t # u /\ \A g \in Handlers : req'[g].t # u
    BY Zenon DEF NotBegunOK
  <2>1. u \in TxnIds \ begun /\ u # t
    BY Zenon, <1>3
  <2>2. /\ txn_state[u] = NoRecord /\ wal[u].status = "none" /\ sweeper.t # u
        /\ \A g \in Handlers : req[g].t # u
    BY Zenon, <1>1, <2>1 DEF NotBegunOK
  <2>3. \A g \in Handlers : req'[g].t # u
    BY ZenonT(60), <1>4, <2>1, <2>2
  <2> QED BY Zenon, <1>3, <2>2, <2>3
<1>10. SweeperOK' /\ RecoveryOK'
  BY <1>1, <1>3 DEF SweeperOK, RecoveryOK
<1> QED BY ZenonT(60), <1>4, <1>6, <1>8, <1>9, <1>10 DEF TInv, ControlOK

-----------------------------------------------------------------------------
(***************************************************************************)
(* A step of the sweeper or of recovery: it changes the record or the log  *)
(* only of a transaction it has claimed, and never for one that is being   *)
(* begun.                                                                  *)
(***************************************************************************)
LEMMA BackgroundKeepsControl ==
  ASSUME TInv, UNCHANGED <<req, commit_lock, begun>>, SweeperOK', RecoveryOK',
         recovery' = recovery \/ recovery.pc # "off",
         \A t \in TxnIds :
           \/ /\ txn_state'[t] = txn_state[t] /\ wal'[t] = wal[t]
              /\ sweeper'.t = t => sweeper.t = t
           \/ txn_state'[t] = txn_state[t] /\ sweeper.t = t
           \/ txn_state[t] # NoRecord /\ HasStatus(t, {"Aborted"})'
           \/ /\ txn_state[t] # NoRecord /\ txn_state'[t] # NoRecord
              /\ recovery.pc # "off"
  PROVE  ControlOK'
<1>1. /\ \A g \in Handlers : RequestOK(g) /\ BeginOK(g)
      /\ NotBegunOK /\ SweeperOK /\ RecoveryOK
  BY Zenon DEF TInv, ControlOK
<1>2. "idle" \notin BeginPcs \cup KeyPcs \cup RecPcs \cup LockedPcs \cup {"load"}
  BY Zenon DEF BeginPcs, KeyPcs, RecPcs, LockedPcs, StagePcs, ReadPcs, CommitPcs,
         RepairPcs, AbortPcs
<1>3. ASSUME NEW g \in Handlers PROVE RequestOK(g)' /\ BeginOK(g)'
  <2>1. CASE req[g].pc = "idle"
    BY Zenon, <1>1, <1>2, <2>1 DEF RequestOK, BeginOK
  <2>2. CASE req[g].pc # "idle"
    <3>1. /\ req[g].t \in TxnIds /\ recovery.pc = "off" /\ recovery' = recovery
          /\ RequestOK(g) /\ BeginOK(g)
      BY Zenon, <1>1, <2>2 DEF RequestOK
    <3> DEFINE t == req[g].t
    <3>2. \/ /\ txn_state'[t] = txn_state[t] /\ wal'[t] = wal[t]
             /\ sweeper'.t = t => sweeper.t = t
          \/ txn_state'[t] = txn_state[t] /\ sweeper.t = t
          \/ txn_state[t] # NoRecord /\ HasStatus(t, {"Aborted"})'
      BY Zenon, <3>1
    <3>3. RequestOK(g)'
      BY Zenon, <3>1, <3>2 DEF RequestOK, HasStatus
    <3>4. BeginOK(g)'
      BY Zenon, <3>1, <3>2 DEF BeginOK, HasStatus
    <3> QED BY Zenon, <3>3, <3>4
  <2> QED BY <2>1, <2>2
<1>4. NotBegunOK'
  BY Zenon, <1>1 DEF NotBegunOK
<1> QED BY Zenon, <1>3, <1>4 DEF ControlOK

(***************************************************************************)
(* The steps of the sweeper.                                               *)
(***************************************************************************)
LEMMA SweepSteps ==
  ASSUME TInv, SearchFacts, NEW t \in TxnIds
  PROVE  /\ SweepClaim(t) => TInv'
         /\ SweepDrop => TInv'
         /\ SweepWal => TInv'
         /\ SweepUnpin => TInv'
         /\ SweepChains => TInv'
         /\ SweepFails => TInv'
<1> USE DEF store_vars, txn_vars, si_vars, mem_vars, env_vars, ghost_vars, mvcc_vars
<1> DEFINE Sweepers == [t : TxnIds \cup {NoTxn}, snapshot : Versions,
                        pc : {"idle", "drop", "wal", "unpin"}]
<1>0. /\ TypeOK /\ StoreTypeOK /\ TxnStoreTypeOK /\ SiTypeOK /\ ControlOK
      /\ sweeper \in Sweepers /\ SweeperOK /\ RecoveryOK
  BY Zenon DEF TInv, TypeOK, ControlOK
<1>1. ASSUME SweepClaim(t) PROVE TInv'
  <2> USE <1>1
  <2>1. "Aborted" \in TxnStatus
    BY DEF TxnStatus
  <2>2. /\ txn_state' \in [TxnIds -> TxnStateRecord \cup {NoRecord}]
        /\ txn_state[t] # NoRecord /\ txn_state[t] \in TxnStateRecord
        /\ txn_state'[t] # NoRecord /\ txn_state'[t].status = "Aborted"
        /\ \A u \in TxnIds \ {t} : txn_state'[u] = txn_state[u]
    <3>1. CompareAndSetTxnStatus(t, "Active", "Aborted")
      BY Zenon DEF SweepClaim
    <3>2. txn_state[t] # NoRecord
      BY Zenon, <3>1 DEF CompareAndSetTxnStatus, HasStatus
    <3>3. TxnStoreTypeOK
      BY Zenon, <1>0
    <3> QED BY ZenonT(60), <2>1, <3>1, <3>2, <3>3, CompareAndSetSpec DEF StatusSet
  <2>3. /\ sweeper' = [t |-> t, snapshot |-> txn_state[t].snapshot, pc |-> "drop"]
        /\ recovery.pc = "off"
        /\ UNCHANGED <<req, commit_lock, begun, recovery, wal>>
    BY DEF SweepClaim
  <2>4. sweeper' \in Sweepers /\ sweeper'.t = t /\ sweeper'.pc # "idle"
    BY Zenon, <2>2, <2>3 DEF TxnStateRecord
  <2>5. SweeperOK' /\ RecoveryOK'
    BY Zenon, <2>3, <2>4 DEF SweeperOK, RecoveryOK
  <2>6. ControlOK'
    <3>1. HasStatus(t, {"Aborted"})'
      BY <2>2 DEF HasStatus
    <3> QED BY ZenonT(60), <2>2, <2>3, <2>4, <2>5, <3>1, BackgroundKeepsControl
  <2>7. TypeOK'
    BY Zenon, <1>0, <2>2, <2>4
       DEF SweepClaim, TypeOK, StoreTypeOK, TxnStoreTypeOK, SiTypeOK
  <2> QED BY <2>6, <2>7 DEF TInv
<1>2. ASSUME SweepDrop PROVE TInv'
  <2> USE <1>2
  <2>1. sweeper.t \in TxnIds /\ sweeper.pc = "drop" /\ recovery.pc = "off"
    BY <1>0 DEF SweepDrop, SweeperOK
  <2>2. sweeper' \in Sweepers /\ sweeper'.t = sweeper.t /\ sweeper'.pc = "wal"
    BY <1>0 DEF SweepDrop
  <2>3. write_set' \in [TxnIds -> SUBSET Keys]
    BY <1>0, <2>1 DEF SweepDrop, DeleteWriteEntries, TxnStoreTypeOK
  <2>4. SweeperOK' /\ RecoveryOK'
    BY <1>0, <2>1, <2>2 DEF SweepDrop, SweeperOK, RecoveryOK
  <2>5. ControlOK'
    BY <2>2, <2>4, BackgroundKeepsControl DEF SweepDrop
  <2>6. TypeOK'
    BY ZenonT(60), <1>0, <2>2, <2>3
       DEF SweepDrop, TypeOK, StoreTypeOK, TxnStoreTypeOK, SiTypeOK
  <2> QED BY <2>5, <2>6 DEF TInv
<1>3. ASSUME SweepWal PROVE TInv'
  <2> USE <1>3
  <2>1. sweeper.t \in TxnIds /\ sweeper.pc = "wal" /\ recovery.pc = "off"
    BY <1>0 DEF SweepWal, SweeperOK
  <2>2. sweeper' \in Sweepers /\ sweeper'.t = sweeper.t /\ sweeper'.pc = "unpin"
    BY Zenon, <1>0 DEF SweepWal
  <2>3. /\ wal' \in [TxnIds -> WalFold]
        /\ \A u \in TxnIds \ {sweeper.t} : wal'[u] = wal[u]
    BY <1>0, <2>1, AppendWalOutcomeSpec DEF SweepWal, TxnStatus
  <2>4. SweeperOK' /\ RecoveryOK'
    BY Zenon, <1>0, <2>1, <2>2 DEF SweepWal, SweeperOK, RecoveryOK
  <2>5. ControlOK'
    BY Zenon, <2>2, <2>3, <2>4, BackgroundKeepsControl DEF SweepWal
  <2>6. TypeOK'
    BY ZenonT(60), <1>0, <2>2, <2>3
       DEF SweepWal, TypeOK, StoreTypeOK, TxnStoreTypeOK, SiTypeOK
  <2> QED BY <2>5, <2>6 DEF TInv
<1>4. ASSUME SweepUnpin PROVE TInv'
  <2> USE <1>4
  <2>1. sweeper.snapshot \in Versions
    BY Zenon, <1>0
  <2>2. active_snapshots' \in [Versions -> Nat]
    BY ZenonT(60), <1>0, <2>1, StoreTypes DEF SweepUnpin
  <2>3. /\ sweeper' \in Sweepers /\ sweeper' = NotSweeping
        /\ sweeper'.t \notin TxnIds /\ sweeper'.pc = "idle"
    BY MaxVersionAssumption, CoordinatorAssumption
       DEF SweepUnpin, NotSweeping, Versions
  <2>4. SweeperOK' /\ RecoveryOK'
    BY Zenon, <1>0, <2>3 DEF SweepUnpin, SweeperOK, RecoveryOK
  <2>5. ControlOK'
    BY Zenon, <2>3, <2>4, BackgroundKeepsControl DEF SweepUnpin
  <2>6. TypeOK'
    BY ZenonT(60), <1>0, <2>2, <2>3
       DEF SweepUnpin, TypeOK, StoreTypeOK, TxnStoreTypeOK, SiTypeOK
  <2> QED BY <2>5, <2>6 DEF TInv
<1>5. ASSUME SweepChains PROVE TInv'
  <2> USE <1>5
  <2>1. /\ version_chains' \in [Keys -> Seq(Entries)]
        /\ record_versions' \in [Keys -> SUBSET Versions]
    BY Zenon, <1>0, U64MaxAssumption
       DEF SweepChains, SearchFacts, GcKeepsNewest
  <2>2. ControlOK'
    <3>1. SameControlVars
      BY Zenon DEF SweepChains, SameControlVars, txn_vars, env_vars
    <3> QED BY Zenon, <1>0, <3>1, SameControl
  <2>3. TypeOK'
    BY Zenon, <1>0, <2>1
       DEF SweepChains, TypeOK, StoreTypeOK, TxnStoreTypeOK, SiTypeOK
  <2> QED BY <2>2, <2>3 DEF TInv
<1>6. ASSUME SweepFails PROVE TInv'
  <2> USE <1>6
  <2>1. faults' \in 0 .. MaxFaults
    BY Zenon, <1>0, FaultCounts DEF SweepFails
  <2>2. /\ sweeper' \in Sweepers /\ sweeper' = NotSweeping
        /\ sweeper'.t \notin TxnIds /\ sweeper'.pc = "idle"
    BY MaxVersionAssumption, CoordinatorAssumption
       DEF SweepFails, NotSweeping, Versions
  <2>3. SweeperOK' /\ RecoveryOK'
    BY Zenon, <1>0, <2>2 DEF SweepFails, SweeperOK, RecoveryOK
  <2>4. ControlOK'
    BY Zenon, <2>2, <2>3, BackgroundKeepsControl DEF SweepFails
  <2>5. TypeOK'
    BY ZenonT(60), <1>0, <2>1, <2>2
       DEF SweepFails, TypeOK, StoreTypeOK, TxnStoreTypeOK, SiTypeOK
  <2> QED BY <2>4, <2>5 DEF TInv
<1> QED BY Zenon, <1>1, <1>2, <1>3, <1>4, <1>5, <1>6

(***************************************************************************)
(* A crash: nothing is under way, recovery is next.                        *)
(***************************************************************************)
LEMMA CrashStep ==
  ASSUME TInv, Crash
  PROVE  TInv'
<1> USE DEF store_vars, txn_vars, si_vars, mem_vars, env_vars, ghost_vars, mvcc_vars
<1>0. TypeOK /\ StoreTypeOK /\ TxnStoreTypeOK /\ ControlOK
  BY DEF TInv, TypeOK
<1>1. SiTypeOK'
  BY Zenon DEF Crash, SiReset, SiTypeOK, NoLocks, SiTxnLocks
<1>2. /\ crashes' \in 0 .. MaxCrashes
      /\ memtable' \in [Keys -> Versions] /\ pending' \in [TxnIds -> SUBSET Keys]
      /\ req' \in [Handlers -> Requests]
      /\ commit_lock' = NoTxn /\ sweeper' = NotSweeping
      /\ sweeper' \in [t : TxnIds \cup {NoTxn}, snapshot : Versions,
                       pc : {"idle", "drop", "wal", "unpin"}]
  <2>1. 0 \in Versions
    BY MaxVersionAssumption DEF Versions
  <2>2. crashes' \in 0 .. MaxCrashes
    <3>1. MaxCrashes \in Nat
      BY Zenon, CoordinatorAssumption
    <3>2. crashes \in 0 .. MaxCrashes
      BY Zenon, <1>0 DEF TypeOK
    <3>3. crashes < MaxCrashes /\ crashes' = crashes + 1
      BY Zenon DEF Crash
    <3> QED BY <3>1, <3>2, <3>3
  <2>3. /\ memtable' \in [Keys -> Versions] /\ pending' \in [TxnIds -> SUBSET Keys]
        /\ req' \in [Handlers -> Requests]
    BY Zenon, <2>1, IdleRequest DEF Crash
  <2>4. /\ commit_lock' = NoTxn /\ sweeper' = NotSweeping
        /\ NotSweeping \in [t : TxnIds \cup {NoTxn}, snapshot : Versions,
                            pc : {"idle", "drop", "wal", "unpin"}]
    BY Zenon, <2>1 DEF Crash, NotSweeping
  <2> QED BY Zenon, <2>2, <2>3, <2>4
<1>3. /\ recovery' \in [t : TxnIds \cup {NoTxn}, todo : SUBSET TxnIds,
                        pc : {"off", "pick", "drop", "wal", "unpin", "put",
                              "won_wal", "won_put"}]
      /\ recovery'.pc = "pick"
  BY Zenon DEF Crash
<1>4. TypeOK'
  BY Zenon, <1>0, <1>1, <1>2, <1>3 DEF Crash, TypeOK, StoreTypeOK, TxnStoreTypeOK
<1>5. \A h \in Handlers : req'[h] = Idle
  BY Zenon DEF Crash
<1>6. "idle" \notin BeginPcs \cup KeyPcs \cup RecPcs \cup LockedPcs \cup {"load"}
  BY DEF BeginPcs, KeyPcs, RecPcs, LockedPcs, StagePcs, ReadPcs, CommitPcs,
         RepairPcs, AbortPcs
<1>7. \A h \in Handlers : RequestOK(h)' /\ BeginOK(h)'
  BY Zenon, <1>5, <1>6, IdleRequest DEF RequestOK, BeginOK
<1>8. NotBegunOK'
  BY Zenon, <1>0, <1>5, IdleRequest, CoordinatorAssumption
     DEF ControlOK, NotBegunOK, Crash, NotSweeping
<1>9. SweeperOK' /\ RecoveryOK'
  BY Zenon, <1>2, <1>3 DEF SweeperOK, RecoveryOK, NotSweeping
<1> QED BY ZenonT(60), <1>4, <1>7, <1>8, <1>9 DEF TInv, ControlOK

(* What recovery can be at.                                                *)
RecoveryStates ==
  [t : TxnIds \cup {NoTxn}, todo : SUBSET TxnIds,
   pc : {"off", "pick", "drop", "wal", "unpin", "put", "won_wal", "won_put"}]

(***************************************************************************)
(* The steps of recovery.                                                  *)
(***************************************************************************)
LEMMA RecoverSteps ==
  ASSUME TInv, Recover
  PROVE  TInv'
<1> USE DEF store_vars, txn_vars, si_vars, mem_vars, env_vars, ghost_vars, mvcc_vars
<1> DEFINE t == recovery.t
<1>0. /\ TypeOK /\ StoreTypeOK /\ TxnStoreTypeOK /\ SiTypeOK /\ ControlOK
      /\ recovery \in RecoveryStates /\ SweeperOK /\ RecoveryOK
  BY ZenonT(60) DEF TInv, TypeOK, ControlOK, RecoveryStates
<1> USE <1>0
<1>1. recovery.pc # "off" /\ UNCHANGED <<req, commit_lock, begun, sweeper>>
  BY DEF Recover, RecoverPick, RecoverWonWal, RecoverWonPut, RecoverDrop,
         RecoverWal, RecoverUnpin, RecoverPut, RecoverDone
<1> USE <1>1
<1>2. SweeperOK'
  BY Zenon DEF SweeperOK
<1>3. recovery.pc # "pick" =>
        t \in TxnIds /\ txn_state[t] # NoRecord /\ txn_state[t] \in TxnStateRecord
  BY DEF RecoveryOK, TxnStoreTypeOK
<1> USE <1>3
<1>4. ASSUME recovery' \in RecoveryStates, RecoveryOK', recovery.pc # "pick",
             \A u \in TxnIds \ {t} : txn_state'[u] = txn_state[u] /\ wal'[u] = wal[u],
             txn_state'[t] # NoRecord
      PROVE  ControlOK'
  BY Zenon, <1>2, <1>4, BackgroundKeepsControl
<1> USE <1>4
<1>5. ASSUME NEW q \in {"wal", "unpin", "put", "won_put"},
             recovery' = [recovery EXCEPT !.pc = q],
             recovery.pc # "pick", txn_state'[t] # NoRecord
      PROVE  recovery' \in RecoveryStates /\ RecoveryOK'
  <2> USE <1>5
  <2>1. recovery' \in RecoveryStates /\ recovery'.t = t
    BY DEF RecoveryStates
  <2> QED BY <2>1 DEF RecoveryOK
<1> USE <1>5
<1>6. ASSUME recovery' = [recovery EXCEPT !.pc = "pick", !.t = NoTxn]
      PROVE  recovery' \in RecoveryStates /\ RecoveryOK'
  <2> DEFINE half == [recovery EXCEPT !.pc = "pick"]
  <2>1. half \in RecoveryStates /\ half.pc = "pick"
    BY DEF RecoveryStates
  <2>2. recovery' = [half EXCEPT !.t = NoTxn]
    BY <1>6
  <2> HIDE DEF half
  <2>3. recovery' \in RecoveryStates /\ recovery'.pc = "pick"
    BY <2>1, <2>2 DEF RecoveryStates
  <2> QED BY <2>3 DEF RecoveryOK
<1> USE <1>6
<1>7. ASSUME NEW s \in {"Committed", "Aborted"}, recovery.pc # "pick",
             PutTxnState(t, [txn_state[t] EXCEPT !.status = s])
      PROVE  /\ txn_state' \in [TxnIds -> TxnStateRecord \cup {NoRecord}]
             /\ txn_state'[t] # NoRecord
             /\ \A u \in TxnIds \ {t} : txn_state'[u] = txn_state[u]
  <2> USE <1>7
  <2> DEFINE new == [txn_state[t] EXCEPT !.status = s]
  <2>1. new \in TxnStateRecord
    BY Zenon, WithStatus DEF TxnStatus
  <2>2. PutTxnState(t, new) /\ t \in TxnIds
    OBVIOUS
  <2> HIDE DEF new, t
  <2> QED BY ZenonT(60), <2>1, <2>2, PutTxnStateSpec, CoordinatorAssumption
<1> USE <1>7
<1>8. ASSUME NEW s \in {"Committed", "Aborted"}, recovery.pc # "pick",
             AppendWalOutcome(t, s)
      PROVE  /\ wal' \in [TxnIds -> WalFold]
             /\ \A u \in TxnIds \ {t} : wal'[u] = wal[u]
  BY Zenon, <1>8, AppendWalOutcomeSpec DEF TxnStatus
<1> USE <1>8
<1> HIDE DEF t
<1>11. ASSUME NEW u \in TxnIds, RecoverPick(u) PROVE TInv'
  <2> USE <1>11
  <2>1. /\ recovery' \in RecoveryStates /\ recovery'.t = u
        /\ txn_state[u] # NoRecord
    BY Zenon DEF RecoverPick, RecoveryStates, NeedsRecovery, HasStatus
  <2>2. RecoveryOK'
    BY Zenon, <2>1 DEF RecoverPick, RecoveryOK
  <2>3. ControlOK'
    BY Zenon, <1>2, <2>2, BackgroundKeepsControl DEF RecoverPick
  <2>4. TypeOK'
    BY Zenon, <2>1
       DEF RecoverPick, RecoveryStates, TypeOK, StoreTypeOK, TxnStoreTypeOK, SiTypeOK
  <2> QED BY <2>3, <2>4 DEF TInv
<1>12. ASSUME RecoverWonWal PROVE TInv'
  <2> USE <1>12
  <2>1. /\ recovery.pc # "pick" /\ AppendWalOutcome(t, "Committed")
        /\ recovery' = [recovery EXCEPT !.pc = "won_put"] /\ txn_state' = txn_state
    BY DEF RecoverWonWal, t
  <2>2. recovery' \in RecoveryStates /\ RecoveryOK'
    BY <2>1
  <2>3. ControlOK'
    BY <2>1, <2>2
  <2>4. TypeOK'
    BY ZenonT(60), <2>1, <2>2
       DEF RecoverWonWal, RecoveryStates, TypeOK, StoreTypeOK, TxnStoreTypeOK, SiTypeOK
  <2> QED BY ZenonT(60), <2>3, <2>4 DEF TInv
<1>13. ASSUME RecoverWonPut PROVE TInv'
  <2> USE <1>13
  <2>1. /\ recovery.pc # "pick"
        /\ PutTxnState(t, [txn_state[t] EXCEPT !.status = "Committed"])
        /\ recovery' = [recovery EXCEPT !.pc = "pick", !.t = NoTxn] /\ wal' = wal
    BY DEF RecoverWonPut, t
  <2>2. ControlOK'
    BY <2>1
  <2>3. TypeOK'
    BY ZenonT(60), <2>1
       DEF RecoverWonPut, RecoveryStates, TypeOK, StoreTypeOK, TxnStoreTypeOK, SiTypeOK
  <2> QED BY Zenon, <2>2, <2>3 DEF TInv
<1>14. ASSUME RecoverDrop PROVE TInv'
  <2> USE <1>14
  <2>1. /\ recovery.pc # "pick" /\ DeleteWriteEntries(t)
        /\ recovery' = [recovery EXCEPT !.pc = "wal"] /\ txn_state' = txn_state
        /\ wal' = wal
    BY DEF RecoverDrop, t
  <2>2. recovery' \in RecoveryStates /\ RecoveryOK'
    BY <2>1
  <2>3. ControlOK'
    BY Zenon, <2>1, <2>2
  <2>4. write_set' \in [TxnIds -> SUBSET Keys]
    BY <2>1 DEF DeleteWriteEntries, TxnStoreTypeOK
  <2>5. TypeOK'
    BY ZenonT(60), <2>1, <2>2, <2>4
       DEF RecoverDrop, RecoveryStates, TypeOK, StoreTypeOK, TxnStoreTypeOK, SiTypeOK
  <2> QED BY <2>3, <2>5 DEF TInv
<1>15. ASSUME RecoverWal PROVE TInv'
  <2> USE <1>15
  <2>1. /\ recovery.pc # "pick" /\ AppendWalOutcome(t, "Aborted")
        /\ recovery' = [recovery EXCEPT !.pc = "unpin"] /\ txn_state' = txn_state
    BY Zenon DEF RecoverWal, t
  <2>2. recovery' \in RecoveryStates /\ RecoveryOK'
    BY <2>1
  <2>3. ControlOK'
    BY <2>1, <2>2
  <2>4. TypeOK'
    BY ZenonT(60), <2>1, <2>2
       DEF RecoverWal, RecoveryStates, TypeOK, StoreTypeOK, TxnStoreTypeOK, SiTypeOK
  <2> QED BY <2>3, <2>4 DEF TInv
<1>16. ASSUME RecoverUnpin PROVE TInv'
  <2> USE <1>16
  <2>1. /\ recovery.pc # "pick" /\ UnregisterSnapshot(txn_state[t].snapshot)
        /\ recovery' = [recovery EXCEPT !.pc = "put"] /\ txn_state' = txn_state
        /\ wal' = wal
    BY DEF RecoverUnpin, t
  <2>2. recovery' \in RecoveryStates /\ RecoveryOK'
    BY <2>1
  <2>3. ControlOK'
    BY Zenon, <2>1, <2>2
  <2>4. txn_state[t].snapshot \in Versions
    BY <2>1 DEF TxnStateRecord
  <2>5. active_snapshots' \in [Versions -> Nat]
    BY Zenon, <2>1, <2>4, StoreTypes
  <2>6. TypeOK'
    BY ZenonT(60), <2>2, <2>5
       DEF RecoverUnpin, RecoveryStates, TypeOK, StoreTypeOK, TxnStoreTypeOK, SiTypeOK
  <2> QED BY <2>3, <2>6 DEF TInv
<1>17. ASSUME RecoverPut PROVE TInv'
  <2> USE <1>17
  <2>1. /\ recovery.pc # "pick"
        /\ PutTxnState(t, [txn_state[t] EXCEPT !.status = "Aborted"])
        /\ recovery' = [recovery EXCEPT !.pc = "pick", !.t = NoTxn] /\ wal' = wal
    BY DEF RecoverPut, t
  <2>2. ControlOK'
    BY <2>1
  <2>3. TypeOK'
    BY Zenon, <2>1
       DEF RecoverPut, RecoveryStates, TypeOK, StoreTypeOK, TxnStoreTypeOK, SiTypeOK
  <2> QED BY <2>2, <2>3 DEF TInv
<1>18. ASSUME RecoverDone PROVE TInv'
  <2> USE <1>18
  <2>1. recovery' \in RecoveryStates /\ recovery'.pc = "off"
    BY Zenon DEF RecoverDone, Serving, RecoveryStates
  <2>2. ControlOK'
    BY Zenon, <1>2, <2>1, BackgroundKeepsControl DEF RecoverDone, RecoveryOK
  <2>3. TypeOK'
    BY Zenon, <2>1
       DEF RecoverDone, RecoveryStates, TypeOK, StoreTypeOK, TxnStoreTypeOK, SiTypeOK
  <2> QED BY <2>2, <2>3 DEF TInv
<1> QED BY ZenonT(60), <1>11, <1>12, <1>13, <1>14, <1>15, <1>16, <1>17, <1>18 DEF Recover

-----------------------------------------------------------------------------
(***************************************************************************)
(* The service starts in its types, with nothing under way.                *)
(***************************************************************************)
LEMMA InitTInv ==
  ASSUME Init
  PROVE  TInv
<1>1. /\ 0 \in Versions /\ 1 \in Versions /\ NoTxn \notin TxnIds
      /\ SeedTxn \in TxnIds /\ SeedKeys \in SUBSET Keys
  BY MaxVersionAssumption, CoordinatorAssumption DEF Versions
<1> USE <1>1
<1>2. StoreTypeOK
  <2>1. [cv |-> 1, txn |-> SeedTxn] \in Entries
    BY Zenon DEF Entries
  <2>2. <<[cv |-> 1, txn |-> SeedTxn]>> \in Seq(Entries) /\ <<>> \in Seq(Entries)
    BY <2>1
  <2>3. version_chains \in [Keys -> Seq(Entries)]
    BY Zenon, <2>2 DEF Init
  <2> QED BY Zenon, <2>3 DEF Init, StoreTypeOK
<1>3. TxnStoreTypeOK
  BY Zenon DEF Init, TxnStoreTypeOK, TxnStateRecord, WalFold, TxnStatus
<1>4. SiTypeOK
  BY Zenon DEF Init, SiInit, SiTypeOK, NoLocks, SiTxnLocks
<1>5. req \in [Handlers -> Requests] /\ \A h \in Handlers : req[h] = Idle
  BY Zenon, IdleRequest DEF Init
<1>6. TypeOK
  <2>1. crashes \in 0 .. MaxCrashes /\ faults \in 0 .. MaxFaults
    <3>1. MaxCrashes \in Nat /\ MaxFaults \in Nat
      BY Zenon, CoordinatorAssumption
    <3>2. crashes = 0 /\ faults = 0
      BY Zenon DEF Init
    <3> QED BY <3>1, <3>2
  <2>2. /\ sweeper \in [t : TxnIds \cup {NoTxn}, snapshot : Versions,
                        pc : {"idle", "drop", "wal", "unpin"}]
        /\ recovery \in [t : TxnIds \cup {NoTxn}, todo : SUBSET TxnIds,
                         pc : {"off", "pick", "drop", "wal", "unpin", "put",
                               "won_wal", "won_put"}]
    BY Zenon DEF Init, NotSweeping, Serving
  <2>3. /\ memtable \in [Keys -> Versions] /\ pending \in [TxnIds -> SUBSET Keys]
        /\ commit_lock \in Handlers \cup {NoTxn} /\ begun \in SUBSET TxnIds
        /\ published \in [TxnIds -> Versions]
        /\ answers \in [TxnIds -> SUBSET (Versions \cup {Refused})]
        /\ observed \in [TxnIds -> SUBSET [k : Keys, v : Versions]]
        /\ rw \in SUBSET (TxnIds \X TxnIds)
    BY Zenon DEF Init
  <2> QED BY ZenonT(60), <1>2, <1>3, <1>4, <1>5, <2>1, <2>2, <2>3 DEF TypeOK
<1>7. "idle" \notin BeginPcs \cup KeyPcs \cup RecPcs \cup LockedPcs \cup {"load"}
  BY DEF BeginPcs, KeyPcs, RecPcs, LockedPcs, StagePcs, ReadPcs, CommitPcs,
         RepairPcs, AbortPcs
<1>8. \A h \in Handlers : RequestOK(h) /\ BeginOK(h)
  BY Zenon, <1>5, <1>7, IdleRequest DEF RequestOK, BeginOK
<1>9. NotBegunOK
  BY Zenon, <1>5, IdleRequest DEF Init, NotBegunOK, NotSweeping
<1>10. SweeperOK /\ RecoveryOK
  BY Zenon DEF Init, SweeperOK, RecoveryOK, NotSweeping, Serving
<1> QED BY Zenon, <1>6, <1>8, <1>9, <1>10 DEF TInv, ControlOK

(***************************************************************************)
(* Every step of a request that is served.                                 *)
(***************************************************************************)
LEMMA ServeSteps ==
  ASSUME TInv, NEW h \in Handlers, Serve(h) \/ Fails(h)
  PROVE  TInv'
<1>1. ASSUME StepOK(h) PROVE TInv'
  BY <1>1, WorkKeepsControl DEF StepOK, TInv
<1>2. ASSUME Begins(h) PROVE TInv'
  BY Zenon, <1>2, BeginKeepsControl DEF Begins, TInv
<1> QED BY ZenonT(60), <1>1, <1>2, BeginSteps, StageSteps, CommitPutSteps, RepairSteps, NoteSteps
        DEF Serve, Fails

(***************************************************************************)
(* Every step keeps the types and what the program counters say.           *)
(***************************************************************************)
LEMMA NextTInv ==
  ASSUME TInv, SearchFacts, [Next]_vars
  PROVE  TInv'
<1>t. ASSUME NEW h \in Handlers, NEW t \in TxnIds, TakesUp(h, t) PROVE TInv'
  BY Zenon, <1>t, AcceptKeepsControl, SameControl DEF TakesUp, TInv
<1>1. ASSUME NEW h \in Handlers, Request(h) PROVE TInv'
  <2>1. CASE \E t \in TxnIds, k \in Keys : StageRequest(h, t, k) \/ ReadRequest(h, t, k)
    BY <2>1, <1>t, RequestSteps
  <2>2. ASSUME NEW t \in TxnIds,
               \/ BeginCapture(h, t) \/ HeartbeatRequest(h, t) \/ CommitReplay(h, t)
               \/ CommitRequest(h, t) \/ AbortRequest(h, t) \/ AbortReplay(h, t)
        PROVE  TInv'
    <3>1. CASE BeginCapture(h, t)
      BY Zenon, <3>1, BeginCaptureStep
    <3>2. CASE ~ BeginCapture(h, t)
      BY Zenon, <2>2, <3>2, <1>t, RequestSteps
    <3> QED BY Zenon, <3>1, <3>2
  <2> QED BY Zenon, <1>1, <2>1, <2>2 DEF Request
<1>2. ASSUME NEW h \in Handlers, Serve(h) \/ Fails(h) PROVE TInv'
  BY <1>2, ServeSteps
<1>3. CASE Sweep \/ SweepOn \/ SweepFails
  BY <1>3, SweepSteps, CoordinatorAssumption DEF Sweep, SweepOn
<1>4. CASE Crash
  BY <1>4, CrashStep
<1>5. CASE Recover
  BY <1>5, RecoverSteps
<1>6. CASE UNCHANGED vars
  <2> USE <1>6
  <2>1. ControlOK'
    BY SameControl DEF TInv, SameControlVars, vars, txn_vars, env_vars
  <2>2. TypeOK'
    BY ZenonT(60) DEF TInv, TypeOK, StoreTypeOK, TxnStoreTypeOK, SiTypeOK, vars, store_vars,
                txn_vars, si_vars, mem_vars, env_vars, ghost_vars
  <2> QED BY Zenon, <2>1, <2>2 DEF TInv
<1> QED BY Zenon, <1>1, <1>2, <1>3, <1>4, <1>5, <1>6 DEF Next

-----------------------------------------------------------------------------
(* A commit that has its version: newer than all entries, and, once it has *)
(* made its conflict check, no key has moved past its snapshot.            *)
CommitOK(h) ==
  LET r == req[h]
  IN  /\ r.pc \in {"check", "alloc_put", "append"} /\ r.rec.write_keys # {} =>
           /\ r.v <= global_version
           /\ \A k \in Keys : \A e \in EntriesOf(version_chains[k]) : e.cv < r.v
      /\ r.pc \in {"alloc_put", "append"} =>
           \A k \in r.rec.write_keys :
             ~ SnapshotConflict(version_chains[k], r.rec.snapshot)

VersionsAllocated ==
  \A k \in Keys : \A e \in EntriesOf(version_chains[k]) : e.cv <= global_version

AppendInv == VersionsAllocated /\ \A h \in Handlers : CommitOK(h)

(***************************************************************************)
(* A step that leaves the version counter, the chains and the other        *)
(* requests alone, and does not bring a commit to its append.              *)
(***************************************************************************)
LEMMA QuietStep ==
  ASSUME AppendInv, NEW h \in Handlers,
         \A g \in Handlers \ {h} : req'[g] = req[g],
         req'[h].pc \notin AppendPcs,
         UNCHANGED <<global_version, version_chains>>
  PROVE  AppendInv'
<1>1. VersionsAllocated'
  BY Zenon DEF AppendInv, VersionsAllocated
<1>2. ASSUME NEW g \in Handlers PROVE CommitOK(g)'
  <2>1. CASE g = h
    BY ZenonT(60), <2>1 DEF CommitOK, AppendPcs
  <2>2. CASE g # h
    BY <2>2 DEF AppendInv, CommitOK
  <2> QED BY Zenon, <2>1, <2>2
<1> QED BY Zenon, <1>1, <1>2 DEF AppendInv

(***************************************************************************)
(* Steps in which no request moves: the sweeper on one transaction,        *)
(* recovery, a repeated commit or abort.                                   *)
(***************************************************************************)
LEMMA NoRequestMoves ==
  ASSUME AppendInv, UNCHANGED <<req, global_version, version_chains>>
  PROVE  AppendInv'
BY Zenon DEF AppendInv, VersionsAllocated, CommitOK

(***************************************************************************)
(* commit_inner from the allocation of the version to the append.  The     *)
(* version is newer than all entries; the check stands because only the    *)
(* holder of commit_lock appends.                                          *)
(***************************************************************************)
LEMMA CommitKeepsAppend ==
  ASSUME TInv, AppendInv, NEW h \in Handlers
  PROVE  /\ CommitAlloc(h) => AppendInv'
         /\ CommitCheck(h) => AppendInv'
         /\ AllocPut(h) => AppendInv'
         /\ CommitAppend(h) => AppendInv'
         /\ CommitFails(h) => AppendInv'
<1>0. /\ TypeOK /\ StoreTypeOK /\ req \in [Handlers -> Requests]
      /\ VersionsAllocated /\ \A g \in Handlers : CommitOK(g)
      /\ global_version \in Nat
      /\ {"check", "alloc_put", "append", "versions", "reconcile",
          "conflict_put"} \subseteq Pcs
  BY Zenon, EntriesHaveVersions
     DEF TInv, TypeOK, StoreTypeOK, AppendInv, Pcs, CommitPcs, RepairPcs
<1> USE <1>0
<1>1. ASSUME CommitAlloc(h) PROVE AppendInv'
  <2> USE <1>1
  <2>1. /\ req[h].rec.snapshot \in Versions /\ req[h].rec.write_keys \in SUBSET Keys
    BY Holds DEF Held, CommitAlloc, At
  <2>2. version_chains' = version_chains
    BY Zenon DEF CommitAlloc
  <2>3. \A k \in Keys : \A e \in EntriesOf(version_chains[k]) :
          e.cv \in Nat /\ e.cv <= global_version
    BY EntriesOfType, EntriesHaveVersions DEF VersionsAllocated, StoreTypeOK
  <2>4. CASE req[h].rec.write_keys = {}
    <3> USE <2>4
    <3>1. SetPcV(h, "check", req[h].rec.snapshot) /\ global_version' = global_version
      BY DEF CommitAlloc, SetPcV
    <3>2. /\ \A g \in Handlers \ {h} : req'[g] = req[g]
          /\ req'[h].pc = "check" /\ req'[h].rec.write_keys = {}
      BY Zenon, <2>1, <3>1, RequestWrites DEF SetPcVOK, RequestBecomes
    <3>3. \A g \in Handlers : CommitOK(g)'
      BY Zenon, <2>2, <3>1, <3>2 DEF CommitOK
    <3>4. VersionsAllocated'
      BY Zenon, <2>2, <3>1 DEF VersionsAllocated
    <3> QED BY Zenon, <3>3, <3>4 DEF AppendInv
  <2>5. CASE req[h].rec.write_keys # {}
    <3>1. /\ SetPcV(h, "check", global_version')
          /\ global_version' \in Versions /\ global_version' = global_version + 1
      BY Zenon, <2>1, <2>5, StoreTypes DEF CommitAlloc, SetPcV
    <3>2. /\ \A g \in Handlers \ {h} : req'[g] = req[g]
          /\ req'[h].pc = "check" /\ req'[h].v = global_version'
      BY ZenonT(60), <3>1, RequestWrites DEF SetPcVOK, RequestBecomes
    <3>n. /\ global_version' <= global_version' /\ global_version' \in Nat
          /\ \A n \in Nat : n <= global_version =>
               n < global_version' /\ n <= global_version'
      BY <3>1
    <3>3. CommitOK(h)'
      BY Zenon, <2>2, <2>3, <3>2, <3>n DEF CommitOK
    <3>4. ASSUME NEW g \in Handlers \ {h} PROVE CommitOK(g)'
      <4>1. CommitOK(g) /\ req'[g] = req[g] /\ req[g].v \in Nat
        BY Zenon, <3>2, Holds, EntriesHaveVersions DEF Held
      <4> QED BY Zenon, <2>2, <3>n, <4>1 DEF CommitOK
    <3>5. VersionsAllocated'
      BY Zenon, <2>2, <2>3, <3>n DEF VersionsAllocated
    <3> QED BY <3>3, <3>4, <3>5 DEF AppendInv
  <2> QED BY Zenon, <2>4, <2>5
<1>2. ASSUME CommitCheck(h) PROVE AppendInv'
  <2> USE <1>2
  <2>1. UNCHANGED <<global_version, version_chains>>
    BY Zenon DEF CommitCheck, store_vars
  <2>2. CASE Goto(h, "conflict_put")
    <3> USE <2>2
    <3>1. \A g \in Handlers \ {h} : req'[g] = req[g]
      BY Zenon, GotoSpec DEF RequestBecomes
    <3>2. req'[h].pc \notin AppendPcs
      BY GotoSpec DEF RequestBecomes, AppendPcs
    <3> QED BY Zenon, <2>1, <3>1, <3>2, QuietStep
  <2>3. CASE /\ Goto(h, "alloc_put")
             /\ \A k \in req[h].rec.write_keys :
                  ~ SnapshotConflict(version_chains[k], req[h].rec.snapshot)
    <3> USE <2>3
    <3>1. /\ \A g \in Handlers \ {h} : req'[g] = req[g]
          /\ req'[h].rec = req[h].rec /\ req'[h].v = req[h].v
      BY Zenon, GotoSpec DEF RequestBecomes
    <3>2. req[h].pc = "check"
      BY Zenon DEF CommitCheck, At
    <3>3. \A g \in Handlers : CommitOK(g)'
      BY Zenon, <2>1, <3>1, <3>2 DEF CommitOK
    <3>4. VersionsAllocated'
      BY Zenon, <2>1 DEF VersionsAllocated
    <3> QED BY Zenon, <3>3, <3>4 DEF AppendInv
  <2> QED BY Zenon, <2>2, <2>3 DEF CommitCheck
<1>3. ASSUME AllocPut(h) PROVE AppendInv'
  <2> USE <1>3
  <2> DEFINE new == [req[h].rec EXCEPT !.alloc = AllocOf(h)]
  <2>1. /\ req[h].pc = "alloc_put" /\ req[h].rec \in TxnStateRecord
        /\ req[h].v \in Versions
    BY ZenonT(60), Holds DEF Held, AllocPut, At
  <2>2. AllocOf(h) \in Versions
    BY <2>1, MaxVersionAssumption DEF AllocOf, Versions
  <2>3. /\ new \in TxnStateRecord /\ new.write_keys = req[h].rec.write_keys
        /\ new.snapshot = req[h].rec.snapshot
    BY <2>1, <2>2 DEF TxnStateRecord
  <2>4. /\ SetPcRec(h, "append", new)
        /\ UNCHANGED <<global_version, version_chains>>
    BY ZenonT(60) DEF AllocPut, SetPcRec, store_vars
  <2> HIDE DEF new
  <2>5. /\ \A g \in Handlers \ {h} : req'[g] = req[g]
        /\ req'[h].rec = new /\ req'[h].v = req[h].v
    BY <2>3, <2>4, RequestWrites DEF SetPcRecOK, RequestBecomes
  <2>6. \A g \in Handlers : CommitOK(g)'
    BY Zenon, <2>1, <2>3, <2>4, <2>5 DEF CommitOK
  <2>7. VersionsAllocated'
    BY Zenon, <2>4 DEF VersionsAllocated
  <2> QED BY <2>6, <2>7 DEF AppendInv
<1>4. ASSUME CommitAppend(h) PROVE AppendInv'
  <2> USE <1>4
  <2> DEFINE entry == [cv |-> req[h].v, txn |-> req[h].t]
             keys  == req[h].rec.write_keys
  <2>1. /\ req[h].pc = "append" /\ req[h].t \in TxnIds /\ req[h].v \in Versions
        /\ keys \in SUBSET Keys
    BY Zenon, Holds DEF Held, CommitAppend, At
  <2>2. global_version' = global_version
    BY Zenon DEF CommitAppend
  <2>3. \A g \in Handlers \ {h} : req'[g] = req[g] /\ req[g].pc \notin AppendPcs
    <3>1. \A g \in Handlers \ {h} : req'[g] = req[g]
      BY Zenon, GotoSpec DEF RequestBecomes, CommitAppend
    <3>2. "append" \in LockedPcs /\ AppendPcs \subseteq LockedPcs
      BY DEF AppendPcs, LockedPcs, CommitPcs
    <3>3. \A g \in Handlers : req[g].pc \in LockedPcs => commit_lock = g
      BY Zenon DEF TInv, ControlOK, RequestOK
    <3> QED BY Zenon, <2>1, <3>1, <3>2, <3>3
  <2>4. req'[h].pc \notin AppendPcs
    BY ZenonT(60), GotoSpec DEF RequestBecomes, CommitAppend, AppendPcs
  <2>5. \A g \in Handlers : CommitOK(g)'
    BY Zenon, <2>3, <2>4 DEF CommitOK, AppendPcs
  <2>6. VersionsAllocated'
    <3>1. CASE version_chains' = version_chains
      BY <2>2, <3>1 DEF VersionsAllocated
    <3>2. CASE AppendChainEntriesBulk(keys, entry)
      <4> USE <3>2
      <4>1. entry \in Entries
        BY Zenon, <2>1 DEF Entries
      <4>2. entry.cv = req[h].v
        OBVIOUS
      <4>3. keys # {} => req[h].v <= global_version
        BY Zenon, <2>1 DEF CommitOK
      <4> HIDE DEF entry, keys
      <4>4. /\ \A k \in Keys \ keys : version_chains'[k] = version_chains[k]
            /\ \A k \in keys : EntriesOf(version_chains'[k]) =
                                 EntriesOf(version_chains[k]) \cup {entry}
        <5>1. StoreTypeOK /\ keys \in SUBSET Keys
          BY <2>1
        <5>2. \A k \in Keys \ keys : version_chains'[k] = version_chains[k]
          BY Zenon, <4>1, <5>1, AppendBulkSpec
        <5>3. \A k \in keys :
                Extends(version_chains'[k], version_chains[k], entry)
          BY Zenon, <4>1, <5>1, AppendBulkSpec
        <5> QED BY Zenon, <5>2, <5>3 DEF Extends
      <4> QED BY Zenon, <2>2, <4>2, <4>3, <4>4 DEF VersionsAllocated
    <3> QED BY Zenon, <3>1, <3>2 DEF CommitAppend
  <2> QED BY <2>5, <2>6 DEF AppendInv
<1>5. ASSUME CommitFails(h) PROVE AppendInv'
  <2>1. /\ Goto(h, "reconcile") /\ UNCHANGED <<global_version, version_chains>>
    BY Zenon, <1>5 DEF CommitFails, store_vars
  <2>2. \A g \in Handlers \ {h} : req'[g] = req[g]
    BY Zenon, <2>1, GotoSpec DEF RequestBecomes
  <2>3. req'[h].pc \notin AppendPcs
    BY <2>1, GotoSpec DEF RequestBecomes, AppendPcs
  <2> QED BY Zenon, <2>1, <2>2, <2>3, QuietStep
<1> QED BY Zenon, <1>1, <1>2, <1>3, <1>4, <1>5

(***************************************************************************)
(* All other steps of a request that is served.                            *)
(***************************************************************************)
LEMMA ServeKeepsAppend ==
  ASSUME TInv, AppendInv, NEW h \in Handlers, Serve(h) \/ Fails(h)
  PROVE  AppendInv'
<1>0. Idle.pc \notin AppendPcs /\ \A pc \in BeginPcs : pc \notin AppendPcs
  BY DEF Idle, AppendPcs, BeginPcs
<1>1. ASSUME StepOK(h), req[h].pc \notin {"alloc", "check", "alloc_put"},
             UNCHANGED <<global_version, version_chains>>
      PROVE  AppendInv'
  <2> USE <1>1
  <2>1. /\ \A g \in Handlers \ {h} : req'[g] = req[g]
        /\ req'[h].pc \notin AppendPcs
    BY Zenon, <1>0 DEF StepOK, WorkStep, ReqStep, MovesOn
  <2> QED BY Zenon, <2>1, QuietStep
<1>2. ASSUME Begins(h), UNCHANGED <<global_version, version_chains>>
      PROVE  AppendInv'
  <2> USE <1>2
  <2>1. /\ \A g \in Handlers \ {h} : req'[g] = req[g]
        /\ req'[h].pc \notin AppendPcs
    BY Zenon, <1>0 DEF Begins, BeginStep
  <2> QED BY Zenon, <2>1, QuietStep
<1>3. CASE \/ BeginPut(h) \/ BeginWal(h) \/ BeginUnpin(h) \/ BeginDelete(h)
           \/ BeginFails(h)
  <2> USE <1>3
  <2>1. UNCHANGED <<global_version, version_chains>>
    BY DEF BeginPut, BeginWal, BeginUnpin, BeginDelete, BeginFails,
                store_vars, mvcc_vars
  <2> QED BY ZenonT(60), <1>2, <2>1, BeginSteps
<1>4. CASE \/ StageWal(h) \/ StageEntry(h) \/ StageKeys(h) \/ StageLock(h)
           \/ ReadLock(h) \/ ReadKeys(h) \/ HeartbeatPut(h)
  <2> USE <1>4
  <2>1. /\ UNCHANGED <<global_version, version_chains>>
        /\ req[h].pc \notin {"alloc", "check", "alloc_put"}
    BY DEF StageWal, StageEntry, StageKeys, StageLock, ReadLock, ReadKeys,
                HeartbeatPut, At, store_vars, mvcc_vars
  <2> QED BY ZenonT(60), <1>1, <2>1, StageSteps
<1>5. CASE \/ SsiWal(h) \/ SsiPut(h) \/ ConflictPut(h) \/ ConflictUnpin(h)
           \/ PutVersions(h) \/ CommittedWal(h) \/ CommittedPut(h)
           \/ PublishedPut(h) \/ UnpublishedWal(h) \/ UnpublishedPut(h)
           \/ ReconcileUnpin(h) \/ AbortDrop(h) \/ AbortWal(h) \/ AbortUnpin(h)
           \/ AbortFails(h) \/ StageFails(h) \/ ReadEdges(h) \/ CommitLoad(h)
           \/ PublishMemtable(h) \/ CommitMark(h) \/ CommitHook(h)
           \/ CommitUnpin(h) \/ Reconcile(h) \/ HookFails(h)
  <2> USE <1>5
  <2>1. /\ UNCHANGED <<global_version, version_chains>>
        /\ req[h].pc \notin {"alloc", "check", "alloc_put"}
    BY Zenon DEF SsiWal, SsiPut, ConflictPut, ConflictUnpin, PutVersions,
                CommittedWal, CommittedPut, PublishedPut, UnpublishedWal,
                UnpublishedPut, ReconcileUnpin, AbortDrop, AbortWal, AbortUnpin,
                AbortFails, StageFails, ReadEdges, CommitLoad, PublishMemtable,
                CommitMark, CommitHook, CommitUnpin, Reconcile, HookFails, At,
                store_vars, mvcc_vars
  <2> QED BY ZenonT(60), <1>1, <2>1, CommitPutSteps, RepairSteps, NoteSteps
<1> QED BY ZenonT(60), <1>3, <1>4, <1>5, CommitKeepsAppend DEF Serve, Fails

(***************************************************************************)
(* Every step keeps the invariant: pruning removes no newest entry, and a  *)
(* crash ends every commit.                                                *)
(***************************************************************************)
LEMMA NextKeepsAppend ==
  ASSUME TInv, SearchFacts, AppendInv, [Next]_vars
  PROVE  AppendInv'
<1>1. ASSUME NEW h \in Handlers, Request(h) PROVE AppendInv'
  <2> USE <1>1
  <2>1. UNCHANGED <<global_version, version_chains>>
    BY Zenon DEF Request, BeginCapture, HeartbeatRequest, CommitReplay,
                CommitRequest, AbortRequest, AbortReplay, StageRequest,
                ReadRequest, store_vars, mvcc_vars
  <2>2. ASSUME NEW t \in TxnIds, TakesUp(h, t) PROVE AppendInv'
    <3>1. CASE AcceptStep(h, t)
      <4>1. /\ \A g \in Handlers \ {h} : req'[g] = req[g]
            /\ req'[h].pc \notin AppendPcs
        BY Zenon, <3>1 DEF AcceptStep
      <4> QED BY Zenon, <2>1, <4>1, QuietStep
    <3>2. CASE SameControlVars
      BY <2>1, <3>2, NoRequestMoves DEF SameControlVars
    <3> QED BY <2>2, <3>1, <3>2 DEF TakesUp
  <2>3. ASSUME NEW t \in TxnIds, BeginCapture(h, t) PROVE AppendInv'
    <3>1. /\ \A g \in Handlers \ {h} : req'[g] = req[g]
          /\ req'[h].pc = "begin_put"
      BY Zenon, <2>3, BeginCaptureStep
    <3>2. req'[h].pc \notin AppendPcs
      BY <3>1 DEF AppendPcs
    <3> QED BY Zenon, <2>1, <3>1, <3>2, QuietStep
  <2> QED BY Zenon, <2>2, <2>3, RequestSteps DEF Request
<1>2. ASSUME NEW h \in Handlers, Serve(h) \/ Fails(h) PROVE AppendInv'
  BY <1>2, ServeKeepsAppend
<1>3. CASE SweepChains
  <2>1. GcChains(U64Max) /\ UNCHANGED <<global_version, req>>
    BY Zenon, <1>3 DEF SweepChains
  <2>2. StoreTypeOK /\ U64Max \in Nat
    BY U64MaxAssumption DEF TInv, TypeOK
  <2>3. \A k \in Keys :
          /\ EntriesOf(version_chains'[k]) \subseteq EntriesOf(version_chains[k])
          /\ version_chains'[k] = <<>> <=> version_chains[k] = <<>>
          /\ LatestCommitVersion(version_chains'[k]) =
               LatestCommitVersion(version_chains[k])
    <3>1. \A k \in Keys : Trims(version_chains'[k], version_chains[k])
      BY Zenon, <2>1, <2>2 DEF SearchFacts, GcKeepsNewest
    <3> QED BY Zenon, <3>1 DEF Trims
  <2>4. VersionsAllocated'
    BY Zenon, <2>1, <2>3 DEF AppendInv, VersionsAllocated
  <2>5. ASSUME NEW h \in Handlers PROVE CommitOK(h)'
    <3>1. req[h].pc \in {"alloc_put", "append"} => req[h].rec.write_keys \subseteq Keys
      BY Zenon, Holds DEF Held
    <3>2. \A k \in Keys, s \in Versions :
            SnapshotConflict(version_chains'[k], s)
              <=> SnapshotConflict(version_chains[k], s)
      BY Zenon, <2>3 DEF SnapshotConflict
    <3>3. req[h].pc \in {"alloc_put", "append"} => req[h].rec.snapshot \in Versions
      BY Zenon, Holds DEF Held
    <3> QED BY ZenonT(60), <2>1, <2>3, <3>1, <3>2, <3>3 DEF AppendInv, CommitOK
  <2> QED BY Zenon, <2>4, <2>5 DEF AppendInv
<1>4. CASE (\E t \in TxnIds : SweepClaim(t)) \/ SweepOn \/ SweepFails
  <2>1. UNCHANGED <<req, global_version, version_chains>>
    BY Zenon, <1>4 DEF SweepClaim, SweepOn, SweepDrop, SweepWal, SweepUnpin, SweepFails,
                store_vars, mvcc_vars
  <2> QED BY <2>1, NoRequestMoves
<1>5. CASE Crash
  <2> USE <1>5
  <2>1. UNCHANGED <<global_version, version_chains>>
    BY Zenon DEF Crash, store_vars
  <2>2. \A h \in Handlers : req'[h].pc = "idle"
    BY Zenon DEF Crash, Idle
  <2>3. \A h \in Handlers : CommitOK(h)'
    BY Zenon, <2>2 DEF CommitOK
  <2>4. VersionsAllocated'
    BY Zenon, <2>1 DEF AppendInv, VersionsAllocated
  <2> QED BY <2>3, <2>4 DEF AppendInv
<1>6. CASE Recover
  <2>1. UNCHANGED <<req, global_version, version_chains>>
    BY Zenon, <1>6 DEF Recover, RecoverPick, RecoverWonWal, RecoverWonPut, RecoverDrop,
                RecoverWal, RecoverUnpin, RecoverPut, RecoverDone, store_vars,
                mvcc_vars
  <2> QED BY <2>1, NoRequestMoves
<1>7. CASE UNCHANGED vars
  BY <1>7, NoRequestMoves DEF vars, store_vars
<1> QED BY ZenonT(60), <1>1, <1>2, <1>3, <1>4, <1>5, <1>6, <1>7 DEF Next, Sweep

(***************************************************************************)
(* A store with the seed alone.                                            *)
(***************************************************************************)
LEMMA InitAppend ==
  ASSUME Init
  PROVE  AppendInv
<1>1. VersionsAllocated
  <2>1. ASSUME NEW k \in Keys, NEW e \in EntriesOf(version_chains[k])
        PROVE  e.cv = 1
    <3>1. version_chains[k] \in {<<[cv |-> 1, txn |-> SeedTxn]>>, <<>>}
      BY Zenon DEF Init
    <3> QED BY <3>1 DEF EntriesOf
  <2>2. global_version = 1
    BY Zenon DEF Init
  <2>3. 1 <= 1
    OBVIOUS
  <2> QED BY ZenonT(60), <2>1, <2>2, <2>3 DEF VersionsAllocated
<1>2. \A h \in Handlers : CommitOK(h)
  BY Zenon DEF Init, Idle, CommitOK
<1> QED BY <1>1, <1>2 DEF AppendInv

(***************************************************************************)
(* What commit_inner knows at the append is what the checks of             *)
(* append_chain_entries_bulk ask for.                                      *)
(***************************************************************************)
LEMMA AppendAllowed ==
  ASSUME TInv, AppendInv
  PROVE  AppendNeverRefused
<1> SUFFICES ASSUME NEW h \in Handlers, req[h].pc = "append",
                    NEW k \in req[h].rec.write_keys
             PROVE  Appendable(version_chains[k],
                               [cv |-> req[h].v, txn |-> req[h].t],
                               req[h].rec.snapshot)
  BY Zenon DEF AppendNeverRefused, BulkAppendable
<1>1. /\ CommitOK(h) /\ k \in Keys /\ version_chains[k] \in Seq(Entries)
      /\ req[h].v \in Versions
  BY Zenon, Holds DEF Held, AppendInv, TInv, TypeOK, StoreTypeOK
<1>2. ~ SnapshotConflict(version_chains[k], req[h].rec.snapshot)
  BY Zenon, <1>1 DEF CommitOK
<1>3. version_chains[k] # <<>> => req[h].v > LatestCommitVersion(version_chains[k])
  <2>1. \A e \in EntriesOf(version_chains[k]) : e.cv < req[h].v
    BY Zenon, <1>1 DEF CommitOK
  <2>2. \A e \in Entries : e.cv \in Nat
    BY Zenon, EntriesHaveVersions
  <2> QED BY Zenon, <1>1, <2>1, <2>2, NewestIsEntry, EntriesHaveVersions
<1> QED BY Zenon, <1>2, <1>3 DEF Appendable

-----------------------------------------------------------------------------
(* What leads recovery to every open log.                                  *)
OpenStatus == {"Active", "Committing"}

(* A request works on a transaction that has a record, except at the ends  *)
(* of begin; and the log of one that is being begun is not open.           *)
Recorded(h) ==
  /\ req[h].pc \notin {"idle", "begin_put", "begin_unpin"} => txn_state[req[h].t] # NoRecord
  /\ req[h].pc \in BeginPcs => wal[req[h].t].status \notin OpenStatus

OpenHasRecord == \A t \in TxnIds : wal[t].status \in OpenStatus => txn_state[t] # NoRecord

LogRecorded == OpenHasRecord /\ \A h \in Handlers : Recorded(h)

(* Recovery has every transaction that needs it still to look at, or has   *)
(* it in hand.                                                             *)
RecoveryKnows ==
  /\ recovery.pc # "off" =>
       \A t \in TxnIds : NeedsRecovery(t) => t \in recovery.todo \/ t = recovery.t
  /\ recovery.pc = "pick" => recovery.t = NoTxn

RInv == LogRecorded /\ RecoveryKnows

(***************************************************************************)
(* While requests are served there is nothing for recovery to know.        *)
(***************************************************************************)
LEMMA ServingKnows ==
  ASSUME recovery.pc = "off", recovery' = recovery
  PROVE  RecoveryKnows'
BY Zenon DEF RecoveryKnows

(***************************************************************************)
(* A step of a request past begin: no record is lost.                      *)
(***************************************************************************)
LEMMA WorkRecorded ==
  ASSUME TInv, LogRecorded, NEW h \in Handlers, WorkStep(h)
  PROVE  LogRecorded'
<1>1. /\ req[h].pc \notin BeginPcs \cup {"idle"}
      /\ \A g \in Handlers \ {h} : req'[g] = req[g]
      /\ req'[h] = Idle \/ (req'[h].t = req[h].t /\ req'[h].pc \notin BeginPcs)
      /\ \A t \in TxnIds :
           /\ t # req[h].t => txn_state'[t] = txn_state[t] /\ wal'[t] = wal[t]
           /\ txn_state[t] # NoRecord => txn_state'[t] # NoRecord
  BY Zenon DEF WorkStep, ReqStep, MovesOn
<1>2. /\ Idle.pc = "idle" /\ "idle" \notin BeginPcs
      /\ "begin_put" \in BeginPcs /\ "begin_unpin" \in BeginPcs
  BY Zenon DEF Idle, BeginPcs
<1>3. /\ \A g \in Handlers : RequestOK(g) /\ BeginOK(g) /\ Recorded(g)
      /\ OpenHasRecord
  BY Zenon DEF TInv, ControlOK, LogRecorded
<1>4. req[h].t \in TxnIds /\ txn_state'[req[h].t] # NoRecord
  BY Zenon, <1>1, <1>2, <1>3 DEF RequestOK, Recorded
<1>5. OpenHasRecord'
  BY Zenon, <1>1, <1>3, <1>4 DEF OpenHasRecord
<1>6. Recorded(h)'
  BY Zenon, <1>1, <1>2, <1>4 DEF Recorded
<1>7. ASSUME NEW g \in Handlers \ {h} PROVE Recorded(g)'
  <2>1. req'[g] = req[g] /\ Recorded(g) /\ BeginOK(g) /\ RequestOK(g)
    BY Zenon, <1>1, <1>3
  <2>2. req[g].pc \in BeginPcs => req[g].t # req[h].t
    BY Zenon, <1>7, <2>1 DEF BeginOK
  <2>3. CASE req[g].pc = "idle"
    BY Zenon, <1>2, <2>1, <2>3 DEF Recorded
  <2>4. CASE req[g].pc # "idle"
    <3>1. req[g].t \in TxnIds
      BY Zenon, <2>1, <2>4 DEF RequestOK
    <3> QED BY Zenon, <1>1, <2>1, <2>2, <3>1 DEF Recorded
  <2> QED BY Zenon, <2>3, <2>4
<1> QED BY Zenon, <1>5, <1>6, <1>7 DEF LogRecorded

(***************************************************************************)
(* A request being taken up: the transaction has a record.                 *)
(***************************************************************************)
LEMMA AcceptRecorded ==
  ASSUME TInv, LogRecorded, NEW h \in Handlers, NEW t \in TxnIds, AcceptStep(h, t)
  PROVE  LogRecorded'
<1>1. /\ \A g \in Handlers \ {h} : req'[g] = req[g]
      /\ req'[h].t = t /\ req'[h].pc \notin BeginPcs
      /\ txn_state'[t] # NoRecord /\ wal' = wal
      /\ \A u \in TxnIds \ {t} : txn_state'[u] = txn_state[u]
  BY Zenon DEF AcceptStep
<1>2. /\ \A g \in Handlers : RequestOK(g) /\ Recorded(g)
      /\ OpenHasRecord
  BY Zenon DEF TInv, ControlOK, LogRecorded
<1>3. OpenHasRecord'
  BY Zenon, <1>1, <1>2 DEF OpenHasRecord
<1>4. Recorded(h)'
  BY Zenon, <1>1 DEF Recorded
<1>5. ASSUME NEW g \in Handlers \ {h} PROVE Recorded(g)'
  <2>1. req'[g] = req[g] /\ Recorded(g) /\ RequestOK(g)
    BY Zenon, <1>1, <1>2
  <2> QED BY Zenon, <1>1, <2>1 DEF Recorded, RequestOK
<1> QED BY Zenon, <1>3, <1>4, <1>5 DEF LogRecorded

(***************************************************************************)
(* The steps of the sweeper and of recovery: no record is lost, no log is  *)
(* opened.                                                                 *)
(***************************************************************************)
LEMMA BackgroundRecorded ==
  ASSUME TInv, LogRecorded, UNCHANGED req,
         \A t \in TxnIds :
           /\ txn_state[t] # NoRecord => txn_state'[t] # NoRecord
           /\ wal'[t] = wal[t] \/ wal'[t].status \notin OpenStatus
  PROVE  LogRecorded'
<1>1. /\ \A g \in Handlers : RequestOK(g) /\ Recorded(g)
      /\ OpenHasRecord
  BY Zenon DEF TInv, ControlOK, LogRecorded
<1>2. OpenHasRecord'
  BY Zenon, <1>1 DEF OpenHasRecord
<1>3. ASSUME NEW g \in Handlers PROVE Recorded(g)'
  <2>1. req'[g] = req[g] /\ Recorded(g) /\ RequestOK(g)
    BY Zenon, <1>1
  <2>2. "idle" \notin BeginPcs
    BY Zenon DEF BeginPcs
  <2> QED BY Zenon, <2>1, <2>2 DEF Recorded, RequestOK
<1> QED BY Zenon, <1>2, <1>3 DEF LogRecorded

(***************************************************************************)
(* Begin puts the record before it opens the log, and takes back only a    *)
(* record whose log is not open.                                           *)
(***************************************************************************)
LEMMA BeginRecorded ==
  ASSUME TInv, LogRecorded, NEW h \in Handlers,
         \/ BeginPut(h) \/ BeginWal(h) \/ BeginUnpin(h) \/ BeginDelete(h)
         \/ BeginFails(h)
  PROVE  LogRecorded'
<1> DEFINE t == req[h].t
<1>0. /\ TxnStoreTypeOK /\ req \in [Handlers -> Requests]
      /\ \A g \in Handlers : RequestOK(g) /\ BeginOK(g) /\ Recorded(g)
      /\ OpenHasRecord
  BY Zenon DEF TInv, TypeOK, ControlOK, LogRecorded
<1>1. BeginStep(h)
  BY Zenon, BeginSteps DEF Begins
<1>2. /\ req[h].pc \in BeginPcs /\ "idle" \notin BeginPcs
      /\ \A g \in Handlers \ {h} : req'[g] = req[g]
      /\ req'[h] = Idle \/ req'[h].t = t
      /\ \A u \in TxnIds \ {t} : txn_state'[u] = txn_state[u] /\ wal'[u] = wal[u]
  BY Zenon, <1>1 DEF BeginStep, BeginPcs
<1>3. t \in TxnIds /\ wal[t].status \notin OpenStatus
  BY Zenon, <1>0, <1>2 DEF RequestOK, Recorded
<1>4. ASSUME NEW g \in Handlers \ {h} PROVE Recorded(g)'
  <2>1. req'[g] = req[g] /\ Recorded(g) /\ RequestOK(g) /\ req[g].t # t
    BY Zenon, <1>0, <1>2 DEF BeginOK
  <2>2. CASE req[g].pc = "idle"
    BY Zenon, <1>2, <2>1, <2>2 DEF Recorded
  <2>3. CASE req[g].pc # "idle"
    <3>1. req[g].t \in TxnIds
      BY Zenon, <2>1, <2>3 DEF RequestOK
    <3>2. txn_state'[req[g].t] = txn_state[req[g].t] /\ wal'[req[g].t] = wal[req[g].t]
      BY Zenon, <1>2, <2>1, <3>1
    <3> QED BY Zenon, <2>1, <3>2 DEF Recorded
  <2> QED BY Zenon, <2>2, <2>3
<1>5. ASSUME wal'[t].status \in OpenStatus => txn_state'[t] # NoRecord, Recorded(h)'
      PROVE  LogRecorded'
  BY Zenon, <1>0, <1>2, <1>4, <1>5 DEF LogRecorded, OpenHasRecord
<1>6. Idle.pc = "idle" /\ "idle" \notin BeginPcs
  BY Zenon DEF Idle, BeginPcs
<1>7. req'[h] = Idle => Recorded(h)'
  BY Zenon, <1>6 DEF Recorded
<1>8. CASE BeginPut(h)
  <2>1. txn_state'[t] # NoRecord
    <3>1. NewActive(req[h].v) \in TxnStateRecord
      <4>1. req[h].v \in Versions
        BY Zenon, Holds DEF Held
      <4>2. 0 \in Versions
        BY MaxVersionAssumption DEF Versions
      <4> QED BY <4>1, <4>2 DEF NewActive, TxnStateRecord, TxnStatus
    <3> QED BY Zenon, <1>0, <1>3, <1>8, <3>1, PutTxnStateSpec, CoordinatorAssumption DEF BeginPut
  <2>2. wal' = wal
    BY Zenon, <1>8 DEF BeginPut
  <2> QED BY Zenon, <1>2, <1>3, <1>5, <1>7, <2>1, <2>2 DEF Recorded
<1>9. CASE BeginWal(h)
  <2>1. txn_state' = txn_state /\ req[h].pc = "begin_wal" /\ req'[h] = Idle
    BY <1>0, <1>9 DEF BeginWal, At, Done
  <2>2. txn_state[t] # NoRecord
    BY Zenon, <1>0, <2>1 DEF Recorded
  <2> QED BY Zenon, <1>5, <1>7, <2>1, <2>2
<1>10. CASE BeginUnpin(h)
  <2>1. /\ txn_state' = txn_state /\ wal' = wal
        /\ req'[h] = Idle \/ req[h].pc = "begin_undo"
    BY <1>0, <1>10 DEF BeginUnpin, At, Done, txn_vars
  <2>2. req[h].pc = "begin_undo" => txn_state[t] # NoRecord
    BY Zenon, <1>0 DEF Recorded
  <2> QED BY Zenon, <1>2, <1>3, <1>5, <1>7, <2>1, <2>2 DEF Recorded
<1>11. CASE BeginDelete(h)
  <2>1. wal' = wal /\ req'[h] = Idle
    BY <1>0, <1>11 DEF BeginDelete, At, Done
  <2> QED BY Zenon, <1>3, <1>5, <1>7, <2>1
<1>12. CASE BeginFails(h)
  <2>1. /\ txn_state' = txn_state /\ wal' = wal
        /\ \/ req[h].pc = "begin_put" /\ Goto(h, "begin_unpin")
           \/ req[h].pc = "begin_wal"
    BY Zenon, <1>12 DEF BeginFails, At, txn_vars
  <2>2. req[h].pc = "begin_wal" => txn_state[t] # NoRecord
    BY Zenon, <1>0 DEF Recorded
  <2>3. Goto(h, "begin_unpin") => req'[h].pc = "begin_unpin"
    <3>1. "begin_unpin" \in Pcs
      BY Zenon DEF Pcs, BeginPcs
    <3> QED BY Zenon, <1>0, <3>1, GotoSpec DEF RequestBecomes
  <2> QED BY Zenon, <1>2, <1>3, <1>5, <1>7, <2>1, <2>2, <2>3 DEF Recorded
<1> QED BY Zenon, <1>8, <1>9, <1>10, <1>11, <1>12

(***************************************************************************)
(* The first step of begin: an id that nobody knows.                       *)
(***************************************************************************)
LEMMA CaptureRecorded ==
  ASSUME TInv, LogRecorded, NEW h \in Handlers, NEW t \in TxnIds, BeginCapture(h, t)
  PROVE  LogRecorded'
<1>1. /\ \A g \in Handlers \ {h} : req'[g] = req[g]
      /\ req'[h].pc = "begin_put" /\ req'[h].t = t
  BY Zenon, BeginCaptureStep
<1>2. t \notin begun /\ UNCHANGED <<txn_state, wal>>
  BY Zenon DEF BeginCapture, txn_vars
<1>3. wal[t].status = "none" /\ "none" \notin OpenStatus
  BY Zenon, <1>2 DEF TInv, ControlOK, NotBegunOK, OpenStatus
<1>4. Recorded(h)'
  BY Zenon, <1>1, <1>2, <1>3 DEF Recorded
<1> QED BY Zenon, <1>1, <1>2, <1>4 DEF LogRecorded, OpenHasRecord, Recorded

(***************************************************************************)
(* The steps of the sweeper: it logs Aborted, and the record stays.        *)
(***************************************************************************)
LEMMA SweepRecorded ==
  ASSUME TInv, RInv, Sweep \/ SweepOn \/ SweepFails
  PROVE  RInv'
<1>0. TxnStoreTypeOK /\ SweeperOK /\ LogRecorded /\ "Aborted" \notin OpenStatus
  BY Zenon DEF TInv, TypeOK, ControlOK, RInv, OpenStatus
<1>1. UNCHANGED <<req, recovery>>
  BY ZenonT(60) DEF Sweep, SweepOn, SweepClaim, SweepChains, SweepDrop, SweepWal, SweepUnpin,
                    SweepFails, env_vars
<1>2. recovery.pc = "off"
  BY Zenon, <1>0 DEF Sweep, SweepOn, SweepClaim, SweepChains, SweepDrop, SweepWal, SweepUnpin,
                     SweepFails, SweeperOK
<1>3. LogRecorded'
  <2>1. ASSUME NEW t \in TxnIds, SweepClaim(t) PROVE LogRecorded'
    <3>1. StatusSet(t, "Active", "Aborted") /\ wal' = wal
      BY Zenon, <1>0, <2>1, CompareAndSetSpec DEF SweepClaim, TxnStatus
    <3> QED BY Zenon, <1>0, <1>1, <3>1, BackgroundRecorded DEF StatusSet
  <2>2. CASE SweepWal
    <3>1. sweeper.t \in TxnIds /\ txn_state' = txn_state
      BY Zenon, <1>0, <2>2 DEF SweepWal, SweeperOK
    <3>2. /\ wal'[sweeper.t].status = "Aborted"
          /\ \A u \in TxnIds \ {sweeper.t} : wal'[u] = wal[u]
      BY Zenon, <1>0, <2>2, <3>1, AppendWalOutcomeSpec DEF SweepWal, TxnStatus
    <3> QED BY Zenon, <1>0, <1>1, <3>1, <3>2, BackgroundRecorded
  <2>3. CASE SweepChains \/ SweepDrop \/ SweepUnpin \/ SweepFails
    <3>1. UNCHANGED <<txn_state, wal>>
      BY Zenon, <2>3 DEF SweepChains, SweepDrop, SweepUnpin, SweepFails, txn_vars
    <3> QED BY Zenon, <1>0, <1>1, <3>1, BackgroundRecorded
  <2> QED BY Zenon, <2>1, <2>2, <2>3 DEF Sweep, SweepOn
<1> QED BY Zenon, <1>1, <1>2, <1>3, ServingKnows DEF RInv

(***************************************************************************)
(* A crash: recovery has every transaction of the log to look at.          *)
(***************************************************************************)
LEMMA CrashRecorded ==
  ASSUME TInv, RInv, Crash
  PROVE  RInv'
<1>1. /\ \A h \in Handlers : req'[h] = Idle
      /\ UNCHANGED <<txn_state, wal>>
      /\ recovery' = [t |-> NoTxn, pc |-> "pick",
                      todo |-> {t \in TxnIds : wal[t].status # "none"}]
  BY Zenon DEF Crash, txn_vars
<1>2. /\ recovery'.t = NoTxn
      /\ recovery'.todo = {t \in TxnIds : wal[t].status # "none"}
  BY Zenon, <1>1
<1>3. Idle.pc = "idle" /\ "idle" \notin BeginPcs
  BY Zenon DEF Idle, BeginPcs
<1>4. LogRecorded'
  BY Zenon, <1>1, <1>3 DEF RInv, LogRecorded, OpenHasRecord, Recorded
<1>5. RecoveryKnows'
  BY Zenon, <1>1, <1>2 DEF RecoveryKnows, NeedsRecovery
<1> QED BY Zenon, <1>4, <1>5 DEF RInv

(***************************************************************************)
(* recover_inner on one transaction: the others stay as they are, and when *)
(* it turns to the next one, this one has its outcome.                     *)
(***************************************************************************)
LEMMA RecoveryMoves ==
  ASSUME TInv, RInv, recovery.pc \notin {"off", "pick"}, UNCHANGED req,
         txn_state'[recovery.t] # NoRecord,
         \A u \in TxnIds \ {recovery.t} : txn_state'[u] = txn_state[u] /\ wal'[u] = wal[u],
         wal'[recovery.t] = wal[recovery.t] \/ wal'[recovery.t].status \notin OpenStatus,
         recovery'.todo = recovery.todo,
         \/ recovery'.t = recovery.t /\ recovery'.pc # "pick"
         \/ recovery'.t = NoTxn /\ txn_state'[recovery.t].status \notin OpenStatus
  PROVE  RInv'
<1>1. LogRecorded'
  BY Zenon, BackgroundRecorded DEF RInv
<1>2. ASSUME NEW u \in TxnIds, NeedsRecovery(u)'
      PROVE  u \in recovery'.todo \/ u = recovery'.t
  <2>1. CASE u = recovery.t
    BY Zenon, <1>2, <2>1 DEF NeedsRecovery, HasStatus, OpenStatus
  <2>2. CASE u # recovery.t
    <3>1. NeedsRecovery(u)
      BY Zenon, <1>2, <2>2 DEF NeedsRecovery, HasStatus
    <3> QED BY Zenon, <2>2, <3>1 DEF RInv, RecoveryKnows
  <2> QED BY Zenon, <2>1, <2>2
<1> QED BY Zenon, <1>1, <1>2 DEF RInv, RecoveryKnows

(***************************************************************************)
(* The steps of recovery lose no transaction that needs it; and when it    *)
(* hands over, no log is open.                                             *)
(***************************************************************************)
LEMMA RecoverRecorded ==
  ASSUME TInv, RInv, Recover
  PROVE  RInv' /\ HandoverStep
<1> DEFINE t == recovery.t
<1>0. /\ TxnStoreTypeOK /\ LogRecorded /\ RecoveryKnows /\ RecoveryOK
      /\ recovery \in RecoveryStates
  BY ZenonT(60) DEF TInv, TypeOK, ControlOK, RInv, RecoveryStates
<1>1. recovery.pc # "off" /\ UNCHANGED req
  BY Zenon DEF Recover, RecoverPick, RecoverWonWal, RecoverWonPut, RecoverDrop,
         RecoverWal, RecoverUnpin, RecoverPut, RecoverDone
<1>2. recovery.pc # "pick" =>
        t \in TxnIds /\ txn_state[t] # NoRecord /\ txn_state[t] \in TxnStateRecord
  BY Zenon, <1>0, <1>1 DEF RecoveryOK, TxnStoreTypeOK
<1>3. "Aborted" \notin OpenStatus /\ "Committed" \notin OpenStatus
  BY Zenon DEF OpenStatus
<1>4. ASSUME NEW q \in {"wal", "unpin", "put", "won_put"},
             recovery' = [recovery EXCEPT !.pc = q]
      PROVE  recovery'.todo = recovery.todo /\ recovery'.t = t /\ recovery'.pc = q
  BY <1>0, <1>4 DEF RecoveryStates
<1>5. ASSUME recovery' = [recovery EXCEPT !.pc = "pick", !.t = NoTxn]
      PROVE  recovery'.todo = recovery.todo /\ recovery'.t = NoTxn /\ recovery'.pc = "pick"
  BY <1>0, <1>5 DEF RecoveryStates
<1> HIDE DEF t
<1>6. ASSUME NEW u \in TxnIds, RecoverPick(u) PROVE RInv' /\ HandoverStep
  <2>1. /\ recovery.pc = "pick" /\ UNCHANGED <<txn_state, wal>>
        /\ recovery' = [t |-> u, todo |-> recovery.todo \ {u},
                        pc |-> IF ChainWon(u) THEN "won_wal" ELSE "drop"]
    BY Zenon, <1>6 DEF RecoverPick, txn_vars
  <2>2. /\ recovery'.t = u /\ recovery'.todo = recovery.todo \ {u}
        /\ recovery'.pc \in {"won_wal", "drop"}
    BY Zenon, <2>1
  <2>3. LogRecorded'
    BY Zenon, <1>0, <1>1, <2>1, BackgroundRecorded
  <2>4. recovery.t = NoTxn /\ NoTxn \notin TxnIds
    BY Zenon, <1>0, <2>1, CoordinatorAssumption DEF RecoveryKnows
  <2>5. ASSUME NEW x \in TxnIds, NeedsRecovery(x)'
        PROVE  x \in recovery'.todo \/ x = recovery'.t
    <3>1. NeedsRecovery(x)
      BY Zenon, <2>1, <2>5 DEF NeedsRecovery, HasStatus
    <3> QED BY Zenon, <1>0, <1>1, <2>2, <2>4, <3>1 DEF RecoveryKnows
  <2>6. recovery'.pc # "pick" /\ recovery'.pc # "off"
    BY Zenon, <2>2
  <2> QED BY Zenon, <2>3, <2>5, <2>6 DEF RInv, RecoveryKnows, HandoverStep
<1>7. ASSUME NEW s \in {"Committed", "Aborted"}, recovery.pc # "pick",
             AppendWalOutcome(t, s), UNCHANGED txn_state,
             NEW q \in {"unpin", "won_put"}, recovery' = [recovery EXCEPT !.pc = q]
      PROVE  RInv' /\ HandoverStep
  <2>1. /\ wal'[t].status = s
        /\ \A x \in TxnIds \ {t} : wal'[x] = wal[x]
    BY Zenon, <1>0, <1>2, <1>7, AppendWalOutcomeSpec DEF TxnStatus
  <2>2. recovery'.todo = recovery.todo /\ recovery'.t = t /\ recovery'.pc = q
    BY Zenon, <1>4, <1>7
  <2>3. q # "pick" /\ q # "off"
    BY Zenon
  <2> QED BY Zenon, <1>1, <1>2, <1>3, <1>7, <2>1, <2>2, <2>3, RecoveryMoves DEF t, HandoverStep
<1>8. ASSUME NEW s \in {"Committed", "Aborted"}, recovery.pc # "pick",
             PutTxnState(t, [txn_state[t] EXCEPT !.status = s]), UNCHANGED wal,
             recovery' = [recovery EXCEPT !.pc = "pick", !.t = NoTxn]
      PROVE  RInv' /\ HandoverStep
  <2> DEFINE new == [txn_state[t] EXCEPT !.status = s]
  <2>1. new \in TxnStateRecord /\ new.status = s
    <3>1. s \in TxnStatus /\ txn_state[t] \in TxnStateRecord
      BY Zenon, <1>2, <1>8 DEF TxnStatus
    <3> QED BY <3>1, WithStatus
  <2>2. PutTxnState(t, new) /\ t \in TxnIds
    BY Zenon, <1>2, <1>8
  <2> HIDE DEF new
  <2>3. /\ txn_state'[t] = new /\ new # NoRecord
        /\ \A u \in TxnIds \ {t} : txn_state'[u] = txn_state[u]
    BY ZenonT(60), <1>0, <2>1, <2>2, PutTxnStateSpec, CoordinatorAssumption
  <2>4. recovery'.todo = recovery.todo /\ recovery'.t = NoTxn /\ recovery'.pc = "pick"
    BY Zenon, <1>5, <1>8
  <2> QED BY Zenon, <1>1, <1>3, <1>8, <2>1, <2>3, <2>4, RecoveryMoves DEF t, HandoverStep
<1>9. ASSUME recovery.pc # "pick", UNCHANGED <<txn_state, wal>>,
             NEW q \in {"wal", "put"}, recovery' = [recovery EXCEPT !.pc = q]
      PROVE  RInv' /\ HandoverStep
  <2>1. recovery'.todo = recovery.todo /\ recovery'.t = t /\ recovery'.pc = q
    BY Zenon, <1>4, <1>9
  <2>2. q # "pick" /\ q # "off"
    BY Zenon
  <2> QED BY Zenon, <1>1, <1>2, <1>9, <2>1, <2>2, RecoveryMoves DEF t, HandoverStep
<1>10. ASSUME RecoverDone PROVE RInv' /\ HandoverStep
  <2>1. /\ recovery.pc = "pick" /\ recovery'.pc = "off" /\ UNCHANGED <<txn_state, wal>>
        /\ \A x \in recovery.todo : ~ NeedsRecovery(x)
    BY Zenon, <1>10 DEF RecoverDone, Serving, txn_vars
  <2>2. RInv'
    BY Zenon, <1>0, <1>1, <2>1, BackgroundRecorded DEF RInv, RecoveryKnows
  <2>3. recovery.t = NoTxn /\ NoTxn \notin TxnIds
    BY Zenon, <1>0, <2>1, CoordinatorAssumption DEF RecoveryKnows
  <2>4. ASSUME NEW x \in TxnIds, wal[x].status # "none",
               wal[x].status \notin {"Committed", "Aborted"}
        PROVE  Finished(x)
    <3>1. wal[x].status \in OpenStatus /\ txn_state[x] # NoRecord
      <4>1. wal[x].status \in TxnStatus \cup {"none"}
        BY <1>0 DEF TxnStoreTypeOK, WalFold
      <4> QED BY Zenon, <1>0, <2>4, <4>1 DEF TxnStatus, OpenStatus, LogRecorded, OpenHasRecord
    <3>2. ~ NeedsRecovery(x)
      BY Zenon, <1>0, <1>1, <2>1, <2>3 DEF RecoveryKnows
    <3>3. txn_state[x].status \in TxnStatus
      BY <1>0, <3>1 DEF TxnStoreTypeOK, TxnStateRecord
    <3> QED BY Zenon, <3>1, <3>2, <3>3 DEF NeedsRecovery, HasStatus, Finished, OpenStatus, TxnStatus
  <2> QED BY Zenon, <2>2, <2>4 DEF HandoverStep
<1>11. ASSUME RecoverWonWal \/ RecoverWal PROVE RInv' /\ HandoverStep
  BY Zenon, <1>7, <1>11 DEF RecoverWonWal, RecoverWal, t
<1>12. ASSUME RecoverWonPut \/ RecoverPut PROVE RInv' /\ HandoverStep
  BY Zenon, <1>8, <1>12 DEF RecoverWonPut, RecoverPut, t
<1>13. ASSUME RecoverDrop \/ RecoverUnpin PROVE RInv' /\ HandoverStep
  BY Zenon, <1>9, <1>13 DEF RecoverDrop, RecoverUnpin, txn_vars
<1> QED BY Zenon, <1>6, <1>10, <1>11, <1>12, <1>13 DEF Recover

(***************************************************************************)
(* Every step keeps recovery's knowledge of the open logs, and hands over  *)
(* to the request handlers only when there is none.                        *)
(***************************************************************************)
LEMMA NextRecovered ==
  ASSUME TInv, SearchFacts, RInv, [Next]_vars
  PROVE  RInv' /\ HandoverStep
<1>0. LogRecorded /\ \A h \in Handlers : RequestOK(h)
  BY Zenon DEF RInv, TInv, ControlOK
<1>1. ASSUME LogRecorded', recovery.pc = "off", recovery' = recovery
      PROVE  RInv' /\ HandoverStep
  BY Zenon, <1>1, ServingKnows DEF RInv, HandoverStep
<1>2. ASSUME SameControlVars PROVE RInv' /\ HandoverStep
  BY ZenonT(60), <1>2 DEF SameControlVars, RInv, LogRecorded, OpenHasRecord, Recorded,
     RecoveryKnows, NeedsRecovery, HasStatus, HandoverStep
<1>3. ASSUME NEW h \in Handlers, NEW t \in TxnIds, TakesUp(h, t) PROVE RInv' /\ HandoverStep
  <2>1. CASE AcceptStep(h, t)
    BY Zenon, <1>0, <1>1, <2>1, AcceptRecorded DEF AcceptStep
  <2> QED BY Zenon, <1>2, <1>3, <2>1 DEF TakesUp
<1>4. ASSUME NEW h \in Handlers, NEW t \in TxnIds, BeginCapture(h, t) PROVE RInv' /\ HandoverStep
  BY Zenon, <1>0, <1>1, <1>4, CaptureRecorded DEF BeginCapture, Accepts
<1>5. ASSUME NEW h \in Handlers, Request(h) PROVE RInv' /\ HandoverStep
  <2>1. CASE \E t \in TxnIds, k \in Keys : StageRequest(h, t, k) \/ ReadRequest(h, t, k)
    BY Zenon, <2>1, <1>3, RequestSteps
  <2>2. ASSUME NEW t \in TxnIds,
               \/ BeginCapture(h, t) \/ HeartbeatRequest(h, t) \/ CommitReplay(h, t)
               \/ CommitRequest(h, t) \/ AbortRequest(h, t) \/ AbortReplay(h, t)
        PROVE  RInv' /\ HandoverStep
    BY Zenon, <2>2, <1>3, <1>4, RequestSteps
  <2> QED BY Zenon, <1>5, <2>1, <2>2 DEF Request
<1>6. ASSUME NEW h \in Handlers, StepOK(h) PROVE RInv' /\ HandoverStep
  <2>1. WorkStep(h) /\ req[h].pc # "idle" /\ recovery' = recovery
    BY Zenon, <1>6 DEF StepOK, WorkStep, ReqStep
  <2> QED BY Zenon, <1>0, <1>1, <2>1, WorkRecorded DEF RequestOK
<1>7. ASSUME NEW h \in Handlers,
             \/ BeginPut(h) \/ BeginWal(h) \/ BeginUnpin(h) \/ BeginDelete(h)
             \/ BeginFails(h)
      PROVE  RInv' /\ HandoverStep
  <2>1. BeginStep(h)
    BY Zenon, <1>7, BeginSteps DEF Begins
  <2>2. req[h].pc # "idle" /\ recovery' = recovery
    BY Zenon, <2>1 DEF BeginStep, BeginPcs
  <2> QED BY Zenon, <1>0, <1>1, <1>7, <2>2, BeginRecorded DEF RequestOK
<1>8. ASSUME NEW h \in Handlers, Serve(h) \/ Fails(h) PROVE RInv' /\ HandoverStep
  BY ZenonT(60), <1>6, <1>7, <1>8, StageSteps, CommitPutSteps, RepairSteps, NoteSteps DEF Serve, Fails
<1>9. CASE Sweep \/ SweepOn \/ SweepFails
  <2>1. recovery' = recovery
    BY ZenonT(60), <1>9 DEF Sweep, SweepOn, SweepClaim, SweepChains, SweepDrop, SweepWal,
                           SweepUnpin, SweepFails, env_vars
  <2> QED BY Zenon, <1>9, <2>1, SweepRecorded DEF HandoverStep
<1>10. CASE Crash
  BY Zenon, <1>10, CrashRecorded DEF Crash, HandoverStep
<1>11. CASE Recover
  BY Zenon, <1>11, RecoverRecorded
<1>12. CASE UNCHANGED vars
  BY Zenon, <1>2, <1>12 DEF SameControlVars, vars, txn_vars, env_vars
<1> QED BY Zenon, <1>5, <1>8, <1>9, <1>10, <1>11, <1>12 DEF Next

(***************************************************************************)
(* At the start nothing is open and requests are served.                   *)
(***************************************************************************)
LEMMA InitRecovered ==
  ASSUME Init
  PROVE  RInv
<1>1. /\ Idle.pc = "idle" /\ "idle" \notin BeginPcs /\ Serving.pc = "off"
      /\ "Committed" \notin OpenStatus /\ "none" \notin OpenStatus
  BY Zenon DEF Idle, BeginPcs, Serving, OpenStatus
<1>2. \A t \in TxnIds : wal[t].status \in {"Committed", "none"}
  BY DEF Init
<1>3. /\ \A h \in Handlers : req[h] = Idle
      /\ recovery = Serving
  BY Zenon DEF Init
<1> QED BY Zenon, <1>1, <1>2, <1>3 DEF RInv, LogRecorded, OpenHasRecord, Recorded, RecoveryKnows

=============================================================================
