---------------------------- MODULE TxnTheorems -----------------------------
(***************************************************************************)
(* What is proved of the transaction service, for every number of          *)
(* handlers, transactions, keys, versions, failing calls and crashes; and  *)
(* before it, that the sweeper, a crash and recovery keep the statuses,    *)
(* the answers, the log and the chains in agreement.                       *)
(***************************************************************************)
EXTENDS TxnRequestProofs, VersionChainProofs

(* Time enough for each prover on a busy machine.                          *)
USE SMTT(20), ZenonT(30)

(* The log and the record of a transaction stay, or no handler works on it *)
(* and its record keeps all but its status.                                *)
Reworked(t) ==
  /\ \A h \in Handlers : req'[h].t # t
  /\ TxnOK(t)' /\ AnswersOK(t)'
  /\ txn_state[t] # NoRecord /\ txn_state'[t] # NoRecord
  /\ txn_state'[t].write_keys = txn_state[t].write_keys
  /\ txn_state'[t].snapshot = txn_state[t].snapshot
  /\ txn_state'[t].alloc = txn_state[t].alloc
  /\ Finished(t) => txn_state'[t].status = txn_state[t].status

(* A step of no handler: requests stay or are lost, chains lose at most    *)
(* old entries.                                                            *)
BackgroundFrame ==
  /\ \A h \in Handlers : req'[h] = req[h] \/ req'[h] = Idle
  /\ \A k \in Keys : Trims(version_chains'[k], version_chains[k])
  /\ UNCHANGED <<published, answers, global_version>>
  /\ \A t \in TxnIds :
       (txn_state'[t] = txn_state[t] /\ wal'[t] = wal[t]) \/ Reworked(t)

(***************************************************************************)
(* Such a step keeps the agreement, when the sweeper and recovery are      *)
(* right about the transaction they work on and no decision is forgotten.  *)
(***************************************************************************)
LEMMA BackgroundKeeps ==
  ASSUME TInv, OInv, BackgroundFrame, Exclusive', RecoveringOK', SweepingOK',
         CommittingHeld', \A t \in TxnIds : DecidedOK(t)'
  PROVE  Keeps
<1>0. /\ UNCHANGED <<published, answers, global_version>>
      /\ \A k \in Keys : Trims(version_chains'[k], version_chains[k])
  BY DEF BackgroundFrame
<1>1. \A t \in TxnIds : txn_state[t] # NoRecord =>
        /\ txn_state'[t] # NoRecord /\ txn_state[t].write_keys \in SUBSET Keys
        /\ txn_state'[t].write_keys = txn_state[t].write_keys
        /\ txn_state'[t].snapshot = txn_state[t].snapshot
        /\ txn_state'[t].alloc = txn_state[t].alloc
  <2>1. \A t \in TxnIds : txn_state[t] # NoRecord => txn_state[t].write_keys \in SUBSET Keys
    BY DEF TInv, TypeOK, TxnStoreTypeOK, TxnStateRecord
  <2> QED BY ZenonT(60), <2>1 DEF BackgroundFrame, Reworked
<1>2. \A t \in TxnIds : txn_state[t] = NoRecord => txn_state'[t] = NoRecord
  BY Zenon DEF BackgroundFrame, Reworked
<1>3. \A t \in TxnIds : WriteKeys(t)' = WriteKeys(t) /\ WriteKeys(t) \in SUBSET Keys
  BY ZenonT(60), <1>1, <1>2 DEF WriteKeys
<1>4. ChainsOK'
  BY Zenon, <1>0 DEF OInv, ChainsOK, Trims
<1>5. VersionsOK'
  <2>1. ASSUME NEW t \in TxnIds PROVE published'[t] <= global_version' /\ AllocOK(t)'
    <3>1. published[t] <= global_version /\ AllocOK(t)
      BY Zenon DEF OInv, VersionsOK
    <3> QED BY ZenonT(60), <1>0, <1>1, <1>2, <3>1 DEF AllocOK
  <2> QED BY Zenon, <2>1 DEF VersionsOK
<1>6. LatestOK'
  <2> SUFFICES ASSUME NEW t \in TxnIds, published[t] # 0, NEW k \in WriteKeys(t)
               PROVE  /\ version_chains'[k] # <<>>
                      /\ published[t] <= LatestCommitVersion(version_chains'[k])
    BY ZenonT(60), <1>0, <1>3 DEF LatestOK
  <2>1. /\ version_chains[k] # <<>>
        /\ published[t] <= LatestCommitVersion(version_chains[k])
    BY Zenon DEF OInv, LatestOK
  <2>2. Trims(version_chains'[k], version_chains[k])
    BY ZenonT(60), <1>0, <1>3
  <2> QED BY ZenonT(60), <2>1, <2>2 DEF Trims
<1>7. FirstCommitterWins'
  <2> SUFFICES ASSUME NEW a \in TxnIds, NEW b \in TxnIds,
                      published[a] # 0, published[a] < published[b],
                      WriteKeys(a) \cap WriteKeys(b) # {}
               PROVE  txn_state'[b].snapshot >= published[a]
    BY Zenon, <1>0, <1>3 DEF FirstCommitterWins
  <2>1. txn_state[b] # NoRecord
    BY Zenon DEF WriteKeys
  <2> QED BY ZenonT(60), <1>1, <2>1 DEF OInv, FirstCommitterWins
<1>8. ASSUME NEW t \in TxnIds, txn_state'[t] = txn_state[t], txn_state[t] # NoRecord
      PROVE  EntriesOnTop(t) => EntriesOnTop(t)'
  <2> SUFFICES ASSUME EntriesOnTop(t), NEW k \in txn_state[t].write_keys
               PROVE  /\ version_chains'[k] # <<>>
                      /\ version_chains'[k][Len(version_chains'[k])] =
                           [cv |-> txn_state[t].alloc, txn |-> t]
    BY Zenon, <1>8 DEF EntriesOnTop
  <2>1. Trims(version_chains'[k], version_chains[k])
    BY ZenonT(60), <1>0, <1>1, <1>8
  <2> QED BY Zenon, <2>1 DEF EntriesOnTop, Trims
<1>9. ASSUME NEW t \in TxnIds PROVE TxnOK(t)' /\ AnswersOK(t)'
  <2>1. CASE txn_state'[t] = txn_state[t] /\ wal'[t] = wal[t]
    <3>1. TxnOK(t) /\ AnswersOK(t)
      BY Zenon DEF OInv
    <3>2. txn_state[t] # NoRecord /\ EntriesOnTop(t) => EntriesOnTop(t)'
      BY ZenonT(60), <1>8, <2>1
    <3>3. AnswersOK(t)'
      BY ZenonT(60), <1>0, <2>1, <3>1 DEF AnswersOK, HasStatus
    <3> QED BY ZenonT(60), <1>0, <2>1, <3>1, <3>2, <3>3 DEF TxnOK, HasStatus
  <2> QED BY Zenon, <2>1 DEF BackgroundFrame, Reworked
<1>10. ASSUME NEW h \in Handlers PROVE HandlerOK(h)' /\ FreshOK(h)'
  <2>1. CASE req'[h] = Idle
    BY ZenonT(60), <2>1, IdleOK
  <2>2. CASE req'[h] = req[h] /\ req[h].pc # "idle"
    <3>1. req[h].t \in TxnIds /\ HandlerOK(h) /\ FreshOK(h)
      BY ZenonT(60), <2>2, Holds DEF OInv, Held
    <3>2. txn_state'[req[h].t] = txn_state[req[h].t] /\ wal'[req[h].t] = wal[req[h].t]
      BY ZenonT(60), <2>2, <3>1 DEF BackgroundFrame, Reworked
    <3>3. PICK t \in TxnIds : req[h].t = t
      BY <3>1
    <3>4. HandlerOK(h)'
      <4>1. req[h].pc \in PublishedPcs \cup {"reconcile"} => txn_state[t] # NoRecord
        BY <3>1, <3>3, Holds, CoordinatorAssumption
           DEF Held, HandlerOK, HasStatus, PublishedPcs
      <4>2. req[h].pc \in PublishedPcs \cup {"reconcile"} /\ EntriesOnTop(t)
            => EntriesOnTop(t)'
        BY ZenonT(60), <1>8, <3>2, <3>3, <4>1
      <4>3. AllocOf(h)' = AllocOf(h) /\ req'[h].t = t
        BY ZenonT(60), <2>2, <3>3 DEF AllocOf
      <4> QED BY ZenonT(60), <1>0, <2>2, <3>1, <3>2, <3>3, <4>2, <4>3 DEF HandlerOK, HasStatus
    <3>5. FreshOK(h)'
      <4> SUFFICES ASSUME req[h].pc \in AppendPcs, req[h].rec.write_keys # {}
                   PROVE  /\ req[h].v <= global_version
                          /\ \A u \in TxnIds :
                               /\ published[u] < req[h].v
                               /\ u # req[h].t /\ txn_state'[u] # NoRecord =>
                                    txn_state'[u].alloc < req[h].v
        BY ZenonT(60), <1>0, <2>2 DEF FreshOK
      <4> QED BY ZenonT(60), <1>1, <1>2, <3>1 DEF FreshOK
    <3> QED BY ZenonT(60), <3>4, <3>5
  <2>3. req[h].pc = "idle" => req[h] = Idle
    BY Zenon DEF TInv, ControlOK, RequestOK
  <2> QED BY ZenonT(60), <2>1, <2>2, <2>3 DEF BackgroundFrame
<1>11. FinishedStep
  BY Zenon, <1>1 DEF BackgroundFrame, Reworked, FinishedStep, Finished, HasStatus
<1> QED BY ZenonT(60), <1>4, <1>5, <1>6, <1>7, <1>9, <1>10, <1>11 DEF OInv, Keeps

(***************************************************************************)
(* Steps that decide nothing: old entries go, the sweeper moves on or is   *)
(* done, recovery moves on with a transaction it rolls back.               *)
(***************************************************************************)
LEMMA NothingDecided ==
  ASSUME TInv, OInv,
         UNCHANGED <<req, txn_state, wal, published, answers, global_version, crashes>>,
         \A k \in Keys : Trims(version_chains'[k], version_chains[k]),
         sweeper'.t \in {sweeper.t, NoTxn},
         \/ recovery' = recovery
         \/ /\ recovery.pc \in {"drop", "wal", "unpin", "put"}
            /\ recovery'.pc \in {"drop", "wal", "unpin", "put"}
            /\ recovery'.t = recovery.t /\ recovery'.todo = recovery.todo
  PROVE  Keeps
<1>1. BackgroundFrame
  BY Zenon DEF BackgroundFrame
<1>2. Exclusive' /\ SweepingOK'
  BY ZenonT(60) DEF OInv, Exclusive, SweepingOK, HasStatus
<1>3. RecoveringOK'
  BY DEF OInv, RecoveringOK, HasStatus
<1>4. CommittingHeld'
  BY Zenon DEF OInv, CommittingHeld, HeldByCommit, HasStatus
<1>5. \A t \in TxnIds : DecidedOK(t)'
  BY Zenon DEF OInv, DecidedOK, Undecided, HeldByCommit, HasStatus
<1> QED BY ZenonT(60), <1>1, <1>2, <1>3, <1>4, <1>5, BackgroundKeeps

(***************************************************************************)
(* The steps of the sweeper and of recovery that decide nothing, a request *)
(* that is answered without an effect, and the collection of old entries.  *)
(***************************************************************************)
LEMMA IndifferentSteps ==
  ASSUME TInv, OInv, SearchFacts
  PROVE  /\ \A h \in Handlers, t \in TxnIds : AbortReplay(h, t) => Keeps
         /\ \A h \in Handlers, t \in TxnIds, k \in Keys :
              ReadRequest(h, t, k) /\ UNCHANGED req => Keeps
         /\ SweepDrop \/ SweepUnpin \/ SweepFails \/ SweepChains => Keeps
         /\ RecoverDrop \/ RecoverUnpin => Keeps
         /\ UNCHANGED vars => Keeps
<1>t. \A c : Trims(c, c)
  BY Zenon DEF Trims
<1>s. sweeper.t \in {sweeper.t, NoTxn} /\ NotSweeping.t = NoTxn
  BY DEF NotSweeping
<1>u. ASSUME UNCHANGED <<req, txn_state, wal, published, answers, global_version, crashes,
                         version_chains, recovery>>,
             sweeper' = sweeper \/ sweeper' = [sweeper EXCEPT !.pc = "wal"]
             \/ sweeper' = NotSweeping
      PROVE  Keeps
  <2>1. sweeper'.t \in {sweeper.t, NoTxn}
    BY ZenonT(60), <1>s, <1>u DEF TInv, TypeOK
  <2> QED BY ZenonT(60), <1>t, <1>u, <2>1, NothingDecided
<1>1. ASSUME \/ \E h \in Handlers, t \in TxnIds : AbortReplay(h, t)
             \/ \E h \in Handlers, t \in TxnIds, k \in Keys :
                  ReadRequest(h, t, k) /\ UNCHANGED req
             \/ UNCHANGED vars \/ SweepDrop \/ SweepUnpin \/ SweepFails
      PROVE  Keeps
  <2>1. /\ UNCHANGED <<req, txn_state, wal, published, answers, global_version, crashes,
                       version_chains, recovery>>
        /\ \/ sweeper' = sweeper \/ sweeper' = [sweeper EXCEPT !.pc = "wal"]
           \/ sweeper' = NotSweeping
    BY ZenonT(60), <1>1 DEF AbortReplay, ReadRequest, SweepDrop, SweepUnpin, SweepFails, vars,
                       store_vars, mvcc_vars, txn_vars, env_vars, ghost_vars
  <2> QED BY ZenonT(60), <1>u, <2>1
<1>2. ASSUME SweepChains PROVE Keeps
  <2>1. /\ UNCHANGED <<req, txn_state, wal, published, answers, global_version, crashes,
                       sweeper, recovery>>
        /\ GcChains(U64Max)
    BY Zenon, <1>2 DEF SweepChains, txn_vars, env_vars, ghost_vars
  <2>2. \A key \in Keys : Trims(version_chains'[key], version_chains[key])
    <3>1. StoreTypeOK /\ U64Max \in Nat
      BY Zenon, U64MaxAssumption DEF TInv, TypeOK
    <3> QED BY ZenonT(60), <2>1, <3>1 DEF SearchFacts, GcKeepsNewest
  <2> QED BY ZenonT(60), <1>s, <2>1, <2>2, NothingDecided
<1>3. ASSUME RecoverDrop \/ RecoverUnpin PROVE Keeps
  <2>1. /\ UNCHANGED <<req, txn_state, wal, published, answers, global_version, crashes,
                       sweeper, version_chains>>
        /\ \/ recovery.pc = "drop" /\ recovery' = [recovery EXCEPT !.pc = "wal"]
           \/ recovery.pc = "unpin" /\ recovery' = [recovery EXCEPT !.pc = "put"]
    BY ZenonT(60), <1>3 DEF RecoverDrop, RecoverUnpin, store_vars, mvcc_vars, txn_vars, ghost_vars
  <2>2. /\ recovery.pc \in {"drop", "unpin"} /\ recovery'.pc \in {"wal", "put"}
        /\ recovery'.t = recovery.t /\ recovery'.todo = recovery.todo
    BY ZenonT(60), <2>1 DEF TInv, TypeOK
  <2> QED BY ZenonT(60), <1>s, <1>t, <2>1, <2>2, NothingDecided
<1> QED BY ZenonT(60), <1>1, <1>2, <1>3

(***************************************************************************)
(* A crash: no request is left, and every transaction in the log is still  *)
(* to be looked at.                                                        *)
(***************************************************************************)
LEMMA CrashKeeps ==
  ASSUME TInv, OInv, Crash
  PROVE  Keeps
<1>1. /\ UNCHANGED <<txn_state, wal, published, answers, global_version, version_chains>>
      /\ \A h \in Handlers : req'[h] = Idle
      /\ sweeper'.t = NoTxn
      /\ recovery'.t = NoTxn /\ recovery'.pc = "pick"
      /\ recovery'.todo = {t \in TxnIds : wal[t].status # "none"}
      /\ crashes' = crashes + 1
  BY Zenon DEF Crash, store_vars, txn_vars, ghost_vars, NotSweeping
<1>2. \A c : Trims(c, c)
  BY ZenonT(60) DEF Trims
<1>3. BackgroundFrame
  BY ZenonT(60), <1>1, <1>2 DEF BackgroundFrame
<1>4. Exclusive' /\ RecoveringOK' /\ SweepingOK' /\ CommittingHeld'
  <2>1. \A h \in Handlers : req'[h].t = NoTxn
    BY ZenonT(60), <1>1, IdleRequest
  <2>2. crashes' # 0
    <3>1. crashes \in 0 .. MaxCrashes /\ crashes' = crashes + 1
      BY ZenonT(60), <1>1 DEF TInv, TypeOK
    <3>2. MaxCrashes \in Nat
      BY ZenonT(60), CoordinatorAssumption
    <3> QED BY <3>1, <3>2
  <2> QED BY ZenonT(60), <1>1, <2>1, <2>2 DEF Exclusive, RecoveringOK, SweepingOK, CommittingHeld
<1>5. \A t \in TxnIds : DecidedOK(t)'
  BY ZenonT(60), <1>1 DEF DecidedOK, Undecided
<1> QED BY ZenonT(60), <1>3, <1>4, <1>5, BackgroundKeeps

-----------------------------------------------------------------------------
(***************************************************************************)
(* The sweeper claims an Active transaction no request works on, and logs  *)
(* that it is aborted.                                                     *)
(***************************************************************************)
LEMMA SweeperKeeps ==
  ASSUME TInv, OInv, SearchFacts, ~ Overlap, NEW t \in TxnIds
  PROVE  SweepClaim(t) \/ SweepWal => Keeps
<1>0. /\ TxnStoreTypeOK /\ NoTxn \notin TxnIds
      /\ \A u \in TxnIds : TxnOK(u) /\ AnswersOK(u) /\ DecidedOK(u)
      /\ sweeper.pc # "idle" => sweeper.t \in TxnIds /\ recovery.pc = "off"
  BY ZenonT(60), CoordinatorAssumption DEF OInv, TInv, TypeOK, ControlOK, SweeperOK
<1>t. \A c : Trims(c, c)
  BY ZenonT(60) DEF Trims
<1>1. ASSUME SweepClaim(t) PROVE Keeps
  <2> USE <1>1
  <2>1. /\ recovery.pc = "off" /\ sweeper = NotSweeping /\ ~ Busy(t)
        /\ CompareAndSetTxnStatus(t, "Active", "Aborted")
        /\ UNCHANGED <<wal, req, recovery, crashes, published, answers, global_version,
                       version_chains>>
    BY ZenonT(60) DEF SweepClaim, store_vars, ghost_vars
  <2>2. StatusSet(t, "Active", "Aborted")
    BY ZenonT(60), <1>0, <2>1, CompareAndSetSpec DEF TxnStatus
  <2>3. sweeper'.t = t /\ \A h \in Handlers : req[h].t # t
    BY ZenonT(60), <2>1 DEF SweepClaim, Busy
  <2>4. txn_state[t] # NoRecord /\ txn_state[t].status = "Active"
    BY ZenonT(60), <2>2 DEF StatusSet, HasStatus
  <2>5. Reworked(t)
    <3>1. published[t] = 0 /\ answers[t] = {}
      BY ZenonT(60), <1>0, <2>4 DEF TxnOK, AnswersOK, HasStatus
    <3>2. TxnOK(t)' /\ AnswersOK(t)'
      BY ZenonT(60), <1>0, <2>1, <2>2, <2>4, <3>1 DEF TxnOK, AnswersOK, HasStatus, StatusSet
    <3> QED BY ZenonT(60), <2>1, <2>2, <2>3, <2>4, <3>2 DEF Reworked, StatusSet, Finished, HasStatus
  <2>6. BackgroundFrame
    BY ZenonT(60), <1>t, <2>1, <2>2, <2>5 DEF BackgroundFrame, StatusSet
  <2>7. Exclusive' /\ RecoveringOK' /\ SweepingOK'
    BY ZenonT(60), <1>0, <2>1, <2>2, <2>3
       DEF OInv, Exclusive, RecoveringOK, SweepingOK, StatusSet, HasStatus
  <2>8. ASSUME NEW u \in TxnIds, HasStatus(u, {"Committing"})'
        PROVE  u # t /\ HasStatus(u, {"Committing"}) /\ HeldByCommit(u)' = HeldByCommit(u)
    BY ZenonT(60), <2>1, <2>2, <2>8 DEF StatusSet, HasStatus, HeldByCommit
  <2>9. CommittingHeld'
    BY ZenonT(60), <2>1, <2>8 DEF OInv, CommittingHeld
  <2>10. \A u \in TxnIds : DecidedOK(u)'
    BY ZenonT(60), <1>0, <2>1, <2>8 DEF DecidedOK, Undecided
  <2> QED BY ZenonT(60), <2>6, <2>7, <2>9, <2>10, BackgroundKeeps
<1>2. ASSUME SweepWal PROVE Keeps
  <2> USE <1>2
  <2>1. /\ sweeper.pc = "wal" /\ AppendWalOutcome(sweeper.t, "Aborted")
        /\ sweeper' = [sweeper EXCEPT !.pc = "unpin"]
        /\ UNCHANGED <<txn_state, req, recovery, crashes, published, answers,
                       global_version, version_chains>>
    BY Zenon DEF SweepWal, store_vars, ghost_vars
  <2>2. PICK s \in TxnIds : sweeper.t = s
    BY ZenonT(60), <1>0, <2>1
  <2>3. wal'[s].status = "Aborted" /\ \A u \in TxnIds \ {s} : wal'[u] = wal[u]
    BY ZenonT(60), <1>0, <2>1, <2>2, AppendWalOutcomeSpec DEF TxnStatus
  <2>4. HasStatus(s, {"Aborted"}) /\ \A h \in Handlers : req[h].t # s
    BY ZenonT(60), <1>0, <2>2 DEF OInv, SweepingOK, Exclusive
  <2>5. sweeper'.t = sweeper.t
    BY ZenonT(60), <2>1 DEF TInv, TypeOK
  <2>6. Reworked(s)
    BY ZenonT(60), <1>0, <2>1, <2>3, <2>4 DEF Reworked, TxnOK, AnswersOK, HasStatus
  <2>7. BackgroundFrame
    BY ZenonT(60), <1>t, <2>1, <2>3, <2>6 DEF BackgroundFrame
  <2>8. Exclusive' /\ RecoveringOK' /\ SweepingOK'
    BY ZenonT(60), <2>1, <2>5 DEF OInv, Exclusive, RecoveringOK, SweepingOK, HasStatus
  <2>9. CommittingHeld'
    BY ZenonT(60), <2>1 DEF OInv, CommittingHeld, HeldByCommit, HasStatus
  <2>10. ASSUME NEW u \in TxnIds PROVE DecidedOK(u)'
    BY ZenonT(60), <1>0, <2>1, <2>3 DEF DecidedOK, Undecided, HeldByCommit, HasStatus
  <2> QED BY ZenonT(60), <2>7, <2>8, <2>9, <2>10, BackgroundKeeps
<1> QED BY ZenonT(60), <1>1, <1>2

-----------------------------------------------------------------------------
(***************************************************************************)
(* Recovery goes by the chains: a transaction logged as Committing has won *)
(* exactly if its entries are there.                                       *)
(***************************************************************************)
LEMMA WonIsPublished ==
  ASSUME TInv, OInv, NEW t \in TxnIds, NeedsRecovery(t)
  PROVE  /\ ChainWon(t) => /\ HasStatus(t, {"Committing"})
                           /\ published[t] = txn_state[t].alloc
         /\ ~ ChainWon(t) => published[t] = 0
<1> DEFINE rec == txn_state[t]
<1>0. /\ TxnOK(t) /\ AllocOK(t) /\ ChainsOK /\ txn_state[t] # NoRecord
      /\ rec \in TxnStateRecord /\ rec.write_keys \in SUBSET Keys
      /\ rec.status \in {"Active", "Committing"}
      /\ wal[t].status \in {"Active", "Committing"}
      /\ version_chains \in [Keys -> Seq(Entries)]
  BY DEF OInv, VersionsOK, NeedsRecovery, HasStatus, TInv, TypeOK, StoreTypeOK,
         TxnStoreTypeOK, TxnStateRecord
<1>1. ASSUME ChainWon(t)
      PROVE  HasStatus(t, {"Committing"}) /\ published[t] = rec.alloc
  <2>1. PICK k \in rec.write_keys : LatestCommitVersion(version_chains[k]) = rec.alloc
    BY ZenonT(60), <1>1 DEF ChainWon
  <2>2. rec.alloc # 0 /\ wal[t].status = "Committing"
    BY ZenonT(60), <1>1 DEF ChainWon
  <2>3. version_chains[k] # <<>> /\ version_chains[k] \in Seq(Entries) /\ k \in Keys
    BY ZenonT(60), <1>0, <2>1, <2>2 DEF LatestCommitVersion
  <2>4. PICK e \in Entries : e \in EntriesOf(version_chains[k]) /\ e.cv = rec.alloc
    BY ZenonT(60), <2>1, <2>3, NewestIsEntry
  <2>5. published[e.txn] = rec.alloc /\ e.txn \in TxnIds
    BY ZenonT(60), <1>0, <2>3, <2>4 DEF ChainsOK, Entries
  <2>6. e.txn = t
    BY ZenonT(60), <1>0, <2>2, <2>5 DEF AllocOK
  <2>7. rec.status = "Committing"
    BY ZenonT(60), <1>0, <2>2 DEF TxnOK, HasStatus
  <2> QED BY ZenonT(60), <1>0, <2>5, <2>6, <2>7 DEF HasStatus
<1>2. ASSUME published[t] # 0 PROVE ChainWon(t)
  <2>1. HasStatus(t, {"Committing"})
    BY ZenonT(60), <1>0, <1>2 DEF TxnOK, HasStatus
  <2>2. /\ published[t] = rec.alloc /\ wal[t].status = "Committing"
        /\ wal[t].keys = rec.write_keys /\ EntriesOnTop(t) /\ rec.write_keys # {}
    BY ZenonT(60), <1>0, <1>2, <2>1 DEF TxnOK
  <2>3. ASSUME NEW k \in rec.write_keys
        PROVE  LatestCommitVersion(version_chains[k]) = rec.alloc
    <3>1. /\ version_chains[k] # <<>>
          /\ version_chains[k][Len(version_chains[k])] = [cv |-> rec.alloc, txn |-> t]
      BY ZenonT(60), <2>2 DEF EntriesOnTop
    <3> QED BY <3>1 DEF LatestCommitVersion
  <2> QED BY ZenonT(60), <1>2, <2>2, <2>3 DEF ChainWon
<1> QED BY ZenonT(60), <1>1, <1>2

(***************************************************************************)
(* Recovery: a winner is logged and recorded as Committed, any other       *)
(* unfinished transaction as Aborted, and it ends when nothing is open.    *)
(***************************************************************************)
LEMMA RecoveryKeeps ==
  ASSUME TInv, OInv, SearchFacts, Recover
  PROVE  Keeps
<1>0. /\ recovery.pc # "off" /\ NoTxn \notin TxnIds /\ TxnStoreTypeOK
      /\ recovery \in RecoveryStates
      /\ recovery.pc \notin {"off", "pick"} => recovery.t \in TxnIds
      /\ \A u \in TxnIds : TxnOK(u) /\ AnswersOK(u) /\ DecidedOK(u)
  BY ZenonT(60), CoordinatorAssumption
     DEF OInv, TInv, TypeOK, ControlOK, RecoveryOK, RecoveryStates, Recover, RecoverPick,
         RecoverWonWal, RecoverWonPut, RecoverDrop, RecoverWal, RecoverUnpin, RecoverPut,
         RecoverDone
<1>1. /\ \A h \in Handlers : req[h].t = NoTxn
      /\ sweeper.t = NoTxn /\ crashes # 0
  <2>1. sweeper.pc = "idle" /\ \A h \in Handlers : req[h].pc = "idle"
    BY ZenonT(60), <1>0 DEF TInv, ControlOK, RequestOK, SweeperOK
  <2>2. sweeper = NotSweeping /\ \A h \in Handlers : req[h] = Idle
    BY ZenonT(60), <2>1 DEF TInv, ControlOK, RequestOK, SweeperOK
  <2>3. NotSweeping.t = NoTxn
    BY Zenon DEF NotSweeping
  <2> QED BY ZenonT(60), <1>0, <2>2, <2>3, IdleRequest DEF OInv, CommittingHeld
<1>t. \A c : Trims(c, c)
  BY DEF Trims
<1>f. ASSUME UNCHANGED <<req, published, answers, global_version, version_chains, sweeper,
                         crashes>>,
             \A u \in TxnIds :
               (txn_state'[u] = txn_state[u] /\ wal'[u] = wal[u]) \/ Reworked(u),
             RecoveringOK', \A u \in TxnIds : DecidedOK(u)'
      PROVE  Keeps
  <2>1. BackgroundFrame
    BY ZenonT(60), <1>f, <1>t DEF BackgroundFrame
  <2>2. Exclusive' /\ SweepingOK' /\ CommittingHeld'
    BY ZenonT(60), <1>1, <1>f DEF Exclusive, SweepingOK, CommittingHeld
  <2> QED BY ZenonT(60), <1>f, <2>1, <2>2, BackgroundKeeps
<1>2. ASSUME NEW t \in TxnIds, RecoverPick(t) PROVE Keeps
  <2> USE <1>2
  <2>1. /\ recovery.pc = "pick" /\ t \in recovery.todo /\ NeedsRecovery(t)
        /\ recovery' = [t |-> t, todo |-> recovery.todo \ {t},
                        pc |-> IF ChainWon(t) THEN "won_wal" ELSE "drop"]
        /\ UNCHANGED <<req, published, answers, global_version, version_chains, sweeper,
                       crashes, txn_state, wal>>
    BY Zenon DEF RecoverPick, store_vars, txn_vars, ghost_vars
  <2>2. /\ recovery'.t = t /\ recovery'.todo = recovery.todo \ {t}
        /\ recovery'.pc = IF ChainWon(t) THEN "won_wal" ELSE "drop"
    BY ZenonT(60), <2>1
  <2>3. HasStatus(t, {"Active", "Committing"})
    BY ZenonT(60), <2>1 DEF NeedsRecovery
  <2>4. RecoveringOK'
    BY ZenonT(60), <2>1, <2>2, <2>3, WonIsPublished DEF RecoveringOK, HasStatus
  <2>5. \A u \in TxnIds : DecidedOK(u)'
    BY ZenonT(60), <1>0, <2>1, <2>2 DEF OInv, RecoveringOK, DecidedOK, Undecided, HasStatus
  <2> QED BY ZenonT(60), <1>f, <2>1, <2>4, <2>5
<1>3. ASSUME NEW t \in TxnIds, recovery.t = t, NEW s, recovery.pc \in {"won_wal", "wal"},
             s = IF recovery.pc = "wal" THEN "Aborted" ELSE "Committed",
             AppendWalOutcome(t, s),
             recovery' = [recovery EXCEPT !.pc = IF s = "Aborted" THEN "unpin" ELSE "won_put"],
             UNCHANGED <<req, published, answers, global_version, version_chains, sweeper,
                         crashes, txn_state>>
      PROVE  Keeps
  <2> USE <1>3
  <2>1. wal'[t].status = s /\ \A u \in TxnIds \ {t} : wal'[u] = wal[u]
    BY ZenonT(60), <1>0, AppendWalOutcomeSpec DEF TxnStatus
  <2>2. /\ recovery'.t = t /\ recovery'.todo = recovery.todo
        /\ recovery'.pc = IF s = "Aborted" THEN "unpin" ELSE "won_put"
    BY ZenonT(60), <1>0 DEF RecoveryStates
  <2>3. /\ HasStatus(t, {"Active", "Committing"})
        /\ s = "Committed" => HasStatus(t, {"Committing"})
        /\ published[t] = IF s = "Aborted" THEN 0 ELSE txn_state[t].alloc
    BY ZenonT(60) DEF OInv, RecoveringOK, HasStatus
  <2>4. RecoveringOK'
    <3>1. /\ HasStatus(t, {"Active", "Committing"})'
          /\ s = "Committed" => HasStatus(t, {"Committing"})'
      BY ZenonT(60), <2>3 DEF HasStatus
    <3>2. CASE s = "Aborted"
      <4>1. recovery'.pc = "unpin" /\ recovery'.t = t /\ published'[t] = 0
        BY ZenonT(60), <2>2, <2>3, <3>2
      <4> QED BY ZenonT(60), <3>1, <4>1 DEF RecoveringOK
    <3>3. CASE s = "Committed"
      <4>1. /\ recovery'.pc = "won_put" /\ recovery'.t = t
            /\ published'[t] = txn_state'[t].alloc /\ HasStatus(t, {"Committing"})'
        BY ZenonT(60), <2>2, <2>3, <3>1, <3>3
      <4> QED BY ZenonT(60), <4>1 DEF RecoveringOK
    <3> QED BY ZenonT(60), <3>2, <3>3
  <2>5. Reworked(t)
    <3>1. TxnOK(t) /\ AnswersOK(t) /\ s \in {"Aborted", "Committed"}
      BY Zenon, <1>0
    <3>2. TxnOK(t)'
      BY ZenonT(60), <2>1, <2>3, <3>1 DEF TxnOK, HasStatus
    <3>3. AnswersOK(t)'
      BY ZenonT(60), <3>1 DEF AnswersOK, HasStatus
    <3> QED BY ZenonT(60), <1>0, <1>1, <2>3, <3>2, <3>3 DEF Reworked, HasStatus
  <2>6. \A u \in TxnIds : DecidedOK(u)'
    BY <1>0, <2>1, <2>2 DEF DecidedOK, Undecided, HasStatus
  <2> QED BY ZenonT(60), <1>f, <2>1, <2>4, <2>5, <2>6
<1>4. ASSUME NEW t \in TxnIds, recovery.t = t, NEW s, recovery.pc \in {"won_put", "put"},
             s = IF recovery.pc = "put" THEN "Aborted" ELSE "Committed",
             PutTxnState(t, [txn_state[t] EXCEPT !.status = s]),
             recovery' = [recovery EXCEPT !.pc = "pick", !.t = NoTxn],
             UNCHANGED <<req, published, answers, global_version, version_chains, sweeper,
                         crashes, wal>>
      PROVE  Keeps
  <2> USE <1>4
  <2>1. /\ HasStatus(t, {"Active", "Committing"})
        /\ published[t] = IF s = "Aborted" THEN 0 ELSE txn_state[t].alloc
    BY Zenon DEF OInv, RecoveringOK, HasStatus
  <2>2. txn_state[t] \in TxnStateRecord /\ txn_state[t] # NoRecord
        /\ txn_state[t].status \in {"Active", "Committing"}
        /\ s \in {"Aborted", "Committed"}
    BY ZenonT(60), <1>0, <2>1 DEF HasStatus, TxnStoreTypeOK
  <2> DEFINE new == [txn_state[t] EXCEPT !.status = s]
  <2>3. /\ new \in TxnStateRecord /\ new.status = s
        /\ new.write_keys = txn_state[t].write_keys
        /\ new.snapshot = txn_state[t].snapshot /\ new.alloc = txn_state[t].alloc
    BY Zenon, <2>2 DEF TxnStateRecord, TxnStatus
  <2> HIDE DEF new
  <2>4. PutTxnState(t, new)
    BY Zenon DEF new
  <2>5. txn_state'[t] = new /\ \A u \in TxnIds \ {t} : txn_state'[u] = txn_state[u]
    BY ZenonT(60), <1>0, <2>3, <2>4, PutTxnStateSpec
  <2>6. recovery'.t = NoTxn /\ recovery'.todo = recovery.todo /\ recovery'.pc = "pick"
    BY Zenon, <1>0 DEF RecoveryStates
  <2>7. RecoveringOK'
    BY Zenon, <2>6 DEF RecoveringOK
  <2>8. txn_state'[t] # NoRecord
    BY ZenonT(60), <2>3, <2>5, CoordinatorAssumption
  <2>9. Reworked(t)
    <3>1. TxnOK(t) /\ AnswersOK(t)
      BY ZenonT(60), <1>0
    <3>2. TxnOK(t)'
      BY ZenonT(60), <2>1, <2>2, <2>3, <2>5, <2>8, <3>1 DEF TxnOK, HasStatus
    <3>3. AnswersOK(t)'
      BY ZenonT(60), <2>2, <3>1 DEF AnswersOK, HasStatus
    <3> QED BY ZenonT(60), <1>0, <1>1, <2>2, <2>3, <2>5, <2>8, <3>2, <3>3
            DEF Reworked, Finished, HasStatus
  <2>10. \A u \in TxnIds : DecidedOK(u)'
    BY ZenonT(60), <1>0, <2>2, <2>3, <2>5, <2>6 DEF DecidedOK, Undecided, HasStatus
  <2> QED BY ZenonT(60), <1>f, <2>5, <2>7, <2>9, <2>10
<1>5. ASSUME RecoverWonWal \/ RecoverWal \/ RecoverWonPut \/ RecoverPut PROVE Keeps
  <2>1. PICK t \in TxnIds : recovery.t = t
    BY ZenonT(60), <1>0, <1>5 DEF RecoverWonWal, RecoverWal, RecoverWonPut, RecoverPut
  <2>2. CASE RecoverWonWal
    <3>1. /\ recovery.pc = "won_wal" /\ AppendWalOutcome(t, "Committed")
          /\ recovery' = [recovery EXCEPT !.pc = "won_put"]
          /\ UNCHANGED <<req, published, answers, global_version, version_chains, sweeper,
                         crashes, txn_state>>
      BY ZenonT(60), <2>1, <2>2 DEF RecoverWonWal, store_vars, ghost_vars
    <3> QED BY <1>3, <2>1, <3>1
  <2>3. CASE RecoverWal
    <3>1. /\ recovery.pc = "wal" /\ AppendWalOutcome(t, "Aborted")
          /\ recovery' = [recovery EXCEPT !.pc = "unpin"]
          /\ UNCHANGED <<req, published, answers, global_version, version_chains, sweeper,
                         crashes, txn_state>>
      BY ZenonT(60), <2>1, <2>3 DEF RecoverWal, store_vars, ghost_vars
    <3> QED BY <1>3, <2>1, <3>1
  <2>4. CASE RecoverWonPut
    <3>1. /\ recovery.pc = "won_put"
          /\ PutTxnState(t, [txn_state[t] EXCEPT !.status = "Committed"])
          /\ recovery' = [recovery EXCEPT !.pc = "pick", !.t = NoTxn]
          /\ UNCHANGED <<req, published, answers, global_version, version_chains, sweeper,
                         crashes, wal>>
      BY ZenonT(60), <2>1, <2>4 DEF RecoverWonPut, store_vars, ghost_vars
    <3> QED BY <1>4, <2>1, <3>1
  <2>5. CASE RecoverPut
    <3>1. /\ recovery.pc = "put"
          /\ PutTxnState(t, [txn_state[t] EXCEPT !.status = "Aborted"])
          /\ recovery' = [recovery EXCEPT !.pc = "pick", !.t = NoTxn]
          /\ UNCHANGED <<req, published, answers, global_version, version_chains, sweeper,
                         crashes, wal>>
      BY ZenonT(60), <2>1, <2>5 DEF RecoverPut, store_vars, ghost_vars
    <3> QED BY <1>4, <2>1, <3>1
  <2> QED BY ZenonT(60), <1>5, <2>2, <2>3, <2>4, <2>5
<1>6. ASSUME RecoverDone PROVE Keeps
  <2> USE <1>6
  <2>1. /\ recovery.pc = "pick" /\ \A t \in recovery.todo : ~ NeedsRecovery(t)
        /\ recovery'.pc = "off"
        /\ UNCHANGED <<req, published, answers, global_version, version_chains, sweeper,
                       crashes, txn_state, wal>>
    BY Zenon DEF RecoverDone, Serving, store_vars, txn_vars, ghost_vars
  <2>2. RecoveringOK'
    BY ZenonT(60), <2>1 DEF RecoveringOK
  <2>3. ASSUME NEW u \in TxnIds PROVE ~ Undecided(u)
    BY ZenonT(60), <1>0, <2>1 DEF OInv, RecoveringOK, DecidedOK, Undecided, NeedsRecovery, HasStatus
  <2>4. \A u \in TxnIds : DecidedOK(u)'
    BY ZenonT(60), <2>1, <2>3 DEF DecidedOK, Undecided, HasStatus
  <2> QED BY ZenonT(60), <1>f, <2>1, <2>2, <2>4
<1> QED BY ZenonT(60), <1>2, <1>5, <1>6, IndifferentSteps DEF Recover

(***************************************************************************)
(* Every step of the service keeps the statuses, the answers, the log and  *)
(* the chains in agreement, when requests on one transaction, and its      *)
(* sweep, do not overlap.                                                  *)
(***************************************************************************)
LEMMA NextKeeps ==
  ASSUME TInv, OInv, SearchFacts, ~ Overlap, [Next]_vars
  PROVE  Keeps
<1>1. ASSUME NEW h \in Handlers, Request(h) PROVE Keeps
  <2>1. ASSUME NEW t \in TxnIds, NEW k \in Keys, StageRequest(h, t, k) \/ ReadRequest(h, t, k)
        PROVE  Keeps
    BY ZenonT(60), <2>1, AcceptedKeeps, IndifferentSteps
  <2>2. ASSUME NEW t \in TxnIds,
               \/ BeginCapture(h, t) \/ HeartbeatRequest(h, t) \/ CommitReplay(h, t)
               \/ CommitRequest(h, t) \/ AbortRequest(h, t) \/ AbortReplay(h, t)
        PROVE  Keeps
    BY ZenonT(60), <2>2, AcceptedKeeps, AnsweredKeeps, IndifferentSteps
  <2> QED BY ZenonT(60), <1>1, <2>1, <2>2 DEF Request
<1>2. ASSUME NEW h \in Handlers, Serve(h) \/ Fails(h) PROVE Keeps
  BY ZenonT(60), <1>2, ServeKeeps
<1>3. CASE Sweep \/ SweepOn \/ SweepFails
  BY ZenonT(60), <1>3, SweeperKeeps, IndifferentSteps, CoordinatorAssumption DEF Sweep, SweepOn
<1>4. CASE Crash
  BY ZenonT(60), <1>4, CrashKeeps
<1>5. CASE Recover
  BY ZenonT(60), <1>5, RecoveryKeeps
<1>6. CASE UNCHANGED vars
  BY ZenonT(60), <1>6, IndifferentSteps
<1> QED BY ZenonT(60), <1>1, <1>2, <1>3, <1>4, <1>5, <1>6 DEF Next

-----------------------------------------------------------------------------
(***************************************************************************)
(* The transaction service keeps its types, however requests, the sweeper, *)
(* failing calls, crashes and recovery interleave and however many there   *)
(* are; and its program counters tell who holds commit_lock, what a        *)
(* request has loaded and which transactions are still being begun.        *)
(***************************************************************************)
THEOREM ServiceTypes == Spec => [](TypeOK /\ ControlOK)
<1>1. Init => TInv
  BY Zenon, InitTInv
<1>2. TInv /\ [Next]_vars => TInv'
  BY ZenonT(60), NextTInv, SearchFactsHold
<1>3. TInv => TypeOK /\ ControlOK
  BY DEF TInv
<1> QED BY <1>1, <1>2, <1>3, PTL DEF Spec

(***************************************************************************)
(* The conflict check commit_inner makes before it logs Committing still   *)
(* holds when append_chain_entries_bulk appends, three redb transactions   *)
(* later, whatever the other requests, the sweeper, the collector and      *)
(* failing calls do in between: the append is never refused.               *)
(***************************************************************************)
THEOREM AppendHolds == Spec => []AppendNeverRefused
<1>1. Init => TInv /\ AppendInv
  BY ZenonT(60), InitTInv, InitAppend
<1>2. TInv /\ AppendInv /\ [Next]_vars => TInv' /\ AppendInv'
  BY ZenonT(60), NextTInv, NextKeepsAppend, SearchFactsHold
<1>3. TInv /\ AppendInv => AppendNeverRefused
  BY AppendAllowed
<1> QED BY <1>1, <1>2, <1>3, PTL DEF Spec

(***************************************************************************)
(* Recovery leaves no log open, however requests, the sweeper, failing     *)
(* calls and earlier recoveries cut short by a crash have left the records *)
(* and the log: when recover_inner hands over to the request handlers,     *)
(* every transaction of the log has finished or its log has ended.         *)
(***************************************************************************)
THEOREM RecoveryHolds == Spec => RecoveryClosesLogs
<1>1. Init => TInv /\ RInv
  BY ZenonT(60), InitTInv, InitRecovered
<1>2. TInv /\ RInv /\ [Next]_vars => TInv' /\ RInv' /\ [HandoverStep]_vars
  BY ZenonT(60), NextTInv, NextRecovered, SearchFactsHold
<1> QED BY <1>1, <1>2, PTL DEF Spec, RecoveryClosesLogs

(***************************************************************************)
(* When no other request on a transaction and no sweep of it comes between *)
(* the steps of a request (which no lock in the code ensures), the         *)
(* statuses, the answers, the log and the chains agree at every step.      *)
(***************************************************************************)
LEMMA OutcomeInv ==
  ASSUME ~ Overlap
  PROVE  Spec => [](TInv /\ OInv)
<1>1. Init => TInv /\ OInv
  BY ZenonT(60), InitTInv, InitOInv
<1>2. TInv /\ OInv /\ [Next]_vars => TInv' /\ OInv'
  BY ZenonT(60), NextTInv, NextKeeps, SearchFactsHold DEF Keeps
<1> QED BY <1>1, <1>2, PTL DEF Spec

(***************************************************************************)
(* When no other request on a transaction and no sweep of it comes between *)
(* the steps of a request (which no lock in the code ensures), what a      *)
(* transaction ends with is the truth, whatever store calls fail and       *)
(* wherever the process crashes: its status says whether its entries are   *)
(* in the chains (commit_inner, reconcile_failed_commit, recover_inner).   *)
(***************************************************************************)
THEOREM OutcomeHolds ==
  ASSUME ~ Overlap
  PROVE  Spec => []OutcomeMatchesChains
<1>1. TInv /\ OInv => OutcomeMatchesChains
  BY ZenonT(60), OutcomeFacts
<1> QED BY <1>1, OutcomeInv, PTL

(***************************************************************************)
(* Under the same hypothesis, every definite answer of the commits of one  *)
(* transaction, its retries and the retries after a restart included, is   *)
(* the same, and it is what the chains hold (commit, and its replay for a  *)
(* transaction that has ended).                                            *)
(***************************************************************************)
THEOREM AnswersHold ==
  ASSUME ~ Overlap
  PROVE  Spec => []CommitAnswersAgree
<1>1. TInv /\ OInv => CommitAnswersAgree
  BY ZenonT(60), OutcomeFacts
<1> QED BY <1>1, OutcomeInv, PTL

(***************************************************************************)
(* Under the same hypothesis, of two committed transactions that wrote one *)
(* key the later one began at or after the commit of the earlier one (the  *)
(* conflict checks of commit_inner and append_chain_entries_bulk).         *)
(***************************************************************************)
THEOREM FirstCommitterHolds ==
  ASSUME ~ Overlap
  PROVE  Spec => []FirstCommitterWins
<1>1. TInv /\ OInv => FirstCommitterWins
  BY ZenonT(60), OutcomeFacts
<1> QED BY <1>1, OutcomeInv, PTL

(***************************************************************************)
(* Under the same hypothesis, recovery leaves no decision open: when       *)
(* nothing is under way, the log of a transaction still recorded as        *)
(* Committing has ended, with the outcome the chains show (recover_inner). *)
(***************************************************************************)
THEOREM DecidedHolds ==
  ASSUME ~ Overlap
  PROVE  Spec => []LeftCommittingIsDecided
<1>1. TInv /\ OInv => LeftCommittingIsDecided
  BY OutcomeFacts
<1> QED BY <1>1, OutcomeInv, PTL

(***************************************************************************)
(* Under the same hypothesis, and as long as the process has not crashed,  *)
(* no failing store call leaves a transaction in Committing                *)
(* (reconcile_failed_commit).  After a crash it can; DecidedHolds says     *)
(* what holds then.                                                        *)
(***************************************************************************)
THEOREM RepairHolds ==
  ASSUME ~ Overlap
  PROVE  Spec => []NotLeftCommitting
<1>1. TInv /\ OInv => NotLeftCommitting
  BY OutcomeFacts
<1> QED BY <1>1, OutcomeInv, PTL

=============================================================================
