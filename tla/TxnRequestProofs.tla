-------------------------- MODULE TxnRequestProofs --------------------------
(***************************************************************************)
(* The steps of a request that change the status of its transaction,       *)
(* answer its client or append the entries of its commit, and the requests *)
(* being taken up, keep the statuses, the answers, the log and the chains  *)
(* in agreement.                                                           *)
(***************************************************************************)
EXTENDS TxnOutcomeProofs

(* Time enough for each prover on a busy machine.                          *)
USE SMTT(20), ZenonT(30)

(* Nothing the invariant speaks of changes but the request and the record. *)
SameButRecord == UNCHANGED <<wal, answers, global_version>> /\ SameChains

(***************************************************************************)
(* begin, stage, read and heartbeat put an Active record, the only one of  *)
(* a transaction that is not in a commit.                                  *)
(***************************************************************************)
LEMMA ActivePut ==
  ASSUME TInv, OInv, NEW h \in Handlers, NEW t \in TxnIds, Works(h, t),
         SameButRecord,
         NEW new, txn_state'[t] = new, new # NoRecord, new.status = "Active",
         \/ txn_state[t] = NoRecord /\ wal[t].status = "none" /\ new.alloc = 0
         \/ HasStatus(t, {"Active"}) /\ new.alloc = txn_state[t].alloc,
         new.alloc # 0 => new.write_keys # {},
         req'[h] = Idle \/ (req'[h].t = t /\ req'[h].pc \in ActivePcs)
  PROVE  Keeps
<1>1. TxnOK(t)
  BY Zenon DEF OInv
<1>2. published[t] = 0 /\ wal[t].status \notin {"Committing", "Committed"}
  BY Zenon, <1>1 DEF TxnOK, HasStatus
<1>3. TxnOK(t)'
  BY <1>2 DEF TxnOK, HasStatus, SameButRecord, SameChains
<1>4. ~ Finished(t) /\ StillHeld(h, t)
  BY DEF Finished, HasStatus, StillHeld
<1>5. HandlerOK(h)' /\ FreshOK(h)'
  <2>1. CASE req'[h].t = t /\ req'[h].pc \in ActivePcs
    BY <2>1 DEF HandlerOK, FreshOK, HasStatus, CopyPcs, ActivePcs, UnpublishedPcs,
                PublishedPcs, CommittedPcs, AbortedPcs, AppendPcs, AbortPcs,
                VersionPcs, AllocatedPcs, LoggedPcs
  <2> QED BY ZenonT(60), <2>1, IdleOK
<1> QED BY ZenonT(60), <1>2, <1>3, <1>4, <1>5, RecordPut DEF SameButRecord, HasStatus

(***************************************************************************)
(* The records begin, stage, read and heartbeat put, and the one the undo  *)
(* of a failed begin deletes.                                              *)
(***************************************************************************)
LEMMA ActiveSteps ==
  ASSUME TInv, OInv, NEW h \in Handlers, NEW t \in TxnIds, Works(h, t)
  PROVE  /\ BeginPut(h) \/ BeginDelete(h) => Keeps
         /\ StageKeys(h) \/ ReadKeys(h) \/ HeartbeatPut(h) => Keeps
<1>0. /\ req \in [Handlers -> Requests] /\ HandlerOK(h) /\ req[h].t = t
      /\ TxnStoreTypeOK /\ TxnOK(t) /\ NoRecord \notin TxnStateRecord
  BY Zenon, Holds, CoordinatorAssumption DEF Held, TInv, TypeOK, OInv, Works
<1>q. BeginPut(h) \/ BeginDelete(h) \/ StageKeys(h) \/ ReadKeys(h) \/ HeartbeatPut(h)
      => SameButRecord
  BY Zenon DEF BeginPut, BeginDelete, StageKeys, ReadKeys, HeartbeatPut, SameButRecord,
               SameChains, store_vars, env_vars, ghost_vars
<1>1. ASSUME BeginPut(h) PROVE Keeps
  <2> USE <1>1
  <2>1. req[h].pc = "begin_put" /\ req[h].v \in Versions
    BY Zenon, Holds DEF Held, BeginPut, At
  <2>2. txn_state[t] = NoRecord /\ wal[t].status = "none"
    BY Zenon, <1>0, <2>1 DEF TInv, ControlOK, BeginOK, BeginPcs, HasStatus
  <2>3. NewActive(req[h].v) \in TxnStateRecord
    BY <2>1, MaxVersionAssumption DEF NewActive, TxnStateRecord, TxnStatus, Versions
  <2>4. txn_state'[t] = NewActive(req[h].v)
    BY Zenon, <1>0, <2>3, PutTxnStateSpec DEF BeginPut
  <2>5. req'[h].t = t /\ req'[h].pc = "begin_wal"
    <3>1. "begin_wal" \in Pcs
      BY DEF Pcs, BeginPcs
    <3> QED BY Zenon, <1>0, <3>1, GotoSpec DEF BeginPut, RequestBecomes
  <2>6. /\ NewActive(req[h].v).status = "Active" /\ NewActive(req[h].v).alloc = 0
        /\ "begin_wal" \in ActivePcs /\ NewActive(req[h].v) # NoRecord
    BY Zenon, <1>0, <2>3 DEF NewActive, ActivePcs
  <2> QED BY ZenonT(60), <1>q, <2>2, <2>4, <2>5, <2>6, ActivePut
<1>2. ASSUME BeginDelete(h) PROVE Keeps
  <2> USE <1>2
  <2>1. req[h].pc = "begin_delete"
    BY Zenon DEF BeginDelete, At
  <2>2. HasStatus(t, {"Active"})
    BY <1>0, <2>1 DEF HandlerOK, ActivePcs
  <2>3. txn_state'[t] = NoRecord /\ req'[h] = Idle
    BY Zenon, <1>0, DeleteTxnStateSpec, DoneSpec DEF BeginDelete
  <2>4. published[t] = 0 /\ ~ Finished(t) /\ StillHeld(h, t)
    BY ZenonT(60), <1>0, <2>2, <2>3 DEF TxnOK, Finished, HasStatus, StillHeld
  <2>5. TxnOK(t)'
    BY <1>q, <2>3, <2>4 DEF TxnOK, HasStatus, SameButRecord, SameChains
  <2> QED BY ZenonT(60), <1>q, <2>3, <2>4, <2>5, IdleOK, RecordPut DEF SameButRecord
<1>3. ASSUME StageKeys(h) \/ ReadKeys(h) \/ HeartbeatPut(h) PROVE Keeps
  <2> USE <1>3
  <2>1. /\ req[h].pc \in {"stage_keys", "read_keys", "heartbeat_put"}
        /\ req[h].rec \in TxnStateRecord
        /\ req[h].pc # "heartbeat_put" => req[h].k \in Keys
    BY Zenon, Holds DEF Held, StageKeys, ReadKeys, HeartbeatPut, At
  <2>2. /\ txn_state[t] = req[h].rec /\ req[h].rec.status = "Active"
        /\ HasStatus(t, {"Active"})
    BY Zenon, <1>0, <2>1 DEF HandlerOK, CopyPcs, HasStatus
  <2>3. \E new \in TxnStateRecord :
          /\ txn_state'[t] = new /\ new.status = "Active"
          /\ new.alloc = req[h].rec.alloc
          /\ req[h].rec.write_keys \subseteq new.write_keys
    <3>1. CASE StageKeys(h)
      <4> DEFINE new == [req[h].rec EXCEPT !.write_keys = @ \cup {req[h].k}]
      <4>1. new \in TxnStateRecord /\ new.status = "Active"
            /\ new.alloc = req[h].rec.alloc
            /\ req[h].rec.write_keys \subseteq new.write_keys
        BY Zenon, <2>1, <2>2, <3>1 DEF TxnStateRecord, StageKeys, At
      <4>2. txn_state'[t] = new
        BY Zenon, <1>0, <3>1, <4>1, PutTxnStateSpec DEF StageKeys
      <4> QED BY Zenon, <4>1, <4>2
    <3>2. CASE ReadKeys(h)
      <4> DEFINE new == [req[h].rec EXCEPT !.read_keys = @ \cup {req[h].k}]
      <4>1. new \in TxnStateRecord /\ new.status = "Active"
            /\ new.alloc = req[h].rec.alloc
            /\ req[h].rec.write_keys \subseteq new.write_keys
        BY Zenon, <2>1, <2>2, <3>2 DEF TxnStateRecord, ReadKeys, At
      <4>2. txn_state'[t] = new
        BY ZenonT(60), <1>0, <3>2, <4>1, PutTxnStateSpec DEF ReadKeys
      <4> QED BY Zenon, <4>1, <4>2
    <3>3. CASE HeartbeatPut(h)
      <4>1. txn_state'[t] = req[h].rec
        BY Zenon, <1>0, <2>1, <3>3, PutTxnStateSpec DEF HeartbeatPut
      <4> QED BY Zenon, <2>1, <2>2, <4>1
    <3> QED BY Zenon, <3>1, <3>2, <3>3
  <2>4. req'[h] = Idle \/ (req'[h].t = t /\ req'[h].pc \in ActivePcs)
    <3>1. "stage_lock" \in Pcs /\ "stage_lock" \in ActivePcs
      BY DEF Pcs, StagePcs, ActivePcs
    <3> QED BY Zenon, <1>0, <3>1, GotoSpec, DoneSpec
            DEF StageKeys, ReadKeys, HeartbeatPut, RequestBecomes
  <2>5. PICK new \in TxnStateRecord :
          /\ txn_state'[t] = new /\ new.status = "Active"
          /\ new.alloc = req[h].rec.alloc
          /\ req[h].rec.write_keys \subseteq new.write_keys
    BY Zenon, <2>3
  <2>6. new # NoRecord /\ (new.alloc # 0 => new.write_keys # {})
    BY <1>0, <2>2, <2>5 DEF TxnOK, HasStatus
  <2> QED BY ZenonT(60), <1>q, <2>2, <2>4, <2>5, <2>6, ActivePut
<1> QED BY Zenon, <1>1, <1>2, <1>3

-----------------------------------------------------------------------------
(***************************************************************************)
(* The holder of the Committing record puts it with its outcome: Aborted   *)
(* before its entries are in the chains, Committed after.                  *)
(***************************************************************************)
LEMMA OutcomePut ==
  ASSUME TInv, OInv, NEW h \in Handlers, NEW t \in TxnIds, Works(h, t),
         SameButRecord, SameCopy(h), NEW s,
         txn_state'[t] = [req[h].rec EXCEPT !.status = s],
         \/ /\ s = "Aborted" /\ req[h].pc \in UnpublishedPcs
            /\ req'[h].pc \in AbortedPcs
         \/ /\ s = "Committed" /\ req[h].pc \in PublishedPcs
            /\ req'[h].pc = "published_unpin"
         \/ /\ s = "Committed" /\ req[h].pc = "committed_put"
            /\ req'[h].pc = "memtable"
  PROVE  Keeps
<1>0. /\ HandlerOK(h) /\ TxnOK(t) /\ req[h].t = t /\ req'[h].t = t
      /\ NoRecord \notin TxnStateRecord
  BY Zenon, CoordinatorAssumption DEF OInv, Works, SameCopy
<1>1. req[h].pc \in UnpublishedPcs \cup PublishedPcs /\ req[h].rec \in TxnStateRecord
  BY ZenonT(60), Holds DEF Held, UnpublishedPcs, PublishedPcs
<1>2. txn_state[t] = req[h].rec /\ req[h].rec.status = "Committing"
  BY Zenon, <1>0, <1>1 DEF HandlerOK
<1>3. /\ txn_state'[t] # NoRecord /\ txn_state'[t].status = s
      /\ txn_state'[t].write_keys = txn_state[t].write_keys
      /\ txn_state'[t].snapshot = txn_state[t].snapshot
      /\ txn_state'[t].alloc = txn_state[t].alloc
      /\ s \in {"Committed", "Aborted"}
  <2>1. s \in {"Committed", "Aborted"}
    BY Zenon
  <2> QED BY ZenonT(60), <1>0, <1>1, <1>2, <2>1 DEF TxnStateRecord, TxnStatus
<1>4. published[t] = IF s = "Committed" THEN txn_state[t].alloc ELSE 0
  BY ZenonT(60), <1>0, <1>2 DEF HandlerOK, PublishedPcs
<1>5. TxnOK(t)'
  BY ZenonT(60), <1>0, <1>1, <1>2, <1>3, <1>4 DEF TxnOK, HasStatus, SameButRecord, SameChains
<1>6. ~ Finished(t) /\ StillHeld(h, t)
  BY <1>2, <1>3 DEF Finished, HasStatus, StillHeld
<1>7. HandlerOK(h)' /\ FreshOK(h)'
  <2>1. CASE req'[h].pc \in AbortedPcs /\ s = "Aborted"
    BY ZenonT(60), <1>0, <1>3, <2>1
       DEF HandlerOK, FreshOK, HasStatus, CopyPcs, ActivePcs, UnpublishedPcs,
           PublishedPcs, CommittedPcs, AbortedPcs, AppendPcs, AbortPcs, VersionPcs,
           AllocatedPcs, LoggedPcs
  <2>2. CASE req'[h].pc = "published_unpin" /\ s = "Committed"
    BY ZenonT(60), <1>0, <1>3, <2>2
       DEF HandlerOK, FreshOK, HasStatus, CopyPcs, ActivePcs, UnpublishedPcs,
           PublishedPcs, CommittedPcs, AbortedPcs, AppendPcs, AbortPcs, VersionPcs,
           AllocatedPcs, LoggedPcs
  <2>3. CASE req[h].pc = "committed_put" /\ req'[h].pc = "memtable" /\ s = "Committed"
    <3> USE <2>3
    <3>1. /\ IF req[h].rec.write_keys = {} THEN req[h].v = req[h].rec.snapshot
             ELSE req[h].v # 0
          /\ req[h].rec.alloc = AllocOf(h)
      BY <1>0 DEF HandlerOK, VersionPcs, AllocatedPcs
    <3>2. AllocOf(h)' = AllocOf(h)
      BY Zenon DEF AllocOf, SameCopy
    <3> QED BY ZenonT(60), <1>0, <3>1, <3>2
            DEF HandlerOK, FreshOK, HasStatus, CopyPcs, ActivePcs, UnpublishedPcs,
                PublishedPcs, CommittedPcs, AbortedPcs, AppendPcs, AbortPcs,
                VersionPcs, AllocatedPcs, LoggedPcs, SameCopy
  <2> QED BY <2>1, <2>2, <2>3
<1>8. txn_state[t] # NoRecord
  BY ZenonT(60), <1>0, <1>1, <1>2
<1> QED BY ZenonT(60), <1>3, <1>5, <1>6, <1>7, <1>8, RecordPut DEF SameButRecord

(***************************************************************************)
(* The outcome is put by the SSI and the snapshot conflict, by the commit  *)
(* that logged Committed, and by the repair of a failed commit.            *)
(***************************************************************************)
LEMMA OutcomeSteps ==
  ASSUME TInv, OInv, NEW h \in Handlers, NEW t \in TxnIds, Works(h, t)
  PROVE  /\ SsiPut(h) \/ ConflictPut(h) \/ UnpublishedPut(h) => Keeps
         /\ CommittedPut(h) \/ PublishedPut(h) => Keeps
<1>0. /\ req \in [Handlers -> Requests] /\ req[h].t = t /\ TxnStoreTypeOK
  BY Zenon DEF TInv, TypeOK, Works
<1>g. ASSUME NEW q \in Pcs, Goto(h, q)
      PROVE  SameCopy(h) /\ req'[h].pc = q
  BY ZenonT(60), <1>0, <1>g, GotoSpec DEF RequestBecomes, SameCopy
<1>p. ASSUME NEW s \in TxnStatus, PutTxnState(t, [req[h].rec EXCEPT !.status = s]),
             req[h].pc \in UnpublishedPcs \cup PublishedPcs
      PROVE  txn_state'[t] = [req[h].rec EXCEPT !.status = s]
  <2>1. req[h].rec \in TxnStateRecord
    BY Zenon, <1>p, Holds DEF Held, UnpublishedPcs, PublishedPcs
  <2>2. [req[h].rec EXCEPT !.status = s] \in TxnStateRecord
    BY ZenonT(60), <2>1, WithStatus
  <2> QED BY ZenonT(60), <1>0, <1>p, <2>2, PutTxnStateSpec
<1>q. SsiPut(h) \/ ConflictPut(h) \/ UnpublishedPut(h) \/ CommittedPut(h)
      \/ PublishedPut(h) => SameButRecord
  BY Zenon DEF SsiPut, ConflictPut, UnpublishedPut, CommittedPut, PublishedPut,
               SameButRecord, SameChains, store_vars, env_vars, ghost_vars
<1>s. "Aborted" \in TxnStatus /\ "Committed" \in TxnStatus
  BY DEF TxnStatus
<1>1. ASSUME SsiPut(h) \/ ConflictPut(h) \/ UnpublishedPut(h) PROVE Keeps
  <2> USE <1>1
  <2>1. PICK q \in {"ssi_unpin", "conflict_unpin", "unpublished_unpin"} : Goto(h, q)
    BY Zenon DEF SsiPut, ConflictPut, UnpublishedPut
  <2>2. PutTxnState(t, [req[h].rec EXCEPT !.status = "Aborted"])
    BY ZenonT(60), <1>0 DEF SsiPut, ConflictPut, UnpublishedPut
  <2>3. req[h].pc \in UnpublishedPcs
    BY DEF SsiPut, ConflictPut, UnpublishedPut, At, UnpublishedPcs
  <2>4. q \in Pcs /\ q \in AbortedPcs
    BY DEF Pcs, CommitPcs, RepairPcs, AbortedPcs
  <2>5. txn_state'[t] = [req[h].rec EXCEPT !.status = "Aborted"]
    BY ZenonT(60), <1>p, <1>s, <2>2, <2>3
  <2> QED BY ZenonT(60), <1>g, <1>q, <2>1, <2>3, <2>4, <2>5, OutcomePut
<1>2. ASSUME CommittedPut(h) \/ PublishedPut(h) PROVE Keeps
  <2> USE <1>2
  <2>1. PICK q \in {"memtable", "published_unpin"} :
          /\ Goto(h, q)
          /\ q = "memtable" => req[h].pc = "committed_put"
    BY Zenon DEF CommittedPut, PublishedPut, At
  <2>2. PutTxnState(t, [req[h].rec EXCEPT !.status = "Committed"])
    BY Zenon, <1>0 DEF CommittedPut, PublishedPut
  <2>3. req[h].pc \in PublishedPcs
    BY DEF CommittedPut, PublishedPut, At, PublishedPcs
  <2>4. q \in Pcs
    BY DEF Pcs, CommitPcs, RepairPcs
  <2>5. txn_state'[t] = [req[h].rec EXCEPT !.status = "Committed"]
    BY ZenonT(60), <1>p, <1>s, <2>2, <2>3
  <2>6. SameCopy(h) /\ req'[h].pc = q
    BY ZenonT(60), <1>g, <2>1, <2>4
  <2>7. SameButRecord
    BY Zenon, <1>q
  <2> QED BY <2>1, <2>3, <2>5, <2>6, <2>7, OutcomePut
<1> QED BY ZenonT(60), <1>1, <1>2

(***************************************************************************)
(* A commit answers with a refusal after it put Aborted, with its version  *)
(* after it put Committed: the answer a repeated commit reads from the     *)
(* record.                                                                 *)
(***************************************************************************)
LEMMA AnswerSteps ==
  ASSUME TInv, OInv, NEW h \in Handlers, NEW t \in TxnIds, Works(h, t)
  PROVE  ConflictUnpin(h) \/ CommitUnpin(h) => Keeps
<1>0. /\ req \in [Handlers -> Requests] /\ HandlerOK(h) /\ req[h].t = t
      /\ AnswersOK(t) /\ answers \in [TxnIds -> SUBSET (Versions \cup {Refused})]
  BY Zenon DEF TInv, TypeOK, OInv, Works
<1>1. ASSUME NEW a, Answer(t, a), Releases(h),
             UNCHANGED <<txn_state, wal, global_version>>, SameChains,
             \/ a = Refused /\ HasStatus(t, {"Aborted"})
             \/ HasStatus(t, {"Committed"}) /\ a = CommitVersionOf(txn_state[t])
      PROVE  Keeps
  <2> USE <1>1
  <2>1. answers'[t] = answers[t] \cup {a} /\ SameAnswers(t)
    BY Zenon, <1>0 DEF Answer, SameAnswers
  <2>2. AnswersOK(t)'
    BY Zenon, <1>0, <2>1 DEF AnswersOK, HasStatus
  <2>3. req'[h] = Idle /\ ~ HasStatus(t, {"Committing"})
    BY Zenon, <1>0, DoneSpec DEF Releases, HasStatus
  <2> QED BY ZenonT(60), <2>1, <2>2, <2>3, RequestEnds
<1>q. ConflictUnpin(h) \/ CommitUnpin(h) =>
        Releases(h) /\ UNCHANGED <<txn_state, wal, global_version>> /\ SameChains
  BY Zenon DEF ConflictUnpin, CommitUnpin, SameChains, mvcc_vars, txn_vars, env_vars
<1>2. ASSUME ConflictUnpin(h) PROVE Keeps
  <2>1. HasStatus(t, {"Aborted"}) /\ Answer(t, Refused)
    BY Zenon, <1>0, <1>2 DEF ConflictUnpin, At, HandlerOK, AbortedPcs
  <2> QED BY ZenonT(60), <1>1, <1>2, <1>q, <2>1
<1>3. ASSUME CommitUnpin(h) PROVE Keeps
  <2> USE <1>3
  <2>1. req[h].pc = "hook" /\ Answer(t, req[h].v) /\ req[h].rec \in TxnStateRecord
    BY Zenon, <1>0, Holds DEF Held, CommitUnpin, At
  <2>2. /\ txn_state[t] = [req[h].rec EXCEPT !.status = "Committed"]
        /\ req[h].rec.alloc = AllocOf(h)
        /\ IF req[h].rec.write_keys = {} THEN req[h].v = req[h].rec.snapshot
           ELSE req[h].v # 0
    BY Zenon, <1>0, <2>1 DEF HandlerOK, CommittedPcs, VersionPcs, AllocatedPcs
  <2>3. /\ txn_state[t] \in TxnStateRecord /\ txn_state[t].status = "Committed"
        /\ txn_state[t].alloc = AllocOf(h)
        /\ txn_state[t].snapshot = req[h].rec.snapshot
    BY Zenon, <2>1, <2>2 DEF TxnStateRecord, TxnStatus
  <2>4. HasStatus(t, {"Committed"})
    BY Zenon, <2>3, CoordinatorAssumption DEF HasStatus
  <2>5. req[h].v = CommitVersionOf(txn_state[t])
    BY Zenon, <2>2, <2>3 DEF CommitVersionOf, AllocOf
  <2> QED BY ZenonT(60), <1>1, <1>q, <2>1, <2>4, <2>5
<1> QED BY Zenon, <1>2, <1>3

-----------------------------------------------------------------------------
(***************************************************************************)
(* The allocated version goes into the record before the append: no other  *)
(* record and no entry carries it.                                         *)
(***************************************************************************)
LEMMA AllocPutStep ==
  ASSUME TInv, OInv, NEW h \in Handlers, NEW t \in TxnIds, Works(h, t), AllocPut(h)
  PROVE  Keeps
<1>0. /\ req \in [Handlers -> Requests] /\ req[h].t = t /\ TxnStoreTypeOK
      /\ HandlerOK(h) /\ FreshOK(h) /\ TxnOK(t) /\ AnswersOK(t)
      /\ NoRecord \notin TxnStateRecord
  BY Zenon, CoordinatorAssumption DEF OInv, TInv, TypeOK, Works
<1>1. /\ req[h].pc = "alloc_put" /\ req[h].rec \in TxnStateRecord
      /\ req[h].v \in Versions
  BY Zenon, Holds DEF Held, AllocPut, At
<1>2. /\ txn_state[t] = req[h].rec /\ req[h].rec.status = "Committing"
      /\ published[t] = 0
      /\ IF req[h].rec.write_keys = {} THEN req[h].v = req[h].rec.snapshot
         ELSE req[h].v # 0
      /\ wal[t] = [status |-> "Committing", keys |-> req[h].rec.write_keys]
  BY Zenon, <1>0, <1>1 DEF HandlerOK, UnpublishedPcs, VersionPcs, LoggedPcs
<1> DEFINE new == [req[h].rec EXCEPT !.alloc = AllocOf(h)]
<1>3. /\ new \in TxnStateRecord /\ new.status = "Committing"
      /\ new.write_keys = req[h].rec.write_keys
      /\ new.snapshot = req[h].rec.snapshot /\ new.alloc = AllocOf(h)
  <2>1. AllocOf(h) \in Versions
    BY <1>1, MaxVersionAssumption DEF AllocOf, Versions
  <2> QED BY ZenonT(60), <1>1, <1>2, <2>1 DEF TxnStateRecord
<1>4. new # NoRecord /\ txn_state[t] # NoRecord
  BY ZenonT(60), <1>0, <1>1, <1>2, <1>3
<1> HIDE DEF new
<1>5. /\ PutTxnState(t, new) /\ SetPcRec(h, "append", new) /\ SameButRecord
  BY Zenon, <1>0 DEF AllocPut, new, SetPcRec, SameButRecord, SameChains, store_vars,
                     env_vars, ghost_vars
<1>6. txn_state'[t] = new
  BY ZenonT(60), <1>0, <1>3, <1>5, PutTxnStateSpec
<1>7. /\ req'[h].pc = "append" /\ req'[h].t = t /\ req'[h].rec = new
      /\ req'[h].v = req[h].v
  <2>1. "append" \in Pcs
    BY Zenon DEF Pcs, CommitPcs
  <2>2. SetPcRecOK(h)
    BY Zenon, <1>0, RequestWrites
  <2> QED BY ZenonT(60), <1>0, <1>3, <1>5, <2>1, <2>2 DEF SetPcRecOK, RequestBecomes
<1>8. AllocOf(h)' = AllocOf(h) /\ (AllocOf(h) # 0 => new.write_keys # {})
  BY Zenon, <1>3, <1>7 DEF AllocOf
<1>9. HandlerOK(h)'
  BY ZenonT(60), <1>2, <1>3, <1>5, <1>6, <1>7, <1>8
     DEF HandlerOK, SameButRecord, SameChains, CopyPcs, ActivePcs, UnpublishedPcs,
         PublishedPcs, CommittedPcs, AbortedPcs, AbortPcs, VersionPcs, AllocatedPcs,
         LoggedPcs
<1>10. req[h].rec.write_keys # {} =>
         /\ req[h].v <= global_version
         /\ \A u \in TxnIds :
              /\ published[u] < req[h].v
              /\ u # t /\ txn_state[u] # NoRecord => txn_state[u].alloc < req[h].v
  BY Zenon, <1>0, <1>1 DEF FreshOK, AppendPcs
<1>11. FreshOK(h)'
  <2>1. \A u \in TxnIds \ {t} : txn_state'[u] = txn_state[u]
    BY ZenonT(60), <1>0, <1>3, <1>5, PutTxnStateSpec
  <2> QED BY Zenon, <1>3, <1>5, <1>7, <1>10, <2>1 DEF FreshOK, SameButRecord, SameChains
<1>12. TxnOK(t)'
  BY <1>2, <1>3, <1>4, <1>5, <1>6, <1>8 DEF TxnOK, HasStatus, SameButRecord, SameChains
<1>13. AnswersOK(t)'
  BY ZenonT(60), <1>0, <1>2, <1>5 DEF AnswersOK, HasStatus, SameButRecord
<1>14. AllocOK(t)'
  <2>1. global_version \in Nat /\ \A u \in TxnIds : published[u] \in Nat
    BY Zenon, Numbers DEF TInv
  <2>2. req[h].v \in Nat
    BY ZenonT(60), Numbers DEF TInv
  <2>3. /\ AllocOf(h) <= global_version
        /\ \A u \in TxnIds : AllocOf(h) # 0 => AllocOf(h) # published[u]
    <3>1. CASE AllocOf(h) = 0
      <4>1. 0 <= global_version
        BY <2>1
      <4> QED BY ZenonT(60), <3>1, <4>1
    <3>2. CASE AllocOf(h) # 0
      <4>1. /\ req[h].rec.write_keys # {} /\ AllocOf(h) = req[h].v
            /\ req[h].v <= global_version
            /\ \A u \in TxnIds : published[u] < req[h].v
        BY ZenonT(60), <1>10, <3>2 DEF AllocOf
      <4>2. ASSUME NEW u \in TxnIds PROVE req[h].v # published[u]
        <5>1. published[u] < req[h].v /\ published[u] \in Nat
          BY ZenonT(60), <2>1, <4>1
        <5> QED BY <2>2, <5>1
      <4> QED BY ZenonT(60), <4>1, <4>2
    <3> QED BY ZenonT(60), <3>1, <3>2
  <2> QED BY ZenonT(60), <1>3, <1>5, <1>6, <2>3 DEF AllocOK, SameButRecord, SameChains
<1>15. RecordKept(h, t) /\ StillHeld(h, t)
  BY ZenonT(60), <1>1, <1>2, <1>4, <1>6, <1>7
     DEF RecordKept, StillHeld, Finished, HasStatus, LockedPcs, CommitPcs
<1>16. LocalOK(h, t)
  BY ZenonT(60), <1>9, <1>11, <1>12, <1>13, <1>14, <1>15 DEF LocalOK, StillHeld
<1>17. global_version' >= global_version
  BY ZenonT(60), <1>5, Numbers DEF TInv, SameButRecord
<1> QED BY ZenonT(60), <1>5, <1>16, <1>17, WorkKeeps DEF SameButRecord, SameAnswers

-----------------------------------------------------------------------------
(* What a commit with writes does when its append succeeds.                *)
Publishes(h, t) ==
  LET keys == req[h].rec.write_keys
      v    == req[h].v
  IN  /\ keys # {} /\ keys \in SUBSET Keys /\ v \in Nat /\ v # 0
      /\ txn_state[t] = req[h].rec /\ HasStatus(t, {"Committing"})
      /\ req[h].rec.alloc = v /\ published[t] = 0
      /\ wal[t] = [status |-> "Committing", keys |-> keys]
      /\ \A k \in keys : ~ SnapshotConflict(version_chains[k], req[h].rec.snapshot)
      /\ published' = [published EXCEPT ![t] = v]
      /\ \A k \in Keys \ keys : version_chains'[k] = version_chains[k]
      /\ \A k \in keys : Extends(version_chains'[k], version_chains[k],
                                 [cv |-> v, txn |-> t])
      /\ req[h].pc = "append" /\ req'[h].pc = "versions" /\ SameCopy(h)
      /\ \A g \in Handlers \ {h} : req'[g] = req[g]
      /\ UNCHANGED <<txn_state, wal, answers, global_version, sweeper, recovery,
                     crashes>>

(* The version is newer than any other (FreshOK, for the handler itself).  *)
Newest(h, t) ==
  /\ req[h].v <= global_version
  /\ \A u \in TxnIds :
       /\ published[u] < req[h].v
       /\ u # t /\ txn_state[u] # NoRecord => txn_state[u].alloc < req[h].v

(***************************************************************************)
(* The published entries: what is in the chains is what the transactions   *)
(* published, at versions of their own, newest last, and the first         *)
(* committer of a key wins.                                                *)
(***************************************************************************)
LEMMA PublishChains ==
  ASSUME TInv, OInv, NEW h \in Handlers, NEW t \in TxnIds, Publishes(h, t),
         Newest(h, t)
  PROVE  ChainsOK' /\ VersionsOK' /\ LatestOK' /\ FirstCommitterWins'
<1> DEFINE keys == req[h].rec.write_keys
           v == req[h].v
<1>0. /\ global_version \in Nat /\ v \in Nat /\ v # 0
      /\ \A u \in TxnIds : published[u] \in Nat
      /\ \A u \in TxnIds : txn_state[u] # NoRecord =>
           txn_state[u].alloc \in Nat /\ txn_state[u].snapshot \in Nat
      /\ published \in [TxnIds -> Versions] /\ published[t] = 0
      /\ keys \in SUBSET Keys /\ WriteKeys(t) = keys /\ txn_state[t] = req[h].rec
      /\ version_chains \in [Keys -> Seq(Entries)]
  BY ZenonT(60), Numbers DEF TInv, TypeOK, StoreTypeOK, Publishes, WriteKeys, HasStatus
<1>1. /\ published'[t] = v
      /\ \A u \in TxnIds \ {t} : published'[u] = published[u]
      /\ \A u \in TxnIds : WriteKeys(u)' = WriteKeys(u)
      /\ UNCHANGED <<txn_state, global_version>>
  BY Zenon, <1>0 DEF Publishes, WriteKeys
<1>2. /\ v <= global_version
      /\ \A u \in TxnIds :
           /\ published[u] < v
           /\ u # t /\ txn_state[u] # NoRecord => txn_state[u].alloc < v
  BY DEF Newest
<1>3. ChainsOK'
  <2> SUFFICES ASSUME NEW k \in Keys, NEW e \in EntriesOf(version_chains'[k])
               PROVE  e.cv # 0 /\ published'[e.txn] = e.cv
    BY Zenon DEF ChainsOK
  <2>1. CASE e = [cv |-> v, txn |-> t]
    BY ZenonT(60), <1>0, <1>1, <2>1
  <2>2. CASE e \in EntriesOf(version_chains[k])
    <3>1. e.cv # 0 /\ published[e.txn] = e.cv
      BY Zenon, <2>2 DEF OInv, ChainsOK
    <3>2. e \in Entries
      BY ZenonT(60), <1>0, <2>2, EntriesOfType
    <3>3. e.txn \in TxnIds \ {t}
      BY ZenonT(60), <1>0, <3>1, <3>2 DEF Entries
    <3> QED BY ZenonT(60), <1>1, <3>1, <3>3
  <2>3. CASE k \in keys
    <3>1. EntriesOf(version_chains'[k]) =
            EntriesOf(version_chains[k]) \cup {[cv |-> v, txn |-> t]}
      BY Zenon, <2>3 DEF Publishes, Extends
    <3> QED BY ZenonT(60), <2>1, <2>2, <3>1
  <2>4. CASE k \notin keys
    <3>1. version_chains'[k] = version_chains[k]
      BY Zenon, <2>4 DEF Publishes
    <3> QED BY ZenonT(60), <2>2, <3>1
  <2> QED BY Zenon, <2>3, <2>4
<1>4. VersionsOK'
  <2> SUFFICES ASSUME NEW u \in TxnIds
               PROVE  published'[u] <= global_version' /\ AllocOK(u)'
    BY DEF VersionsOK
  <2>1. published[u] <= global_version /\ AllocOK(u)
    BY Zenon DEF OInv, VersionsOK
  <2>2. published'[u] <= global_version'
    BY ZenonT(60), <1>1, <1>2, <2>1
  <2>3. AllocOK(u)'
    <3> SUFFICES ASSUME txn_state[u] # NoRecord, NEW w \in TxnIds \ {u},
                        txn_state[u].alloc # 0
                 PROVE  txn_state[u].alloc # published'[w]
      BY ZenonT(60), <1>1, <2>1 DEF AllocOK
    <3>1. CASE w = t
      <4>1. /\ published'[w] = v /\ v \in Nat /\ txn_state[u].alloc \in Nat
            /\ txn_state[u].alloc < v
        BY ZenonT(60), <1>0, <1>1, <1>2, <3>1
      <4> QED BY <4>1
    <3>2. CASE w # t
      BY ZenonT(60), <1>1, <2>1, <3>2 DEF AllocOK
    <3> QED BY Zenon, <3>1, <3>2
  <2> QED BY ZenonT(60), <2>2, <2>3
<1>5. LatestOK'
  <2> SUFFICES ASSUME NEW u \in TxnIds, published'[u] # 0, NEW k \in WriteKeys(u)
               PROVE  /\ version_chains'[k] # <<>>
                      /\ published'[u] <= LatestCommitVersion(version_chains'[k])
    BY Zenon, <1>1 DEF LatestOK
  <2>1. k \in Keys
    BY Zenon DEF WriteKeys, TInv, TypeOK, TxnStoreTypeOK, TxnStateRecord
  <2>2. CASE k \in keys
    <3>1. version_chains'[k] # <<>> /\ LatestCommitVersion(version_chains'[k]) = v
      BY Zenon, <2>2 DEF Publishes, Extends
    <3>2. published'[u] <= v
      <4>1. CASE u = t
        <5>1. published'[u] = v /\ v \in Nat
          BY ZenonT(60), <1>0, <1>1, <4>1
        <5> QED BY <5>1
      <4>2. CASE u # t
        <5>1. /\ published'[u] = published[u] /\ published[u] < v
              /\ published[u] \in Nat /\ v \in Nat
          BY ZenonT(60), <1>0, <1>1, <1>2, <4>2
        <5> QED BY <5>1
      <4> QED BY Zenon, <4>1, <4>2
    <3> QED BY Zenon, <3>1, <3>2
  <2>3. CASE k \notin keys
    <3>1. u # t /\ version_chains'[k] = version_chains[k]
      BY ZenonT(60), <1>0, <2>1, <2>3 DEF Publishes
    <3>2. published'[u] = published[u]
      BY Zenon, <1>1, <3>1
    <3> QED BY Zenon, <3>1, <3>2 DEF OInv, LatestOK
  <2> QED BY Zenon, <2>2, <2>3
<1>6. FirstCommitterWins'
  <2> SUFFICES ASSUME NEW a \in TxnIds, NEW b \in TxnIds, published'[a] # 0,
                      published'[a] < published'[b],
                      NEW k \in WriteKeys(a) \cap WriteKeys(b)
               PROVE  txn_state[b].snapshot >= published'[a]
    BY Zenon, <1>1 DEF FirstCommitterWins
  <2>1. CASE a = t
    <3>1. published'[a] = v /\ v \in Nat
      BY Zenon, <1>0, <1>1, <2>1
    <3>2. b = t \/ (published'[b] = published[b] /\ published[b] < v /\ published[b] \in Nat)
      BY ZenonT(60), <1>0, <1>1, <1>2
    <3>3. published'[b] = v \/ (published'[b] < v /\ published'[b] \in Nat)
      BY ZenonT(60), <1>1, <3>2
    <3>4. ~ (published'[a] < published'[b])
      BY <3>1, <3>3
    <3> QED BY Zenon, <3>4
  <2>2. CASE a # t /\ b = t
    <3> USE <2>2
    <3>1. published'[a] = published[a] /\ k \in keys
      BY Zenon, <1>0, <1>1
    <3>2. version_chains[k] # <<>> /\ published[a] <= LatestCommitVersion(version_chains[k])
      BY Zenon, <3>1 DEF OInv, LatestOK
    <3>3. ~ LatestCommitVersion(version_chains[k]) > req[h].rec.snapshot
      BY ZenonT(60), <3>1, <3>2 DEF Publishes, SnapshotConflict
    <3>4. LatestCommitVersion(version_chains[k]) \in Nat
      <4>1. version_chains[k] \in Seq(Entries)
        BY ZenonT(60), <1>0, <3>1
      <4> QED BY ZenonT(60), <3>2, <4>1, NewestIsEntry, EntriesHaveVersions
    <3>5. req[h].rec.snapshot \in Nat
      BY Zenon, <1>0 DEF Publishes, HasStatus
    <3>6. published[a] \in Nat
      BY ZenonT(60), <1>0
    <3>7. published[a] <= req[h].rec.snapshot
      BY <3>2, <3>3, <3>4, <3>5, <3>6
    <3>8. req[h].rec.snapshot >= published[a]
      BY ZenonT(60), <3>5, <3>6, <3>7
    <3> QED BY ZenonT(60), <1>0, <3>1, <3>8
  <2>3. CASE a # t /\ b # t
    <3>1. published'[a] = published[a] /\ published'[b] = published[b]
      BY ZenonT(60), <1>1, <2>3
    <3> QED BY Zenon, <3>1 DEF OInv, FirstCommitterWins
  <2> QED BY ZenonT(60), <2>1, <2>2, <2>3
<1> QED BY ZenonT(60), <1>3, <1>4, <1>5, <1>6

(***************************************************************************)
(* The other transactions and handlers see none of it: only the holder of  *)
(* commit_lock relies on what is newest in the chains.                     *)
(***************************************************************************)
LEMMA PublishKeeps ==
  ASSUME TInv, OInv, NEW h \in Handlers, NEW t \in TxnIds, Works(h, t),
         Publishes(h, t), Newest(h, t)
  PROVE  Keeps
<1> DEFINE keys == req[h].rec.write_keys
           v == req[h].v
<1>0. /\ req[h].t = t /\ HandlerOK(h) /\ TxnOK(t) /\ NoTxn \notin TxnIds
      /\ \A g \in Handlers : RequestOK(g) /\ HandlerOK(g) /\ FreshOK(g)
      /\ published \in [TxnIds -> Versions]
      /\ keys \in SUBSET Keys /\ v # 0 /\ txn_state[t] = req[h].rec
      /\ req[h].rec.alloc = v
  BY ZenonT(60), CoordinatorAssumption DEF OInv, TInv, ControlOK, TypeOK, Works, Publishes
<1>1. /\ published'[t] = v
      /\ \A u \in TxnIds \ {t} : published'[u] = published[u]
  BY Zenon, <1>0 DEF Publishes
<1>2. /\ UNCHANGED <<txn_state, wal, answers, global_version, sweeper, recovery, crashes>>
      /\ \A g \in Handlers : req'[g].t = req[g].t
      /\ \A g \in Handlers \ {h} : req'[g] = req[g]
      /\ req[h].pc = "append" /\ req'[h].pc = "versions"
      /\ req'[h].rec = req[h].rec /\ req'[h].v = v
  BY Zenon DEF Publishes, SameCopy
<1>3. recovery.pc = "off" /\ commit_lock = h
  BY ZenonT(60), <1>0, <1>2 DEF RequestOK, LockedPcs, CommitPcs
<1>4. \A g \in Handlers \ {h} : req[g].pc \notin LockedPcs /\ req[g].t # t
  BY Zenon, <1>0, <1>3 DEF RequestOK, OInv, Exclusive
<1>5. Exclusive' /\ RecoveringOK' /\ SweepingOK'
  <2>1. Exclusive'
    BY ZenonT(60), <1>2 DEF OInv, Exclusive
  <2>2. RecoveringOK'
    BY Zenon, <1>2, <1>3 DEF RecoveringOK
  <2>3. SweepingOK'
    BY Zenon, <1>2 DEF OInv, SweepingOK, HasStatus
  <2> QED BY ZenonT(60), <2>1, <2>2, <2>3
<1>6. EntriesOnTop(t)'
  <2>1. \A k \in keys : /\ version_chains'[k] # <<>>
                        /\ version_chains'[k][Len(version_chains'[k])] =
                             [cv |-> v, txn |-> t]
    BY Zenon DEF Publishes, Extends
  <2>2. txn_state'[t].write_keys = keys /\ txn_state'[t].alloc = v
    BY Zenon, <1>0, <1>2
  <2> QED BY Zenon, <2>1, <2>2 DEF EntriesOnTop
<1>7. HandlerOK(h)' /\ FreshOK(h)'
  <2>1. AllocOf(h)' = v
    BY Zenon, <1>2 DEF AllocOf, Publishes
  <2> QED BY ZenonT(60), <1>0, <1>1, <1>2, <1>6, <2>1
          DEF HandlerOK, FreshOK, HasStatus, Publishes, CopyPcs, ActivePcs,
              UnpublishedPcs, PublishedPcs, CommittedPcs, AbortedPcs, AppendPcs,
              AbortPcs, VersionPcs, AllocatedPcs, LoggedPcs
<1>8. ASSUME NEW g \in Handlers \ {h} PROVE HandlerOK(g)' /\ FreshOK(g)'
  <2>1. /\ req'[g] = req[g] /\ HandlerOK(g) /\ req[g].t # t
        /\ req[g].pc \notin LockedPcs
    BY ZenonT(60), <1>0, <1>2, <1>4
  <2>2. req[g].pc \notin {"load", "reconcile", "published_unpin"} \cup UnpublishedPcs
          \cup PublishedPcs \cup CommittedPcs \cup AbortedPcs \cup VersionPcs
          \cup AllocatedPcs \cup LoggedPcs \cup AppendPcs
    BY Zenon, <2>1 DEF LockedPcs, CommitPcs, RepairPcs, AbortPcs, UnpublishedPcs, PublishedPcs,
                CommittedPcs, AbortedPcs, VersionPcs, AllocatedPcs, LoggedPcs, AppendPcs
  <2> QED BY ZenonT(60), <1>2, <2>1, <2>2 DEF HandlerOK, FreshOK, HasStatus
<1>9. ASSUME NEW u \in TxnIds PROVE HeldByCommit(u) => HeldByCommit(u)'
  <2>1. "versions" \in LockedPcs
    BY Zenon DEF LockedPcs, CommitPcs
  <2> QED BY Zenon, <1>2, <2>1 DEF HeldByCommit
<1>10. ASSUME NEW u \in TxnIds PROVE TxnOK(u)'
  <2>1. CASE u = t
    <3>1. /\ HasStatus(t, {"Committing"}) /\ keys # {}
          /\ wal[t] = [status |-> "Committing", keys |-> keys]
      BY Zenon DEF Publishes
    <3>2. /\ txn_state[t].status = "Committing" /\ published'[t] = txn_state[t].alloc
          /\ txn_state[t].write_keys = keys
          /\ wal[t].status = "Committing" /\ wal[t].keys = keys
      <4>1. /\ txn_state[t].status = "Committing" /\ published'[t] = txn_state[t].alloc
            /\ txn_state[t].write_keys = keys
        BY ZenonT(60), <1>0, <1>1, <3>1 DEF HasStatus
      <4>2. wal[t].status = "Committing" /\ wal[t].keys = keys
        BY <3>1
      <4> QED BY Zenon, <4>1, <4>2
    <3> QED BY ZenonT(60), <1>2, <1>6, <2>1, <3>1, <3>2 DEF TxnOK, HasStatus
  <2>2. CASE u # t
    <3> USE <2>2
    <3>1. TxnOK(u) /\ DecidedOK(u) /\ published'[u] = published[u]
      BY Zenon, <1>1 DEF OInv
    <3>2. ~ HeldByCommit(u)
      BY ZenonT(60), <1>0, <1>4 DEF HeldByCommit
    <3>3. ~ (HasStatus(u, {"Committing"}) /\ wal[u].status = "Committing")
      BY ZenonT(60), <1>3, <3>1, <3>2 DEF DecidedOK, Undecided
    <3> QED BY ZenonT(60), <1>2, <3>1, <3>3 DEF TxnOK, HasStatus
  <2> QED BY ZenonT(60), <2>1, <2>2
<1>11. ASSUME NEW u \in TxnIds PROVE DecidedOK(u)' /\ AnswersOK(u)'
  <2>1. DecidedOK(u) /\ AnswersOK(u)
    BY Zenon DEF OInv
  <2> QED BY ZenonT(60), <1>2, <1>3, <1>9, <2>1 DEF DecidedOK, Undecided, AnswersOK, HasStatus
<1>12. CommittingHeld'
  BY ZenonT(60), <1>2, <1>9 DEF OInv, CommittingHeld, HasStatus
<1>13. FinishedStep
  BY Zenon, <1>2 DEF FinishedStep, Finished, HasStatus
<1> QED BY ZenonT(60), <1>5, <1>7, <1>8, <1>10, <1>11, <1>12, <1>13, PublishChains DEF OInv, Keeps

(***************************************************************************)
(* append_chain_entries_bulk: all entries or none; a commit without writes *)
(* appends nothing and publishes nothing.                                  *)
(***************************************************************************)
LEMMA AppendStep ==
  ASSUME TInv, OInv, NEW h \in Handlers, NEW t \in TxnIds, Works(h, t),
         CommitAppend(h)
  PROVE  Keeps
<1> DEFINE keys == req[h].rec.write_keys
           entry == [cv |-> req[h].v, txn |-> t]
<1>0. /\ req \in [Handlers -> Requests] /\ req[h].t = t /\ StoreTypeOK
      /\ HandlerOK(h) /\ FreshOK(h) /\ published \in [TxnIds -> Versions]
      /\ version_chains \in [Keys -> Seq(Entries)]
  BY Zenon DEF OInv, TInv, TypeOK, Works, StoreTypeOK
<1>1. /\ req[h].pc = "append" /\ req[h].rec \in TxnStateRecord
      /\ req[h].v \in Versions /\ keys \in SUBSET Keys
  BY ZenonT(60), Holds DEF Held, CommitAppend, At
<1>2. /\ txn_state[t] = req[h].rec /\ req[h].rec.status = "Committing"
      /\ published[t] = 0 /\ req[h].rec.alloc = AllocOf(h)
      /\ IF keys = {} THEN req[h].v = req[h].rec.snapshot ELSE req[h].v # 0
      /\ wal[t] = [status |-> "Committing", keys |-> keys]
  BY <1>0, <1>1 DEF HandlerOK, UnpublishedPcs, VersionPcs, AllocatedPcs, LoggedPcs
<1>3. HasStatus(t, {"Committing"})
  BY ZenonT(60), <1>1, <1>2, CoordinatorAssumption DEF HasStatus
<1>4. UNCHANGED <<txn_state, wal, answers, global_version, sweeper, recovery, crashes>>
  BY Zenon DEF CommitAppend, txn_vars, env_vars
<1>5. CASE Goto(h, "reconcile") /\ UNCHANGED <<version_chains, published>>
  <2> USE <1>5
  <2>1. "reconcile" \in Pcs /\ PcKeeps("append", "reconcile")
    BY Zenon, OutcomePcs DEF Pcs, RepairPcs
  <2>2. SameCopy(h) /\ req'[h].pc = "reconcile"
    BY ZenonT(60), <1>0, <2>1, GotoSpec DEF RequestBecomes, SameCopy
  <2>3. Quiet
    BY <1>4 DEF Quiet, SameChains
  <2> QED BY ZenonT(60), <1>1, <2>1, <2>2, <2>3, QuietMove
<1>6. CASE /\ BulkAppendable(keys, entry, req[h].rec.snapshot)
           /\ AppendChainEntriesBulk(keys, entry)
           /\ published' = [published EXCEPT ![t] = AllocOf(h)]
           /\ Goto(h, "versions")
  <2> USE <1>6
  <2>1. "versions" \in Pcs
    BY Zenon DEF Pcs, CommitPcs
  <2>2. /\ SameCopy(h) /\ req'[h].pc = "versions" /\ req'[h].t = t
        /\ \A g \in Handlers \ {h} : req'[g] = req[g]
    BY ZenonT(60), <1>0, <2>1, GotoSpec DEF RequestBecomes, SameCopy
  <2>3. entry \in Entries
    BY Zenon, <1>1 DEF Entries
  <2>4. /\ version_chains' \in [Keys -> Seq(Entries)]
        /\ \A k \in Keys \ keys : version_chains'[k] = version_chains[k]
        /\ \A k \in keys : Extends(version_chains'[k], version_chains[k], entry)
    BY ZenonT(60), <1>0, <1>1, <2>3, AppendBulkSpec
  <2>5. CASE keys = {}
    <3> USE <2>5
    <3>1. AllocOf(h) = 0 /\ version_chains' = version_chains /\ published' = published
      <4>1. AllocOf(h) = 0
        BY Zenon DEF AllocOf
      <4>2. \A k \in Keys : version_chains'[k] = version_chains[k]
        BY ZenonT(60), <2>4
      <4>3. version_chains' = version_chains
        <5>1. /\ version_chains \in [Keys -> Seq(Entries)]
              /\ version_chains' \in [Keys -> Seq(Entries)]
          BY ZenonT(60), <1>0, <2>4
        <5> QED BY <4>2, <5>1
      <4>4. published' = published
        BY ZenonT(60), <1>0, <1>2, <4>1
      <4> QED BY ZenonT(60), <4>1, <4>3, <4>4
    <3>2. HandlerOK(h)' /\ FreshOK(h)'
      BY ZenonT(60), <1>2, <1>3, <1>4, <2>2, <3>1
         DEF HandlerOK, FreshOK, HasStatus, CopyPcs, ActivePcs, UnpublishedPcs,
             PublishedPcs, CommittedPcs, AbortedPcs, AppendPcs, AbortPcs, VersionPcs,
             AllocatedPcs, LoggedPcs, SameCopy, AllocOf
    <3>3. StillHeld(h, t)
      BY ZenonT(60), <2>2 DEF StillHeld, LockedPcs, CommitPcs
    <3>4. AnswersOK(t)'
      BY ZenonT(60), <1>4 DEF OInv, AnswersOK, HasStatus
    <3>5. global_version' >= global_version
      BY ZenonT(60), <1>4, Numbers DEF TInv
    <3> QED BY ZenonT(60), <1>4, <3>1, <3>2, <3>3, <3>4, <3>5, LogKept DEF SameChains, SameAnswers
  <2>6. CASE keys # {}
    <3> USE <2>6
    <3>1. AllocOf(h) = req[h].v /\ req[h].v \in Nat
      BY ZenonT(60), Numbers DEF AllocOf, TInv
    <3>2. \A k \in keys : ~ SnapshotConflict(version_chains[k], req[h].rec.snapshot)
      BY Zenon DEF BulkAppendable, Appendable
    <3>3. Publishes(h, t)
      BY ZenonT(60), <1>1, <1>2, <1>3, <1>4, <2>2, <2>4, <3>1, <3>2 DEF Publishes
    <3>4. Newest(h, t)
      BY ZenonT(60), <1>0, <1>1 DEF FreshOK, Newest, AppendPcs
    <3> QED BY ZenonT(60), <3>3, <3>4, PublishKeeps
  <2> QED BY ZenonT(60), <2>5, <2>6
<1> QED BY ZenonT(60), <1>0, <1>5, <1>6 DEF CommitAppend

-----------------------------------------------------------------------------
(***************************************************************************)
(* Every step of a request under way keeps the agreement.                  *)
(***************************************************************************)
LEMMA ServeKeeps ==
  ASSUME TInv, OInv, NEW h \in Handlers, Serve(h) \/ Fails(h)
  PROVE  Keeps
<1>1. StepOK(h) \/ Begins(h)
  BY ZenonT(60), StageSteps, CommitPutSteps, RepairSteps, NoteSteps, BeginSteps
     DEF Serve, Fails
<1>2. req[h].pc # "idle"
  BY Zenon, <1>1 DEF StepOK, WorkStep, ReqStep, Begins, BeginStep, BeginPcs
<1>3. req[h].t \in TxnIds
  BY Zenon, <1>2, Holds DEF Held
<1>4. PICK t \in TxnIds : req[h].t = t
  BY Zenon, <1>3
<1>5. Works(h, t)
  BY ZenonT(60), <1>1, <1>4 DEF Works
<1> QED BY ZenonT(60), <1>5, QuietSteps, LogSteps, CopySteps, ActiveSteps, OutcomeSteps,
           AnswerSteps, AllocPutStep, AppendStep DEF Serve, Fails

-----------------------------------------------------------------------------
(***************************************************************************)
(* A request is taken up while no one works on its transaction.            *)
(***************************************************************************)
LEMMA TakeUpKeeps ==
  ASSUME TInv, OInv, NEW h \in Handlers, NEW t \in TxnIds, TypeOK',
         AcceptStep(h, t), ~ Busy(t),
         UNCHANGED <<published, version_chains, crashes, answers, global_version>>,
         txn_state'[t].write_keys = txn_state[t].write_keys,
         txn_state'[t].snapshot = txn_state[t].snapshot,
         txn_state'[t].alloc = txn_state[t].alloc,
         \/ /\ txn_state'[t] = txn_state[t]
            /\ \/ req'[h].pc \in CopyPcs /\ req'[h].rec = txn_state[t]
               \/ req'[h].pc \in ActivePcs
         \/ txn_state'[t].status = "Committing" /\ req'[h].pc = "load"
         \/ txn_state'[t].status = "Aborted" /\ req'[h].pc = "abort_drop"
  PROVE  Keeps
<1>0. /\ TxnOK(t) /\ AnswersOK(t) /\ AllocOK(t) /\ global_version \in Nat
      /\ req[h].t = NoTxn
  BY ZenonT(60), Numbers, IdleRequest DEF OInv, TInv, VersionsOK, AcceptStep
<1>1. /\ txn_state[t] # NoRecord /\ txn_state[t].status = "Active"
      /\ txn_state'[t] # NoRecord /\ wal' = wal /\ wal[t].status # "none"
      /\ req'[h].t = t
  BY Zenon DEF AcceptStep, HasStatus
<1>2. published[t] = 0 /\ wal[t].status \notin {"Committing", "Committed"}
  BY Zenon, <1>0, <1>1 DEF TxnOK, HasStatus
<1>3. LocalFrame(h, t)
  BY Zenon, <1>0, <1>1, Numbers DEF LocalFrame, AcceptStep, Busy, TInv
<1>4. TxnOK(t)'
  BY ZenonT(60), <1>0, <1>1, <1>2 DEF TxnOK, HasStatus, CopyPcs, ActivePcs
<1>5. HandlerOK(h)' /\ FreshOK(h)'
  BY Zenon, <1>1, <1>2 DEF HandlerOK, FreshOK, HasStatus, CopyPcs, ActivePcs, UnpublishedPcs,
                    PublishedPcs, CommittedPcs, AbortedPcs, AppendPcs, AbortPcs,
                    VersionPcs, AllocatedPcs, LoggedPcs
<1>6. AnswersOK(t)' /\ AllocOK(t)'
  BY Zenon, <1>0, <1>1 DEF AnswersOK, AllocOK, HasStatus
<1>7. HasStatus(t, {"Committing"})' => req'[h].pc \in LockedPcs
  BY Zenon, <1>1 DEF HasStatus, LockedPcs, CommitPcs
<1>8. RecordKept(h, t)
  BY ZenonT(60), <1>1, <1>2 DEF RecordKept, Finished, HasStatus
<1> QED BY ZenonT(60), <1>1, <1>3, <1>4, <1>5, <1>6, <1>7, <1>8, LocalKeeps DEF LocalOK

(***************************************************************************)
(* stage, read, heartbeat, commit and abort, as they are taken up.         *)
(***************************************************************************)
LEMMA AcceptedKeeps ==
  ASSUME TInv, OInv, SearchFacts, ~ Overlap, NEW h \in Handlers, NEW t \in TxnIds
  PROVE  /\ \A k \in Keys : StageRequest(h, t, k) => Keeps
         /\ \A k \in Keys : ReadRequest(h, t, k) => Keeps \/ UNCHANGED req
         /\ HeartbeatRequest(h, t) => Keeps
         /\ CommitRequest(h, t) \/ AbortRequest(h, t) => Keeps
<1>0. /\ req \in [Handlers -> Requests] /\ TxnStoreTypeOK
      /\ StartsStageOK(h) /\ StartsReadOK(h) /\ StartsCommitOK(h) /\ StartsAbortOK(h)
      /\ {"stage_wal", "heartbeat_put", "read_edges", "load", "abort_drop"} \subseteq Pcs
  <2>1. req \in [Handlers -> Requests] /\ TxnStoreTypeOK
    BY Zenon DEF TInv, TypeOK
  <2> QED BY Zenon, <2>1, RequestWrites
          DEF Pcs, StagePcs, ReadPcs, CommitPcs, AbortPcs
<1>a. ASSUME req[h] = Idle, TakesUp(h, t), req'[h].pc # "idle"
      PROVE  TypeOK' /\ AcceptStep(h, t)
  BY Zenon, <1>a, IdleRequest DEF TakesUp, SameControlVars
<1>r. HasStatus(t, {"Active"}) => txn_state[t] \in TxnStateRecord
  BY <1>0 DEF HasStatus, TxnStoreTypeOK
<1>1. ASSUME NEW k \in Keys \cup {NoKey}, NEW pc \in {"stage_wal", "heartbeat_put"},
             NEW op, RequireActive(h, op, t, k, pc), TakesUp(h, t),
             UNCHANGED <<store_vars, txn_vars, env_vars, ghost_vars>>
      PROVE  Keeps
  <2> USE <1>1
  <2>1. ~ Busy(t) /\ req[h] = Idle /\ HasStatus(t, {"Active"})
        /\ StartsStage(h, pc, t, k, txn_state[t])
    BY Zenon DEF RequireActive, Accepts, StartsStage
  <2>2. req'[h].pc = pc /\ req'[h].rec = txn_state[t]
    BY ZenonT(60), <1>0, <1>r, <2>1 DEF StartsStageOK, RequestBecomes
  <2>3. TypeOK' /\ AcceptStep(h, t)
    BY Zenon, <1>a, <2>1, <2>2
  <2>4. UNCHANGED <<published, version_chains, crashes, answers, global_version, txn_state>>
    BY Zenon DEF store_vars, txn_vars, env_vars, ghost_vars
  <2>5. req'[h].pc \in CopyPcs
    BY Zenon, <2>2 DEF CopyPcs
  <2> QED BY ZenonT(60), <2>1, <2>2, <2>3, <2>4, <2>5, TakeUpKeeps
<1>2. ASSUME NEW k \in Keys, StageRequest(h, t, k) PROVE Keeps
  BY ZenonT(60), <1>1, <1>2, RequestSteps DEF StageRequest
<1>3. ASSUME HeartbeatRequest(h, t) PROVE Keeps
  BY ZenonT(60), <1>1, <1>3, RequestSteps DEF HeartbeatRequest
<1>4. ASSUME NEW k \in Keys, ReadRequest(h, t, k), req' # req PROVE Keeps
  <2> USE <1>4
  <2>1. ~ Busy(t) /\ req[h] = Idle /\ HasStatus(t, {"Active"}) /\ TakesUp(h, t)
    BY ZenonT(60), RequestSteps DEF ReadRequest, Accepts
  <2>2. TypeOK' /\ AcceptStep(h, t)
    BY <2>1 DEF TakesUp, SameControlVars
  <2>3. UNCHANGED <<published, version_chains, crashes, answers, global_version, txn_state>>
    BY DEF ReadRequest, store_vars, txn_vars, env_vars
  <2>4. req'[h].pc = "read_edges"
    <3> DEFINE v == ReadRecord(k, txn_state[t].snapshot)
    <3>1. StartsRead(h, "read_edges", t, k, v)
      BY Zenon DEF ReadRequest, StartsRead
    <3>2. req' = [req EXCEPT ![h] = [Idle EXCEPT !.pc = "read_edges", !.t = t,
                                                 !.k = k, !.v = v]]
      BY ZenonT(60), <3>1 DEF StartsRead
    <3> HIDE DEF v
    <3>3. req'[h] = [Idle EXCEPT !.pc = "read_edges", !.t = t, !.k = k, !.v = v]
      BY ZenonT(60), <1>0, <3>2
    <3> QED BY <3>3 DEF Idle
  <2>5. req'[h].pc \in ActivePcs
    BY <2>4 DEF ActivePcs
  <2> QED BY ZenonT(60), <2>1, <2>2, <2>3, <2>5, TakeUpKeeps
<1>5. ASSUME CommitRequest(h, t) PROVE Keeps
  <2> USE <1>5
  <2>1. /\ ~ Busy(t) /\ req[h] = Idle /\ TakesUp(h, t)
        /\ StartsCommit(h, "load", t)
        /\ CompareAndSetTxnStatus(t, "Active", "Committing")
    BY Zenon, RequestSteps DEF CommitRequest, Accepts, StartsCommit
  <2>2. StatusSet(t, "Active", "Committing")
    BY ZenonT(60), <1>0, <2>1, CompareAndSetSpec DEF TxnStatus
  <2>3. req'[h].pc = "load"
    BY ZenonT(60), <1>0, <2>1 DEF StartsCommitOK, RequestBecomes
  <2>4. TypeOK' /\ AcceptStep(h, t)
    BY ZenonT(60), <1>a, <2>1, <2>3
  <2>5. UNCHANGED <<published, version_chains, crashes, answers, global_version>>
    BY DEF CommitRequest, store_vars, env_vars, ghost_vars
  <2> QED BY ZenonT(60), <2>1, <2>2, <2>3, <2>4, <2>5, TakeUpKeeps DEF StatusSet
<1>6. ASSUME AbortRequest(h, t) PROVE Keeps
  <2> USE <1>6
  <2>1. /\ ~ Busy(t) /\ req[h] = Idle /\ TakesUp(h, t)
        /\ StartsAbort(h, "abort_drop", t, txn_state[t])
        /\ CompareAndSetTxnStatus(t, "Active", "Aborted")
    BY Zenon, RequestSteps DEF AbortRequest, Accepts, StartsAbort
  <2>2. StatusSet(t, "Active", "Aborted")
    BY ZenonT(60), <1>0, <2>1, CompareAndSetSpec DEF TxnStatus
  <2>3. req'[h].pc = "abort_drop"
    BY ZenonT(60), <1>0, <1>r, <2>1, <2>2 DEF StartsAbortOK, RequestBecomes, StatusSet
  <2>4. TypeOK' /\ AcceptStep(h, t)
    BY ZenonT(60), <1>a, <2>1, <2>3
  <2>5. UNCHANGED <<published, version_chains, crashes, answers, global_version>>
    BY DEF AbortRequest, store_vars, env_vars, ghost_vars
  <2> QED BY ZenonT(60), <2>1, <2>2, <2>3, <2>4, <2>5, TakeUpKeeps DEF StatusSet
<1> QED BY ZenonT(60), <1>2, <1>3, <1>4, <1>5, <1>6

(***************************************************************************)
(* begin takes an id no one has, and a repeated commit of a finished       *)
(* transaction answers what its record says.                               *)
(***************************************************************************)
LEMMA AnsweredKeeps ==
  ASSUME TInv, OInv, SearchFacts, ~ Overlap, NEW h \in Handlers, NEW t \in TxnIds
  PROVE  BeginCapture(h, t) \/ CommitReplay(h, t) => Keeps
<1>0. /\ TxnOK(t) /\ AnswersOK(t) /\ AllocOK(t) /\ global_version \in Nat
      /\ answers \in [TxnIds -> SUBSET (Versions \cup {Refused})]
  BY ZenonT(60), Numbers DEF OInv, TInv, TypeOK, VersionsOK
<1>1. ASSUME BeginCapture(h, t) PROVE Keeps
  <2> USE <1>1
  <2>1. /\ TypeOK' /\ \A g \in Handlers \ {h} : req'[g] = req[g]
        /\ req'[h].pc = "begin_put" /\ req'[h].t = t
    BY ZenonT(60), BeginCaptureStep DEF TInv
  <2>2. /\ recovery.pc = "off" /\ req[h] = Idle /\ t \notin begun
        /\ UNCHANGED <<txn_state, wal, answers, published, version_chains, sweeper,
                       recovery, crashes, global_version>>
    BY Zenon DEF BeginCapture, Accepts, mvcc_vars, txn_vars, ghost_vars
  <2>3. txn_state[t] = NoRecord /\ sweeper.t # t /\ \A g \in Handlers : req[g].t # t
    BY ZenonT(60), <2>2 DEF TInv, ControlOK, NotBegunOK
  <2>4. LocalFrame(h, t)
    BY ZenonT(60), <1>0, <2>1, <2>2, <2>3, IdleRequest, Numbers DEF LocalFrame, TInv
  <2>5. HandlerOK(h)' /\ FreshOK(h)'
    BY Zenon, <2>1 DEF HandlerOK, FreshOK, CopyPcs, ActivePcs, UnpublishedPcs, PublishedPcs,
                CommittedPcs, AbortedPcs, AppendPcs, AbortPcs, VersionPcs,
                AllocatedPcs, LoggedPcs
  <2>6. TxnOK(t)' /\ AnswersOK(t)' /\ AllocOK(t)'
    BY ZenonT(60), <1>0, <2>2, <2>3 DEF TxnOK, AnswersOK, AllocOK, HasStatus
  <2>7. RecordKept(h, t) /\ ~ HasStatus(t, {"Committing"})'
    BY ZenonT(60), <1>0, <2>2, <2>3 DEF RecordKept, Finished, HasStatus, TxnOK
  <2> QED BY ZenonT(60), <2>1, <2>4, <2>5, <2>6, <2>7, LocalKeeps DEF LocalOK
<1>2. ASSUME CommitReplay(h, t) PROVE Keeps
  <2> USE <1>2
  <2>1. /\ recovery.pc = "off" /\ req[h] = Idle /\ ~ Busy(t) /\ req' = req
        /\ UNCHANGED <<txn_state, wal, published, version_chains, sweeper,
                       recovery, crashes, global_version>>
    BY Zenon DEF CommitReplay, Accepts, store_vars, txn_vars, env_vars
  <2>2. TypeOK'
    BY RequestSteps DEF TakesUp
  <2>3. PICK a : /\ Answer(t, a)
                 /\ \/ HasStatus(t, {"Committed"}) /\ a = CommitVersionOf(txn_state[t])
                    \/ HasStatus(t, {"Aborted"}) /\ a = Refused
    BY Zenon DEF CommitReplay
  <2>4. answers'[t] = answers[t] \cup {a} /\ SameAnswers(t)
    BY Zenon, <1>0, <2>3 DEF Answer, SameAnswers
  <2>5. LocalFrame(h, t)
    BY ZenonT(60), <1>0, <2>1, <2>4, IdleRequest, Numbers
       DEF LocalFrame, Busy, SameAnswers, TInv
  <2>6. HandlerOK(h)' /\ FreshOK(h)'
    BY ZenonT(60), <2>1, IdleOK
  <2>7. TxnOK(t)' /\ AllocOK(t)'
    BY ZenonT(60), <1>0, <2>1 DEF TxnOK, AllocOK, HasStatus, EntriesOnTop
  <2>8. AnswersOK(t)'
    BY ZenonT(60), <1>0, <2>1, <2>3, <2>4 DEF AnswersOK, HasStatus
  <2>9. RecordKept(h, t) /\ ~ HasStatus(t, {"Committing"})'
    BY ZenonT(60), <1>0, <2>1, <2>3 DEF RecordKept, Finished, HasStatus, TxnOK
  <2> QED BY ZenonT(60), <2>2, <2>5, <2>6, <2>7, <2>8, <2>9, LocalKeeps DEF LocalOK
<1> QED BY ZenonT(60), <1>1, <1>2

=============================================================================
