-------------------------- MODULE TxnOutcomeProofs --------------------------
(***************************************************************************)
(* When the requests on one transaction do not overlap, what a transaction *)
(* ends with is the truth about the chains: the invariant that says so,    *)
(* what follows from it, and the steps of a request that change no status. *)
(***************************************************************************)
EXTENDS TxnSystemProofs

(* Time enough for each prover on a busy machine.                          *)
USE SMTT(20), ZenonT(30)

(* One actor works on a transaction at a time.                             *)
Exclusive ==
  /\ \A g, h \in Handlers : g # h /\ req[g].t = req[h].t => req[g].t = NoTxn
  /\ \A h \in Handlers : sweeper.t = req[h].t => sweeper.t = NoTxn

(* Steps that hold a copy of an Active record, or know it to be Active.    *)
CopyPcs == {"stage_wal", "stage_entry", "stage_keys", "read_lock", "read_keys",
            "heartbeat_put"}
ActivePcs == {"begin_wal", "begin_undo", "begin_delete", "stage_lock", "read_edges"}

(* Steps of a commit that holds a copy of its Committing record: before    *)
(* the append, after it, and those that look at neither.                   *)
UnpublishedPcs == {"ssi_wal", "ssi_put", "alloc", "check", "conflict_put",
                   "alloc_put", "append", "unpublished_wal", "unpublished_put"}
PublishedPcs == {"versions", "committed_wal", "committed_put", "published_put"}
CommittedPcs == {"memtable", "hook"}
AbortedPcs == {"ssi_unpin", "conflict_unpin", "unpublished_unpin"} \cup AbortPcs

(* Steps of a commit that has its version, that has put it in the record,  *)
(* and whose last log record is Committing.                                *)
VersionPcs == {"check", "alloc_put", "append", "versions", "committed_wal",
               "committed_put", "memtable", "hook"}
AllocatedPcs == VersionPcs \ {"check", "alloc_put"}
LoggedPcs == {"alloc_put", "append", "versions", "committed_wal"}

(* The entries of t are the newest of its chains.                          *)
EntriesOnTop(t) ==
  LET rec == txn_state[t]
  IN  \A k \in rec.write_keys :
        /\ version_chains[k] # <<>>
        /\ version_chains[k][Len(version_chains[k])] = [cv |-> rec.alloc, txn |-> t]

(* What the step a handler is at says about the record, the log and the    *)
(* chains of its transaction.                                              *)
HandlerOK(h) ==
  LET r == req[h]
      t == req[h].t
  IN  /\ r.pc \in CopyPcs => txn_state[t] = r.rec /\ r.rec.status = "Active"
      /\ r.pc \in ActivePcs => HasStatus(t, {"Active"})
      /\ r.pc \in UnpublishedPcs \cup PublishedPcs =>
           txn_state[t] = r.rec /\ r.rec.status = "Committing"
      /\ r.pc = "load" => HasStatus(t, {"Committing"}) /\ published[t] = 0
      /\ r.pc = "reconcile" => HasStatus(t, {"Committing"})
      /\ r.pc \in UnpublishedPcs => published[t] = 0
      /\ r.pc \in PublishedPcs => published[t] = r.rec.alloc
      /\ r.pc \in PublishedPcs \cup {"reconcile"} /\ published[t] # 0 => EntriesOnTop(t)
      /\ r.pc \in CommittedPcs => txn_state[t] = [r.rec EXCEPT !.status = "Committed"]
      /\ r.pc = "published_unpin" => HasStatus(t, {"Committed"})
      /\ r.pc \in AbortedPcs => HasStatus(t, {"Aborted"})
      /\ r.pc \in VersionPcs =>
           IF r.rec.write_keys = {} THEN r.v = r.rec.snapshot ELSE r.v # 0
      /\ r.pc \in AllocatedPcs => r.rec.alloc = AllocOf(h)
      /\ r.pc \in LoggedPcs =>
           wal[t] = [status |-> "Committing", keys |-> r.rec.write_keys]

(* The version of a commit on its way is newer than every other.           *)
FreshOK(h) ==
  req[h].pc \in AppendPcs /\ req[h].rec.write_keys # {} =>
    /\ req[h].v <= global_version
    /\ \A u \in TxnIds :
         /\ published[u] < req[h].v
         /\ u # req[h].t /\ txn_state[u] # NoRecord => txn_state[u].alloc < req[h].v

(* What the status of a transaction, and its log while it is Committing,   *)
(* say about the chains.                                                   *)
TxnOK(t) ==
  LET rec == txn_state[t]
  IN  /\ rec = NoRecord => published[t] = 0
      /\ HasStatus(t, {"Active", "Aborted"}) => published[t] = 0
      /\ HasStatus(t, {"Active"}) => wal[t].status \notin {"Committing", "Committed"}
      /\ HasStatus(t, {"Committed"}) => published[t] = rec.alloc
      /\ HasStatus(t, {"Committing"}) =>
           /\ published[t] \in {0, rec.alloc}
           /\ wal[t].status # "none"
           /\ wal[t].status \in {"Active", "Aborted"} => published[t] = 0
           /\ wal[t].status = "Committed" => published[t] = rec.alloc
           /\ wal[t].status = "Committing" /\ published[t] # 0 =>
                wal[t].keys = rec.write_keys /\ EntriesOnTop(t)
      /\ rec # NoRecord /\ rec.alloc # 0 => rec.write_keys # {}

(* A Committing record whose log has no outcome is being worked on, or     *)
(* recovery will look at it.                                               *)
Undecided(t) ==
  HasStatus(t, {"Committing"}) /\ wal[t].status \in {"Active", "Committing"}

HeldByCommit(t) == \E h \in Handlers : req[h].t = t /\ req[h].pc \in LockedPcs

DecidedOK(t) ==
  Undecided(t) => IF recovery.pc = "off" THEN HeldByCommit(t)
                  ELSE t \in recovery.todo \/ t = recovery.t

RecoveringOK ==
  LET t == recovery.t
  IN  /\ recovery.pc = "pick" => t = NoTxn
      /\ recovery.pc \in {"drop", "wal", "unpin", "put"} =>
           HasStatus(t, {"Active", "Committing"}) /\ published[t] = 0
      /\ recovery.pc \in {"won_wal", "won_put"} =>
           HasStatus(t, {"Committing"}) /\ published[t] = txn_state[t].alloc

SweepingOK == sweeper.t # NoTxn => HasStatus(sweeper.t, {"Aborted"})

(* Every entry is that of a transaction that published it, and no version  *)
(* belongs to two.                                                         *)
ChainsOK ==
  \A k \in Keys : \A e \in EntriesOf(version_chains[k]) :
    e.cv # 0 /\ published[e.txn] = e.cv

AllocOK(t) ==
  txn_state[t] # NoRecord =>
    /\ txn_state[t].alloc <= global_version
    /\ \A u \in TxnIds \ {t} :
         txn_state[t].alloc # 0 => txn_state[t].alloc # published[u]

VersionsOK == \A t \in TxnIds : published[t] <= global_version /\ AllocOK(t)

(* The chain of a key is at least as new as any commit of it.              *)
LatestOK ==
  \A t \in TxnIds : published[t] # 0 =>
    \A k \in WriteKeys(t) :
      version_chains[k] # <<>> /\ published[t] <= LatestCommitVersion(version_chains[k])

AnswersOK(t) ==
  \A a \in answers[t] :
    \/ a = Refused /\ HasStatus(t, {"Aborted"})
    \/ HasStatus(t, {"Committed"}) /\ a = CommitVersionOf(txn_state[t])

(* Without a crash, a Committing transaction is always being worked on.    *)
CommittingHeld ==
  crashes = 0 =>
    /\ recovery.pc = "off"
    /\ \A t \in TxnIds : HasStatus(t, {"Committing"}) => HeldByCommit(t)

OInv ==
  /\ Exclusive /\ RecoveringOK /\ SweepingOK /\ ChainsOK /\ VersionsOK /\ LatestOK
  /\ \A h \in Handlers : HandlerOK(h) /\ FreshOK(h)
  /\ \A t \in TxnIds : TxnOK(t) /\ DecidedOK(t) /\ AnswersOK(t)
  /\ FirstCommitterWins /\ CommittingHeld

(* The invariant holds after the step too, and what has finished stays so.  *)
Keeps == OInv' /\ FinishedStep

SameAnswers(t) == \A u \in TxnIds \ {t} : answers'[u] = answers[u]

(***************************************************************************)
(* The copy a request works on is a record (load_txn found one).           *)
(***************************************************************************)
LEMMA CopiesAreRecords ==
  ASSUME TInv, NEW h \in Handlers,
         req[h].pc \in CopyPcs \cup UnpublishedPcs \cup PublishedPcs
  PROVE  req[h].rec # NoRecord
<1>1. req[h].rec \in TxnStateRecord
  BY ZenonT(60), Holds DEF Held, CopyPcs, UnpublishedPcs, PublishedPcs
<1> QED BY Zenon, <1>1, CoordinatorAssumption

(***************************************************************************)
(* The service starts with one finished transaction, which wrote version 1 *)
(* of SeedKeys.                                                            *)
(***************************************************************************)
LEMMA InitOInv ==
  ASSUME Init
  PROVE  OInv
<1> DEFINE seed == [status |-> "Committed", snapshot |-> 0, write_keys |-> SeedKeys,
                    read_keys |-> {}, alloc |-> 1]
<1>0. /\ NoTxn \notin TxnIds /\ SeedTxn \in TxnIds /\ SeedKeys # {}
      /\ SeedKeys \in SUBSET Keys /\ NoRecord \notin TxnStateRecord
      /\ \A h \in Handlers : req[h] = Idle
  BY Zenon, CoordinatorAssumption DEF Init
<1>1. /\ txn_state[SeedTxn] = seed
      /\ \A t \in TxnIds \ {SeedTxn} : txn_state[t] = NoRecord /\ published[t] = 0
      /\ published[SeedTxn] = 1 /\ global_version = 1 /\ crashes = 0
      /\ \A t \in TxnIds : answers[t] = {}
      /\ sweeper.t = NoTxn /\ recovery.pc = "off"
  BY Zenon, <1>0 DEF Init, NotSweeping, Serving
<1>2. \A h \in Handlers : req[h].pc = "idle" /\ req[h].t = NoTxn
  BY Zenon, <1>0, IdleRequest
<1>3. \A k \in Keys : version_chains[k] =
        IF k \in SeedKeys THEN <<[cv |-> 1, txn |-> SeedTxn]>> ELSE <<>>
  BY Zenon DEF Init
<1>4. seed # NoRecord
  <2>1. MaxVersion >= 1 /\ MaxVersion \in Nat
    BY Zenon, CoordinatorAssumption, MaxVersionAssumption
  <2>2. 0 \in Versions /\ 1 \in Versions
    BY <2>1 DEF Versions
  <2>3. seed \in TxnStateRecord
    <3>1. SeedKeys \in SUBSET Keys /\ {} \in SUBSET Keys
      BY Zenon, <1>0
    <3> QED BY <2>2, <3>1 DEF TxnStateRecord, TxnStatus
  <2> QED BY Zenon, <1>0, <2>3
<1>s. /\ seed.status = "Committed" /\ seed.write_keys = SeedKeys /\ seed.alloc = 1
  OBVIOUS
<1> HIDE DEF seed
<1>5. ASSUME NEW t \in TxnIds
      PROVE  \/ /\ t = SeedTxn /\ published[t] = 1 /\ txn_state[t] # NoRecord
                /\ txn_state[t].status = "Committed" /\ txn_state[t].alloc = 1
                /\ txn_state[t].write_keys = SeedKeys
             \/ t # SeedTxn /\ published[t] = 0 /\ txn_state[t] = NoRecord
  BY Zenon, <1>1, <1>4, <1>s
<1>6. Exclusive /\ RecoveringOK /\ SweepingOK /\ CommittingHeld
  <2>1. \A t \in TxnIds : ~ HasStatus(t, {"Committing"})
    BY Zenon, <1>5 DEF HasStatus
  <2> QED BY Zenon, <1>1, <1>2, <2>1
          DEF Exclusive, RecoveringOK, SweepingOK, CommittingHeld
<1>7. ChainsOK
  <2>1. ASSUME NEW k \in Keys, NEW e \in EntriesOf(version_chains[k])
        PROVE  e.cv = 1 /\ e.txn = SeedTxn
    <3>1. version_chains[k] = <<[cv |-> 1, txn |-> SeedTxn]>> \/ version_chains[k] = <<>>
      BY Zenon, <1>3
    <3> QED BY <3>1 DEF EntriesOf
  <2>2. 1 # 0
    OBVIOUS
  <2> QED BY Zenon, <1>1, <2>1, <2>2 DEF ChainsOK
<1>8. VersionsOK
  <2>1. 0 <= 1 /\ 1 <= 1 /\ 1 # 0
    OBVIOUS
  <2> QED BY Zenon, <1>1, <1>5, <2>1 DEF VersionsOK, AllocOK
<1>9. LatestOK
  <2>1. ASSUME NEW t \in TxnIds, published[t] # 0, NEW k \in WriteKeys(t)
        PROVE  /\ version_chains[k] # <<>>
               /\ published[t] <= LatestCommitVersion(version_chains[k])
    <3>1. published[t] = 1 /\ k \in SeedKeys
      BY Zenon, <1>5, <2>1 DEF WriteKeys
    <3>2. version_chains[k] = <<[cv |-> 1, txn |-> SeedTxn]>>
      BY Zenon, <1>0, <1>3, <3>1
    <3> QED BY <3>1, <3>2 DEF LatestCommitVersion
  <2> QED BY Zenon, <2>1 DEF LatestOK
<1>10. \A h \in Handlers : HandlerOK(h) /\ FreshOK(h)
  <2>1. "idle" \notin CopyPcs \cup ActivePcs \cup UnpublishedPcs \cup PublishedPcs
                     \cup CommittedPcs \cup AbortedPcs \cup VersionPcs \cup AppendPcs
    BY DEF CopyPcs, ActivePcs, UnpublishedPcs, PublishedPcs, CommittedPcs, AbortedPcs,
           AbortPcs, VersionPcs, AppendPcs
  <2>2. "idle" \notin AllocatedPcs \cup LoggedPcs
    BY DEF AllocatedPcs, VersionPcs, LoggedPcs
  <2> QED BY Zenon, <1>2, <2>1, <2>2 DEF HandlerOK, FreshOK
<1>11. \A t \in TxnIds : TxnOK(t) /\ DecidedOK(t) /\ AnswersOK(t)
  BY Zenon, <1>0, <1>1, <1>5 DEF TxnOK, DecidedOK, Undecided, AnswersOK, HasStatus
<1>12. FirstCommitterWins
  <2>1. ASSUME NEW t \in TxnIds, NEW u \in TxnIds, published[t] # 0
        PROVE  ~ (published[t] < published[u])
    <3>1. published[t] = 1 /\ published[u] \in {0, 1}
      BY Zenon, <1>5, <2>1
    <3> QED BY <3>1
  <2> QED BY Zenon, <2>1 DEF FirstCommitterWins
<1> QED BY Zenon, <1>6, <1>7, <1>8, <1>9, <1>10, <1>11, <1>12 DEF OInv

-----------------------------------------------------------------------------
(***************************************************************************)
(* The versions of the service are numbers.                                *)
(***************************************************************************)
LEMMA Numbers ==
  ASSUME TypeOK
  PROVE  /\ \A u \in TxnIds : published[u] \in Nat
         /\ \A u \in TxnIds : txn_state[u] # NoRecord =>
              txn_state[u].alloc \in Nat /\ txn_state[u].snapshot \in Nat
         /\ \A g \in Handlers : req[g].v \in Nat
         /\ global_version \in Nat /\ global_version >= global_version
<1>0. \A v \in Versions : v \in Nat
  BY MaxVersionAssumption DEF Versions
<1>1. \A u \in TxnIds : published[u] \in Versions
  BY DEF TypeOK
<1>2. \A u \in TxnIds : txn_state[u] # NoRecord => txn_state[u] \in TxnStateRecord
  BY DEF TypeOK, TxnStoreTypeOK
<1>3. \A g \in Handlers : req[g].v \in Versions
  BY DEF TypeOK, Requests
<1>4. global_version \in Versions
  BY DEF TypeOK, StoreTypeOK
<1>5. \A rec \in TxnStateRecord : rec.alloc \in Versions /\ rec.snapshot \in Versions
  BY DEF TxnStateRecord
<1>6. global_version >= global_version
  BY <1>0, <1>4
<1> QED BY ZenonT(60), <1>0, <1>1, <1>2, <1>3, <1>4, <1>5, <1>6

-----------------------------------------------------------------------------
(***************************************************************************)
(* A step of handler h on transaction t, which touches no other            *)
(* transaction and leaves the chains alone.                                *)
(***************************************************************************)
LocalFrame(h, t) ==
  /\ recovery.pc = "off" /\ sweeper.t # t
  /\ req[h].t \in {t, NoTxn} /\ req'[h].t \in {t, NoTxn}
  /\ \A g \in Handlers \ {h} : req'[g] = req[g] /\ req[g].t # t
  /\ \A u \in TxnIds \ {t} : /\ txn_state'[u] = txn_state[u] /\ wal'[u] = wal[u]
                             /\ answers'[u] = answers[u]
  /\ UNCHANGED <<published, version_chains, sweeper, recovery, crashes>>
  /\ global_version' \in Nat /\ global_version' >= global_version

(* The record of t keeps what the finished and the published are known by, *)
(* and gets a new version only from the holder of commit_lock.             *)
RecordKept(h, t) ==
  LET old == txn_state[t]
      new == txn_state'[t]
  IN  /\ Finished(t) => new = old
      /\ published[t] # 0 =>
           /\ old # NoRecord /\ new # NoRecord
           /\ new.write_keys = old.write_keys /\ new.snapshot = old.snapshot
      /\ new # NoRecord => \/ new.alloc = 0 \/ req[h].pc \in LockedPcs
                           \/ old # NoRecord /\ new.alloc = old.alloc

(* What such a step owes to its own transaction.                           *)
LocalOK(h, t) ==
  /\ HandlerOK(h)' /\ FreshOK(h)' /\ TxnOK(t)' /\ AnswersOK(t)' /\ AllocOK(t)'
  /\ HasStatus(t, {"Committing"})' => req'[h].t = t /\ req'[h].pc \in LockedPcs
  /\ RecordKept(h, t)

(***************************************************************************)
(* Such a step keeps the invariant, and what has finished stays finished.  *)
(***************************************************************************)
LEMMA LocalKeeps ==
  ASSUME TInv, OInv, NEW h \in Handlers, NEW t \in TxnIds,
         TypeOK', LocalFrame(h, t), LocalOK(h, t)
  PROVE  Keeps
<1>0. /\ NoTxn \notin TxnIds
      /\ \A u \in TxnIds : published[u] \in Nat
      /\ \A u \in TxnIds : txn_state[u] # NoRecord => txn_state[u].alloc \in Nat
      /\ \A g \in Handlers : req[g].v \in Nat
      /\ global_version \in Nat
  BY Zenon, CoordinatorAssumption, Numbers DEF TInv
<1>1. Exclusive'
  BY <1>0 DEF OInv, Exclusive, LocalFrame
<1>2. RecoveringOK' /\ SweepingOK' /\ ChainsOK'
  <2>1. RecoveringOK'
    BY Zenon DEF LocalFrame, RecoveringOK
  <2>2. SweepingOK'
    <3>1. sweeper.t \in TxnIds \cup {NoTxn}
      BY DEF TInv, TypeOK
    <3> QED BY Zenon, <3>1 DEF OInv, LocalFrame, SweepingOK, HasStatus
  <2>3. ChainsOK'
    BY Zenon DEF OInv, LocalFrame, ChainsOK
  <2> QED BY <2>1, <2>2, <2>3
<1>3. VersionsOK'
  <2> SUFFICES ASSUME NEW u \in TxnIds
               PROVE  published'[u] <= global_version' /\ AllocOK(u)'
    BY DEF VersionsOK
  <2>1. published[u] <= global_version /\ AllocOK(u)
    BY Zenon DEF OInv, VersionsOK
  <2>2. published'[u] <= global_version'
    <3>1. /\ published' = published /\ global_version' \in Nat
          /\ global_version' >= global_version
      BY Zenon DEF LocalFrame
    <3>2. published[u] \in Nat /\ global_version \in Nat
      BY Zenon, <1>0
    <3> QED BY <2>1, <3>1, <3>2
  <2>3. u # t => AllocOK(u)'
    BY <1>0, <2>1 DEF LocalFrame, AllocOK
  <2> QED BY Zenon, <2>2, <2>3 DEF LocalOK
<1>4. \A u \in TxnIds : published[u] # 0 =>
        /\ WriteKeys(u)' = WriteKeys(u) /\ txn_state'[u] # NoRecord
        /\ txn_state[u] # NoRecord /\ txn_state'[u].snapshot = txn_state[u].snapshot
  BY ZenonT(60) DEF LocalFrame, LocalOK, RecordKept, WriteKeys, OInv, TxnOK
<1>5. LatestOK'
  BY ZenonT(60), <1>4 DEF OInv, LatestOK, LocalFrame
<1>6. FirstCommitterWins'
  <2> SUFFICES ASSUME NEW a \in TxnIds, NEW b \in TxnIds,
                      published[a] # 0, published[a] < published[b],
                      WriteKeys(a)' \cap WriteKeys(b)' # {}
               PROVE  txn_state'[b].snapshot >= published[a]
    BY Zenon DEF FirstCommitterWins, LocalFrame
  <2>1. published[b] # 0
    BY <1>0
  <2>2. WriteKeys(a) \cap WriteKeys(b) # {}
    BY <1>4, <2>1
  <2>3. txn_state[b].snapshot >= published[a]
    BY <2>2 DEF OInv, FirstCommitterWins
  <2> QED BY Zenon, <1>4, <2>1, <2>3
<1>7. ASSUME NEW g \in Handlers PROVE HandlerOK(g)' /\ FreshOK(g)'
  <2>1. CASE g = h
    BY <2>1 DEF LocalOK
  <2>2. CASE g # h
    <3> USE <2>2
    <3>1. req'[g] = req[g] /\ req[g].t # t /\ HandlerOK(g) /\ FreshOK(g)
      BY Zenon DEF LocalFrame, OInv
    <3>2. CASE req[g].pc = "idle"
      BY <3>1, <3>2
         DEF HandlerOK, FreshOK, CopyPcs, ActivePcs, UnpublishedPcs, PublishedPcs,
             CommittedPcs, AbortedPcs, AppendPcs, AbortPcs, VersionPcs, AllocatedPcs,
             LoggedPcs
    <3>3. CASE req[g].pc # "idle"
      <4>1. req[g].t \in TxnIds \ {t}
        BY <3>1, <3>3 DEF TInv, ControlOK, RequestOK
      <4>2. /\ txn_state'[req[g].t] = txn_state[req[g].t]
            /\ wal'[req[g].t] = wal[req[g].t]
            /\ published' = published /\ version_chains' = version_chains
        BY Zenon, <4>1 DEF LocalFrame
      <4>3. HandlerOK(g)'
        BY ZenonT(60), <3>1, <4>2 DEF HandlerOK, HasStatus, EntriesOnTop, AllocOf
      <4>4. FreshOK(g)'
        <5> SUFFICES ASSUME req[g].pc \in AppendPcs, req[g].rec.write_keys # {}
                     PROVE  /\ req[g].v <= global_version'
                            /\ \A u \in TxnIds :
                                 /\ published'[u] < req[g].v
                                 /\ u # req[g].t /\ txn_state'[u] # NoRecord =>
                                      txn_state'[u].alloc < req[g].v
          BY Zenon, <3>1 DEF FreshOK
        <5>1. /\ req[g].v <= global_version
              /\ \A u \in TxnIds :
                   /\ published[u] < req[g].v
                   /\ u # req[g].t /\ txn_state[u] # NoRecord =>
                        txn_state[u].alloc < req[g].v
          BY Zenon, <3>1 DEF FreshOK
        <5>2. req[h].pc \notin LockedPcs
          BY Zenon DEF TInv, ControlOK, RequestOK, AppendPcs, LockedPcs, CommitPcs
        <5>3. txn_state'[t] # NoRecord => txn_state'[t].alloc < req[g].v
          <6>1. 0 < req[g].v
            BY <1>0, <5>1
          <6> QED BY ZenonT(60), <3>1, <5>1, <5>2, <6>1 DEF LocalOK, RecordKept
        <5>4. req[g].v <= global_version'
          <6>1. /\ req[g].v \in Nat /\ global_version \in Nat
                /\ global_version' \in Nat /\ global_version' >= global_version
            BY Zenon, <1>0 DEF LocalFrame
          <6> QED BY <5>1, <6>1
        <5> QED BY Zenon, <4>2, <5>1, <5>3, <5>4 DEF LocalFrame
      <4> QED BY Zenon, <4>3, <4>4
    <3> QED BY <3>2, <3>3
  <2> QED BY <2>1, <2>2
<1>8. ASSUME NEW u \in TxnIds, u # t
      PROVE  /\ TxnOK(u)' /\ AnswersOK(u)'
             /\ HeldByCommit(u) => HeldByCommit(u)'
             /\ DecidedOK(u)'
             /\ HasStatus(u, {"Committing"})' => HasStatus(u, {"Committing"})
             /\ Finished(u) => /\ txn_state'[u] # NoRecord
                               /\ txn_state'[u].status = txn_state[u].status
  <2> USE <1>8
  <2>1. /\ txn_state'[u] = txn_state[u] /\ wal'[u] = wal[u] /\ answers'[u] = answers[u]
        /\ published' = published /\ version_chains' = version_chains
        /\ recovery' = recovery
    BY DEF LocalFrame
  <2>2. TxnOK(u) /\ AnswersOK(u) /\ DecidedOK(u)
    BY DEF OInv
  <2>3. TxnOK(u)'
    BY Zenon, <2>1, <2>2 DEF TxnOK, HasStatus, EntriesOnTop
  <2>4. AnswersOK(u)'
    BY Zenon, <2>1, <2>2 DEF AnswersOK, HasStatus
  <2>5. HeldByCommit(u) => HeldByCommit(u)'
    BY ZenonT(60), <1>0 DEF HeldByCommit, LocalFrame
  <2>6. DecidedOK(u)'
    BY Zenon, <2>1, <2>2, <2>5 DEF DecidedOK, Undecided, HasStatus
  <2> QED BY ZenonT(60), <2>1, <2>3, <2>4, <2>5, <2>6 DEF HasStatus, Finished
<1>9. /\ TxnOK(t)' /\ AnswersOK(t)' /\ DecidedOK(t)'
      /\ HasStatus(t, {"Committing"})' => HeldByCommit(t)'
      /\ Finished(t) => /\ txn_state'[t] # NoRecord
                        /\ txn_state'[t].status = txn_state[t].status
  <2>1. HasStatus(t, {"Committing"})' => HeldByCommit(t)'
    BY DEF LocalOK, HeldByCommit
  <2>2. DecidedOK(t)'
    BY Zenon, <2>1 DEF DecidedOK, Undecided, LocalFrame
  <2> QED BY Zenon, <2>1, <2>2 DEF LocalOK, RecordKept, Finished, HasStatus
<1>10. CommittingHeld'
  <2>1. crashes' = crashes /\ recovery' = recovery /\ CommittingHeld
    BY Zenon DEF LocalFrame, OInv
  <2>2. \A u \in TxnIds : u # t /\ HasStatus(u, {"Committing"})' =>
          HasStatus(u, {"Committing"}) /\ (HeldByCommit(u) => HeldByCommit(u)')
    BY Zenon, <1>8
  <2> QED BY Zenon, <1>9, <2>1, <2>2 DEF CommittingHeld
<1>11. FinishedStep
  BY Zenon, <1>8, <1>9 DEF FinishedStep
<1>12. \A u \in TxnIds : TxnOK(u)' /\ DecidedOK(u)' /\ AnswersOK(u)'
  BY Zenon, <1>8, <1>9
<1> QED BY ZenonT(60), <1>1, <1>2, <1>3, <1>5, <1>6, <1>7, <1>10, <1>11, <1>12 DEF OInv, Keeps

-----------------------------------------------------------------------------
(* The handler of t takes one step of its request.                         *)
Works(h, t) == req[h].t = t /\ (StepOK(h) \/ Begins(h))

SameChains == UNCHANGED <<published, version_chains, crashes>>

(***************************************************************************)
(* Such a step is one on the handler's own transaction: no other request   *)
(* and not the sweeper works on it.                                        *)
(***************************************************************************)
LEMMA WorkKeeps ==
  ASSUME TInv, OInv, NEW h \in Handlers, NEW t \in TxnIds, Works(h, t), SameChains,
         global_version' >= global_version,
         SameAnswers(t),
         LocalOK(h, t)
  PROVE  Keeps
<1>1. req[h].pc # "idle"
  BY Zenon DEF Works, StepOK, WorkStep, ReqStep, Begins, BeginStep, BeginPcs
<1>2. recovery.pc = "off" /\ NoTxn \notin TxnIds /\ req[h].t = t
  BY Zenon, <1>1, CoordinatorAssumption DEF TInv, ControlOK, RequestOK, Works
<1>3. sweeper.t # t /\ \A g \in Handlers \ {h} : req[g].t # t
  BY Zenon, <1>2 DEF OInv, Exclusive
<1>4. /\ TypeOK'
      /\ \A g \in Handlers \ {h} : req'[g] = req[g]
      /\ req'[h].t \in {t, NoTxn}
      /\ \A u \in TxnIds \ {t} : txn_state'[u] = txn_state[u] /\ wal'[u] = wal[u]
      /\ UNCHANGED <<sweeper, recovery>>
  BY ZenonT(60), IdleRequest
     DEF Works, StepOK, WorkStep, ReqStep, MovesOn, Begins, BeginStep
<1>5. global_version' \in Nat
  BY <1>4, MaxVersionAssumption DEF TypeOK, StoreTypeOK, Versions
<1>6. LocalFrame(h, t)
  BY ZenonT(60), <1>2, <1>3, <1>4, <1>5 DEF LocalFrame, SameChains, SameAnswers
<1> QED BY Zenon, <1>4, <1>6, LocalKeeps

(***************************************************************************)
(* An idle handler is in no commit.                                        *)
(***************************************************************************)
LEMMA IdleOK ==
  ASSUME NEW h \in Handlers, req'[h] = Idle
  PROVE  HandlerOK(h)' /\ FreshOK(h)'
<1>1. req'[h].pc = "idle"
  BY IdleRequest
<1> QED BY <1>1 DEF HandlerOK, FreshOK, CopyPcs, ActivePcs, UnpublishedPcs,
                    PublishedPcs, CommittedPcs, AbortedPcs, AppendPcs, AbortPcs, VersionPcs, AllocatedPcs,
             LoggedPcs

(* The handler is in the commit as long as its transaction is Committing.  *)
StillHeld(h, t) ==
  HasStatus(t, {"Committing"})' => req'[h].t = t /\ req'[h].pc \in LockedPcs

(***************************************************************************)
(* A step that leaves the state record alone.                              *)
(***************************************************************************)
LEMMA StateKept ==
  ASSUME TInv, OInv, NEW h \in Handlers, NEW t \in TxnIds, Works(h, t), SameChains,
         UNCHANGED txn_state, global_version' >= global_version,
         SameAnswers(t),
         TxnOK(t)', AnswersOK(t)', HandlerOK(h)', FreshOK(h)', StillHeld(h, t)
  PROVE  Keeps
<1>1. AllocOK(t)'
  <2>1. AllocOK(t)
    BY DEF OInv, VersionsOK
  <2>2. TypeOK' /\ TypeOK
    BY ZenonT(60) DEF Works, StepOK, Begins, TInv
  <2>3. global_version' \in Nat
    BY <2>2, MaxVersionAssumption DEF TypeOK, StoreTypeOK, Versions
  <2>4. /\ txn_state[t] # NoRecord => txn_state[t].alloc \in Nat
        /\ global_version \in Nat
    BY Zenon, <2>2, Numbers
  <2> QED BY <2>1, <2>3, <2>4 DEF AllocOK, SameChains
<1>2. RecordKept(h, t)
  BY Zenon DEF RecordKept, OInv, TxnOK
<1>3. LocalOK(h, t)
  BY <1>1, <1>2 DEF LocalOK, StillHeld
<1> QED BY ZenonT(60), <1>3, WorkKeeps

(***************************************************************************)
(* A step that leaves the log alone too, and one that ends the request.    *)
(***************************************************************************)
LEMMA LogKept ==
  ASSUME TInv, OInv, NEW h \in Handlers, NEW t \in TxnIds, Works(h, t), SameChains,
         UNCHANGED <<txn_state, wal>>, global_version' >= global_version,
         SameAnswers(t),
         AnswersOK(t)', HandlerOK(h)', FreshOK(h)', StillHeld(h, t)
  PROVE  Keeps
<1>1. TxnOK(t)
  BY DEF OInv
<1>2. TxnOK(t)'
  BY Zenon, <1>1 DEF TxnOK, HasStatus, EntriesOnTop, SameChains
<1> QED BY <1>2, StateKept

(***************************************************************************)
(* A request that ends, and writes no record, no log and no chain, keeps   *)
(* the invariant, if it does not leave its transaction Committing.         *)
(***************************************************************************)
LEMMA RequestEnds ==
  ASSUME TInv, OInv, NEW h \in Handlers, NEW t \in TxnIds, Works(h, t), SameChains,
         UNCHANGED <<txn_state, wal>>, global_version' = global_version,
         SameAnswers(t), AnswersOK(t)',
         req'[h] = Idle, ~ HasStatus(t, {"Committing"})
  PROVE  Keeps
<1>1. HandlerOK(h)' /\ FreshOK(h)'
  BY Zenon, IdleOK
<1>2. StillHeld(h, t)
  BY DEF StillHeld, HasStatus
<1>3. global_version' >= global_version
  BY Numbers DEF TInv
<1> QED BY Zenon, <1>1, <1>2, <1>3, LogKept

(***************************************************************************)
(* A step that puts the state record of a transaction that has not         *)
(* finished.                                                               *)
(***************************************************************************)
LEMMA RecordPut ==
  ASSUME TInv, OInv, NEW h \in Handlers, NEW t \in TxnIds, Works(h, t), SameChains,
         UNCHANGED <<wal, answers, global_version>>, ~ Finished(t),
         NEW new, txn_state'[t] = new,
         published[t] # 0 => /\ new # NoRecord
                             /\ new.write_keys = txn_state[t].write_keys
                             /\ new.snapshot = txn_state[t].snapshot,
         new # NoRecord => \/ new.alloc = 0
                           \/ txn_state[t] # NoRecord /\ new.alloc = txn_state[t].alloc,
         TxnOK(t)', HandlerOK(h)', FreshOK(h)', StillHeld(h, t)
  PROVE  Keeps
<1>1. AllocOK(t) /\ TxnOK(t) /\ AnswersOK(t)
  BY Zenon DEF OInv, VersionsOK
<1>2. global_version >= 0 /\ global_version >= global_version
  BY Numbers DEF TInv
<1>3. AllocOK(t)'
  BY Zenon, <1>1, <1>2 DEF AllocOK, SameChains
<1>4. AnswersOK(t)'
  BY Zenon, <1>1 DEF AnswersOK, Finished, HasStatus
<1>5. RecordKept(h, t)
  BY Zenon, <1>1 DEF RecordKept, TxnOK
<1>6. LocalOK(h, t)
  BY Zenon, <1>3, <1>4, <1>5 DEF LocalOK, StillHeld
<1> QED BY Zenon, <1>2, <1>6, WorkKeeps DEF SameAnswers

-----------------------------------------------------------------------------
(***************************************************************************)
(* Every step of a request under way is a step of its handler.             *)
(***************************************************************************)
LEMMA ServeWorks ==
  ASSUME TInv, NEW h \in Handlers, NEW t \in TxnIds, req[h].t = t,
         Serve(h) \/ Fails(h)
  PROVE  Works(h, t)
BY ZenonT(60), StageSteps, CommitPutSteps, RepairSteps, NoteSteps, BeginSteps
   DEF Serve, Fails, Works

(***************************************************************************)
(* A request outside the steps that commit_lock guards works on a          *)
(* transaction that is not Committing.                                     *)
(***************************************************************************)
LEMMA NotCommitting ==
  ASSUME TInv, OInv, NEW h \in Handlers, req[h].pc \notin LockedPcs,
         req[h].pc # "idle"
  PROVE  ~ HasStatus(req[h].t, {"Committing"})
<1>1. HandlerOK(h) /\ BeginOK(h) /\ req[h].pc \in Pcs
  BY Zenon, Holds DEF Held, OInv, TInv, ControlOK, Requests
<1>2. CASE req[h].pc \in {"begin_put", "begin_unpin"}
  BY Zenon, <1>1, <1>2 DEF BeginOK, BeginPcs, HasStatus
<1>3. CASE req[h].pc \in CopyPcs \cup ActivePcs
  BY ZenonT(60), <1>1, <1>3 DEF HandlerOK, HasStatus
<1>4. req[h].pc \in {"begin_put", "begin_unpin"} \cup CopyPcs \cup ActivePcs
  BY <1>1 DEF Pcs, LockedPcs, BeginPcs, StagePcs, ReadPcs, CopyPcs, ActivePcs
<1> QED BY Zenon, <1>2, <1>3, <1>4

(* Moving from step p to step q with the same copy and version owes        *)
(* nothing new, but for the log.                                           *)
PcMoves(p, q) ==
  /\ q \in Pcs /\ q \notin {"idle", "load", "published_unpin"}
  /\ q \in CopyPcs => p \in CopyPcs
  /\ q \in ActivePcs => p \in ActivePcs \cup CopyPcs
  /\ q \in UnpublishedPcs => p \in UnpublishedPcs
  /\ q \in PublishedPcs => p \in PublishedPcs
  /\ q = "reconcile" => p \in {"load"} \cup UnpublishedPcs \cup PublishedPcs
  /\ q \in CommittedPcs => p \in CommittedPcs
  /\ q \in AbortedPcs => p \in AbortedPcs
  /\ q \in VersionPcs => p \in VersionPcs
  /\ q \in AllocatedPcs => p \in AllocatedPcs
  /\ q \in AppendPcs => p \in AppendPcs
  /\ p \in LockedPcs => q \in LockedPcs

PcKeeps(p, q) == PcMoves(p, q) /\ (q \in LoggedPcs => p \in LoggedPcs)

(***************************************************************************)
(* The moves from one call to the next that commit, begin, stage, read     *)
(* and abort make: none of them claims more of the record, the log or      *)
(* the chains than the call before did.                                    *)
(***************************************************************************)
LEMMA OutcomePcs ==
  /\ PcKeeps("begin_undo", "begin_delete") /\ PcKeeps("begin_put", "begin_unpin")
  /\ PcKeeps("begin_wal", "begin_undo")
  /\ PcKeeps("stage_entry", "stage_lock") /\ PcKeeps("stage_entry", "stage_keys")
  /\ PcKeeps("read_lock", "read_keys") /\ PcKeeps("versions", "committed_wal")
  /\ PcKeeps("memtable", "memtable") /\ PcKeeps("memtable", "hook")
  /\ PcKeeps("hook", "hook") /\ PcKeeps("abort_drop", "abort_wal")
  /\ \A p \in {"load", "ssi_wal", "ssi_put", "alloc", "check", "conflict_put",
               "alloc_put", "append", "versions", "committed_wal",
               "committed_put"} : PcKeeps(p, "reconcile")
  /\ PcMoves("stage_wal", "stage_entry") /\ PcMoves("ssi_wal", "ssi_put")
  /\ PcMoves("check", "conflict_put") /\ PcMoves("check", "alloc_put")
  /\ PcMoves("committed_wal", "committed_put")
  /\ PcMoves("unpublished_wal", "unpublished_put")
  /\ PcMoves("abort_wal", "abort_unpin")
BY ZenonT(60) DEF PcKeeps, PcMoves, Pcs, BeginPcs, StagePcs, ReadPcs, CommitPcs, RepairPcs, AbortPcs,
       CopyPcs, ActivePcs, UnpublishedPcs, PublishedPcs, CommittedPcs, AbortedPcs,
       VersionPcs, AllocatedPcs, LoggedPcs, AppendPcs, LockedPcs

(* Nothing the invariant speaks of changes but the request.                *)
Quiet == UNCHANGED <<txn_state, wal, answers, global_version>> /\ SameChains

(* The request keeps its transaction, copy and version.                    *)
SameCopy(h) ==
  req'[h].t = req[h].t /\ req'[h].rec = req[h].rec /\ req'[h].v = req[h].v

(***************************************************************************)
(* What the handler knows after such a move, and that it is still in the   *)
(* commit if its transaction is Committing.                                *)
(***************************************************************************)
LEMMA MoveOK ==
  ASSUME TInv, OInv, NEW h \in Handlers, NEW t \in TxnIds, Works(h, t),
         SameChains, UNCHANGED <<txn_state, global_version>>, SameCopy(h),
         PcMoves(req[h].pc, req'[h].pc),
         req'[h].pc \in LoggedPcs =>
           wal'[t] = [status |-> "Committing", keys |-> req[h].rec.write_keys]
  PROVE  HandlerOK(h)' /\ FreshOK(h)' /\ StillHeld(h, t)
<1>0. HandlerOK(h) /\ FreshOK(h) /\ req[h].t = t
  BY Zenon DEF OInv, Works
<1>1. /\ UNCHANGED <<txn_state, published, version_chains, global_version>>
      /\ req'[h].t = t /\ req[h].t = t
      /\ req'[h].rec = req[h].rec /\ req'[h].v = req[h].v
  BY Zenon, <1>0 DEF SameChains, SameCopy
<1>2. /\ req'[h].pc \in CopyPcs =>
           txn_state[t] = req[h].rec /\ req[h].rec.status = "Active"
      /\ req'[h].pc \in ActivePcs => HasStatus(t, {"Active"})
      /\ req'[h].pc \in CommittedPcs =>
           txn_state[t] = [req[h].rec EXCEPT !.status = "Committed"]
      /\ req'[h].pc \notin {"load", "published_unpin"}
      /\ req'[h].pc \in AbortedPcs => HasStatus(t, {"Aborted"})
  <2>1. req[h].pc \in CopyPcs => HasStatus(t, {"Active"})
    BY Zenon, <1>0, CopiesAreRecords DEF HandlerOK, HasStatus
  <2> QED BY Zenon, <1>0, <1>1, <2>1 DEF PcMoves, HandlerOK
<1>3. /\ req'[h].pc \in UnpublishedPcs \cup PublishedPcs =>
           txn_state[t] = req[h].rec /\ req[h].rec.status = "Committing"
      /\ req'[h].pc = "reconcile" => HasStatus(t, {"Committing"})
      /\ req'[h].pc \in UnpublishedPcs => published[t] = 0
      /\ req'[h].pc \in PublishedPcs => published[t] = req[h].rec.alloc
      /\ req'[h].pc \in PublishedPcs \cup {"reconcile"} /\ published[t] # 0 =>
           EntriesOnTop(t)
  <2>1. req[h].pc \in {"load"} \cup UnpublishedPcs \cup PublishedPcs =>
          HasStatus(t, {"Committing"})
    BY ZenonT(60), <1>0, CopiesAreRecords DEF HandlerOK, HasStatus
  <2> QED BY Zenon, <1>0, <1>1, <2>1 DEF PcMoves, HandlerOK
<1>4. /\ req'[h].pc \in VersionPcs =>
           IF req[h].rec.write_keys = {} THEN req[h].v = req[h].rec.snapshot
           ELSE req[h].v # 0
      /\ req'[h].pc \in AllocatedPcs => req[h].rec.alloc = AllocOf(h)
  BY <1>0, <1>1 DEF PcMoves, HandlerOK
<1>5. AllocOf(h)' = AllocOf(h) /\ EntriesOnTop(t)' = EntriesOnTop(t)
  BY ZenonT(60), <1>1 DEF AllocOf, EntriesOnTop
<1>6. HandlerOK(h)'
  BY ZenonT(60), <1>1, <1>2, <1>3, <1>4, <1>5 DEF HandlerOK, HasStatus
<1>7. FreshOK(h)'
  BY Zenon, <1>0, <1>1 DEF PcMoves, FreshOK
<1>8. StillHeld(h, t)
  <2>1. req[h].pc # "idle"
    BY Zenon DEF Works, StepOK, WorkStep, ReqStep, Begins, BeginStep, BeginPcs
  <2> QED BY ZenonT(60), <1>0, <1>1, <2>1, NotCommitting DEF StillHeld, PcMoves, HasStatus
<1> QED BY Zenon, <1>6, <1>7, <1>8

(***************************************************************************)
(* Quiet steps: to a step that owes nothing new, or to the end.            *)
(***************************************************************************)
LEMMA QuietMove ==
  ASSUME TInv, OInv, NEW h \in Handlers, NEW t \in TxnIds, Works(h, t), Quiet,
         SameCopy(h), PcKeeps(req[h].pc, req'[h].pc)
  PROVE  Keeps
<1>1. HandlerOK(h) /\ AnswersOK(t) /\ req[h].t = t
  BY Zenon DEF OInv, Works
<1>2. req'[h].pc \in LoggedPcs =>
        wal'[t] = [status |-> "Committing", keys |-> req[h].rec.write_keys]
  BY <1>1 DEF PcKeeps, HandlerOK, Quiet
<1>3. HandlerOK(h)' /\ FreshOK(h)' /\ StillHeld(h, t)
  BY Zenon, <1>2, MoveOK DEF Quiet, PcKeeps
<1>4. AnswersOK(t)'
  BY Zenon, <1>1 DEF Quiet, AnswersOK, HasStatus
<1>5. global_version' >= global_version
  BY Numbers DEF TInv, Quiet
<1> QED BY ZenonT(60), <1>3, <1>4, <1>5, LogKept DEF Quiet, SameAnswers

(***************************************************************************)
(* The same for a request that also gives no answer to a commit.           *)
(***************************************************************************)
LEMMA QuietEnd ==
  ASSUME TInv, OInv, NEW h \in Handlers, NEW t \in TxnIds, Works(h, t), Quiet,
         req'[h] = Idle, ~ HasStatus(t, {"Committing"})
  PROVE  Keeps
<1>1. AnswersOK(t)'
  BY Zenon DEF Quiet, AnswersOK, HasStatus, OInv
<1> QED BY <1>1, RequestEnds DEF Quiet, SameAnswers

(***************************************************************************)
(* The quiet steps of begin, stage, read and abort, and those of commit    *)
(* that keep the copy of the record.                                       *)
(***************************************************************************)
LEMMA QuietSteps ==
  ASSUME TInv, OInv, NEW h \in Handlers, NEW t \in TxnIds, Works(h, t)
  PROVE  /\ BeginUnpin(h) \/ BeginFails(h) => Keeps
         /\ StageEntry(h) \/ StageLock(h) \/ StageFails(h) => Keeps
         /\ ReadLock(h) => Keeps
         /\ PutVersions(h) \/ CommitFails(h) => Keeps
         /\ PublishMemtable(h) \/ CommitMark(h) => Keeps
         /\ CommitHook(h) \/ HookFails(h) => Keeps
         /\ ReconcileUnpin(h) => Keeps
         /\ AbortDrop(h) \/ AbortUnpin(h) \/ AbortFails(h) => Keeps
<1>0. /\ req \in [Handlers -> Requests] /\ HandlerOK(h) /\ req[h].t = t
      /\ req[h].pc # "idle" /\ req[h].keys \in SUBSET Keys /\ pending[t] \in SUBSET Keys
  BY Zenon, Holds DEF Held, TInv, TypeOK, OInv, Works, StepOK, WorkStep, ReqStep, Begins,
               BeginStep, BeginPcs
<1>g. ASSUME NEW q \in Pcs, Goto(h, q), PcKeeps(req[h].pc, q), Quiet
      PROVE  Keeps
  <2> USE <1>g
  <2>1. SameCopy(h) /\ req'[h].pc = q
    BY Zenon, <1>0, GotoSpec DEF RequestBecomes, SameCopy
  <2> QED BY Zenon, <2>1, QuietMove
<1>d. ASSUME Done(h), Quiet, req[h].pc \notin LockedPcs \/ HasStatus(t, {"Committed", "Aborted"})
      PROVE  Keeps
  <2> USE <1>d
  <2>1. req'[h] = Idle
    BY Zenon, <1>0, DoneSpec
  <2>2. ~ HasStatus(t, {"Committing"})
    BY Zenon, <1>0, NotCommitting DEF HasStatus
  <2> QED BY ZenonT(60), <2>1, <2>2, QuietEnd
<1>p. \A p, q : PcKeeps(p, q) => q \in Pcs
  BY DEF PcKeeps, PcMoves
<1>q. /\ \/ BeginUnpin(h) \/ BeginFails(h) \/ StageEntry(h) \/ StageLock(h)
         \/ StageFails(h) \/ ReadLock(h) \/ PutVersions(h) \/ CommitFails(h)
         \/ PublishMemtable(h) \/ CommitMark(h) \/ CommitHook(h) \/ HookFails(h)
         \/ ReconcileUnpin(h) \/ AbortDrop(h) \/ AbortUnpin(h) \/ AbortFails(h)
      => Quiet
  BY Zenon DEF BeginUnpin, BeginFails, StageEntry, StageLock, StageFails, ReadLock,
         PutVersions, CommitFails, PublishMemtable, CommitMark, CommitHook,
         HookFails, ReconcileUnpin, AbortDrop, AbortUnpin, AbortFails, Fault,
         Quiet, SameChains, store_vars, txn_vars, mvcc_vars, env_vars, ghost_vars
<1>1. ASSUME BeginUnpin(h) \/ BeginFails(h) PROVE Keeps
  <2>1. "begin_unpin" \notin LockedPcs
    BY Zenon DEF LockedPcs, CommitPcs, RepairPcs, AbortPcs
  <2> QED BY ZenonT(60), <1>1, <1>g, <1>d, <1>p, <1>q, <2>1, OutcomePcs
          DEF BeginUnpin, BeginFails, At
<1>2. ASSUME StageEntry(h) \/ StageLock(h) \/ StageFails(h) \/ ReadLock(h)
      PROVE  Keeps
  <2>1. {"stage_wal", "stage_entry", "stage_keys", "stage_lock", "read_lock",
         "read_keys", "heartbeat_put"} \cap LockedPcs = {}
    BY DEF LockedPcs, CommitPcs, RepairPcs, AbortPcs
  <2>2. CASE StageEntry(h)
    BY ZenonT(60), <1>g, <1>p, <1>q, <2>2, OutcomePcs DEF StageEntry, At
  <2>3. CASE StageLock(h) \/ StageFails(h)
    <3> USE <2>3
    <3>1. Done(h) /\ req[h].pc \notin LockedPcs
      BY Zenon, <2>1 DEF StageLock, StageFails, At
    <3> QED BY ZenonT(60), <1>d, <1>q, <3>1
  <2>4. CASE ReadLock(h)
    BY ZenonT(60), <1>d, <1>g, <1>p, <1>q, <2>1, <2>4, OutcomePcs DEF ReadLock, At
  <2> QED BY ZenonT(60), <1>2, <2>2, <2>3, <2>4
<1>3. ASSUME PutVersions(h) \/ CommitFails(h) PROVE Keeps
  BY ZenonT(60), <1>3, <1>g, <1>p, <1>q, OutcomePcs DEF PutVersions, CommitFails, At
<1>4. ASSUME NEW keys \in SUBSET Keys, SetKeys(h, keys), Quiet,
             req[h].pc \in {"memtable", "hook"}
      PROVE  Keeps
  <2> USE <1>4
  <2>1. SameCopy(h) /\ req'[h].pc = req[h].pc
    BY Zenon, <1>0, RequestWrites DEF SetKeysOK, RequestBecomes, SameCopy
  <2> QED BY ZenonT(60), <2>1, QuietMove, OutcomePcs
<1>5. ASSUME PublishMemtable(h) \/ CommitHook(h) \/ HookFails(h)
      PROVE  Keeps
  <2> USE <1>5
  <2>1. \E k \in req[h].keys : SetKeys(h, req[h].keys \ {k})
    BY Zenon DEF PublishMemtable, CommitHook, HookFails, SetKeys
  <2>2. \A k : req[h].keys \ {k} \in SUBSET Keys
    BY <1>0
  <2>3. req[h].pc \in {"memtable", "hook"}
    BY Zenon DEF PublishMemtable, CommitHook, HookFails, At
  <2> QED BY ZenonT(60), <1>4, <1>q, <2>1, <2>2, <2>3
<1>6. ASSUME CommitMark(h) PROVE Keeps
  <2> USE <1>6
  <2>1. SetPcKeys(h, "hook", pending[t]) /\ req[h].pc = "memtable"
    BY Zenon, <1>0 DEF CommitMark, SetPcKeys, At
  <2>2. PcKeeps("memtable", "hook") /\ "hook" \in Pcs
    BY <1>p, OutcomePcs
  <2>3. SameCopy(h) /\ req'[h].pc = "hook"
    BY ZenonT(60), <1>0, <2>1, <2>2, RequestWrites DEF SetPcKeysOK, RequestBecomes, SameCopy
  <2> QED BY ZenonT(60), <1>q, <2>1, <2>2, <2>3, QuietMove
<1>7. ASSUME ReconcileUnpin(h) \/ AbortUnpin(h) \/ AbortFails(h)
      PROVE  Keeps
  <2> USE <1>7
  <2>1. Done(h)
    BY DEF ReconcileUnpin, AbortUnpin, AbortFails, Releases
  <2>2. req[h].pc \in {"published_unpin"} \cup AbortedPcs
    BY Zenon DEF ReconcileUnpin, AbortUnpin, AbortFails, At, AbortedPcs, AbortPcs
  <2>3. HasStatus(t, {"Committed", "Aborted"})
    BY <1>0, <2>2 DEF HandlerOK, HasStatus
  <2> QED BY ZenonT(60), <1>d, <1>q, <2>1, <2>3
<1>8. ASSUME AbortDrop(h) PROVE Keeps
  BY ZenonT(60), <1>8, <1>g, <1>p, <1>q, OutcomePcs DEF AbortDrop, At
<1> QED BY ZenonT(60), <1>1, <1>2, <1>3, <1>5, <1>6, <1>7, <1>8

-----------------------------------------------------------------------------
(* The log of a Committing transaction is written in agreement with the    *)
(* chains, and that of an Active one does not tell of a commit.            *)
LogAgrees(t) ==
  /\ HasStatus(t, {"Active"}) => wal'[t].status \notin {"Committing", "Committed"}
  /\ HasStatus(t, {"Committing"}) =>
       \/ wal'[t].status \in {"Committing", "Aborted"} /\ published[t] = 0
       \/ wal'[t].status = "Committed" /\ published[t] = txn_state[t].alloc

SameButLog == UNCHANGED <<txn_state, answers, global_version>> /\ SameChains

(***************************************************************************)
(* A step that writes the log of its transaction.                          *)
(***************************************************************************)
LEMMA LogWritten ==
  ASSUME TInv, OInv, NEW h \in Handlers, NEW t \in TxnIds, Works(h, t),
         SameButLog, LogAgrees(t), HandlerOK(h)', FreshOK(h)', StillHeld(h, t)
  PROVE  Keeps
<1>1. TxnOK(t) /\ AnswersOK(t)
  BY DEF OInv
<1>2. TxnOK(t)'
  BY Zenon, <1>1 DEF TxnOK, HasStatus, EntriesOnTop, SameButLog, SameChains, LogAgrees
<1>3. AnswersOK(t)'
  BY Zenon, <1>1 DEF SameButLog, AnswersOK, HasStatus
<1>4. global_version' >= global_version
  BY Numbers DEF TInv, SameButLog
<1> QED BY ZenonT(60), <1>2, <1>3, <1>4, StateKept DEF SameButLog, SameAnswers

(***************************************************************************)
(* begin and stage open the log, commit and abort end it; the Committing   *)
(* record is logged before there is an entry in the chains, Committed only *)
(* after, Aborted only if there is none.                                   *)
(***************************************************************************)
LEMMA LogSteps ==
  ASSUME TInv, OInv, NEW h \in Handlers, NEW t \in TxnIds, Works(h, t)
  PROVE  /\ BeginWal(h) \/ StageWal(h) => Keeps
         /\ SsiWal(h) \/ UnpublishedWal(h) \/ AbortWal(h) => Keeps
         /\ CommitCheck(h) \/ CommittedWal(h) => Keeps
<1>0. /\ req \in [Handlers -> Requests] /\ HandlerOK(h) /\ req[h].t = t
      /\ TxnStoreTypeOK /\ TxnOK(t)
  BY Zenon, Holds DEF Held, TInv, TypeOK, OInv, Works
<1>o. ASSUME AppendWalOpen(t), HasStatus(t, {"Active"}) PROVE LogAgrees(t)
  <2>1. wal'[t].status \in {"Active", wal[t].status}
    BY Zenon, <1>0, <1>o, AppendWalOpenSpec
  <2>2. wal[t].status \notin {"Committing", "Committed"}
    BY Zenon, <1>0, <1>o DEF TxnOK
  <2> QED BY Zenon, <1>o, <2>1, <2>2 DEF LogAgrees, HasStatus
<1>g. ASSUME NEW q \in Pcs, Goto(h, q), PcMoves(req[h].pc, q), SameButLog,
             LogAgrees(t),
             q = "alloc_put" =>
               wal'[t] = [status |-> "Committing", keys |-> req[h].rec.write_keys],
             q \in LoggedPcs => q = "alloc_put"
      PROVE  Keeps
  <2> USE <1>g
  <2>1. SameCopy(h) /\ req'[h].pc = q
    BY Zenon, <1>0, GotoSpec DEF RequestBecomes, SameCopy
  <2>2. HandlerOK(h)' /\ FreshOK(h)' /\ StillHeld(h, t)
    BY Zenon, <2>1, MoveOK DEF SameButLog
  <2> QED BY Zenon, <2>2, LogWritten
<1>q. /\ \/ BeginWal(h) \/ StageWal(h) \/ SsiWal(h) \/ UnpublishedWal(h)
         \/ AbortWal(h) \/ CommitCheck(h) \/ CommittedWal(h)
      => SameButLog
  BY Zenon DEF BeginWal, StageWal, SsiWal, UnpublishedWal, AbortWal, CommitCheck,
         CommittedWal, SameButLog, SameChains, store_vars, env_vars, ghost_vars
<1>p. \A p, q : PcMoves(p, q) => q \in Pcs
  BY DEF PcMoves
<1>l. {"stage_entry", "ssi_put", "unpublished_put", "abort_unpin", "conflict_put",
       "committed_put"} \cap LoggedPcs = {}
  BY DEF LoggedPcs
<1>1. ASSUME BeginWal(h) PROVE Keeps
  <2> USE <1>1
  <2>1. req'[h] = Idle /\ req[h].pc = "begin_wal"
    BY Zenon, <1>0, DoneSpec DEF BeginWal, At
  <2>2. HandlerOK(h)' /\ FreshOK(h)'
    BY Zenon, <2>1, IdleOK
  <2>3. HasStatus(t, {"Active"})
    BY Zenon, <1>0, <2>1 DEF HandlerOK, ActivePcs
  <2>4. StillHeld(h, t)
    BY Zenon, <1>q, <2>3 DEF StillHeld, HasStatus, SameButLog
  <2>5. LogAgrees(t)
    BY Zenon, <1>0, <1>o, <2>3 DEF BeginWal
  <2> QED BY ZenonT(60), <1>q, <2>2, <2>4, <2>5, LogWritten
<1>2. ASSUME StageWal(h) PROVE Keeps
  <2> USE <1>2
  <2>1. Goto(h, "stage_entry") /\ req[h].pc = "stage_wal"
    BY Zenon DEF StageWal, At
  <2>2. HasStatus(t, {"Active"})
    BY ZenonT(60), <1>0, <2>1, CopiesAreRecords DEF HandlerOK, CopyPcs, HasStatus
  <2>3. LogAgrees(t)
    BY Zenon, <1>0, <1>o, <2>2 DEF StageWal
  <2> QED BY ZenonT(60), <1>g, <1>q, <1>p, <1>l, <2>1, <2>3, OutcomePcs
<1>3. ASSUME NEW p \in {"ssi_wal", "unpublished_wal", "check", "abort_wal"},
             req[h].pc = p, AppendWalOutcome(t, "Aborted")
      PROVE  LogAgrees(t)
  <2> USE <1>3
  <2>1. wal'[t].status = "Aborted"
    BY Zenon, <1>0, AppendWalOutcomeSpec DEF TxnStatus
  <2>2. p # "abort_wal" => published[t] = 0
    BY Zenon, <1>0 DEF HandlerOK, UnpublishedPcs
  <2>3. p = "abort_wal" => ~ HasStatus(t, {"Committing"})
    BY <1>0 DEF HandlerOK, AbortedPcs, AbortPcs, HasStatus
  <2> QED BY ZenonT(60), <2>1, <2>2, <2>3 DEF LogAgrees
<1>4. ASSUME SsiWal(h) PROVE Keeps
  <2> USE <1>4
  <2>1. /\ Goto(h, "ssi_put") /\ req[h].pc = "ssi_wal"
        /\ AppendWalOutcome(t, "Aborted")
    BY Zenon, <1>0 DEF SsiWal, At
  <2>2. LogAgrees(t)
    BY Zenon, <1>3, <2>1
  <2> QED BY ZenonT(60), <1>g, <1>q, <1>p, <1>l, <2>1, <2>2, OutcomePcs
<1>5. ASSUME UnpublishedWal(h) PROVE Keeps
  <2> USE <1>5
  <2>1. /\ Goto(h, "unpublished_put") /\ req[h].pc = "unpublished_wal"
        /\ AppendWalOutcome(t, "Aborted")
    BY Zenon, <1>0 DEF UnpublishedWal, At
  <2>2. LogAgrees(t)
    BY Zenon, <1>3, <2>1
  <2> QED BY ZenonT(60), <1>g, <1>q, <1>p, <1>l, <2>1, <2>2, OutcomePcs
<1>6. ASSUME AbortWal(h) PROVE Keeps
  <2> USE <1>6
  <2>1. /\ Goto(h, "abort_unpin") /\ req[h].pc = "abort_wal"
        /\ AppendWalOutcome(t, "Aborted")
    BY Zenon, <1>0 DEF AbortWal, At
  <2>2. LogAgrees(t)
    BY Zenon, <1>3, <2>1
  <2> QED BY ZenonT(60), <1>g, <1>q, <1>p, <1>l, <2>1, <2>2, OutcomePcs
<1>7. ASSUME CommitCheck(h) PROVE Keeps
  <2> USE <1>7
  <2>0. req[h].pc = "check"
    BY Zenon DEF CommitCheck, At
  <2>1. CASE Goto(h, "conflict_put") /\ AppendWalOutcome(t, "Aborted")
    <3> USE <2>1
    <3>1. LogAgrees(t)
      BY ZenonT(60), <1>3, <2>0
    <3> QED BY ZenonT(60), <1>g, <1>q, <1>p, <1>l, <2>0, <3>1, OutcomePcs
  <2>2. CASE Goto(h, "alloc_put") /\ AppendWalCommitting(t, req[h].rec.write_keys)
    <3> USE <2>2
    <3>1. wal'[t] = [status |-> "Committing", keys |-> req[h].rec.write_keys]
      BY ZenonT(60), <1>0 DEF AppendWalCommitting, TxnStoreTypeOK
    <3>2. wal'[t].status = "Committing"
      BY <3>1
    <3>3. published[t] = 0 /\ ~ HasStatus(t, {"Active"})
      BY ZenonT(60), <1>0, <2>0 DEF HandlerOK, UnpublishedPcs, HasStatus
    <3>4. LogAgrees(t)
      BY <3>2, <3>3 DEF LogAgrees
    <3> QED BY ZenonT(60), <1>g, <1>q, <1>p, <2>0, <3>1, <3>4, OutcomePcs
  <2> QED BY ZenonT(60), <1>0, <2>1, <2>2 DEF CommitCheck
<1>8. ASSUME CommittedWal(h) PROVE Keeps
  <2> USE <1>8
  <2>1. /\ Goto(h, "committed_put") /\ req[h].pc = "committed_wal"
        /\ AppendWalOutcome(t, "Committed")
    BY Zenon, <1>0 DEF CommittedWal, At
  <2>2. wal'[t].status = "Committed"
    BY ZenonT(60), <1>0, <2>1, AppendWalOutcomeSpec DEF TxnStatus
  <2>3. published[t] = txn_state[t].alloc /\ ~ HasStatus(t, {"Active"})
    BY <1>0, <2>1 DEF HandlerOK, PublishedPcs, HasStatus
  <2>4. LogAgrees(t)
    BY ZenonT(60), <2>2, <2>3 DEF LogAgrees
  <2> QED BY ZenonT(60), <1>g, <1>q, <1>p, <1>l, <2>1, <2>4, OutcomePcs
<1> QED BY ZenonT(60), <1>1, <1>2, <1>4, <1>5, <1>6, <1>7, <1>8

-----------------------------------------------------------------------------
(***************************************************************************)
(* read, commit and the repair take a copy of the record; commit allocates *)
(* its version, newer than any other.                                      *)
(***************************************************************************)
LEMMA CopySteps ==
  ASSUME TInv, OInv, NEW h \in Handlers, NEW t \in TxnIds, Works(h, t)
  PROVE  /\ ReadEdges(h) => Keeps
         /\ CommitLoad(h) => Keeps
         /\ Reconcile(h) => Keeps
         /\ CommitAlloc(h) => Keeps
<1>0. /\ req \in [Handlers -> Requests] /\ HandlerOK(h) /\ req[h].t = t
      /\ TxnOK(t) /\ AnswersOK(t) /\ req[h].keys \in SUBSET Keys
      /\ req[h].v \in Versions
  BY Zenon, Holds DEF Held, TInv, TypeOK, OInv, Works
<1>a. /\ txn_state[t] # NoRecord => txn_state[t] \in TxnStateRecord
      /\ write_set[t] \in SUBSET Keys
  BY Zenon DEF TInv, TypeOK, TxnStoreTypeOK
<1>b. ASSUME Quiet, HandlerOK(h)', FreshOK(h)', StillHeld(h, t)
      PROVE  Keeps
  <2> USE <1>b
  <2>1. AnswersOK(t)'
    BY ZenonT(60), <1>0 DEF Quiet, AnswersOK, HasStatus
  <2>2. global_version' >= global_version
    BY Numbers DEF TInv, Quiet
  <2> QED BY ZenonT(60), <2>1, <2>2, LogKept DEF Quiet, SameAnswers
<1>q. /\ ReadEdges(h) \/ CommitLoad(h) \/ Reconcile(h) => Quiet
  BY Zenon DEF ReadEdges, CommitLoad, Reconcile, Quiet, SameChains, store_vars,
               txn_vars, env_vars, ghost_vars
<1>1. ASSUME ReadEdges(h) PROVE Keeps
  <2> USE <1>1
  <2>1. req[h].pc = "read_edges"
    BY Zenon DEF ReadEdges, At
  <2>2. HasStatus(t, {"Active"})
    BY Zenon, <1>0, <2>1 DEF HandlerOK, ActivePcs
  <2>3. PICK edges \in SUBSET TxnIds :
          SetPcRecEdges(h, "read_lock", txn_state[t], edges)
    <3>1. NewInEdges(req[h].k, req[h].v) \in SUBSET TxnIds
      BY <2>1, Holds DEF Held, NewInEdges, TInv, TypeOK, SiTypeOK
    <3> QED BY ZenonT(60), <1>0, <2>2, <3>1 DEF ReadEdges, SetPcRecEdges
  <2>4. /\ req'[h].pc = "read_lock" /\ req'[h].t = t /\ req'[h].rec = txn_state[t]
    <3>1. "read_lock" \in Pcs /\ txn_state[t] \in TxnStateRecord
      BY Zenon, <1>a, <2>2 DEF Pcs, ReadPcs, HasStatus
    <3>2. SetPcRecEdgesOK(h)
      BY Zenon, <1>0, RequestWrites
    <3> QED BY ZenonT(60), <2>3, <3>1, <3>2, <1>0 DEF SetPcRecEdgesOK, RequestBecomes
  <2>5. HandlerOK(h)' /\ FreshOK(h)'
    BY ZenonT(60), <1>q, <2>2, <2>4
       DEF HandlerOK, FreshOK, Quiet, HasStatus, CopyPcs, ActivePcs, UnpublishedPcs,
           PublishedPcs, CommittedPcs, AbortedPcs, AbortPcs, VersionPcs,
           AllocatedPcs, LoggedPcs, AppendPcs
  <2>6. StillHeld(h, t)
    BY Zenon, <1>q, <2>2 DEF StillHeld, HasStatus, Quiet
  <2> QED BY ZenonT(60), <1>b, <1>q, <2>5, <2>6
<1>2. ASSUME CommitLoad(h) PROVE Keeps
  <2> USE <1>2
  <2>1. req[h].pc = "load"
    BY Zenon DEF CommitLoad, At
  <2>2. HasStatus(t, {"Committing"}) /\ published[t] = 0
    BY Zenon, <1>0, <2>1 DEF HandlerOK
  <2>3. PICK q \in {"ssi_wal", "alloc"} :
          SetRecKeysPc(h, txn_state[t], write_set[t], q)
    BY Zenon, <1>0 DEF CommitLoad, SetRecKeysPc
  <2>4. /\ req'[h].pc = q /\ req'[h].t = t /\ req'[h].rec = txn_state[t]
    <3>1. q \in Pcs /\ txn_state[t] \in TxnStateRecord
      BY Zenon, <1>a, <2>2 DEF Pcs, CommitPcs, HasStatus
    <3>2. SetRecKeysPcOK(h)
      BY ZenonT(60), <1>0, RequestWrites
    <3> QED BY ZenonT(60), <1>0, <1>a, <2>3, <3>1, <3>2 DEF SetRecKeysPcOK, RequestBecomes
  <2>5. HandlerOK(h)' /\ FreshOK(h)'
    BY ZenonT(60), <1>q, <2>2, <2>4
       DEF HandlerOK, FreshOK, Quiet, SameChains, HasStatus, CopyPcs, ActivePcs,
           UnpublishedPcs, PublishedPcs, CommittedPcs, AbortedPcs, AbortPcs,
           VersionPcs, AllocatedPcs, LoggedPcs, AppendPcs
  <2>6. StillHeld(h, t)
    BY <2>4 DEF StillHeld, LockedPcs, CommitPcs
  <2> QED BY ZenonT(60), <1>b, <1>q, <2>5, <2>6
<1>3. ASSUME Reconcile(h) PROVE Keeps
  <2> USE <1>3
  <2>1. req[h].pc = "reconcile"
    BY DEF Reconcile, At
  <2>2. /\ HasStatus(t, {"Committing"})
        /\ published[t] # 0 => EntriesOnTop(t)
    BY <1>0, <2>1 DEF HandlerOK
  <2>3. SetRecPc(h, txn_state[t], IF PublishedInChains(t, txn_state[t])
                                  THEN "published_put" ELSE "unpublished_wal")
    BY ZenonT(60), <1>0, <2>2 DEF Reconcile, SetRecPc
  <2>4. /\ req'[h].pc = IF PublishedInChains(t, txn_state[t])
                        THEN "published_put" ELSE "unpublished_wal"
        /\ req'[h].t = t /\ req'[h].rec = txn_state[t]
    <3>1. /\ "published_put" \in Pcs /\ "unpublished_wal" \in Pcs
          /\ txn_state[t] \in TxnStateRecord
      BY ZenonT(60), <1>a, <2>2 DEF Pcs, RepairPcs, HasStatus
    <3> QED BY ZenonT(60), <1>0, <2>3, <3>1, RequestWrites DEF SetRecPcOK, RequestBecomes
  <2>5. /\ PublishedInChains(t, txn_state[t]) => published[t] = txn_state[t].alloc
        /\ ~ PublishedInChains(t, txn_state[t]) => published[t] = 0
    <3> DEFINE rec == txn_state[t]
    <3>1. /\ rec.write_keys \in SUBSET Keys
          /\ rec.alloc # 0 => rec.write_keys # {}
          /\ published[t] \in {0, rec.alloc}
      BY ZenonT(60), <1>0, <1>a, <2>2 DEF TxnOK, HasStatus, TxnStateRecord
    <3>2. ASSUME PublishedInChains(t, rec) PROVE published[t] = rec.alloc
      <4> USE <3>2
      <4>1. PICK k \in rec.write_keys : TRUE
        BY Zenon, <3>1 DEF PublishedInChains
      <4>2. PICK i \in 1 .. Len(version_chains[k]) :
              version_chains[k][i] = [cv |-> rec.alloc, txn |-> t]
        BY ZenonT(60), <4>1 DEF PublishedInChains
      <4>3. [cv |-> rec.alloc, txn |-> t] \in EntriesOf(version_chains[k])
        BY <4>2 DEF EntriesOf
      <4> QED BY ZenonT(60), <3>1, <4>3 DEF OInv, ChainsOK
    <3>3. ASSUME published[t] # 0 PROVE PublishedInChains(t, rec)
      <4>1. EntriesOnTop(t) /\ rec.alloc # 0
        BY ZenonT(60), <2>2, <3>1, <3>3
      <4>2. ASSUME NEW k \in rec.write_keys
            PROVE  \E i \in 1 .. Len(version_chains[k]) :
                     version_chains[k][i] = [cv |-> rec.alloc, txn |-> t]
        <5>1. version_chains[k] \in Seq(Entries) /\ version_chains[k] # <<>>
          BY ZenonT(60), <3>1, <4>1 DEF EntriesOnTop, TInv, TypeOK, StoreTypeOK
        <5>2. Len(version_chains[k]) \in 1 .. Len(version_chains[k])
          BY <5>1
        <5> QED BY ZenonT(60), <4>1, <5>2 DEF EntriesOnTop
      <4> QED BY ZenonT(60), <4>1, <4>2 DEF PublishedInChains
    <3> QED BY ZenonT(60), <3>2, <3>3
  <2>6. HandlerOK(h)' /\ FreshOK(h)'
    BY ZenonT(60), <1>q, <2>2, <2>4, <2>5
       DEF HandlerOK, FreshOK, Quiet, SameChains, HasStatus, CopyPcs, ActivePcs,
           UnpublishedPcs, PublishedPcs, CommittedPcs, AbortedPcs, AbortPcs,
           VersionPcs, AllocatedPcs, LoggedPcs, AppendPcs, EntriesOnTop
  <2>7. StillHeld(h, t)
    BY <2>4 DEF StillHeld, LockedPcs, RepairPcs
  <2> QED BY ZenonT(60), <1>b, <1>q, <2>6, <2>7
<1>4. ASSUME CommitAlloc(h) PROVE Keeps
  <2> USE <1>4
  <2>1. /\ req[h].pc = "alloc" /\ req[h].rec \in TxnStateRecord
        /\ req[h].rec.snapshot \in Versions
    BY Holds DEF Held, CommitAlloc, At
  <2>2. /\ txn_state[t] = req[h].rec /\ req[h].rec.status = "Committing"
        /\ published[t] = 0
    BY <1>0, <2>1 DEF HandlerOK, UnpublishedPcs
  <2>3. UNCHANGED <<txn_state, wal, answers>> /\ SameChains
    BY DEF CommitAlloc, SameChains, txn_vars, env_vars, ghost_vars
  <2>4. PICK v \in Versions :
          /\ SetPcV(h, "check", v)
          /\ IF req[h].rec.write_keys = {}
             THEN v = req[h].rec.snapshot /\ global_version' = global_version
             ELSE v = global_version + 1 /\ global_version' = global_version + 1
    <3>1. StoreTypeOK /\ 0 \in Versions
      BY MaxVersionAssumption DEF TInv, TypeOK, Versions
    <3>2. NextGlobalVersion => /\ global_version' \in Versions
                               /\ global_version' = global_version + 1
      BY <3>1, MaxVersionAssumption DEF NextGlobalVersion, StoreTypeOK, Versions
    <3> QED BY ZenonT(60), <2>1, <3>2 DEF CommitAlloc, SetPcV
  <2>5. /\ req'[h].pc = "check" /\ req'[h].t = t /\ req'[h].rec = req[h].rec
        /\ req'[h].v = v
    <3>1. "check" \in Pcs
      BY DEF Pcs, CommitPcs
    <3> QED BY ZenonT(60), <1>0, <2>4, <3>1, RequestWrites DEF SetPcVOK, RequestBecomes
  <2>6. /\ global_version \in Nat /\ global_version' >= global_version
        /\ req[h].rec.write_keys # {} => v = global_version + 1 /\ v # 0
                                         /\ global_version' = global_version + 1
    BY <2>4, Numbers DEF TInv
  <2>7. HandlerOK(h)'
    BY ZenonT(60), <2>2, <2>3, <2>4, <2>5, <2>6
       DEF HandlerOK, SameChains, HasStatus, CopyPcs, ActivePcs, UnpublishedPcs,
           PublishedPcs, CommittedPcs, AbortedPcs, AbortPcs, VersionPcs,
           AllocatedPcs, LoggedPcs
  <2>8. FreshOK(h)'
    <3> SUFFICES ASSUME req[h].rec.write_keys # {}
                 PROVE  /\ v <= global_version'
                        /\ \A u \in TxnIds :
                             /\ published[u] < v
                             /\ u # t /\ txn_state[u] # NoRecord =>
                                  txn_state[u].alloc < v
      BY Zenon, <2>3, <2>5 DEF FreshOK, SameChains
    <3>1. \A u \in TxnIds :
            /\ published[u] \in Nat /\ published[u] <= global_version
            /\ txn_state[u] # NoRecord =>
                 txn_state[u].alloc \in Nat /\ txn_state[u].alloc <= global_version
      BY Zenon, Numbers DEF TInv, OInv, VersionsOK, AllocOK
    <3> QED BY <2>6, <3>1
  <2>9. StillHeld(h, t)
    BY Zenon, <2>5 DEF StillHeld, LockedPcs, CommitPcs
  <2>10. AnswersOK(t)'
    BY Zenon, <1>0, <2>3 DEF AnswersOK, HasStatus
  <2> QED BY ZenonT(60), <2>3, <2>6, <2>7, <2>8, <2>9, <2>10, LogKept DEF SameAnswers
<1> QED BY ZenonT(60), <1>1, <1>2, <1>3, <1>4

-----------------------------------------------------------------------------
(***************************************************************************)
(* What the invariant says when nothing is under way, and of every answer  *)
(* of commit.                                                              *)
(***************************************************************************)
LEMMA OutcomeFacts ==
  ASSUME TInv, OInv
  PROVE  /\ OutcomeMatchesChains /\ FirstCommitterWins
         /\ CommitAnswersAgree /\ LeftCommittingIsDecided
         /\ NotLeftCommitting
<1>1. \A t \in TxnIds : TxnOK(t) /\ DecidedOK(t) /\ AnswersOK(t)
  BY Zenon DEF OInv
<1>2. OutcomeMatchesChains
  BY Zenon, <1>1 DEF TxnOK, OutcomeMatchesChains, HasStatus
<1>3. CommitAnswersAgree
  <2>1. ASSUME NEW t \in TxnIds, NEW a \in answers[t]
        PROVE  /\ answers[t] = {a}
               /\ a = Refused => published[t] = 0
               /\ a # Refused =>
                    a = CommitVersionOf([txn_state[t] EXCEPT !.alloc = published[t]])
    <3> USE <2>1
    <3>1. TxnOK(t) /\ AnswersOK(t)
      BY Zenon, <1>1
    <3>2. CASE HasStatus(t, {"Aborted"})
      BY Zenon, <3>1, <3>2 DEF TxnOK, AnswersOK, HasStatus
    <3>3. CASE HasStatus(t, {"Committed"})
      <4>1. txn_state[t] \in TxnStateRecord /\ published[t] = txn_state[t].alloc
        BY ZenonT(60), <3>1, <3>3 DEF TxnOK, HasStatus, TInv, TypeOK, TxnStoreTypeOK
      <4>2. [txn_state[t] EXCEPT !.alloc = published[t]] = txn_state[t]
        BY Zenon, <4>1 DEF TxnStateRecord
      <4>3. CommitVersionOf(txn_state[t]) \in Versions
        BY Zenon, <4>1 DEF TxnStateRecord, CommitVersionOf
      <4>4. CommitVersionOf(txn_state[t]) # Refused
        BY ZenonT(60), <4>3, CoordinatorAssumption
      <4>5. \A b \in answers[t] : b = CommitVersionOf(txn_state[t])
        BY ZenonT(60), <3>1, <3>3 DEF AnswersOK, HasStatus
      <4> QED BY ZenonT(60), <4>2, <4>4, <4>5
    <3> QED BY ZenonT(60), <3>1, <3>2, <3>3 DEF AnswersOK
  <2> QED BY <2>1 DEF CommitAnswersAgree
<1>4. Quiescent => recovery.pc = "off" /\ \A h \in Handlers : req[h].pc = "idle"
  BY IdleRequest DEF Quiescent, Serving
<1>5. Quiescent => \A t \in TxnIds : ~ HeldByCommit(t)
  BY ZenonT(60), <1>4 DEF HeldByCommit, LockedPcs, CommitPcs, RepairPcs, AbortPcs
<1>6. LeftCommittingIsDecided
  <2>1. ASSUME Quiescent, NEW t \in TxnIds, HasStatus(t, {"Committing"})
        PROVE  /\ wal[t].status \in {"Committed", "Aborted"}
               /\ published[t] = IF wal[t].status = "Committed" THEN txn_state[t].alloc
                                 ELSE 0
    <3>1. ~ Undecided(t) /\ TxnOK(t)
      BY ZenonT(60), <1>1, <1>4, <1>5, <2>1 DEF DecidedOK
    <3>2. wal[t].status \in {"Active", "Committing", "Committed", "Aborted", "none"}
      BY ZenonT(60) DEF TInv, TypeOK, TxnStoreTypeOK, WalFold, TxnStatus
    <3> QED BY ZenonT(60), <2>1, <3>1, <3>2 DEF TxnOK, Undecided, HasStatus
  <2> QED BY <2>1 DEF LeftCommittingIsDecided
<1>7. NotLeftCommitting
  BY <1>5 DEF OInv, CommittingHeld, NotLeftCommitting
<1> QED BY ZenonT(60), <1>2, <1>3, <1>6, <1>7 DEF OInv

=============================================================================
