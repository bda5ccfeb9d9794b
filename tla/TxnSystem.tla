----------------------------- MODULE TxnSystem ------------------------------
(***************************************************************************)
(* The transaction service: request handlers, the stale-transaction        *)
(* sweeper, crashes and recovery, interleaved step by step.                *)
(***************************************************************************)
EXTENDS StaleTxnSweep, WalRecovery

Next ==
  \/ \E h \in Handlers : Request(h) \/ Serve(h) \/ Fails(h)
  \/ Sweep \/ SweepOn \/ SweepFails
  \/ Crash \/ Recover

Spec == Init /\ [][Next]_vars

(***************************************************************************)
(* tokio keeps polling a task that can run, the sweeper's loop body is     *)
(* synchronous, and main waits for recovery before it serves: a request,   *)
(* a claimed sweep and recovery go on to their end.  New requests, sweeps, *)
(* faults and crashes need not happen.                                     *)
(***************************************************************************)
Fairness ==
  /\ \A h \in Handlers : WF_vars(Serve(h))
  /\ WF_vars(SweepOn)
  /\ WF_vars(Recover)

FairSpec == Spec /\ Fairness

-----------------------------------------------------------------------------
(* Properties.                                                             *)

Finished(t) == HasStatus(t, {"Committed", "Aborted"})

(* No request is being served, no sweep or recovery is under way.          *)
Quiescent ==
  /\ \A h \in Handlers : req[h] = Idle
  /\ sweeper = NotSweeping
  /\ recovery = Serving

WriteKeys(t) == IF txn_state[t] = NoRecord THEN {} ELSE txn_state[t].write_keys

(***************************************************************************)
(* Two transactions that committed a write of the same key did not         *)
(* overlap: the later one began at a snapshot at or above the commit       *)
(* version of the earlier one (the conflict check of commit_inner and of   *)
(* append_chain_entries_bulk).                                             *)
(***************************************************************************)
FirstCommitterWins ==
  \A t, u \in TxnIds :
    /\ published[t] # 0 /\ published[t] < published[u]
    /\ WriteKeys(t) \cap WriteKeys(u) # {}
    => txn_state[u].snapshot >= published[t]

(***************************************************************************)
(* The conflict check commit_inner makes before it logs Committing still   *)
(* holds when the entries are appended, three redb transactions later: the *)
(* append of append_chain_entries_bulk never refuses.                      *)
(***************************************************************************)
AppendNeverRefused ==
  \A h \in Handlers : req[h].pc = "append" =>
    BulkAppendable(req[h].rec.write_keys, [cv |-> req[h].v, txn |-> req[h].t],
                   req[h].rec.snapshot)

(***************************************************************************)
(* The status a transaction ends with is the truth about the chains,       *)
(* whatever store call failed and wherever the process crashed: Committed  *)
(* with writes only if its entries were appended at the version the record *)
(* holds, Aborted only if none was (commit_inner, reconcile_failed_commit, *)
(* recover_inner; "aborted txns leave no entry", version_chain.rs).        *)
(***************************************************************************)
OutcomeMatchesChains ==
  \A t \in TxnIds :
    /\ HasStatus(t, {"Aborted"}) => published[t] = 0
    /\ HasStatus(t, {"Committed"}) => published[t] = txn_state[t].alloc

(***************************************************************************)
(* Every definite answer the commits of one transaction return, first try, *)
(* retry, or retry after a restart, is the same, and it is the version its *)
(* entries carry (README: "a retry after a durable commit returns the      *)
(* original commit outcome").                                              *)
(***************************************************************************)
CommitAnswersAgree ==
  \A t \in TxnIds : \A a \in answers[t] :
    /\ answers[t] = {a}
    /\ a = Refused => published[t] = 0
    /\ a # Refused => a = CommitVersionOf([txn_state[t] EXCEPT !.alloc = published[t]])

(***************************************************************************)
(* Before any crash and when nothing is under way, the pins of a version   *)
(* are those of the Active transactions that began at it and of the        *)
(* half-aborted ones: abort_inner and abort_txn_local return at an error   *)
(* between the status and the log, before they release the pin, and no one *)
(* comes back for it.  No failing call of begin, stage or commit leaks a   *)
(* pin, and no pin is released twice.                                      *)
(***************************************************************************)
HalfAborted(t) == HasStatus(t, {"Aborted"}) /\ wal[t].status # "Aborted"

PinsAccounted ==
  Quiescent /\ crashes = 0 =>
    \A v \in Versions :
      active_snapshots[v] =
        Cardinality({t \in TxnIds : /\ HasStatus(t, {"Active"}) \/ HalfAborted(t)
                                    /\ txn_state[t].snapshot = v})

(***************************************************************************)
(* After one failure, a crash or a failing call anywhere, and when nothing *)
(* is under way, every Active transaction has its snapshot pinned, one     *)
(* count each: one failure may leak a pin (abort_inner releases it last),  *)
(* but it never lets the collector get ahead of an open transaction.       *)
(***************************************************************************)
ActiveIsPinned ==
  Quiescent /\ crashes + faults <= 1 =>
    \A v \in Versions :
      active_snapshots[v] >=
        Cardinality({t \in TxnIds : HasStatus(t, {"Active"})
                                      /\ txn_state[t].snapshot = v})

(***************************************************************************)
(* When nothing is under way, a pin stands for a transaction that has not  *)
(* finished (or was never recorded): finishing a transaction, in whatever  *)
(* way, releases its pin ("release the snapshot pin so it doesn't          *)
(* accumulate", recovery.rs).                                              *)
(***************************************************************************)
FinishedHoldNoPin ==
  Quiescent =>
    \A v \in Versions :
      active_snapshots[v] <=
        Cardinality({t \in begun \ {SeedTxn} : ~ Finished(t)})

(***************************************************************************)
(* Before any crash a transaction is Committing only while a request works *)
(* on its commit, whatever call of the commit fails ("Do not leave a       *)
(* transaction permanently in Committing", coordinator.rs).  Bodies are    *)
(* taken not to be spilled: a request dropped while commit_inner reads a   *)
(* spill file, its one await, leaves Committing until a restart.           *)
(***************************************************************************)
NotLeftCommitting ==
  Quiescent /\ crashes = 0 => \A t \in TxnIds : ~ HasStatus(t, {"Committing"})

(***************************************************************************)
(* A crash between the final log record and the final state record does    *)
(* leave a transaction Committing.  What holds is that recovery, which     *)
(* goes by the log, leaves no open decision: the log has ended, with the   *)
(* outcome the chains show.                                                *)
(***************************************************************************)
LeftCommittingIsDecided ==
  Quiescent =>
    \A t \in TxnIds : HasStatus(t, {"Committing"}) =>
      /\ wal[t].status \in {"Committed", "Aborted"}
      /\ published[t] = IF wal[t].status = "Committed" THEN txn_state[t].alloc ELSE 0

(***************************************************************************)
(* When nothing is under way and no commit is left open, a read at the     *)
(* current version or at any pinned snapshot, through the memtable and the *)
(* record rows, finds the version the chain holds: a committed transaction *)
(* is visible in full and an aborted one not at all.                       *)
(***************************************************************************)
ChainVersionAt(k, s) ==
  IF RPosition(version_chains[k], s) = 0 THEN 0
  ELSE ReadAtSnapshot(version_chains[k], s).cv

CommittedIsReadable ==
  Quiescent /\ (\A t \in TxnIds : ~ HasStatus(t, {"Committing"})) =>
    \A k \in Keys, s \in Pinned \cup {global_version} :
      ReadRecord(k, s) = ChainVersionAt(k, s)

(***************************************************************************)
(* TBL_VERSIONS is never ahead of the chains, at no step of a commit that  *)
(* fails or is cut by a crash.  Before any crash it is behind the chain of *)
(* a key, when nothing is under way, only where the newest commit of the   *)
(* key was completed by reconcile_failed_commit, which sets the state to   *)
(* Committed and leaves the log at Committing ("keep TBL_VERSIONS in sync  *)
(* with the chain", coordinator.rs, does not hold there).                  *)
(***************************************************************************)
CompletedByRepair(t) == HasStatus(t, {"Committed"}) /\ wal[t].status = "Committing"

MirrorLagsOnlyRepairs ==
  \A k \in Keys :
    LET chain == version_chains[k]
    IN  /\ versions[k] <= LatestCommitVersion(chain)
        /\ Quiescent /\ crashes = 0 /\ versions[k] # LatestCommitVersion(chain)
             => CompletedByRepair(chain[Len(chain)].txn)

(***************************************************************************)
(* A transaction that reads a key twice reads the same version ("Reads use *)
(* that fixed snapshot", README).                                          *)
(***************************************************************************)
RepeatableReads ==
  \A t \in TxnIds : \A a, b \in observed[t] : a.k = b.k => a.v = b.v

(***************************************************************************)
(* What is left of it: the one version that may appear between two reads   *)
(* is the transaction's own snapshot version, that of the commit in flight *)
(* at its begin.                                                           *)
(***************************************************************************)
ReadsDriftOnlyToSnapshot ==
  \A t \in TxnIds : \A a, b \in observed[t] :
    a.k = b.k /\ a.v < b.v => b.v = txn_state[t].snapshot

(***************************************************************************)
(* A finished transaction stays finished, with the same status (the state  *)
(* machine of README: Active, Committing, then Committed or Aborted).  It  *)
(* does when no other request and no sweep comes between the steps of a    *)
(* request (~ Overlap), which nothing in the code ensures: stage, read and *)
(* heartbeat put back the copy of the record they read.                    *)
(***************************************************************************)
FinishedStep ==
  \A t \in TxnIds :
    Finished(t) => /\ txn_state'[t] # NoRecord
                   /\ txn_state'[t].status = txn_state[t].status

FinishedForGood == [][FinishedStep]_vars

(***************************************************************************)
(* Two committed transactions never each wrote a key after the other had   *)
(* registered its read of it: the second one to commit sees the peer on    *)
(* both sides (find_dangerous_structure).                                  *)
(***************************************************************************)
NoRegisteredSkew ==
  \A t, u \in TxnIds :
    HasStatus(t, {"Committed"}) /\ HasStatus(u, {"Committed"}) =>
      ~ (<<t, u>> \in rw /\ <<u, t>> \in rw)

(***************************************************************************)
(* Two overlapping transactions do not both commit when each read a key    *)
(* the other one wrote ("Cahill must abort one", ssi_invariants.rs).       *)
(***************************************************************************)
ReadWhatWasReplaced(t, u) ==
  /\ published[u] > txn_state[t].snapshot
  /\ \E o \in observed[t] : o.k \in WriteKeys(u)

NoWriteSkew ==
  \A t, u \in TxnIds :
    t # u /\ published[t] # 0 /\ published[u] # 0 =>
      ~ (ReadWhatWasReplaced(t, u) /\ ReadWhatWasReplaced(u, t))

(***************************************************************************)
(* A committed transaction that read a key and wrote it overwrote the      *)
(* version it read: no other commit of the key came between ("prevents     *)
(* lost-update", coordinator.rs).                                          *)
(***************************************************************************)
NoLostUpdate ==
  \A t, u \in TxnIds : \A o \in observed[u] :
    o.k \in WriteKeys(u) \cap WriteKeys(t) /\ published[t] < published[u]
      => published[t] <= o.v

(***************************************************************************)
(* No transaction has an edge to an aborted one when nothing is under way  *)
(* ("Without this cleanup, find_dangerous_structure on those peers would   *)
(* return phantom cycles", si_lock_manager.rs).                            *)
(***************************************************************************)
NoPhantomEdges ==
  Quiescent =>
    \A t, u \in TxnIds : HasStatus(u, {"Aborted"}) =>
      u \notin by_txn[t].in_edges \cup by_txn[t].out_edges

(***************************************************************************)
(* A read of a key the transaction has staged does not answer with a       *)
(* committed version ("Writes are read-your-own-writes inside that         *)
(* transaction", README).                                                  *)
(***************************************************************************)
OwnWriteStep ==
  \A t \in TxnIds : \A o \in observed'[t] \ observed[t] : o.k \notin WriteKeys(t)

ReadsOwnWrites == [][OwnWriteStep]_vars

(***************************************************************************)
(* A commit that reached Committing ends, also when a store call fails,    *)
(* unless the process crashes (or its request is dropped while it reads a  *)
(* spill file, which is not modelled).                                     *)
(***************************************************************************)
CommitsEnd ==
  \A t \in TxnIds : HasStatus(t, {"Committing"}) ~> Finished(t) \/ crashes > 0

(***************************************************************************)
(* A transaction the crash found Active, with a log record, is aborted by  *)
(* recovery (README: "A transaction left before commit is aborted").       *)
(***************************************************************************)
LeftActiveIsAborted ==
  \A t \in TxnIds :
    recovery.pc # "off" /\ HasStatus(t, {"Active"}) /\ wal[t].status # "none"
      ~> HasStatus(t, {"Aborted"})

(***************************************************************************)
(* When recovery hands over to the request handlers, also after a crash    *)
(* inside an earlier recovery, every transaction of the log has finished   *)
(* or its log has: none waits for an outcome.  (Its state record may still *)
(* say Active, when the earlier recovery was cut between abort_txn_no_     *)
(* uploads' log record and its put; README: "A transaction left before     *)
(* commit is aborted" then fails.)                                         *)
(***************************************************************************)
HandoverStep ==
  recovery.pc # "off" /\ recovery'.pc = "off" =>
    \A t \in TxnIds : wal[t].status # "none" =>
      Finished(t) \/ wal[t].status \in {"Committed", "Aborted"}

RecoveryClosesLogs == [][HandoverStep]_vars

(***************************************************************************)
(* The log record Committed of a transaction with writes is never followed *)
(* by another outcome, so that every later recovery, also one after a      *)
(* crash inside recovery, reads the same decision (recovery.rs: "already   *)
(* terminal. Skip.").  An empty transaction is left out: when its last put *)
(* fails, reconcile_failed_commit finds nothing published and logs Aborted *)
(* after Committed.                                                        *)
(***************************************************************************)
LoggedCommitStep ==
  \A t \in TxnIds :
    WriteKeys(t) # {} /\ wal[t].status = "Committed" => wal'[t].status = "Committed"

LoggedCommitStands == [][LoggedCommitStep]_vars

=============================================================================
