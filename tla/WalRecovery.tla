---------------------------- MODULE WalRecovery -----------------------------
(***************************************************************************)
(* A crash at any point loses what is in memory.  On the next start WAL    *)
(* recovery runs before requests are served; it may itself be cut short by *)
(* a crash.                                                                *)
(***************************************************************************)
EXTENDS TxnCoordinator

Crash ==
  /\ crashes < MaxCrashes /\ crashes + faults < MaxMishaps
  /\ crashes' = crashes + 1
  /\ SiReset
  /\ memtable' = [k \in Keys |-> 0]
  /\ pending' = [t \in TxnIds |-> {}]
  /\ req' = [h \in Handlers |-> Idle]
  /\ commit_lock' = NoTxn
  /\ sweeper' = NotSweeping
  /\ recovery' = [t |-> NoTxn, pc |-> "pick",
                  todo |-> {t \in TxnIds : wal[t].status # "none"}]
  /\ UNCHANGED <<store_vars, txn_vars, begun, faults, ghost_vars>>

(* Deviation: only a logged Committing is looked at.                       *)
NeedsRecoveryCommitting(t) ==
  /\ HasStatus(t, {"Active", "Committing"})
  /\ wal[t].status = "Committing"

(* Deviation: the end of the log is not looked at.                         *)
NeedsRecoveryAnyLog(t) ==
  HasStatus(t, {"Active", "Committing"}) /\ wal[t].status # "none"

(* Nothing is done for a finished record, nor for one the log has finished. *)
NeedsRecovery(t) ==
  /\ HasStatus(t, {"Active", "Committing"})
  /\ wal[t].status \in {"Active", "Committing"}

(* Deviation: a logged Committing without Committed is never a commit.     *)
ChainNeverWon(t) == FALSE

(* The chains of the logged keys end at the allocated version.             *)
ChainWon(t) ==
  LET rec  == txn_state[t]
      keys == IF rec.alloc = 0 THEN {} ELSE rec.write_keys \cap wal[t].keys
  IN  /\ wal[t].status = "Committing"
      /\ keys # {}
      /\ \A k \in keys : LatestCommitVersion(version_chains[k]) = rec.alloc

(* Deviation: recovery returns after the first transaction.                *)
RecoverPickOnly(t) ==
  /\ recovery.pc = "pick"
  /\ t \in recovery.todo
  /\ NeedsRecovery(t)
  /\ recovery' = [t |-> t, todo |-> {},
                  pc |-> IF ChainWon(t) THEN "won_wal" ELSE "drop"]
  /\ UNCHANGED <<store_vars, txn_vars, si_vars, mem_vars, req, commit_lock,
                 sweeper, begun, crashes, faults, ghost_vars>>

RecoverPick(t) ==
  /\ recovery.pc = "pick"
  /\ t \in recovery.todo
  /\ NeedsRecovery(t)
  /\ recovery' = [t |-> t, todo |-> recovery.todo \ {t},
                  pc |-> IF ChainWon(t) THEN "won_wal" ELSE "drop"]
  /\ UNCHANGED <<store_vars, txn_vars, si_vars, mem_vars, req, commit_lock,
                 sweeper, begun, crashes, faults, ghost_vars>>

RecoverWonWal ==
  /\ recovery.pc = "won_wal"
  /\ AppendWalOutcome(recovery.t, "Committed")
  /\ recovery' = [recovery EXCEPT !.pc = "won_put"]
  /\ UNCHANGED <<store_vars, txn_state, write_set, si_vars, mem_vars, req,
                 commit_lock, sweeper, begun, crashes, faults, ghost_vars>>

RecoverWonPut ==
  /\ recovery.pc = "won_put"
  /\ PutTxnState(recovery.t, [txn_state[recovery.t] EXCEPT !.status = "Committed"])
  /\ recovery' = [recovery EXCEPT !.pc = "pick", !.t = NoTxn]
  /\ UNCHANGED <<store_vars, write_set, wal, si_vars, mem_vars, req,
                 commit_lock, sweeper, begun, crashes, faults, ghost_vars>>

RecoverDrop ==
  /\ recovery.pc = "drop"
  /\ DeleteWriteEntries(recovery.t)
  /\ recovery' = [recovery EXCEPT !.pc = "wal"]
  /\ UNCHANGED <<store_vars, txn_state, wal, si_vars, mem_vars, req,
                 commit_lock, sweeper, begun, crashes, faults, ghost_vars>>

RecoverWal ==
  /\ recovery.pc = "wal"
  /\ AppendWalOutcome(recovery.t, "Aborted")
  /\ recovery' = [recovery EXCEPT !.pc = "unpin"]
  /\ UNCHANGED <<store_vars, txn_state, write_set, si_vars, mem_vars, req,
                 commit_lock, sweeper, begun, crashes, faults, ghost_vars>>

RecoverUnpin ==
  /\ recovery.pc = "unpin"
  /\ UnregisterSnapshot(txn_state[recovery.t].snapshot)
  /\ recovery' = [recovery EXCEPT !.pc = "put"]
  /\ UNCHANGED <<mvcc_vars, txn_vars, si_vars, mem_vars, req, commit_lock,
                 sweeper, begun, crashes, faults, ghost_vars>>

RecoverPut ==
  /\ recovery.pc = "put"
  /\ PutTxnState(recovery.t, [txn_state[recovery.t] EXCEPT !.status = "Aborted"])
  /\ recovery' = [recovery EXCEPT !.pc = "pick", !.t = NoTxn]
  /\ UNCHANGED <<store_vars, write_set, wal, si_vars, mem_vars, req,
                 commit_lock, sweeper, begun, crashes, faults, ghost_vars>>

RecoverDone ==
  /\ recovery.pc = "pick"
  /\ \A t \in recovery.todo : ~ NeedsRecovery(t)
  /\ recovery' = Serving
  /\ UNCHANGED <<store_vars, txn_vars, si_vars, mem_vars, req, commit_lock,
                 sweeper, begun, crashes, faults, ghost_vars>>

-----------------------------------------------------------------------------
Recover ==
  \/ \E t \in TxnIds : RecoverPick(t)
  \/ RecoverWonWal \/ RecoverWonPut
  \/ RecoverDrop \/ RecoverWal \/ RecoverUnpin \/ RecoverPut \/ RecoverDone

=============================================================================
