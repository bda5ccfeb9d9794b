--------------------------- MODULE StaleTxnSweep ----------------------------
(***************************************************************************)
(* The background sweep: stale Active transactions are aborted without     *)
(* commit_lock and without the lock manager, then the chains are pruned.   *)
(* Any Active transaction may be stale.                                    *)
(***************************************************************************)
EXTENDS TxnCoordinator

SweepClaim(t) ==
  /\ Sweeps /\ recovery.pc = "off"
  /\ sweeper = NotSweeping
  /\ Overlap \/ ~ Busy(t)
  /\ CompareAndSetTxnStatus(t, "Active", "Aborted")
  /\ sweeper' = [t |-> t, snapshot |-> txn_state[t].snapshot, pc |-> "drop"]
  /\ UNCHANGED <<store_vars, write_set, wal, si_vars, mem_vars, req,
                 commit_lock, recovery, begun, crashes, faults, ghost_vars>>

SweepDrop ==
  /\ sweeper.pc = "drop"
  /\ DeleteWriteEntries(sweeper.t)
  /\ sweeper' = [sweeper EXCEPT !.pc = "wal"]
  /\ UNCHANGED <<store_vars, txn_state, wal, si_vars, mem_vars, req,
                 commit_lock, recovery, begun, crashes, faults, ghost_vars>>

SweepWal ==
  /\ sweeper.pc = "wal"
  /\ AppendWalOutcome(sweeper.t, "Aborted")
  /\ sweeper' = [sweeper EXCEPT !.pc = "unpin"]
  /\ UNCHANGED <<store_vars, txn_state, write_set, si_vars, mem_vars, req,
                 commit_lock, recovery, begun, crashes, faults, ghost_vars>>

SweepUnpin ==
  /\ sweeper.pc = "unpin"
  /\ UnregisterSnapshot(sweeper.snapshot)
  /\ sweeper' = NotSweeping
  /\ UNCHANGED <<mvcc_vars, txn_vars, si_vars, mem_vars, req, commit_lock,
                 recovery, begun, crashes, faults, ghost_vars>>

SweepChains ==
  /\ Sweeps /\ recovery.pc = "off"
  /\ sweeper = NotSweeping
  /\ GcChains(U64Max)
  /\ UNCHANGED <<global_version, versions, active_snapshots, record_index,
                 txn_vars, si_vars, mem_vars, req, commit_lock, env_vars,
                 ghost_vars>>

(* The write set cannot be read, or the log not be written: the sweep ends  *)
(* here.  The status is Aborted already, so no later sweep takes it up.     *)
SweepFails ==
  /\ StoreFault("sweep")
  /\ sweeper.pc \in {"drop", "wal"}
  /\ sweeper' = NotSweeping
  /\ UNCHANGED <<store_vars, txn_vars, si_vars, mem_vars, req, commit_lock,
                 recovery, begun, crashes, ghost_vars>>

Sweep == (\E t \in TxnIds : SweepClaim(t)) \/ SweepChains
SweepOn == SweepDrop \/ SweepWal \/ SweepUnpin

=============================================================================
