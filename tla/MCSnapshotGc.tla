---------------------------- MODULE MCSnapshotGc ----------------------------
(* Model values and symmetry for SnapshotGc. *)
EXTENDS SnapshotGc, TLC

CONSTANTS r1, r2, k1, k2, t1

MCReaders == {r1, r2}
MCKeys    == {k1, k2}
MCTxnIds  == {t1}

MCSymmetry == Permutations(MCReaders) \cup Permutations(MCKeys)

=============================================================================
