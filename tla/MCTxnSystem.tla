---------------------------- MODULE MCTxnSystem ----------------------------
(* Small sets for TxnSystem.  t0 committed k1 before the behaviour starts. *)
EXTENDS TxnSystem, TLC

CONSTANTS h1, h2, t0, t1, t2, k1, k2

OneHandler  == {h1}
TwoHandlers == {h1, h2}
SeedAndTwo  == {t0, t1, t2}
OneKey      == {k1}
TwoKeys     == {k1, k2}

Symmetry == Permutations({h1, h2}) \cup Permutations({t1, t2})

=============================================================================
