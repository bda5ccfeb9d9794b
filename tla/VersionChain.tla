---------------------------- MODULE VersionChain ----------------------------
(***************************************************************************)
(* The version chain of one object key (xtable-storage/src/version_chain.  *)
(* rs): a sequence of version entries in ascending commit version.  An     *)
(* entry is a record with at least the field cv, its commit_version.       *)
(* These are the pure functions of the Rust type; the tables that hold     *)
(* chains are in LocalStore.                                               *)
(***************************************************************************)
EXTENDS Naturals, Sequences

CONSTANTS
  U64Max,     \* u64::MAX, which stands for "no active reader"
  NoEntry     \* None, the answer when no entry is visible

ASSUME U64MaxAssumption == U64Max \in Nat

(***************************************************************************)
(* Newest commit version of a chain, 0 when it is empty.                   *)
(***************************************************************************)
LatestCommitVersion(chain) ==
  IF chain = <<>> THEN 0 ELSE chain[Len(chain)].cv

(***************************************************************************)
(* The position of the newest entry at or below a snapshot, 0 if there is  *)
(* none: the reverse walk of read_at_snapshot and the rposition of         *)
(* prune_below are the same search.                                        *)
(***************************************************************************)
RPosition(chain, snapshot) ==
  CHOOSE i \in 0 .. Len(chain) :
    /\ i > 0 => chain[i].cv <= snapshot
    /\ \A j \in (i + 1) .. Len(chain) : chain[j].cv > snapshot

ReadAtSnapshot(chain, snapshot) ==
  LET i == RPosition(chain, snapshot)
  IN  IF i = 0 THEN NoEntry ELSE chain[i]

(***************************************************************************)
(* prune_below drops everything older than the visibility anchor of the    *)
(* oldest active snapshot.  KeepFrom is the 1-based position of the first  *)
(* entry kept.                                                             *)
(***************************************************************************)
KeepFrom(chain, min_snapshot) ==
  IF min_snapshot = U64Max THEN Len(chain)
  ELSE IF RPosition(chain, min_snapshot) = 0 THEN 1
       ELSE RPosition(chain, min_snapshot)

PruneBelow(chain, min_snapshot) ==
  IF Len(chain) <= 1 THEN chain
  ELSE SubSeq(chain, KeepFrom(chain, min_snapshot), Len(chain))

(***************************************************************************)
(* "Sorted ascending by commit_version.  Strictly monotonic."              *)
(***************************************************************************)
Ascending(chain) ==
  \A i, j \in 1 .. Len(chain) : i < j => chain[i].cv < chain[j].cv

=============================================================================
