--------------------------- MODULE SiLockManager ---------------------------
(***************************************************************************)
(* The in-memory conflict tracker of xtable-tx/src/si_lock_manager.rs.     *)
(* Every operation runs under one parking_lot mutex, except register_read, *)
(* which looks the writers up in one critical section and applies what it  *)
(* found in a second one.  The operations are action fragments: they       *)
(* constrain the three tables below and nothing else.                      *)
(*                                                                         *)
(* An edge is its peer: the key, the action and the version the code keeps *)
(* with it are never consulted when a commit is decided.  A list that is   *)
(* only searched is a set.  The window of recent commits (recent,          *)
(* recent_floor_version) is written and never read, so it is left out.     *)
(***************************************************************************)
EXTENDS Identifiers, Naturals

VARIABLES
  by_txn,       \* txn -> its locks, phase "absent" if it has no entry
  readers_of,   \* key -> transactions that registered a read
  writers_of    \* key -> [txn, cv] per registered write, cv = 0 until commit

si_vars == <<by_txn, readers_of, writers_of>>

SiTxnLocks ==
  [phase : {"absent", "Active", "Committed"},
   in_edges : SUBSET TxnIds, out_edges : SUBSET TxnIds, writes : SUBSET Keys]

NoLocks == [phase |-> "absent", in_edges |-> {}, out_edges |-> {}, writes |-> {}]

SiTypeOK ==
  /\ by_txn \in [TxnIds -> SiTxnLocks]
  /\ readers_of \in [Keys -> SUBSET TxnIds]
  /\ writers_of \in [Keys -> SUBSET [txn : TxnIds, cv : Nat]]

SiInit ==
  /\ by_txn = [t \in TxnIds |-> NoLocks]
  /\ readers_of = [k \in Keys |-> {}]
  /\ writers_of = [k \in Keys |-> {}]

(* A process start: the tables live in memory only.                        *)
SiReset ==
  /\ by_txn' = [t \in TxnIds |-> NoLocks]
  /\ readers_of' = [k \in Keys |-> {}]
  /\ writers_of' = [k \in Keys |-> {}]

Tracked(t) == by_txn[t].phase # "absent"

SiBeginTxn(t) ==
  /\ ~ Tracked(t)
  /\ by_txn' = [by_txn EXCEPT ![t] = [NoLocks EXCEPT !.phase = "Active"]]
  /\ UNCHANGED <<readers_of, writers_of>>

(* First critical section of register_read: the writers that committed     *)
(* after the version the reader observed.                                  *)
NewInEdges(k, version_observed) ==
  {w.txn : w \in {x \in writers_of[k] : x.cv > version_observed}}

(* Second critical section of register_read.                               *)
SiRegisterRead(t, k, new_in_edges) ==
  /\ by_txn' = IF Tracked(t)
               THEN [by_txn EXCEPT ![t].in_edges = @ \cup new_in_edges]
               ELSE by_txn
  /\ readers_of' = [readers_of EXCEPT ![k] = @ \cup {t}]
  /\ UNCHANGED writers_of

SiRegisterWrite(t, k) ==
  LET readers == readers_of[k] \ {t}
      own     == [by_txn[t] EXCEPT !.out_edges = @ \cup readers,
                                   !.writes = @ \cup {k}]
      mirror(r) == [by_txn[r] EXCEPT !.in_edges = @ \cup {t}]
  IN  /\ by_txn' = [r \in TxnIds |->
                      IF ~ Tracked(r) THEN by_txn[r]
                      ELSE IF r = t THEN own
                      ELSE IF r \in readers THEN mirror(r)
                      ELSE by_txn[r]]
      /\ writers_of' = [writers_of EXCEPT ![k] = @ \cup {[txn |-> t, cv |-> 0]}]
      /\ UNCHANGED readers_of

(* Deviation: peers that have committed no longer count.                   *)
DangerousActivePeer(t) ==
  \E p \in by_txn[t].in_edges \cap by_txn[t].out_edges :
    p # t /\ by_txn[p].phase = "Active"

(* Some peer is on both sides of t.                                        *)
FindDangerousStructure(t) ==
  /\ Tracked(t)
  /\ (by_txn[t].in_edges \ {t}) \cap by_txn[t].out_edges # {}

(***************************************************************************)
(* mark_committed reads the own entry in two critical sections and applies *)
(* in a third.  Only operations of t itself change what the first two      *)
(* read, and none of them is distinguishable from one that comes after the *)
(* whole call, so it is one step.                                          *)
(***************************************************************************)
SiMarkCommitted(t, commit_version) ==
  LET commit(w) == IF w.txn = t THEN [w EXCEPT !.cv = commit_version] ELSE w
      mirror(r) == IF r \in by_txn[t].out_edges
                   THEN [by_txn[r] EXCEPT !.in_edges = @ \cup {t}]
                   ELSE by_txn[r]
  IN  /\ by_txn' = [r \in TxnIds |->
                      IF ~ Tracked(r) THEN by_txn[r]
                      ELSE IF r = t THEN [by_txn[t] EXCEPT !.phase = "Committed"]
                      ELSE mirror(r)]
      /\ writers_of' = [k \in Keys |->
                          IF k \in by_txn[t].writes
                          THEN {commit(w) : w \in writers_of[k]}
                          ELSE writers_of[k]]
      /\ UNCHANGED readers_of

SiMarkAborted(t) ==
  /\ by_txn' = [r \in TxnIds |->
                  IF r = t THEN NoLocks
                  ELSE [by_txn[r] EXCEPT !.in_edges = @ \ {t},
                                         !.out_edges = @ \ {t}]]
  /\ readers_of' = [k \in Keys |-> readers_of[k] \ {t}]
  /\ writers_of' = [k \in Keys |-> {w \in writers_of[k] : w.txn # t}]

=============================================================================
