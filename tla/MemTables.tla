----------------------------- MODULE MemTables ------------------------------
(***************************************************************************)
(* The in-memory tables of the LSM tree (xtable-storage/src/memtable.rs).  *)
(* An Arc<MemTable> is a number; tables says what the table holds.  A task *)
(* that has cloned the Arc may still write to a table that is no longer    *)
(* active, no longer in flushing, or already flushed.                      *)
(*                                                                         *)
(* An entry keeps its commit version cv and src, the commit that staged    *)
(* it, which stands for its body, its deleted flag and its txn_id.         *)
(* Whether a table is large or old enough to flush is left open.           *)
(***************************************************************************)
EXTENDS Naturals, Sequences, FiniteSets

CONSTANTS
  Keys,         \* (space, table, record_id)
  MaxVersion,   \* bound: highest commit version
  MaxCommits,   \* bound: commits
  MaxTables,    \* bound: memtables of one process
  NoEntry

ASSUME MemTablesAssumption ==
  /\ MaxVersion \in Nat /\ MaxCommits \in Nat /\ MaxTables \in Nat \ {0}
  /\ IsFiniteSet(Keys)
  /\ NoEntry \notin [cv : 1 .. MaxVersion, src : 1 .. MaxCommits]

VARIABLES
  tables,       \* MemTable.map of every table the process has created
  active,       \* MemTableSet.active
  flushing      \* MemTableSet.flushing: immutables awaiting flush

table_vars == <<tables, active, flushing>>

Versions == 1 .. MaxVersion
Commits  == 1 .. MaxCommits
TableIds == 1 .. MaxTables
EmptyMap == [k \in Keys |-> NoEntry]

FreshTables ==
  /\ tables = [i \in TableIds |-> EmptyMap]
  /\ active = 1
  /\ flushing = <<>>

NoTables ==
  /\ tables' = [i \in TableIds |-> EmptyMap]
  /\ active' = 1
  /\ flushing' = <<>>

-----------------------------------------------------------------------------
(* MemTable.                                                               *)

(* Deviation: any entry is visible.                                        *)
VisibleAtAll(e, snapshot) == e # NoEntry

VisibleAt(e, snapshot) == e # NoEntry /\ e.cv <= snapshot

GetVisible(map, k, snapshot) ==
  IF VisibleAt(map[k], snapshot) THEN map[k] ELSE NoEntry

(* One entry per key: a later put replaces it.                             *)
PutEntry(map, k, e) == [map EXCEPT ![k] = e]

(* The entry of the key takes the version, whichever write it came from.   *)
PublishEntry(map, k, v) ==
  IF map[k] = NoEntry THEN map ELSE [map EXCEPT ![k].cv = v]

-----------------------------------------------------------------------------
(* MemTableSet.                                                            *)

(* maybe_rotate and try_rotate_active replace the active table only if it  *)
(* is still the one the caller saw.  They push it to flushing once they    *)
(* have released active.                                                   *)
ReplaceActive(current) ==
  /\ active = current /\ active < MaxTables
  /\ active' = active + 1

PutInvisible(table, k, e) ==
  tables' = [tables EXCEPT ![table] = PutEntry(@, k, e)]

Waiting(i) == \E n \in 1 .. Len(flushing) : flushing[n] = i

Publish(k, v, locked) ==
  [i \in TableIds |-> IF i = active \/ (locked /\ Waiting(i))
                      THEN PublishEntry(tables[i], k, v) ELSE tables[i]]

=============================================================================
