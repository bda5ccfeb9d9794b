---------------------------- MODULE RecordReads -----------------------------
(***************************************************************************)
(* What the storage of records promises to a reader of the newest          *)
(* snapshot, without memtables, chunks or rows.                            *)
(*                                                                         *)
(* A committed version of a key is under way until its row is written, and *)
(* settled from then on.  A read answers the newest settled version or the *)
(* one under way; it may waver between the two, and a crash drops the one  *)
(* under way.  While a memtable is on its way to the list of immutables it *)
(* is hidden, and a read may find an older version.  Once something has    *)
(* gone wrong that the storage does not make up for, it promises nothing.  *)
(***************************************************************************)
EXTENDS Naturals

CONSTANTS
  Keys,
  MaxVersion

VARIABLES
  settled,      \* key -> newest settled version, 0 if there is none
  underway,     \* key -> version under way, 0 if there is none
  hidden,       \* is a memtable in neither place that a read looks in?
  answer,       \* key -> version that a read answers, 0 for None
  impaired

vars == <<settled, underway, hidden, answer, impaired>>

None == [k \in Keys |-> 0]

Init ==
  /\ settled = None /\ underway = None /\ answer = None
  /\ hidden = FALSE /\ impaired = FALSE

Allowed(k) ==
  {settled[k]} \cup ({underway[k]} \ {0})
               \cup (IF hidden THEN 1 .. settled[k] ELSE {})

(* A commit is decided: its keys have a version under way.                 *)
Decide ==
  /\ underway = None
  /\ \E keys \in SUBSET Keys, v \in 1 .. MaxVersion :
       /\ \A k \in keys : v > settled[k]
       /\ underway' = [k \in Keys |-> IF k \in keys THEN v ELSE 0]
  /\ UNCHANGED <<settled, hidden, answer, impaired>>

(* Memtables come, move and go.                                            *)
Waver ==
  /\ hidden' \in BOOLEAN
  /\ UNCHANGED <<settled, underway, impaired>>
  /\ DOMAIN answer' = Keys /\ \A k \in Keys : answer'[k] \in Allowed(k)'

(* The row of a key is written.  From here on reads answer this version    *)
(* until the next one is under way.                                        *)
Settle ==
  /\ \E k \in Keys :
       /\ underway[k] # 0
       /\ settled' = [settled EXCEPT ![k] = underway[k]]
       /\ underway' = [underway EXCEPT ![k] = 0]
       /\ answer' \in {[answer EXCEPT ![k] = v] : v \in Allowed(k)'}
  /\ UNCHANGED <<hidden, impaired>>

Crash ==
  /\ underway' = None
  /\ hidden' = FALSE
  /\ answer' = settled
  /\ UNCHANGED <<settled, impaired>>

Impaired == impaired' = TRUE

Next == (~impaired /\ (Decide \/ Waver \/ Settle \/ Crash)) \/ Impaired

Spec == Init /\ [][Next]_vars

=============================================================================
