--------------------------- MODULE StructuredApi ----------------------------
(***************************************************************************)
(* The HTTP handlers of the structured space                               *)
(* (xtable-server/src/structured.rs), clients that go away, writes of a    *)
(* commit that fail, and restarts of the server.                           *)
(*                                                                         *)
(* A transaction serves one request (a write, a batch or a read), or is a  *)
(* client's, over several requests that may overlap.                       *)
(***************************************************************************)
EXTENDS StructuredSpace

CONSTANTS
  UsesAt,         \* bound: the uses of the transaction at a place
  Overlap,        \* whether requests on one client transaction overlap
  MaxWrites,      \* bound: writes of one transaction
  MaxMishaps      \* bound: mishaps after which no restart or failing write comes

ASSUME ApiAssumption ==
  /\ UsesAt \in [Txns -> SUBSET {"client", "read", "request", "batch"}]
  /\ Overlap \in BOOLEAN
  /\ MaxWrites \in Nat /\ MaxMishaps \in Nat

Using(t, use) == IsActive(t) /\ txn[t].use = use
Becomes(t, use) == txn' = [txn EXCEPT ![t].use = use]
RestUnchanged == UNCHANGED <<store_vars, pending, committing>>

MayWrite(t) == Len(pending[t]) + Cardinality(InFlight(t)) < MaxWrites

MayOverlap(t) == Overlap \/ InFlight(t) = {}

Begin(t) ==
  /\ \E use \in UsesAt[t] : BeginTxn(t, use)
  /\ UNCHANGED <<store_vars, staged, pending, call, committing>>

(* upsert_record, delete_record, register_schema, bind_table: begin, the   *)
(* write, commit.                                                          *)
RequestUpserts(t) ==
  /\ Using(t, "request")
  /\ \E r \in Rids, b \in RecordBodies : Upsert(t, r, b)
  /\ Becomes(t, "written")
  /\ RestUnchanged

RequestDeletes(t) ==
  /\ Using(t, "request")
  /\ \E r \in Rids : Delete(t, r)
  /\ Becomes(t, "written")
  /\ RestUnchanged

RequestBinds(t) ==
  /\ Using(t, "request")
  /\ \E b \in SchemaBodies : RegisterSchema(t, b)
  /\ Becomes(t, "written")
  /\ RestUnchanged

(* An error returns at once: nothing aborts the transaction.               *)
RequestFails(t) ==
  /\ Using(t, "request")
  /\ \/ \E b \in RecordBodies : UpsertRefused(t, b)
     \/ \E r \in Rids : DeleteRefused(t, r)
  /\ Becomes(t, "left")
  /\ RestUnchanged /\ UNCHANGED <<staged, call, mishaps>>

(* batch_upsert_records: an error aborts.                                  *)
BatchWrites(t) ==
  /\ Using(t, "batch") /\ InFlight(t) = {} /\ MayWrite(t)
  /\ \E r \in Rids, b \in RecordBodies : Upsert(t, r, b)
  /\ RestUnchanged /\ UNCHANGED txn

BatchFails(t) ==
  /\ Using(t, "batch") /\ InFlight(t) = {}
  /\ \E b \in RecordBodies : UpsertRefused(t, b)
  /\ AbortTxn(t)

(* get_record, query_records, get_schema, list_schemas, diff_records read  *)
(* at the snapshot of a transaction they abort.                            *)
ReadEnds(t) == Using(t, "read") /\ AbortTxn(t)

(* The writes of a client's transaction.  A refused one changes nothing.   *)
ClientUpserts(t) ==
  /\ Using(t, "client") /\ MayWrite(t) /\ MayOverlap(t)
  /\ \E r \in Rids, b \in RecordBodies : Upsert(t, r, b)
  /\ RestUnchanged /\ UNCHANGED txn

ClientBinds(t) ==
  /\ Using(t, "client") /\ MayWrite(t) /\ MayOverlap(t)
  /\ \E b \in SchemaBodies : RegisterSchema(t, b)
  /\ RestUnchanged /\ UNCHANGED txn

Commit(t) == CommitEmpty(t) \/ CommitStarts(t)

RequestCommits(t) ==
  /\ \/ Using(t, "written")
     \/ Using(t, "batch") /\ Touched(t) # {}
  /\ InFlight(t) = {}
  /\ Commit(t)

ClientCommits(t) ==
  Using(t, "client") /\ MayOverlap(t) /\ Commit(t)

ClientAborts(t) ==
  Using(t, "client") /\ MayOverlap(t) /\ AbortTxn(t)

Fault == Cardinality(mishaps) < MaxMishaps

(* The client goes away: the server drops the handler where it awaits, and *)
(* nothing aborts its transaction.  There is no await between the staging  *)
(* of a write and its note.                                                *)
HandlerDropped(t) ==
  /\ IsActive(t) /\ txn[t].use \notin {"client", "left"}
  /\ InFlight(t) = {}
  /\ Becomes(t, "left")
  /\ RestUnchanged /\ UNCHANGED <<staged, call, mishaps>>

Committed(d) == UpTo(chain, d, MaxVersion)

(* A restart that keeps the disk: recovery ends the commit that was under  *)
(* way as the chains have it, with the puts the hook made.                 *)
RestartWarm ==
  /\ committing # NotCommitting
  /\ mishaps' = mishaps
       \cup (IF rows # chain THEN {"rows lost"} ELSE {})
       \cup (IF \E n \in SchemaNos : n > schema_index /\ Committed(n) # {}
             THEN {"index behind"} ELSE {})
  /\ UNCHANGED <<global_version, rows, schema_index>>

(* A restart without the disk.  The cold rebuild takes the rows from the   *)
(* chunks, with the schema version of the memtable, and the counter from   *)
(* their highest version; it knows no schema index.  The chains stay here  *)
(* as what was committed: the rebuilt ones decide no conflict, every later *)
(* snapshot being at or above them.  Modelled where every commit reached   *)
(* the memtable and all of it was flushed.                                 *)
RestartCold ==
  /\ committing = NotCommitting /\ schema_index # 0
  /\ "rows lost" \notin mishaps
  /\ mishaps' = mishaps \cup {"index behind", "rebuilt"}
  /\ schema_index' = 0
  /\ global_version' = Newest(UNION {Committed(d) : d \in Docs})
  /\ rows' = [d \in Docs |-> [v \in Versions |->
                IF chain[d][v] = Nothing THEN Nothing
                ELSE [chain[d][v] EXCEPT !.sv = 0]]]

(* A restart loses memory, and recovery aborts what is Active.             *)
Restart ==
  /\ Fault
  /\ RestartWarm \/ RestartCold
  /\ txn' = [t \in Txns |-> NoTxn]
  /\ staged' = [t \in Txns |-> NoWrites]
  /\ mem' = NoWrites
  /\ pending' = [t \in Txns |-> <<>>]
  /\ call' = <<>>
  /\ committing' = NotCommitting
  /\ UNCHANGED chain

WriteFails == Fault /\ (CommitFails \/ HookPutFails)

CommitGoesOn == CommitConflict \/ CommitAppend \/ CommitPublish \/ HookPut

Next ==
  \/ \E t \in Txns : \/ Begin(t) \/ RequestFails(t) \/ BatchFails(t)
                     \/ ReadEnds(t) \/ RequestCommits(t) \/ ClientCommits(t)
                     \/ ClientAborts(t) \/ Sweep(t)
                     \/ RequestUpserts(t) \/ RequestDeletes(t)
                     \/ RequestBinds(t) \/ BatchWrites(t)
                     \/ ClientUpserts(t) \/ ClientBinds(t)
                     \/ HandlerDropped(t)
  \/ \E c \in DOMAIN call : Note(c)
  \/ CommitGoesOn
  \/ WriteFails
  \/ Restart

Init == SpaceInit

Spec == Init /\ [][Next]_vars

-----------------------------------------------------------------------------
Met(these) == mishaps \cap these # {}
AtRest == committing = NotCommitting

(* A row the hook wrote is the committed write, but for the schema version *)
(* that a cold rebuild does not know.                                      *)
RowIs(row, w) ==
  \/ row = w
  \/ Met({"rebuilt"}) /\ w # Nothing /\ row = [w EXCEPT !.sv = 0]

(* What a query answers is what was committed, at every version: each      *)
(* committed write has its row and there is no other.  Not so while a      *)
(* commit is under way, after calls of one transaction that overlapped,    *)
(* and after a crash, a failed put of the hook or a repaired commit kept   *)
(* rows from being written ("rows lost").                                  *)
IndexIsChain ==
  AtRest /\ ~ Met({"overlapping calls", "rows lost"}) =>
    \A d \in Docs, v \in Versions : RowIs(rows[d][v], chain[d][v])

(* The snapshots below the commit that is under way.                       *)
Settled == IF AtRest THEN 0 .. global_version ELSE 0 .. committing.v - 1

BodyOf(w) == IF w = Nothing THEN Nothing ELSE w.body

(* At a snapshot below the commit under way, get_record (the memtable's    *)
(* newest entry, then the rows) and query_records (the rows) answer the    *)
(* same bodies and deletions at every step of that commit, unless rows     *)
(* were lost or calls overlapped.  (The schema version get_record reports  *)
(* from the memtable is 0.)                                                *)
SnapshotReadsAgree ==
  ~ Met({"overlapping calls", "rows lost"}) =>
    \A d \in Docs, s \in Settled :
      BodyOf(GetRecord(d, s)) = BodyOf(QueryRecord(d, s))

(* A record written under schema version n conforms to the body that       *)
(* version n had: upsert_record validates before it stages, against the    *)
(* version it records.                                                     *)
RecordsConform ==
  ~ Met({"overlapping calls"}) =>
    \A r \in Rids, v \in Versions :
      LET w == chain[r][v]
      IN  w # Nothing /\ w.body # Tombstone /\ w.sv # 0 =>
            \E u \in UpTo(chain, w.sv, v) :
              <<chain[w.sv][u].body, w.body>> \in Conforms

(* Schema versions are 1, 2, ... without gaps and a committed one is never *)
(* written again, unless two calls of one transaction overlapped, a        *)
(* transaction began between the version a commit of a schema took and its *)
(* hook, or the schema index stayed behind the chains: a cold rebuild, a   *)
(* crash before the hook, a put of the index that failed, a repaired       *)
(* commit.                                                                 *)
SchemaVersionsInOrder ==
  ~ Met({"overlapping calls", "begun before the hook", "index behind"}) =>
    \A n \in SchemaNos :
      /\ Cardinality(UpTo(chain, n, MaxVersion)) <= 1
      /\ \A m \in 1 .. n - 1, v \in UpTo(chain, n, MaxVersion) :
           UpTo(chain, m, v) # {}

(* At rest, the schema that upsert_record resolves at a snapshot is the    *)
(* one bound last at or before it, and get_schema answers its body.  Not   *)
(* so between the version of a binding and its hook: a transaction that    *)
(* begins there is checked against the older schema until the hook is      *)
(* done, and may bind the same number again.  Nor after the mishaps that   *)
(* leave rows unwritten or the schema index behind.                        *)
LastBindingHolds ==
  AtRest /\ ~ Met({"overlapping calls", "begun before the hook",
                   "index behind", "rows lost"}) =>
    \A s \in 0 .. global_version :
      LET bound == {n \in SchemaNos : UpTo(chain, n, s) # {}}
          n == LatestSchemaVersionAtSnapshot(s)
      IN  /\ n = 0 <=> bound = {}
          /\ n # 0 =>
               /\ n \in bound
               /\ \A m \in bound : \A v \in UpTo(chain, m, s) :
                    \/ v < Newest(UpTo(chain, n, s))
                    \/ v = Newest(UpTo(chain, n, s)) /\ m <= n
               /\ GetSchema(s) = chain[n][Newest(UpTo(chain, n, s))].body

(* "Body is validated against the table's current schema": the schema      *)
(* bound when the record is committed.                                     *)
CurrentSchemaChecked ==
  \A r \in Rids, v \in Versions :
    LET w == chain[r][v]
        bound == {n \in SchemaNos : UpTo(chain, n, v) # {}}
    IN  w # Nothing /\ w.body # Tombstone /\ bound # {} =>
          \E n \in bound : /\ \A m \in bound : m <= n
                           /\ \E u \in UpTo(chain, n, v) :
                                <<chain[n][u].body, w.body>> \in Conforms

=============================================================================
