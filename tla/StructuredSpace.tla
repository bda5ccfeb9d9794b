-------------------------- MODULE StructuredSpace ---------------------------
(***************************************************************************)
(* Schemas and records on top of transactions: StructuredSpace, its        *)
(* PendingMap and its post-commit hook (xtable-schema/src/engine.rs).      *)
(*                                                                         *)
(* There is one table, whose alias "_table::<table>" is the one schema     *)
(* name.  A document is a record, or schema n of the alias.  The           *)
(* coordinator's own steps are TxnCoordinator's: here stage is one step,   *)
(* and a commit takes its version, appends to the chains, publishes to the *)
(* memtable, and makes one put of the hook after the other.  The memtable  *)
(* is not flushed (ChunkFlush).                                            *)
(*                                                                         *)
(* Validation is the relation Conforms (SchemaValidation computes it).     *)
(***************************************************************************)
EXTENDS Naturals, Sequences, FiniteSets

LOCAL INSTANCE SequencesExt

CONSTANTS
  Rids,           \* record ids
  MaxTxns,        \* bound: transactions open at once
  MaxCalls,       \* bound: writes of transactions that are served at once
  SchemaBodies,
  RecordBodies,
  Conforms,       \* the pairs of a schema body and a record body it accepts
  Tombstone,
  Nothing,
  MaxVersion,     \* bound: highest commit version
  MaxSchema       \* bound: highest schema version

ASSUME StructuredAssumption ==
  /\ {MaxTxns, MaxCalls, MaxVersion, MaxSchema} \subseteq Nat
  /\ Conforms \subseteq SchemaBodies \X RecordBodies
  /\ Tombstone \notin RecordBodies \cup SchemaBodies

VARIABLES
  global_version,
  chain,          \* version chains: document -> version -> write
  rows,           \* TBL_RECORD_VERSIONS with bodies: document -> version -> write
  schema_index,   \* TBL_SCHEMA_INDEX: latest version of the alias, 0 if none
  mem,            \* active memtable: document -> [v, w]
  txn,            \* open transactions: txn -> snapshot, and how it is used
  staged,         \* write set: txn -> document -> write
  pending,        \* PendingMap: txn -> writes in the order they were noted
  call,           \* writes that are staged and not noted yet
  committing,     \* the commit that holds commit_lock, and the puts left
  mishaps         \* what requests met so far

store_vars == <<global_version, chain, rows, schema_index, mem>>
vars == <<store_vars, txn, staged, pending, call, committing, mishaps>>

Versions  == 1 .. MaxVersion
SchemaNos == 1 .. MaxSchema
Txns      == 1 .. MaxTxns
Docs      == Rids \cup SchemaNos

(* sv: the schema version of the write, 0 if no schema is bound.           *)
Write == [body : RecordBodies \cup SchemaBodies \cup {Tombstone},
          sv : SchemaNos \cup {0}]

(* How an Active transaction is used: by a client over several requests,   *)
(* or by one request; a one-write request then has its write.  "left": the *)
(* request is over and nobody ended its transaction.                       *)
(* "none": the place of a transaction that has ended is free for another.  *)
Uses == {"none", "client", "read", "request", "batch", "written", "left"}

NoTxn         == [snapshot |-> 0, use |-> "none"]
NoWrites      == [d \in Docs |-> Nothing]
NotCommitting == [pc |-> "idle", t |-> Nothing, s |-> 0, v |-> 0, todo |-> <<>>]

TypeOK ==
  /\ global_version \in Versions \cup {0}
  /\ chain \in [Docs -> [Versions -> Write \cup {Nothing}]]
  /\ rows \in [Docs -> [Versions -> Write \cup {Nothing}]]
  /\ schema_index \in SchemaNos \cup {0}
  /\ mem \in [Docs -> [v : Versions, w : Write] \cup {Nothing}]
  /\ txn \in [Txns -> [snapshot : Versions \cup {0}, use : Uses]]
  /\ staged \in [Txns -> [Docs -> Write \cup {Nothing}]]
  /\ pending \in [Txns -> Seq([d : Docs, w : Write])]
  /\ call \in Seq([t : Txns, d : Docs, w : Write])

SpaceInit ==
  /\ global_version = 0
  /\ chain = [d \in Docs |-> [v \in Versions |-> Nothing]]
  /\ rows = chain
  /\ schema_index = 0
  /\ mem = NoWrites
  /\ txn = [t \in Txns |-> NoTxn]
  /\ staged = [t \in Txns |-> NoWrites]
  /\ pending = [t \in Txns |-> <<>>]
  /\ call = <<>>
  /\ committing = NotCommitting
  /\ mishaps = {}

-----------------------------------------------------------------------------
(* Reading at a snapshot.                                                  *)

UpTo(table, d, s) == {v \in Versions : v <= s /\ table[d][v] # Nothing}
Newest(vs) == CHOOSE v \in vs : \A w \in vs : w <= v

(* Deviation: the memtable's entry whatever its version.                   *)
GetRecordNewest(d, s) ==
  CASE mem[d] # Nothing -> mem[d].w
    [] OTHER -> IF UpTo(rows, d, s) = {} THEN Nothing
                ELSE rows[d][Newest(UpTo(rows, d, s))]

(* get_record: the memtable, then the newest row.                          *)
GetRecord(d, s) ==
  CASE mem[d] # Nothing /\ mem[d].v <= s -> mem[d].w
    [] OTHER -> IF UpTo(rows, d, s) = {} THEN Nothing
                ELSE rows[d][Newest(UpTo(rows, d, s))]

(* query_records: the rows.                                                *)
QueryRecord(d, s) ==
  IF UpTo(rows, d, s) = {} THEN Nothing ELSE rows[d][Newest(UpTo(rows, d, s))]

(* Deviation: the first row the scan meets.                                *)
LowestSchemaVersionAtSnapshot(s) ==
  LET seen == {n \in SchemaNos : UpTo(rows, n, s) # {}}
  IN  IF seen = {} THEN 0 ELSE CHOOSE n \in seen : \A m \in seen : n <= m

(* The highest version number that has a row.                              *)
LatestSchemaVersionAtSnapshot(s) ==
  LET seen == {n \in SchemaNos : UpTo(rows, n, s) # {}}
  IN  IF seen = {} THEN 0 ELSE Newest(seen)

(* get_schema without a version: the index must know the name and number.  *)
GetSchema(s) ==
  LET n == LatestSchemaVersionAtSnapshot(s)
  IN  IF n = 0 \/ n > schema_index THEN Nothing ELSE GetRecord(n, s).body

PendingSchemas(t) == SelectSeq(pending[t], LAMBDA p : p.d \in SchemaNos)
PendingRecords(t) == SelectSeq(pending[t], LAMBDA p : p.d \in Rids)
LastOf(s) == s[Len(s)]

(* What the transaction has noted itself wins over the rows.               *)
ResolveTableSchemaVersion(t) ==
  IF PendingSchemas(t) # <<>> THEN LastOf(PendingSchemas(t)).d
  ELSE LatestSchemaVersionAtSnapshot(txn[t].snapshot)

TableSchemaBody(t, n) ==
  IF PendingSchemas(t) # <<>> THEN LastOf(PendingSchemas(t)).w.body
  ELSE QueryRecord(n, txn[t].snapshot).body

(* Deviation: the number is the index's.                                   *)
SameSchemaVersion(t) ==
  CASE PendingSchemas(t) # <<>> -> LastOf(PendingSchemas(t)).d
    [] schema_index = 0         -> 1
    [] OTHER                    -> schema_index

(* The number after the last one noted, else after the index's.  The index *)
(* is the current one, whatever the snapshot.                              *)
NextSchemaVersion(t) ==
  IF PendingSchemas(t) # <<>> THEN LastOf(PendingSchemas(t)).d + 1
  ELSE schema_index + 1

-----------------------------------------------------------------------------
(* Calls on an open transaction.                                           *)

IsActive(t) == txn[t].use # "none"

Ends(t) == txn' = [txn EXCEPT ![t] = NoTxn]

(* The write set goes with the transaction.                                *)
DropWrites(t) == staged' = [staged EXCEPT ![t] = NoWrites]

(* PendingMap::take.                                                       *)
DropPending(t) == pending' = [pending EXCEPT ![t] = <<>>]

InFlight(t) == {c \in DOMAIN call : call[c].t = t}

Meets(mishap, happened) ==
  mishaps' = IF happened THEN mishaps \cup {mishap} ELSE mishaps

(* stage: the last write of a document stands.                             *)
Stages(t, d, w) ==
  /\ staged' = [staged EXCEPT ![t][d] = w]
  /\ call' = Append(call, [t |-> t, d |-> d, w |-> w])
  /\ Meets("overlapping calls", InFlight(t) # {})

(* Deviation: the body is staged whatever the schema says.                 *)
UpsertUnchecked(t, r, b) ==
  /\ IsActive(t) /\ Len(call) < MaxCalls
  /\ Stages(t, r, [body |-> b, sv |-> ResolveTableSchemaVersion(t)])

(* upsert_record up to stage.  The body conforms to the schema the         *)
(* transaction sees, if there is one.                                      *)
Upsert(t, r, b) ==
  LET n == ResolveTableSchemaVersion(t)
  IN  /\ IsActive(t) /\ Len(call) < MaxCalls
      /\ n # 0 => <<TableSchemaBody(t, n), b>> \in Conforms
      /\ Stages(t, r, [body |-> b, sv |-> n])

UpsertRefused(t, b) ==
  LET n == ResolveTableSchemaVersion(t)
  IN  /\ IsActive(t)
      /\ n # 0 /\ <<TableSchemaBody(t, n), b>> \notin Conforms

(* register_schema and bind_table_schema up to stage.                      *)
RegisterSchema(t, b) ==
  LET n == NextSchemaVersion(t)
  IN  /\ IsActive(t) /\ Len(call) < MaxCalls
      /\ n <= MaxSchema
      /\ Stages(t, n, [body |-> b, sv |-> n])

(* delete_record asks for a row of the record, at any version.             *)
Delete(t, r) ==
  LET all == UpTo(rows, r, MaxVersion)
  IN  /\ IsActive(t) /\ Len(call) < MaxCalls
      /\ all # {}
      /\ Stages(t, r, [body |-> Tombstone, sv |-> rows[r][Newest(all)].sv])

DeleteRefused(t, r) == IsActive(t) /\ UpTo(rows, r, MaxVersion) = {}

(* The write is noted for the hook once stage has returned, under an id    *)
(* no one asks for if the transaction has ended.                           *)
Note(c) ==
  /\ pending' = IF ~ IsActive(call[c].t) /\ committing.t # call[c].t
                THEN pending
                ELSE [pending EXCEPT ![call[c].t] =
                        Append(@, [d |-> call[c].d, w |-> call[c].w])]
  /\ call' = RemoveAt(call, c)
  /\ UNCHANGED <<store_vars, txn, staged, committing, mishaps>>

-----------------------------------------------------------------------------
(* begin, commit, abort.                                                   *)

(* Deviation: the snapshot is the next commit's version.                   *)
BeginTxnAhead(t, use) ==
  /\ ~ IsActive(t) /\ committing.t # t /\ InFlight(t) = {}
  /\ txn' = [txn EXCEPT ![t] = [snapshot |-> global_version + 1, use |-> use]]
  /\ UNCHANGED mishaps

(* A commit has its version before the hook writes its schemas.            *)
SchemaUnderWay ==
  \/ /\ committing.pc \in {"check", "publish"}
     /\ \E n \in SchemaNos : staged[committing.t][n] # Nothing
  \/ \E i \in DOMAIN committing.todo : committing.todo[i].d \in SchemaNos

(* begin_txn keeps the snapshot begin pinned, a commit under way or not.   *)
BeginTxn(t, use) ==
  /\ ~ IsActive(t) /\ committing.t # t /\ InFlight(t) = {}
  /\ txn' = [txn EXCEPT ![t] = [snapshot |-> global_version, use |-> use]]
  /\ Meets("begun before the hook", SchemaUnderWay)

Touched(t) == {d \in Docs : staged[t][d] # Nothing}

(* The transaction is Committing and has its version, before any check.    *)
CommitStarts(t) ==
  /\ IsActive(t) /\ committing = NotCommitting
  /\ Touched(t) # {} /\ global_version < MaxVersion
  /\ global_version' = global_version + 1
  /\ Ends(t)
  /\ committing' = [NotCommitting EXCEPT !.pc = "check", !.t = t,
                      !.s = txn[t].snapshot, !.v = global_version + 1]
  /\ Meets("overlapping calls", InFlight(t) # {})
  /\ UNCHANGED <<chain, rows, schema_index, mem, staged, pending, call>>

(* A transaction without writes takes no version.                          *)
CommitEmpty(t) ==
  /\ IsActive(t) /\ committing = NotCommitting
  /\ Touched(t) = {}
  /\ Ends(t)
  /\ DropPending(t)
  /\ UNCHANGED <<store_vars, staged, call, committing, mishaps>>

Conflicts ==
  \E d \in Touched(committing.t) :
    \E v \in UpTo(chain, d, MaxVersion) : v > committing.s

(* A conflict aborts, and the version is lost.  commit_txn returns before  *)
(* it purges what was noted, which stays under an id no one asks for, as   *)
(* after a sweep.                                                          *)
CommitConflict ==
  /\ committing.pc = "check" /\ Conflicts
  /\ committing' = NotCommitting
  /\ DropWrites(committing.t) /\ DropPending(committing.t)
  /\ UNCHANGED <<store_vars, txn, call, mishaps>>

CommitAppend ==
  /\ committing.pc = "check" /\ ~ Conflicts
  /\ chain' = [d \in Docs |-> IF d \in Touched(committing.t)
                 THEN [chain[d] EXCEPT ![committing.v] = staged[committing.t][d]]
                 ELSE chain[d]]
  /\ committing' = [committing EXCEPT !.pc = "publish"]
  /\ UNCHANGED <<global_version, rows, schema_index, mem, txn, staged, pending,
                 call, mishaps>>

RowPut(p)   == [table |-> "rows", d |-> p.d, w |-> p.w]
IndexPut(p) == [table |-> "schema_index", d |-> p.d, w |-> p.w]

(* The rows of the records.                                                *)
PutsForRecords(t) == [i \in DOMAIN PendingRecords(t) |-> RowPut(PendingRecords(t)[i])]

(* The puts of the hook, each a transaction of the store: the records'     *)
(* rows, then for each schema its place in the index and its row.          *)
PutsToMake(t) ==
  PutsForRecords(t)
    \o FlattenSeq([i \in DOMAIN PendingSchemas(t) |->
                     LET p == PendingSchemas(t)[i] IN <<IndexPut(p), RowPut(p)>>])

(* The memtable, whose entries carry schema version 0, then the hook takes *)
(* what was noted.                                                         *)
CommitPublish ==
  LET t == committing.t
  IN  /\ committing.pc = "publish"
      /\ mem' = [d \in Docs |-> IF staged[t][d] = Nothing THEN mem[d]
                   ELSE [v |-> committing.v, w |-> [staged[t][d] EXCEPT !.sv = 0]]]
      /\ committing' = IF PutsToMake(t) = <<>> THEN NotCommitting
                       ELSE [committing EXCEPT !.pc = "hook", !.todo = PutsToMake(t)]
      /\ DropPending(t)
      /\ DropWrites(t)
      /\ UNCHANGED <<global_version, chain, rows, schema_index, txn, call,
                     mishaps>>

(* The hook goes on to its next put.  After the last one commit_txn purges *)
(* what was noted in the meantime.                                         *)
HookGoesOn ==
  /\ committing' = IF Len(committing.todo) = 1 THEN NotCommitting
                   ELSE [committing EXCEPT !.todo = Tail(@)]
  /\ pending' = IF Len(committing.todo) > 1 THEN pending
                ELSE [pending EXCEPT ![committing.t] = <<>>]

HookPut ==
  LET p == Head(committing.todo)
  IN  /\ committing.todo # <<>>
      /\ \/ /\ p.table = "rows"
            /\ rows' = [rows EXCEPT ![p.d][committing.v] = p.w]
            /\ UNCHANGED schema_index
         \/ /\ p.table = "schema_index"
            /\ schema_index' = p.d
            /\ UNCHANGED rows
      /\ HookGoesOn
      /\ UNCHANGED <<global_version, chain, mem, txn, staged, call, mishaps>>

(* A put that fails is only logged.                                        *)
HookPutFails ==
  /\ committing.todo # <<>>
  /\ mishaps' = mishaps \cup
       {IF Head(committing.todo).table = "rows" THEN "rows lost" ELSE "index behind"}
  /\ HookGoesOn
  /\ UNCHANGED <<store_vars, txn, staged, call>>

(* An error before the memtable: the transaction ends as the chains have   *)
(* it (TxnCoordinator!CommitFails), and no hook runs.                      *)
CommitFails ==
  /\ committing.pc \in {"check", "publish"}
  /\ committing' = NotCommitting
  /\ mishaps' = mishaps \cup
       IF committing.pc = "check" THEN {}
       ELSE {"rows lost"} \cup
            IF \E n \in SchemaNos : staged[committing.t][n] # Nothing
            THEN {"index behind"} ELSE {}
  /\ DropWrites(committing.t) /\ DropPending(committing.t)
  /\ UNCHANGED <<store_vars, txn, call>>

AbortTxn(t) ==
  /\ IsActive(t) /\ committing = NotCommitting
  /\ Ends(t) /\ DropWrites(t) /\ DropPending(t)
  /\ UNCHANGED <<store_vars, call, committing, mishaps>>

(* The stale-transaction sweeper knows nothing of it.                      *)
Sweep(t) ==
  /\ IsActive(t)
  /\ Ends(t) /\ DropWrites(t) /\ DropPending(t)
  /\ UNCHANGED <<store_vars, call, committing, mishaps>>

=============================================================================
