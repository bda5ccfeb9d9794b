----------------------------- MODULE ChunkFlush -----------------------------
(***************************************************************************)
(* The two tasks that meet in the memtables: a commit, which publishes its *)
(* writes (the end of commit_inner in xtable-tx/src/coordinator.rs, under  *)
(* commit_lock, so one at a time), and the flush loop (xtable-storage/src/ *)
(* flush.rs).  A step ends where the task takes or releases a lock, ends a *)
(* redb transaction or waits for S3.                                       *)
(*                                                                         *)
(* Of what a transaction does before its commit (TxnCoordinator) the log   *)
(* rows are kept; its chain, version and state records are one step.       *)
(* Transactions that end without a commit, and recovery, add rows as well. *)
(* They are left out: more rows put the numbers of the log further ahead   *)
(* of the versions.                                                        *)
(***************************************************************************)
EXTENDS ChunkStore

CONSTANT
  MaxFaults     \* bound: calls to S3 or redb that fail

ASSUME ChunkFlushAssumption == MaxFaults \in Nat

VARIABLES
  commit,       \* the commit in progress
  flush,        \* the flush loop
  rebuild,      \* the cold rebuild at start, "off" while requests are served
  wal_last,     \* LAST_WAL_SEQ
  wal_cut,      \* the log rows up to this one are gone
  open,         \* transactions begun: the keys staged and the last log row
  minted,       \* chunk ids so far
  faults,
  history,      \* the commits so far: version and keys of each
  mishaps       \* what went wrong so far

log_vars  == <<wal_last, wal_cut, open>>
past_vars == <<minted, faults, history, mishaps>>

(* pc; keys left to publish or to index; the key and the table of the put  *)
(* under way; log row of its Committing.                                   *)
NotCommitting == [pc |-> "idle", todo |-> {}, k |-> {}, table |-> 0, row |-> 0]

(* pc; tables taken; the chunk being written, its entries, the highest     *)
(* sequence number; the keys of the table whose rows have yet to point to  *)
(* it.                                                                     *)
NotFlushing == [pc |-> "idle", taken |-> <<>>, chunk |-> 0, entries |-> {},
                last |-> 0, todo |-> {}]

Serving == rebuild.pc = "off"

-----------------------------------------------------------------------------
(* The commit.                                                             *)

(* The commit in progress is the last one of the history.                  *)
ThisCommit == [cv |-> history[Len(history)].v, src |-> Len(history)]
ItsKeys    == history[Len(history)].keys

(* Begin and Stage are logged when the request comes, while others commit  *)
(* and the flush loop runs.  Only the newest row of a transaction matters: *)
(* the log is cut from its beginning.  A key is staged once.               *)
LogBegin ==
  /\ Serving
  /\ Len(history) + Cardinality(open) < MaxCommits
  /\ wal_last' = wal_last + 1
  /\ open' = open \cup {[keys |-> {}, row |-> wal_last']}
  /\ UNCHANGED <<table_vars, objects, redb_vars, commit, flush, rebuild,
                 wal_cut, past_vars>>

LogStage ==
  /\ Serving
  /\ wal_last' = wal_last + 1
  /\ \E o \in open : \E k \in Keys \ o.keys :
       open' = (open \ {o}) \cup {[keys |-> o.keys \cup {k}, row |-> wal_last']}
  /\ UNCHANGED <<table_vars, objects, redb_vars, commit, flush, rebuild,
                 wal_cut, past_vars>>

(* The version and the Committing row.                                     *)
CommitLog(keys) ==
  /\ Serving /\ commit.pc = "idle"
  /\ Len(history) < MaxCommits /\ global_version < MaxVersion
  /\ \E o \in open : o.keys = keys /\ open' = open \ {o}
  /\ global_version' = global_version + 1
  /\ history' = Append(history, [v |-> global_version + 1, keys |-> keys])
  /\ wal_last' = wal_last + 1
  /\ commit' = [NotCommitting EXCEPT !.pc = "append", !.row = wal_last']
  /\ UNCHANGED <<table_vars, objects, chunk_index, row_vars, flush, rebuild,
                 wal_cut, minted, faults, mishaps>>

(* Chains, TBL_VERSIONS, the Committed and CommitResult rows, the state.   *)
CommitAppend ==
  /\ commit.pc = "append"
  /\ wal_last' = wal_last + 2
  /\ commit' = [commit EXCEPT !.pc = "put", !.todo = ItsKeys]
  /\ UNCHANGED <<table_vars, objects, redb_vars, flush, rebuild, wal_cut,
                 open, past_vars>>

(* MemTableSet::put_invisible clones the Arc of the active table ...       *)
PutClone ==
  /\ commit.pc = "put"
  /\ \E k \in commit.todo :
       commit' = [commit EXCEPT !.pc = "insert", !.k = {k}, !.table = active]
  /\ UNCHANGED <<table_vars, objects, redb_vars, flush, rebuild, log_vars,
                 past_vars>>

(* ... inserts the entry, already at its version, and replaces the active  *)
(* table if it is large or old enough and still the one it has.            *)
PutInsert ==
  /\ commit.pc = "insert"
  /\ \E k \in commit.k : PutInvisible(commit.table, k, ThisCommit)
  /\ \/ /\ ReplaceActive(commit.table)
        /\ commit' = [commit EXCEPT !.pc = "push"]
     \/ /\ UNCHANGED active
        /\ commit' = [commit EXCEPT !.pc = "publish", !.table = 0]
  /\ mishaps' = IF active = commit.table THEN mishaps
                ELSE mishaps \cup {"late put"}
  /\ UNCHANGED <<flushing, objects, redb_vars, flush, rebuild, log_vars,
                 minted, faults, history>>

(* Deviation: the table goes before those already waiting.                 *)
PushReplacedFirst(table) ==
  /\ flushing' = <<table>> \o flushing
  /\ mishaps' = IF active = table + 1 THEN mishaps
                ELSE mishaps \cup {"late push"}

(* The table replaced goes behind those already waiting, which should all  *)
(* be older.                                                               *)
PushReplaced(table) ==
  /\ flushing' = Append(flushing, table)
  /\ mishaps' = IF active = table + 1 THEN mishaps
                ELSE mishaps \cup {"late push"}

PutPush ==
  /\ commit.pc = "push"
  /\ PushReplaced(commit.table)
  /\ commit' = [commit EXCEPT !.pc = "publish", !.table = 0]
  /\ UNCHANGED <<tables, active, objects, redb_vars, flush, rebuild, log_vars,
                 minted, faults, history>>

(* Publish in the active table, then in the immutables, whose list is only *)
(* tried for: the walk is skipped if someone holds it.  An entry of the    *)
(* active table already has the version, so the first part changes nothing *)
(* and needs no step of its own.                                           *)
PutPublish ==
  LET left == commit.todo \ commit.k
  IN  /\ commit.pc = "publish"
      /\ \E k \in commit.k, locked \in BOOLEAN :
           tables' = Publish(k, ThisCommit.cv, locked)
      /\ commit' = [commit EXCEPT !.pc = IF left = {} THEN "hook" ELSE "put",
                      !.todo = IF left = {} THEN ItsKeys ELSE left, !.k = {}]
      /\ UNCHANGED <<active, flushing, objects, redb_vars, flush, rebuild,
                     log_vars, past_vars>>

HookDone(k) ==
  commit' = IF commit.todo = {k} THEN NotCommitting
            ELSE [commit EXCEPT !.todo = @ \ {k}]

(* The post-commit hook, one row per redb transaction.                     *)
CommitHook ==
  /\ commit.pc = "hook"
  /\ \E k \in commit.todo :
       /\ PutRecordIndexWithBody(k, ThisCommit.cv, ThisCommit.src)
       /\ HookDone(k)
  /\ UNCHANGED <<table_vars, objects, chunk_index, global_version, flush,
                 rebuild, log_vars, minted, faults, history, mishaps>>

-----------------------------------------------------------------------------
(* The flush loop.                                                         *)

(* The one-second tick replaces an active table that is large or old       *)
(* enough, and pushes it.  (An empty table that no put holds may go as     *)
(* well, to no effect.)                                                    *)
TickRotate ==
  /\ Serving /\ flush.pc = "idle"
  /\ tables[active] # EmptyMap \/ commit.table = active
  /\ ReplaceActive(active)
  /\ flush' = [NotFlushing EXCEPT !.pc = "push", !.taken = <<active>>]
  /\ UNCHANGED <<tables, flushing, objects, redb_vars, commit, rebuild,
                 log_vars, past_vars>>

TickPush ==
  /\ flush.pc = "push"
  /\ PushReplaced(Head(flush.taken))
  /\ flush' = NotFlushing
  /\ UNCHANGED <<tables, active, objects, redb_vars, commit, rebuild, log_vars,
                 minted, faults, history>>

TakeImmutables ==
  /\ Serving /\ flush.pc = "idle" /\ flushing # <<>>
  /\ flushing' = <<>>
  /\ flush' = [NotFlushing EXCEPT !.pc = "encode", !.taken = flushing]
  /\ UNCHANGED <<tables, active, objects, redb_vars, commit, rebuild, log_vars,
                 past_vars>>

Table == Head(flush.taken)

EntriesOf(map) ==
  {[k |-> k, cv |-> map[k].cv, src |-> map[k].src] :
     k \in {x \in Keys : map[x] # NoEntry}}

(* The loop goes on with the next table it took.                           *)
NextTable ==
  IF Len(flush.taken) = 1 THEN NotFlushing
  ELSE [NotFlushing EXCEPT !.pc = "encode", !.taken = Tail(flush.taken)]

(* Deviation: the chunk takes the number of the log's last row.            *)
LastLogRow(map) == wal_last

(* The highest sequence number put into the table.  The coordinator sets   *)
(* wal_seq to the commit version.                                          *)
LastWalSeq(map) ==
  Newest({history[map[k].src].v : k \in {x \in Keys : map[x] # NoEntry}})

(* Copy the entries of the table into a chunk under a new id.  An empty    *)
(* table is done.                                                          *)
Encode ==
  /\ flush.pc = "encode"
  /\ IF tables[Table] = EmptyMap
     THEN flush' = NextTable /\ UNCHANGED minted
     ELSE /\ minted < MaxChunks
          /\ minted' = minted + 1
          /\ flush' = [flush EXCEPT !.pc = "upload", !.chunk = minted + 1,
                                    !.entries = EntriesOf(tables[Table]),
                                    !.last = LastWalSeq(tables[Table])]
  /\ UNCHANGED <<table_vars, objects, redb_vars, commit, rebuild, log_vars,
                 faults, history, mishaps>>

UploadChunk ==
  /\ flush.pc = "upload"
  /\ objects' = [objects EXCEPT ![flush.chunk] = flush.entries]
  /\ flush' = [flush EXCEPT !.pc = "index"]
  /\ UNCHANGED <<table_vars, redb_vars, commit, rebuild, log_vars, past_vars>>

(* "durable point of no return"                                            *)
PutChunkIndex ==
  /\ flush.pc = "index"
  /\ chunk_index' = chunk_index \cup {flush.chunk}
  /\ flush' = [flush EXCEPT !.pc = "point",
                 !.todo = {k \in Keys : tables[Table][k] # NoEntry}]
  /\ UNCHANGED <<table_vars, objects, row_vars, global_version, commit, rebuild,
                 log_vars, past_vars>>

(* update_record_index_after_flush walks the table again, one redb         *)
(* transaction per entry, and goes by the versions it finds now.           *)
PointRow ==
  /\ flush.pc = "point"
  /\ \E k \in flush.todo :
       /\ UpdateRecordIndexChunkIdForVersion(k, tables[Table][k].cv, flush.chunk)
       /\ flush' = [flush EXCEPT !.todo = @ \ {k}]
  /\ UNCHANGED <<table_vars, objects, chunk_index, global_version, commit,
                 rebuild, log_vars, past_vars>>

(* The MemtableFlushed row, then LAST_FLUSHED_SEQ, which no one reads.     *)
LogFlushed ==
  /\ flush.pc = "point" /\ flush.todo = {}
  /\ wal_last' = wal_last + 1
  /\ flush' = [flush EXCEPT !.pc = "truncate"]
  /\ UNCHANGED <<table_vars, objects, redb_vars, commit, rebuild, wal_cut,
                 open, past_vars>>

(* truncate_wal removes the rows up to a number; rows logged later stay.   *)
CutAt(seq) == CASE seq <= wal_cut  -> wal_cut
                [] seq >= wal_last -> wal_last
                [] OTHER           -> seq

(* The table is dropped after it.                                          *)
TruncateWal ==
  /\ flush.pc = "truncate"
  /\ wal_cut' = CutAt(flush.last)
  /\ flush' = NextTable
  /\ UNCHANGED <<table_vars, objects, redb_vars, commit, rebuild, wal_last,
                 open, past_vars>>

-----------------------------------------------------------------------------
(* A failing call.                                                         *)

Fault ==
  /\ faults < MaxFaults
  /\ faults' = faults + 1
  /\ mishaps' = mishaps \cup {"failed call"}

(* Deviation: the table is dropped.                                        *)
FlushFailsForGood ==
  /\ Fault
  /\ flush.pc \in {"upload", "index"}
  /\ flush' = NextTable
  /\ UNCHANGED <<table_vars, objects, redb_vars, commit, rebuild, log_vars,
                 minted, history>>

(* flush_one returns an error and the loop pushes the table behind those   *)
(* that were rotated meanwhile.  An upload whose answer is lost may have   *)
(* left its object; set_flushed_seq fails with the MemtableFlushed row in  *)
(* the log.                                                                *)
FlushFails ==
  /\ Fault
  /\ \/ flush.pc \in {"upload", "index"} /\ UNCHANGED <<objects, wal_last>>
     \/ /\ flush.pc = "upload"
        /\ objects' = [objects EXCEPT ![flush.chunk] = flush.entries]
        /\ UNCHANGED wal_last
     \/ /\ flush.pc = "point" /\ flush.todo = {}
        /\ wal_last' = wal_last \/ wal_last' = wal_last + 1
        /\ UNCHANGED objects
  /\ flushing' = Append(flushing, Table)
  /\ flush' = NextTable
  /\ UNCHANGED <<tables, active, redb_vars, commit, rebuild, wal_cut, open,
                 minted, history>>

(* A failing pointer update or truncation is only logged.                  *)
FlushWarns ==
  /\ Fault
  /\ \/ flush.pc = "point" /\ flush.todo # {}
          /\ flush' = [flush EXCEPT !.todo = {}]
     \/ flush.pc = "truncate" /\ flush' = NextTable
  /\ UNCHANGED <<table_vars, objects, redb_vars, commit, rebuild, log_vars,
                 minted, history>>

(* So is a failing row of the hook.                                        *)
HookWarns ==
  /\ Fault
  /\ commit.pc = "hook"
  /\ \E k \in commit.todo : HookDone(k)
  /\ UNCHANGED <<table_vars, objects, redb_vars, flush, rebuild, log_vars,
                 minted, history>>

=============================================================================
