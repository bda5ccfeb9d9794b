--------------------------- MODULE LsmTreeProofs ----------------------------
(***************************************************************************)
(* What is proved of the storage of records, for every number of keys,     *)
(* versions, commits, memtables, chunks, failing calls, crashes and lost   *)
(* disks.                                                                  *)
(***************************************************************************)
EXTENDS LsmTree, TLAPS

(* Time enough for each prover on a busy machine.                          *)
USE SMTT(20), ZenonT(30)

-----------------------------------------------------------------------------
(* Types, and what the program counters of the tasks say.                  *)

Entry        == [cv : Versions, src : Commits]
ChunkEntry   == [k : Keys, cv : Versions, src : Commits]
ScannedEntry == [k : Keys, cv : Versions, src : Commits, chunk : ChunkIds]
VersionRow   == [src : Commits, chunk : 0 .. MaxChunks]
LatestRow    == [cv : Versions, src : Commits, chunk : 0 .. MaxChunks]

CommitPcs  == {"idle", "append", "put", "insert", "push", "publish", "hook"}
ChunkPcs   == {"upload", "index", "point", "truncate"}
FlushPcs   == {"idle", "push", "encode"} \cup ChunkPcs
RebuildPcs == {"off", "scan", "index", "rows", "chains", "version", "refused"}

TablesOK ==
  /\ tables \in [TableIds -> [Keys -> Entry \cup {NoEntry}]]
  /\ active \in TableIds /\ flushing \in Seq(TableIds)

StoreOK ==
  /\ objects \in [ChunkIds -> SUBSET ChunkEntry]
  /\ chunk_index \subseteq ChunkIds
  /\ record_index \in [Keys -> LatestRow \cup {NoRow}]
  /\ record_versions \in [Keys -> [Versions -> VersionRow \cup {NoRow}]]
  /\ global_version \in 0 .. MaxVersion

LogOK ==
  /\ history \in Seq([v : Versions, keys : SUBSET Keys])
  /\ Len(history) <= MaxCommits
  /\ wal_last \in Nat /\ wal_cut \in Nat /\ minted \in 0 .. MaxChunks

TasksOK ==
  /\ commit \in [pc : CommitPcs, todo : SUBSET Keys, k : SUBSET Keys,
                 table : 0 .. MaxTables, row : Nat]
  /\ flush \in [pc : FlushPcs, taken : Seq(TableIds), chunk : 0 .. MaxChunks,
                entries : SUBSET ChunkEntry, last : 0 .. MaxVersion,
                todo : SUBSET Keys]
  /\ rebuild = [pc |-> rebuild.pc, scan |-> rebuild.scan,
                chains |-> rebuild.chains]
  /\ rebuild.pc \in RebuildPcs /\ rebuild.scan \subseteq ScannedEntry

CommitOK ==
  commit.pc # "idle" =>
    /\ Serving /\ Len(history) > 0 /\ ThisCommit.cv = global_version
    /\ commit.todo \subseteq ItsKeys /\ commit.k \subseteq ItsKeys
    /\ commit.pc \in {"insert", "push"} => commit.table # 0

FlushOK ==
  flush.pc # "idle" =>
    /\ Serving /\ flush.taken # <<>>
    /\ flush.pc \in ChunkPcs => flush.chunk # 0
    /\ flush.pc = "point" => \A k \in flush.todo : tables[Table][k] # NoEntry

(* A server that rebuilds starts from an empty memory, counter and log.    *)
RebuildOK ==
  ~ Serving =>
    /\ tables = [i \in TableIds |-> EmptyMap] /\ flushing = <<>>
    /\ global_version = 0 /\ wal_last = wal_cut

(* What the proofs need of the numbers, whatever the state.  It is proved  *)
(* at the end, from the library's theorems, and assumed with the types     *)
(* until then: those theorems would be in the way of every other proof.    *)
Numbers ==
  \A T \in SUBSET Nat : T # {} => \E x \in T : \A y \in T : x <= y

TInv == Numbers /\ TablesOK /\ StoreOK /\ LogOK /\ TasksOK /\ CommitOK /\ FlushOK
        /\ RebuildOK

-----------------------------------------------------------------------------
(* Where an entry comes from: a commit that wrote the key, with a version  *)
(* not above the one the entry has now.                                    *)
WrittenBy(h, k, src, v) ==
  /\ src \in 1 .. Len(h)
  /\ k \in h[src].keys /\ h[src].v <= v

TablesFrom ==
  \A i \in TableIds, k \in Keys :
    tables[i][k] # NoEntry =>
      /\ WrittenBy(history, k, tables[i][k].src, tables[i][k].cv)
      /\ tables[i][k].cv <= global_version

FlushFrom ==
  /\ \A e \in flush.entries : WrittenBy(history, e.k, e.src, e.cv) /\ e.cv <= global_version
  /\ flush.last <= global_version

ChunksFrom ==
  \A c \in ChunkIds : \A e \in objects[c] : WrittenBy(history, e.k, e.src, e.cv)

ScanFrom ==
  /\ Serving => rebuild.scan = {}
  /\ \A e \in rebuild.scan :
       [k |-> e.k, cv |-> e.cv, src |-> e.src] \in objects[e.chunk]

RowsFrom ==
  /\ \A k \in Keys, v \in Versions :
       record_versions[k][v] # NoRow => WrittenBy(history, k, record_versions[k][v].src, v)
  /\ \A k \in Keys :
       record_index[k] # NoRow =>
         WrittenBy(history, k, record_index[k].src, record_index[k].cv)

Origins == TablesFrom /\ FlushFrom /\ ChunksFrom /\ ScanFrom /\ RowsFrom

-----------------------------------------------------------------------------
(* The log is never cut as far as the Committing row of the commit in      *)
(* progress: with the Begin row of every transaction logged before its     *)
(* version is taken, the versions stay behind the rows.                    *)
LogOrder ==
  /\ wal_cut <= global_version /\ global_version <= wal_last
  /\ open # {} => global_version < wal_last
  /\ commit.pc # "idle" => commit.row > global_version
  /\ \A c \in ChunkIds : \A e \in objects[c] : e.cv <= global_version

LogInv == Calm({"disk loss"}) => LogOrder

(* The commits whose entries are somewhere, or will be.                    *)
Alive ==
  {i \in 1 .. Len(history) :
     \/ \E t \in TableIds, k \in Keys : tables[t][k] # NoEntry /\ tables[t][k].src = i
     \/ \E e \in flush.entries : e.src = i
     \/ \E c \in ChunkIds : \E e \in objects[c] : e.src = i
     \/ commit.pc # "idle" /\ i = Len(history)}

AliveApart ==
  /\ \A i, j \in Alive : history[i].v = history[j].v => i = j
  /\ Serving => \A c \in ChunkIds : \A e \in objects[c] : e.cv <= global_version
  /\ rebuild.pc \in {"index", "rows", "chains", "version"} =>
       rebuild.scan = EntriesIn(Chunks)

ReuseInv == Calm({"failed call"}) => AliveApart

-----------------------------------------------------------------------------
(***************************************************************************)
(* Which steps write which variable: the tasks that meet in the memtables, *)
(* in redb and in S3 (memtable.rs, store.rs, flush.rs, rebuild.rs).        *)
(***************************************************************************)
LEMMA Writers ==
  ASSUME Next
  PROVE  /\ UNCHANGED tables \/ PutInsert \/ PutPublish \/ LoseMemory
         /\ UNCHANGED active \/ PutInsert \/ TickRotate \/ LoseMemory
         /\ \/ UNCHANGED flushing \/ PutPush \/ TickPush \/ TakeImmutables
            \/ FlushFails \/ LoseMemory
         /\ UNCHANGED objects \/ UploadChunk \/ FlushFails
         /\ UNCHANGED chunk_index \/ PutChunkIndex \/ RebuildChunkIndex \/ LoseDisk
         /\ UNCHANGED row_vars \/ CommitHook \/ PointRow \/ RebuildRows \/ LoseDisk
         /\ \/ UNCHANGED global_version
            \/ \E keys \in SUBSET Keys \ {{}} : CommitLog(keys)
            \/ RebuildVersion \/ LoseDisk
         /\ UNCHANGED history \/ \E keys \in SUBSET Keys \ {{}} : CommitLog(keys)
         /\ \/ UNCHANGED wal_last
            \/ \E keys \in SUBSET Keys \ {{}} : CommitLog(keys)
            \/ LogBegin \/ LogStage \/ CommitAppend \/ LogFlushed \/ FlushFails
            \/ LoseDisk
         /\ \/ UNCHANGED open \/ LogBegin \/ LogStage \/ LoseMemory
            \/ \E keys \in SUBSET Keys \ {{}} : CommitLog(keys)
         /\ UNCHANGED wal_cut \/ TruncateWal \/ LoseDisk
         /\ UNCHANGED minted \/ Encode
         /\ UNCHANGED commit \/ CommitStep \/ LoseMemory
         /\ UNCHANGED flush \/ FlushStep \/ LoseMemory
         /\ UNCHANGED rebuild \/ RebuildStep \/ Crash \/ LoseDisk
         /\ mishaps \subseteq mishaps'
<1> USE DEF table_vars, row_vars, redb_vars, log_vars, past_vars, fate_vars,
            rebuild_keeps
<1>1. CASE \E keys \in SUBSET Keys \ {{}} : CommitLog(keys)
  BY Zenon, <1>1 DEF CommitLog, CommitStep
<1>2. CASE CommitAppend
  BY <1>2 DEF CommitAppend, CommitStep
<1>3. CASE PutClone
  BY Zenon, <1>3 DEF PutClone, CommitStep
<1>4. CASE PutInsert
  BY Zenon, <1>4 DEF PutInsert, CommitStep
<1>5. CASE PutPush
  BY Zenon, <1>5 DEF PutPush, PushReplaced, CommitStep
<1>6. CASE PutPublish
  BY <1>6 DEF PutPublish, CommitStep
<1>7. CASE CommitHook
  BY <1>7 DEF CommitHook, CommitStep
<1>8. CASE HookWarns
  BY Zenon, <1>8 DEF HookWarns, Fault, CommitStep
<1>9. CASE TickRotate
  BY <1>9 DEF TickRotate, FlushStep
<1>10. CASE TickPush
  BY Zenon, <1>10 DEF TickPush, PushReplaced, FlushStep
<1>11. CASE TakeImmutables
  BY <1>11 DEF TakeImmutables, FlushStep
<1>12. CASE Encode
  BY <1>12 DEF Encode, FlushStep
<1>13. CASE UploadChunk
  BY <1>13 DEF UploadChunk, FlushStep
<1>14. CASE PutChunkIndex
  BY <1>14 DEF PutChunkIndex, FlushStep
<1>15. CASE PointRow
  BY Zenon, <1>15 DEF PointRow, FlushStep
<1>16. CASE LogFlushed
  BY <1>16 DEF LogFlushed, FlushStep
<1>17. CASE TruncateWal
  BY <1>17 DEF TruncateWal, FlushStep
<1>18. CASE FlushFails
  BY Zenon, <1>18 DEF FlushFails, Fault, FlushStep
<1>19. CASE FlushWarns
  BY Zenon, <1>19 DEF FlushWarns, Fault, FlushStep
<1>20. CASE RebuildScan
  BY <1>20 DEF RebuildScan, RebuildStep
<1>21. CASE RebuildSkips
  BY Zenon, <1>21 DEF RebuildSkips, Fault, RebuildStep
<1>22. CASE RebuildChunkIndex
  BY <1>22 DEF RebuildChunkIndex, RebuildStep
<1>23. CASE RebuildRows
  BY <1>23 DEF RebuildRows, RebuildStep
<1>24. CASE RebuildChains
  BY <1>24 DEF RebuildChains, RebuildStep
<1>25. CASE RebuildVersion
  BY <1>25 DEF RebuildVersion, RebuildStep
<1>26. CASE StartAgain
  BY <1>26 DEF StartAgain, RebuildStep
<1>27. CASE Crash
  BY Zenon, <1>27 DEF Crash, LoseMemory, NoTables
<1>28. CASE LoseDisk
  BY Zenon, <1>28 DEF LoseDisk, LoseMemory, NoTables
<1>29. CASE LogBegin
  BY Zenon, <1>29 DEF LogBegin, CommitStep
<1>30. CASE LogStage
  BY Zenon, <1>30 DEF LogStage, CommitStep
<1> QED
  <2> USE DEF Next, CommitStep, FlushStep, RebuildStep
  <2> QED BY ZenonT(60), <1>1, <1>2, <1>3, <1>4, <1>5, <1>6, <1>7, <1>8, <1>9, <1>10,
             <1>11, <1>12, <1>13, <1>14, <1>15, <1>16, <1>17, <1>18, <1>19,
             <1>20, <1>21, <1>22, <1>23, <1>24, <1>25, <1>26, <1>27, <1>28,
             <1>29, <1>30

-----------------------------------------------------------------------------
(***************************************************************************)
(* Small facts, stated once.  The positions of the immutable tables lie    *)
(* among the numbers the range scans of read_at_snapshot are bounded by.   *)
(***************************************************************************)
LEMMA FromOne ==
  ASSUME NEW n \in Nat
  PROVE  1 .. n \subseteq 0 .. n
OBVIOUS

(* A row read_at_snapshot does not skip as too new is visible.             *)
LEMMA NotAbove ==
  ASSUME NEW a \in Nat, NEW b \in Nat, ~ (a > b)
  PROVE  a <= b
OBVIOUS

(* The versions allocate_version hands out are numbers.                    *)
LEMMA VersionsAreNat ==
  ASSUME NEW v \in Versions
  PROVE  v \in Nat
BY MemTablesAssumption DEF Versions

(* Versions and log rows compare as numbers do.                            *)
LEMMA Below ==
  ASSUME NEW a \in Nat, NEW b \in Nat, NEW c \in Nat, a <= b
  PROVE  (b <= c => a <= c /\ a \in 0 .. c) /\ (c > b => c > a)
OBVIOUS

(* A row logged comes after those in the log, and after the versions that *)
(* were behind them.                                                       *)
LEMMA LogGrows ==
  ASSUME NEW a \in Nat, NEW b, b = a + 1 \/ b = a + 2
  PROVE  /\ b \in Nat /\ b >= a
         /\ \A n \in Nat : (n <= a => n < b) /\ (n < a => n + 1 < b)
OBVIOUS

(* No commit and no flush in progress: the states the server starts with.  *)
LEMMA AtRest ==
  /\ [pc |-> "idle", todo |-> {}, k |-> {}, table |-> 0, row |-> 0]
       \in [pc : CommitPcs, todo : SUBSET Keys, k : SUBSET Keys,
            table : 0 .. MaxTables, row : Nat]
  /\ [pc |-> "idle", taken |-> <<>>, chunk |-> 0, entries |-> {}, last |-> 0,
      todo |-> {}]
       \in [pc : FlushPcs, taken : Seq(TableIds), chunk : 0 .. MaxChunks,
            entries : SUBSET ChunkEntry, last : 0 .. MaxVersion,
            todo : SUBSET Keys]
BY MemTablesAssumption, ChunkStoreAssumption DEF CommitPcs, FlushPcs

(* The entry a read makes of a row has the row's version and body.         *)
LEMMA EntryParts ==
  ASSUME NEW v, NEW s, NEW e, e = [cv |-> v, src |-> s]
  PROVE  e.cv = v /\ e.src = s
OBVIOUS

(***************************************************************************)
(* A bounded set of versions that is not empty has a newest one, the one   *)
(* that the range scans of read_at_snapshot end on.                        *)
(***************************************************************************)
LEMMA NewestSpec ==
  ASSUME TInv, NEW vs, NEW n \in Nat, vs \subseteq 0 .. n, vs # {}
  PROVE  Newest(vs) \in vs /\ \A w \in vs : w <= Newest(vs)
<1> DEFINE T == {n - v : v \in vs}
<1>1. T \subseteq Nat /\ T # {}
  <2>1. \A v \in vs : n - v \in Nat
    OBVIOUS
  <2>2. PICK v0 \in vs : TRUE
    BY Zenon
  <2>3. n - v0 \in T
    OBVIOUS
  <2> QED BY <2>1, <2>3
<1> HIDE DEF T
<1>2. PICK x \in T : \A y \in T : x <= y
  <2>1. T \in SUBSET Nat
    BY Zenon, <1>1
  <2> QED BY Zenon, <1>1, <2>1 DEF TInv, Numbers
<1>3. PICK v \in vs : x = n - v
  BY DEF T
<1>4. ASSUME NEW w \in vs PROVE w <= v
  <2>1. n - w \in T
    BY DEF T
  <2> QED BY <1>2, <1>3, <2>1
<1> QED BY Zenon, <1>4 DEF Newest

(***************************************************************************)
(* Of entries that are not none, one has the newest version (the           *)
(* max_by_key of read_from_chunk and of rebuild).                          *)
(***************************************************************************)
LEMMA NewestEntry ==
  ASSUME TInv, NEW S, S # {}, \A e \in S : e.cv \in Versions
  PROVE  \E e \in S : \A f \in S : f.cv <= e.cv
<1> DEFINE vs == {e.cv : e \in S}
<1>1. MaxVersion \in Nat /\ vs \subseteq 0 .. MaxVersion /\ vs # {}
  BY MemTablesAssumption DEF Versions
<1>2. Newest(vs) \in vs /\ \A w \in vs : w <= Newest(vs)
  BY Zenon, <1>1, NewestSpec
<1>3. PICK e \in S : Newest(vs) = e.cv
  BY Zenon, <1>2
<1>4. \A f \in S : f.cv \in vs
  OBVIOUS
<1> QED BY Zenon, <1>2, <1>3, <1>4

-----------------------------------------------------------------------------
(***************************************************************************)
(* What a sequence of the code's collections holds.                        *)
(***************************************************************************)
LEMMA ElementOf ==
  ASSUME NEW S, NEW s \in Seq(S), NEW i \in 1 .. Len(s)
  PROVE  s[i] \in S
OBVIOUS

(***************************************************************************)
(* The commit in progress has a version and keys, and its entry may go     *)
(* into a memtable.                                                        *)
(***************************************************************************)
LEMMA CommitFacts ==
  ASSUME TInv, commit.pc # "idle"
  PROVE  /\ ThisCommit \in Entry /\ ThisCommit.cv = global_version
         /\ ThisCommit.src = Len(history) /\ Len(history) \in Nat
         /\ Len(history) \in 1 .. Len(history)
         /\ ItsKeys \subseteq Keys /\ ItsKeys = history[Len(history)].keys
         /\ history[Len(history)].v = global_version
         /\ commit.todo \subseteq ItsKeys /\ commit.k \subseteq ItsKeys
         /\ Serving
<1>1. Len(history) \in Nat /\ Len(history) \in 1 .. Len(history)
  <2>1. Len(history) \in Nat
    BY DEF TInv, LogOK
  <2>2. Len(history) > 0
    BY DEF TInv, CommitOK
  <2> QED BY <2>1, <2>2
<1>2. history[Len(history)] \in [v : Versions, keys : SUBSET Keys]
  BY Zenon, <1>1, ElementOf DEF TInv, LogOK
<1>3. Len(history) \in Commits
  BY <1>1, MemTablesAssumption DEF TInv, LogOK, Commits
<1> QED BY <1>1, <1>2, <1>3 DEF TInv, CommitOK, ThisCommit, ItsKeys, Entry

Published(new, k, v) ==
  \A i \in TableIds, x \in Keys :
    \/ new[i][x] = tables[i][x]
    \/ /\ x = k /\ tables[i][k] # NoEntry
       /\ new[i][k] = [tables[i][k] EXCEPT !.cv = v]
       /\ i = active \/ Waiting(i)

(***************************************************************************)
(* publish gives the entry of the key a version, in the active table and   *)
(* in the immutables it walks, and leaves every other entry alone.         *)
(***************************************************************************)
LEMMA PublishSpec ==
  ASSUME TablesOK, NEW k \in Keys, NEW v \in Versions, NEW locked \in BOOLEAN,
         NEW new, new = Publish(k, v, locked)
  PROVE  /\ new \in [TableIds -> [Keys -> Entry \cup {NoEntry}]]
         /\ Published(new, k, v)
<1>1. ASSUME NEW i \in TableIds
      PROVE  /\ new[i] \in [Keys -> Entry \cup {NoEntry}]
             /\ \A x \in Keys :
                  \/ new[i][x] = tables[i][x]
                  \/ /\ x = k /\ tables[i][k] # NoEntry
                     /\ new[i][k] = [tables[i][k] EXCEPT !.cv = v]
                     /\ i = active \/ Waiting(i)
  <2> DEFINE map == tables[i]
  <2>1. map \in [Keys -> Entry \cup {NoEntry}]
    BY DEF TablesOK
  <2>2. new[i] = IF i = active \/ (locked /\ Waiting(i))
                 THEN PublishEntry(map, k, v) ELSE map
    BY DEF Publish
  <2>3. CASE new[i] = map
    BY <2>1, <2>3
  <2>4. CASE new[i] # map
    <3>1. /\ map[k] # NoEntry /\ new[i] = [map EXCEPT ![k].cv = v]
          /\ i = active \/ Waiting(i)
      BY <2>2, <2>4 DEF PublishEntry
    <3>2. map[k] \in Entry /\ [map[k] EXCEPT !.cv = v] \in Entry
      BY <2>1, <3>1 DEF Entry
    <3>3. new[i] = [map EXCEPT ![k] = [map[k] EXCEPT !.cv = v]]
      BY <3>1
    <3> HIDE DEF map
    <3> QED BY <2>1, <3>1, <3>2, <3>3 DEF map
  <2> QED BY <2>3, <2>4
<1>2. new = [i \in TableIds |-> new[i]]
  BY DEF Publish
<1>3. new \in [TableIds -> [Keys -> Entry \cup {NoEntry}]]
  BY Zenon, <1>1, <1>2
<1> QED BY Zenon, <1>1, <1>3 DEF Published

(***************************************************************************)
(* While the flush loop has a table, it is one of the memtables.           *)
(***************************************************************************)
LEMMA TakenFacts ==
  ASSUME TInv, flush.pc # "idle"
  PROVE  /\ Table \in TableIds /\ Len(flush.taken) \in Nat /\ Len(flush.taken) > 0
         /\ flush.taken \in Seq(TableIds) /\ Tail(flush.taken) \in Seq(TableIds)
         /\ Table = flush.taken[1]
<1>1. flush.taken \in Seq(TableIds) /\ flush.taken # <<>>
  BY DEF TInv, TasksOK, FlushOK
<1> QED BY <1>1 DEF Table

(***************************************************************************)
(* The memtables keep their types: put_invisible, publish, rotation, the   *)
(* list of immutables, a new process.                                      *)
(***************************************************************************)
LEMMA TablesStep ==
  ASSUME TInv, Next
  PROVE  TablesOK'
<1> USE MemTablesAssumption
<1>0. TablesOK /\ TasksOK
  BY DEF TInv
<1>1. tables' \in [TableIds -> [Keys -> Entry \cup {NoEntry}]]
  <2>1. CASE UNCHANGED tables
    BY <1>0, <2>1 DEF TablesOK
  <2>2. CASE PutInsert
    <3>0. commit.pc = "insert"
      BY Zenon, <2>2 DEF PutInsert
    <3>1. commit.pc # "idle" /\ commit.table \in TableIds
      BY <1>0, <3>0 DEF TInv, CommitOK, TasksOK, TableIds
    <3>2. PICK k \in commit.k : PutInvisible(commit.table, k, ThisCommit)
      BY Zenon, <2>2 DEF PutInsert
    <3>3. k \in Keys /\ ThisCommit \in Entry
      BY <3>1, CommitFacts
    <3> QED BY <1>0, <3>1, <3>2, <3>3 DEF PutInvisible, PutEntry, TablesOK
  <2>3. CASE PutPublish
    <3>1. commit.pc # "idle"
      BY <2>3 DEF PutPublish
    <3>2. PICK k \in commit.k, locked \in BOOLEAN :
            tables' = Publish(k, ThisCommit.cv, locked)
      BY <2>3 DEF PutPublish
    <3>3. k \in Keys /\ ThisCommit.cv \in Versions
      BY <3>1, CommitFacts DEF Entry
    <3> QED BY Zenon, <1>0, <3>2, <3>3, PublishSpec
  <2>4. CASE LoseMemory
    BY <2>4 DEF LoseMemory, NoTables, EmptyMap
  <2> QED BY <2>1, <2>2, <2>3, <2>4, Writers
<1>2. active' \in TableIds
  <2>1. CASE UNCHANGED active
    BY <1>0, <2>1 DEF TablesOK
  <2>2. CASE PutInsert \/ TickRotate
    <3>1. UNCHANGED active \/ (active < MaxTables /\ active' = active + 1)
      BY Zenon, <2>2 DEF PutInsert, TickRotate, ReplaceActive
    <3> QED BY <1>0, <3>1 DEF TablesOK, TableIds
  <2>3. CASE LoseMemory
    BY <2>3 DEF LoseMemory, NoTables, TableIds
  <2> QED BY <2>1, <2>2, <2>3, Writers
<1>3. flushing' \in Seq(TableIds)
  <2>0. flushing \in Seq(TableIds)
    BY <1>0 DEF TablesOK
  <2>1. CASE UNCHANGED flushing
    BY <2>0, <2>1
  <2>2. CASE PutPush
    <3>1. commit.pc = "push" /\ flushing' = Append(flushing, commit.table)
      BY Zenon, <2>2 DEF PutPush, PushReplaced
    <3>2. commit.table \in TableIds
      BY <1>0, <3>1 DEF TInv, CommitOK, TasksOK, TableIds
    <3> QED BY <2>0, <3>1, <3>2
  <2>3. CASE TickPush
    <3>1. flush.pc # "idle" /\ flushing' = Append(flushing, Table)
      BY Zenon, <2>3 DEF TickPush, PushReplaced, Table
    <3> QED BY <2>0, <3>1, TakenFacts
  <2>4. CASE TakeImmutables
    BY <2>4 DEF TakeImmutables
  <2>5. CASE FlushFails
    <3>1. flush.pc # "idle" /\ flushing' = Append(flushing, Table)
      BY <2>5 DEF FlushFails
    <3> QED BY <2>0, <3>1, TakenFacts
  <2>6. CASE LoseMemory
    BY <2>6 DEF LoseMemory, NoTables
  <2> QED BY Zenon, <2>1, <2>2, <2>3, <2>4, <2>5, <2>6, Writers
<1> QED BY <1>1, <1>2, <1>3 DEF TablesOK

-----------------------------------------------------------------------------
(***************************************************************************)
(* What a step may do to the row of a version: the commit hook writes it,  *)
(* the flush loop points it to a chunk, a rebuild takes it from a chunk,   *)
(* and a lost disk takes it away.                                          *)
(***************************************************************************)
RowStep(k, v) ==
  LET row == record_versions[k][v]
      new == record_versions'[k][v]
  IN  \/ new = row
      \/ /\ commit.pc = "hook" /\ k \in ItsKeys /\ v = global_version
         /\ new = [src |-> Len(history), chunk |-> Placeholder]
      \/ /\ flush.pc = "point" /\ k \in flush.todo /\ tables[Table][k] # NoEntry
         /\ v = tables[Table][k].cv /\ row # NoRow
         /\ new = [src |-> row.src, chunk |-> flush.chunk]
      \/ /\ rebuild.pc = "rows"
         /\ \E e \in rebuild.scan :
              e.k = k /\ e.cv = v /\ new = [src |-> e.src, chunk |-> e.chunk]
      \/ LoseDisk /\ new = NoRow

LatestRowStep(k) ==
  LET row == record_index[k]
      new == record_index'[k]
  IN  \/ new = row
      \/ /\ commit.pc = "hook" /\ k \in ItsKeys
         /\ new = [cv |-> global_version, src |-> Len(history),
                   chunk |-> Placeholder]
      \/ /\ flush.pc = "point" /\ row # NoRow
         /\ new = [cv |-> row.cv, src |-> row.src, chunk |-> flush.chunk]
      \/ \E e \in rebuild.scan :
           e.k = k /\ new = [cv |-> e.cv, src |-> e.src, chunk |-> e.chunk]
      \/ new = NoRow

(***************************************************************************)
(* put_record_index_with_body writes the row of one version of one key.    *)
(***************************************************************************)
LEMMA HookRows ==
  ASSUME TInv, CommitHook
  PROVE  /\ record_index' \in [Keys -> LatestRow \cup {NoRow}]
         /\ record_versions' \in [Keys -> [Versions -> VersionRow \cup {NoRow}]]
         /\ \A k \in Keys, v \in Versions : RowStep(k, v)
         /\ \A k \in Keys : LatestRowStep(k)
<1>1. commit.pc = "hook" /\ commit.pc # "idle"
  BY DEF CommitHook
<1>2. PICK k \in commit.todo : PutRecordIndexWithBody(k, ThisCommit.cv, ThisCommit.src)
  BY DEF CommitHook
<1> DEFINE n == Len(history)
<1>3. /\ k \in Keys /\ k \in ItsKeys /\ ThisCommit.cv = global_version
      /\ ThisCommit.src = n /\ n \in Commits /\ global_version \in Versions
  BY <1>1, CommitFacts DEF Entry
<1>4. /\ record_index \in [Keys -> LatestRow \cup {NoRow}]
      /\ record_versions \in [Keys -> [Versions -> VersionRow \cup {NoRow}]]
  BY DEF TInv, StoreOK
<1>5. 0 \in 0 .. MaxChunks
  BY ChunkStoreAssumption
<1> HIDE DEF n
<1>6. /\ record_versions' =
           [record_versions EXCEPT ![k][global_version] = [src |-> n, chunk |-> 0]]
      /\ \/ record_index' = record_index
         \/ record_index' = [record_index EXCEPT
              ![k] = [cv |-> global_version, src |-> n, chunk |-> 0]]
  BY Zenon, <1>2, <1>3 DEF PutRecordIndexWithBody, Placeholder
<1>7. /\ [src |-> n, chunk |-> 0] \in VersionRow
      /\ [cv |-> global_version, src |-> n, chunk |-> 0] \in LatestRow
  BY <1>3, <1>5 DEF VersionRow, LatestRow
<1> DEFINE new == [src |-> n, chunk |-> 0]
           latest == [cv |-> global_version, src |-> n, chunk |-> 0]
<1> HIDE DEF new, latest
<1>8. record_index' \in [Keys -> LatestRow \cup {NoRow}]
  BY <1>3, <1>4, <1>6, <1>7
<1>9. record_versions' \in [Keys -> [Versions -> VersionRow \cup {NoRow}]]
  BY <1>3, <1>4, <1>6, <1>7
<1>10. ASSUME NEW x \in Keys, NEW v \in Versions PROVE RowStep(x, v)
  <2>1. \/ record_versions'[x][v] = record_versions[x][v]
        \/ /\ x = k /\ v = global_version
           /\ record_versions'[x][v] = [src |-> n, chunk |-> 0]
    BY <1>3, <1>4, <1>6
  <2> QED BY Zenon, <2>1, <1>1, <1>3 DEF RowStep, Placeholder, n
<1>11. ASSUME NEW x \in Keys PROVE LatestRowStep(x)
  <2>1. \/ record_index'[x] = record_index[x]
        \/ /\ x = k
           /\ record_index'[x] = [cv |-> global_version, src |-> n, chunk |-> 0]
    BY <1>3, <1>4, <1>6
  <2> QED BY Zenon, <2>1, <1>1, <1>3 DEF LatestRowStep, Placeholder, n
<1> QED BY Zenon, <1>8, <1>9, <1>10, <1>11

(***************************************************************************)
(* update_record_index_after_flush points the row of exactly the version   *)
(* it finds in the table to the chunk.                                     *)
(***************************************************************************)
LEMMA PointRows ==
  ASSUME TInv, PointRow
  PROVE  /\ record_index' \in [Keys -> LatestRow \cup {NoRow}]
         /\ record_versions' \in [Keys -> [Versions -> VersionRow \cup {NoRow}]]
         /\ \A k \in Keys, v \in Versions : RowStep(k, v)
         /\ \A k \in Keys : LatestRowStep(k)
<1>1. flush.pc = "point" /\ flush.pc # "idle"
  BY DEF PointRow
<1>2. PICK k \in flush.todo :
        UpdateRecordIndexChunkIdForVersion(k, tables[Table][k].cv, flush.chunk)
  BY DEF PointRow
<1> DEFINE cv == tables[Table][k].cv
           chunk == flush.chunk
<1>3. k \in Keys /\ chunk \in 0 .. MaxChunks
  BY DEF TInv, TasksOK
<1>4. tables[Table][k] # NoEntry /\ tables[Table][k] \in Entry /\ cv \in Versions
  <2>1. tables[Table][k] # NoEntry
    BY <1>1 DEF TInv, FlushOK
  <2>2. Table \in TableIds
    BY <1>1, TakenFacts
  <2> QED BY <1>3, <2>1, <2>2 DEF TInv, TablesOK, Entry
<1>5. /\ record_index \in [Keys -> LatestRow \cup {NoRow}]
      /\ record_versions \in [Keys -> [Versions -> VersionRow \cup {NoRow}]]
  BY DEF TInv, StoreOK
<1>6. /\ \/ record_versions' = record_versions
         \/ /\ record_versions[k][cv] # NoRow
            /\ record_versions' = [record_versions EXCEPT ![k][cv].chunk = chunk]
      /\ \/ record_index' = record_index
         \/ /\ record_index[k] # NoRow
            /\ record_index' = [record_index EXCEPT ![k].chunk = chunk]
  BY Zenon, <1>2 DEF UpdateRecordIndexChunkIdForVersion
<1> HIDE DEF cv, chunk
<1>7. CASE record_versions' = record_versions /\ record_index' = record_index
  BY Zenon, <1>5, <1>7 DEF RowStep, LatestRowStep
<1>8. /\ record_versions' \in [Keys -> [Versions -> VersionRow \cup {NoRow}]]
      /\ \A x \in Keys, v \in Versions :
           \/ record_versions'[x][v] = record_versions[x][v]
           \/ /\ x = k /\ v = cv /\ record_versions[x][v] # NoRow
              /\ record_versions'[x][v] = [src |-> record_versions[x][v].src,
                                           chunk |-> chunk]
  <2>1. CASE record_versions' = record_versions
    BY Zenon, <1>5, <2>1
  <2>2. CASE record_versions' # record_versions
    <3> DEFINE row == record_versions[k][cv]
               new == [src |-> row.src, chunk |-> chunk]
    <3>1. row \in VersionRow
      BY <1>3, <1>4, <1>5, <1>6, <2>2
    <3>2. [row EXCEPT !.chunk = chunk] = new /\ new \in VersionRow
      BY <1>3, <3>1 DEF VersionRow
    <3>3. record_versions' =
            [record_versions EXCEPT ![k] = [record_versions[k] EXCEPT ![cv] = new]]
      BY <1>6, <2>2, <3>2
    <3>4. row # NoRow
      BY Zenon, <1>6, <2>2
    <3> HIDE DEF new
    <3>5. \A x \in Keys, v \in Versions :
            record_versions'[x][v] = IF x = k /\ v = cv THEN new
                                     ELSE record_versions[x][v]
      BY <1>3, <1>4, <1>5, <3>3
    <3>6. record_versions' \in [Keys -> [Versions -> VersionRow \cup {NoRow}]]
      BY <1>3, <1>4, <1>5, <3>2, <3>3
    <3> QED BY Zenon, <3>4, <3>5, <3>6 DEF new
  <2> QED BY <2>1, <2>2
<1>9. /\ record_index' \in [Keys -> LatestRow \cup {NoRow}]
      /\ \A x \in Keys :
           \/ record_index'[x] = record_index[x]
           \/ /\ record_index[x] # NoRow
              /\ record_index'[x] = [cv |-> record_index[x].cv,
                   src |-> record_index[x].src, chunk |-> chunk]
  <2>1. CASE record_index' = record_index
    BY Zenon, <1>5, <2>1
  <2>2. CASE record_index' # record_index
    <3> DEFINE row == record_index[k]
               new == [cv |-> row.cv, src |-> row.src, chunk |-> chunk]
    <3>1. row \in LatestRow /\ row # NoRow
      BY <1>3, <1>5, <1>6, <2>2
    <3>2. [row EXCEPT !.chunk = chunk] = new /\ new \in LatestRow
      BY <1>3, <3>1 DEF LatestRow
    <3>3. record_index' = [record_index EXCEPT ![k] = new]
      BY <1>6, <2>2, <3>2
    <3> HIDE DEF new
    <3>4. \A x \in Keys : record_index'[x] = IF x = k THEN new ELSE record_index[x]
      BY <1>3, <1>5, <3>3
    <3>5. record_index' \in [Keys -> LatestRow \cup {NoRow}]
      BY <1>3, <1>5, <3>2, <3>3
    <3> QED BY Zenon, <3>1, <3>4, <3>5 DEF new
  <2> QED BY <2>1, <2>2
<1>10. ASSUME NEW x \in Keys, NEW v \in Versions PROVE RowStep(x, v)
  BY Zenon, <1>1, <1>4, <1>8 DEF RowStep, cv, chunk
<1>11. ASSUME NEW x \in Keys PROVE LatestRowStep(x)
  BY Zenon, <1>1, <1>9 DEF LatestRowStep, chunk
<1> QED BY Zenon, <1>8, <1>9, <1>10, <1>11

(***************************************************************************)
(* rebuild writes the rows of the entries it has scanned.                  *)
(***************************************************************************)
LEMMA RebuiltRows ==
  ASSUME TInv, RebuildRows
  PROVE  /\ record_index' \in [Keys -> LatestRow \cup {NoRow}]
         /\ record_versions' \in [Keys -> [Versions -> VersionRow \cup {NoRow}]]
         /\ \A k \in Keys, v \in Versions : RowStep(k, v)
         /\ \A k \in Keys : LatestRowStep(k)
         /\ \A k \in Keys, v \in Versions :
              ScannedAt(k, v) # {} => record_versions'[k][v] # NoRow
<1>1. rebuild.pc = "rows"
  BY DEF RebuildRows
<1>2. /\ record_index \in [Keys -> LatestRow \cup {NoRow}]
      /\ record_versions \in [Keys -> [Versions -> VersionRow \cup {NoRow}]]
      /\ rebuild.scan \subseteq ScannedEntry
  BY DEF TInv, StoreOK, TasksOK
<1>3. \A e \in ScannedEntry :
        /\ e.cv \in Versions
        /\ [src |-> e.src, chunk |-> e.chunk] \in VersionRow
        /\ [cv |-> e.cv, src |-> e.src, chunk |-> e.chunk] \in LatestRow
  BY ChunkStoreAssumption DEF ScannedEntry, VersionRow, LatestRow, ChunkIds
<1> DEFINE FromScan(k, v) ==
             \E e \in rebuild.scan :
               /\ e.k = k /\ e.cv = v
               /\ record_versions'[k][v] = [src |-> e.src, chunk |-> e.chunk]
<1>4. ASSUME NEW k \in Keys, NEW v \in Versions
      PROVE  /\ ScannedAt(k, v) = {} => record_versions'[k][v] = record_versions[k][v]
             /\ ScannedAt(k, v) # {} => FromScan(k, v)
  <2>1. record_versions'[k][v] =
          IF ScannedAt(k, v) = {} THEN record_versions[k][v]
          ELSE LET e == CHOOSE e \in ScannedAt(k, v) : TRUE
               IN  [src |-> e.src, chunk |-> e.chunk]
    BY DEF RebuildRows
  <2>2. ASSUME ScannedAt(k, v) # {}
        PROVE  (CHOOSE e \in ScannedAt(k, v) : TRUE) \in ScannedAt(k, v)
    BY Zenon, <2>2
  <2>3. \A e \in ScannedAt(k, v) : e \in rebuild.scan /\ e.k = k /\ e.cv = v
    BY DEF ScannedAt
  <2> QED BY Zenon, <2>1, <2>2, <2>3
<1> HIDE DEF FromScan
<1>5. ASSUME NEW k \in Keys
      PROVE  /\ Scanned(k) = {} => record_index'[k] = record_index[k]
             /\ Scanned(k) # {} =>
                  \E e \in rebuild.scan :
                    /\ e.k = k
                    /\ record_index'[k] = [cv |-> e.cv, src |-> e.src,
                                           chunk |-> e.chunk]
  <2>1. record_index'[k] =
          IF Scanned(k) = {} THEN record_index[k]
          ELSE [cv |-> NewestScanned(k).cv, src |-> NewestScanned(k).src,
                chunk |-> NewestScanned(k).chunk]
    BY DEF RebuildRows
  <2>2. \A e \in Scanned(k) : e \in rebuild.scan /\ e.k = k
    BY DEF Scanned
  <2>3. ASSUME Scanned(k) # {} PROVE NewestScanned(k) \in Scanned(k)
    <3>1. \A e \in Scanned(k) : e.cv \in Versions
      BY Zenon, <1>2, <1>3, <2>2
    <3>2. \E e \in Scanned(k) : \A f \in Scanned(k) : f.cv <= e.cv
      BY Zenon, <2>3, <3>1, NewestEntry
    <3> QED BY Zenon, <3>2 DEF NewestScanned
  <2> QED BY Zenon, <2>1, <2>2, <2>3
<1>6. record_versions' \in [Keys -> [Versions -> VersionRow \cup {NoRow}]]
  <2>1. /\ record_versions' = [k \in Keys |-> record_versions'[k]]
        /\ \A k \in Keys :
             record_versions'[k] = [v \in Versions |-> record_versions'[k][v]]
    BY DEF RebuildRows
  <2>2. ASSUME NEW k \in Keys, NEW v \in Versions
        PROVE  record_versions'[k][v] \in VersionRow \cup {NoRow}
    <3>1. CASE ScannedAt(k, v) = {}
      <4>1. record_versions'[k][v] = record_versions[k][v]
        BY Zenon, <1>4, <3>1
      <4> QED BY <1>2, <4>1
    <3>2. CASE ScannedAt(k, v) # {}
      <4>0. FromScan(k, v)
        BY Zenon, <1>4, <3>2
      <4>1. PICK e \in rebuild.scan :
              record_versions'[k][v] = [src |-> e.src, chunk |-> e.chunk]
        BY Zenon, <4>0 DEF FromScan
      <4>2. e \in ScannedEntry
        BY Zenon, <1>2
      <4> QED BY Zenon, <1>3, <4>1, <4>2
    <3> QED BY Zenon, <3>1, <3>2
  <2> QED BY <2>1, <2>2
<1>7. record_index' \in [Keys -> LatestRow \cup {NoRow}]
  <2>1. record_index' = [k \in Keys |-> record_index'[k]]
    BY DEF RebuildRows
  <2>2. ASSUME NEW k \in Keys PROVE record_index'[k] \in LatestRow \cup {NoRow}
    <3>1. CASE Scanned(k) = {}
      <4>1. record_index'[k] = record_index[k]
        BY Zenon, <1>5, <3>1
      <4> QED BY <1>2, <4>1
    <3>2. CASE Scanned(k) # {}
      <4>1. PICK e \in rebuild.scan :
              record_index'[k] = [cv |-> e.cv, src |-> e.src, chunk |-> e.chunk]
        BY Zenon, <1>5, <3>2
      <4>2. e \in ScannedEntry
        BY Zenon, <1>2
      <4> QED BY Zenon, <1>3, <4>1, <4>2
    <3> QED BY Zenon, <3>1, <3>2
  <2> QED BY <2>1, <2>2
<1>8. ASSUME NEW k \in Keys, NEW v \in Versions, ScannedAt(k, v) # {}
      PROVE  record_versions'[k][v] # NoRow
  <2>0. FromScan(k, v)
    BY Zenon, <1>4, <1>8
  <2> PICK e \in rebuild.scan :
        record_versions'[k][v] = [src |-> e.src, chunk |-> e.chunk]
    BY Zenon, <2>0 DEF FromScan
  <2>1. record_versions'[k][v] \in VersionRow
    <3>1. e \in ScannedEntry
      BY Zenon, <1>2
    <3> QED BY Zenon, <1>3, <3>1
  <2> QED BY <2>1, ChunkStoreAssumption DEF VersionRow
<1>9. ASSUME NEW k \in Keys, NEW v \in Versions PROVE RowStep(k, v)
  <2>1. CASE ScannedAt(k, v) = {}
    <3>1. record_versions'[k][v] = record_versions[k][v]
      BY Zenon, <1>4, <2>1
    <3> QED BY Zenon, <3>1 DEF RowStep
  <2>2. CASE ScannedAt(k, v) # {}
    <3>1. FromScan(k, v)
      BY Zenon, <1>4, <2>2
    <3> QED BY Zenon, <1>1, <3>1 DEF RowStep, FromScan
  <2> QED BY Zenon, <2>1, <2>2
<1>10. ASSUME NEW k \in Keys PROVE LatestRowStep(k)
  <2>1. CASE Scanned(k) = {}
    <3>1. record_index'[k] = record_index[k]
      BY Zenon, <1>5, <2>1
    <3> QED BY Zenon, <3>1 DEF LatestRowStep
  <2>2. CASE Scanned(k) # {}
    <3>1. \E e \in rebuild.scan :
            /\ e.k = k
            /\ record_index'[k] = [cv |-> e.cv, src |-> e.src, chunk |-> e.chunk]
      BY Zenon, <1>5, <2>2
    <3> QED BY Zenon, <3>1 DEF LatestRowStep
  <2> QED BY Zenon, <2>1, <2>2
<1> QED BY Zenon, <1>6, <1>7, <1>8, <1>9, <1>10

(***************************************************************************)
(* The rows keep their types, and every step treats each row in one of the *)
(* ways above.                                                             *)
(***************************************************************************)
LEMMA RowsStep ==
  ASSUME TInv, Next
  PROVE  /\ record_index' \in [Keys -> LatestRow \cup {NoRow}]
         /\ record_versions' \in [Keys -> [Versions -> VersionRow \cup {NoRow}]]
         /\ \A k \in Keys, v \in Versions : RowStep(k, v)
         /\ \A k \in Keys : LatestRowStep(k)
<1>1. CASE UNCHANGED row_vars
  <2>1. UNCHANGED <<record_index, record_versions>>
    BY <1>1 DEF row_vars
  <2>2. /\ record_index' \in [Keys -> LatestRow \cup {NoRow}]
        /\ record_versions' \in [Keys -> [Versions -> VersionRow \cup {NoRow}]]
    BY <2>1 DEF TInv, StoreOK
  <2> QED BY Zenon, <2>1, <2>2 DEF RowStep, LatestRowStep
<1>2. CASE LoseDisk
  <2>1. /\ record_index' = [k \in Keys |-> NoRow]
        /\ record_versions' = [k \in Keys |-> [v \in Versions |-> NoRow]]
    BY Zenon, <1>2 DEF LoseDisk, EmptyRows
  <2>2. /\ record_index' \in [Keys -> LatestRow \cup {NoRow}]
        /\ record_versions' \in [Keys -> [Versions -> VersionRow \cup {NoRow}]]
    BY <2>1
  <2>3. /\ \A k \in Keys : record_index'[k] = NoRow
        /\ \A k \in Keys, v \in Versions : record_versions'[k][v] = NoRow
    BY <2>1
  <2> QED BY Zenon, <1>2, <2>2, <2>3 DEF RowStep, LatestRowStep
<1> QED BY Zenon, <1>1, <1>2, Writers, HookRows, PointRows, RebuiltRows

(***************************************************************************)
(* The entries of a chunk are the entries of the table it is made from     *)
(* (encode of flush_one).                                                  *)
(***************************************************************************)
LEMMA EntriesOfSpec ==
  ASSUME NEW map \in [Keys -> Entry \cup {NoEntry}]
  PROVE  /\ \A e \in EntriesOf(map) :
              /\ e \in ChunkEntry /\ map[e.k] # NoEntry
              /\ e.cv = map[e.k].cv /\ e.src = map[e.k].src
         /\ \A k \in Keys :
              map[k] # NoEntry =>
                [k |-> k, cv |-> map[k].cv, src |-> map[k].src] \in EntriesOf(map)
<1>1. ASSUME NEW e \in EntriesOf(map)
      PROVE  /\ e \in ChunkEntry /\ map[e.k] # NoEntry
             /\ e.cv = map[e.k].cv /\ e.src = map[e.k].src
  <2>1. PICK k \in Keys :
          map[k] # NoEntry /\ e = [k |-> k, cv |-> map[k].cv, src |-> map[k].src]
    BY DEF EntriesOf
  <2>2. map[k] \in Entry
    BY <2>1
  <2> QED BY <2>1, <2>2 DEF Entry, ChunkEntry
<1> QED BY <1>1 DEF EntriesOf

(***************************************************************************)
(* The scan of a rebuild holds the entries of the chunks it read.          *)
(***************************************************************************)
LEMMA EntriesInSpec ==
  ASSUME StoreOK, NEW cs \in SUBSET ChunkIds
  PROVE  /\ \A e \in EntriesIn(cs) :
              /\ e \in ScannedEntry
              /\ [k |-> e.k, cv |-> e.cv, src |-> e.src] \in objects[e.chunk]
         /\ \A c \in cs : \A x \in objects[c] :
              [k |-> x.k, cv |-> x.cv, src |-> x.src, chunk |-> c] \in EntriesIn(cs)
<1>1. ASSUME NEW e \in EntriesIn(cs)
      PROVE  /\ e \in ScannedEntry
             /\ [k |-> e.k, cv |-> e.cv, src |-> e.src] \in objects[e.chunk]
  <2>0. PICK c \in cs : \E x \in objects[c] :
          e = [k |-> x.k, cv |-> x.cv, src |-> x.src, chunk |-> c]
    BY DEF EntriesIn
  <2>1. PICK x \in objects[c] :
          e = [k |-> x.k, cv |-> x.cv, src |-> x.src, chunk |-> c]
    BY <2>0
  <2>2. c \in ChunkIds /\ x \in ChunkEntry
    BY DEF StoreOK
  <2>3. [k |-> x.k, cv |-> x.cv, src |-> x.src] = x
    BY <2>2 DEF ChunkEntry
  <2>4. e.k = x.k /\ e.cv = x.cv /\ e.src = x.src /\ e.chunk = c
    BY <2>1
  <2>5. e \in ScannedEntry
    BY <2>1, <2>2 DEF ChunkEntry, ScannedEntry
  <2> QED BY Zenon, <2>3, <2>4, <2>5
<1>2. ASSUME NEW c \in cs, NEW x \in objects[c]
      PROVE  [k |-> x.k, cv |-> x.cv, src |-> x.src, chunk |-> c] \in EntriesIn(cs)
  <2> DEFINE S(d) == {[k |-> e.k, cv |-> e.cv, src |-> e.src, chunk |-> d] :
                        e \in objects[d]}
  <2>1. EntriesIn(cs) = UNION {S(d) : d \in cs}
    BY DEF EntriesIn
  <2>2. [k |-> x.k, cv |-> x.cv, src |-> x.src, chunk |-> c] \in S(c)
    OBVIOUS
  <2> HIDE DEF S
  <2> QED BY <2>1, <2>2
<1> QED BY Zenon, <1>1, <1>2

(***************************************************************************)
(* The sequence number a flush truncates the log to (last_wal_seq of the   *)
(* table) is a version no commit has yet to take.                          *)
(***************************************************************************)
LEMMA LastSpec ==
  ASSUME TInv, TablesFrom, NEW i \in TableIds, tables[i] # EmptyMap
  PROVE  /\ LastWalSeq(tables[i]) \in 0 .. MaxVersion
         /\ LastWalSeq(tables[i]) <= global_version
<1> DEFINE map == tables[i]
           vs == {history[map[k].src].v : k \in {x \in Keys : map[x] # NoEntry}}
<1>1. map \in [Keys -> Entry \cup {NoEntry}]
  BY DEF TInv, TablesOK
<1>2. MaxVersion \in Nat /\ global_version \in 0 .. MaxVersion
  BY Zenon, MemTablesAssumption DEF TInv, StoreOK
<1>3. ASSUME NEW k \in Keys, map[k] # NoEntry
      PROVE  history[map[k].src].v \in 0 .. global_version
  <2>1. /\ map[k].src \in 1 .. Len(history)
        /\ history[map[k].src].v <= map[k].cv /\ map[k].cv <= global_version
    BY <1>3 DEF TablesFrom, WrittenBy
  <2>2. map[k].cv \in Nat
    BY <1>1, <1>2, <1>3 DEF Entry, Versions
  <2>3. history[map[k].src] \in [v : Versions, keys : SUBSET Keys]
    BY Zenon, <2>1, ElementOf DEF TInv, LogOK
  <2>4. history[map[k].src].v \in Nat
    BY <2>3, <1>2 DEF Versions
  <2>5. global_version \in Nat
    BY <1>2
  <2> HIDE DEF map
  <2> QED BY Zenon, <2>1, <2>2, <2>4, <2>5, Below
<1>4. \E k \in Keys : map[k] # NoEntry
  BY <1>1 DEF EmptyMap
<1>5. vs \subseteq 0 .. global_version /\ vs # {}
  BY Zenon, <1>3, <1>4
<1>6. LastWalSeq(map) = Newest(vs)
  BY DEF LastWalSeq
<1> HIDE DEF vs
<1>7. global_version \in Nat
  BY <1>2
<1>8. Newest(vs) \in vs
  BY Zenon, <1>5, <1>7, NewestSpec
<1>9. Newest(vs) \in 0 .. global_version
  BY Zenon, <1>5, <1>8
<1> QED BY <1>2, <1>6, <1>9

-----------------------------------------------------------------------------
(***************************************************************************)
(* The chunks, the tables of redb and the counter keep their types.        *)
(***************************************************************************)
LEMMA StoreStep ==
  ASSUME TInv, Next
  PROVE  StoreOK'
<1> USE MemTablesAssumption, ChunkStoreAssumption
<1>0. StoreOK /\ TasksOK
  BY DEF TInv
<1>1. objects' \in [ChunkIds -> SUBSET ChunkEntry]
  <2>1. CASE UNCHANGED objects
    BY <1>0, <2>1 DEF StoreOK
  <2>2. CASE UploadChunk \/ FlushFails
    <3>1. \/ UNCHANGED objects
          \/ /\ flush.pc = "upload"
             /\ objects' = [objects EXCEPT ![flush.chunk] = flush.entries]
      BY <2>2 DEF UploadChunk, FlushFails
    <3>2. flush.entries \subseteq ChunkEntry
      BY <1>0 DEF TasksOK
    <3> QED BY <1>0, <3>1, <3>2 DEF StoreOK
  <2> QED BY <2>1, <2>2, Writers
<1>2. chunk_index' \subseteq ChunkIds
  <2>0. chunk_index \subseteq ChunkIds
    BY <1>0 DEF StoreOK
  <2>1. CASE UNCHANGED chunk_index
    BY <2>0, <2>1
  <2>2. CASE PutChunkIndex
    <3>1. flush.pc = "index" /\ chunk_index' = chunk_index \cup {flush.chunk}
      BY <2>2 DEF PutChunkIndex
    <3>2. flush.chunk \in ChunkIds
      BY <1>0, <3>1 DEF TInv, FlushOK, TasksOK, ChunkPcs, ChunkIds
    <3> QED BY <2>0, <3>1, <3>2
  <2>3. CASE RebuildChunkIndex
    <3>1. chunk_index' = chunk_index \cup {e.chunk : e \in rebuild.scan}
      BY <2>3 DEF RebuildChunkIndex
    <3>2. \A e \in rebuild.scan : e.chunk \in ChunkIds
      BY <1>0 DEF TasksOK, ScannedEntry
    <3> QED BY <2>0, <3>1, <3>2
  <2>4. CASE LoseDisk
    BY Zenon, <2>4 DEF LoseDisk
  <2> QED BY Zenon, <2>1, <2>2, <2>3, <2>4, Writers
<1>3. global_version' \in 0 .. MaxVersion
  <2>1. CASE UNCHANGED global_version
    BY <1>0, <2>1 DEF StoreOK
  <2>2. CASE \E keys \in SUBSET Keys \ {{}} : CommitLog(keys)
    <3>1. global_version < MaxVersion /\ global_version' = global_version + 1
      BY Zenon, <2>2 DEF CommitLog
    <3> QED BY <1>0, <3>1 DEF StoreOK
  <2>3. CASE RebuildVersion
    <3> DEFINE vs == {0} \cup {e.cv : e \in rebuild.scan}
    <3>1. global_version' = Newest(vs)
      BY <2>3 DEF RebuildVersion
    <3>2. \A e \in rebuild.scan : e.cv \in 0 .. MaxVersion
      BY <1>0 DEF TasksOK, ScannedEntry, Versions
    <3>3. vs \subseteq 0 .. MaxVersion /\ vs # {}
      BY <3>2
    <3> HIDE DEF vs
    <3>4. Newest(vs) \in vs
      BY Zenon, <3>3, NewestSpec
    <3> QED BY Zenon, <3>1, <3>3, <3>4
  <2>4. CASE LoseDisk
    <3>1. global_version' = 0
      BY Zenon, <2>4 DEF LoseDisk
    <3> QED BY <3>1
  <2> QED BY Zenon, <2>1, <2>2, <2>3, <2>4, Writers
<1> QED BY Zenon, <1>1, <1>2, <1>3, RowsStep DEF StoreOK

(***************************************************************************)
(* The Committing row of a commit is counted, and its version and keys are *)
(* remembered.                                                             *)
(***************************************************************************)
LEMMA CommitLogSpec ==
  ASSUME TInv, NEW keys \in SUBSET Keys \ {{}}, CommitLog(keys)
  PROVE  /\ Serving /\ commit.pc = "idle" /\ Len(history) \in Nat
         /\ Len(history) < MaxCommits
         /\ global_version' = global_version + 1 /\ global_version' \in Versions
         /\ wal_last' \in Nat /\ wal_last' = wal_last + 1 /\ open # {}
         /\ history' = Append(history, [v |-> global_version + 1, keys |-> keys])
         /\ Len(history') = Len(history) + 1
         /\ history'[Len(history) + 1] = [v |-> global_version + 1, keys |-> keys]
         /\ \A i \in 1 .. Len(history) : history'[i] = history[i]
         /\ history' \in Seq([v : Versions, keys : SUBSET Keys])
         /\ commit' = [pc |-> "append", todo |-> {}, k |-> {}, table |-> 0,
                       row |-> wal_last']
<1> USE MemTablesAssumption
<1>1. /\ Serving /\ commit.pc = "idle" /\ Len(history) < MaxCommits
      /\ global_version < MaxVersion /\ global_version' = global_version + 1
      /\ wal_last' = wal_last + 1 /\ open # {}
      /\ history' = Append(history, [v |-> global_version + 1, keys |-> keys])
      /\ commit' = [NotCommitting EXCEPT !.pc = "append", !.row = wal_last']
  BY Zenon DEF CommitLog
<1>3. wal_last' \in Nat
  BY Zenon, <1>1, LogGrows DEF TInv, LogOK
<1>4. global_version' \in Versions
  BY <1>1 DEF TInv, StoreOK, Versions
<1> DEFINE S == [v : Versions, keys : SUBSET Keys]
           rec == [v |-> global_version + 1, keys |-> keys]
<1>5. history \in Seq(S) /\ rec \in S
  BY <1>1, <1>4 DEF TInv, LogOK
<1> HIDE DEF S, rec
<1>6. history' = Append(history, rec)
  BY <1>1 DEF rec
<1>7. /\ Len(history) \in Nat /\ Len(history') = Len(history) + 1
      /\ history'[Len(history) + 1] = rec
      /\ \A i \in 1 .. Len(history) : history'[i] = history[i]
      /\ history' \in Seq(S)
  BY <1>5, <1>6
<1>8. commit' = [pc |-> "append", todo |-> {}, k |-> {}, table |-> 0,
                 row |-> wal_last']
  BY Zenon, <1>1 DEF NotCommitting
<1> QED BY Zenon, <1>1, <1>3, <1>4, <1>7, <1>8 DEF S, rec

(***************************************************************************)
(* The log, the history and the count of chunk ids keep their types.       *)
(***************************************************************************)
LEMMA LogStep ==
  ASSUME TInv, Next
  PROVE  LogOK'
<1> USE MemTablesAssumption, ChunkStoreAssumption
<1>0. LogOK
  BY DEF TInv
<1>1. /\ history' \in Seq([v : Versions, keys : SUBSET Keys])
      /\ Len(history') <= MaxCommits
  <2>1. CASE UNCHANGED history
    BY <1>0, <2>1 DEF LogOK
  <2>2. CASE \E keys \in SUBSET Keys \ {{}} : CommitLog(keys)
    <3>1. PICK keys \in SUBSET Keys \ {{}} : CommitLog(keys)
      BY <2>2
    <3>2. /\ history' \in Seq([v : Versions, keys : SUBSET Keys])
          /\ Len(history') = Len(history) + 1 /\ Len(history) \in Nat
          /\ Len(history) < MaxCommits
      BY Zenon, <3>1, CommitLogSpec
    <3> QED BY <3>2
  <2> QED BY Zenon, <2>1, <2>2, Writers
<1>2. wal_last' \in Nat
  <2>1. CASE UNCHANGED wal_last
    BY <1>0, <2>1 DEF LogOK
  <2>2. CASE \E keys \in SUBSET Keys \ {{}} : CommitLog(keys)
    BY Zenon, <2>2, CommitLogSpec
  <2>3. CASE LogBegin \/ LogStage \/ CommitAppend \/ LogFlushed \/ FlushFails
    <3>1. \/ UNCHANGED wal_last \/ wal_last' = wal_last + 1
          \/ wal_last' = wal_last + 2
      BY Zenon, <2>3 DEF LogBegin, LogStage, CommitAppend, LogFlushed, FlushFails
    <3> QED BY Zenon, <1>0, <2>1, <3>1, LogGrows DEF LogOK
  <2>4. CASE LoseDisk
    <3>1. wal_last' = 0
      BY Zenon, <2>4 DEF LoseDisk
    <3> QED BY <3>1
  <2> QED BY Zenon, <2>1, <2>2, <2>3, <2>4, Writers
<1>3. wal_cut' \in Nat
  <2>1. CASE UNCHANGED wal_cut
    BY <1>0, <2>1 DEF LogOK
  <2>2. CASE TruncateWal
    <3>1. wal_cut' = CutAt(flush.last)
      BY <2>2 DEF TruncateWal
    <3>2. flush.last \in Nat
      BY DEF TInv, TasksOK
    <3> QED BY <1>0, <3>1, <3>2 DEF CutAt, LogOK
  <2>3. CASE LoseDisk
    BY Zenon, <2>3 DEF LoseDisk
  <2> QED BY Zenon, <2>1, <2>2, <2>3, Writers
<1>4. minted' \in 0 .. MaxChunks
  <2>1. CASE UNCHANGED minted
    BY <1>0, <2>1 DEF LogOK
  <2>2. CASE Encode
    <3>1. UNCHANGED minted \/ (minted < MaxChunks /\ minted' = minted + 1)
      BY Zenon, <2>2 DEF Encode
    <3> QED BY <1>0, <3>1 DEF LogOK
  <2> QED BY Zenon, <2>1, <2>2, Writers
<1> QED BY <1>1, <1>2, <1>3, <1>4 DEF LogOK

CommitTypes == [pc : CommitPcs, todo : SUBSET Keys, k : SUBSET Keys,
                table : 0 .. MaxTables, row : Nat]

(***************************************************************************)
(* The steps of a commit, from its log rows to the last row of its hook,   *)
(* keep what its program counter says.                                     *)
(***************************************************************************)
LEMMA CommitTask ==
  ASSUME TInv, Next
  PROVE  commit' \in CommitTypes /\ CommitOK'
<1> USE MemTablesAssumption
<1>0. commit \in CommitTypes
  BY DEF TInv, TasksOK, CommitTypes
<1>1. CASE \E keys \in SUBSET Keys \ {{}} : CommitLog(keys)
  <2>1. PICK keys \in SUBSET Keys \ {{}} : CommitLog(keys)
    BY <1>1
  <2>2. UNCHANGED rebuild
    BY <2>1 DEF CommitLog
  <2>3. /\ Serving /\ global_version' = global_version + 1
        /\ Len(history) \in Nat /\ Len(history') = Len(history) + 1
        /\ history'[Len(history) + 1] = [v |-> global_version + 1, keys |-> keys]
        /\ wal_last' \in Nat
        /\ commit' = [pc |-> "append", todo |-> {}, k |-> {}, table |-> 0,
                      row |-> wal_last']
    BY Zenon, <2>1, CommitLogSpec
  <2>4. commit' \in CommitTypes
    BY <2>3 DEF CommitTypes, CommitPcs
  <2>5. CommitOK'
    <3>1. /\ Serving' /\ Len(history') > 0 /\ ThisCommit'.cv = global_version'
      BY <2>2, <2>3 DEF Serving, ThisCommit
    <3>2. commit'.todo = {} /\ commit'.k = {} /\ commit'.pc = "append"
      BY Zenon, <2>3
    <3> QED BY Zenon, <3>1, <3>2 DEF CommitOK
  <2> QED BY <2>4, <2>5
<1>2. ASSUME commit.pc # "idle", UNCHANGED <<history, global_version, rebuild>>,
             commit' \in CommitTypes,
             commit'.todo \subseteq ItsKeys, commit'.k \subseteq ItsKeys,
             commit'.pc \in {"insert", "push"} => commit'.table # 0
      PROVE  CommitOK'
  BY <1>2, CommitFacts DEF CommitOK, Serving, ThisCommit, ItsKeys, TInv
<1>3. CASE CommitAppend
  <2>1. /\ commit.pc = "append" /\ UNCHANGED <<history, global_version, rebuild>>
        /\ commit' = [commit EXCEPT !.pc = "put", !.todo = ItsKeys]
    BY <1>3 DEF CommitAppend, past_vars, redb_vars
  <2>2. commit.pc # "idle" /\ ItsKeys \subseteq Keys /\ commit.k \subseteq ItsKeys
    BY <2>1, CommitFacts
  <2>3. /\ commit' \in CommitTypes /\ commit'.pc = "put" /\ commit'.todo = ItsKeys
        /\ commit'.k = commit.k
    BY Zenon, <1>0, <2>1, <2>2 DEF CommitTypes, CommitPcs
  <2> QED BY <1>2, <2>1, <2>2, <2>3
<1>4. CASE PutClone
  <2>1. PICK k \in commit.todo :
          commit' = [commit EXCEPT !.pc = "insert", !.k = {k}, !.table = active]
    BY Zenon, <1>4 DEF PutClone
  <2>2. commit.pc = "put" /\ UNCHANGED <<history, global_version, rebuild>>
    BY <1>4 DEF PutClone, past_vars, redb_vars
  <2>3. /\ commit.pc # "idle" /\ ItsKeys \subseteq Keys
        /\ commit.todo \subseteq ItsKeys
    BY <2>2, CommitFacts
  <2>4. active \in 0 .. MaxTables /\ active # 0
    BY DEF TInv, TablesOK, TableIds
  <2>5. /\ commit' \in CommitTypes /\ commit'.pc = "insert"
        /\ commit'.todo = commit.todo /\ commit'.k = {k} /\ commit'.table = active
    BY Zenon, <1>0, <2>1, <2>3, <2>4 DEF CommitTypes, CommitPcs
  <2> QED BY <1>2, <2>2, <2>3, <2>4, <2>5
<1>5. CASE PutInsert \/ PutPush
  <2>1. /\ commit.pc \in {"insert", "push"}
        /\ UNCHANGED <<history, global_version, rebuild>>
        /\ \/ commit' = [commit EXCEPT !.pc = "push"]
           \/ commit' = [commit EXCEPT !.pc = "publish", !.table = 0]
    BY Zenon, <1>5 DEF PutInsert, PutPush, redb_vars
  <2>2. /\ commit.pc # "idle" /\ commit.todo \subseteq ItsKeys
        /\ commit.k \subseteq ItsKeys
    BY <2>1, CommitFacts
  <2>3. commit.table # 0
    BY <2>1 DEF TInv, CommitOK
  <2>4. /\ commit' \in CommitTypes /\ commit'.todo = commit.todo
        /\ commit'.k = commit.k
        /\ commit'.pc \in {"insert", "push"} => commit'.table = commit.table
    <3>1. CASE commit' = [commit EXCEPT !.pc = "push"]
      BY Zenon, <1>0, <3>1 DEF CommitTypes, CommitPcs
    <3>2. CASE commit' = [commit EXCEPT !.pc = "publish", !.table = 0]
      <4>1. commit' = [pc |-> "publish", todo |-> commit.todo, k |-> commit.k,
                       table |-> 0, row |-> commit.row]
        BY Zenon, <1>0, <3>2 DEF CommitTypes
      <4>2. commit.todo \in SUBSET Keys /\ commit.k \in SUBSET Keys /\ commit.row \in Nat
        BY <1>0 DEF CommitTypes
      <4> QED BY <4>1, <4>2 DEF CommitTypes, CommitPcs
    <3> QED BY <2>1, <3>1, <3>2
  <2> QED BY <1>2, <2>1, <2>2, <2>3, <2>4
<1>6. CASE PutPublish
  <2> DEFINE left == commit.todo \ commit.k
  <2>1. /\ commit.pc = "publish" /\ UNCHANGED <<history, global_version, rebuild>>
        /\ commit' = [commit EXCEPT !.pc = IF left = {} THEN "hook" ELSE "put",
                        !.todo = IF left = {} THEN ItsKeys ELSE left, !.k = {}]
    BY <1>6 DEF PutPublish, redb_vars, past_vars
  <2>2. /\ commit.pc # "idle" /\ ItsKeys \subseteq Keys
        /\ commit.todo \subseteq ItsKeys
    BY <2>1, CommitFacts
  <2>3. /\ commit' \in CommitTypes /\ commit'.todo \subseteq ItsKeys
        /\ commit'.k = {} /\ commit'.pc \in {"hook", "put"}
    BY Zenon, <1>0, <2>1, <2>2 DEF CommitTypes, CommitPcs
  <2> QED BY <1>2, <2>1, <2>2, <2>3
<1>7. CASE CommitHook \/ HookWarns
  <2>1. /\ commit.pc = "hook" /\ UNCHANGED <<history, global_version, rebuild>>
        /\ \E k \in commit.todo : HookDone(k)
    BY Zenon, <1>7 DEF CommitHook, HookWarns, redb_vars
  <2>2. PICK k \in commit.todo : HookDone(k)
    BY Zenon, <2>1
  <2>3. CASE commit' = NotCommitting
    BY <2>3 DEF NotCommitting, CommitTypes, CommitPcs, CommitOK
  <2>4. CASE commit' # NotCommitting
    <3>1. commit' = [commit EXCEPT !.todo = commit.todo \ {k}]
      BY <2>2, <2>4 DEF HookDone
    <3>2. /\ commit.pc # "idle" /\ commit.todo \subseteq ItsKeys
          /\ commit.k \subseteq ItsKeys
      BY <2>1, CommitFacts
    <3>3. /\ commit' \in CommitTypes /\ commit'.todo \subseteq commit.todo
          /\ commit'.k = commit.k /\ commit'.pc = "hook"
      BY Zenon, <1>0, <2>1, <3>1 DEF CommitTypes, CommitPcs
    <3> QED BY <1>2, <2>1, <3>2, <3>3
  <2> QED BY Zenon, <2>3, <2>4
<1>8. CASE LoseMemory
  <2>1. commit' = NotCommitting
    BY <1>8 DEF LoseMemory
  <2> QED BY <2>1 DEF NotCommitting, CommitTypes, CommitPcs, CommitOK
<1>9. CASE UNCHANGED commit /\ ~ LoseMemory
  <2>1. CASE commit.pc = "idle"
    BY Zenon, <1>0, <1>9, <2>1 DEF CommitOK
  <2>2. CASE commit.pc # "idle"
    <3>1. Serving
      BY <2>2, CommitFacts
    <3>2. UNCHANGED <<history, global_version, rebuild>>
      <4>1. /\ ~ \E keys \in SUBSET Keys \ {{}} : CommitLog(keys)
            /\ ~ RebuildVersion /\ ~ RebuildStep
        BY Zenon, <2>2, <3>1 DEF CommitLog, RebuildStep, RebuildVersion, RebuildScan,
             RebuildSkips, RebuildChunkIndex, RebuildRows, RebuildChains,
             StartAgain, Serving
      <4>2. ~ Crash /\ ~ LoseDisk
        BY Zenon, <1>9 DEF Crash, LoseDisk
      <4> QED BY Zenon, <4>1, <4>2, Writers
    <3> QED BY <1>0, <1>2, <1>9, <2>2, <3>2 DEF TInv, CommitOK
  <2> QED BY <2>1, <2>2
<1>10. ASSUME LogBegin \/ LogStage PROVE UNCHANGED commit
  BY Zenon, <1>10 DEF LogBegin, LogStage
<1> QED BY Zenon, <1>1, <1>3, <1>4, <1>5, <1>6, <1>7, <1>8, <1>9, <1>10, Writers
        DEF CommitStep

FlushTypes == [pc : FlushPcs, taken : Seq(TableIds), chunk : 0 .. MaxChunks,
               entries : SUBSET ChunkEntry, last : 0 .. MaxVersion,
               todo : SUBSET Keys]

(***************************************************************************)
(* A table that is done makes room for the next one the flush loop took.   *)
(***************************************************************************)
LEMMA NextTableSpec ==
  ASSUME TInv, flush.pc # "idle"
  PROVE  /\ NextTable \in FlushTypes /\ NextTable.pc \in {"idle", "encode"}
         /\ NextTable.pc = "encode" => /\ NextTable.taken # <<>>
                                       /\ NextTable.taken = Tail(flush.taken)
         /\ NextTable.pc = "idle" => NextTable.taken = <<>>
         /\ NextTable.entries = {} /\ NextTable.last = 0
<1>1. /\ flush.taken \in Seq(TableIds) /\ Len(flush.taken) \in Nat
      /\ Len(flush.taken) > 0 /\ Tail(flush.taken) \in Seq(TableIds)
  BY TakenFacts
<1>2. Len(flush.taken) # 1 => Tail(flush.taken) # <<>>
  <2>1. Len(Tail(flush.taken)) = Len(flush.taken) - 1
    BY <1>1
  <2>2. Len(<<>>) = 0
    OBVIOUS
  <2>3. ASSUME Len(flush.taken) # 1 PROVE Len(Tail(flush.taken)) # 0
    BY <1>1, <2>1, <2>3
  <2> QED BY Zenon, <2>2, <2>3
<1>3. <<>> \in Seq(TableIds) /\ 0 \in 0 .. MaxChunks /\ 0 \in 0 .. MaxVersion
  BY MemTablesAssumption, ChunkStoreAssumption
<1> DEFINE rest == Tail(flush.taken)
<1> HIDE DEF rest
<1>4. CASE Len(flush.taken) = 1
  <2>1. NextTable = NotFlushing
    BY Zenon, <1>4 DEF NextTable
  <2> QED BY <1>3, <2>1 DEF NotFlushing, FlushTypes, FlushPcs
<1>5. CASE Len(flush.taken) # 1
  <2>1. NextTable = [pc |-> "encode", taken |-> rest, chunk |-> 0, entries |-> {},
                     last |-> 0, todo |-> {}]
    BY Zenon, <1>5 DEF NextTable, NotFlushing, rest
  <2>2. rest \in Seq(TableIds) /\ rest # <<>>
    BY <1>1, <1>2, <1>5 DEF rest
  <2> QED BY <1>3, <2>1, <2>2 DEF FlushTypes, FlushPcs, rest
<1> QED BY <1>4, <1>5

(***************************************************************************)
(* What a step may do to the entry of a key in a memtable: put_invisible   *)
(* writes it, publish gives it the version of the commit, the end of the   *)
(* process loses it.                                                       *)
(***************************************************************************)
EntryStep(i, k) ==
  LET entry == tables[i][k]
      new   == tables'[i][k]
  IN  \/ new = entry
      \/ PutInsert /\ i = commit.table /\ k \in commit.k /\ new = ThisCommit
      \/ /\ PutPublish /\ k \in commit.k /\ entry # NoEntry
         /\ new = [cv |-> global_version, src |-> entry.src]
         /\ i = active \/ Waiting(i)
      \/ LoseMemory /\ new = NoEntry

(***************************************************************************)
(* Every step treats each entry of each memtable in one of these ways.     *)
(***************************************************************************)
LEMMA EntriesStep ==
  ASSUME TInv, Next, NEW i \in TableIds, NEW k \in Keys
  PROVE  EntryStep(i, k)
<1>0. tables \in [TableIds -> [Keys -> Entry \cup {NoEntry}]] /\ TablesOK
  BY DEF TInv, TablesOK
<1>1. CASE UNCHANGED tables
  BY Zenon, <1>1 DEF EntryStep
<1>2. CASE PutInsert
  <2>1. PICK x \in commit.k : PutInvisible(commit.table, x, ThisCommit)
    BY Zenon, <1>2 DEF PutInsert
  <2>2. \/ tables'[i][k] = tables[i][k]
        \/ i = commit.table /\ k = x /\ tables'[i][k] = ThisCommit
    BY <1>0, <2>1 DEF PutInvisible, PutEntry
  <2> QED BY Zenon, <1>2, <2>2 DEF EntryStep
<1>3. CASE PutPublish
  <2>0. commit.pc # "idle"
    BY <1>3 DEF PutPublish
  <2>1. PICK x \in commit.k, locked \in BOOLEAN :
          tables' = Publish(x, ThisCommit.cv, locked)
    BY Zenon, <1>3 DEF PutPublish
  <2>2. x \in Keys /\ ThisCommit.cv \in Versions /\ ThisCommit.cv = global_version
    BY <2>0, CommitFacts DEF Entry
  <2>3. Published(tables', x, global_version)
    BY Zenon, <1>0, <2>1, <2>2, PublishSpec
  <2>4. \/ tables'[i][k] = tables[i][k]
        \/ /\ k = x /\ tables[i][k] # NoEntry
           /\ tables'[i][k] = [tables[i][k] EXCEPT !.cv = global_version]
           /\ i = active \/ Waiting(i)
    BY Zenon, <2>3 DEF Published
  <2>5. ASSUME tables[i][k] # NoEntry
        PROVE  [tables[i][k] EXCEPT !.cv = global_version]
                 = [cv |-> global_version, src |-> tables[i][k].src]
    BY <1>0, <2>5 DEF Entry
  <2> QED BY Zenon, <1>3, <2>4, <2>5 DEF EntryStep
<1>4. CASE LoseMemory
  <2>1. tables'[i][k] = NoEntry
    BY <1>4 DEF LoseMemory, NoTables, EmptyMap
  <2> QED BY Zenon, <1>4, <2>1 DEF EntryStep
<1> QED BY Zenon, <1>1, <1>2, <1>3, <1>4, Writers

(***************************************************************************)
(* An entry stays in its table until the process ends.                     *)
(***************************************************************************)
LEMMA EntriesStay ==
  ASSUME TInv, Next, ~ LoseMemory, NEW i \in TableIds, NEW k \in Keys,
         tables[i][k] # NoEntry
  PROVE  tables'[i][k] # NoEntry
<1>1. \A e \in Entry : e # NoEntry
  BY MemTablesAssumption DEF Entry, Versions, Commits
<1>2. /\ tables \in [TableIds -> [Keys -> Entry \cup {NoEntry}]]
      /\ global_version \in 0 .. MaxVersion
  BY DEF TInv, TablesOK, StoreOK
<1>3. CASE PutInsert /\ tables'[i][k] = ThisCommit
  <2>1. commit.pc # "idle"
    BY Zenon, <1>3 DEF PutInsert
  <2> QED BY Zenon, <1>1, <1>3, <2>1, CommitFacts
<1>4. CASE /\ PutPublish
           /\ tables'[i][k] = [cv |-> global_version, src |-> tables[i][k].src]
  <2>1. commit.pc # "idle"
    BY Zenon, <1>4 DEF PutPublish
  <2>2. global_version \in Versions
    BY <2>1, CommitFacts DEF Entry
  <2>3. tables[i][k].src \in Commits
    BY Zenon, <1>2 DEF Entry
  <2>4. tables'[i][k] \in Entry
    BY <1>4, <2>2, <2>3 DEF Entry
  <2> QED BY Zenon, <1>1, <2>4
<1> QED BY Zenon, <1>3, <1>4, EntriesStep DEF EntryStep

(***************************************************************************)
(* The steps of the flush loop keep what its program counter says: it has  *)
(* a table while it works, a chunk id once it has encoded one, and no      *)
(* entry it has yet to index leaves the table.                             *)
(***************************************************************************)
LEMMA FlushTask ==
  ASSUME TInv, TablesFrom, Next
  PROVE  flush' \in FlushTypes /\ FlushOK'
<1> USE MemTablesAssumption, ChunkStoreAssumption
<1>0. flush \in FlushTypes /\ TablesOK
  BY Zenon DEF TInv, TasksOK, FlushTypes
<1>1. ASSUME flush' = NextTable, flush.pc # "idle", UNCHANGED rebuild
      PROVE  flush' \in FlushTypes /\ FlushOK'
  <2>1. Serving
    BY <1>1 DEF TInv, FlushOK
  <2>2. /\ flush' \in FlushTypes /\ flush'.pc \in {"idle", "encode"}
        /\ flush'.pc = "encode" => flush'.taken # <<>>
    BY Zenon, <1>1, NextTableSpec
  <2> QED BY <1>1, <2>1, <2>2 DEF FlushOK, Serving, ChunkPcs
<1>2. ASSUME flush.pc # "idle", UNCHANGED rebuild, flush' \in FlushTypes,
             flush'.taken = flush.taken, flush'.pc \in ChunkPcs, flush'.chunk # 0,
             flush'.pc = "point" => \A k \in flush'.todo : tables'[Table][k] # NoEntry
      PROVE  FlushOK'
  <2>1. Serving /\ flush.taken # <<>>
    BY <1>2 DEF TInv, FlushOK
  <2>2. Table' = Table
    BY <1>2 DEF Table
  <2> QED BY Zenon, <1>2, <2>1, <2>2 DEF FlushOK, Serving
<1>3. CASE TickRotate
  <2>1. /\ Serving /\ UNCHANGED rebuild
        /\ flush' = [NotFlushing EXCEPT !.pc = "push", !.taken = <<active>>]
    BY <1>3 DEF TickRotate
  <2>2. <<active>> \in Seq(TableIds) /\ <<active>> # <<>>
    BY <1>0 DEF TablesOK
  <2>3. flush' = [pc |-> "push", taken |-> <<active>>, chunk |-> 0, entries |-> {},
                  last |-> 0, todo |-> {}]
    BY Zenon, <2>1 DEF NotFlushing
  <2>4. flush' \in FlushTypes /\ flush'.taken = <<active>> /\ flush'.pc = "push"
    BY <2>2, <2>3 DEF FlushTypes, FlushPcs
  <2> QED BY <2>1, <2>2, <2>4 DEF FlushOK, Serving, ChunkPcs
<1>4. CASE TickPush \/ LoseMemory
  <2>1. flush' = NotFlushing
    BY <1>4 DEF TickPush, LoseMemory
  <2> QED BY <2>1 DEF NotFlushing, FlushTypes, FlushPcs, FlushOK
<1>5. CASE TakeImmutables
  <2>1. /\ Serving /\ UNCHANGED rebuild /\ flushing # <<>>
        /\ flush' = [NotFlushing EXCEPT !.pc = "encode", !.taken = flushing]
    BY <1>5 DEF TakeImmutables
  <2>2. flushing \in Seq(TableIds)
    BY <1>0 DEF TablesOK
  <2>3. flush' = [pc |-> "encode", taken |-> flushing, chunk |-> 0, entries |-> {},
                  last |-> 0, todo |-> {}]
    BY Zenon, <2>1 DEF NotFlushing
  <2>4. flush' \in FlushTypes /\ flush'.taken = flushing /\ flush'.pc = "encode"
    BY <2>2, <2>3 DEF FlushTypes, FlushPcs
  <2> QED BY <2>1, <2>4 DEF FlushOK, Serving, ChunkPcs
<1>6. CASE Encode
  <2>1. flush.pc = "encode" /\ UNCHANGED rebuild
    BY <1>6 DEF Encode
  <2>2. CASE tables[Table] = EmptyMap
    <3>1. flush' = NextTable
      BY Zenon, <1>6, <2>2 DEF Encode
    <3> QED BY <1>1, <2>1, <3>1
  <2>3. CASE tables[Table] # EmptyMap
    <3> DEFINE es == EntriesOf(tables[Table])
               last == LastWalSeq(tables[Table])
    <3>1. /\ minted < MaxChunks
          /\ flush' = [flush EXCEPT !.pc = "upload", !.chunk = minted + 1,
                                    !.entries = es, !.last = last]
      BY <1>6, <2>3 DEF Encode
    <3>2. Table \in TableIds
      BY <2>1, TakenFacts
    <3>3. last \in 0 .. MaxVersion
      BY <2>3, <3>2, LastSpec
    <3>4. tables[Table] \in [Keys -> Entry \cup {NoEntry}]
      BY <1>0, <3>2 DEF TablesOK
    <3>5. es \subseteq ChunkEntry
      BY Zenon, <3>4, EntriesOfSpec
    <3>6. minted + 1 \in 0 .. MaxChunks /\ minted + 1 # 0
      BY <3>1 DEF TInv, LogOK
    <3> HIDE DEF es, last
    <3>7. /\ flush' \in FlushTypes /\ flush'.taken = flush.taken
          /\ flush'.pc = "upload" /\ flush'.chunk = minted + 1
      BY Zenon, <1>0, <3>1, <3>3, <3>5, <3>6 DEF FlushTypes, FlushPcs, ChunkPcs
    <3> QED BY <1>2, <2>1, <3>6, <3>7 DEF ChunkPcs
  <2> QED BY <2>2, <2>3
<1>7. CASE UploadChunk \/ LogFlushed
  <2>1. /\ flush.pc \in {"upload", "point"} /\ UNCHANGED rebuild
        /\ flush' = [flush EXCEPT !.pc = "index"]
           \/ flush' = [flush EXCEPT !.pc = "truncate"]
    BY <1>7 DEF UploadChunk, LogFlushed
  <2>2. /\ flush' \in FlushTypes /\ flush'.taken = flush.taken
        /\ flush'.chunk = flush.chunk /\ flush'.pc \in {"index", "truncate"}
    BY Zenon, <1>0, <2>1 DEF FlushTypes, FlushPcs, ChunkPcs
  <2>3. flush.chunk # 0 /\ flush.pc # "idle"
    BY <2>1 DEF TInv, FlushOK, ChunkPcs
  <2> QED BY <1>2, <2>1, <2>2, <2>3 DEF ChunkPcs
<1>8. CASE PutChunkIndex
  <2> DEFINE ks == {k \in Keys : tables[Table][k] # NoEntry}
  <2>1. /\ flush.pc = "index" /\ UNCHANGED <<tables, rebuild>>
        /\ flush' = [flush EXCEPT !.pc = "point", !.todo = ks]
    BY <1>8 DEF PutChunkIndex, table_vars
  <2>2. ks \subseteq Keys /\ \A k \in ks : tables[Table][k] # NoEntry
    OBVIOUS
  <2> HIDE DEF ks
  <2>3. /\ flush' \in FlushTypes /\ flush'.taken = flush.taken
        /\ flush'.chunk = flush.chunk /\ flush'.pc = "point" /\ flush'.todo = ks
    BY Zenon, <1>0, <2>1, <2>2 DEF FlushTypes, FlushPcs, ChunkPcs
  <2>4. flush.chunk # 0 /\ flush.pc # "idle"
    BY <2>1 DEF TInv, FlushOK, ChunkPcs
  <2> QED BY <1>2, <2>1, <2>2, <2>3, <2>4 DEF ChunkPcs
<1>9. CASE PointRow \/ (FlushWarns /\ flush.pc = "point")
  <2>1. PICK ks : /\ flush.pc = "point" /\ UNCHANGED <<tables, rebuild>>
                  /\ ks \subseteq flush.todo
                  /\ flush' = [flush EXCEPT !.todo = ks]
    <3>1. CASE PointRow
      BY Zenon, <3>1 DEF PointRow, table_vars
    <3>2. CASE FlushWarns /\ flush.pc = "point"
      BY <3>2 DEF FlushWarns, table_vars
    <3> QED BY <1>9, <3>1, <3>2
  <2>2. /\ flush' \in FlushTypes /\ flush'.taken = flush.taken
        /\ flush'.chunk = flush.chunk /\ flush'.pc = "point" /\ flush'.todo = ks
    BY <1>0, <2>1 DEF FlushTypes, FlushPcs, ChunkPcs
  <2>3. /\ flush.chunk # 0 /\ flush.pc # "idle"
        /\ \A k \in flush.todo : tables[Table][k] # NoEntry
    BY <2>1 DEF TInv, FlushOK, ChunkPcs
  <2> QED BY <1>2, <2>1, <2>2, <2>3 DEF ChunkPcs
<1>10. CASE TruncateWal \/ FlushFails \/ (FlushWarns /\ flush.pc # "point")
  <2>1. flush.pc # "idle" /\ UNCHANGED rebuild /\ flush' = NextTable
    BY <1>10 DEF TruncateWal, FlushFails, FlushWarns
  <2> QED BY <1>1, <2>1
<1>11. CASE UNCHANGED flush /\ ~ LoseMemory
  <2>1. CASE flush.pc = "idle"
    BY Zenon, <1>0, <1>11, <2>1 DEF FlushOK
  <2>2. CASE flush.pc # "idle"
    <3>1. Serving /\ Table \in TableIds /\ Table' = Table
      BY <1>11, <2>2, TakenFacts DEF TInv, FlushOK, Table
    <3>2. UNCHANGED rebuild
      <4>1. ~ RebuildStep
        BY <3>1 DEF RebuildStep, RebuildVersion, RebuildScan, RebuildSkips,
             RebuildChunkIndex, RebuildRows, RebuildChains, StartAgain, Serving
      <4>2. ~ Crash /\ ~ LoseDisk
        BY Zenon, <1>11 DEF Crash, LoseDisk
      <4> QED BY Zenon, <4>1, <4>2, Writers
    <3>3. ASSUME NEW k \in flush.todo, flush.pc = "point"
          PROVE  tables'[Table][k] # NoEntry
      <4>1. k \in Keys /\ tables[Table][k] # NoEntry
        BY <1>0, <3>3 DEF TInv, FlushOK, FlushTypes
      <4> QED BY Zenon, <1>11, <3>1, <4>1, EntriesStay
    <3> QED BY Zenon, <1>0, <1>11, <2>2, <3>1, <3>2, <3>3 DEF TInv, FlushOK, Serving
  <2> QED BY <2>1, <2>2
<1> QED BY Zenon, <1>3, <1>4, <1>5, <1>6, <1>7, <1>8, <1>9, <1>10, <1>11, Writers
        DEF FlushStep

(***************************************************************************)
(* While the server rebuilds its tables, no request and no flush runs: a   *)
(* step of theirs, or a crash, needs a server that serves.                 *)
(***************************************************************************)
LEMMA OnlyRebuild ==
  ASSUME TInv, ~ Serving
  PROVE  /\ commit.pc = "idle" /\ flush.pc = "idle"
         /\ ~ CommitStep /\ ~ FlushStep
<1>1. commit.pc = "idle" /\ flush.pc = "idle"
  BY Zenon DEF TInv, CommitOK, FlushOK
<1>2. ~ LogBegin /\ ~ LogStage /\ \A keys : ~ CommitLog(keys)
  BY Zenon DEF LogBegin, LogStage, CommitLog
<1>3. /\ ~ CommitAppend /\ ~ PutClone /\ ~ PutInsert /\ ~ PutPush /\ ~ PutPublish
      /\ ~ CommitHook /\ ~ HookWarns
  BY <1>1 DEF CommitAppend, PutClone, PutInsert, PutPush, PutPublish,
              CommitHook, HookWarns
<1>4. /\ ~ TickRotate /\ ~ TickPush /\ ~ TakeImmutables /\ ~ Encode
      /\ ~ UploadChunk /\ ~ PutChunkIndex
  BY <1>1 DEF TickRotate, TickPush, TakeImmutables, Encode, UploadChunk,
              PutChunkIndex
<1>5. ~ PointRow /\ ~ LogFlushed /\ ~ TruncateWal /\ ~ FlushFails /\ ~ FlushWarns
  BY <1>1 DEF PointRow, LogFlushed, TruncateWal, FlushFails, FlushWarns
<1> QED BY Zenon, <1>1, <1>2, <1>3, <1>4, <1>5 DEF CommitStep, FlushStep

(***************************************************************************)
(* The steps of a rebuild keep what its program counter says; until its    *)
(* last one the memory, the counter and the log are those of a fresh redb. *)
(***************************************************************************)
LEMMA RebuildTask ==
  ASSUME TInv, Next
  PROVE  /\ rebuild' = [pc |-> rebuild'.pc, scan |-> rebuild'.scan,
                        chains |-> rebuild'.chains]
         /\ rebuild'.pc \in RebuildPcs /\ rebuild'.scan \subseteq ScannedEntry
         /\ RebuildOK'
<1>0. /\ rebuild = [pc |-> rebuild.pc, scan |-> rebuild.scan,
                    chains |-> rebuild.chains]
      /\ rebuild.pc \in RebuildPcs /\ rebuild.scan \subseteq ScannedEntry
      /\ StoreOK
  BY DEF TInv, TasksOK
<1>1. ASSUME NEW cs \in SUBSET ChunkIds PROVE EntriesIn(cs) \subseteq ScannedEntry
  BY Zenon, <1>0, EntriesInSpec
<1>2. \/ UNCHANGED rebuild
      \/ rebuild' = NotRebuilding
      \/ rebuild' = [NotRebuilding EXCEPT !.pc = "scan"]
      \/ rebuild' = [rebuild EXCEPT !.pc = "scan", !.scan = {}]
      \/ rebuild' = [rebuild EXCEPT !.pc = "rows"]
      \/ rebuild' = [rebuild EXCEPT !.pc = "chains"]
      \/ rebuild' = [rebuild EXCEPT !.pc = "refused"]
      \/ rebuild' = [rebuild EXCEPT !.pc = "version",
                       !.chains = [k \in Keys |-> Appended(k)]]
      \/ \E cs \in SUBSET ChunkIds :
           rebuild' = [rebuild EXCEPT !.pc = "index", !.scan = EntriesIn(cs)]
  <2>1. CASE RebuildScan
    <3>1. Chunks \in SUBSET ChunkIds
      BY DEF Chunks
    <3> QED BY Zenon, <2>1, <3>1 DEF RebuildScan
  <2>2. CASE RebuildSkips
    <3>1. \A c : Chunks \ {c} \in SUBSET ChunkIds
      BY DEF Chunks
    <3> QED BY Zenon, <2>2, <3>1 DEF RebuildSkips
  <2>3. CASE RebuildChunkIndex \/ RebuildRows
    <3>1. rebuild' = [rebuild EXCEPT !.pc = "rows"]
          \/ rebuild' = [rebuild EXCEPT !.pc = "chains"]
      BY <2>3 DEF RebuildChunkIndex, RebuildRows
    <3> QED BY Zenon, <3>1
  <2>4. CASE RebuildChains
    BY Zenon, <2>4 DEF RebuildChains
  <2>5. CASE RebuildVersion \/ StartAgain
    BY Zenon, <2>5 DEF RebuildVersion, StartAgain
  <2>6. CASE Crash
    BY Zenon, <2>6 DEF Crash
  <2>7. CASE LoseDisk
    BY Zenon, <2>7 DEF LoseDisk
  <2> QED BY Zenon, <2>1, <2>2, <2>3, <2>4, <2>5, <2>6, <2>7, Writers
          DEF RebuildStep
<1>3. /\ rebuild' = [pc |-> rebuild'.pc, scan |-> rebuild'.scan,
                     chains |-> rebuild'.chains]
      /\ rebuild'.pc \in RebuildPcs /\ rebuild'.scan \subseteq ScannedEntry
  <2>1. ASSUME NEW pc \in RebuildPcs, NEW scan \in SUBSET ScannedEntry, NEW chains,
               rebuild' = [pc |-> pc, scan |-> scan, chains |-> chains]
        PROVE  /\ rebuild' = [pc |-> rebuild'.pc, scan |-> rebuild'.scan,
                              chains |-> rebuild'.chains]
               /\ rebuild'.pc \in RebuildPcs /\ rebuild'.scan \subseteq ScannedEntry
    BY <2>1
  <2>2. /\ "off" \in RebuildPcs /\ "scan" \in RebuildPcs /\ "rows" \in RebuildPcs
        /\ "chains" \in RebuildPcs /\ "refused" \in RebuildPcs /\ "version" \in RebuildPcs
        /\ "index" \in RebuildPcs
    BY DEF RebuildPcs
  <2>3. {} \in SUBSET ScannedEntry /\ rebuild.scan \in SUBSET ScannedEntry
    BY <1>0
  <2>4. CASE UNCHANGED rebuild
    BY Zenon, <1>0, <2>4
  <2>5. CASE rebuild' = NotRebuilding \/ rebuild' = [NotRebuilding EXCEPT !.pc = "scan"]
    <3>1. \/ rebuild' = [pc |-> "off", scan |-> {}, chains |-> EmptyChains]
          \/ rebuild' = [pc |-> "scan", scan |-> {}, chains |-> EmptyChains]
      BY <2>5 DEF NotRebuilding
    <3> QED BY Zenon, <2>1, <2>2, <2>3, <3>1
  <2>6. CASE rebuild' = [rebuild EXCEPT !.pc = "scan", !.scan = {}]
    <3>1. rebuild' = [pc |-> "scan", scan |-> {}, chains |-> rebuild.chains]
      BY Zenon, <1>0, <2>6
    <3> QED BY Zenon, <2>1, <2>2, <2>3, <3>1
  <2>7. CASE \/ rebuild' = [rebuild EXCEPT !.pc = "rows"]
             \/ rebuild' = [rebuild EXCEPT !.pc = "chains"]
             \/ rebuild' = [rebuild EXCEPT !.pc = "refused"]
    <3>1. \E pc \in {"rows", "chains", "refused"} :
            rebuild' = [pc |-> pc, scan |-> rebuild.scan, chains |-> rebuild.chains]
      BY <1>0, <2>7
    <3> QED BY Zenon, <2>1, <2>2, <2>3, <3>1
  <2>8. CASE rebuild' = [rebuild EXCEPT !.pc = "version",
                           !.chains = [k \in Keys |-> Appended(k)]]
    <3> DEFINE new == [k \in Keys |-> Appended(k)]
    <3> HIDE DEF new
    <3>1. rebuild' = [pc |-> "version", scan |-> rebuild.scan, chains |-> new]
      BY Zenon, <1>0, <2>8 DEF new
    <3> QED BY Zenon, <2>1, <2>2, <2>3, <3>1
  <2>9. CASE \E cs \in SUBSET ChunkIds :
               rebuild' = [rebuild EXCEPT !.pc = "index", !.scan = EntriesIn(cs)]
    <3> PICK cs \in SUBSET ChunkIds :
          rebuild' = [rebuild EXCEPT !.pc = "index", !.scan = EntriesIn(cs)]
      BY Zenon, <2>9
    <3>1. rebuild' = [pc |-> "index", scan |-> EntriesIn(cs), chains |-> rebuild.chains]
      BY Zenon, <1>0
    <3>2. EntriesIn(cs) \in SUBSET ScannedEntry
      BY Zenon, <1>1
    <3> QED BY Zenon, <2>1, <2>2, <3>1, <3>2
  <2> QED BY Zenon, <1>2, <2>4, <2>5, <2>6, <2>7, <2>8, <2>9
<1>4. RebuildOK'
  <2>1. CASE Crash
    <3>1. /\ tables' = [i \in TableIds |-> EmptyMap] /\ flushing' = <<>>
          /\ UNCHANGED <<global_version, wal_last, wal_cut>>
          /\ \/ global_version = 0 /\ wal_last = wal_cut
             \/ rebuild' = NotRebuilding
      BY Zenon, <2>1 DEF Crash, LoseMemory, NoTables, redb_vars
    <3> QED BY <3>1 DEF RebuildOK, Serving, NotRebuilding, EmptyMap
  <2>2. CASE LoseDisk
    <3>1. /\ tables' = [i \in TableIds |-> EmptyMap] /\ flushing' = <<>>
          /\ global_version' = 0 /\ wal_last' = 0 /\ wal_cut' = 0
      BY Zenon, <2>2 DEF LoseDisk, LoseMemory, NoTables
    <3> QED BY <3>1 DEF RebuildOK, EmptyMap
  <2>3. CASE Serving /\ ~ Crash /\ ~ LoseDisk
    <3>1. ~ RebuildStep
      BY <2>3 DEF RebuildStep, RebuildVersion, RebuildScan, RebuildSkips,
           RebuildChunkIndex, RebuildRows, RebuildChains, StartAgain, Serving
    <3>2. UNCHANGED rebuild
      BY Zenon, <2>3, <3>1, Writers
    <3> QED BY <2>3, <3>2 DEF RebuildOK, Serving
  <2>4. CASE ~ Serving /\ ~ Crash /\ ~ LoseDisk
    <3>1. ~ CommitStep /\ ~ FlushStep
      BY Zenon, <2>4, OnlyRebuild
    <3>2. UNCHANGED rebuild_keeps /\ RebuildStep
      BY Zenon, <2>4, <3>1 DEF Next, RebuildStep, RebuildVersion, RebuildScan,
           RebuildSkips, RebuildChunkIndex, RebuildRows, RebuildChains, StartAgain
    <3>3. UNCHANGED <<tables, flushing, wal_last, wal_cut>>
      BY Zenon, <3>2 DEF rebuild_keeps, table_vars, log_vars
    <3>4. CASE RebuildVersion
      BY <3>4 DEF RebuildVersion, NotRebuilding, RebuildOK, Serving
    <3>5. CASE ~ RebuildVersion
      <4>1. UNCHANGED global_version
        BY Zenon, <2>4, <3>1, <3>5, Writers DEF CommitStep
      <4> QED BY <2>4, <3>3, <4>1 DEF TInv, RebuildOK, EmptyMap
    <3> QED BY <3>4, <3>5
  <2> QED BY <2>1, <2>2, <2>3, <2>4
<1> QED BY Zenon, <1>3, <1>4

(***************************************************************************)
(* A fresh server has these types.                                         *)
(***************************************************************************)
LEMMA InitTypes ==
  ASSUME Init, Numbers
  PROVE  TInv /\ Origins
<1>0. /\ MaxVersion \in Nat /\ MaxCommits \in Nat /\ MaxTables \in Nat \ {0}
      /\ MaxChunks \in Nat
  BY Zenon, MemTablesAssumption, ChunkStoreAssumption
<1>1. /\ tables = [i \in TableIds |-> EmptyMap] /\ active = 1 /\ flushing = <<>>
      /\ objects = [c \in ChunkIds |-> {}] /\ chunk_index = {}
      /\ record_index = [k \in Keys |-> NoRow]
      /\ record_versions = [k \in Keys |-> [v \in Versions |-> NoRow]]
      /\ global_version = 0
  BY Zenon DEF Init, FreshTables, ChunkStoreInit, EmptyRows
<1>2. /\ wal_last = 0 /\ wal_cut = 0 /\ minted = 0 /\ history = <<>>
      /\ commit = [pc |-> "idle", todo |-> {}, k |-> {}, table |-> 0, row |-> 0]
      /\ flush = [pc |-> "idle", taken |-> <<>>, chunk |-> 0, entries |-> {},
                  last |-> 0, todo |-> {}]
      /\ rebuild = [pc |-> "off", scan |-> {}, chains |-> EmptyChains]
  BY Zenon DEF Init, NotCommitting, NotFlushing, NotRebuilding
<1>3. /\ commit.pc = "idle" /\ flush.pc = "idle" /\ rebuild.pc = "off"
      /\ flush.entries = {} /\ flush.last = 0 /\ rebuild.scan = {}
  BY Zenon, <1>2
<1>4. /\ \A i \in TableIds, k \in Keys : tables[i][k] = NoEntry
      /\ \A c \in ChunkIds : objects[c] = {}
      /\ \A k \in Keys : record_index[k] = NoRow
      /\ \A k \in Keys, v \in Versions : record_versions[k][v] = NoRow
  BY <1>1 DEF EmptyMap
<1>5. TablesOK
  BY <1>0, <1>1 DEF TablesOK, EmptyMap, TableIds
<1>6. StoreOK
  BY <1>0, <1>1 DEF StoreOK
<1>7. LogOK
  BY <1>0, <1>2 DEF LogOK
<1>8. TasksOK
  <2>1. commit \in [pc : CommitPcs, todo : SUBSET Keys, k : SUBSET Keys,
                    table : 0 .. MaxTables, row : Nat]
    BY Zenon, <1>2, AtRest
  <2>2. flush \in [pc : FlushPcs, taken : Seq(TableIds), chunk : 0 .. MaxChunks,
                   entries : SUBSET ChunkEntry, last : 0 .. MaxVersion,
                   todo : SUBSET Keys]
    BY Zenon, <1>2, AtRest
  <2>3. /\ rebuild = [pc |-> rebuild.pc, scan |-> rebuild.scan,
                      chains |-> rebuild.chains]
        /\ rebuild.pc \in RebuildPcs /\ rebuild.scan \subseteq ScannedEntry
    BY <1>2 DEF RebuildPcs
  <2> QED BY Zenon, <2>1, <2>2, <2>3 DEF TasksOK
<1>9. CommitOK /\ FlushOK /\ RebuildOK
  BY Zenon, <1>3 DEF CommitOK, FlushOK, RebuildOK, Serving
<1>10. TablesFrom /\ ChunksFrom /\ RowsFrom
  BY Zenon, <1>4 DEF TablesFrom, ChunksFrom, RowsFrom
<1>11. FlushFrom /\ ScanFrom
  <2>1. 0 <= 0
    OBVIOUS
  <2> QED BY Zenon, <1>1, <1>3, <2>1 DEF FlushFrom, ScanFrom
<1> QED BY Zenon, <1>5, <1>6, <1>7, <1>8, <1>9, <1>10, <1>11 DEF TInv, Origins

(***************************************************************************)
(* Every step keeps the types.                                             *)
(***************************************************************************)
LEMMA TypesStep ==
  ASSUME TInv, Origins, Next
  PROVE  TInv'
<1>1. TablesFrom
  BY Zenon DEF Origins
<1>2. commit' \in CommitTypes /\ CommitOK'
  BY Zenon, CommitTask
<1>3. flush' \in FlushTypes /\ FlushOK'
  BY Zenon, <1>1, FlushTask
<1>4. /\ rebuild' = [pc |-> rebuild'.pc, scan |-> rebuild'.scan,
                     chains |-> rebuild'.chains]
      /\ rebuild'.pc \in RebuildPcs /\ rebuild'.scan \subseteq ScannedEntry
      /\ RebuildOK'
  BY Zenon, RebuildTask
<1>5. TasksOK'
  BY Zenon, <1>2, <1>3, <1>4 DEF TasksOK, CommitTypes, FlushTypes
<1>6. TablesOK' /\ StoreOK' /\ LogOK'
  BY Zenon, TablesStep, StoreStep, LogStep
<1>7. Numbers'
  BY Zenon DEF TInv, Numbers
<1> QED BY Zenon, <1>2, <1>3, <1>4, <1>5, <1>6, <1>7 DEF TInv

-----------------------------------------------------------------------------
(***************************************************************************)
(* A commit adds to the history and changes none of it.                    *)
(***************************************************************************)
LEMMA HistoryGrows ==
  ASSUME TInv, Next
  PROVE  /\ Len(history) \in Nat /\ Len(history') \in Nat
         /\ Len(history) <= Len(history')
         /\ \A i \in 1 .. Len(history) :
              i \in 1 .. Len(history') /\ history'[i] = history[i]
         /\ \A k, src, v :
              WrittenBy(history, k, src, v) => WrittenBy(history', k, src, v)
<1>1. /\ Len(history) \in Nat
      /\ Len(history') = Len(history) \/ Len(history') = Len(history) + 1
      /\ \A i \in 1 .. Len(history) : history'[i] = history[i]
  <2>1. CASE UNCHANGED history
    <3>1. Len(history) \in Nat
      BY DEF TInv, LogOK
    <3> QED BY Zenon, <2>1, <3>1
  <2>2. CASE \E keys \in SUBSET Keys \ {{}} : CommitLog(keys)
    BY Zenon, <2>2, CommitLogSpec
  <2> QED BY Zenon, <2>1, <2>2, Writers
<1>2. /\ Len(history) \in Nat /\ Len(history') \in Nat
      /\ Len(history) <= Len(history')
      /\ \A i \in 1 .. Len(history) : i \in 1 .. Len(history')
  BY <1>1
<1> QED BY Zenon, <1>1, <1>2 DEF WrittenBy

(***************************************************************************)
(* The version counter only goes up, unless the disk is lost.              *)
(***************************************************************************)
LEMMA VersionGrows ==
  ASSUME TInv, Next
  PROVE  /\ global_version \in Nat /\ global_version' \in Nat
         /\ global_version <= global_version' \/ LoseDisk
         /\ \A n \in Nat :
              n <= global_version => n <= global_version' \/ LoseDisk
<1>1. global_version \in Nat /\ global_version' \in Nat
  <2>1. global_version \in 0 .. MaxVersion /\ global_version' \in 0 .. MaxVersion
    BY Zenon, StoreStep DEF TInv, StoreOK
  <2> QED BY <2>1
<1>2. global_version <= global_version' \/ LoseDisk
  <2>1. CASE UNCHANGED global_version
    BY <1>1, <2>1
  <2>2. CASE \E keys \in SUBSET Keys \ {{}} : CommitLog(keys)
    <3>1. global_version' = global_version + 1
      BY Zenon, <2>2 DEF CommitLog
    <3> QED BY <1>1, <3>1
  <2>3. CASE RebuildVersion
    <3>1. ~ Serving
      BY <2>3 DEF RebuildVersion, Serving
    <3>2. global_version = 0
      BY Zenon, <3>1 DEF TInv, RebuildOK
    <3> QED BY <1>1, <3>2
  <2> QED BY Zenon, <2>1, <2>2, <2>3, Writers
<1> QED BY <1>1, <1>2

(***************************************************************************)
(* Losing the disk is losing the memory too, and more.                     *)
(***************************************************************************)
LEMMA DiskLost ==
  ASSUME LoseDisk
  PROVE  LoseMemory /\ flush' = NotFlushing /\ commit' = NotCommitting
         /\ tables' = [i \in TableIds |-> EmptyMap]
BY Zenon DEF LoseDisk, LoseMemory, NoTables

(***************************************************************************)
(* The entries a flush carries are those it copied when it encoded the     *)
(* table.                                                                  *)
(***************************************************************************)
LEMMA FlushData ==
  ASSUME TInv, Next
  PROVE  \/ /\ flush'.entries = flush.entries /\ flush'.last = flush.last
            /\ ~ LoseMemory
         \/ flush'.entries = {} /\ flush'.last = 0
         \/ /\ Encode /\ flush.pc = "encode" /\ tables[Table] # EmptyMap
            /\ flush'.entries = EntriesOf(tables[Table])
            /\ flush'.last = LastWalSeq(tables[Table])
<1>0. flush \in FlushTypes
  BY Zenon DEF TInv, TasksOK, FlushTypes
<1>1. CASE flush' = NotFlushing
  BY <1>1 DEF NotFlushing
<1>2. CASE flush.pc # "idle" /\ flush' = NextTable
  BY Zenon, <1>2, NextTableSpec
<1>3. CASE TickRotate \/ TakeImmutables
  <2>1. \E pc, taken :
          flush' = [pc |-> pc, taken |-> taken, chunk |-> 0, entries |-> {},
                    last |-> 0, todo |-> {}]
    BY Zenon, <1>3 DEF TickRotate, TakeImmutables, NotFlushing
  <2> QED BY <2>1
<1>4. CASE Encode /\ tables[Table] # EmptyMap
  <2> DEFINE es == EntriesOf(tables[Table])
             last == LastWalSeq(tables[Table])
  <2>1. /\ flush.pc = "encode"
        /\ flush' = [flush EXCEPT !.pc = "upload", !.chunk = minted + 1,
                                  !.entries = es, !.last = last]
    BY Zenon, <1>4 DEF Encode
  <2> HIDE DEF es, last
  <2>2. flush'.entries = es /\ flush'.last = last
    BY Zenon, <1>0, <2>1 DEF FlushTypes
  <2> QED BY Zenon, <1>4, <2>1, <2>2 DEF es, last
<1>5. CASE Encode /\ tables[Table] = EmptyMap
  <2>1. flush.pc = "encode" /\ flush' = NextTable
    BY Zenon, <1>5 DEF Encode
  <2> QED BY <1>2, <2>1
<1>6. CASE UploadChunk \/ PutChunkIndex \/ PointRow \/ LogFlushed
  <2>1. \/ flush' = [flush EXCEPT !.pc = "index"]
        \/ \E ks : flush' = [flush EXCEPT !.pc = "point", !.todo = ks]
        \/ \E ks : flush' = [flush EXCEPT !.todo = ks]
        \/ flush' = [flush EXCEPT !.pc = "truncate"]
    BY Zenon, <1>6 DEF UploadChunk, PutChunkIndex, PointRow, LogFlushed
  <2>2. flush'.entries = flush.entries /\ flush'.last = flush.last
    BY Zenon, <1>0, <2>1 DEF FlushTypes
  <2>3. LoseMemory => flush' = NotFlushing
    BY Zenon DEF LoseMemory
  <2> QED BY Zenon, <1>1, <2>2, <2>3
<1>7. CASE FlushWarns
  <2>1. \/ flush.pc # "idle" /\ flush' = NextTable
        \/ flush' = [flush EXCEPT !.todo = {}]
    BY <1>7 DEF FlushWarns
  <2>2. CASE flush' = [flush EXCEPT !.todo = {}]
    <3>1. flush'.entries = flush.entries /\ flush'.last = flush.last
      BY <1>0, <2>2 DEF FlushTypes
    <3>2. LoseMemory => flush' = NotFlushing
      BY Zenon DEF LoseMemory
    <3> QED BY Zenon, <1>1, <3>1, <3>2
  <2> QED BY <1>2, <2>1, <2>2
<1>8. CASE TickPush \/ LoseMemory
  BY Zenon, <1>1, <1>8 DEF TickPush, LoseMemory
<1>9. CASE TruncateWal \/ FlushFails
  <2>1. flush.pc # "idle" /\ flush' = NextTable
    BY <1>9 DEF TruncateWal, FlushFails
  <2> QED BY Zenon, <1>2, <2>1
<1>10. CASE UNCHANGED flush /\ ~ LoseMemory
  BY Zenon, <1>10
<1> QED BY Zenon, <1>3, <1>4, <1>5, <1>6, <1>7, <1>8, <1>9, <1>10, Writers
        DEF FlushStep

(***************************************************************************)
(* S3 changes by uploads only, one chunk at a time, and not while a server *)
(* rebuilds from it.                                                       *)
(***************************************************************************)
LEMMA ObjectStep ==
  ASSUME TInv, Next
  PROVE  /\ \A c \in ChunkIds :
              \/ objects'[c] = objects[c]
              \/ /\ flush.pc = "upload" /\ c = flush.chunk
                 /\ objects'[c] = flush.entries
         /\ ~ Serving => UNCHANGED objects
         /\ LoseMemory => UNCHANGED objects
         /\ RebuildStep => UNCHANGED objects
<1>0. objects \in [ChunkIds -> SUBSET ChunkEntry]
  BY DEF TInv, StoreOK
<1>1. CASE UNCHANGED objects
  BY Zenon, <1>1
<1>2. CASE UploadChunk \/ FlushFails
  <2>1. ASSUME LoseMemory PROVE FALSE
    <3>1. active' = 1 /\ flushing' = <<>> /\ flush' = NotFlushing
      BY Zenon, <2>1 DEF LoseMemory, NoTables
    <3>2. CASE UploadChunk
      <4>1. flush' = [flush EXCEPT !.pc = "index"]
        BY <3>2 DEF UploadChunk
      <4>2. flush \in FlushTypes
        BY DEF TInv, TasksOK, FlushTypes
      <4>3. flush'.pc = "index"
        BY <4>1, <4>2 DEF FlushTypes
      <4> QED BY <3>1, <4>3 DEF NotFlushing
    <3>3. CASE FlushFails
      <4>1. flushing' = Append(flushing, Table)
        BY Zenon, <3>3 DEF FlushFails
      <4>2. flushing \in Seq(TableIds) /\ flush.pc # "idle"
        BY Zenon, <3>3 DEF TInv, TablesOK, FlushFails
      <4>3. Len(Append(flushing, Table)) = Len(flushing) + 1 /\ Len(flushing) \in Nat
        BY <4>2, TakenFacts
      <4>4. Len(<<>>) = 0
        OBVIOUS
      <4> QED BY <3>1, <4>1, <4>3, <4>4
    <3> QED BY Zenon, <1>2, <3>2, <3>3
  <2>2. ~ LoseMemory
    BY Zenon, <2>1
  <2>3. Serving /\ ~ RebuildStep
    <3>1. flush.pc # "idle"
      BY <1>2 DEF UploadChunk, FlushFails
    <3>2. Serving
      BY Zenon, <3>1 DEF TInv, FlushOK
    <3> QED BY <3>2 DEF RebuildStep, RebuildVersion, RebuildScan, RebuildSkips,
           RebuildChunkIndex, RebuildRows, RebuildChains, StartAgain, Serving
  <2>4. \/ UNCHANGED objects
        \/ /\ flush.pc = "upload"
           /\ objects' = [objects EXCEPT ![flush.chunk] = flush.entries]
    BY Zenon, <1>2 DEF UploadChunk, FlushFails
  <2>5. \A c \in ChunkIds :
          \/ objects'[c] = objects[c]
          \/ flush.pc = "upload" /\ c = flush.chunk /\ objects'[c] = flush.entries
    BY <1>0, <2>4
  <2> QED BY Zenon, <2>2, <2>3, <2>5
<1> QED BY Zenon, <1>1, <1>2, Writers

ScanMoves ==
  \/ RebuildChunkIndex /\ rebuild.pc = "index" /\ rebuild'.pc = "rows"
  \/ RebuildRows /\ rebuild.pc = "rows" /\ rebuild'.pc = "chains"
  \/ /\ RebuildChains /\ rebuild.pc = "chains"
     /\ rebuild'.pc \in {"refused", "version"}

(***************************************************************************)
(* What a rebuild has read is what is in S3, and it goes from one step to  *)
(* the next.                                                               *)
(***************************************************************************)
LEMMA ScanStep ==
  ASSUME TInv, Next
  PROVE  \/ UNCHANGED rebuild
         \/ /\ rebuild'.scan = {} /\ rebuild'.pc \in {"off", "scan"}
            /\ rebuild'.pc = "off" => RebuildVersion \/ Serving
         \/ ~ Serving /\ ~ Serving' /\ rebuild'.scan = rebuild.scan /\ ScanMoves
         \/ /\ ~ Serving /\ ~ Serving' /\ rebuild'.pc = "index"
            /\ \E cs \in SUBSET ChunkIds : rebuild'.scan = EntriesIn(cs)
            /\ rebuild'.scan = EntriesIn(Chunks) \/ Fault
<1>0. rebuild = [pc |-> rebuild.pc, scan |-> rebuild.scan, chains |-> rebuild.chains]
  BY DEF TInv, TasksOK
<1>1. CASE RebuildScan \/ RebuildSkips
  <2>1. /\ rebuild.pc = "scan"
        /\ \E cs \in SUBSET ChunkIds :
             /\ rebuild' = [rebuild EXCEPT !.pc = "index", !.scan = EntriesIn(cs)]
             /\ cs = Chunks \/ Fault
    <3>1. Chunks \in SUBSET ChunkIds /\ \A c : Chunks \ {c} \in SUBSET ChunkIds
      BY DEF Chunks
    <3> QED BY Zenon, <1>1, <3>1 DEF RebuildScan, RebuildSkips
  <2>2. PICK cs \in SUBSET ChunkIds :
          /\ rebuild' = [rebuild EXCEPT !.pc = "index", !.scan = EntriesIn(cs)]
          /\ cs = Chunks \/ Fault
    BY Zenon, <2>1
  <2>3. rebuild' = [pc |-> "index", scan |-> EntriesIn(cs), chains |-> rebuild.chains]
    BY Zenon, <1>0, <2>2
  <2>4. rebuild'.pc = "index" /\ rebuild'.scan = EntriesIn(cs)
    BY <2>3
  <2>5. ~ Serving /\ ~ Serving'
    BY <2>1, <2>4 DEF Serving
  <2> QED BY Zenon, <2>2, <2>4, <2>5
<1>2. CASE RebuildChunkIndex \/ RebuildRows
  <2>1. \/ /\ RebuildChunkIndex /\ rebuild.pc = "index"
           /\ rebuild' = [rebuild EXCEPT !.pc = "rows"]
        \/ /\ RebuildRows /\ rebuild.pc = "rows"
           /\ rebuild' = [rebuild EXCEPT !.pc = "chains"]
    <3>1. RebuildChunkIndex => /\ rebuild.pc = "index"
                               /\ rebuild' = [rebuild EXCEPT !.pc = "rows"]
      BY DEF RebuildChunkIndex
    <3>2. RebuildRows => /\ rebuild.pc = "rows"
                         /\ rebuild' = [rebuild EXCEPT !.pc = "chains"]
      BY DEF RebuildRows
    <3> QED BY Zenon, <1>2, <3>1, <3>2
  <2>2. /\ rebuild.pc \in {"index", "rows"} /\ rebuild'.pc \in {"rows", "chains"}
        /\ rebuild'.scan = rebuild.scan
        /\ \/ RebuildChunkIndex /\ rebuild.pc = "index" /\ rebuild'.pc = "rows"
           \/ RebuildRows /\ rebuild.pc = "rows" /\ rebuild'.pc = "chains"
    BY Zenon, <1>0, <2>1
  <2>3. ~ Serving /\ ~ Serving'
    BY <2>2 DEF Serving
  <2> QED BY Zenon, <2>2, <2>3 DEF ScanMoves
<1>3. CASE RebuildChains
  <2>0. rebuild.pc = "chains"
    BY Zenon, <1>3 DEF RebuildChains
  <2>1. \/ rebuild' = [rebuild EXCEPT !.pc = "refused"]
        \/ \E cs : rebuild' = [rebuild EXCEPT !.pc = "version", !.chains = cs]
    BY Zenon, <1>3 DEF RebuildChains
  <2>2. \E pc \in {"refused", "version"} : \E cs :
          rebuild' = [pc |-> pc, scan |-> rebuild.scan, chains |-> cs]
    BY Zenon, <1>0, <2>1
  <2>3. rebuild'.pc \in {"refused", "version"} /\ rebuild'.scan = rebuild.scan
    BY <2>2
  <2>4. ~ Serving /\ ~ Serving'
    BY Zenon, <2>0, <2>3 DEF Serving
  <2> QED BY Zenon, <1>3, <2>0, <2>3, <2>4 DEF ScanMoves
<1>4. CASE RebuildVersion \/ StartAgain \/ Crash \/ LoseDisk
  <2>1. \/ rebuild' = NotRebuilding /\ (RebuildVersion \/ Serving)
        \/ rebuild' = [rebuild EXCEPT !.pc = "scan", !.scan = {}]
        \/ rebuild' = [NotRebuilding EXCEPT !.pc = "scan"]
    <3>1. CASE Crash
      <4>1. CASE Serving
        BY Zenon, <3>1, <4>1 DEF Crash
      <4>2. CASE ~ Serving
        <5>1. global_version = 0 /\ wal_last = wal_cut
          BY Zenon, <4>2 DEF TInv, RebuildOK
        <5> QED BY Zenon, <3>1, <5>1 DEF Crash
      <4> QED BY Zenon, <4>1, <4>2
    <3> QED BY Zenon, <1>4, <3>1 DEF RebuildVersion, StartAgain, LoseDisk
  <2>2. \/ (RebuildVersion \/ Serving) /\ rebuild'.pc = "off" /\ rebuild'.scan = {}
        \/ rebuild'.pc = "scan" /\ rebuild'.scan = {}
    <3>1. NotRebuilding = [pc |-> "off", scan |-> {}, chains |-> EmptyChains]
      BY Zenon DEF NotRebuilding
    <3>2. \/ /\ rebuild' = [pc |-> "off", scan |-> {}, chains |-> EmptyChains]
             /\ RebuildVersion \/ Serving
          \/ rebuild' = [pc |-> "scan", scan |-> {}, chains |-> rebuild.chains]
          \/ rebuild' = [pc |-> "scan", scan |-> {}, chains |-> EmptyChains]
      BY Zenon, <1>0, <2>1, <3>1
    <3> QED BY <3>2
  <2> QED BY <2>2
<1> QED BY Zenon, <1>1, <1>2, <1>3, <1>4, Writers DEF RebuildStep

(***************************************************************************)
(* Every entry anywhere was written by a commit to its key, with a version *)
(* not above the one it has.  publish gives an entry the newest version,   *)
(* whichever commit it is from; a flush, a hook and a rebuild pass the     *)
(* pair of body and version on.                                            *)
(***************************************************************************)
LEMMA OriginsStep ==
  ASSUME TInv, Origins, Next
  PROVE  Origins'
<1>0. TablesFrom /\ FlushFrom /\ ChunksFrom /\ ScanFrom /\ RowsFrom
  BY Zenon DEF Origins
<1>1. \A k, src, v :
        WrittenBy(history, k, src, v) => WrittenBy(history', k, src, v)
  BY Zenon, HistoryGrows
<1>2. \A n \in Nat : n <= global_version => n <= global_version' \/ LoseDisk
  BY Zenon, VersionGrows
<1>3. \A v \in Versions : v \in Nat
  BY MemTablesAssumption DEF Versions
<1>4. ASSUME commit.pc # "idle"
      PROVE  \A k \in ItsKeys : WrittenBy(history, k, Len(history), global_version)
  <2>1. /\ Len(history) \in 1 .. Len(history) /\ ItsKeys = history[Len(history)].keys
        /\ history[Len(history)].v = global_version
    BY Zenon, <1>4, CommitFacts
  <2>2. global_version <= global_version
    BY VersionGrows
  <2> QED BY Zenon, <2>1, <2>2 DEF WrittenBy
<1>5. TablesFrom'
  <2>1. ASSUME NEW i \in TableIds, NEW k \in Keys, tables'[i][k] # NoEntry
        PROVE  /\ WrittenBy(history', k, tables'[i][k].src, tables'[i][k].cv)
               /\ tables'[i][k].cv <= global_version'
    <3>0. ~ LoseDisk
      <4>1. ASSUME LoseDisk PROVE tables'[i][k] = NoEntry
        BY <4>1, DiskLost DEF EmptyMap
      <4> QED BY Zenon, <2>1, <4>1
    <3>1. CASE tables'[i][k] = tables[i][k]
      <4>1. /\ WrittenBy(history, k, tables[i][k].src, tables[i][k].cv)
            /\ tables[i][k].cv <= global_version
        BY Zenon, <1>0, <2>1, <3>1 DEF TablesFrom
      <4>2. tables[i][k].cv \in Versions
        BY <2>1, <3>1 DEF TInv, TablesOK, Entry
      <4> QED BY Zenon, <1>1, <1>2, <1>3, <3>0, <3>1, <4>1, <4>2
    <3>2. CASE PutInsert /\ k \in commit.k /\ tables'[i][k] = ThisCommit
      <4>1. commit.pc # "idle"
        BY Zenon, <3>2 DEF PutInsert
      <4>2. /\ ThisCommit.src = Len(history) /\ ThisCommit.cv = global_version
            /\ commit.k \subseteq ItsKeys
        BY Zenon, <4>1, CommitFacts
      <4>3. WrittenBy(history, k, Len(history), global_version)
        BY Zenon, <1>4, <3>2, <4>1, <4>2
      <4>4. global_version <= global_version'
        BY Zenon, <3>0, VersionGrows
      <4> QED BY Zenon, <1>1, <3>2, <4>2, <4>3, <4>4
    <3>3. CASE /\ tables[i][k] # NoEntry
               /\ tables'[i][k] = [cv |-> global_version, src |-> tables[i][k].src]
      <4>1. /\ WrittenBy(history, k, tables[i][k].src, tables[i][k].cv)
            /\ tables[i][k].cv <= global_version
        BY Zenon, <1>0, <3>3 DEF TablesFrom
      <4>2. tables[i][k].src \in 1 .. Len(history)
        BY Zenon, <4>1 DEF WrittenBy
      <4>3. history[tables[i][k].src].v \in Nat
        <5>1. history[tables[i][k].src] \in [v : Versions, keys : SUBSET Keys]
          BY Zenon, <4>2, ElementOf DEF TInv, LogOK
        <5> QED BY <1>3, <5>1
      <4>4. tables[i][k].cv \in Nat /\ global_version \in Nat
        <5>1. tables[i][k].cv \in Versions
          BY Zenon, <3>3 DEF TInv, TablesOK, Entry
        <5> QED BY Zenon, <1>3, <5>1, VersionGrows
      <4>5. \A n \in Nat : n <= tables[i][k].cv => n <= global_version
        BY <4>1, <4>4
      <4>6. WrittenBy(history, k, tables[i][k].src, global_version)
        BY Zenon, <4>1, <4>3, <4>5 DEF WrittenBy
      <4>7. global_version <= global_version'
        BY Zenon, <3>0, VersionGrows
      <4>8. tables'[i][k].cv = global_version /\ tables'[i][k].src = tables[i][k].src
        BY <3>3
      <4> QED BY Zenon, <1>1, <4>6, <4>7, <4>8
    <3> QED BY Zenon, <2>1, <3>1, <3>2, <3>3, EntriesStep DEF EntryStep
  <2> QED BY Zenon, <2>1 DEF TablesFrom
<1>6. FlushFrom'
  <2>1. CASE /\ flush'.entries = flush.entries /\ flush'.last = flush.last
             /\ ~ LoseMemory
    <3>1. ~ LoseDisk
      BY Zenon, <2>1, DiskLost
    <3>2. /\ flush.entries \subseteq ChunkEntry /\ flush.last \in Nat
          /\ \A e \in ChunkEntry : e.cv \in Versions
      BY DEF TInv, TasksOK, ChunkEntry
    <3> QED BY Zenon, <1>0, <1>1, <1>2, <1>3, <2>1, <3>1, <3>2 DEF FlushFrom
  <2>2. CASE flush'.entries = {} /\ flush'.last = 0
    <3>1. 0 <= global_version'
      BY VersionGrows
    <3> QED BY Zenon, <2>2, <3>1 DEF FlushFrom
  <2>3. CASE /\ Encode /\ flush.pc = "encode" /\ tables[Table] # EmptyMap
             /\ flush'.entries = EntriesOf(tables[Table])
             /\ flush'.last = LastWalSeq(tables[Table])
    <3>1. UNCHANGED <<history, global_version>>
      BY <2>3 DEF Encode, redb_vars
    <3>2. Table \in TableIds
      BY Zenon, <2>3, TakenFacts
    <3>3. tables[Table] \in [Keys -> Entry \cup {NoEntry}]
      BY <3>2 DEF TInv, TablesOK
    <3>4. LastWalSeq(tables[Table]) <= global_version
      BY Zenon, <1>0, <2>3, <3>2, LastSpec
    <3>5. ASSUME NEW e \in EntriesOf(tables[Table])
          PROVE  WrittenBy(history, e.k, e.src, e.cv) /\ e.cv <= global_version
      <4>1. /\ e \in ChunkEntry /\ tables[Table][e.k] # NoEntry
            /\ e.cv = tables[Table][e.k].cv /\ e.src = tables[Table][e.k].src
        BY Zenon, <3>3, EntriesOfSpec
      <4>2. e.k \in Keys
        BY <4>1 DEF ChunkEntry
      <4> QED BY Zenon, <1>0, <3>2, <4>1, <4>2 DEF TablesFrom
    <3> QED BY Zenon, <2>3, <3>1, <3>4, <3>5 DEF FlushFrom
  <2> QED BY Zenon, <2>1, <2>2, <2>3, FlushData
<1>7. ChunksFrom'
  <2>1. \A e \in flush.entries : WrittenBy(history, e.k, e.src, e.cv)
    BY Zenon, <1>0 DEF FlushFrom
  <2> QED BY Zenon, <1>0, <1>1, <2>1, ObjectStep DEF ChunksFrom
<1>8. ScanFrom'
  <2>1. CASE UNCHANGED rebuild
    <3>1. CASE Serving
      BY Zenon, <1>0, <2>1, <3>1 DEF ScanFrom, Serving
    <3>2. CASE ~ Serving
      <4>1. UNCHANGED objects
        BY Zenon, <3>2, ObjectStep
      <4> QED BY Zenon, <1>0, <2>1, <4>1 DEF ScanFrom, Serving
    <3> QED BY Zenon, <3>1, <3>2
  <2>2. CASE rebuild'.scan = {}
    BY Zenon, <2>2 DEF ScanFrom
  <2>3. CASE ~ Serving /\ ~ Serving' /\ rebuild'.scan = rebuild.scan
    <3>1. UNCHANGED objects
      BY Zenon, <2>3, ObjectStep
    <3> QED BY Zenon, <1>0, <2>3, <3>1 DEF ScanFrom
  <2>4. CASE /\ ~ Serving /\ ~ Serving'
             /\ \E cs \in SUBSET ChunkIds : rebuild'.scan = EntriesIn(cs)
    <3>1. UNCHANGED objects
      BY Zenon, <2>4, ObjectStep
    <3>2. PICK cs \in SUBSET ChunkIds : rebuild'.scan = EntriesIn(cs)
      BY Zenon, <2>4
    <3>3. \A e \in EntriesIn(cs) :
            [k |-> e.k, cv |-> e.cv, src |-> e.src] \in objects[e.chunk]
      BY Zenon, EntriesInSpec DEF TInv
    <3> QED BY Zenon, <2>4, <3>1, <3>2, <3>3 DEF ScanFrom
  <2> QED BY Zenon, <2>1, <2>2, <2>3, <2>4, ScanStep
<1>9. \A e \in rebuild.scan : WrittenBy(history, e.k, e.src, e.cv)
  <2>1. ASSUME NEW e \in rebuild.scan PROVE WrittenBy(history, e.k, e.src, e.cv)
    <3> DEFINE x == [k |-> e.k, cv |-> e.cv, src |-> e.src]
    <3>1. x \in objects[e.chunk] /\ e.chunk \in ChunkIds
      <4>1. e.chunk \in ChunkIds
        BY DEF TInv, TasksOK, ScannedEntry
      <4> QED BY Zenon, <1>0, <4>1 DEF ScanFrom
    <3>2. x.k = e.k /\ x.cv = e.cv /\ x.src = e.src
      OBVIOUS
    <3> HIDE DEF x
    <3>3. WrittenBy(history, x.k, x.src, x.cv)
      BY Zenon, <1>0, <3>1 DEF ChunksFrom
    <3> QED BY Zenon, <3>2, <3>3
  <2> QED BY Zenon, <2>1
<1>10. RowsFrom'
  <2>1. ASSUME NEW k \in Keys, NEW v \in Versions, record_versions'[k][v] # NoRow
        PROVE  WrittenBy(history', k, record_versions'[k][v].src, v)
    <3> DEFINE row == record_versions[k][v]
               new == record_versions'[k][v]
    <3>1. CASE new = row
      BY Zenon, <1>0, <1>1, <2>1, <3>1 DEF RowsFrom
    <3>2. CASE /\ commit.pc = "hook" /\ k \in ItsKeys /\ v = global_version
               /\ new = [src |-> Len(history), chunk |-> Placeholder]
      <4>1. new.src = Len(history) /\ commit.pc # "idle"
        BY <3>2
      <4> QED BY Zenon, <1>1, <1>4, <3>2, <4>1
    <3>3. CASE row # NoRow /\ new = [src |-> row.src, chunk |-> flush.chunk]
      <4>1. new.src = row.src
        BY <3>3
      <4> QED BY Zenon, <1>0, <1>1, <3>3, <4>1 DEF RowsFrom
    <3>4. CASE \E e \in rebuild.scan :
                 e.k = k /\ e.cv = v /\ new = [src |-> e.src, chunk |-> e.chunk]
      <4>1. PICK e \in rebuild.scan :
              e.k = k /\ e.cv = v /\ new = [src |-> e.src, chunk |-> e.chunk]
        BY Zenon, <3>4
      <4>2. new.src = e.src
        BY <4>1
      <4> QED BY Zenon, <1>1, <1>9, <4>1, <4>2
    <3> QED BY Zenon, <2>1, <3>1, <3>2, <3>3, <3>4, RowsStep DEF RowStep
  <2>2. ASSUME NEW k \in Keys, record_index'[k] # NoRow
        PROVE  WrittenBy(history', k, record_index'[k].src, record_index'[k].cv)
    <3> DEFINE row == record_index[k]
               new == record_index'[k]
    <3>1. CASE new = row
      BY Zenon, <1>0, <1>1, <2>2, <3>1 DEF RowsFrom
    <3>2. CASE /\ commit.pc = "hook" /\ k \in ItsKeys
               /\ new = [cv |-> global_version, src |-> Len(history),
                         chunk |-> Placeholder]
      <4>1. new.src = Len(history) /\ new.cv = global_version /\ commit.pc # "idle"
        BY <3>2
      <4> QED BY Zenon, <1>1, <1>4, <3>2, <4>1
    <3>3. CASE /\ row # NoRow
               /\ new = [cv |-> row.cv, src |-> row.src, chunk |-> flush.chunk]
      <4>1. new.src = row.src /\ new.cv = row.cv
        BY <3>3
      <4> QED BY Zenon, <1>0, <1>1, <3>3, <4>1 DEF RowsFrom
    <3>4. CASE \E e \in rebuild.scan :
                 e.k = k /\ new = [cv |-> e.cv, src |-> e.src, chunk |-> e.chunk]
      <4>1. PICK e \in rebuild.scan :
              e.k = k /\ new = [cv |-> e.cv, src |-> e.src, chunk |-> e.chunk]
        BY Zenon, <3>4
      <4>2. new.src = e.src /\ new.cv = e.cv
        BY <4>1
      <4> QED BY Zenon, <1>1, <1>9, <4>1, <4>2
    <3> QED BY Zenon, <2>2, <3>1, <3>2, <3>3, <3>4, RowsStep DEF LatestRowStep
  <2> QED BY Zenon, <2>1, <2>2 DEF RowsFrom
<1> QED BY Zenon, <1>5, <1>6, <1>7, <1>8, <1>10 DEF Origins

-----------------------------------------------------------------------------
ChunkHit(k, c, s, e) ==
  \E x \in objects[c] :
    /\ x.k = k /\ x.cv <= s /\ e = [cv |-> x.cv, src |-> x.src]
    /\ \A f \in objects[c] : f.k = k /\ f.cv <= s => f.cv <= x.cv

(***************************************************************************)
(* read_from_chunk answers with the newest entry of the key up to the      *)
(* snapshot that is in the chunk.                                          *)
(***************************************************************************)
LEMMA ReadFromChunkSpec ==
  ASSUME TInv, NEW k \in Keys, NEW s \in Versions, NEW c,
         NEW e, e = ReadFromChunk(k, c, s), e # NoEntry
  PROVE  c \in chunk_index /\ ChunkHit(k, c, s, e)
<1> DEFINE hits == {x \in objects[c] : x.k = k /\ x.cv <= s}
<1>1. CASE c \in chunk_index /\ hits # {}
  <2>1. \A x \in hits : x.cv \in Versions
    BY <1>1 DEF TInv, StoreOK, ChunkEntry
  <2> DEFINE top == CHOOSE x \in hits : \A f \in hits : f.cv <= x.cv
  <2> HIDE DEF hits
  <2>2. top \in hits /\ \A f \in hits : f.cv <= top.cv
    <3>1. \E x \in hits : \A f \in hits : f.cv <= x.cv
      BY Zenon, <1>1, <2>1, NewestEntry
    <3> QED BY Zenon, <3>1
  <2>3. e = [cv |-> top.cv, src |-> top.src]
    BY <1>1 DEF ReadFromChunk, hits
  <2> HIDE DEF top
  <2> QED BY Zenon, <1>1, <2>2, <2>3 DEF hits, ChunkHit
<1>2. CASE ~ (c \in chunk_index /\ hits # {})
  BY Zenon, <1>2 DEF ReadFromChunk
<1> QED BY Zenon, <1>1, <1>2

(***************************************************************************)
(* The immutable a read finds the key in is one of those that wait, and    *)
(* the entry is visible.                                                   *)
(***************************************************************************)
LEMMA ReadImmutablesSpec ==
  ASSUME TInv, NEW k \in Keys, NEW s \in Versions,
         NEW e, e = ReadImmutables(k, s), e # NoEntry
  PROVE  \E i \in TableIds : e = tables[i][k] /\ e.cv <= s
<1> DEFINE hits == {n \in 1 .. Len(flushing) :
                      GetVisible(tables[flushing[n]], k, s) # NoEntry}
<1>0. flushing \in Seq(TableIds) /\ Len(flushing) \in Nat
  BY DEF TInv, TablesOK
<1>1. CASE hits # {}
  <2>1. hits \subseteq 0 .. Len(flushing)
    <3>1. hits \subseteq 1 .. Len(flushing)
      BY Zenon
    <3> HIDE DEF hits
    <3> QED BY Zenon, <1>0, <3>1, FromOne
  <2>2. \A n \in hits : /\ n \in 1 .. Len(flushing)
                        /\ GetVisible(tables[flushing[n]], k, s) # NoEntry
    BY ZenonT(60)
  <2>3. e = tables[flushing[Newest(hits)]][k]
    BY <1>1 DEF ReadImmutables
  <2> HIDE DEF hits
  <2>4. Newest(hits) \in hits
    BY Zenon, <1>0, <1>1, <2>1, NewestSpec
  <2>5. flushing[Newest(hits)] \in TableIds
    BY Zenon, <1>0, <2>2, <2>4, ElementOf
  <2>6. GetVisible(tables[flushing[Newest(hits)]], k, s) # NoEntry
    BY Zenon, <2>2, <2>4
  <2>7. e.cv <= s
    BY Zenon, <2>3, <2>6 DEF GetVisible, VisibleAt
  <2> QED BY Zenon, <2>3, <2>5, <2>7
<1>2. CASE hits = {}
  BY <1>2 DEF ReadImmutables
<1> QED BY Zenon, <1>1, <1>2

FoundAt(k, s, e) ==
  \/ \E i \in TableIds : e = tables[i][k] /\ e.cv <= s
  \/ \E v \in Versions :
       /\ v <= s /\ record_versions[k][v] # NoRow
       /\ e = [cv |-> v, src |-> record_versions[k][v].src]
  \/ /\ record_index[k] # NoRow /\ record_index[k].cv <= s
     /\ e = [cv |-> record_index[k].cv, src |-> record_index[k].src]
  \/ \E c \in ChunkIds : \E x \in objects[c] :
       x.k = k /\ x.cv <= s /\ e = [cv |-> x.cv, src |-> x.src]

(***************************************************************************)
(* Where read_at_snapshot finds its answer.                                *)
(***************************************************************************)
LEMMA ReadCases ==
  ASSUME TInv, NEW k \in Keys, NEW s \in Versions,
         NEW e, e = ReadAtSnapshot(k, s), e # NoEntry
  PROVE  FoundAt(k, s, e)
<1> USE DEF FoundAt
<1> DEFINE FromChunk == \E c \in ChunkIds : \E x \in objects[c] :
             x.k = k /\ x.cv <= s /\ e = [cv |-> x.cv, src |-> x.src]
<1>0. active \in TableIds /\ chunk_index \subseteq ChunkIds /\ MaxVersion \in Nat
  BY MemTablesAssumption DEF TInv, TablesOK, StoreOK
<1>1. \/ GetVisible(tables[active], k, s) # NoEntry /\ e = tables[active][k]
      \/ e = ReadImmutables(k, s)
      \/ RowsUpTo(k, s) # {} /\ e = ReadRows(k, s)
      \/ e = ReadLatestRow(k, s)
  BY DEF ReadAtSnapshot
<1>2. CASE GetVisible(tables[active], k, s) # NoEntry /\ e = tables[active][k]
  <2>1. e.cv <= s
    BY Zenon, <1>2 DEF GetVisible, VisibleAt
  <2> QED BY Zenon, <1>0, <1>2, <2>1
<1>3. CASE e = ReadImmutables(k, s)
  BY Zenon, <1>3, ReadImmutablesSpec
<1>4. ASSUME NEW c, e = ReadFromChunk(k, c, s) PROVE FromChunk
  <2>1. c \in chunk_index /\ ChunkHit(k, c, s, e)
    BY Zenon, <1>4, ReadFromChunkSpec
  <2> QED BY Zenon, <1>0, <2>1 DEF ChunkHit
<1> HIDE DEF FromChunk
<1>5. CASE RowsUpTo(k, s) # {} /\ e = ReadRows(k, s)
  <2> DEFINE vs == RowsUpTo(k, s)
             v == Newest(vs)
             row == record_versions[k][v]
  <2>1. \/ e = [cv |-> v, src |-> row.src]
        \/ e = ReadFromChunk(k, row.chunk, s)
    BY Zenon, <1>5 DEF ReadRows
  <2>2. \A w \in vs : w \in Versions /\ w <= s /\ record_versions[k][w] # NoRow
    BY Zenon DEF RowsUpTo
  <2> HIDE DEF vs
  <2>3. vs \subseteq 0 .. MaxVersion
    BY <2>2 DEF Versions
  <2>4. v \in vs
    BY Zenon, <1>0, <1>5, <2>3, NewestSpec DEF vs
  <2> HIDE DEF v
  <2>5. CASE e = [cv |-> v, src |-> row.src]
    BY Zenon, <2>2, <2>4, <2>5
  <2>6. CASE e = ReadFromChunk(k, row.chunk, s)
    BY Zenon, <1>4, <2>6 DEF FromChunk
  <2> QED BY Zenon, <2>1, <2>5, <2>6
<1>6. CASE e = ReadLatestRow(k, s)
  <2> DEFINE row == record_index[k]
  <2>1. /\ row # NoRow /\ ~ (row.cv > s)
        /\ \/ e = [cv |-> row.cv, src |-> row.src]
           \/ e = ReadFromChunk(k, row.chunk, s)
    BY Zenon, <1>6 DEF ReadLatestRow
  <2>2. row.cv <= s
    <3>1. row \in LatestRow
      BY Zenon, <2>1 DEF TInv, StoreOK
    <3> HIDE DEF row
    <3>2. row.cv \in Versions
      BY <3>1 DEF LatestRow
    <3>3. row.cv \in Nat /\ s \in Nat
      BY Zenon, <3>2, VersionsAreNat
    <3> QED BY Zenon, <2>1, <3>3, NotAbove
  <2>3. CASE e = ReadFromChunk(k, row.chunk, s)
    BY Zenon, <1>4, <2>3 DEF FromChunk
  <2> QED BY Zenon, <2>1, <2>2, <2>3
<1> QED BY Zenon, <1>1, <1>2, <1>3, <1>5, <1>6

(***************************************************************************)
(* What the invariant says of a read.                                      *)
(***************************************************************************)
LEMMA ReadsFollowOrigins ==
  ASSUME TInv, Origins
  PROVE  SnapshotNotExceeded
<1>0. TablesFrom /\ ChunksFrom /\ RowsFrom
  BY Zenon DEF Origins
<1>1. ASSUME NEW k \in Keys, NEW s \in Versions, NEW e,
             e = ReadAtSnapshot(k, s), e # NoEntry
      PROVE  WrittenBy(history, k, e.src, e.cv) /\ e.cv <= s
  <2>1. CASE \E i \in TableIds : e = tables[i][k] /\ e.cv <= s
    BY Zenon, <1>0, <1>1, <2>1 DEF TablesFrom
  <2>2. CASE \E v \in Versions :
               /\ v <= s /\ record_versions[k][v] # NoRow
               /\ e = [cv |-> v, src |-> record_versions[k][v].src]
    <3>1. PICK v \in Versions :
               /\ v <= s /\ record_versions[k][v] # NoRow
               /\ e = [cv |-> v, src |-> record_versions[k][v].src]
      BY Zenon, <2>2
    <3>2. e.cv = v /\ e.src = record_versions[k][v].src
      BY Zenon, <3>1, EntryParts
    <3> QED BY Zenon, <1>0, <3>1, <3>2 DEF RowsFrom
  <2>3. CASE /\ record_index[k] # NoRow /\ record_index[k].cv <= s
             /\ e = [cv |-> record_index[k].cv, src |-> record_index[k].src]
    <3>1. e.cv = record_index[k].cv /\ e.src = record_index[k].src
      BY Zenon, <2>3, EntryParts
    <3> QED BY Zenon, <1>0, <2>3, <3>1 DEF RowsFrom
  <2>4. CASE \E c \in ChunkIds : \E x \in objects[c] :
               x.k = k /\ x.cv <= s /\ e = [cv |-> x.cv, src |-> x.src]
    <3>1. PICK c \in ChunkIds : \E x \in objects[c] :
            x.k = k /\ x.cv <= s /\ e = [cv |-> x.cv, src |-> x.src]
      BY Zenon, <2>4
    <3>2. PICK x \in objects[c] :
            x.k = k /\ x.cv <= s /\ e = [cv |-> x.cv, src |-> x.src]
      BY Zenon, <3>1
    <3>3. e.cv = x.cv /\ e.src = x.src
      BY <3>2
    <3> QED BY Zenon, <1>0, <3>2, <3>3 DEF ChunksFrom
  <2>5. FoundAt(k, s, e)
    BY Zenon, <1>1, ReadCases
  <2> QED BY Zenon, <2>1, <2>2, <2>3, <2>4, <2>5 DEF FoundAt
<1>2. ASSUME NEW k \in Keys, NEW s \in Versions, NEW e,
             e = ReadAtSnapshot(k, s), e # NoEntry
      PROVE  k \in history[e.src].keys /\ history[e.src].v <= e.cv /\ e.cv <= s
  BY Zenon, <1>1, <1>2 DEF WrittenBy
<1> SUFFICES ASSUME NEW k \in Keys, NEW s \in Versions,
                    ReadAtSnapshot(k, s) # NoEntry
             PROVE  /\ k \in history[ReadAtSnapshot(k, s).src].keys
                    /\ history[ReadAtSnapshot(k, s).src].v <= ReadAtSnapshot(k, s).cv
                    /\ ReadAtSnapshot(k, s).cv <= s
  BY Zenon DEF SnapshotNotExceeded
<1> QED BY Zenon, <1>2

-----------------------------------------------------------------------------
(***************************************************************************)
(* While a commit is in progress no other one is logged, its log row stays *)
(* what it is and the counter stays at its version.                        *)
(***************************************************************************)
LEMMA CommitGoesOn ==
  ASSUME TInv, Next, commit'.pc # "idle",
         ~ \E keys \in SUBSET Keys \ {{}} : CommitLog(keys)
  PROVE  /\ commit.pc # "idle" /\ commit'.row = commit.row
         /\ UNCHANGED <<history, global_version>> /\ Serving
<1>0. commit \in CommitTypes
  BY DEF TInv, TasksOK, CommitTypes
<1>1. ~ LoseMemory
  <2>1. ASSUME LoseMemory PROVE commit'.pc = "idle"
    BY <2>1 DEF LoseMemory, NotCommitting
  <2> QED BY Zenon, <2>1
<1>2. commit.pc # "idle" /\ commit'.row = commit.row
  <2>1. CASE UNCHANGED commit \/ LogBegin \/ LogStage
    BY Zenon, <2>1 DEF LogBegin, LogStage
  <2>2. CASE CommitAppend \/ PutClone
    <3>1. /\ commit.pc # "idle"
          /\ \/ \E x : commit' = [commit EXCEPT !.pc = "put", !.todo = x]
             \/ \E x, y : commit' = [commit EXCEPT !.pc = "insert", !.k = x, !.table = y]
      BY Zenon, <2>2 DEF CommitAppend, PutClone
    <3> QED BY Zenon, <1>0, <3>1 DEF CommitTypes
  <2>3. CASE PutInsert \/ PutPush
    <3>1. /\ commit.pc # "idle"
          /\ \/ commit' = [commit EXCEPT !.pc = "push"]
             \/ commit' = [commit EXCEPT !.pc = "publish", !.table = 0]
      BY Zenon, <2>3 DEF PutInsert, PutPush
    <3> QED BY Zenon, <1>0, <3>1 DEF CommitTypes
  <2>4. CASE PutPublish
    <3>1. /\ commit.pc # "idle"
          /\ \E x, y : commit' = [commit EXCEPT !.pc = x, !.todo = y, !.k = {}]
      BY Zenon, <2>4 DEF PutPublish
    <3> QED BY <1>0, <3>1 DEF CommitTypes
  <2>5. CASE CommitHook \/ HookWarns
    <3>1. commit.pc # "idle" /\ \E k : HookDone(k)
      BY <2>5 DEF CommitHook, HookWarns
    <3>2. commit' = NotCommitting \/ \E x : commit' = [commit EXCEPT !.todo = x]
      BY Zenon, <3>1 DEF HookDone
    <3>3. commit' # NotCommitting
      BY DEF NotCommitting
    <3> QED BY Zenon, <1>0, <3>1, <3>2, <3>3 DEF CommitTypes
  <2> QED BY Zenon, <1>1, <2>1, <2>2, <2>3, <2>4, <2>5, Writers DEF CommitStep
<1>3. Serving
  BY Zenon, <1>2, CommitFacts
<1>4. ~ RebuildVersion
  BY <1>3 DEF RebuildVersion, Serving
<1>5. ~ LoseDisk
  BY Zenon, <1>1 DEF LoseDisk
<1> QED BY Zenon, <1>2, <1>3, <1>4, <1>5, Writers

(***************************************************************************)
(* The log is not cut as far as the commit in progress: a flush cuts it to *)
(* a version, and the versions lag behind the numbers of the log rows.     *)
(***************************************************************************)
LEMMA LogOrderStep ==
  ASSUME TInv, Origins, LogOrder, Next, ~ LoseDisk
  PROVE  LogOrder'
<1>0. /\ wal_cut <= global_version /\ global_version <= wal_last
      /\ open # {} => global_version < wal_last
      /\ commit.pc # "idle" => commit.row > global_version
      /\ \A c \in ChunkIds : \A e \in objects[c] : e.cv <= global_version
  BY Zenon DEF LogOrder
<1>2. /\ global_version \in Nat /\ global_version' \in Nat
      /\ wal_last \in Nat /\ wal_last' \in Nat /\ wal_cut \in Nat /\ wal_cut' \in Nat
  <2>1. /\ wal_last \in Nat /\ wal_last' \in Nat /\ wal_cut \in Nat
        /\ wal_cut' \in Nat
    BY Zenon, LogStep DEF TInv, LogOK
  <2> QED BY Zenon, <2>1, VersionGrows
<1>3. global_version <= global_version'
  BY Zenon, VersionGrows
<1>4. ASSUME RebuildVersion PROVE UNCHANGED global_version
  <2>1. ~ Serving
    BY Zenon, <1>4 DEF RebuildVersion, Serving
  <2>2. global_version = 0
    BY Zenon, <2>1 DEF TInv, RebuildOK
  <2>3. rebuild.scan = {}
    <3>1. ASSUME NEW e \in rebuild.scan PROVE FALSE
      <4>1. e \in ScannedEntry
        BY Zenon DEF TInv, TasksOK
      <4> DEFINE x == [k |-> e.k, cv |-> e.cv, src |-> e.src]
      <4>2. x \in objects[e.chunk] /\ e.chunk \in ChunkIds
        BY Zenon, <4>1 DEF Origins, ScanFrom, ScannedEntry
      <4>3. x.cv = e.cv /\ e.cv \in 1 .. MaxVersion
        BY Zenon, <4>1 DEF ScannedEntry, Versions
      <4> HIDE DEF x
      <4>4. x.cv <= global_version
        BY Zenon, <1>0, <4>2
      <4> QED BY <2>2, <4>3, <4>4, MemTablesAssumption
    <3> QED BY Zenon, <3>1
  <2> DEFINE vs == {0} \cup {e.cv : e \in rebuild.scan}
  <2>4. global_version' = Newest(vs)
    BY Zenon, <1>4 DEF RebuildVersion
  <2>5. vs = {0}
    BY Zenon, <2>3
  <2>6. vs \subseteq 0 .. 0 /\ vs # {} /\ 0 \in Nat
    BY <2>5
  <2> HIDE DEF vs
  <2>7. Newest(vs) \in vs
    BY Zenon, <2>6, NewestSpec
  <2> QED BY Zenon, <2>2, <2>4, <2>5, <2>7
<1>5. ASSUME NEW keys \in SUBSET Keys \ {{}}, CommitLog(keys)
      PROVE  global_version' < wal_last' /\ commit'.row = wal_last'
  <2>1. /\ global_version' = global_version + 1 /\ wal_last' = wal_last + 1
        /\ open # {}
        /\ commit' = [pc |-> "append", todo |-> {}, k |-> {}, table |-> 0,
                      row |-> wal_last']
    BY Zenon, <1>5, CommitLogSpec
  <2>2. commit'.row = wal_last'
    BY Zenon, <2>1
  <2>3. global_version' < wal_last'
    BY Zenon, <1>0, <1>2, <2>1, LogGrows
  <2> QED BY Zenon, <2>2, <2>3
<1>6. wal_cut' <= global_version'
  <2>1. CASE UNCHANGED wal_cut
    BY <1>0, <1>2, <1>3, <2>1
  <2>2. CASE TruncateWal
    <3>1. wal_cut' = CutAt(flush.last) /\ flush.last \in Nat
      BY <2>2 DEF TruncateWal, TInv, TasksOK
    <3>2. flush.last <= global_version
      BY Zenon DEF Origins, FlushFrom
    <3>3. CutAt(flush.last) <= global_version
      BY <1>0, <1>2, <3>1, <3>2 DEF CutAt
    <3> QED BY <1>2, <1>3, <3>1, <3>3
  <2> QED BY Zenon, <2>1, <2>2, Writers
<1>7. /\ global_version' <= wal_last'
      /\ open' # {} => global_version' < wal_last'
  <2>1. CASE \E keys \in SUBSET Keys \ {{}} : CommitLog(keys)
    BY <1>2, <1>5, <2>1
  <2>2. CASE UNCHANGED global_version /\ UNCHANGED wal_last
    <3>1. CASE UNCHANGED open \/ open' = {}
      BY Zenon, <1>0, <2>2, <3>1
    <3>2. CASE LogBegin \/ LogStage
      <4>1. wal_last' = wal_last + 1
        BY Zenon, <3>2 DEF LogBegin, LogStage
      <4> QED BY <1>2, <2>2, <4>1
    <3>3. ASSUME LoseMemory PROVE open' = {}
      BY Zenon, <3>3 DEF LoseMemory
    <3> QED BY Zenon, <2>1, <3>1, <3>2, <3>3, Writers
  <2>3. CASE /\ UNCHANGED global_version
             /\ wal_last' = wal_last + 1 \/ wal_last' = wal_last + 2
    <3>1. global_version' < wal_last'
      BY Zenon, <1>0, <1>2, <2>3, LogGrows
    <3> QED BY <1>2, <3>1
  <2>4. \/ UNCHANGED wal_last \/ wal_last' = wal_last + 1 \/ wal_last' = wal_last + 2
    <3>1. CASE LogBegin \/ LogStage \/ CommitAppend \/ LogFlushed \/ FlushFails
      BY Zenon, <3>1 DEF LogBegin, LogStage, CommitAppend, LogFlushed, FlushFails
    <3>2. CASE \E keys \in SUBSET Keys \ {{}} : CommitLog(keys)
      BY Zenon, <3>2, CommitLogSpec
    <3> QED BY Zenon, <3>1, <3>2, Writers
  <2> QED BY Zenon, <1>4, <2>1, <2>2, <2>3, <2>4, Writers
<1>8. ASSUME commit'.pc # "idle" PROVE commit'.row > global_version'
  <2>1. CASE \E keys \in SUBSET Keys \ {{}} : CommitLog(keys)
    BY <1>0, <1>2, <1>5, <2>1
  <2>2. CASE ~ \E keys \in SUBSET Keys \ {{}} : CommitLog(keys)
    <3>1. /\ commit.pc # "idle" /\ commit'.row = commit.row
          /\ UNCHANGED global_version
      BY Zenon, <1>8, <2>2, CommitGoesOn
    <3> QED BY Zenon, <1>0, <3>1
  <2> QED BY Zenon, <2>1, <2>2
<1>9. ASSUME NEW c \in ChunkIds, NEW e \in objects'[c]
      PROVE  e.cv <= global_version'
  <2>1. e.cv <= global_version
    <3>1. \A x \in flush.entries : x.cv <= global_version
      BY Zenon DEF Origins, FlushFrom
    <3> QED BY Zenon, <1>0, <3>1, ObjectStep
  <2>2. e.cv \in Nat
    BY StoreStep, MemTablesAssumption DEF StoreOK, ChunkEntry, Versions
  <2> QED BY <1>2, <1>3, <2>1, <2>2
<1> QED BY Zenon, <1>6, <1>7, <1>8, <1>9 DEF LogOrder

(***************************************************************************)
(* Nothing is taken out of mishaps, and the one step that breaks the order *)
(* is noted there.                                                         *)
(***************************************************************************)
LEMMA LogInvStep ==
  ASSUME TInv, Origins, LogInv, Next
  PROVE  LogInv'
<1>1. mishaps \subseteq mishaps'
  BY Zenon, Writers
<1>2. ASSUME Calm({"disk loss"})' PROVE "disk loss" \notin mishaps'
  BY Zenon, <1>2 DEF Calm
<1>3. ASSUME "disk loss" \notin mishaps PROVE Calm({"disk loss"})
  BY Zenon, <1>3 DEF Calm
<1>4. LoseDisk => "disk loss" \in mishaps'
  BY Zenon DEF LoseDisk
<1> QED BY Zenon, <1>1, <1>2, <1>3, <1>4, LogOrderStep DEF LogInv

-----------------------------------------------------------------------------
(***************************************************************************)
(* A commit is no longer anywhere, or it was somewhere before, or it has   *)
(* just begun.                                                             *)
(***************************************************************************)
LEMMA AliveStep ==
  ASSUME TInv, Origins, Next, NEW i \in Alive'
  PROVE  \/ i \in Alive
         \/ /\ \E keys \in SUBSET Keys \ {{}} : CommitLog(keys)
            /\ i = Len(history) + 1
<1>0. TablesFrom /\ FlushFrom /\ ChunksFrom
  BY Zenon DEF Origins
<1>1. ASSUME NEW t \in TableIds, NEW k \in Keys, tables[t][k] # NoEntry
      PROVE  tables[t][k].src \in Alive
  <2>1. tables[t][k].src \in 1 .. Len(history)
    BY Zenon, <1>0, <1>1 DEF TablesFrom, WrittenBy
  <2> QED BY Zenon, <1>1, <2>1 DEF Alive
<1>2. ASSUME NEW e \in flush.entries PROVE e.src \in Alive
  <2>1. e.src \in 1 .. Len(history)
    BY Zenon, <1>0 DEF FlushFrom, WrittenBy
  <2> QED BY Zenon, <2>1 DEF Alive
<1>3. ASSUME NEW c \in ChunkIds, NEW e \in objects[c] PROVE e.src \in Alive
  <2>1. e.src \in 1 .. Len(history)
    BY Zenon, <1>0 DEF ChunksFrom, WrittenBy
  <2> QED BY Zenon, <2>1 DEF Alive
<1>4. ASSUME commit.pc # "idle" PROVE Len(history) \in Alive
  <2>1. Len(history) \in 1 .. Len(history)
    BY Zenon, <1>4, CommitFacts
  <2> QED BY Zenon, <1>4, <2>1 DEF Alive
<1>5. ASSUME NEW t \in TableIds, NEW k \in Keys, tables'[t][k] # NoEntry
      PROVE  tables'[t][k].src \in Alive
  <2>1. CASE tables'[t][k] = tables[t][k]
    BY Zenon, <1>1, <1>5, <2>1
  <2>2. CASE PutInsert /\ tables'[t][k] = ThisCommit
    <3>1. commit.pc # "idle"
      BY Zenon, <2>2 DEF PutInsert
    <3>2. ThisCommit.src = Len(history)
      BY Zenon, <3>1, CommitFacts
    <3> QED BY Zenon, <1>4, <2>2, <3>1, <3>2
  <2>3. CASE /\ tables[t][k] # NoEntry
             /\ tables'[t][k] = [cv |-> global_version, src |-> tables[t][k].src]
    <3>1. tables'[t][k].src = tables[t][k].src
      BY <2>3
    <3> QED BY Zenon, <1>1, <2>3, <3>1
  <2> QED BY Zenon, <1>5, <2>1, <2>2, <2>3, EntriesStep DEF EntryStep
<1>6. ASSUME NEW e \in flush'.entries PROVE e.src \in Alive
  <2>1. CASE flush'.entries = flush.entries \/ flush'.entries = {}
    BY Zenon, <1>2, <1>6, <2>1
  <2>2. CASE flush.pc = "encode" /\ flush'.entries = EntriesOf(tables[Table])
    <3>0. flush.pc # "idle"
      BY <2>2
    <3>1. Table \in TableIds
      BY Zenon, <3>0, TakenFacts
    <3>2. tables[Table] \in [Keys -> Entry \cup {NoEntry}]
      BY <3>1 DEF TInv, TablesOK
    <3>3. /\ e \in ChunkEntry /\ tables[Table][e.k] # NoEntry
          /\ e.src = tables[Table][e.k].src
      BY Zenon, <1>6, <2>2, <3>2, EntriesOfSpec
    <3>4. e.k \in Keys
      BY <3>3 DEF ChunkEntry
    <3> QED BY Zenon, <1>1, <3>1, <3>3, <3>4
  <2> QED BY Zenon, <2>1, <2>2, FlushData
<1>7. ASSUME NEW c \in ChunkIds, NEW e \in objects'[c] PROVE e.src \in Alive
  BY Zenon, <1>2, <1>3, <1>7, ObjectStep
<1>8. ASSUME commit'.pc # "idle", i = Len(history')
      PROVE  \/ i \in Alive
             \/ /\ \E keys \in SUBSET Keys \ {{}} : CommitLog(keys)
                /\ i = Len(history) + 1
  <2>1. CASE \E keys \in SUBSET Keys \ {{}} : CommitLog(keys)
    <3>1. Len(history') = Len(history) + 1
      BY Zenon, <2>1, CommitLogSpec
    <3> QED BY Zenon, <1>8, <2>1, <3>1
  <2>2. CASE ~ \E keys \in SUBSET Keys \ {{}} : CommitLog(keys)
    <3>1. commit.pc # "idle" /\ UNCHANGED history
      BY Zenon, <1>8, <2>2, CommitGoesOn
    <3> QED BY Zenon, <1>4, <1>8, <3>1
  <2> QED BY Zenon, <2>1, <2>2
<1>9. \/ \E t \in TableIds, k \in Keys :
           tables'[t][k] # NoEntry /\ tables'[t][k].src = i
      \/ \E e \in flush'.entries : e.src = i
      \/ \E c \in ChunkIds : \E e \in objects'[c] : e.src = i
      \/ commit'.pc # "idle" /\ i = Len(history')
  BY Zenon DEF Alive
<1> QED BY Zenon, <1>5, <1>6, <1>7, <1>8, <1>9

(***************************************************************************)
(* The versions of the commits whose entries are still somewhere stay      *)
(* distinct: while requests are served the counter is at or above them,    *)
(* and a rebuild that could read every chunk puts it there again.          *)
(***************************************************************************)
LEMMA AliveApartStep ==
  ASSUME TInv, Origins, AliveApart, Next, ~ Fault
  PROVE  AliveApart'
<1>0. /\ \A i, j \in Alive : history[i].v = history[j].v => i = j
      /\ Serving => \A c \in ChunkIds : \A e \in objects[c] : e.cv <= global_version
      /\ rebuild.pc \in {"index", "rows", "chains", "version"} =>
           rebuild.scan = EntriesIn(Chunks)
  BY Zenon DEF AliveApart
<1>2. global_version \in Nat /\ global_version' \in Nat
  BY Zenon, VersionGrows
<1>3. \A i \in Alive : i \in 1 .. Len(history)
  BY Zenon DEF Alive
<1>4. \A i \in 1 .. Len(history) : history'[i] = history[i]
  BY Zenon, HistoryGrows
<1>5. \A i, j \in Alive' : history'[i].v = history'[j].v => i = j
  <2>1. CASE ~ \E keys \in SUBSET Keys \ {{}} : CommitLog(keys)
    <3>1. \A i \in Alive' : i \in Alive
      BY Zenon, <2>1, AliveStep
    <3> QED BY Zenon, <1>0, <1>3, <1>4, <3>1
  <2>2. CASE \E keys \in SUBSET Keys \ {{}} : CommitLog(keys)
    <3> DEFINE n == Len(history) + 1
    <3> HIDE DEF n
    <3>1. Serving /\ commit.pc = "idle" /\ history'[n].v = global_version + 1
      <4>1. PICK keys \in SUBSET Keys \ {{}} : CommitLog(keys)
        BY Zenon, <2>2
      <4>2. /\ Serving /\ commit.pc = "idle"
            /\ history'[n] = [v |-> global_version + 1, keys |-> keys]
        BY Zenon, <4>1, CommitLogSpec DEF n
      <4> QED BY <4>2
    <3>2. ASSUME NEW i \in Alive PROVE history[i].v # global_version + 1
      <4>1. \E k, v : WrittenBy(history, k, i, v) /\ v \in Nat /\ v <= global_version
        <5>1. \A e \in Entry : e.cv \in Nat
          BY MemTablesAssumption DEF Entry, Versions
        <5>2. \A e \in ChunkEntry : e.cv \in Nat
          BY MemTablesAssumption DEF ChunkEntry, Versions
        <5>3. CASE \E t \in TableIds, k \in Keys :
                     tables[t][k] # NoEntry /\ tables[t][k].src = i
          <6>1. PICK t \in TableIds, k \in Keys :
                     tables[t][k] # NoEntry /\ tables[t][k].src = i
            BY Zenon, <5>3
          <6>2. tables[t][k] \in Entry
            BY Zenon, <6>1 DEF TInv, TablesOK
          <6>3. /\ WrittenBy(history, k, tables[t][k].src, tables[t][k].cv)
                /\ tables[t][k].cv <= global_version
            BY Zenon, <6>1 DEF Origins, TablesFrom
          <6> QED BY Zenon, <5>1, <6>1, <6>2, <6>3
        <5>4. CASE \E e \in flush.entries : e.src = i
          <6>1. PICK e \in flush.entries : e.src = i
            BY Zenon, <5>4
          <6>2. e \in ChunkEntry
            BY Zenon DEF TInv, TasksOK
          <6>3. WrittenBy(history, e.k, e.src, e.cv) /\ e.cv <= global_version
            BY Zenon DEF Origins, FlushFrom
          <6> QED BY Zenon, <5>2, <6>1, <6>2, <6>3
        <5>5. CASE \E c \in ChunkIds : \E e \in objects[c] : e.src = i
          <6>1. PICK c \in ChunkIds : \E e \in objects[c] : e.src = i
            BY Zenon, <5>5
          <6>2. PICK e \in objects[c] : e.src = i
            BY Zenon, <6>1
          <6>3. e \in ChunkEntry
            BY Zenon DEF TInv, StoreOK
          <6>4. WrittenBy(history, e.k, e.src, e.cv) /\ e.cv <= global_version
            BY Zenon, <1>0, <3>1 DEF Origins, ChunksFrom
          <6> QED BY Zenon, <5>2, <6>2, <6>3, <6>4
        <5> QED BY Zenon, <3>1, <5>3, <5>4, <5>5 DEF Alive
      <4>2. history[i] \in [v : Versions, keys : SUBSET Keys]
        BY Zenon, <1>3, ElementOf DEF TInv, LogOK
      <4>3. history[i].v \in Nat
        BY <4>2, MemTablesAssumption DEF Versions
      <4>4. PICK k, v : WrittenBy(history, k, i, v) /\ v \in Nat /\ v <= global_version
        BY Zenon, <4>1
      <4>5. history[i].v <= v
        BY Zenon, <4>4 DEF WrittenBy
      <4> QED BY <1>2, <4>3, <4>4, <4>5
    <3>3. \A i \in Alive' : i \in Alive \/ i = n
      BY Zenon, AliveStep DEF n
    <3>4. \A i \in Alive : history'[i].v = history[i].v /\ history'[i].v # history'[n].v
      BY Zenon, <1>3, <1>4, <3>1, <3>2
    <3> QED BY Zenon, <1>0, <3>3, <3>4
  <2> QED BY Zenon, <2>1, <2>2
<1>6. ASSUME Serving', NEW c \in ChunkIds, NEW e \in objects'[c]
      PROVE  e.cv <= global_version'
  <2>1. e \in ChunkEntry
    BY Zenon, StoreStep DEF StoreOK
  <2>2. e.cv \in Nat /\ e.cv \in Versions
    BY <2>1, MemTablesAssumption DEF ChunkEntry, Versions
  <2>3. CASE Serving
    <3>1. e.cv <= global_version
      <4>1. \A x \in flush.entries : x.cv <= global_version
        BY Zenon DEF Origins, FlushFrom
      <4> QED BY Zenon, <1>0, <1>6, <2>3, <4>1, ObjectStep
    <3>2. ~ LoseDisk
      <4>1. ASSUME LoseDisk PROVE rebuild'.pc = "scan"
        BY Zenon, <4>1 DEF LoseDisk, NotRebuilding
      <4> QED BY Zenon, <1>6, <4>1 DEF Serving
    <3> QED BY Zenon, <2>2, <3>1, <3>2, VersionGrows
  <2>4. CASE ~ Serving
    <3>1. UNCHANGED objects
      BY Zenon, <2>4, ObjectStep
    <3>2. RebuildVersion
      <4>1. rebuild'.pc = "off" /\ ~ UNCHANGED rebuild
        BY Zenon, <1>6, <2>4 DEF Serving
      <4>2. rebuild'.pc # "index"
        BY Zenon, <4>1
      <4> QED BY Zenon, <1>6, <2>4, <4>1, <4>2, ScanStep
    <3>3. rebuild.pc = "version"
      BY Zenon, <3>2 DEF RebuildVersion
    <3>4. rebuild.scan = EntriesIn(Chunks)
      BY Zenon, <1>0, <3>3
    <3> DEFINE vs == {0} \cup {x.cv : x \in rebuild.scan}
               x == [k |-> e.k, cv |-> e.cv, src |-> e.src, chunk |-> c]
    <3>5. global_version' = Newest(vs)
      BY Zenon, <3>2 DEF RebuildVersion
    <3>6. x \in rebuild.scan
      <4>1. c \in Chunks /\ e \in objects[c] /\ Chunks \in SUBSET ChunkIds
        BY Zenon, <3>1, <1>6 DEF Chunks
      <4> QED BY Zenon, <3>4, <4>1, EntriesInSpec DEF TInv
    <3>7. x.cv = e.cv
      BY Zenon
    <3> HIDE DEF x
    <3>8. e.cv \in vs
      BY Zenon, <3>6, <3>7
    <3>9. vs \subseteq 0 .. MaxVersion /\ vs # {} /\ MaxVersion \in Nat
      <4>1. \A y \in rebuild.scan : y.cv \in 0 .. MaxVersion
        BY MemTablesAssumption DEF TInv, TasksOK, ScannedEntry, Versions
      <4> QED BY <4>1, MemTablesAssumption
    <3> HIDE DEF vs
    <3>10. \A w \in vs : w <= Newest(vs)
      BY Zenon, <3>9, NewestSpec
    <3> QED BY Zenon, <3>5, <3>8, <3>10
  <2> QED BY Zenon, <2>3, <2>4
<1>7. ASSUME rebuild'.pc \in {"index", "rows", "chains", "version"}
      PROVE  rebuild'.scan = EntriesIn(Chunks)'
  <2>1. UNCHANGED objects => EntriesIn(Chunks)' = EntriesIn(Chunks)
    BY DEF EntriesIn, Chunks
  <2>2. CASE UNCHANGED rebuild
    <3>1. ~ Serving
      BY Zenon, <1>7, <2>2 DEF Serving
    <3>2. UNCHANGED objects
      BY Zenon, <3>1, ObjectStep
    <3> QED BY Zenon, <1>0, <1>7, <2>1, <2>2, <3>2
  <2>3. CASE ~ Serving /\ rebuild'.scan = rebuild.scan /\ ScanMoves
    <3>1. rebuild.pc \in {"index", "rows", "chains", "version"}
      BY Zenon, <2>3 DEF ScanMoves
    <3>2. UNCHANGED objects
      BY Zenon, <2>3, ObjectStep
    <3> QED BY Zenon, <1>0, <2>1, <2>3, <3>1, <3>2
  <2>4. CASE ~ Serving /\ rebuild'.scan = EntriesIn(Chunks)
    <3>1. UNCHANGED objects
      BY Zenon, <2>4, ObjectStep
    <3> QED BY Zenon, <2>1, <2>4, <3>1
  <2>5. ~ (rebuild'.pc \in {"off", "scan"})
    BY Zenon, <1>7
  <2> QED BY Zenon, <2>2, <2>3, <2>4, <2>5, ScanStep
<1> QED BY Zenon, <1>5, <1>6, <1>7 DEF AliveApart

(***************************************************************************)
(* Nothing is taken out of mishaps, and a chunk a rebuild could not read   *)
(* is noted there.                                                         *)
(***************************************************************************)
LEMMA ReuseStep ==
  ASSUME TInv, Origins, ReuseInv, Next
  PROVE  ReuseInv'
<1>1. mishaps \subseteq mishaps'
  BY Zenon, Writers
<1>2. ASSUME Calm({"failed call"})' PROVE "failed call" \notin mishaps'
  BY Zenon, <1>2 DEF Calm
<1>3. ASSUME "failed call" \notin mishaps PROVE Calm({"failed call"})
  BY Zenon, <1>3 DEF Calm
<1>4. Fault => "failed call" \in mishaps'
  BY Zenon DEF Fault
<1> QED BY ZenonT(60), <1>1, <1>2, <1>3, <1>4, AliveApartStep DEF ReuseInv

-----------------------------------------------------------------------------
(***************************************************************************)
(* A server that starts on empty disks has nothing in S3, cut no log and   *)
(* runs no commit.                                                         *)
(***************************************************************************)
LEMMA InitLog ==
  ASSUME Init
  PROVE  LogInv /\ ReuseInv
<1>1. objects = [c \in ChunkIds |-> {}] /\ global_version = 0
  BY Zenon DEF Init, ChunkStoreInit
<1>2. /\ wal_last = 0 /\ wal_cut = 0 /\ open = {} /\ history = <<>>
      /\ commit.pc = "idle" /\ rebuild.pc = "off"
  BY DEF Init, NotCommitting, NotRebuilding
<1>3. \A c \in ChunkIds : objects[c] = {}
  BY <1>1
<1>4. 0 <= 0
  OBVIOUS
<1>5. LogOrder
  BY Zenon, <1>1, <1>2, <1>3, <1>4 DEF LogOrder
<1>6. ASSUME NEW i \in Alive PROVE FALSE
  <2>1. i \in 1 .. Len(history)
    BY Zenon DEF Alive
  <2> QED BY <1>2, <2>1
<1>7. ~ (rebuild.pc \in {"index", "rows", "chains", "version"})
  BY <1>2
<1>8. AliveApart
  BY Zenon, <1>3, <1>6, <1>7 DEF AliveApart
<1> QED BY Zenon, <1>5, <1>8 DEF LogInv, ReuseInv

(***************************************************************************)
(* A step that changes nothing keeps each of the invariants.               *)
(***************************************************************************)
LEMMA Unchanged ==
  ASSUME UNCHANGED vars
  PROVE  /\ (TInv => TInv') /\ (Origins => Origins')
         /\ (LogInv => LogInv') /\ (ReuseInv => ReuseInv')
<1>1. /\ UNCHANGED <<tables, active, flushing, objects, chunk_index>>
      /\ UNCHANGED <<record_index, record_versions, global_version>>
      /\ UNCHANGED <<commit, flush, rebuild, wal_last, wal_cut, open>>
      /\ UNCHANGED <<minted, history, mishaps>>
  BY Zenon DEF vars, table_vars, redb_vars, row_vars, log_vars, past_vars
<1>2. /\ (TablesOK => TablesOK') /\ (StoreOK => StoreOK')
      /\ (LogOK => LogOK') /\ (TasksOK => TasksOK')
  BY Zenon, <1>1 DEF TablesOK, StoreOK, LogOK, TasksOK
<1>3. Serving' = Serving /\ ThisCommit' = ThisCommit /\ ItsKeys' = ItsKeys
      /\ Table' = Table
  BY Zenon, <1>1 DEF Serving, ThisCommit, ItsKeys, Table
<1>4. /\ (CommitOK => CommitOK') /\ (FlushOK => FlushOK') /\ (RebuildOK => RebuildOK')
  BY Zenon, <1>1, <1>3 DEF CommitOK, FlushOK, RebuildOK
<1>5. /\ (TablesFrom => TablesFrom') /\ (FlushFrom => FlushFrom')
      /\ (ChunksFrom => ChunksFrom') /\ (ScanFrom => ScanFrom')
      /\ (RowsFrom => RowsFrom')
  BY Zenon, <1>1, <1>3 DEF TablesFrom, FlushFrom, ChunksFrom, ScanFrom, RowsFrom
<1>6. Calm({"disk loss"})' = Calm({"disk loss"})
      /\ Calm({"failed call"})' = Calm({"failed call"})
  BY Zenon, <1>1 DEF Calm
<1>7. LogOrder => LogOrder'
  BY Zenon, <1>1 DEF LogOrder
<1>8. Alive' = Alive /\ EntriesIn(Chunks)' = EntriesIn(Chunks)
  <2>1. Alive' = Alive
    BY Zenon, <1>1 DEF Alive
  <2>2. UNCHANGED objects
    BY Zenon, <1>1
  <2>3. EntriesIn(Chunks)' = EntriesIn(Chunks)
    BY <2>2 DEF EntriesIn, Chunks
  <2> QED BY Zenon, <2>1, <2>3
<1>9. AliveApart => AliveApart'
  BY Zenon, <1>1, <1>3, <1>8 DEF AliveApart
<1>10. TInv => TInv'
  <2>1. Numbers => Numbers'
    BY Zenon DEF Numbers
  <2> QED BY Zenon, <1>2, <1>4, <2>1 DEF TInv
<1>11. Origins => Origins'
  BY Zenon, <1>5 DEF Origins
<1> QED BY Zenon, <1>6, <1>7, <1>9, <1>10, <1>11 DEF LogInv, ReuseInv

-----------------------------------------------------------------------------
(* From here on the theorems of the library are in use.                    *)
LOCAL INSTANCE WellFoundedInduction

(***************************************************************************)
(* A set of natural numbers that is not empty has a smallest member.       *)
(***************************************************************************)
LEMMA SmallestOf ==
  ASSUME NEW T, T \subseteq Nat, T # {}
  PROVE  \E x \in T : \A y \in T : x <= y
<1> DEFINE R == OpToRel(<, Nat)
<1>1. IsWellFoundedOn(R, Nat)
  BY Zenon, NatLessThanWellFounded
<1> HIDE DEF R
<1>2. PICK x \in T : \A y \in T : ~ (<<y, x>> \in R)
  BY Zenon, <1>1, WFMin
<1>3. ASSUME NEW y \in T PROVE x <= y
  <2>1. <<y, x>> \in Nat \X Nat /\ ~ (<<y, x>> \in R)
    BY Zenon, <1>2
  <2> QED BY <2>1 DEF R, OpToRel
<1> QED BY <1>3

(***************************************************************************)
(* What the lemmas above assume of numbers.                                *)
(***************************************************************************)
LEMMA NumbersHold == Numbers
BY Zenon, SmallestOf DEF Numbers

(***************************************************************************)
(* Whatever the commits, the flush loop, a rebuild, a crash, a failing     *)
(* call or a lost disk do, and in whatever order, the state keeps its      *)
(* types and every entry comes from a commit that wrote its key.           *)
(***************************************************************************)
THEOREM StoreInvariant == Spec => [](TInv /\ Origins)
<1>1. Init => TInv /\ Origins
  BY Zenon, InitTypes, NumbersHold
<1>2. TInv /\ Origins /\ [Next]_vars => (TInv /\ Origins)'
  BY Zenon, TypesStep, OriginsStep, Unchanged
<1> QED BY <1>1, <1>2, PTL DEF Spec

(***************************************************************************)
(* read_at_snapshot (memtable.rs, the immutables, then the chunk a row     *)
(* names) never answers with a version above the snapshot, nor with a body *)
(* that no commit at or below that version wrote for the key.              *)
(***************************************************************************)
THEOREM SnapshotHolds == Spec => []SnapshotNotExceeded
<1>1. TInv /\ Origins => SnapshotNotExceeded
  BY Zenon, ReadsFollowOrigins
<1> QED BY <1>1, StoreInvariant, PTL

(***************************************************************************)
(* The flush loop never cuts the Committing row of the commit in progress, *)
(* while no disk has been lost (flush.rs truncates the log to a version).  *)
(* Nothing is said of the Begin and Stage rows before it, which it can cut. *)
(***************************************************************************)
THEOREM LogHolds == Spec => []CommittingRowInLog
<1>1. Init => LogInv
  BY Zenon, InitLog
<1>2. TInv /\ Origins /\ LogInv /\ [Next]_vars => LogInv'
  BY Zenon, LogInvStep, Unchanged
<1>3. TInv /\ LogInv => CommittingRowInLog
  <2>1. ASSUME TInv, LogOrder, commit.pc # "idle" PROVE commit.row > wal_cut
    <3>1. /\ wal_cut \in Nat /\ global_version \in Nat /\ commit.row \in Nat
      BY <2>1, ChunkStoreAssumption, MemTablesAssumption
         DEF TInv, LogOK, StoreOK, TasksOK
    <3>2. wal_cut <= global_version /\ commit.row > global_version
      BY Zenon, <2>1 DEF LogOrder
    <3> QED BY Zenon, <3>1, <3>2, Below
  <2> QED BY Zenon, <2>1 DEF LogInv, CommittingRowInLog
<1> QED BY <1>1, <1>2, <1>3, StoreInvariant, PTL DEF Spec

(***************************************************************************)
(* Two commits whose entries are both in S3 had different versions, while  *)
(* no call failed: the counter a rebuild restores (rebuild.rs) is not      *)
(* below any version the chunks hold, so no later commit takes one again.  *)
(***************************************************************************)
THEOREM ReuseHolds == Spec => []VersionsNotReused
<1>1. Init => ReuseInv
  BY Zenon, InitLog
<1>2. TInv /\ Origins /\ ReuseInv /\ [Next]_vars => ReuseInv'
  BY Zenon, ReuseStep, Unchanged
<1>3. Origins /\ ReuseInv => VersionsNotReused
  <2>1. ASSUME Origins, NEW c \in ChunkIds, NEW e \in objects[c]
        PROVE  e.src \in Alive
    <3>1. e.src \in 1 .. Len(history)
      BY Zenon, <2>1 DEF Origins, ChunksFrom, WrittenBy
    <3> QED BY Zenon, <3>1 DEF Alive
  <2> QED BY Zenon, <2>1 DEF ReuseInv, AliveApart, VersionsNotReused
<1> QED BY <1>1, <1>2, <1>3, StoreInvariant, PTL DEF Spec
=============================================================================
