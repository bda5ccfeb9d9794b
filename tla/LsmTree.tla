------------------------------ MODULE LsmTree -------------------------------
(***************************************************************************)
(* Commits, the flush loop, crashes and the cold rebuild together, and     *)
(* what a reader of the records may rely on.                               *)
(***************************************************************************)
EXTENDS ColdRebuild

vars == <<table_vars, objects, redb_vars, commit, flush, rebuild, log_vars,
          past_vars, fate_vars>>

Init ==
  /\ FreshTables /\ ChunkStoreInit
  /\ commit = NotCommitting /\ flush = NotFlushing /\ rebuild = NotRebuilding
  /\ wal_last = 0 /\ wal_cut = 0 /\ open = {}
  /\ minted = 0 /\ faults = 0 /\ history = <<>> /\ mishaps = {}
  /\ crashes = 0 /\ losses = 0

CommitStep ==
  \/ LogBegin \/ LogStage
  \/ \E keys \in SUBSET Keys \ {{}} : CommitLog(keys)
  \/ CommitAppend \/ PutClone \/ PutInsert \/ PutPush \/ PutPublish
  \/ CommitHook \/ HookWarns

FlushStep ==
  \/ TickRotate \/ TickPush \/ TakeImmutables \/ Encode \/ UploadChunk
  \/ PutChunkIndex \/ PointRow \/ LogFlushed \/ TruncateWal
  \/ FlushFails \/ FlushWarns

RebuildStep ==
  \/ RebuildScan \/ RebuildSkips \/ RebuildChunkIndex \/ RebuildRows
  \/ RebuildChains \/ RebuildVersion \/ StartAgain

Next ==
  \/ (CommitStep \/ FlushStep) /\ UNCHANGED fate_vars
  \/ RebuildStep \/ Crash \/ LoseDisk

(* The flush loop runs for as long as the process does, ticks every second *)
(* and waits for nothing but S3; a commit and the start of the server go   *)
(* on as long as the process lives.  That a call to S3 returns, or fails,  *)
(* is assumed: BackendClient keeps request_timeout and never applies it.   *)
Fairness ==
  /\ WF_vars(FlushStep /\ UNCHANGED fate_vars)
  /\ WF_vars((CommitAppend \/ PutClone \/ PutInsert \/ PutPush \/ PutPublish
              \/ CommitHook) /\ UNCHANGED fate_vars)
  /\ WF_vars(RebuildStep)

Spec == Init /\ [][Next]_vars /\ Fairness

-----------------------------------------------------------------------------
Calm(kinds) == mishaps \cap kinds = {}

Settled(k) == {v \in Versions : record_versions[k][v] # NoRow}

(* A snapshot reads no version above it, and the body it reads was written *)
(* to that key by a commit that is not newer than the version it is read   *)
(* for: publish only moves versions up, wherever the read finds the entry. *)
SnapshotNotExceeded ==
  \A k \in Keys, s \in Versions :
    LET e == ReadAtSnapshot(k, s)
    IN  e # NoEntry => /\ k \in history[e.src].keys
                       /\ history[e.src].v <= e.cv /\ e.cv <= s

(* At rest, with the commits hooked and the immutables flushed, the newest *)
(* snapshot reads exactly the newest commit of the key, body and version:  *)
(* what publish does to entries of older immutables (memtable.rs:346) is   *)
(* gone from the newest snapshot once the younger table is flushed.        *)
NewestExactAtRest ==
  ( /\ Serving /\ commit = NotCommitting /\ flush = NotFlushing
    /\ flushing = <<>> /\ mishaps = {} )
  => \A k \in Keys :
       LET writers == {i \in 1 .. Len(history) : k \in history[i].keys}
           e == ReadAtSnapshot(k, global_version)
       IN  IF writers = {} THEN e = NoEntry
           ELSE e = [cv |-> history[Newest(writers)].v, src |-> Newest(writers)]

(* The chunk a row points to holds the key, at the version of the row.     *)
PointersResolve ==
  Calm({"late put"}) =>
    \A k \in Keys, v \in Versions :
      LET row == record_versions[k][v]
      IN  row # NoRow /\ row.chunk \in chunk_index =>
            \E e \in objects[row.chunk] : e.k = k /\ e.cv = v

(* No two commits that reached S3 have one version: the counter a rebuild  *)
(* sets is above every chunk it could read.                                *)
VersionsNotReused ==
  Calm({"failed call"}) =>
    \A c, d \in ChunkIds : \A e \in objects[c], f \in objects[d] :
      history[e.src].v = history[f.src].v => e.src = f.src

(* The Committing row of a commit in progress, by which recovery knows its *)
(* keys, is not cut (flush.rs:229), although the cut is a commit version   *)
(* and not a number of the log.  The numbers of a log begun after a lost   *)
(* disk lag behind the versions; there it can be cut.                      *)
CommittingRowInLog ==
  Calm({"disk loss"}) /\ commit.pc # "idle" => commit.row > wal_cut

(* A server that has rebuilt its tables answers every snapshot with the   *)
(* newest version up to it of those that are in S3.                        *)
RebuildRestoresReads ==
  [][ rebuild.pc = "version" /\ Serving' /\ Calm({"failed call"}) =>
        \A k \in Keys, s \in Versions :
          LET vs == {e.cv : e \in {x \in EntriesIn(Chunks) : x.k = k /\ x.cv <= s}}
              r  == ReadAtSnapshot(k, s)'
          IN  IF vs = {} THEN r = NoEntry ELSE r # NoEntry /\ r.cv = Newest(vs)
    ]_vars

(* A version that has its row is in S3 in the end, or a newer one is.      *)
ReachesS3 ==
  \A k \in Keys, v \in Versions :
    (v \in Settled(k)) ~>
       \/ \E c \in ChunkIds : \E e \in objects[c] : e.k = k /\ e.cv >= v
       \/ ~Calm({"late put", "crash", "disk loss"})

-----------------------------------------------------------------------------
(* The storage implements RecordReads.                                     *)

Underway(k) ==
  IF /\ commit.pc \notin {"idle", "append"} /\ k \in ItsKeys
     /\ ThisCommit.cv \notin Settled(k)
  THEN ThisCommit.cv ELSE 0

Reads == INSTANCE RecordReads WITH
  settled  <- [k \in Keys |-> Newest(Settled(k) \cup {0})],
  underway <- [k \in Keys |-> Underway(k)],
  hidden   <- commit.pc = "push" \/ flush.pc = "push",
  answer   <- [k \in Keys |-> LET e == ReadAtSnapshot(k, global_version)
                              IN  IF e = NoEntry THEN 0 ELSE e.cv],
  impaired <- ~Calm({"failed call", "late put", "late push", "disk loss"})

(* Reads of the newest snapshot go from one version to the next, waver     *)
(* only while the hook has yet to write the row, and survive crashes.      *)
ImplementsRecordReads == Reads!Spec

-----------------------------------------------------------------------------
(* Three statements of the repository that do not hold.                    *)

(* "A transaction left before commit is aborted" (README.md:222): an open  *)
(* transaction has a row in the log, without which recovery ignores it.    *)
OpenInLog == \A o \in open : o.row > wal_cut

(* "The index pointer is version-specific after flush, so an older flush   *)
(* cannot redirect a newer snapshot here" (read.rs:171): the chunk a row   *)
(* points to holds the body the row's version was committed with.          *)
FlushedBodiesMatch ==
  \A k \in Keys, v \in Versions :
    LET row == record_versions[k][v]
    IN  row # NoRow /\ row.chunk \in chunk_index =>
          [k |-> k, cv |-> v, src |-> row.src] \in objects[row.chunk]

(* "cold rebuild: never conflicts with prior state" (rebuild.rs:297).      *)
RebuildNeverRefused == rebuild.pc # "refused"

=============================================================================
