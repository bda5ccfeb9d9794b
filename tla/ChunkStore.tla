----------------------------- MODULE ChunkStore -----------------------------
(***************************************************************************)
(* Where records are once they have left memory: the chunk objects in S3,  *)
(* the chunk index and the record rows in redb (xtable-storage/src/store.  *)
(* rs), and the read path over all of them (read.rs).                      *)
(*                                                                         *)
(* A chunk is the set of its entries.  Its bloom filter has no false       *)
(* negatives (ChunkFormat) and is left out.  A record row holds the write  *)
(* whose body it carries inline and a chunk pointer; Placeholder is the    *)
(* record's own key, which the commit hook puts there and which names no   *)
(* chunk.                                                                  *)
(***************************************************************************)
EXTENDS MemTables

CONSTANTS
  MaxChunks,    \* bound: chunk ids minted
  Tombstones,   \* the commits that delete what they write
  NoRow

ASSUME ChunkStoreAssumption ==
  /\ MaxChunks \in Nat \ {0} /\ Tombstones \subseteq Commits
  /\ NoRow \notin [src : Commits, chunk : 0 .. MaxChunks]
  /\ NoRow \notin [cv : Versions, src : Commits, chunk : 0 .. MaxChunks]

VARIABLES
  objects,          \* S3: chunk id -> its entries, {} if there is no object
  chunk_index,      \* TBL_CHUNK_INDEX: the chunk ids that have a row
  record_index,     \* TBL_RECORD_INDEX: key -> latest row
  record_versions,  \* TBL_RECORD_VERSIONS: key, version -> row
  global_version

row_vars == <<record_index, record_versions>>
redb_vars == <<chunk_index, row_vars, global_version>>

Placeholder == 0
ChunkIds    == 1 .. MaxChunks

EmptyRows == [k \in Keys |-> [v \in Versions |-> NoRow]]

ChunkStoreInit ==
  /\ objects = [c \in ChunkIds |-> {}]
  /\ chunk_index = {}
  /\ record_index = [k \in Keys |-> NoRow]
  /\ record_versions = EmptyRows
  /\ global_version = 0

-----------------------------------------------------------------------------
(* Rows.                                                                   *)

(* The commit hook: a row for the version, and the latest row unless it is *)
(* newer.                                                                  *)
PutRecordIndexWithBody(k, v, src) ==
  /\ record_versions' =
       [record_versions EXCEPT ![k][v] = [src |-> src, chunk |-> Placeholder]]
  /\ record_index' =
       IF record_index[k] = NoRow \/ v >= record_index[k].cv
       THEN [record_index EXCEPT ![k] = [cv |-> v, src |-> src,
                                         chunk |-> Placeholder]]
       ELSE record_index

(* Deviation: the newest version takes the pointer, whatever was flushed.  *)
UpdateChunkIdOfLatest(k, v, chunk) ==
  /\ record_index' = IF record_index[k] = NoRow THEN record_index
                     ELSE [record_index EXCEPT ![k].chunk = chunk]
  /\ record_versions' =
       IF record_index[k] = NoRow THEN record_versions
       ELSE [record_versions EXCEPT ![k][record_index[k].cv].chunk = chunk]

(* The row of exactly this version, and the latest row if it is the same   *)
(* version.  Nothing if there is no row.                                   *)
UpdateRecordIndexChunkIdForVersion(k, v, chunk) ==
  /\ record_index' =
       IF record_index[k] # NoRow /\ record_index[k].cv = v
       THEN [record_index EXCEPT ![k].chunk = chunk] ELSE record_index
  /\ record_versions' =
       IF record_versions[k][v] # NoRow
       THEN [record_versions EXCEPT ![k][v].chunk = chunk] ELSE record_versions

RowsUpTo(k, snapshot) ==
  {v \in Versions : v <= snapshot /\ record_versions[k][v] # NoRow}

Newest(vs) == CHOOSE v \in vs : \A w \in vs : w <= v

-----------------------------------------------------------------------------
(***************************************************************************)
(* read_at_snapshot.  The answer is an entry, or NoEntry for None.         *)
(***************************************************************************)

(* The newest entry of the key in the chunk the row names.  Of entries of  *)
(* one version max_by_key takes one; which, depends on their order.        *)
ReadFromChunk(k, chunk, snapshot) ==
  LET hits == IF chunk \in chunk_index
              THEN {e \in objects[chunk] : e.k = k /\ e.cv <= snapshot} ELSE {}
  IN  IF hits = {} THEN NoEntry
      ELSE LET e == CHOOSE e \in hits : \A f \in hits : f.cv <= e.cv
           IN  [cv |-> e.cv, src |-> e.src]

(* Deviation: the immutables are searched in the order they were pushed.   *)
ReadImmutablesOldestFirst(k, snapshot) ==
  LET hits == {n \in 1 .. Len(flushing) :
                 GetVisible(tables[flushing[n]], k, snapshot) # NoEntry}
  IN  IF hits = {} THEN NoEntry
      ELSE tables[flushing[CHOOSE n \in hits : \A m \in hits : n <= m]][k]

(* The immutable pushed last that has a visible entry.                     *)
ReadImmutables(k, snapshot) ==
  LET hits == {n \in 1 .. Len(flushing) :
                 GetVisible(tables[flushing[n]], k, snapshot) # NoEntry}
  IN  IF hits = {} THEN NoEntry ELSE tables[flushing[Newest(hits)]][k]

(* A tombstone row answers by itself, a row whose pointer names no chunk   *)
(* answers with its inline body, any other with the chunk's entry.         *)
ReadRows(k, snapshot) ==
  LET v   == Newest(RowsUpTo(k, snapshot))
      row == record_versions[k][v]
  IN  IF row.src \in Tombstones \/ row.chunk \notin chunk_index
      THEN [cv |-> v, src |-> row.src]
      ELSE ReadFromChunk(k, row.chunk, snapshot)

(* The latest row, for a key that has no version row at the snapshot.      *)
ReadLatestRow(k, snapshot) ==
  LET row == record_index[k]
  IN  IF row = NoRow \/ row.cv > snapshot THEN NoEntry
      ELSE IF row.src \in Tombstones THEN [cv |-> row.cv, src |-> row.src]
      ELSE ReadFromChunk(k, row.chunk, snapshot)

ReadAtSnapshot(k, snapshot) ==
  CASE GetVisible(tables[active], k, snapshot) # NoEntry -> tables[active][k]
    [] OTHER ->
       CASE ReadImmutables(k, snapshot) # NoEntry -> ReadImmutables(k, snapshot)
         [] OTHER -> IF RowsUpTo(k, snapshot) # {} THEN ReadRows(k, snapshot)
                     ELSE ReadLatestRow(k, snapshot)

=============================================================================
