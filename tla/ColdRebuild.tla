---------------------------- MODULE ColdRebuild -----------------------------
(***************************************************************************)
(* Losing the process or the disk, and the start that follows              *)
(* (xtable-server/src/main.rs, xtable-tx/src/rebuild.rs).  A crash loses   *)
(* the memtables, and nothing fills them again.  A server that starts on   *)
(* an empty redb reads every chunk of the bucket and writes its tables     *)
(* anew, in several redb transactions, before it serves requests.          *)
(*                                                                         *)
(* S3 lists chunks in no order that matters here: two entries of one       *)
(* version of a key make the append to its chain fail, whatever rows were  *)
(* written before.                                                         *)
(***************************************************************************)
EXTENDS ChunkFlush

CONSTANTS
  MaxCrashes,   \* bound: crashes
  MaxLosses     \* bound: disks lost

ASSUME ColdRebuildAssumption == MaxCrashes \in Nat /\ MaxLosses \in Nat

VARIABLES
  crashes,
  losses

fate_vars == <<crashes, losses>>

EmptyChains == [k \in Keys |-> <<>>]

(* pc, the entries read with their chunks, and the chains written since    *)
(* redb was empty.                                                         *)
NotRebuilding == [pc |-> "off", scan |-> {}, chains |-> EmptyChains]

(* What a process that ends leaves behind.  Its open transactions are not  *)
(* taken up again.                                                         *)
LoseMemory ==
  /\ NoTables
  /\ commit' = NotCommitting
  /\ flush' = NotFlushing
  /\ open' = {}

(* A start rebuilds if global_version is 0 and the log is empty.           *)
Crash ==
  /\ crashes < MaxCrashes
  /\ crashes' = crashes + 1
  /\ LoseMemory
  /\ rebuild' = IF global_version = 0 /\ wal_last = wal_cut
                THEN [rebuild EXCEPT !.pc = "scan", !.scan = {}]
                ELSE NotRebuilding
  /\ mishaps' = mishaps \cup {"crash"}
  /\ UNCHANGED <<objects, redb_vars, wal_last, wal_cut, minted,
                 faults, history, losses>>

LoseDisk ==
  /\ losses < MaxLosses
  /\ losses' = losses + 1
  /\ LoseMemory
  /\ chunk_index' = {}
  /\ record_index' = [k \in Keys |-> NoRow]
  /\ record_versions' = EmptyRows
  /\ global_version' = 0
  /\ wal_last' = 0 /\ wal_cut' = 0
  /\ rebuild' = [NotRebuilding EXCEPT !.pc = "scan"]
  /\ mishaps' = mishaps \cup {"disk loss"}
  /\ UNCHANGED <<objects, minted, faults, history, crashes>>

-----------------------------------------------------------------------------
(* rebuild.                                                                *)

EntriesIn(chunks) ==
  UNION {{[k |-> e.k, cv |-> e.cv, src |-> e.src, chunk |-> c] :
            e \in objects[c]} : c \in chunks}

Chunks == {c \in ChunkIds : objects[c] # {}}

rebuild_keeps == <<table_vars, objects, commit, flush, log_vars, minted,
                   history, fate_vars>>

(* List the bucket and read its chunks.                                    *)
RebuildScan ==
  /\ rebuild.pc = "scan"
  /\ rebuild' = [rebuild EXCEPT !.pc = "index", !.scan = EntriesIn(Chunks)]
  /\ UNCHANGED <<redb_vars, faults, mishaps, rebuild_keeps>>

(* A chunk that cannot be read is skipped.                                 *)
RebuildSkips ==
  /\ rebuild.pc = "scan"
  /\ Fault
  /\ \E c \in Chunks :
       rebuild' = [rebuild EXCEPT !.pc = "index",
                                  !.scan = EntriesIn(Chunks \ {c})]
  /\ UNCHANGED <<redb_vars, rebuild_keeps>>

RebuildChunkIndex ==
  /\ rebuild.pc = "index"
  /\ chunk_index' = chunk_index \cup {e.chunk : e \in rebuild.scan}
  /\ rebuild' = [rebuild EXCEPT !.pc = "rows"]
  /\ UNCHANGED <<row_vars, global_version, faults, mishaps, rebuild_keeps>>

Scanned(k)       == {e \in rebuild.scan : e.k = k}
ScannedAt(k, v)  == {e \in rebuild.scan : e.k = k /\ e.cv = v}
NewestScanned(k) == CHOOSE e \in Scanned(k) : \A f \in Scanned(k) : f.cv <= e.cv

(* Deviation: one version of each key is kept, as in the latest rows.      *)
RebuildNewestRows ==
  /\ rebuild.pc = "rows"
  /\ record_index' = [k \in Keys |->
       IF Scanned(k) = {} THEN record_index[k]
       ELSE [cv |-> NewestScanned(k).cv, src |-> NewestScanned(k).src,
             chunk |-> NewestScanned(k).chunk]]
  /\ record_versions' = [k \in Keys |-> [v \in Versions |->
       IF Scanned(k) # {} /\ v = NewestScanned(k).cv
       THEN [src |-> NewestScanned(k).src, chunk |-> NewestScanned(k).chunk]
       ELSE record_versions[k][v]]]
  /\ rebuild' = [rebuild EXCEPT !.pc = "chains"]
  /\ UNCHANGED <<chunk_index, global_version, faults, mishaps, rebuild_keeps>>

(* The latest rows, TBL_VERSIONS, and a row for every version found.       *)
RebuildRows ==
  /\ rebuild.pc = "rows"
  /\ record_index' = [k \in Keys |->
       IF Scanned(k) = {} THEN record_index[k]
       ELSE [cv |-> NewestScanned(k).cv, src |-> NewestScanned(k).src,
             chunk |-> NewestScanned(k).chunk]]
  /\ record_versions' = [k \in Keys |-> [v \in Versions |->
       IF ScannedAt(k, v) = {} THEN record_versions[k][v]
       ELSE LET e == CHOOSE e \in ScannedAt(k, v) : TRUE
            IN  [src |-> e.src, chunk |-> e.chunk]]]
  /\ rebuild' = [rebuild EXCEPT !.pc = "chains"]
  /\ UNCHANGED <<chunk_index, global_version, faults, mishaps, rebuild_keeps>>

(* append_chain_entries_bulk takes the entries in the order of their       *)
(* versions: one equal to the chain's last is passed over, one not above   *)
(* it makes the whole append fail.                                         *)
AppendRefused ==
  \E e \in rebuild.scan :
    LET chain == rebuild.chains[e.k]
    IN  \/ \E f \in ScannedAt(e.k, e.cv) : f # e
        \/ /\ chain # <<>>
           /\ \/ e.cv < chain[Len(chain)].cv
              \/ e.cv = chain[Len(chain)].cv /\ e # chain[Len(chain)]

ScannedVersions(k) == {e.cv : e \in Scanned(k)}

(* The entries of the key above its chain, in order.                       *)
Appended(k) ==
  LET chain == rebuild.chains[k]
      new   == {v \in ScannedVersions(k) :
                  chain = <<>> \/ v > chain[Len(chain)].cv}
      At(n) == CHOOSE v \in new : Cardinality({w \in new : w <= v}) = n
  IN  chain \o [n \in 1 .. Cardinality(new) |->
                  CHOOSE e \in ScannedAt(k, At(n)) : TRUE]

(* An append that fails ends the process: "refusing to start with empty    *)
(* index".                                                                 *)
RebuildChains ==
  /\ rebuild.pc = "chains"
  /\ rebuild' = IF AppendRefused THEN [rebuild EXCEPT !.pc = "refused"]
                ELSE [rebuild EXCEPT !.pc = "version",
                        !.chains = [k \in Keys |-> Appended(k)]]
  /\ UNCHANGED <<redb_vars, faults, mishaps, rebuild_keeps>>

(* Deviation: the counter is left where an empty redb has it.              *)
RebuildKeepsCounter ==
  /\ rebuild.pc = "version"
  /\ rebuild' = NotRebuilding
  /\ UNCHANGED <<redb_vars, faults, mishaps, rebuild_keeps>>

(* GLOBAL_VERSION, so that commits take higher versions.                   *)
RebuildVersion ==
  /\ rebuild.pc = "version"
  /\ global_version' = Newest({0} \cup {e.cv : e \in rebuild.scan})
  /\ rebuild' = NotRebuilding
  /\ UNCHANGED <<chunk_index, row_vars, faults, mishaps, rebuild_keeps>>

(* The next start tries again.                                             *)
StartAgain ==
  /\ rebuild.pc = "refused"
  /\ rebuild' = [rebuild EXCEPT !.pc = "scan", !.scan = {}]
  /\ UNCHANGED <<redb_vars, faults, mishaps, rebuild_keeps>>

=============================================================================
