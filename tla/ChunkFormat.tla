---------------------------- MODULE ChunkFormat -----------------------------
(***************************************************************************)
(* The chunk file (xtable-storage/src/chunk.rs): ChunkWriter, the bloom    *)
(* filter, the sampled key index, and the way back from the file to an     *)
(* entry (read.rs).                                                        *)
(*                                                                         *)
(* A file is a sequence of cells.  A cell is a byte of a name or a value,  *)
(* an integer of fixed width, or the zstd frame of a body.  A length       *)
(* prefix wraps at its width.  Checksums are written and never read: their *)
(* cell is 0.  Offsets count from 0, as in the code.                       *)
(***************************************************************************)
EXTENDS Naturals, Sequences

LOCAL INSTANCE SequencesExt

CONSTANTS
  ChunkEntries,   \* the entries to choose from
  MaxEntries,     \* bound: entries of a chunk
  U8, U16, U32,   \* values of a length of 1, 2 and 4 bytes
  SampleEvery,    \* KEY_INDEX_SAMPLE_EVERY
  BitsPerKey,     \* BLOOM_BITS_PER_KEY
  MinBits,        \* the filter's least size, 64
  ByteBits,       \* bits of a byte, 8
  Xxh3(_),        \* the hash of a byte string
  None

ASSUME ChunkFormatAssumption ==
  {MaxEntries, U8, U16, U32, SampleEvery, BitsPerKey, MinBits, ByteBits}
    \subseteq Nat \ {0}

VARIABLES
  entries,        \* ChunkWriter: what was appended, in order
  body,           \* ChunkWriter: its encoding
  file            \* the finished file with its header and footer, or None

chunk_vars == <<entries, body, file>>

Prefixed(width, bytes) == <<Len(bytes) % width>> \o bytes

(* space NUL table NUL record_id.                                          *)
ComposeKeyBytes(e) == e.space \o <<0>> \o e.table \o <<0>> \o e.record_id

EncodeMeta(meta) ==
  FoldLeft(LAMBDA cells, kv :
             cells \o Prefixed(U8, kv[1]) \o Prefixed(U8, kv[2]),
           <<Len(meta) % U8>>, meta)

EncodeEntry(e) ==
  Prefixed(U16, ComposeKeyBytes(e)) \o Prefixed(U32, e.value)
    \o Prefixed(U8, IF e.content_type = None THEN <<>> ELSE e.content_type)
    \o EncodeMeta(e.user_meta)
    \o <<e.schema_version>> \o Prefixed(U8, e.txn_id)
    \o <<e.commit_version, e.wal_seq, IF e.deleted THEN 1 ELSE 0, 0>>

-----------------------------------------------------------------------------
(* Decoding.  A cursor is an offset; a field is what was read and where    *)
(* the next one begins.                                                    *)

Cell(cells, at) == cells[at + 1]

Field(cells, at) ==
  LET n == Cell(cells, at)
  IN  [bytes |-> SubSeq(cells, at + 2, at + 1 + n), next |-> at + 1 + n]

RECURSIVE DecodeMeta(_, _, _)
DecodeMeta(cells, at, count) ==
  IF count = 0 THEN [meta |-> <<>>, next |-> at]
  ELSE LET k    == Field(cells, at)
           v    == Field(cells, k.next)
           rest == DecodeMeta(cells, v.next, count - 1)
       IN  [meta |-> <<<<k.bytes, v.bytes>>>> \o rest.meta, next |-> rest.next]

Upto(cells, i) == SubSeq(cells, 1, i - 1)
Beyond(cells, i) == SubSeq(cells, i + 1, Len(cells))
FirstNul(cells) ==
  IF 0 \in ToSet(cells) THEN SelectInSeq(cells, LAMBDA c : c = 0)
  ELSE Len(cells) + 1

(* The first three parts of the key; an empty content type reads as none.  *)
DecodeEntry(cells, at) ==
  LET key   == Field(cells, at)
      tail  == Beyond(key.bytes, FirstNul(key.bytes))
      rid   == Beyond(tail, FirstNul(tail))
      value == Field(cells, key.next)
      ct    == Field(cells, value.next)
      meta  == DecodeMeta(cells, ct.next + 1, Cell(cells, ct.next))
      txn   == Field(cells, meta.next + 1)
  IN  [entry |->
         [space |-> Upto(key.bytes, FirstNul(key.bytes)),
          table |-> Upto(tail, FirstNul(tail)),
          record_id |-> Upto(rid, FirstNul(rid)),
          value |-> value.bytes,
          content_type |-> IF ct.bytes = <<>> THEN None ELSE ct.bytes,
          user_meta |-> meta.meta,
          schema_version |-> Cell(cells, meta.next),
          txn_id |-> txn.bytes,
          commit_version |-> Cell(cells, txn.next),
          wal_seq |-> Cell(cells, txn.next + 1),
          deleted |-> Cell(cells, txn.next + 2) = 1],
       next |-> txn.next + 4]

RECURSIVE DecodeFrom(_, _)
DecodeFrom(cells, at) ==
  IF at >= Len(cells) THEN <<>>
  ELSE LET e == DecodeEntry(cells, at)
       IN  <<e.entry>> \o DecodeFrom(cells, e.next)

DecodeBodyEntries(cells) == DecodeFrom(cells, 0)

-----------------------------------------------------------------------------
(* The bloom filter: two hashes, the second of the first.                  *)

Hashes(key) == {Xxh3(key), Xxh3(<<Xxh3(key)>>)}

TotalBits(count) ==
  LET keys == IF count = 0 THEN 1 ELSE count
  IN  IF keys * BitsPerKey < MinBits THEN MinBits ELSE keys * BitsPerKey

TotalBytes(count) == (TotalBits(count) + ByteBits - 1) \div ByteBits

(* Deviation: positions modulo the bits asked for, not the bits there are. *)
BuildBloomUnrounded(keys) ==
  [bytes |-> TotalBytes(Len(keys)),
   set |-> {h % TotalBits(Len(keys)) : h \in UNION {Hashes(k) : k \in ToSet(keys)}}]

BuildBloom(keys) ==
  LET size == TotalBytes(Len(keys))
  IN  [bytes |-> size,
       set |-> {h % (size * ByteBits) : h \in UNION {Hashes(k) : k \in ToSet(keys)}}]

BloomMayContain(bloom, key) ==
  \/ bloom.bytes = 0
  \/ \A h \in Hashes(key) : h % (bloom.bytes * ByteBits) \in bloom.set

-----------------------------------------------------------------------------
(* The writer.                                                             *)

Keys(es) == [i \in DOMAIN es |-> ComposeKeyBytes(es[i])]

EncodedLen(es) == FoldLeft(LAMBDA n, e : n + Len(EncodeEntry(e)), 0, es)

(* One sample every SampleEvery entries, with the offset of the entry.     *)
KeyIndex(es) ==
  LET sampled == SelectSeq([i \in DOMAIN es |-> i],
                           LAMBDA i : (i - 1) % SampleEvery = 0)
  IN  [j \in DOMAIN sampled |->
         [key |-> ComposeKeyBytes(es[sampled[j]]),
          body_offset |-> EncodedLen(SubSeq(es, 1, sampled[j] - 1)),
          commit_version |-> es[sampled[j]].commit_version]]

RECURSIVE LexLeq(_, _)
LexLeq(a, b) ==
  \/ a = <<>>
  \/ b # <<>> /\ Head(a) < Head(b)
  \/ b # <<>> /\ Head(a) = Head(b) /\ LexLeq(Tail(a), Tail(b))

KeyMin(keys) ==
  CHOOSE k \in ToSet(keys) : \A l \in ToSet(keys) : LexLeq(k, l)
KeyMax(keys) ==
  CHOOSE k \in ToSet(keys) : \A l \in ToSet(keys) : LexLeq(l, k)

Zstd(cells)   == <<[frame |-> cells]>>
Unzstd(cells) == cells[1].frame

(* magic, version, id, three integers, space, table, key range, count.     *)
EncodeHeader(h) ==
  <<1, 1>> \o Prefixed(U16, h.chunk_id) \o <<0, Len(Zstd(body)), Len(body)>>
    \o Prefixed(U16, h.space) \o Prefixed(U16, h.table)
    \o Prefixed(U16, h.key_min) \o Prefixed(U16, h.key_max) \o <<h.record_count>>

(* Where the body begins.                                                  *)
DecodeHeader(cells) ==
  LET id    == Field(cells, 2)
      space == Field(cells, id.next + 3)
      table == Field(cells, space.next)
      min   == Field(cells, table.next)
      max   == Field(cells, min.next)
  IN  [key_min |-> min.bytes, key_max |-> max.bytes,
       record_count |-> Cell(cells, max.next), body_offset |-> max.next + 1]

(* Filter, key index, checksum, magic; both lists stand as one cell each.  *)
EncodeFooter(f) == <<1, [bloom |-> f.bloom], 1, [index |-> f.key_index], 0, 2>>

InitChunk == entries = <<>> /\ body = <<>> /\ file = None

ChunkAppend ==
  /\ file = None /\ Len(entries) < MaxEntries
  /\ \E e \in ChunkEntries :
       /\ entries' = Append(entries, e)
       /\ body' = body \o EncodeEntry(e)
  /\ UNCHANGED file

(* The length of the footer comes after it.                                *)
ChunkFinalize ==
  /\ file = None /\ entries # <<>>
  /\ LET header == [chunk_id |-> <<1>>, space |-> entries[1].space,
                    table |-> entries[1].table,
                    key_min |-> KeyMin(Keys(entries)),
                    key_max |-> KeyMax(Keys(entries)),
                    record_count |-> Len(entries)]
         footer == [bloom |-> BuildBloom(Keys(entries)),
                    key_index |-> KeyIndex(entries)]
     IN  file' = [cells |-> EncodeHeader(header) \o Zstd(body)
                              \o EncodeFooter(footer)
                              \o <<Len(EncodeFooter(footer))>>,
                  footer |-> footer]
  /\ UNCHANGED <<entries, body>>

(* decompress_body: between the header and the footer.                     *)
DecompressBody(cells) ==
  LET last == Len(cells) - 1
  IN  Unzstd(SubSeq(cells, DecodeHeader(cells).body_offset + 1,
                    last - Cell(cells, last)))

(* read_from_chunk: the newest entry of the record up to the snapshot.     *)
ReadChunk(key, s) ==
  LET found == SelectSeq(DecodeBodyEntries(DecompressBody(file.cells)),
                 LAMBDA e : ComposeKeyBytes(e) = key /\ e.commit_version <= s)
  IN  IF ~ BloomMayContain(file.footer.bloom, key) THEN {}
      ELSE {e \in ToSet(found) :
              \A d \in ToSet(found) : d.commit_version <= e.commit_version}

=============================================================================
