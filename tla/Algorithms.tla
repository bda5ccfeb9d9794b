----------------------------- MODULE Algorithms -----------------------------
(***************************************************************************)
(* The pure parts of the program against what they should compute: one     *)
(* chunk file is written, one query is paged through, or one value is      *)
(* validated.                                                              *)
(***************************************************************************)
EXTENDS ChunkFormat, RecordQuery, SchemaValidation, FiniteSets

LOCAL INSTANCE SequencesExt

VARIABLE subject    \* which of the three this behaviour is about

algorithm_vars == <<chunk_vars, query_vars, validation_vars, subject>>

ChunkIdle == InitChunk
QueryIdle ==
  /\ table = <<>> /\ query = Missing /\ limit = 0
  /\ offset = 0 /\ got = <<>> /\ paging = FALSE
ValidationIdle ==
  schema = Missing /\ value = Missing /\ outcome = {}

Init ==
  \/ subject = "chunk" /\ InitChunk /\ QueryIdle /\ ValidationIdle
  \/ subject = "query" /\ ChunkIdle /\ InitQuery /\ ValidationIdle
  \/ subject = "validation" /\ ChunkIdle /\ QueryIdle /\ InitValidation

Next ==
  \/ /\ subject = "chunk" /\ (ChunkAppend \/ ChunkFinalize)
     /\ UNCHANGED <<query_vars, validation_vars, subject>>
  \/ /\ subject = "query" /\ NextPage
     /\ UNCHANGED <<chunk_vars, validation_vars, subject>>
  \/ /\ subject = "validation" /\ RunValidation
     /\ UNCHANGED <<chunk_vars, query_vars, subject>>

Spec == Init /\ [][Next]_algorithm_vars

-----------------------------------------------------------------------------
(* What the file says of an entry: an empty content type is none.          *)
AsRead(e) == IF e.content_type = <<>> THEN [e EXCEPT !.content_type = None] ELSE e

(* Every length of the entry fits its prefix.                              *)
Fits(e) ==
  LET small == {e.txn_id} \cup (IF e.content_type = None THEN {} ELSE {e.content_type})
                 \cup UNION {{kv[1], kv[2]} : kv \in ToSet(e.user_meta)}
  IN  /\ \A bytes \in small : Len(bytes) < U8
      /\ Len(e.user_meta) < U8
      /\ Len(ComposeKeyBytes(e)) < U16 /\ Len(e.value) < U32

(* When every length fits its prefix, a finished chunk file holds what was *)
(* appended, and a read finds it: the body decodes to the entries in the   *)
(* order they were appended (not that of their keys), every sample of the  *)
(* footer points at its entry, the key range covers the keys, and no read  *)
(* of a record at a snapshot misses its newest entry for the bloom filter  *)
(* or for another record's bytes (ChunkWriter, read_from_chunk).           *)
FileHoldsEntries ==
  file # None /\ (\A i \in DOMAIN entries : Fits(entries[i])) =>
    LET cells  == DecompressBody(file.cells)
        header == DecodeHeader(file.cells)
        index  == file.footer.key_index
        read   == [i \in DOMAIN entries |-> AsRead(entries[i])]
        At(key, s) == {i \in DOMAIN read : /\ ComposeKeyBytes(read[i]) = key
                                           /\ read[i].commit_version <= s}
    IN  /\ DecodeBodyEntries(cells) = read
        /\ header.record_count = Len(entries)
        /\ \A j \in DOMAIN index :
             LET e == DecodeEntry(cells, index[j].body_offset).entry
             IN  /\ e = read[(j - 1) * SampleEvery + 1]
                 /\ ComposeKeyBytes(e) = index[j].key
                 /\ e.commit_version = index[j].commit_version
        /\ \A i \in DOMAIN read, s \in 0 .. MaxEntries + 1 :
             LET key == ComposeKeyBytes(read[i])
             IN  /\ LexLeq(header.key_min, key) /\ LexLeq(key, header.key_max)
                 /\ ReadChunk(key, s) =
                      {read[k] : k \in {n \in At(key, s) :
                         \A m \in At(key, s) :
                           read[m].commit_version <= read[n].commit_version}}

(* "entries are sorted by (space, table, record_id)" in the body of a      *)
(* chunk (chunk.rs, chunk_format.md).                                      *)
BodySorted ==
  \A i, j \in DOMAIN entries :
    file # None /\ i < j =>
      LexLeq(ComposeKeyBytes(entries[i]), ComposeKeyBytes(entries[j]))

(* The values to sort by are of one type, but for nulls and absent ones.   *)
OneType(q, rs) ==
  \A i, j \in DOMAIN rs :
    LET a == Lookup(rs[i].body, q.order)
        b == Lookup(rs[j].body, q.order)
    IN  Missing \in {a, b} \/ "null" \in {a.t, b.t} \/ a.t = b.t

(* A client that asks for page after page until one is empty gets every    *)
(* selected record once: no page overlaps the next or leaves a gap.  They  *)
(* come in the order asked for, records of equal rank in the order of the  *)
(* table, if the values sorted by are of one type (Query::run).            *)
PagesPartition ==
  subject = "query" /\ ~ paging =>
    LET at(r) == CHOOSE i \in DOMAIN table : table[i] = r
        wanted == {i \in DOMAIN table :
                     /\ query.include_deleted \/ ~ table[i].deleted
                     /\ \A f \in query.filters : Matches(f, table[i].body)}
    IN  /\ {at(got[i]) : i \in DOMAIN got} = wanted
        /\ Len(got) = Cardinality(wanted)
        /\ query.order = <<>> =>
             \A i, j \in DOMAIN got : i < j => at(got[i]) < at(got[j])
        /\ query.order # <<>> /\ OneType(query, got) =>
             \A i, j \in DOMAIN got : i < j =>
               \/ OrderOf(query, got[i], got[j]) = "Less"
               \/ /\ OrderOf(query, got[i], got[j]) = "Equal"
                  /\ at(got[i]) < at(got[j])

(* What the keywords of a schema ask of a value, each by itself.           *)
RECURSIVE Satisfies(_, _)
Satisfies(s, v) ==
  /\ Has(s, "oneOf") =>
       Cardinality({i \in DOMAIN s.oneOf : Satisfies(s.oneOf[i], v)}) = 1
  /\ Has(s, "type") => TypeAccepts(s, v)
  /\ Has(s, "const") => v = s.const
  /\ Has(s, "enum") => v \in s.enum
  /\ v.t = "object" =>
       /\ Has(s, "required") =>
            \A i \in DOMAIN s.required : s.required[i] \in DOMAIN v.fields
       /\ Has(s, "closed") => DOMAIN v.fields \subseteq PropertyNames(s)
       /\ \A n \in DOMAIN v.fields :
            /\ n \in PropertyNames(s) => Satisfies(s.properties[n], v.fields[n])
            /\ n \notin PropertyNames(s) /\ Has(s, "additional") =>
                 Satisfies(s.additional, v.fields[n])
  /\ v.t = "array" =>
       /\ Has(s, "minItems") => Len(v.elems) >= s.minItems
       /\ Has(s, "maxItems") => Len(v.elems) <= s.maxItems
       /\ Has(s, "items") => \A i \in DOMAIN v.elems : Satisfies(s.items, v.elems[i])
  /\ v.t = "string" =>
       /\ Has(s, "minLength") => v.len >= s.minLength
       /\ Has(s, "maxLength") => v.len <= s.maxLength
       /\ Has(s, "pattern") => v.s \in s.pattern
  /\ v.t = "number" =>
       /\ Has(s, "minimum") => v.n >= s.minimum
       /\ Has(s, "maximum") => v.n <= s.maximum

(* validate accepts exactly the values that satisfy every keyword, in      *)
(* whatever order it looks at them and wherever it returns first           *)
(* (validation.rs).                                                        *)
ValidateIsExact ==
  outcome # {} => (outcome = {Valid} <=> Satisfies(schema, value))

=============================================================================
