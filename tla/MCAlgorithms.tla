---------------------------- MODULE MCAlgorithms ----------------------------
(* Small inputs for the pure algorithms.                                   *)
EXTENDS Algorithms, TLC

(* Entries: two spellings of a split key, lengths up to the widest one a   *)
(* length byte holds and one beyond, an empty and an absent content type.  *)
ChunkRecord(space, tbl, rid, val, ct, meta, cv) ==
  [space |-> space, table |-> tbl, record_id |-> rid, value |-> val,
   content_type |-> ct, user_meta |-> meta, schema_version |-> 1,
   txn_id |-> <<cv>>, commit_version |-> cv, wal_seq |-> cv,
   deleted |-> val = <<>>]

MCChunkEntries ==
  {ChunkRecord(<<1>>, <<2>>, <<1>>, <<3, 0>>, None, <<>>, 1),
   ChunkRecord(<<1>>, <<2>>, <<1>>, <<>>, <<1, 1, 1>>, <<>>, 2),
   ChunkRecord(<<1>>, <<2>>, <<1, 2>>, <<0>>, <<>>, <<<<<<1>>, <<2>>>>>>, 1),
   ChunkRecord(<<1>>, <<2>>, <<2>>, <<1>>, <<1, 1, 1, 1>>, <<>>, 2),
   ChunkRecord(<<1, 2>>, <<1>>, <<2>>, <<1>>, None,
               <<<<<<1>>, <<>>>>, <<<<1, 1, 1>>, <<2, 2, 2>>>>>>, 3)}

MCXxh3(bytes) ==
  LET h[i \in 0 .. Len(bytes)] ==
        IF i = 0 THEN 5 ELSE (h[i - 1] * 7 + bytes[i] + 3) % 64
  IN  h[Len(bytes)]

Num(n)  == [t |-> "number", n |-> n, whole |-> TRUE]
Real(n) == [t |-> "number", n |-> n, whole |-> FALSE]
Str(s)  == [t |-> "string", s |-> s, len |-> s]
Null    == [t |-> "null"]
Bool(b) == [t |-> "boolean", b |-> b]
Arr(s)  == [t |-> "array", elems |-> s]
Obj(f)  == [t |-> "object", fields |-> f]

MCBodies == {Obj(1 :> Num(1)), Obj(1 :> Num(2)), Obj(1 :> Null), Obj(1 :> Str(2)),
             Obj(2 :> Arr(<<Str(2)>>)), Obj(1 :> Num(1) @@ 2 :> Arr(<<Str(4)>>))}
MCTables ==
  {[i \in 1 .. 3 |-> [id |-> i, body |-> bs[i], deleted |-> del = i]] :
     bs \in [1 .. 3 -> MCBodies], del \in {0, 2}}

Where(op, field, val) == [op |-> op, field |-> field, value |-> val]
MCQueries ==
  {[filters |-> fs, order |-> by, dir |-> d, include_deleted |-> del] :
     fs \in {{}, {Where("ge", <<1>>, Num(1)), Where("lt", <<1>>, Num(2))},
             {Where("contains", <<2, 0>>, Str(2))},
             {Where("exists", <<1>>, Null), Where("ne", <<1>>, Num(2))}},
     by \in {<<>>, <<1>>}, d \in {"asc", "desc"}, del \in BOOLEAN}
MCWithin == {<<2, 2>>, <<4, 4>>, <<4, 2>>}

MCValues ==
  {Null, Bool(TRUE), Num(0), Num(2), Real(1), Str(0), Str(2),
   Arr(<<>>), Arr(<<Num(0), Str(2)>>), Arr(<<Num(2)>>),
   Obj(<<>>), Obj(1 :> Num(2)), Obj(2 :> Str(0)),
   Obj(1 :> Str(2) @@ 2 :> Num(0)), Obj(3 :> Arr(<<Num(2)>>))}

Leaf == {"type" :> {"integer"}, "type" :> {"number", "array"},
         "type" :> {"string"} @@ "minLength" :> 1 @@ "maxLength" :> 2,
         "pattern" :> {2} @@ "minimum" :> 1, "maximum" :> 1,
         "const" :> Num(2), "enum" :> {Null, Num(0), Str(2)}}
MCSchemas ==
  Leaf
    \cup {"oneOf" :> <<a, b>> : a \in Leaf, b \in Leaf}
    \cup {"items" :> a @@ "minItems" :> 1 @@ "maxItems" :> 1 : a \in Leaf}
    \cup {"properties" :> (1 :> a) @@ "closed" :> TRUE : a \in Leaf}
    \cup {"properties" :> (1 :> a) @@ "additional" :> b @@ "required" :> <<2, 1>> :
            a \in Leaf, b \in Leaf}
=============================================================================
