---------------------------- MODULE RecordQuery -----------------------------
(***************************************************************************)
(* Queries over the records of a table (xtable-schema/src/query.rs) and a  *)
(* client that pages through the answer with offset and limit, at a fixed  *)
(* snapshot (query_records in structured.rs).                              *)
(*                                                                         *)
(* A JSON value has its type in t and, by type, b, n, s, elems or fields.  *)
(* Names and strings are natural numbers in their order, and an array      *)
(* index is the number it parses to.                                       *)
(***************************************************************************)
EXTENDS Naturals, Sequences

LOCAL INSTANCE SequencesExt

CONSTANTS
  Tables,         \* the lists of records to query, [id, body, deleted]
  Queries,        \* filters, order, include_deleted
  Limits,         \* page sizes
  Within,         \* the pairs of a string and a substring of it
  Missing         \* a lookup that finds nothing

VARIABLES
  table, query, limit,
  offset,         \* of the next page
  got,            \* the pages so far, one after the other
  paging          \* whether the client asks for another page

query_vars == <<table, query, limit, offset, got, paging>>

(* lookup: by segments; an array takes an index, other values end it.      *)
RECURSIVE Lookup(_, _)
Lookup(value, path) ==
  CASE path = <<>> -> value
    [] value.t = "object" /\ Head(path) \in DOMAIN value.fields ->
         Lookup(value.fields[Head(path)], Tail(path))
    [] value.t = "array" /\ Head(path) < Len(value.elems) ->
         Lookup(value.elems[Head(path) + 1], Tail(path))
    [] OTHER -> Missing

Ordering(a, b) ==
  CASE a < b -> "Less" [] a = b -> "Equal" [] OTHER -> "Greater"

(* cmp: null first; values of two types are equal.                         *)
Cmp(a, b) ==
  CASE a.t = "null" /\ b.t = "null"       -> "Equal"
    [] a.t = "null"                       -> "Less"
    [] b.t = "null"                       -> "Greater"
    [] a.t = "boolean" /\ b.t = "boolean" ->
         CASE a.b = b.b -> "Equal" [] b.b -> "Less" [] OTHER -> "Greater"
    [] a.t = "number" /\ b.t = "number"   -> Ordering(a.n, b.n)
    [] a.t = "string" /\ b.t = "string"   -> Ordering(a.s, b.s)
    [] a.t = "array" /\ b.t = "array"     -> Ordering(Len(a.elems), Len(b.elems))
    [] OTHER                              -> "Equal"

Compares(v, value, orders) == v # Missing /\ Cmp(v, value) \in orders

Matches(f, value) ==
  LET v == Lookup(value, f.field)
  IN  CASE f.op = "eq"       -> v = f.value
        [] f.op = "ne"       -> v # f.value
        [] f.op = "gt"       -> Compares(v, f.value, {"Greater"})
        [] f.op = "ge"       -> Compares(v, f.value, {"Greater", "Equal"})
        [] f.op = "lt"       -> Compares(v, f.value, {"Less"})
        [] f.op = "le"       -> Compares(v, f.value, {"Less", "Equal"})
        [] f.op = "contains" -> /\ v # Missing /\ v.t = "string"
                                /\ <<v.s, f.value.s>> \in Within
        [] f.op = "exists"   -> v # Missing

(* A record without the field comes before those with it.                  *)
OrderOf(q, a, b) ==
  LET va  == Lookup(a.body, q.order)
      vb  == Lookup(b.body, q.order)
      ord == CASE va = Missing /\ vb = Missing -> "Equal"
               [] va = Missing                 -> "Less"
               [] vb = Missing                 -> "Greater"
               [] OTHER                        -> Cmp(va, vb)
  IN  CASE q.dir = "asc" \/ ord = "Equal" -> ord
        [] ord = "Less"                   -> "Greater"
        [] OTHER                          -> "Less"

(* sort_by of a short slice: a record moves left past those it precedes,   *)
(* up to the first it does not precede.  For an order this is the stable   *)
(* sort; Cmp is none when the types are mixed.                             *)
Insert(q, sorted, r) ==
  LET stays == {i \in DOMAIN sorted : OrderOf(q, r, sorted[i]) # "Less"}
      after == CHOOSE i \in stays \cup {0} : \A j \in stays : j <= i
  IN  InsertAt(sorted, after + 1, r)

SortBy(q, rs) ==
  IF q.order = <<>> THEN rs
  ELSE FoldLeft(LAMBDA sorted, r : Insert(q, sorted, r), <<>>, rs)

Selected(q, rs) ==
  SelectSeq(rs, LAMBDA r : /\ q.include_deleted \/ ~ r.deleted
                           /\ \A f \in q.filters : Matches(f, r.body))

(* Deviation: the limit is taken before the offset.                        *)
RunLimitFirst(q, rs, skip, n) ==
  LET out   == SortBy(q, Selected(q, rs))
      first == IF Len(out) > n THEN SubSeq(out, 1, n) ELSE out
  IN  SubSeq(first, skip + 1, Len(first))

(* Query::run: filter, sort, skip, truncate.                               *)
Run(q, rs, skip, n) ==
  LET out  == SortBy(q, Selected(q, rs))
      rest == SubSeq(out, skip + 1, Len(out))
  IN  IF Len(rest) > n THEN SubSeq(rest, 1, n) ELSE rest

InitQuery ==
  /\ table \in Tables /\ query \in Queries /\ limit \in Limits
  /\ offset = 0 /\ got = <<>> /\ paging = TRUE

NextPage ==
  LET page == Run(query, table, offset, limit)
  IN  /\ paging
      /\ got' = got \o page
      /\ offset' = offset + limit
      /\ paging' = (page # <<>>)
      /\ UNCHANGED <<table, query, limit>>

=============================================================================
