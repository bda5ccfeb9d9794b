------------------------- MODULE VersionChainProofs -------------------------
(***************************************************************************)
(* Facts about version chains of any length: the search for the newest     *)
(* visible entry is well defined, pruning below a threshold changes no     *)
(* read at or above it, and the threshold of the collector is below every  *)
(* pinned snapshot.                                                        *)
(***************************************************************************)
EXTENDS StoreFacts, TLAPS, WellFoundedInduction

(* Time enough for each prover on a busy machine.                          *)
USE SMTT(20), ZenonT(30)

(***************************************************************************)
(* Entries carry natural numbers, as the chain lemmas require.             *)
(***************************************************************************)
LEMMA ChainVersions ==
  /\ \A e \in Entries : e.cv \in Nat
  /\ Versions \subseteq Nat
BY MaxVersionAssumption DEF Entries, Versions

(***************************************************************************)
(* A set of natural numbers that is not empty has a least element.         *)
(***************************************************************************)
LEMMA LeastNatural ==
  ASSUME NEW T, T \subseteq Nat, T # {}
  PROVE  \E x \in T : \A y \in T : x <= y
<1> DEFINE R == OpToRel(<, Nat)
<1>1. IsWellFoundedOn(R, Nat)
  BY Zenon, NatLessThanWellFounded
<1> HIDE DEF R
<1>2. PICK x \in T : \A y \in T : ~ (<<y, x>> \in R)
  BY Zenon, <1>1, WFMin
<1>3. ASSUME NEW y \in T PROVE x <= y
  <2>1. ~ (<<y, x>> \in R)
    BY <1>2
  <2>2. ~ (y < x)
    <3>1. <<y, x>> \in Nat \X Nat
      OBVIOUS
    <3> QED BY <2>1, <3>1 DEF R, OpToRel
  <2> QED BY <2>2
<1> QED BY <1>3

(***************************************************************************)
(* The search of read_at_snapshot and prune_below: RPosition(chain, s) is  *)
(* a position of the chain or 0, what it names is at or below s, and       *)
(* everything newer is above s.                                            *)
(***************************************************************************)
LEMMA RPositionSpec ==
  ASSUME NEW E, \A e \in E : e.cv \in Nat,
         NEW chain \in Seq(E), NEW s \in Nat
  PROVE  LET i == RPosition(chain, s)
         IN  /\ i \in 0 .. Len(chain)
             /\ i > 0 => chain[i].cv <= s
             /\ \A j \in (i + 1) .. Len(chain) : chain[j].cv > s
<1> DEFINE n == Len(chain)
           T == {i \in 0 .. n : \A j \in (i + 1) .. n : chain[j].cv > s}
           Good(i) == /\ i > 0 => chain[i].cv <= s
                      /\ \A j \in (i + 1) .. n : chain[j].cv > s
<1>1. n \in Nat /\ \A j \in 1 .. n : chain[j].cv \in Nat
  OBVIOUS
<1>2. n \in T
  BY <1>1
<1>3. T \subseteq Nat /\ T \subseteq 0 .. n
  BY <1>1
<1> HIDE DEF T
<1>4. PICK i \in T : \A k \in T : i <= k
  BY Zenon, <1>2, <1>3, LeastNatural
<1>5. Good(i)
  <2>1. ASSUME i > 0 PROVE chain[i].cv <= s
    <3>1. i - 1 \in 0 .. n /\ i - 1 \notin T
      BY <1>1, <1>4, <1>3, <2>1
    <3>2. PICK j \in ((i - 1) + 1) .. n : ~ (chain[j].cv > s)
      BY <3>1 DEF T
    <3>3. j = i
      BY <1>1, <1>4, <3>2, <2>1 DEF T
    <3> QED BY <1>1, <3>2, <3>3, <2>1
  <2> QED BY <2>1, <1>4 DEF T
<1>6. \E k \in 0 .. n : Good(k)
  BY <1>4, <1>5, <1>3
<1>7. RPosition(chain, s) = CHOOSE k \in 0 .. n : Good(k)
  BY DEF RPosition
<1> HIDE DEF Good
<1>8. RPosition(chain, s) \in 0 .. n /\ Good(RPosition(chain, s))
  BY <1>6, <1>7
<1> QED BY <1>8 DEF Good

(***************************************************************************)
(* There is only one such position.                                        *)
(***************************************************************************)
LEMMA RPositionUnique ==
  ASSUME NEW E, \A e \in E : e.cv \in Nat,
         NEW chain \in Seq(E), NEW s \in Nat,
         NEW i \in 0 .. Len(chain),
         i > 0 => chain[i].cv <= s,
         \A j \in (i + 1) .. Len(chain) : chain[j].cv > s
  PROVE  RPosition(chain, s) = i
<1> DEFINE p == RPosition(chain, s)
<1>1. /\ p \in 0 .. Len(chain)
      /\ p > 0 => chain[p].cv <= s
      /\ \A j \in (p + 1) .. Len(chain) : chain[j].cv > s
  BY Zenon, RPositionSpec
<1>2. \A j \in 1 .. Len(chain) : chain[j].cv \in Nat
  OBVIOUS
<1> HIDE DEF p
<1>3. ~ (p < i)
  BY <1>1, <1>2
<1>4. ~ (i < p)
  BY <1>1, <1>2
<1>5. p = i
  BY <1>1, <1>3, <1>4
<1> QED BY <1>5 DEF p

(***************************************************************************)
(* Where prune_below cuts: a position of the chain, never beyond the       *)
(* anchor of any snapshot at or above the threshold.                       *)
(***************************************************************************)
LEMMA KeepFromSpec ==
  ASSUME NEW E, \A e \in E : e.cv \in Nat,
         NEW chain \in Seq(E), Len(chain) > 0, NEW m \in Nat
  PROVE  /\ KeepFrom(chain, m) \in 1 .. Len(chain)
         /\ m # U64Max => \A s \in Nat : s >= m =>
              \/ KeepFrom(chain, m) <= RPosition(chain, s)
              \/ KeepFrom(chain, m) = 1 /\ RPosition(chain, s) = 0
<1> DEFINE k == KeepFrom(chain, m)
           p == RPosition(chain, m)
<1>1. /\ p \in 0 .. Len(chain)
      /\ p > 0 => chain[p].cv <= m
  BY RPositionSpec
<1>2. k \in 1 .. Len(chain)
  BY <1>1 DEF KeepFrom
<1>3. ASSUME m # U64Max, NEW s \in Nat, s >= m
      PROVE  \/ k <= RPosition(chain, s)
             \/ k = 1 /\ RPosition(chain, s) = 0
  <2> DEFINE q == RPosition(chain, s)
  <2>1. /\ q \in 0 .. Len(chain)
        /\ \A j \in (q + 1) .. Len(chain) : chain[j].cv > s
    BY RPositionSpec
  <2>2. k = IF p = 0 THEN 1 ELSE p
    BY <1>3 DEF KeepFrom
  <2>3. \A j \in 1 .. Len(chain) : chain[j].cv \in Nat
    OBVIOUS
  <2> HIDE DEF p, q, k
  <2>4. CASE p = 0
    BY <2>1, <2>2, <2>4 DEF q
  <2>5. CASE p > 0
    <3>1. chain[p].cv <= s
      BY <1>1, <1>3, <2>3, <2>5
    <3>2. ~ (q < p)
      BY <1>1, <2>1, <2>3, <2>5, <3>1
    <3> QED BY <1>1, <2>1, <2>2, <2>5, <3>2 DEF q
  <2> QED BY <1>1, <2>4, <2>5
<1> QED BY <1>2, <1>3

(***************************************************************************)
(* The shape of a pruned chain: the suffix that starts at KeepFrom.        *)
(***************************************************************************)
LEMMA PruneBelowShape ==
  ASSUME NEW E, \A e \in E : e.cv \in Nat,
         NEW chain \in Seq(E), Len(chain) > 1, NEW m \in Nat
  PROVE  LET k == KeepFrom(chain, m)
             p == PruneBelow(chain, m)
         IN  /\ k \in 1 .. Len(chain)
             /\ p \in Seq(E)
             /\ Len(p) = Len(chain) - k + 1
             /\ \A i \in 1 .. Len(p) : p[i] = chain[i + k - 1]
<1> DEFINE k == KeepFrom(chain, m)
<1>1. k \in 1 .. Len(chain)
  <2>1. Len(chain) > 0
    OBVIOUS
  <2> QED BY <2>1, KeepFromSpec, Zenon
<1>2. PruneBelow(chain, m) = SubSeq(chain, k, Len(chain))
  <2>1. ~ (Len(chain) <= 1)
    OBVIOUS
  <2> QED BY <2>1, Zenon DEF PruneBelow
<1> HIDE DEF k
<1> QED BY <1>1, <1>2 DEF k

(***************************************************************************)
(* Pruning keeps a chain a chain, keeps it ascending and keeps its newest  *)
(* entry, whatever the threshold.                                          *)
(***************************************************************************)
LEMMA PruneBelowPreserves ==
  ASSUME NEW E, \A e \in E : e.cv \in Nat,
         NEW chain \in Seq(E), NEW m \in Nat
  PROVE  /\ PruneBelow(chain, m) \in Seq(E)
         /\ Ascending(chain) => Ascending(PruneBelow(chain, m))
         /\ LatestCommitVersion(PruneBelow(chain, m))
              = LatestCommitVersion(chain)
<1>1. CASE Len(chain) <= 1
  BY <1>1 DEF PruneBelow
<1>2. CASE Len(chain) > 1
  <2> DEFINE k == KeepFrom(chain, m)
             p == PruneBelow(chain, m)
  <2>1. /\ k \in 1 .. Len(chain)
        /\ p \in Seq(E)
        /\ Len(p) = Len(chain) - k + 1
        /\ \A i \in 1 .. Len(p) : p[i] = chain[i + k - 1]
    BY <1>2, PruneBelowShape
  <2> HIDE DEF k, p
  <2>2. ASSUME Ascending(chain) PROVE Ascending(p)
    <3> SUFFICES ASSUME NEW i \in 1 .. Len(p), NEW j \in 1 .. Len(p), i < j
                 PROVE  p[i].cv < p[j].cv
      BY DEF Ascending
    <3>1. /\ i + k - 1 \in 1 .. Len(chain)
          /\ j + k - 1 \in 1 .. Len(chain)
          /\ i + k - 1 < j + k - 1
      BY <2>1
    <3>2. chain[i + k - 1].cv < chain[j + k - 1].cv
      BY <2>2, <3>1 DEF Ascending
    <3> QED BY Zenon, <2>1, <3>2
  <2>3. p # <<>> /\ chain # <<>> /\ p[Len(p)] = chain[Len(chain)]
    BY <1>2, <2>1
  <2> QED BY <2>1, <2>2, <2>3 DEF p, LatestCommitVersion
<1> QED BY <1>1, <1>2

(***************************************************************************)
(* GC safety of one chain (invariant I8): a read at or above the threshold *)
(* returns the same entry before and after the prune.                      *)
(***************************************************************************)
THEOREM PruneBelowSafe ==
  ASSUME NEW E, \A e \in E : e.cv \in Nat,
         NEW chain \in Seq(E),
         NEW m \in Nat, NEW s \in Nat, m # U64Max, m <= s
  PROVE  ReadAtSnapshot(PruneBelow(chain, m), s) = ReadAtSnapshot(chain, s)
<1>1. CASE Len(chain) <= 1
  BY <1>1 DEF PruneBelow
<1>2. CASE Len(chain) > 1
  <2> DEFINE k == KeepFrom(chain, m)
             p == PruneBelow(chain, m)
             q == RPosition(chain, s)
             r == IF q = 0 THEN 0 ELSE q - k + 1
  <2>1. /\ k \in 1 .. Len(chain)
        /\ p \in Seq(E)
        /\ Len(p) = Len(chain) - k + 1
        /\ \A i \in 1 .. Len(p) : p[i] = chain[i + k - 1]
    BY <1>2, PruneBelowShape
  <2>2. /\ q \in 0 .. Len(chain)
        /\ q > 0 => chain[q].cv <= s
        /\ \A j \in (q + 1) .. Len(chain) : chain[j].cv > s
    BY Zenon, RPositionSpec
  <2>3. k <= q \/ (k = 1 /\ q = 0)
    BY <1>2, KeepFromSpec
  <2> HIDE DEF k, p, q
  <2>4. /\ r \in 0 .. Len(p)
        /\ r > 0 => p[r] = chain[q] /\ q > 0
        /\ \A j \in (r + 1) .. Len(p) : p[j].cv > s
    <3>1. r \in 0 .. Len(p) /\ (r > 0 => q > 0 /\ r + k - 1 = q)
      BY <2>1, <2>2, <2>3
    <3>2. r > 0 => p[r] = chain[q]
      <4> HIDE DEF r
      <4> QED BY <2>1, <3>1
    <3>3. ASSUME NEW j \in (r + 1) .. Len(p) PROVE p[j].cv > s
      <4>1. j \in 1 .. Len(p) /\ j + k - 1 \in (q + 1) .. Len(chain)
        BY <2>1, <2>2, <2>3
      <4> QED BY Zenon, <2>1, <2>2, <4>1
    <3> QED BY <3>1, <3>2, <3>3
  <2>5. RPosition(p, s) = r
    <3> HIDE DEF r
    <3> QED BY Zenon, <2>1, <2>2, <2>4, RPositionUnique
  <2>6. ReadAtSnapshot(p, s) = IF r = 0 THEN NoEntry ELSE p[r]
    BY <2>5 DEF ReadAtSnapshot
  <2>7. ReadAtSnapshot(chain, s) = IF q = 0 THEN NoEntry ELSE chain[q]
    BY DEF ReadAtSnapshot, q
  <2>8. r = 0 <=> q = 0
    BY <2>1, <2>2, <2>3
  <2>9. ReadAtSnapshot(p, s) = ReadAtSnapshot(chain, s)
    <3> HIDE DEF r
    <3> QED BY <2>2, <2>4, <2>6, <2>7, <2>8
  <2> QED BY <2>9 DEF p
<1> QED BY <1>1, <1>2

-----------------------------------------------------------------------------
(***************************************************************************)
(* An entry that passes the checks of append_chain_entries_bulk keeps the  *)
(* chain ascending, and is invisible below its own version.                *)
(***************************************************************************)
LEMMA AppendEntryPreserves ==
  ASSUME NEW E, \A e \in E : e.cv \in Nat,
         NEW chain \in Seq(E), Ascending(chain),
         NEW entry \in E, NEW snapshot \in Nat,
         Appendable(chain, entry, snapshot)
  PROVE  /\ AppendEntry(chain, entry) \in Seq(E)
         /\ Ascending(AppendEntry(chain, entry))
<1>1. CASE Duplicate(chain, entry)
  BY <1>1 DEF AppendEntry
<1>2. CASE ~ Duplicate(chain, entry)
  <2> DEFINE new == Append(chain, entry)
  <2>1. AppendEntry(chain, entry) = new
    BY <1>2 DEF AppendEntry
  <2>2. /\ new \in Seq(E)
        /\ Len(new) = Len(chain) + 1
        /\ \A i \in 1 .. Len(chain) : new[i] = chain[i]
        /\ new[Len(chain) + 1] = entry
    OBVIOUS
  <2>3. chain = <<>> \/ entry.cv > chain[Len(chain)].cv
    BY <1>2 DEF Appendable, LatestCommitVersion
  <2> HIDE DEF new
  <2>4. Ascending(new)
    <3> SUFFICES ASSUME NEW i \in 1 .. Len(new), NEW j \in 1 .. Len(new),
                        i < j
                 PROVE  new[i].cv < new[j].cv
      BY DEF Ascending
    <3> DEFINE n == Len(chain)
    <3>0. n \in Nat /\ i \in 1 .. n /\ n \in 1 .. n
      BY <2>2
    <3>1. CASE j <= n
      <4>1. j \in 1 .. n
        BY <3>0, <3>1
      <4>2. chain[i].cv < chain[j].cv
        BY Zenon, <3>0, <4>1 DEF Ascending
      <4> QED BY <2>2, <3>0, <4>1, <4>2
    <3>2. CASE j > n
      <4>1. j = n + 1 /\ chain # <<>>
        BY <2>2, <3>0, <3>2
      <4>2. chain[i].cv \in Nat /\ chain[n].cv \in Nat
        BY <3>0
      <4>3. i < n => chain[i].cv < chain[n].cv
        BY <3>0 DEF Ascending
      <4>4. chain[i].cv <= chain[n].cv
        BY <3>0, <4>2, <4>3
      <4>5. new[i] = chain[i] /\ new[j] = entry
        BY <2>2, <3>0, <4>1
      <4>6. entry.cv > chain[n].cv /\ entry.cv \in Nat
        BY <2>3, <4>1
      <4> QED BY ONLY <4>2, <4>4, <4>5, <4>6
    <3> QED BY <2>2, <3>0, <3>1, <3>2
  <2> QED BY <2>1, <2>2, <2>4
<1> QED BY <1>1, <1>2

(***************************************************************************)
(* The oldest pinned snapshot: u64::MAX when nothing is pinned, otherwise  *)
(* a pinned version that no pinned version is below.                       *)
(***************************************************************************)
LEMMA MinActiveSnapshotSpec ==
  ASSUME active_snapshots \in [Versions -> Nat]
  PROVE  /\ Pinned = {} => MinActiveSnapshot = U64Max
         /\ Pinned # {} => /\ MinActiveSnapshot \in Pinned
                           /\ \A w \in Pinned : MinActiveSnapshot <= w
         /\ MinActiveSnapshot \in Nat
<1>1. Pinned \subseteq Versions /\ Versions \subseteq Nat
  BY ChainVersions DEF Pinned
<1>2. CASE Pinned = {}
  BY <1>2, U64MaxAssumption DEF MinActiveSnapshot
<1>3. CASE Pinned # {}
  <2>1. \E v \in Pinned : \A w \in Pinned : v <= w
    BY Zenon, <1>1, <1>3, LeastNatural
  <2>2. MinActiveSnapshot = CHOOSE v \in Pinned : \A w \in Pinned : v <= w
    BY <1>3 DEF MinActiveSnapshot
  <2>3. /\ MinActiveSnapshot \in Pinned
        /\ \A w \in Pinned : MinActiveSnapshot <= w
    BY <2>1, <2>2
  <2> QED BY <1>1, <1>3, <2>3
<1> QED BY <1>2, <1>3

(***************************************************************************)
(* The threshold the collector uses is at or below every pinned snapshot,  *)
(* and is u64::MAX only when nothing is pinned.                            *)
(***************************************************************************)
LEMMA GcThresholdSpec ==
  ASSUME active_snapshots \in [Versions -> Nat], NEW m \in Nat
  PROVE  /\ GcThreshold(m) \in Nat
         /\ \A w \in Pinned : GcThreshold(m) <= w /\ GcThreshold(m) # U64Max
<1>1. GcThreshold(m) \in Nat /\ GcThreshold(m) <= MinActiveSnapshot
  BY MinActiveSnapshotSpec DEF GcThreshold
<1>2. ASSUME NEW w \in Pinned
      PROVE  GcThreshold(m) <= w /\ GcThreshold(m) # U64Max
  <2>1. w \in Nat /\ w < U64Max
    BY ChainVersions, MaxVersionAssumption, U64MaxAssumption
       DEF Pinned, Versions
  <2>2. MinActiveSnapshot \in Nat /\ MinActiveSnapshot <= w
    BY MinActiveSnapshotSpec
  <2> QED BY <1>1, <2>1, <2>2, U64MaxAssumption
<1> QED BY <1>1, <1>2

(***************************************************************************)
(* An appended entry changes no read below its version.                    *)
(***************************************************************************)
LEMMA AppendInvisibleBelow ==
  ASSUME NEW E, \A e \in E : e.cv \in Nat,
         NEW chain \in Seq(E), NEW entry \in E, NEW s \in Nat, entry.cv > s
  PROVE  ReadAtSnapshot(Append(chain, entry), s) = ReadAtSnapshot(chain, s)
<1> DEFINE new == Append(chain, entry)
           q == RPosition(chain, s)
<1>1. /\ new \in Seq(E)
      /\ Len(new) = Len(chain) + 1
      /\ \A i \in 1 .. Len(chain) : new[i] = chain[i]
      /\ new[Len(chain) + 1] = entry
  OBVIOUS
<1>2. /\ q \in 0 .. Len(chain)
      /\ q > 0 => chain[q].cv <= s
      /\ \A j \in (q + 1) .. Len(chain) : chain[j].cv > s
  BY Zenon, RPositionSpec
<1> HIDE DEF new, q
<1>3. /\ q \in 0 .. Len(new)
      /\ q > 0 => new[q] = chain[q] /\ new[q].cv <= s
  <2>1. Len(chain) \in Nat
    OBVIOUS
  <2>2. q \in 0 .. Len(new) /\ (q > 0 => q \in 1 .. Len(chain))
    BY ONLY <1>1, <1>2, <2>1
  <2> QED BY ONLY <1>1, <1>2, <2>2
<1>4. ASSUME NEW j \in (q + 1) .. Len(new) PROVE new[j].cv > s
  <2>1. CASE j <= Len(chain)
    <3>1. Len(chain) \in Nat
      OBVIOUS
    <3>2. j \in (q + 1) .. Len(chain) /\ j \in 1 .. Len(chain)
      BY ONLY <1>1, <1>2, <2>1, <3>1, j \in (q + 1) .. Len(new)
    <3> QED BY ONLY <1>1, <1>2, <3>2
  <2>2. CASE j > Len(chain)
    <3>1. j = Len(chain) + 1
      BY <1>1, <1>2, <2>2
    <3> QED BY <1>1, <3>1
  <2> QED BY <1>1, <1>2, <2>1, <2>2
<1>5. RPosition(new, s) = q
  BY Zenon, <1>1, <1>3, <1>4, RPositionUnique
<1>6. ReadAtSnapshot(new, s) = IF q = 0 THEN NoEntry ELSE new[q]
  BY <1>5 DEF ReadAtSnapshot
<1>7. ReadAtSnapshot(chain, s) = IF q = 0 THEN NoEntry ELSE chain[q]
  BY DEF ReadAtSnapshot, q
<1>8. ReadAtSnapshot(new, s) = ReadAtSnapshot(chain, s)
  BY <1>2, <1>3, <1>6, <1>7
<1> QED BY <1>8 DEF new

(***************************************************************************)
(* A prune adds no entry and leaves the newest one in its place.           *)
(***************************************************************************)
LEMMA PruneBelowEntries ==
  ASSUME NEW E, \A e \in E : e.cv \in Nat,
         NEW chain \in Seq(E), NEW m \in Nat
  PROVE  LET p == PruneBelow(chain, m)
         IN  /\ p \in Seq(E)
             /\ EntriesOf(p) \subseteq EntriesOf(chain)
             /\ p = <<>> <=> chain = <<>>
             /\ chain # <<>> => p[Len(p)] = chain[Len(chain)]
             /\ LatestCommitVersion(p) = LatestCommitVersion(chain)
<1> DEFINE p == PruneBelow(chain, m)
           k == KeepFrom(chain, m)
<1>1. CASE Len(chain) <= 1
  BY <1>1 DEF PruneBelow
<1>2. CASE Len(chain) > 1
  <2>1. /\ k \in 1 .. Len(chain) /\ p \in Seq(E)
        /\ Len(p) = Len(chain) - k + 1 /\ Len(chain) \in Nat
        /\ \A i \in 1 .. Len(p) : p[i] = chain[i + k - 1]
    BY <1>2, PruneBelowShape
  <2> HIDE DEF p, k
  <2>2. ASSUME NEW e \in EntriesOf(p) PROVE e \in EntriesOf(chain)
    <3>1. PICK i \in 1 .. Len(p) : e = p[i]
      BY DEF EntriesOf
    <3>2. i + k - 1 \in 1 .. Len(chain)
      BY <2>1
    <3> QED BY Zenon, <2>1, <3>1, <3>2 DEF EntriesOf
  <2>3. Len(p) \in 1 .. Len(p) /\ Len(p) + k - 1 = Len(chain)
    BY <2>1
  <2>4. p # <<>> /\ chain # <<>> /\ p[Len(p)] = chain[Len(chain)]
    BY <1>2, <2>1, <2>3
  <2>5. LatestCommitVersion(p) = LatestCommitVersion(chain)
    BY <2>4 DEF LatestCommitVersion
  <2> QED BY <2>1, <2>2, <2>4, <2>5 DEF p
<1>3. Len(chain) \in Nat
  OBVIOUS
<1> QED BY <1>1, <1>2, <1>3

(***************************************************************************)
(* get_record_version_at_snapshot finds the newest row at or below the     *)
(* snapshot, and 0 when there is none.                                     *)
(***************************************************************************)
LEMMA RecordVersionAtSnapshotSpec ==
  ASSUME NEW rows, rows \subseteq Nat, NEW s \in Nat
  PROVE  LET v == RecordVersionAtSnapshot(rows, s)
         IN  /\ v \in rows \cup {0} /\ v <= s
             /\ \A w \in rows : w <= s => w <= v
<1> DEFINE T == {n \in Nat : \A w \in rows : w <= s => w <= n}
<1>1. T \subseteq Nat /\ s \in T
  OBVIOUS
<1>2. PICK x \in T : \A y \in T : x <= y
  <2> HIDE DEF T
  <2> QED BY Zenon, <1>1, LeastNatural
<1>3. x <= s /\ x \in Nat /\ \A w \in rows : w <= s => w <= x
  BY <1>1, <1>2
<1>4. x \in rows \cup {0}
  <2> SUFFICES ASSUME x \notin rows, x # 0 PROVE FALSE
    OBVIOUS
  <2>1. x - 1 \in Nat
    BY <1>3
  <2>2. \A w \in rows : w <= s => w <= x - 1
    BY <1>3
  <2>3. x - 1 \in T
    BY <2>1, <2>2
  <2> QED BY <1>2, <1>3, <2>3
<1> QED BY Zenon, <1>3, <1>4 DEF RecordVersionAtSnapshot

(***************************************************************************)
(* The collector only takes away, and never the newest entry of a chain.   *)
(***************************************************************************)
LEMMA GcChainsSpec ==
  ASSUME StoreTypeOK, NEW m \in Nat, GcChains(m)
  PROVE  /\ version_chains' \in [Keys -> Seq(Entries)]
         /\ record_versions' \in [Keys -> SUBSET Versions]
         /\ \A k \in Keys : Trims(version_chains'[k], version_chains[k])
<1> DEFINE t == GcThreshold(m)
<1>1. t \in Nat
  BY GcThresholdSpec DEF StoreTypeOK
<1>2. /\ version_chains' = [k \in Keys |-> PruneBelow(version_chains[k], t)]
      /\ record_versions' = [k \in Keys |-> RetainedRows(record_versions[k], t)]
  BY DEF GcChains
<1> HIDE DEF t
<1>3. \A k \in Keys : version_chains[k] \in Seq(Entries)
  BY DEF StoreTypeOK
<1>4. ASSUME NEW k \in Keys
      PROVE  LET c == version_chains'[k]
                 d == version_chains[k]
             IN  /\ c \in Seq(Entries)
                 /\ EntriesOf(c) \subseteq EntriesOf(d)
                 /\ c = <<>> <=> d = <<>>
                 /\ d # <<>> => c[Len(c)] = d[Len(d)]
                 /\ LatestCommitVersion(c) = LatestCommitVersion(d)
  <2>1. version_chains'[k] = PruneBelow(version_chains[k], t)
    BY <1>2
  <2>2. version_chains[k] \in Seq(Entries) /\ \A e \in Entries : e.cv \in Nat
    BY <1>3, ChainVersions
  <2> QED BY <1>1, <2>1, <2>2, PruneBelowEntries
<1>5. version_chains' \in [Keys -> Seq(Entries)]
  BY <1>2, <1>4
<1>6. record_versions' \in [Keys -> SUBSET Versions]
  BY <1>2 DEF RetainedRows, StoreTypeOK
<1> QED BY <1>4, <1>5, <1>6 DEF Trims

(***************************************************************************)
(* The two facts the proofs about the transaction service start from.      *)
(***************************************************************************)
LEMMA SearchFactsHold == SearchFacts
<1>1. GcKeepsNewest
  BY Zenon, GcChainsSpec DEF GcKeepsNewest
<1>2. RowsAreFound
  BY Zenon, RecordVersionAtSnapshotSpec DEF RowsAreFound
<1> QED BY <1>1, <1>2 DEF SearchFacts

=============================================================================
