-------------------------- MODULE SnapshotGcProofs --------------------------
(***************************************************************************)
(* Proofs about snapshot readers and the garbage collector, for any set of *)
(* keys, any finite set of readers and any bound on versions.              *)
(***************************************************************************)
EXTENDS SnapshotGc, VersionChainProofs, FiniteSetTheorems

(* Time enough for each prover on a busy machine.                          *)
USE SMTT(20), ZenonT(30)

-----------------------------------------------------------------------------
(***************************************************************************)
(* The inductive invariant: types, ascending chains and exact ref-counts.  *)
(* Ascending chains need the types of the chain entries; the ref-counts    *)
(* need nothing of the chains, but the action property needs both.         *)
(***************************************************************************)
IInv == TypeOK /\ ChainsAscending /\ PinsCountHolders

(***************************************************************************)
(* The empty store of a first start satisfies the invariant.               *)
(***************************************************************************)
LEMMA InitIInv == Init => IInv
<1> SUFFICES ASSUME Init PROVE IInv
  OBVIOUS
<1> USE DEF Init, StoreInit
<1>1. TypeOK
  BY ChainVersions, MaxVersionAssumption
     DEF TypeOK, StoreTypeOK, Versions
<1>2. ChainsAscending
  BY DEF ChainsAscending, Ascending
<1>3. PinsCountHolders
  <2> SUFFICES ASSUME NEW v \in Versions
               PROVE  active_snapshots[v] = Cardinality(Holders(v))
    BY DEF PinsCountHolders
  <2>1. Holders(v) = {}
    BY ChainVersions, ReadersAssumption DEF Holders
  <2> QED BY <2>1, FS_EmptySet
<1> QED BY <1>1, <1>2, <1>3 DEF IInv

(***************************************************************************)
(* Chains stay typed and ascending through a commit's append.              *)
(***************************************************************************)
LEMMA PublishKeepsChains ==
  ASSUME TypeOK, ChainsAscending,
         NEW keys \in SUBSET Keys, NEW txn \in TxnIds, NEW s \in Versions,
         PublishCommit(keys, txn, s)
  PROVE  /\ version_chains' \in [Keys -> Seq(Entries)]
         /\ ChainsAscending'
<1> DEFINE entry == [cv |-> in_flight, txn |-> txn]
<1>1. entry \in Entries
  BY DEF Entries, TypeOK
<1>2. version_chains' =
        [k \in Keys |-> IF k \in keys
                        THEN AppendEntry(version_chains[k], entry)
                        ELSE version_chains[k]]
  BY DEF PublishCommit, AppendChainEntriesBulk
<1>3. \A k \in keys : Appendable(version_chains[k], entry, s)
  BY DEF PublishCommit, BulkAppendable
<1> HIDE DEF entry
<1>4. ASSUME NEW k \in Keys
      PROVE  version_chains'[k] \in Seq(Entries) /\ Ascending(version_chains'[k])
  <2>1. version_chains[k] \in Seq(Entries) /\ Ascending(version_chains[k])
    BY DEF TypeOK, StoreTypeOK, ChainsAscending
  <2>2. CASE k \in keys
    <3>1. version_chains'[k] = AppendEntry(version_chains[k], entry)
      BY <1>2, <2>2
    <3>2. s \in Nat
      BY ChainVersions
    <3>3. Appendable(version_chains[k], entry, s)
      BY <1>3, <2>2
    <3> QED BY <1>1, <2>1, <3>1, <3>2, <3>3, ChainVersions,
               AppendEntryPreserves
  <2>3. CASE k \notin keys
    BY <1>2, <2>1, <2>3
  <2> QED BY <2>2, <2>3
<1> QED BY <1>2, <1>4 DEF ChainsAscending

(***************************************************************************)
(* Chains stay typed and ascending through a collection.                   *)
(***************************************************************************)
LEMMA GcKeepsChains ==
  ASSUME TypeOK, ChainsAscending, NEW m \in Nat, CollectGarbage(m)
  PROVE  /\ version_chains' \in [Keys -> Seq(Entries)]
         /\ ChainsAscending'
<1> DEFINE t == GcThreshold(m)
<1>1. t \in Nat
  BY GcThresholdSpec DEF TypeOK, StoreTypeOK
<1>2. version_chains' = [k \in Keys |-> PruneBelow(version_chains[k], t)]
  BY DEF CollectGarbage, GcChains
<1> HIDE DEF t
<1>3. ASSUME NEW k \in Keys
      PROVE  version_chains'[k] \in Seq(Entries) /\ Ascending(version_chains'[k])
  <2>1. version_chains[k] \in Seq(Entries) /\ Ascending(version_chains[k])
    BY DEF TypeOK, StoreTypeOK, ChainsAscending
  <2>2. version_chains'[k] = PruneBelow(version_chains[k], t)
    BY <1>2
  <2> QED BY <1>1, <2>1, <2>2, ChainVersions, PruneBelowPreserves
<1> QED BY <1>2, <1>3 DEF ChainsAscending

(***************************************************************************)
(* The holders of a version are finitely many, so they can be counted.     *)
(***************************************************************************)
LEMMA HoldersFinite ==
  ASSUME NEW v
  PROVE  IsFiniteSet(Holders(v)) /\ Cardinality(Holders(v)) \in Nat
<1>1. Holders(v) \subseteq Readers
  BY DEF Holders
<1> QED BY <1>1, ReadersAssumption, FS_Subset, FS_CardinalityType

(***************************************************************************)
(* The pin capture_and_register_snapshot adds is the new holder's.         *)
(***************************************************************************)
LEMMA AcquireKeepsPins ==
  ASSUME TypeOK, PinsCountHolders, NEW r \in Readers, AcquireSnapshot(r)
  PROVE  PinsCountHolders'
<1> SUFFICES ASSUME NEW v \in Versions
             PROVE  active_snapshots'[v] = Cardinality(Holders(v)')
  BY DEF PinsCountHolders
<1>1. /\ held[r] = NoSnapshot
      /\ held' = [held EXCEPT ![r] = global_version]
      /\ active_snapshots' =
           [active_snapshots EXCEPT ![global_version] = @ + 1]
      /\ global_version \in Versions
      /\ held \in [Readers -> Versions \cup {NoSnapshot}]
      /\ active_snapshots \in [Versions -> Nat]
  BY DEF AcquireSnapshot, CaptureAndRegisterSnapshot, RegisterSnapshot,
         TypeOK, StoreTypeOK
<1>2. active_snapshots[v] = Cardinality(Holders(v))
  BY DEF PinsCountHolders
<1>3. v # NoSnapshot
  BY ChainVersions, ReadersAssumption
<1>4. CASE v = global_version
  <2>1. Holders(v)' = Holders(v) \cup {r}
    BY <1>1, <1>4 DEF Holders
  <2>2. r \notin Holders(v)
    BY <1>1, <1>3 DEF Holders
  <2>3. Cardinality(Holders(v)') = Cardinality(Holders(v)) + 1
    BY Zenon, <2>1, <2>2, HoldersFinite, FS_AddElement
  <2>4. active_snapshots'[v] = active_snapshots[v] + 1
    BY <1>1, <1>4
  <2> QED BY <1>2, <2>3, <2>4
<1>5. CASE v # global_version
  <2>1. Holders(v)' = Holders(v)
    BY <1>1, <1>3, <1>5 DEF Holders
  <2>2. active_snapshots'[v] = active_snapshots[v]
    BY <1>1, <1>5
  <2> QED BY <1>2, <2>1, <2>2
<1> QED BY <1>4, <1>5

(***************************************************************************)
(* unregister_snapshot, whether it decrements or removes the row, takes    *)
(* one holder off the count of its version and of no other.                *)
(***************************************************************************)
LEMMA ReleaseKeepsPins ==
  ASSUME TypeOK, PinsCountHolders, NEW r \in Readers, ReleaseSnapshot(r)
  PROVE  PinsCountHolders'
<1> SUFFICES ASSUME NEW v \in Versions
             PROVE  active_snapshots'[v] = Cardinality(Holders(v)')
  BY DEF PinsCountHolders
<1>1. /\ held[r] # NoSnapshot
      /\ held' = [held EXCEPT ![r] = NoSnapshot]
      /\ active_snapshots' =
           [active_snapshots EXCEPT ![held[r]] = IF @ <= 1 THEN 0 ELSE @ - 1]
      /\ held \in [Readers -> Versions \cup {NoSnapshot}]
      /\ active_snapshots \in [Versions -> Nat]
  BY DEF ReleaseSnapshot, UnregisterSnapshot, TypeOK, StoreTypeOK
<1>2. active_snapshots[v] = Cardinality(Holders(v))
  BY DEF PinsCountHolders
<1>3. v # NoSnapshot
  BY ChainVersions, ReadersAssumption
<1>4. CASE v = held[r]
  <2>1. Holders(v)' = Holders(v) \ {r}
    BY <1>1, <1>3, <1>4 DEF Holders
  <2>2. r \in Holders(v)
    BY <1>4 DEF Holders
  <2>3. Cardinality(Holders(v)') = Cardinality(Holders(v)) - 1
    <3>1. IsFiniteSet(Holders(v))
      BY HoldersFinite
    <3> QED BY Zenon, <2>1, <2>2, <3>1, FS_RemoveElement
  <2>4. Cardinality(Holders(v)') \in Nat
    BY Zenon, <2>1, HoldersFinite, FS_RemoveElement, FS_CardinalityType
  <2>5. active_snapshots'[v] =
          IF active_snapshots[v] <= 1 THEN 0 ELSE active_snapshots[v] - 1
    BY <1>1, <1>4
  <2> QED BY <1>2, <2>3, <2>4, <2>5, HoldersFinite
<1>5. CASE v # held[r]
  <2>1. Holders(v)' = Holders(v)
    BY <1>1, <1>3, <1>5 DEF Holders
  <2>2. active_snapshots'[v] = active_snapshots[v]
    BY <1>1, <1>5
  <2> QED BY <1>2, <2>1, <2>2
<1> QED BY <1>4, <1>5

(***************************************************************************)
(* Every step preserves the types, action by action.                       *)
(***************************************************************************)
LEMMA NextKeepsTypes ==
  ASSUME TypeOK, ChainsAscending, [Next]_vars
  PROVE  TypeOK'
<1> USE DEF TypeOK, StoreTypeOK
<1>1. ASSUME NEW r \in Readers, AcquireSnapshot(r) PROVE TypeOK'
  BY <1>1 DEF AcquireSnapshot, CaptureAndRegisterSnapshot, RegisterSnapshot
<1>2. ASSUME NEW r \in Readers, ReleaseSnapshot(r) PROVE TypeOK'
  <2>1. held[r] \in Versions
    BY <1>2 DEF ReleaseSnapshot
  <2>2. active_snapshots' \in [Versions -> Nat]
    BY <1>2, <2>1 DEF ReleaseSnapshot, UnregisterSnapshot
  <2> QED BY <1>2, <2>2 DEF ReleaseSnapshot
<1>3. CASE AllocateCommitVersion
  <2>1. global_version + 1 \in Versions
    BY <1>3, MaxVersionAssumption
       DEF AllocateCommitVersion, NextGlobalVersion, Versions
  <2> QED BY <1>3, <2>1 DEF AllocateCommitVersion, NextGlobalVersion
<1>4. ASSUME NEW keys \in SUBSET Keys, NEW txn \in TxnIds, NEW s \in Versions,
             PublishCommit(keys, txn, s)
      PROVE  TypeOK'
  <2>1. version_chains' \in [Keys -> Seq(Entries)]
    BY Zenon, <1>4, PublishKeepsChains
  <2> QED BY <1>4, <2>1 DEF PublishCommit
<1>5. CASE AbandonCommit
  BY <1>5, MaxVersionAssumption DEF AbandonCommit, store_vars, Versions
<1>6. ASSUME NEW k \in Keys, IndexRecord(k) PROVE TypeOK'
  <2>1. /\ record_index' \in [Keys -> Versions]
        /\ record_versions' \in [Keys -> SUBSET Versions]
    BY <1>6 DEF IndexRecord, PutRecordIndexWithBody
  <2>2. 0 \in Versions
    BY MaxVersionAssumption DEF Versions
  <2> QED BY Zenon, <1>6, <2>1, <2>2 DEF IndexRecord
<1>7. ASSUME NEW m \in Versions \cup {U64Max}, CollectGarbage(m)
      PROVE  TypeOK'
  <2>1. m \in Nat
    BY ChainVersions, U64MaxAssumption
  <2>2. version_chains' \in [Keys -> Seq(Entries)]
    BY <1>7, <2>1, GcKeepsChains
  <2>3. record_versions' \in [Keys -> SUBSET Versions]
    BY <1>7 DEF CollectGarbage, GcChains, RetainedRows
  <2> QED BY <1>7, <2>2, <2>3 DEF CollectGarbage
<1>8. CASE UNCHANGED vars
  BY <1>8 DEF vars, store_vars
<1> QED BY Zenon, <1>1, <1>2, <1>3, <1>4, <1>5, <1>6, <1>7, <1>8 DEF Next

(***************************************************************************)
(* Every step keeps the chains ascending.                                  *)
(***************************************************************************)
LEMMA NextKeepsChains ==
  ASSUME TypeOK, ChainsAscending, [Next]_vars
  PROVE  ChainsAscending'
<1>1. CASE UNCHANGED version_chains
  BY <1>1 DEF ChainsAscending
<1>2. ASSUME NEW keys \in SUBSET Keys, NEW txn \in TxnIds, NEW s \in Versions,
             PublishCommit(keys, txn, s)
      PROVE  ChainsAscending'
  BY <1>2, PublishKeepsChains
<1>3. ASSUME NEW m \in Versions \cup {U64Max}, CollectGarbage(m)
      PROVE  ChainsAscending'
  BY <1>3, ChainVersions, U64MaxAssumption, GcKeepsChains
<1> QED
  BY Zenon, <1>1, <1>2, <1>3
     DEF Next, AcquireSnapshot, ReleaseSnapshot, AllocateCommitVersion,
         AbandonCommit, IndexRecord, vars, store_vars

(***************************************************************************)
(* Every step keeps the registry equal to the holders: commits and         *)
(* collections touch neither.                                              *)
(***************************************************************************)
LEMMA NextKeepsPins ==
  ASSUME TypeOK, PinsCountHolders, [Next]_vars
  PROVE  PinsCountHolders'
<1>1. CASE UNCHANGED <<active_snapshots, held>>
  BY <1>1 DEF PinsCountHolders, Holders
<1>2. ASSUME NEW r \in Readers, AcquireSnapshot(r) PROVE PinsCountHolders'
  BY <1>2, AcquireKeepsPins
<1>3. ASSUME NEW r \in Readers, ReleaseSnapshot(r) PROVE PinsCountHolders'
  BY <1>3, ReleaseKeepsPins
<1> QED
  BY Zenon, <1>1, <1>2, <1>3
     DEF Next, AllocateCommitVersion, PublishCommit, AbandonCommit,
         IndexRecord, CollectGarbage, vars, store_vars

(***************************************************************************)
(* The invariant is inductive.                                             *)
(***************************************************************************)
LEMMA NextIInv == IInv /\ [Next]_vars => IInv'
BY NextKeepsTypes, NextKeepsChains, NextKeepsPins DEF IInv

(***************************************************************************)
(* Every table keeps its type: in particular no count goes below zero and  *)
(* no prune leaves anything but a chain.                                   *)
(***************************************************************************)
THEOREM TypeCorrect == Spec => []TypeOK
<1>1. IInv => TypeOK
  BY DEF IInv
<1> QED BY <1>1, InitIInv, NextIInv, PTL DEF Spec

(***************************************************************************)
(* Chains are strictly ascending in every reachable state (I1): the checks *)
(* of append_chain_entries_bulk are enough for any interleaving of commits *)
(* and collections.                                                        *)
(***************************************************************************)
THEOREM ChainsAlwaysAscending == Spec => []ChainsAscending
<1>1. IInv => ChainsAscending
  BY DEF IInv
<1> QED BY <1>1, InitIInv, NextIInv, PTL DEF Spec

(***************************************************************************)
(* The snapshot registry counts exactly the readers that hold each         *)
(* version, however many share it.                                         *)
(***************************************************************************)
THEOREM PinsAlwaysCountHolders == Spec => []PinsCountHolders
<1>1. IInv => PinsCountHolders
  BY DEF IInv
<1> QED BY <1>1, InitIInv, NextIInv, PTL DEF Spec

-----------------------------------------------------------------------------
(***************************************************************************)
(* A version a reader holds is pinned.                                     *)
(***************************************************************************)
LEMMA HeldIsPinned ==
  ASSUME TypeOK, PinsCountHolders, NEW r \in Readers, held[r] # NoSnapshot
  PROVE  held[r] \in Pinned /\ held[r] \in Versions
<1>1. held[r] \in Versions
  BY DEF TypeOK
<1>2. active_snapshots[held[r]] = Cardinality(Holders(held[r]))
  BY <1>1 DEF PinsCountHolders
<1>3. r \in Holders(held[r])
  BY DEF Holders
<1>4. Cardinality(Holders(held[r])) # 0
  BY <1>3, HoldersFinite, FS_EmptySet
<1> QED BY <1>1, <1>2, <1>4, HoldersFinite DEF Pinned

(***************************************************************************)
(* A step of the system changes what a reader sees only by publishing a    *)
(* version at or below the snapshot it holds.                              *)
(***************************************************************************)
LEMMA NextHeldReadStep ==
  ASSUME IInv, Next PROVE HeldReadStep
<1> SUFFICES ASSUME NEW r \in Readers, NEW k \in Keys,
                    held[r] # NoSnapshot, held'[r] = held[r]
             PROVE  \/ ReadAtSnapshot(version_chains'[k], held[r])
                         = ReadAtSnapshot(version_chains[k], held[r])
                    \/ /\ in_flight # 0 /\ in_flight <= held[r]
                       /\ \E txn \in TxnIds :
                            version_chains'[k] =
                              Append(version_chains[k],
                                     [cv |-> in_flight, txn |-> txn])
  BY Zenon DEF HeldReadStep
<1>1. /\ held[r] \in Pinned /\ held[r] \in Versions /\ held[r] \in Nat
      /\ version_chains[k] \in Seq(Entries)
      /\ in_flight \in Versions /\ in_flight \in Nat
  BY Zenon, HeldIsPinned, ChainVersions DEF IInv, TypeOK, StoreTypeOK
<1>2. CASE UNCHANGED version_chains
  BY <1>2
<1>3. ASSUME NEW keys \in SUBSET Keys, NEW txn \in TxnIds, NEW s \in Versions,
             PublishCommit(keys, txn, s)
      PROVE  \/ ReadAtSnapshot(version_chains'[k], held[r])
                  = ReadAtSnapshot(version_chains[k], held[r])
             \/ /\ in_flight # 0 /\ in_flight <= held[r]
                /\ version_chains'[k] =
                     Append(version_chains[k], [cv |-> in_flight, txn |-> txn])
  <2> DEFINE entry == [cv |-> in_flight, txn |-> txn]
  <2>1. /\ in_flight # 0
        /\ version_chains'[k] = IF k \in keys
                                THEN AppendEntry(version_chains[k], entry)
                                ELSE version_chains[k]
    BY <1>3 DEF PublishCommit, AppendChainEntriesBulk
  <2>2. entry \in Entries /\ entry.cv = in_flight
    BY <1>1 DEF Entries
  <2> HIDE DEF entry
  <2>3. CASE version_chains'[k] = version_chains[k]
    BY <2>3
  <2>4. CASE version_chains'[k] = Append(version_chains[k], entry)
    <3>1. CASE in_flight <= held[r]
      BY <2>1, <2>4, <3>1 DEF entry
    <3>2. CASE in_flight > held[r]
      <4>1. \A e \in Entries : e.cv \in Nat
        BY ChainVersions
      <4>2. /\ version_chains[k] \in Seq(Entries) /\ held[r] \in Nat
            /\ entry \in Entries /\ entry.cv > held[r]
        BY <1>1, <2>2, <3>2
      <4>3. ReadAtSnapshot(Append(version_chains[k], entry), held[r])
              = ReadAtSnapshot(version_chains[k], held[r])
        BY ONLY <4>1, <4>2, AppendInvisibleBelow
      <4> QED BY <2>4, <4>3
    <3>3. in_flight <= held[r] \/ in_flight > held[r]
      <4>1. in_flight \in Nat /\ held[r] \in Nat
        BY <1>1
      <4> QED BY ONLY <4>1
    <3> QED BY <3>1, <3>2, <3>3
  <2> QED BY <2>1, <2>3, <2>4 DEF AppendEntry
<1>4. ASSUME NEW m \in Versions \cup {U64Max}, CollectGarbage(m)
      PROVE  ReadAtSnapshot(version_chains'[k], held[r])
               = ReadAtSnapshot(version_chains[k], held[r])
  <2> DEFINE t == GcThreshold(m)
  <2>1. m \in Nat
    BY ChainVersions, U64MaxAssumption
  <2>2. t \in Nat /\ t <= held[r] /\ t # U64Max
    BY Zenon, <1>1, <2>1, GcThresholdSpec DEF IInv, TypeOK, StoreTypeOK
  <2>3. version_chains'[k] = PruneBelow(version_chains[k], t)
    BY <1>4 DEF CollectGarbage, GcChains
  <2> HIDE DEF t
  <2>4. \A e \in Entries : e.cv \in Nat
    BY ChainVersions
  <2>5. ReadAtSnapshot(PruneBelow(version_chains[k], t), held[r])
          = ReadAtSnapshot(version_chains[k], held[r])
    BY <1>1, <2>2, <2>4, PruneBelowSafe, Zenon
  <2> QED BY <2>3, <2>5
<1> QED
  BY Zenon, <1>2, <1>3, <1>4
     DEF Next, AcquireSnapshot, ReleaseSnapshot, AllocateCommitVersion,
         AbandonCommit, IndexRecord, store_vars

(***************************************************************************)
(* GC safety (I8) for every interleaving: while a reader holds a snapshot, *)
(* only a commit that publishes at or below it changes what the reader     *)
(* sees; the collector never does.                                         *)
(***************************************************************************)
THEOREM GcPreservesHeldReads == Spec => HeldReadsStable
<1>1. IInv /\ [Next]_vars => [HeldReadStep]_vars
  BY NextHeldReadStep
<1> QED BY <1>1, InitIInv, NextIInv, PTL DEF Spec, HeldReadsStable

-----------------------------------------------------------------------------
(* The commit versions of a chain, and the rows of a key once the running  *)
(* commit has indexed it.                                                  *)
VersionsOf(chain) == {chain[i].cv : i \in 1 .. Len(chain)}

RowsOf(k) ==
  record_versions[k] \cup (IF k \in unindexed THEN {in_flight} ELSE {})

(* No snapshot that a reader holds, or would get, is older.                *)
OldEnough(v) ==
  /\ v <= global_version
  /\ \A r \in Readers : held[r] # NoSnapshot => v <= held[r]

(***************************************************************************)
(* Rows and chain need not be equal: a collection between the append and   *)
(* the index of a commit prunes the chain up to the new version and leaves *)
(* the rows their older anchor.  But every row that is not in the chain is *)
(* older than all of it, and no reader looks below the chain.              *)
(***************************************************************************)
RowsOK(k) ==
  LET C == VersionsOf(version_chains[k])
  IN  /\ C \subseteq RowsOf(k)
      /\ \A x \in RowsOf(k) \ C : \A c \in C : x < c
      /\ RowsOf(k) \ C # {} => \E c \in C : OldEnough(c)
      /\ \A c \in C : c <= global_version
      /\ k \in unindexed => in_flight \in C /\ \A c \in C : c <= in_flight

RowsInv ==
  /\ in_flight <= global_version
  /\ unindexed # {} => in_flight # 0
  /\ \A k \in Keys : RowsOK(k)

(***************************************************************************)
(* What read_at_snapshot answers on an ascending chain: the newest version *)
(* at or below the snapshot.                                               *)
(***************************************************************************)
LEMMA ChainVersionAtSpec ==
  ASSUME IInv, NEW k \in Keys, NEW s \in Nat
  PROVE  LET v == ChainVersionAt(k, s)
             C == VersionsOf(version_chains[k])
         IN  /\ v \in C \cup {0} /\ v <= s
             /\ \A c \in C : c <= s => c <= v
<1> DEFINE chain == version_chains[k]
           i == RPosition(chain, s)
<1>1. chain \in Seq(Entries) /\ Ascending(chain) /\ \A e \in Entries : e.cv \in Nat
  BY ChainVersions DEF IInv, TypeOK, StoreTypeOK, ChainsAscending
<1>2. /\ i \in 0 .. Len(chain)
      /\ i > 0 => chain[i].cv <= s
      /\ \A j \in (i + 1) .. Len(chain) : chain[j].cv > s
  <2> HIDE DEF chain
  <2> QED BY <1>1, RPositionSpec
<1>3. ChainVersionAt(k, s) = IF i = 0 THEN 0 ELSE chain[i].cv
  BY DEF ChainVersionAt, ReadAtSnapshot
<1> HIDE DEF chain, i
<1>4. Len(chain) \in Nat /\ \A j \in 1 .. Len(chain) : chain[j].cv \in Nat
  BY <1>1
<1>5. ASSUME NEW j \in 1 .. Len(chain), chain[j].cv <= s
      PROVE  i > 0 /\ chain[j].cv <= chain[i].cv
  <2>1. j <= i
    BY <1>2, <1>4, <1>5
  <2> QED BY <1>1, <1>2, <1>4, <1>5, <2>1 DEF Ascending
<1> QED BY <1>2, <1>3, <1>4, <1>5 DEF VersionsOf, chain

(***************************************************************************)
(* prune_below and the deletion of rows in gc_chains_inner apply one rule  *)
(* of retention: a version goes when a newer one is at or below the        *)
(* threshold.                                                              *)
(***************************************************************************)
LEMMA PruneIsRetention ==
  ASSUME NEW chain \in Seq(Entries), Ascending(chain), NEW t \in Nat
  PROVE  VersionsOf(PruneBelow(chain, t)) = RetainedRows(VersionsOf(chain), t)
<1> DEFINE C == VersionsOf(chain)
           p == PruneBelow(chain, t)
           n == Len(chain)
           q == RPosition(chain, t)
           f == KeepFrom(chain, t)
<1>1. /\ n \in Nat /\ \A e \in Entries : e.cv \in Nat
      /\ \A j \in 1 .. n : chain[j].cv \in Nat /\ chain[j].cv <= MaxVersion
      /\ MaxVersion \in Nat /\ MaxVersion < U64Max /\ U64Max \in Nat
  <2>1. \A e \in Entries : e.cv \in Nat /\ e.cv <= MaxVersion
    BY MaxVersionAssumption DEF Entries, Versions
  <2>2. n \in Nat /\ \A j \in 1 .. n : chain[j] \in Entries
    OBVIOUS
  <2> QED BY <2>1, <2>2, MaxVersionAssumption, U64MaxAssumption
<1>2. \A i, j \in 1 .. n : i < j => chain[i].cv < chain[j].cv
  BY DEF Ascending
<1>3. \A c : c \in C <=> \E j \in 1 .. n : c = chain[j].cv
  BY DEF VersionsOf
<1>4. CASE n <= 1
  <2>1. p = chain
    BY <1>4 DEF PruneBelow
  <2>2. \A c, d \in C : ~ (c < d)
    BY <1>1, <1>3, <1>4
  <2> QED BY <2>1, <2>2 DEF RetainedRows
<1>5. CASE n > 1
  <2>1. /\ f \in 1 .. n /\ Len(p) = n - f + 1
        /\ \A i \in 1 .. Len(p) : p[i] = chain[i + f - 1]
    BY <1>1, <1>5, PruneBelowShape
  <2>2. /\ q \in 0 .. n /\ (q > 0 => chain[q].cv <= t)
        /\ \A j \in (q + 1) .. n : chain[j].cv > t
    BY Zenon, <1>1, RPositionSpec
  <2>3. f = IF t = U64Max THEN n ELSE IF q = 0 THEN 1 ELSE q
    BY DEF KeepFrom
  <2> HIDE DEF p, q, f, C, n
  <2>4. ASSUME NEW j \in 1 .. n, j < f PROVE chain[j].cv < chain[f].cv /\ chain[f].cv <= t
    BY <1>1, <1>2, <1>5, <2>1, <2>2, <2>3, <2>4
  <2>5. ASSUME NEW j \in 1 .. n, j >= f, NEW i \in 1 .. n, chain[j].cv < chain[i].cv
        PROVE  chain[i].cv > t
    <3>1. j < i
      BY <1>1, <1>2, <2>5
    <3> QED BY <1>1, <1>5, <2>1, <2>2, <2>3, <2>5, <3>1
  <2>6. ASSUME NEW c \in VersionsOf(p) PROVE c \in RetainedRows(C, t)
    <3>1. PICK i \in 1 .. Len(p) : c = p[i].cv
      BY <2>6 DEF VersionsOf
    <3>2. PICK j \in 1 .. n : j >= f /\ c = chain[j].cv
      BY <1>1, <2>1, <3>1
    <3>3. c \in C /\ c \in Nat
      BY <1>1, <1>3, <3>2
    <3>4. ASSUME NEW w \in C, c < w PROVE w > t
      BY <1>1, <1>3, <2>5, <3>2, <3>4
    <3>5. \A w \in C : w \in Nat
      BY <1>1, <1>3
    <3> QED BY <3>3, <3>4, <3>5 DEF RetainedRows
  <2>7. ASSUME NEW c \in RetainedRows(C, t) PROVE c \in VersionsOf(p)
    <3>1. PICK j \in 1 .. n : c = chain[j].cv
      BY <1>3, <2>7 DEF RetainedRows
    <3>2. chain[f].cv \in C
      BY <1>3, <2>1
    <3>3. ~ (j < f)
      BY <2>4, <2>7, <3>1, <3>2 DEF RetainedRows
    <3>4. j - f + 1 \in 1 .. Len(p) /\ (j - f + 1) + f - 1 = j
      BY <1>1, <2>1, <3>3
    <3>5. p[j - f + 1] = chain[j]
      BY <2>1, <3>4
    <3> QED BY <3>1, <3>4, <3>5 DEF VersionsOf
  <2> QED BY Zenon, <2>6, <2>7 DEF C, p
<1> QED BY <1>1, <1>4, <1>5

(***************************************************************************)
(* append_chain_entries_bulk adds the version of the commit to the chain,  *)
(* as the newest.                                                          *)
(***************************************************************************)
LEMMA AppendedVersions ==
  ASSUME NEW chain \in Seq(Entries), Ascending(chain), NEW entry \in Entries,
         NEW s, Appendable(chain, entry, s)
  PROVE  /\ VersionsOf(AppendEntry(chain, entry)) = VersionsOf(chain) \cup {entry.cv}
         /\ \A c \in VersionsOf(chain) : c <= entry.cv
<1> DEFINE n == Len(chain)
<1>1. /\ n \in Nat /\ \A j \in 1 .. n : chain[j] \in Entries
      /\ chain = <<>> <=> n = 0
  OBVIOUS
<1>2. entry.cv \in Nat /\ \A j \in 1 .. n : chain[j].cv \in Nat
  BY <1>1, ChainVersions
<1>3. n > 0 => chain[n].cv <= entry.cv
  BY <1>1, <1>2 DEF Appendable, Duplicate, LatestCommitVersion
<1>4. \A j \in 1 .. n : chain[j].cv <= chain[n].cv
  BY <1>1, <1>2 DEF Ascending
<1>5. \A c \in VersionsOf(chain) : c <= entry.cv
  BY <1>1, <1>2, <1>3, <1>4 DEF VersionsOf
<1>6. CASE Duplicate(chain, entry)
  BY <1>1, <1>5, <1>6 DEF Duplicate, AppendEntry, VersionsOf
<1>7. CASE ~ Duplicate(chain, entry)
  <2>1. AppendEntry(chain, entry) = Append(chain, entry)
    BY <1>7 DEF AppendEntry
  <2>2. /\ Len(Append(chain, entry)) = n + 1
        /\ Append(chain, entry)[n + 1] = entry
        /\ \A i \in 1 .. n : Append(chain, entry)[i] = chain[i]
    OBVIOUS
  <2>3. VersionsOf(Append(chain, entry)) = VersionsOf(chain) \cup {entry.cv}
    BY <1>1, <2>2 DEF VersionsOf
  <2> QED BY <1>5, <2>1, <2>3
<1> QED BY <1>6, <1>7

(***************************************************************************)
(* The versions of a chain and its rows are numbers.                       *)
(***************************************************************************)
LEMMA RowTypes ==
  ASSUME TypeOK, NEW k \in Keys
  PROVE  /\ VersionsOf(version_chains[k]) \subseteq Nat /\ RowsOf(k) \subseteq Nat
         /\ in_flight \in Nat /\ global_version \in Nat
         /\ \A r \in Readers : held[r] # NoSnapshot => held[r] \in Nat
<1>1. /\ version_chains[k] \in Seq(Entries) /\ record_versions[k] \in SUBSET Versions
      /\ in_flight \in Versions /\ global_version \in Versions
      /\ held \in [Readers -> Versions \cup {NoSnapshot}]
  BY DEF TypeOK, StoreTypeOK
<1>2. \A i \in 1 .. Len(version_chains[k]) : version_chains[k][i] \in Entries
  BY <1>1
<1>3. VersionsOf(version_chains[k]) \subseteq Nat
  BY <1>2, ChainVersions DEF VersionsOf
<1> QED BY Zenon, <1>1, <1>3, ChainVersions DEF RowsOf

(***************************************************************************)
(* A step that leaves the chain of a key alone and takes no snapshot below *)
(* the newest version keeps its rows in agreement.                         *)
(***************************************************************************)
LEMMA RowsKept ==
  ASSUME TypeOK, NEW k \in Keys, RowsOK(k),
         version_chains'[k] = version_chains[k], RowsOf(k)' = RowsOf(k),
         k \in unindexed' => k \in unindexed /\ in_flight' = in_flight,
         global_version' \in Nat, global_version' >= global_version,
         \A r \in Readers : held'[r] \in {held[r], global_version, NoSnapshot}
  PROVE  RowsOK(k)'
<1>1. /\ VersionsOf(version_chains[k]) \subseteq Nat /\ global_version \in Nat
      /\ \A r \in Readers : held[r] # NoSnapshot => held[r] \in Nat
  BY RowTypes
<1>2. VersionsOf(version_chains[k])' = VersionsOf(version_chains[k])
  BY DEF VersionsOf
<1>3. \A c \in VersionsOf(version_chains[k]) : OldEnough(c) => OldEnough(c)'
  BY <1>1 DEF OldEnough
<1>4. \A c \in VersionsOf(version_chains[k]) : c <= global_version => c <= global_version'
  BY <1>1
<1> QED BY <1>2, <1>3, <1>4 DEF RowsOK

(***************************************************************************)
(* The append of a commit: the new version is in the chain, and is a row   *)
(* to be written.                                                          *)
(***************************************************************************)
LEMMA PublishKeepsRows ==
  ASSUME IInv, IInv', RowsInv, NEW keys \in SUBSET Keys, NEW txn \in TxnIds,
         NEW s \in Versions, PublishCommit(keys, txn, s)
  PROVE  RowsInv'
<1> DEFINE entry == [cv |-> in_flight, txn |-> txn]
<1>1. /\ unindexed = {} /\ unindexed' = keys /\ in_flight # 0
      /\ UNCHANGED <<global_version, record_versions, held, in_flight>>
      /\ version_chains' = [k \in Keys |-> IF k \in keys
                                           THEN AppendEntry(version_chains[k], entry)
                                           ELSE version_chains[k]]
      /\ \A k \in keys : Appendable(version_chains[k], entry, s)
  BY DEF PublishCommit, AppendChainEntriesBulk, BulkAppendable
<1>2. entry \in Entries /\ entry.cv = in_flight
  BY DEF Entries, IInv, TypeOK
<1> HIDE DEF entry
<1>3. ASSUME NEW k \in Keys PROVE RowsOK(k)'
  <2>1. /\ VersionsOf(version_chains[k]) \subseteq Nat /\ RowsOf(k) \subseteq Nat
        /\ in_flight \in Nat /\ global_version \in Nat
        /\ \A r \in Readers : held[r] # NoSnapshot => held[r] \in Nat
    BY RowTypes DEF IInv
  <2>2. RowsOK(k) /\ version_chains[k] \in Seq(Entries) /\ in_flight <= global_version
    BY DEF RowsInv, IInv, TypeOK, StoreTypeOK
  <2>3. CASE k \notin keys
    <3>1. version_chains'[k] = version_chains[k] /\ RowsOf(k)' = RowsOf(k)
      BY <1>1, <2>3 DEF RowsOf
    <3> QED BY <1>1, <2>1, <2>2, <2>3, <3>1, RowsKept DEF IInv
  <2>4. CASE k \in keys
    <3> DEFINE C == VersionsOf(version_chains[k])
               old == version_chains[k]
               new == version_chains'[k]
    <3>1. new = AppendEntry(old, entry) /\ Appendable(old, entry, s)
      BY Zenon, <1>1, <2>4
    <3>2. VersionsOf(new) = C \cup {in_flight} /\ \A c \in C : c <= in_flight
      <4>1. Ascending(old)
        BY DEF IInv, ChainsAscending
      <4> QED BY Zenon, <1>2, <2>2, <3>1, <4>1, AppendedVersions
    <3>3. RowsOf(k)' = RowsOf(k) \cup {in_flight} /\ k \in unindexed' /\ k \notin unindexed
      BY <1>1, <2>4 DEF RowsOf
    <3>4. \A c : OldEnough(c) => OldEnough(c)'
      BY <1>1 DEF OldEnough
    <3>5. /\ C \subseteq RowsOf(k)
          /\ \A x \in RowsOf(k) \ C : \A c \in C : x < c
          /\ RowsOf(k) \ C # {} => \E c \in C : OldEnough(c)
          /\ \A c \in C : c <= global_version
      BY <2>2 DEF RowsOK
    <3>6. \A x \in RowsOf(k) \ C : x < in_flight
      BY <2>1, <3>2, <3>5
    <3> HIDE DEF C, old, new
    <3>7. VersionsOf(version_chains[k])' = C \cup {in_flight}
      BY <3>2 DEF new
    <3> QED BY <1>1, <2>1, <2>2, <3>2, <3>3, <3>4, <3>5, <3>6, <3>7 DEF RowsOK
  <2> QED BY <2>3, <2>4
<1> QED BY <1>1, <1>3 DEF RowsInv

(***************************************************************************)
(* One rule of retention, applied to a chain C and to its rows while the   *)
(* row of the running commit (in P) is still to be written.                *)
(***************************************************************************)
LEMMA RetentionAgrees ==
  ASSUME NEW C, NEW rows, NEW P, NEW t \in Nat,
         C \subseteq Nat, rows \subseteq Nat, P \subseteq Nat,
         C \subseteq rows \cup P,
         \A x \in (rows \cup P) \ C : \A c \in C : x < c,
         \A f \in P : f \in C /\ \A c \in C : c <= f
  PROVE  LET C2 == RetainedRows(C, t)
             R2 == RetainedRows(rows, t) \cup P
         IN  /\ C2 \subseteq C /\ C2 \subseteq R2 /\ P \subseteq C2
             /\ \A x \in R2 \ C2 : \A c \in C2 : x < c
             /\ R2 \ C2 # {} => (rows \cup P) \ C # {} \/ \E w \in C : w <= t
             /\ \A w \in C : \E c \in C2 : c = w \/ (w < c /\ c <= t)
<1> DEFINE C2 == RetainedRows(C, t)
           R2 == RetainedRows(rows, t) \cup P
<1>1. /\ \A c : c \in C2 <=> c \in C /\ \A w \in C : ~ (c < w /\ w <= t)
      /\ \A x : x \in R2 <=> \/ x \in P
                             \/ x \in rows /\ \A w \in rows : ~ (x < w /\ w <= t)
  BY DEF RetainedRows
<1> HIDE DEF C2, R2
<1>2. C2 \subseteq C /\ P \subseteq C2
  BY <1>1
<1>3. ASSUME NEW c \in C2 PROVE c \in R2
  <2>1. c \in C /\ c \in Nat /\ \A w \in C : ~ (c < w /\ w <= t)
    BY Zenon, <1>1
  <2>2. ASSUME NEW w \in rows, c < w, w <= t PROVE FALSE
    <3>1. w \notin C
      BY <2>1, <2>2
    <3>2. w < c /\ w \in Nat
      BY <2>1, <3>1
    <3> QED BY <2>1, <2>2, <3>2
  <2> QED BY Zenon, <1>1, <2>1, <2>2
<1>4. ASSUME NEW x \in R2 \ C2, NEW c \in C2 PROVE x < c
  <2>1. CASE x \notin C
    BY Zenon, <1>1, <2>1
  <2>2. CASE x \in C
    <3>1. PICK w \in C : x < w /\ w <= t
      BY <1>1, <2>2
    <3>2. c \in Nat /\ w \in Nat /\ x \in Nat /\ ~ (c < w /\ w <= t)
      BY Zenon, <1>1, <2>2
    <3> QED BY <3>1, <3>2
  <2> QED BY <2>1, <2>2
<1>5. R2 \ C2 # {} => (rows \cup P) \ C # {} \/ \E w \in C : w <= t
  <2> SUFFICES ASSUME NEW x \in R2 \ C2
               PROVE  x \in (rows \cup P) \ C \/ \E w \in C : w <= t
    OBVIOUS
  <2> QED BY <1>1
<1>6. ASSUME NEW w \in C PROVE \E c \in C2 : c = w \/ (w < c /\ c <= t)
  <2> DEFINE v == RecordVersionAtSnapshot(C, t)
  <2>1. v \in C \cup {0} /\ v <= t /\ \A d \in C : d <= t => d <= v
    BY Zenon, RecordVersionAtSnapshotSpec
  <2> HIDE DEF v
  <2>2. CASE w \notin C2
    <3>1. PICK d \in C : w < d /\ d <= t
      BY <1>1, <2>2
    <3>2. v \in C /\ w < v
      BY <2>1, <3>1
    <3>3. v \in C2
      BY <1>1, <2>1, <3>2
    <3> QED BY <2>1, <3>2, <3>3
  <2> QED BY <2>2
<1> QED BY Zenon, <1>2, <1>3, <1>4, <1>5, <1>6 DEF C2, R2

(***************************************************************************)
(* gc_chains_inner, between any two steps of a commit.                     *)
(***************************************************************************)
LEMMA GcKeepsRows ==
  ASSUME IInv, RowsInv, NEW m \in Versions \cup {U64Max}, CollectGarbage(m)
  PROVE  RowsInv'
<1> DEFINE t == GcThreshold(m)
<1>1. /\ version_chains' = [k \in Keys |-> PruneBelow(version_chains[k], t)]
      /\ record_versions' = [k \in Keys |-> RetainedRows(record_versions[k], t)]
      /\ UNCHANGED <<global_version, held, in_flight, unindexed>>
  BY DEF CollectGarbage, GcChains
<1>2. t \in Nat /\ \A r \in Readers : held[r] # NoSnapshot => t <= held[r]
  <2>1. m \in Nat
    BY Zenon, ChainVersions, U64MaxAssumption
  <2> QED BY Zenon, <2>1, HeldIsPinned, GcThresholdSpec DEF IInv, TypeOK, StoreTypeOK
<1> HIDE DEF t
<1>3. ASSUME NEW k \in Keys PROVE RowsOK(k)'
  <2> DEFINE C == VersionsOf(version_chains[k])
             P == IF k \in unindexed THEN {in_flight} ELSE {}
             C2 == RetainedRows(C, t)
             R2 == RetainedRows(record_versions[k], t) \cup P
  <2>1. /\ C \subseteq Nat /\ RowsOf(k) \subseteq Nat /\ global_version \in Nat
        /\ \A r \in Readers : held[r] # NoSnapshot => held[r] \in Nat
    BY RowTypes DEF IInv
  <2>2. RowsOf(k) = record_versions[k] \cup P
    BY DEF RowsOf
  <2>3. VersionsOf(version_chains[k])' = C2
    <3>1. version_chains[k] \in Seq(Entries) /\ Ascending(version_chains[k])
      BY DEF IInv, TypeOK, StoreTypeOK, ChainsAscending
    <3>2. version_chains'[k] = PruneBelow(version_chains[k], t)
      BY <1>1
    <3> QED BY <1>2, <3>1, <3>2, PruneIsRetention
  <2>4. RowsOf(k)' = R2
    BY <1>1 DEF RowsOf
  <2>5. /\ C \subseteq RowsOf(k)
        /\ \A x \in RowsOf(k) \ C : \A c \in C : x < c
        /\ RowsOf(k) \ C # {} => \E c \in C : OldEnough(c)
        /\ \A c \in C : c <= global_version
        /\ k \in unindexed => in_flight \in C /\ \A c \in C : c <= in_flight
    BY DEF RowsInv, RowsOK
  <2>p. \A f \in P : f \in C /\ \A c \in C : c <= f
    BY <2>5
  <2> HIDE DEF C, P
  <2>6. /\ C2 \subseteq C /\ C2 \subseteq R2 /\ P \subseteq C2
        /\ \A x \in R2 \ C2 : \A c \in C2 : x < c
        /\ R2 \ C2 # {} => RowsOf(k) \ C # {} \/ \E w \in C : w <= t
        /\ \A w \in C : \E c \in C2 : c = w \/ (w < c /\ c <= t)
    <3> DEFINE rows == record_versions[k]
    <3>1. rows \subseteq Nat /\ P \subseteq Nat /\ rows \cup P = RowsOf(k)
      BY <2>1, <2>2
    <3> HIDE DEF rows
    <3>2. /\ C \subseteq rows \cup P
          /\ \A x \in (rows \cup P) \ C : \A c \in C : x < c
      BY Zenon, <2>5, <3>1
    <3>3. LET D == RetainedRows(C, t)
              R == RetainedRows(rows, t) \cup P
          IN  /\ D \subseteq C /\ D \subseteq R /\ P \subseteq D
              /\ \A x \in R \ D : \A c \in D : x < c
              /\ R \ D # {} => (rows \cup P) \ C # {} \/ \E w \in C : w <= t
              /\ \A w \in C : \E c \in D : c = w \/ (w < c /\ c <= t)
      BY ZenonT(60), <1>2, <2>1, <2>p, <3>1, <3>2, RetentionAgrees
    <3> QED BY Zenon, <3>1, <3>3 DEF rows
  <2> HIDE DEF C2, R2
  <2>7. \A c \in C : c <= t => OldEnough(c)
    BY <1>2, <2>1, <2>5 DEF OldEnough
  <2>8. R2 \ C2 # {} => \E c \in C2 : OldEnough(c)
    <3>1. ASSUME NEW w \in C, OldEnough(w) PROVE \E c \in C2 : OldEnough(c)
      BY <2>6, <2>7, <3>1
    <3> QED BY <2>5, <2>6, <2>7, <3>1
  <2>9. \A c : OldEnough(c) => OldEnough(c)'
    BY <1>1 DEF OldEnough
  <2>10. k \in unindexed => in_flight \in P
    BY DEF P
  <2> QED BY <1>1, <2>3, <2>4, <2>5, <2>6, <2>8, <2>9, <2>10 DEF RowsOK
<1> QED BY <1>1, <1>3 DEF RowsInv

(***************************************************************************)
(* Every step of readers, the commit and the collector keeps the rows and  *)
(* the chains in agreement.                                                *)
(***************************************************************************)
LEMMA NextRowsInv ==
  ASSUME IInv, IInv', RowsInv, [Next]_vars
  PROVE  RowsInv'
<1>0. /\ global_version \in Nat /\ in_flight \in Nat /\ in_flight <= global_version
      /\ global_version' \in Nat /\ (unindexed # {} => in_flight # 0)
  BY ChainVersions DEF IInv, TypeOK, StoreTypeOK, RowsInv
<1>k. ASSUME UNCHANGED version_chains, \A k \in Keys : RowsOf(k)' = RowsOf(k),
             \A k \in unindexed' : k \in unindexed /\ in_flight' = in_flight,
             global_version' >= global_version, in_flight' <= global_version',
             unindexed' # {} => in_flight' # 0,
             \A r \in Readers : held'[r] \in {held[r], global_version, NoSnapshot}
      PROVE  RowsInv'
  BY <1>0, <1>k, RowsKept DEF RowsInv, IInv
<1>1. CASE \E r \in Readers : AcquireSnapshot(r) \/ ReleaseSnapshot(r)
  <2>1. /\ UNCHANGED <<global_version, version_chains, record_versions, in_flight, unindexed>>
        /\ \A r \in Readers : held'[r] \in {held[r], global_version, NoSnapshot}
    BY <1>1 DEF AcquireSnapshot, ReleaseSnapshot, IInv, TypeOK
  <2> QED BY <1>0, <1>k, <2>1 DEF RowsOf
<1>2. CASE AllocateCommitVersion
  <2>1. /\ UNCHANGED <<version_chains, record_versions, held, unindexed>>
        /\ global_version' = global_version + 1 /\ in_flight' = global_version'
        /\ in_flight = 0
    BY <1>2 DEF AllocateCommitVersion, NextGlobalVersion
  <2>2. unindexed = {}
    BY <2>1 DEF RowsInv
  <2> QED BY <1>0, <1>k, <2>1, <2>2 DEF RowsOf
<1>3. ASSUME NEW keys \in SUBSET Keys, NEW txn \in TxnIds, NEW s \in Versions,
             PublishCommit(keys, txn, s)
      PROVE  RowsInv'
  BY <1>3, PublishKeepsRows
<1>4. CASE AbandonCommit
  BY <1>0, <1>4, <1>k DEF AbandonCommit, RowsOf, store_vars
<1>5. ASSUME NEW k \in Keys, IndexRecord(k) PROVE RowsInv'
  <2>1. /\ k \in unindexed /\ unindexed' = unindexed \ {k}
        /\ in_flight' = IF unindexed = {k} THEN 0 ELSE in_flight
        /\ UNCHANGED <<global_version, version_chains, held>>
        /\ \A j \in Keys : record_versions'[j] =
             IF j = k THEN record_versions[j] \cup {in_flight} ELSE record_versions[j]
    BY <1>5 DEF IndexRecord, PutRecordIndexWithBody
  <2>2. \A j \in Keys : RowsOf(j)' = RowsOf(j)
    BY Zenon, <2>1 DEF RowsOf
  <2> QED BY <1>0, <1>k, <2>1, <2>2
<1>6. ASSUME NEW m \in Versions \cup {U64Max}, CollectGarbage(m) PROVE RowsInv'
  BY <1>6, GcKeepsRows
<1>7. CASE UNCHANGED vars
  BY <1>0, <1>7, <1>k DEF vars, store_vars, RowsOf
<1> QED BY Zenon, <1>1, <1>2, <1>3, <1>4, <1>5, <1>6, <1>7 DEF Next

(***************************************************************************)
(* The rows get_record_version_at_snapshot searches and the chain          *)
(* read_at_snapshot searches give a held snapshot, and the snapshot a new  *)
(* reader would get, the same version, unless the running commit has yet   *)
(* to index the key: however commits, collections and readers interleave.  *)
(***************************************************************************)
THEOREM RowsFollowChains == Spec => []RowsAgreeWithChains
<1>1. Init => RowsInv
  <2> SUFFICES ASSUME Init PROVE RowsInv
    OBVIOUS
  <2>1. /\ global_version = 0 /\ in_flight = 0 /\ unindexed = {}
        /\ \A k \in Keys : version_chains[k] = <<>> /\ record_versions[k] = {}
    BY DEF Init, StoreInit
  <2>2. \A k \in Keys : VersionsOf(version_chains[k]) = {} /\ RowsOf(k) = {}
    BY <2>1 DEF VersionsOf, RowsOf
  <2>3. \A k \in Keys : RowsOK(k)
    BY Zenon, <2>1, <2>2 DEF RowsOK
  <2> QED BY <2>1, <2>3 DEF RowsInv
<1>2. IInv /\ IInv' /\ RowsInv /\ [Next]_vars => RowsInv'
  BY NextRowsInv
<1>3. IInv /\ RowsInv => RowsAgreeWithChains
  <2> SUFFICES ASSUME IInv, RowsInv, NEW k \in Keys \ unindexed,
                      NEW s \in {held[r] : r \in Readers} \cup {global_version},
                      s # NoSnapshot
               PROVE  RecordVersionAtSnapshot(record_versions[k], s) = ChainVersionAt(k, s)
    BY DEF RowsAgreeWithChains
  <2> DEFINE C == VersionsOf(version_chains[k])
             rows == record_versions[k]
             x == RecordVersionAtSnapshot(rows, s)
             v == ChainVersionAt(k, s)
  <2>1. C \subseteq Nat /\ rows \subseteq Nat /\ s \in Nat /\ RowsOf(k) = rows
    BY Zenon, RowTypes DEF IInv, RowsOf
  <2>2. /\ C \subseteq rows
        /\ \A y \in rows \ C : \A c \in C : y < c
        /\ rows \ C # {} => \E c \in C : OldEnough(c)
    BY <2>1 DEF RowsInv, RowsOK
  <2>3. \A c \in C : OldEnough(c) => c <= s
    BY DEF OldEnough
  <2>4. x \in rows \cup {0} /\ x <= s /\ \A w \in rows : w <= s => w <= x
    BY <2>1, RecordVersionAtSnapshotSpec
  <2>5. v \in C \cup {0} /\ v <= s /\ \A c \in C : c <= s => c <= v
    BY <2>1, ChainVersionAtSpec
  <2> HIDE DEF C, rows, x, v
  <2>6. x \in C \/ x = 0
    BY <2>1, <2>2, <2>3, <2>4
  <2>7. x <= v /\ v <= x
    BY <2>1, <2>2, <2>4, <2>5, <2>6
  <2>8. x \in Nat /\ v \in Nat
    BY <2>1, <2>4, <2>5
  <2>9. x = v
    BY <2>7, <2>8
  <2> QED BY <2>9 DEF x, v, rows
<1> QED BY <1>1, <1>2, <1>3, InitIInv, NextIInv, PTL DEF Spec

=============================================================================
