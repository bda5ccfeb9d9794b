---------------------------- MODULE StoreFacts ------------------------------
(***************************************************************************)
(* What the proofs say about the chains and rows of the redb store.        *)
(***************************************************************************)
EXTENDS LocalStore

(* The entries of a chain, wherever they stand in it.                      *)
EntriesOf(chain) == {chain[i] : i \in 1 .. Len(chain)}

(* Chain c is chain d with the entry as its newest.                        *)
Extends(c, d, entry) ==
  /\ EntriesOf(c) = EntriesOf(d) \cup {entry}
  /\ c # <<>> /\ c[Len(c)] = entry
  /\ LatestCommitVersion(c) = entry.cv

(* Chain c is chain d without some entries, but with its newest.           *)
Trims(c, d) ==
  /\ EntriesOf(c) \subseteq EntriesOf(d)
  /\ c = <<>> <=> d = <<>>
  /\ d # <<>> => c[Len(c)] = d[Len(d)]
  /\ LatestCommitVersion(c) = LatestCommitVersion(d)

(* What the collector of the chains leaves: it only takes away, and never  *)
(* the newest entry of a chain.                                            *)
GcKeepsNewest ==
  \A m \in Nat : StoreTypeOK /\ GcChains(m) =>
    /\ version_chains' \in [Keys -> Seq(Entries)]
    /\ record_versions' \in [Keys -> SUBSET Versions]
    /\ \A k \in Keys : Trims(version_chains'[k], version_chains[k])

(* get_record_version_at_snapshot finds the newest row at or below the     *)
(* snapshot, and 0 when there is none.                                     *)
RowsAreFound ==
  \A rows \in SUBSET Nat, s \in Nat :
    LET v == RecordVersionAtSnapshot(rows, s)
    IN  /\ v \in rows \cup {0} /\ v <= s
        /\ \A w \in rows : w <= s => w <= v

(* What the proofs about the transaction service take from the search in   *)
(* sorted tables (VersionChainProofs proves it).                           *)
SearchFacts == GcKeepsNewest /\ RowsAreFound

=============================================================================
