# Verification of xtable

xtable is a single-node service for structured records. A local redb store
holds the log, the transactions and the version chains; S3 holds the data in
chunks. This directory models its transactions, its storage from MemTable to
chunk and back, its structured layer and its pure algorithms in TLA+,
model-checks them with TLC, and proves with TLAPS the safety of snapshot garbage
collection, of the transaction service through failing calls, crashes and
recovery, and of the storage of records.

## The system

| Part | Source | Model |
| --- | --- | --- |
| version chain of a key | `xtable-storage/src/version_chain.rs` | `VersionChain` |
| MVCC tables: global version, chains, version mirror, snapshot registry, record rows | `xtable-storage/src/store.rs` | `LocalStore` |
| transaction state, write set, write-ahead log | `store.rs`, `txn_state.rs`, `wal.rs` | `TxnStore` |
| SSI lock manager | `xtable-tx/src/si_lock_manager.rs`, `cahill.rs`, `xtable-storage/src/locks.rs` | `SiLockManager` |
| coordinator: begin, stage, read, heartbeat, commit, abort, repair of failed commits | `xtable-tx/src/coordinator.rs` | `TxnCoordinator` |
| reads and post-commit hook as a transaction sees them | `xtable-schema/src/engine.rs`, `xtable-storage/src/read.rs` | part of `TxnCoordinator` |
| stale-transaction sweep, chain collection | `xtable-tx/src/gc.rs` | `StaleTxnSweep`, `SnapshotGc` |
| crash and WAL recovery | `xtable-tx/src/recovery.rs`, `xtable-server/src/main.rs` | `WalRecovery` |
| snapshot readers | `StructuredReader` in `engine.rs` | `SnapshotGc` |
| MemTables: active, immutable, rotation, publish | `xtable-storage/src/memtable.rs` | `MemTables` |
| record rows, chunk index, objects in S3, the read path over all tiers | `store.rs`, `read.rs` | `ChunkStore` |
| flush loop, upload, pointer rewrite, WAL truncation | `xtable-storage/src/flush.rs` | `ChunkFlush` |
| crash, lost disk, cold rebuild | `xtable-tx/src/rebuild.rs`, `xtable-server/src/main.rs` | `ColdRebuild` |
| the storage as a whole, and what it promises | the same | `LsmTree`, `RecordReads` |
| schemas, records, pending writes, post-commit hook | `engine.rs` | `StructuredSpace` |
| HTTP handlers, restart | `xtable-server/src/structured.rs` | `StructuredApi` |
| bytes of a chunk | `xtable-storage/src/chunk.rs`, `read.rs` | `ChunkFormat` |
| filters, sort, pages | `xtable-schema/src/query.rs` | `RecordQuery` |
| JSON Schema validator | `xtable-schema/src/validation.rs` | `SchemaValidation` |
| record keys, diff, listing of schemas, S3 client | `key.rs`, `engine.rs`, `xtable-backend/src/client.rs` | not modelled, see the end |
| routing, authentication, configuration, telemetry, CLI | the other crates | not modelled: no shared state of their own |

A client begins a transaction, stages writes and reads records at the snapshot
captured at begin, and commits. Commits and aborts are serialised by
`commit_lock`; nothing else is. The handlers, the sweeper and the post-commit
hook all work on the same redb tables, each call being one atomic redb
transaction. The lock manager, the MemTable and the pending records live in
memory and are lost in a crash.

A commit puts its records into the active MemTable. When that is full or old it
becomes immutable, and the flush loop encodes each immutable table into a chunk,
uploads it, enters it in the chunk index and points the record rows at it. A
read looks in the active table, the immutable ones, the rows and the chunk, in
this order. A server that starts on an empty redb rebuilds the rows, the chains
and the version counter from the chunks.

## Modules

`Identifiers` declares keys and transaction ids. Upon it are built, by EXTENDS:

    VersionChain ── LocalStore ──┬── SnapshotGc ── SnapshotGcProofs
                                 └── TxnStore ──┐
    SiLockManager ──────────────────────────────┴─ TxnCoordinator ─┬─ StaleTxnSweep ─┐
                                                                   └─ WalRecovery ───┴─ TxnSystem

    MemTables ── ChunkStore ── ChunkFlush ── ColdRebuild ── LsmTree ── LsmTreeProofs
                                                            (INSTANCE RecordReads)
    StructuredSpace ── StructuredApi
    ChunkFormat, RecordQuery, SchemaValidation ── Algorithms

    LocalStore ── StoreFacts ──┬── VersionChainProofs ───────────────────────┐
    TxnSystem ─────────────────┴── TxnStepProofs ── TxnSystemProofs          │
                     ── TxnOutcomeProofs ── TxnRequestProofs ────────────────┴─ TxnTheorems

The four groups share no variables. Each keeps of the others what its own
questions need, and says so below.

`LocalStore`, `TxnStore` and `SiLockManager` define one operator per operation
of the code, which constrains only the tables that operation writes. The
modules below them say who calls it and leave the rest unchanged.

**SnapshotGc** has readers that pin and release, one commit in flight, and the
collector. It leaves out transactions, so that its theorems hold for any number
of readers, keys and versions. Every append is followed by its record rows; a
hook that fails is the subject of `TxnCoordinator`.

**TxnCoordinator** has request handlers. `req[h]` is a program counter and what
the handler carries between two store calls: the copy of the state record it
read, the staged keys it loaded, the version it allocated. One action is one
redb transaction with the in-memory calls that follow it; handlers, the sweeper
and crashes interleave between any two. Calls that only read, and whose result
cannot change before the next write, are part of the following step. `begun`
and the four history variables record what clients were told and saw; no guard
of a request depends on the histories. An error of a store call takes the error
path of its operation, at most `MaxFaults` times; `MaxMishaps` bounds failing
calls and crashes together.

**WalRecovery** empties what is in memory and runs recovery one transaction and
one store call at a time, in any order of transactions (the code iterates a hash
map). A second crash may cut it short. **StaleTxnSweep** has the calls of the
sweeper, which may fail as well: the status is Aborted by then, so the rest of
the sweep is never made up for.

Abstracted in these modules: record bodies, etags, sizes and times; spill files; a
write is always an upsert; the MemTable holds the newest version of each key and
is never flushed (`LsmTree` has both); the log is kept as the fold recovery computes from it
(`TxnStore!WalFold`); lists that are only searched are sets; the lock manager's
window of recent commits, which no decision reads, is left out.

**LsmTree** has one commit at a time (they are serialised), cut into the log
record, the chain append, the put into each table with the clone of the active
table taken before it, publish, and the row each hook entry writes. The flush
loop is one action per call of `flush_one`. A body is the number of the commit
that wrote it (`src`), so that a body under a wrong version shows. `mishaps`
records what went wrong so far: a failed call, a crash, a lost disk, a put into a
table that was rotated meanwhile ("late put"), a push of a rotated table behind
a younger one ("late push"). Properties that some of them break name them.
Conflicts, locks and repairs of a commit are left to `TxnCoordinator`: a commit
here succeeds or is lost in a crash. `open` has the transactions that have begun
and not committed, with the row of the log that `begin` or `stage` wrote last:
the flush cuts the log at a commit version, without looking at them. Recovery is
not part of this group.

**RecordReads** is what a reader of the newest snapshot may rely on, in five
variables: a committed version is under way until its row is written and settled
from then on, and a read answers the newest settled one or the one under way.
`LsmTree!ImplementsRecordReads` is the refinement, with the version a read
answers computed by the whole read path.

**StructuredSpace** has one table and its schema alias. A write is validated and
staged in one step and noted for the hook in another, as `upsert_record` does. A
commit takes its version, is checked and appended, published, and its hook makes
one put at a time: the row of a version, the newest row, the schema index. Each
put may fail by itself, which the code logs and forgets. A commit that fails
after its entries were appended is completed by the repair, without hook.
**StructuredApi** adds who calls it: one-write requests, batches, reads, and a
client with several requests; a handler may be dropped where it awaits, when its
client goes away, and leaves its transaction to the sweeper. A restart is warm
(the disk stays, and with it what the hook had put) or cold (the rows come from
the chunks, with schema version 0, and the schema index is empty). `mishaps`
records what went wrong, at most `MaxMishaps` times by a fault or a restart.
Refusals by the lock manager are left out: they end a commit as a conflict does.

**ChunkFormat** writes a file of cells, where a cell is a byte, an integer of
fixed width or the zstd frame of the body, and a length prefix wraps at its width; **RecordQuery** and **SchemaValidation**
are the code's functions over a small JSON domain. **Algorithms** runs one of the
three on one input and compares with a definition that does not follow the code.
These modules use RECURSIVE operators and have no theorems.

Definitions whose comment starts with "Deviation" are wrong on purpose: they are variants of
the definition below them, used to show that a property can fail.

## Runs

The runs `requests`, `faults` and `progress` use
`MCTxnSystem`: two handlers, a transaction `t0` that
committed version 1 before the behaviour starts, and two more transactions.
Handlers and the two transactions are symmetric, which the safety runs use and
the run with fairness does not. Two transactions suffice for
the conflicts the lock manager knows, all of which are between a pair; two keys
are needed for write skew and for partial publication. `MaxVersion = 3` gives
each of the two a version. Deadlock is checked in these runs and in
`snapshot_gc`: a request that is answered at once, or a release, is always
possible. It is not in `lsm`, `structured` and `algorithms`, where the bounds on
commits, versions and inputs end a behaviour.

| Run | Instance | Properties |
| --- | --- | --- |
| `snapshot_gc` | 2 readers, 2 keys, 3 versions | `TypeOK`, `ChainsAscending`, `PinsCountHolders`, `RowsAgreeWithChains`, `HeldReadsStable` |
| `requests` | all requests but heartbeat, sweeper, both keys written by `t0` | `TypeOK`, `FirstCommitterWins`, `AppendNeverRefused`, `CommittedIsReadable`, `ReadsDriftOnlyToSnapshot`, `NoRegisteredSkew` |
| `faults` | heartbeats, no reads, one key new; any two of crashes, recovery included, and failing calls in begin, stage, commit, abort and sweep | `OutcomeMatchesChains`, `CommitAnswersAgree`, `PinsAccounted`, `NotLeftCommitting`, `LeftCommittingIsDecided`, `MirrorLagsOnlyRepairs`, `RecoveryClosesLogs`, `LoggedCommitStands` |
| `progress` | 1 key, 1 crash, 1 failing call in commit, hook, abort; fairness | `ActiveIsPinned`, `CommitsEnd`, `LeftActiveIsAborted` |
| `lsm` | 1 key, 2 commits (one a tombstone), an open transaction, 3 tables, 4 chunks, 1 failing call, 1 crash, 1 lost disk; fairness | `SnapshotNotExceeded`, `NewestExactAtRest`, `PointersResolve`, `VersionsNotReused`, `CommittingRowInLog`, `RebuildRestoresReads`, `ReachesS3`, `ImplementsRecordReads` |
| `structured` | 1 record, 2 schema bodies of which one rejects the record, a client transaction beside a request, 2 versions, dropped handlers, 1 failing write or restart | `TypeOK`, `IndexIsChain`, `RecordsConform`, `SchemaVersionsInOrder`, `LastBindingHolds`, `SnapshotReadsAgree` |
| `algorithms` | chunks of up to 3 entries; 3 records, filters, orders and page sizes; all pairs of 119 schemas and 15 values | `FileHoldsEntries`, `PagesPartition`, `ValidateIsExact` |

**What `Overlap = FALSE` assumes.** In the three runs of `MCTxnSystem` a client
sends one request of a transaction at a time and the sweeper does not claim a
transaction with a request under way. No lock in the code ensures either. The
first is up to the clients; the second is up to time alone, the sweeper taking
only transactions without a sign of life for a long while. The run
`overlapping_sweep` shows what happens otherwise, with one client that sends one
request at a time. What these runs and the theorems with `~ Overlap` say holds as
long as that race is not met; `AppendHolds`, `RecoveryHolds` and `ServiceTypes`
hold with it. In `structured` the client sends one request at a time too, but
the sweeper may come at any time.

In `lsm` one key is enough for every order of versions, tables and chunks; a
second commit is needed for an entry that is hidden or renumbered, three tables
for one that is active while two wait, and four chunks leave room for the retry
of a failed flush. In `structured` two versions allow a binding, or a record,
and what overwrites it. Larger instances have been run with no violation: `lsm`
(without `ReachesS3`) with three commits and versions, on 1,175,106 states with
a failing call and a lost disk, 1,146,515 with a crash and a lost disk and
5,770,303 with a failing call and a crash; and `structured` with overlapping
requests (`Overlap = TRUE`, `MaxCalls = 2`) on 10,262,685 states. The inputs of
`algorithms` include keys that agree when written without separators, empty and
longest names, a filter of one byte and of several, equal ranks, absent sort
fields, values of different types in one sort field, lengths that do not fit
their prefix, a limit that divides the matches and one that does not, and nested
schemas.

Fairness (`TxnSystem!Fairness`) is weak fairness of the steps of a request
under way, of a claimed sweep and of recovery: tokio polls a ready task, the
sweeper's body is synchronous and `main` awaits recovery before it serves. No
request, fault, sweep or crash is required to happen, and a commit that waits for
`commit_lock` is not required to get it. The commit's own request is not dropped
in `TxnSystem`: once it has `commit_lock` its only await is the read of a spilled
body (coordinator.rs:516), and spill files are not modelled. In the code a request
dropped there leaves its transaction Committing until a restart.

`LsmTree!Fairness` is weak fairness of the flush loop, of a commit under way and
of the rebuild: the loop wakes every second and waits for nothing but S3, and
`MaxFaults` bounds its failures. **That a call to S3 ends, well or badly, is an
assumption the code does not secure**: `BackendClient` stores `request_timeout`
(client.rs:100) and applies it to no call, so only what the SDK does by itself
ends one. `ReachesS3` and the end of a rebuild rest on it.

The structured layer has no liveness property: a handler that is dropped leaves
its transaction to the sweeper, and nothing else in the code ends it.

### Disagreements with the documentation

Five runs show behaviours that contradict a statement of the repository. Each
checks one property and TLC ends with a counterexample; the findings in
`PROJECT.json` quote the statement.

| Run | What happens |
| --- | --- |
| `lost_update` | begin during a commit pins the version of that commit; the transaction reads the old record, overwrites the new one, and the conflict check lets it |
| `write_skew` | a read of a key another transaction has staged and not yet marked committed leaves no edge |
| `recovered_commit` | a crash between the Committed state and the post-commit hook: the records are not found |
| `flushed_body` | publish renumbers the entry of its key in an older table that waits for the flush; the chunk of that table has the older body under the new version, and the row of the new version points at it |
| `overlapping_sweep` | a heartbeat reads the record, the sweeper aborts the transaction, and the heartbeat puts its Active copy back |

The model has more behaviours of this kind. They are not runs of their own; each
can be seen by checking the property named here with the constants of the run
named here.

| Property | Constants of | What happens |
| --- | --- | --- |
| `RepeatableReads` | `requests` | the window of `lost_update`: two reads of one key differ |
| `ReadsOwnWrites` | `requests` | `get_record` does not look at staged writes |
| `NoPhantomEdges` | `requests` | a snapshot conflict aborts without telling the lock manager |
| `FinishedHoldNoPin` | `faults` | a crash inside abort, or a failing call of abort or of the sweeper between the status and the pin, leaks the pin |
| `CommittedIsReadable` | `faults` | a commit completed by the repair makes no MemTable entry and no record row |
| `CommitAnswersAgree`, `OutcomeMatchesChains` | `faults` with `Overlap = TRUE` | a stage puts back an Active copy of a transaction committed meanwhile; its commits answer differently |
| `OpenInLog` | `lsm` | the flush cuts the log at a commit version and takes the Begin and Stage rows of an open transaction with it; README.md:222 says that recovery aborts it, but recovery reads the log and ignores it |
| `RebuildNeverRefused` | `lsm` with `MaxFaults = MaxCrashes = 0` | the chunks of `flushed_body` hold one version twice; the append of the rebuild is refused and the server does not start |
| `CurrentSchemaChecked` | `structured` | a record and, after it, a stricter schema in one transaction: the record does not conform to the schema bound at its commit |
| `IndexIsChain` without "overlapping calls" in its premise | `structured` with `Overlap = TRUE`, `MaxCalls = 2` | a request on the same transaction comes between the staging of a write and its note in the pending map: the row differs from the chain |
| `BodySorted` | `algorithms` | chunk_format.md:64, 187 and 193-195, chunk.rs:26-27 and 579-580 and flush.rs:112-113 say that the body of a chunk is sorted by key; `ChunkWriter` keeps the order of the appends, and nothing sorts them |

Two more disagreements need no run. chunk_format.md:109 and 190 put `footer_len`
before the footer; the writer puts it last and the reader looks for it there
(`ChunkFinalize`). And `ORDER BY` over values of different types is not
an order: the comparison answers Equal for any such pair (query.rs:233), so that
2, "s", 1 ascending stays as it is (`RecordQuery!Insert` does the same, and
`PagesPartition` asks for an order only where the values have one type).

Further behaviours the models have, which the premises of their properties name:

* A crash between the final log record and the final state leaves a transaction
  Committing for good, though decided (`LeftCommittingIsDecided`); a crash inside
  recovery between log and state leaves one Active that the next recovery ignores
  (`RecoveryClosesLogs` speaks of the log).
* A commit completed by the repair leaves `TBL_VERSIONS` behind
  (`MirrorLagsOnlyRepairs`), and runs no hook.
* A crash between the release of the pin and the deletion of the record, on the
  error path of begin, leaves an Active transaction without pin
  (`ActiveIsPinned` allows one failure).
* A write that lands in a table already flushed never reaches S3 ("late put"); a
  table whose flush failed is pushed back behind younger ones and its older
  version can hide a newer one; a crash loses what is only in MemTables; a chunk
  that a rebuild cannot fetch is skipped, and the versions above the rest are
  given out again; after a lost disk the numbers of the log lag behind the
  versions and the Committing row of a commit can be cut.
* A put of the hook that fails is logged and forgotten: a row or the schema index
  stays behind ("rows lost", "index behind"). A cold rebuild does not restore the
  schema index. Each way a schema version can be given out twice.
* `get_record` answers schema version 0 from the MemTable, and after a cold
  rebuild so do the rows.
* A handler that fails or is dropped leaves its transaction Active for the sweeper.
* In the chunk format a length above its prefix wraps, and an empty content type
  is read back as none.

One thing the models do not show: the rebuild enters the chains of records under
a key without ".json" (rebuild.rs:115), which no commit looks up. Conflicts are
still decided right, every later snapshot being at or above the rebuilt versions;
`StructuredApi!RestartCold` relies on that.

The passing runs say what remains true: `ReadsDriftOnlyToSnapshot` bounds the
window of `lost_update`, `NoRegisteredSkew` what `write_skew` shows,
`LeftCommittingIsDecided`, `RecoveryClosesLogs` and `ActiveIsPinned` what crashes
leave behind, `PinsAccounted` and `MirrorLagsOnlyRepairs` what failing calls do.
`OutcomeMatchesChains` holds through every fault and crash considered, as long as
requests and the sweeper do not overlap on a transaction: the status of a finished
transaction does not lie about the chains.

## Proofs

Eight modules hold theorems and the lemmas they rest on. Each theorem holds for
every value of the constants that satisfies the named ASSUMEs: any sets of keys,
transactions, readers and handlers, any bounds on versions, tables, chunks,
failing calls, crashes and lost disks.

| Theorem | Module | States |
| --- | --- | --- |
| `PruneBelowSafe` | `VersionChainProofs` | a prune changes no read at or above its threshold |
| `TypeCorrect`, `ChainsAlwaysAscending`, `PinsAlwaysCountHolders`, `RowsFollowChains` | `SnapshotGcProofs` | `Spec => []` of `TypeOK`, `ChainsAscending`, `PinsCountHolders`, `RowsAgreeWithChains` |
| `GcPreservesHeldReads` | `SnapshotGcProofs` | `Spec => HeldReadsStable` |
| `ServiceTypes` | `TxnTheorems` | `Spec => [](TypeOK /\ ControlOK)` |
| `AppendHolds` | `TxnTheorems` | `Spec => []AppendNeverRefused` |
| `RecoveryHolds` | `TxnTheorems` | `Spec => RecoveryClosesLogs` |
| `OutcomeHolds`, `AnswersHold`, `FirstCommitterHolds`, `DecidedHolds`, `RepairHolds` | `TxnTheorems` | if `~ Overlap`, `Spec => []` of `OutcomeMatchesChains`, `CommitAnswersAgree`, `FirstCommitterWins`, `LeftCommittingIsDecided`, `NotLeftCommitting` |
| `StoreInvariant` | `LsmTreeProofs` | `Spec => [](TInv /\ Origins)` |
| `SnapshotHolds`, `LogHolds`, `ReuseHolds` | `LsmTreeProofs` | `Spec => []` of `SnapshotNotExceeded`, `CommittingRowInLog`, `VersionsNotReused` |

### Chains and garbage collection

`VersionChainProofs` is about the pure functions of a chain. `RPositionSpec` and
`RPositionUnique` characterise the search that `read_at_snapshot` and
`prune_below` share; `KeepFromSpec` and `PruneBelowShape` say where a prune
cuts.

The inductive invariant of `SnapshotGcProofs` is `IInv == TypeOK /\
ChainsAscending /\ PinsCountHolders`. `GcPreservesHeldReads` needs all of it: a
held snapshot is pinned (`HeldIsPinned`, from the count), so the collector's
threshold is at or below it (`GcThresholdSpec`), and a chain that is ascending
keeps what a read at or above the threshold returns (`PruneBelowSafe`).
`RowsFollowChains` needs `RowsInv` besides. A collection between the append of a
commit and the writing of its rows cuts the chain up to the new version and
leaves an older row, so the two need not be equal. `RowsInv` says that rows missing from the chain are
older than every version in it, that they exist only where the chain has a
version old enough to answer every pinned snapshot, and that the versions of a
commit whose rows are not yet written are the newest.

### The transaction service

`ControlOK` is what the program counters mean: the steps between `commit_lock`
and its release are those of its holder, a request that works on a record has
loaded one, a transaction that is being begun is nobody else's. `TypeOK` is not
inductive without it. `TxnStepProofs` has one lemma for each operator of the
store and one for each step of a request; `TxnSystemProofs` adds the sweeper,
crashes and recovery, and the same for `AppendInv`: every version in a chain was
allocated, and a commit past its check finds no conflict and the newest version
in its hand. No other request can disturb that, since appends are made under
`commit_lock` and the collector only takes old entries away.

`RecoveryHolds` rests on `RInv`: a log that is open belongs to a transaction with
a record (begin puts the record first and deletes it only while its log is not
open), and while recovery runs every transaction that needs it is still in its
list or in its hand. It needs no hypothesis on overlapping requests: whatever
they leave behind, recovery looks at log and record together. A crash inside
recovery starts over with every logged transaction in the list.

The other theorems share the invariant `OInv` (`TxnOutcomeProofs`). It relates
four places that say what became of a transaction: the state record, the log as
recovery folds it, the chains, and the answers the clients have. For every step
a handler can be at, `HandlerOK` says which of them already know the outcome;
`TxnOK` says it for a transaction nobody works on, `DecidedOK` that a Committing
one without an outcome in its log is held by a commit or will be seen by
recovery, `FreshOK` that the version of a commit under way is above every other,
`ChainsOK` that every entry is that of the transaction which published it, and
`LatestOK` that the chain of a key is as new as any commit of it. It is proved
kept by the quiet steps (`TxnOutcomeProofs`), by the steps that change a status,
answer or append (`TxnRequestProofs`), and by the sweeper, crashes and recovery
(`TxnTheorems`). `EntriesOnTop` is why the repair and recovery are right: they
look at the newest entry of each chain, and the entries of an undecided commit
are the newest, since no other commit can append before it is decided.

The hypothesis `~ Overlap` means that a client sends one request of a
transaction at a time and that the sweeper leaves alone a transaction with a
request under way. The code ensures neither: it has no lock on a transaction, and
a stage, a read or a heartbeat writes back the copy it read. Without the
hypothesis `OutcomeMatchesChains` and `CommitAnswersAgree` are false (see the table
above). `ServiceTypes`, `AppendHolds` and `RecoveryHolds` need no such hypothesis.

`StoreFacts` states what the service's proofs take from the chains
(`SearchFacts`). `VersionChainProofs` proves it with the library's theorems on
well-founded orders, and `TxnTheorems` puts the two together.

### The storage of records

`TInv` has the types, and what the program counters of the commit, the flush
loop and the rebuild mean: a commit in progress is the last of `history` and has
the newest version, a flush has a table and from its upload on a chunk, a server
that rebuilds has empty tables, counter and log. `Origins` says of every place an
entry can be in (a table, the flush under way, a chunk, what a rebuild has read,
a row of either table) that a commit wrote it to that key, with a version not
above the one the entry now carries. `publish` may renumber an entry of an older
commit, which is what the finding `flushed_body` shows; it only ever renumbers
upwards, so `SnapshotNotExceeded` follows from `Origins` whichever tier answers.

`LogOrder`, for `CommittingRowInLog`: the log is cut to a version, and versions never
overtake log numbers unless a lost disk starts the log anew, so that the row a
commit logs after it took its version is above every cut. Nothing of the kind
holds for the Begin and Stage rows before it (`OpenInLog`). `AliveApart`, for
`VersionsNotReused`: commits that still have an entry somewhere have different
versions, and either the counter is at or above every chunk or a rebuild holds
all of them and will put it there. Both are inductive only with `TInv /\ Origins`.
`Numbers`, a conjunct of `TInv` without variables, is proved at the end of the
module from the library.

### Assumptions

`U64Max` is a natural number above `MaxVersion`; the readers and, in the storage,
the keys are finitely many; `MaxVersion`, `MaxTables` and `MaxChunks` allow one
of each; the seed transaction wrote at least one key; the values that stand for
"none" (`NoSnapshot`, `NoTxn`, `NoKey`, `NoRecord`, `NoEntry`, `NoRow`) are none
of the values they are told apart from. TLC evaluates all of them in the runs.

### Only model-checked

* Liveness (`CommitsEnd`, `LeftActiveIsAborted`, `ReachesS3`), which is outside the
  prover's reach.
* The algorithms (`FileHoldsEntries`, `PagesPartition`, `ValidateIsExact`): their
  definitions are recursive and the theorems would be inductions over data.
* Of the service: `CommittedIsReadable`, `MirrorLagsOnlyRepairs`,
  `ReadsDriftOnlyToSnapshot`, `NoRegisteredSkew`, `PinsAccounted`, `ActiveIsPinned`
  and `LoggedCommitStands`. They speak of the rows, the mirror, the registry, the
  lock manager and the end of the log, of which the proved invariants have little
  more than the types.
* Of the storage: `PointersResolve`, which needs that no table is in two places
  at once; `RebuildRestoresReads`, `NewestExactAtRest` and the refinement
  `ImplementsRecordReads`, which need the contents of every tier, not only where
  they come from.
* The structured layer.

## Not modelled, and the plan

Not modelled:

* `diff_records` and `list_schemas`, which only read; the encoding of record
  keys in key.rs, which the models take to be injective; `build_filter`.
* The multipart protocol of the S3 client: an upload succeeds or fails.
* Calls to S3 that never return, see the fairness above.
* Spill files, and with them requests whose future is dropped inside a commit.
* Clocks: when the sweeper takes a transaction to be stale, and when a table is
  old enough to rotate, is left open.
* Checksums of a chunk, which the reader does not verify.
* Failing store calls inside `reconcile_failed_commit` and inside recovery; the
  refusals of the lock manager in `StructuredSpace`, which `TxnSystem` has.
* WAL recovery in the storage group; a cold rebuild of the structured space after
  rows were lost, or before everything was flushed (`ColdRebuild` has the latter).
* What Rust's sort does with more than 20 records under a comparison that is not an
  order: up to 20 it inserts one by one, as `RecordQuery!Insert` does.
* `validate_collect`, which nothing but tests calls.
* Authentication, HTTP encoding, configuration, telemetry and the command line,
  which keep no state that the rest depends on.

Planned, in this order: an abstract specification of atomic commit, in which a
transaction is decided in one step, and the coordinator with crashes shown to
implement it, from `OInv`; a proof of `PointersResolve`; diff and record keys as
algorithms.
