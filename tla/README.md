# Verification of the chain core

The repository is a flat collection of Go, C and JavaScript files: the chain core of an
Ethereum-style node (header chain, block chain, transaction pool, ancient store, indexers),
its cryptography and ABI libraries, an HTTP gateway, and a JavaScript client. This project
models the part that keeps state and can go wrong in ways tests hardly reach: the chain with the
stores and indexes below it, the transaction pool, and the algorithms they rest on. All source
paths below are under `src/`.

## 1. Inventory

### Components with state

| Component | State | Operations | Interacts with |
|---|---|---|---|
| Header chain, `headerchain.go` | headers with total difficulty, canonical index, head marker (disk); current header (memory) | `InsertHeaderChain`, `WriteHeader`, `SetHead`, restart | called by the block chain under `chainmu` |
| Block chain, `blockchain.go`, `blockchain_insert.go`, `block_validator.go` | blocks, canonical index, transaction lookups, three head markers (disk); three current heads, tries in memory, garbage-collection queue | `InsertChain`, `insertSideChain`, `WriteBlockWithState`, `reorg`, `SetHead`, `loadLastState`/`repair`, `Stop`; fast sync: `InsertReceiptChain`, `FastSyncCommitHead`, `Rollback` | header chain (callbacks of `SetHead`), state trie database, feeds that the pool and the indexers subscribe to, ancient store |
| Transaction pool scheduling, `tx_pool.go` (`loop`, `scheduleReorgLoop`, `runReorg`, `addTxs`, `Stop`) | the scheduler's pending request, its done channels, the pool mutex, the head-event channel | request, launch, merge, complete, shut down | chain head feed, callers |
| Transaction pool contents, `tx_pool.go`, `tx_noncer.go` | `pending`, `queue`, `beats`, `all`, `priced`, `locals`, `pendingNonces`, current state | `add`, `promoteExecutables`, `demoteUnexecutables`, `truncatePending`, `truncateQueue`, `reset`, `removeTx`, eviction, `SetGasPrice` | lists, price heap, chain state |
| Transaction lists, `tx_list.go` | nonce-sorted map with nonce heap and cache, cost and gas high-water marks, price heap with stale count | `Add`, `Forward`, `Filter`, `Cap`, `Remove`, `Ready`, `Flatten`; `Put`, `Removed`, `Cap`, `Underpriced`, `Discard` | used by the pool |
| Ancient store, `freezer.go`, `freezer_table.go` | five append-only tables, each an index file and numbered data files; `frozen` | `AppendAncient`, `TruncateAncients`, `freeze` loop, `repair` | moves blocks out of the key-value store; truncated by rewinds |
| Chain indexer, `chain_indexer.go` | stored, known and cascaded sections, section heads | `newHead`, `updateLoop`, `processSection`, `verifyLastHead` | head feed, child indexers |
| Bloom matcher, `matcher.go`, `scheduler.go` | queued requests per bit, allocations, cached responses | distributor, deliveries, `Close` | retriever goroutines |
| Transaction index maintenance, `chain_iterator.go`, `maintainTxIndex` | index tail, lookups | index and unindex a range | head feed |
| Transaction journal, `tx_journal.go` | journal file, writer | `load`, `insert`, `rotate` | pool |
| State transition, `state_transition.go`, `gaspool.go`, `state_processor.go`, `evm.go`, `block_validator.go` | balances, nonces, gas, gas pool | `buyGas`, `TransitionDb`, `refundGas`, `ApplyTransaction`, `Process`, `ValidateState` | virtual machine (external) |
| Simulated backend, `simulated.go`, `chain_makers.go` | the chain's head, the pending block with its state | `SendTransaction`, `Commit`, `Rollback`, `AdjustTime`, `EstimateGas` | generates blocks and imports them |
| Genesis setup, `genesis.go` | the genesis records and the stored configuration | `SetupGenesisBlock`, `Commit` | before the block chain is made |
| Fork identifier, `forkid.go`; bitset codec, `compress.go`; `curve.go`; pairing, `gfp*.go`, `twist.go`, `optate.go` | none | pure algorithms | peers; indexer; precompiled contracts |

Section 6 says what is not modelled and why.

### What is hard here

* **Crashes between batches.** An insertion or a rewind is several database batches; the
  process may die between any two and is restarted on what is on disk, while states that were
  only in memory are gone.
* **Reorganisation.** The canonical index, the lookups and three head markers change one after
  the other; the new chain may be shorter than the old one, start at the head, or reach down to
  blocks whose state was pruned.
* **The pool's goroutines.** Callers, the loop, the scheduler and the run hand requests over
  unbuffered channels while one mutex is held and released, and requests are merged.
* **Cached and counted data.** Lists patch a cache by counts, filter by high-water marks, and
  the price heap is full of stale entries that are only counted.
* **Two stores.** Old blocks move from the key-value store into append-only files while rewinds
  cut those files and fast sync writes to them, without a common lock; what is on disk after a
  crash is any prefix of what was not synced.
* **Background work on a chain that moves.** Sections and lookups are computed without the lock
  of the chain they describe; sessions are closed while retrievers still hold their requests.
* **The same thing computed twice.** A block is generated and then imported, a fork is counted by
  one rule in the identifier and another in the filter, a field element is an unreduced integer.
* **Limits.** Pool limits are enforced by count but freed by slots; truncation equalises
  accounts with two nested loops.

`PROJECT.json` lists each hazard with its line and the properties aimed at it.

## 2. Modules

    ChainTree ──┬── ChainTreeProofs (used by the proof modules of both chains)
                ├── HeaderChain ──┬── HeaderChainProofs
                │                 └── MCHeaderChain
                └── BlockChain ───┬── BlockChainProofs
                                  └── MCBlockChain
    TxPoolReorg ──┬── TxPoolReorgProofs
                  └── MCTxPoolReorg
    TxListOps ──┬── TxListSpec <── refined by ── TxList ── Sequential
                └── TxPool ── MCTxPool
    AncientLog <── refined by ── FreezerTable ──┬── FreezerTableProofs
                                                └── MCFreezerTable
    Freezer ── FastSync ──┬── FastSyncProofs
                          └── MCFastSync
    ChainIndexer, Matcher, TxIndexer, TxJournal ── Background ──┬── BackgroundProofs
                                                                └── MCBackground
    GenesisSetup, ForkID, TxList ── SequentialProofs
    Execution ── Simulated ──┬── MCSimulated ─────────────┐
                             │                            │
    TxList, GenesisSetup, ForkID,                         │
    BitsetCodec, Pairing ── BitCurve ───── Sequential ── MCSequential

`Background` and `Sequential` put components side by side that share no state: a variable `focus`
names the one that moves while the others stay in a fixed initial state, so that one run asks its
questions of each.

**ChainTree.** The headers (or blocks) that can ever be offered, as an arbitrary finite-height
tree: number, ancestors and difficulty are constants tied together by the assumption
`HeaderTree`. `Parent` follows a parent hash.

**HeaderChain** (`headerchain.go`). Each database batch is one action: `WriteHeader` stores a
header with its total difficulty, `WriteMarkers` rewrites the canonical index and the marker,
`RewindStep`/`RewindDone` are the iterations and the final batch of `SetHead`. `Restart` is a
crash, and also what a nil dereference amounts to. `torn` is history: a crash cut a rewind in
two.

**BlockChain** (`blockchain.go`). Full synchronisation. `pc` says which step of the call under
`chainmu` comes next: `InsertChain` enters the loop of `insertChain`; `IgnoreKnown`,
`WriteKnownBlock`, `StoreBlock`, `SideStep` are its branches by what `ValidateBody` answers
(known, pruned, fresh); `CommitState` is the rest of `writeBlockWithState`, with the trie
garbage collection and the choice of the head; `ReorgStep`, `DeleteIndexes` and `WriteHead` are
the batches of `reorg` and its caller; `SideDone` restarts the import from the last available
state; `RewindStep`/`RewindDone`/`LoadLastState` are `SetHead`, `Stop` flushes three tries,
`Crash` loses memory. A state is its root; `disk` and `triegc` say where its trie lives.
`Invalid` blocks are those that execution refuses, whatever root they claim and whatever is built on
them; `flushed` and `expired` stand for the memory and time limits of the trie cache, `coin` for the
random tie-break and `shouldPreserve`. Two history variables name what the code cannot tell: `ghosts`
are blocks that `insertSideChain` stored unexecuted with another block's root when its ghost check
found no canonical block of their height to compare with, and `borrowed` says that the head's state
was available only as that of a lower block when it became the head. Chains
whose header or body check fails are cut to the accepted prefix, which is itself a chain that
is offered; future blocks are left out.

**TxPoolReorg** (`tx_pool.go`, goroutines). Callers `Adder`, `pool.loop`, the scheduler and the runs are
processes; a send on an unbuffered channel and its receipt are one step; `mu` is `pool.mu`, `Chan` the
done channels. A run is abstracted to the accounts it promotes, the heads it resets between and the
events it was handed. `reset` may return early and leave the pool at its old head (`ok` in `RunLocked`):
`poolHead` is the head the pool's state belongs to, `resetTo` the one it was last asked to go to.

**TxListOps, TxListSpec, TxList** (`tx_list.go`). `TxListOps` defines what each operation
returns on a set of transactions; `TxListSpec` is the abstract machine; `TxList` is the
implementation with heap, cache and caps, and refines it.

**TxPool** (`tx_pool.go`, contents). The critical sections as functions of a pool record:
`add`, `enqueueTx`, `promoteTx`, `removeTx`, `promoteExecutables`, `demoteUnexecutables`,
`truncatePending`, `truncateQueue`, `Reset`, plus the price heap as a bag. Map iteration order
is a choice (`Orders`). A request and the run that serves it are separate actions; in which
order they can come is TxPoolReorg's business.

**AncientLog, FreezerTable** (`freezer_table.go`). `AncientLog` is what a table promises: a log that
grows and is cut at its end and comes back from a failure as a prefix not shorter than what was synced.
`FreezerTable` has the bytes: index entries `<<filenum, offset>>` and numbered data files. Every write
is a step (`AppendWrite`, `AppendIndex`), and so is the gap in which `Append` has given up its lock to
change files (`AppendRoll`, `AppendRelock`); `truncate` cuts the index, then the data. Calls of the
system fail: `AppendWriteFails`, `AppendRollFails` and `truncateFails` are the error returns, the last
one with the index already cut; `AppendIndexFails` is the write whose error `Append` ignores, so that
the item is counted, and a branch of `AppendRoll` the file it fails to open again, ignored too.
`halfway` says that one of these happened and neither a truncation nor an opening has put it right.
Removing a file and `Seek` after a `Truncate` that succeeded are taken to succeed. `ProcessCrash` keeps
what was written, `PowerLoss` any prefix of what was not synced, to the byte; `Repair` is an iteration
of the loop in `repair`. `incidents` and `raced` record what the code has no answer to (see the
observations). The bytes of a torn index entry followed by another entry are any entry (`Misread`).

**Freezer, FastSync** (`freezer.go`, `accessors_chain.go`, fast-sync part of `blockchain.go`,
`database.go`). A block is a number and a version. `AppendAncient` fills the tables one by one and may
fail in each; `FreezeRead` to `FreezeDeleteSide` are the freeze goroutine with its sync and its two
deletion batches; `SetHead` rewinds and truncates; `InsertReceiptChain` writes old blocks into the
tables and recent ones into the key-value store, with its undo; `Rollback`, `FastSyncCommitHead`;
`Crash` and `Open`, where `NewDatabaseWithFreezer` may refuse what it finds and `NewBlockChain` brings
tables and heads together. A failed append in fast sync, and a missing block in `writeAncient`, are
`log.Crit`: the process ends (`ProcessEnds`) with whatever truncation or rewind was under way. A table
is the log `FreezerTable` implements, as long as it has no incident and does not stop `halfway`: failed
index writes and truncations are FreezerTable's business.

**ChainIndexer** (`chain_indexer.go`). A parent and its child; the chain is a sequence of versions and a
hash is the chain up to its block. Event loop, update loops, timer, backend failures, readers
(`Sections`) and `Close` interleave; a section is processed between two steps that hold the lock.

**Matcher** (`matcher.go`, `scheduler.go`). Schedulers per bit, the pipeline of filters, the
distributor, and retrievers that deliver all, part or nothing; two sessions on one matcher. A queue
that sections are put into is described by its order and by how often each section is in it.

**TxIndexer** (`chain_iterator.go`, `maintainTxIndex`). One worker indexes or unindexes with threads
that deliver in any order, beside imports, rewinds, fast sync, a lost key-value store and crashes.

**TxJournal** (`tx_journal.go`). A file is its sequence of records, of which a torn one hides the rest;
every step of `rotate` may fail or be the last, and so may the load: opening the file or reading on in
it fails, `NewTxPool` only warns, and the rotation that follows replaces the file.

**Execution, Simulated** (`state_transition.go`, `state_processor.go`, `gaspool.go`, `evm.go`,
`block_validator.go`; `chain_makers.go`, `simulated.go`). Execution is operators on a state (balances
and nonces): the early returns of `TransitionDb` in their order, the gas pool, the refund. A message
says what the virtual machine, which is external, would do: how much gas it needs, what is refunded, and
from what time on it reverts. Simulated is the backend that generates the pending block anew for each
transaction and imports it in `Commit`. Words are 7 bits wide, so that gas, the shifted time of a block
and the middle of `EstimateGas`'s search wrap. The wall clock stands still; a block too far ahead of it
goes to `futureBlocks`, or is refused if it is further still.

**GenesisSetup** (`genesis.go`). `SetupGenesisBlock` with each of its branches, `Commit` record by
record; a configuration is the block its fork is at, and the chain remembers the rules its blocks
were imported under. The node dies, is reconfigured, loses its key-value store.

**ForkID** (`forkid.go`): two nodes with any two fork schedules that advance. The checksum is taken
for injective: a set of forks, which enter it in ascending order; the code's indexes into `forks` and
`sums` are the forks themselves. **BitsetCodec** (`compress.go`): encoder and decoder with all its errors.

**Pairing, BitCurve** (`gfp2.go`, `gfp6.go`, `gfp12.go`, `twist.go`, `optate.go`; `curve.go`). The
formulas of the code over a curve of the same family (u = 1, a field of 103 elements, a group of
order 97), checked against polynomials modulo the field's defining relation and against the affine
group law. Integers stay unreduced where the code leaves them so.

Definitions named like `AppendRollOnto` are mutants: plausible bugs that the properties
are shown to catch.

## 3. Runs

| Run | Checks | Bounds and why they are enough |
|---|---|---|
| `header_chain` | `CanonicalIsHeadChain`, `HeadIsRooted`, `NoHeavierHeaderSkipped`: the canonical index is exactly the head's chain, the head is rooted, nothing heavier is passed over | 8 headers, height 3, with a heavier shorter branch, a branch one above genesis and a fork in the middle: every kind of reorganisation (longer, shorter, equal) and every crash point |
| `block_chain` | `HeadChainCanonical`, `NoInvalidCanonical`, `LookupComplete`, `HeadStateAvailable`, `HeadAnnounced`, `NothingHeavierSkipped` | 6 blocks, height 3: a branch of three and one of two that outweigh each other in turn, the third block of the first leaving its parent's state, and the second block of the other heavy, refused and claiming that state too: the ghost check meets it with and without a canonical block to compare with, and states are borrowed; one trie in memory, so pruned parents and side chains occur; two rewind heights; any number of crashes and restarts |
| `block_chain_known` | finding: a known block after an executed one has transactions | 5 of these blocks, without the refused one, mining and rewinds |
| `txpool_reorg` | `NoLostPromotion`, `SyncAddPromoted`, `ResetsContiguous`: no promotion lost, synchronous adds wait for the right run, resets are contiguous, also after one that failed | one caller, three channels (the code needs two), four heads, two head events in flight |
| `txpool_liveness` | `CallsReturn` (`Stop` too), `RequestsServed`: events are announced unless a reset drops them, a run calls `reset` for every head the pool is told of (whether it gets there is the state's business) | one caller, two heads, channel of one |
| `txpool_limits` | `LimitsKept` (capacity, limits after a run, fair truncation), `ExecutablesPromoted`, `DropsJustified` (locals kept, replacement pays) | two accounts, 5 nonces, 7 transactions, 3 pending slots and 2 queued, one slot per account: two accounts of different length are above their allowance at once, the pool fills, truncates and discards; no resets |
| `txpool_state` | `PoolConsistent` (lists, lookup and price heap agree, no panic), `PendingFollowsState` (pending executable, nonces) | two accounts, 4 transactions, capacity 2, two sibling blocks: reset forward, sideways and back, with reinjection, and with the state missing |
| `ancient_table` | `ImplementsLog`: the files implement `AncientLog`; `ItemsExact`: between calls an item is retrieved exactly, or, after a call that stopped halfway, not at all, and it lands under its number; `RepairAligns`: repair ends, with index and data aligned | blobs of one and two bytes in files of two: entries that fill, leave and roll over a file; three items, two files, and any two failures (a write of a blob or an index entry, an opening, a return of `truncate`, a crash, a power loss), so that a failure hits what another one left |
| `ancient_store` | `TablesFit`: tables aligned, and behind the fast block after start-up; `NoBlockLost`: every block up to the heads readable as the canonical one, a database that is never refused | three of five tables (receipts and difficulties are read the way bodies are), blocks 0 to 3 in two versions, both stored at one number at a time (`OneSide`), threshold 1, batches of 2, one failed append or crash, one rewind: freezing, fast sync and rewinding overlap and fail at each step |
| `background` | indexer: sections linked (`IndexConsistent`) and canonical for readers (`ReadersSeeCanonical`), catching up and closing (`IndexerNeverStuck`). Matcher: each vector, bit and retriever accounted for once (`WorkAccounted`), exact results from sessions that complete or close (`SessionAnswers`). Index: nothing missing from the tail up, nothing left below (`TailIsBoundary`). Journal: what was saved survives in the file, and in the pool unless the file could not be read, and the file is complete (`JournalSafe`) | indexer: sections of two blocks, chains of five, two heads that bring one, two or four blocks on either of two branches, one failure; matcher: two sets of filters with shared and empty clauses, two sections, two sessions, batches of one, one fault; index: limit 2, six blocks, five of them in the ancient store when the first job starts, two setbacks, so that a crash can cut that job short; journal: two transactions, four records, two mishaps, one of which may be a failed load |
| `simulated` | finding: `Commit` panics | as in `sequential`, without the shift that wraps |
| `sequential` | lists: with nonce heap, cache and caps they implement `TxListSpec` (`ImplementsTxListSpec`). Backend: the import agrees with the generator and accepted transactions are kept (`CommitExact`), money and gas add up (`GasPaid`), `EstimateExact`. Genesis: restarts and rules (`DatabaseUsable`). Fork filters (`FilterExact`). Codec: inverse and canonical (`CodecBijective`). Fields, twist, final exponentiation and pairing (`PairingExact`); `CurveExact` | lists: three nonces, the middle one with a paying and a non-paying replacement, limits 0..3; backend: five transactions that revert by time, run out of gas, create, depend on each other, blocks of 40 gas, three blocks, words up to 127, shifts forward, back and to before zero, a clock at 13 so that blocks get ahead of it, calls with as much gas as a word holds; genesis: forks at 0..3 and beyond, heights up to 3, any number of deaths; forks: two rules at 0..3 or unset on each side, heads up to 4; codec: all strings of the bytes 0, 1, 192 up to length 9 (two levels of bitsets), targets up to 17; group: all pairs of the 97 multiples; field: all pairs of the 12 basis elements, which by bilinearity is all products; pairing: multiples 0, 1, 2 and 96 with two signed-digit forms of the loop count, so that digits -1, 0 and 1 occur |

The constant xi is i + 8 instead of i + 9, which would be a square modulo 103. The loop count 6u + 2
is 8 for u = 1; the second form, of 105, equals it modulo the order.

A property that joins several parts names them in its definition; the parts have their own comments.
The type invariants of HeaderChain, BlockChain and TxPoolReorg, `HeadNeverLighter`, `HeaderOnChain` and
`AtMostOneReorg` are proved (section 4) and not checked again by TLC.

The channel symmetry of `txpool_reorg` is sound: channels and callers are only compared for
equality and the properties quantify over all of them. Deadlock is checked in the runs of the
chain and the pool. In the others the bounded number of failures, heads or calls runs out, and a
node that is closed or refused stays so; where the system must not halt, a property says so
(`SessionAnswers`, `IndexerNeverStuck`).

`ancient_store` and `background` stop at states from which the code promises nothing more: a rewind
that passed below the goroutine that appends (`Unraced`), a retriever of a closed session that met
the next one (`Unmixed`). Both are described below.

**Fairness** (`txpool_liveness`). A goroutine that can proceed does (weak fairness of callers,
scheduler, `Stop`). Where a step can be disabled and enabled again for ever — the mutex handed
to others, a `select` that picks among ready cases at random — strong fairness states that it
is taken in the end: Go's `select` chooses uniformly and `sync.Mutex` hands over to a waiter
after a millisecond. New calls, ticks, new heads and `Stop` are not owed. In `ancient_table` opening a
table is weakly fair: `repair` runs in the caller's goroutine.

**Refinement.** `TxList` implements `TxListSpec` (`ImplementsTxListSpec`: the set of transactions and
what each call returns), `FreezerTable` implements `AncientLog` (`ImplementsLog`: the log is the blobs
the index entries delimit, `intact` means no incident).

### Findings

* `KnownBlocksEmpty`. `insertChain` treats a known block with transactions that follows an
  executed one as an internal error ("Please file an issue, skip known block execution without
  receipt"). The code gets there by itself: garbage collection drops the oldest states of a
  segment first, so that importing the segment again executes its first block and then finds the
  next one known. The block becomes the head without a comparison of total difficulties: a
  lighter segment imported twice can replace a heavier head.
* `CommitNeverPanics`. `Commit` panics if importing the pending block fails, with the comment "This
  cannot happen unless the simulator is wrong". `AdjustTime` adds the pending transactions to the new
  block, which executes them, and shifts the block's time afterwards. A transaction that behaves
  differently at the shifted time gives the import another root: `Commit` panics, now and on every later
  call until `Rollback`. `CommitExact` shows what else makes it panic: with no transaction pending too,
  a block whose time is too far ahead, which is where a negative shift to before zero ends, because
  `OffsetTime` adds `uint64(seconds)`.

### Observed while modelling

* A chain that is shorter and heavier leaves canonical entries above the new head when the new
  chain is one block long, because `reorg` deletes above the *current* block, still the old head.
  `HeadChainCanonical` and `HeaderOnChain` are therefore stated up to the head.
* A crash between the index batch of a reorganisation by one block and the head batch loses the
  lookups of transactions that are still canonical (`torn` in `LookupComplete`).
* The ghost check of `insertSideChain` compares with the canonical block of the same height, if there is
  one. A refused block stored before its twin is canonical, or above the head, passes it, is found
  "known" once the twin's state exists, and can become canonical without ever being executed
  (`ghosts` in `NoInvalidCanonical`).
* A head that has its state only as that of a lower block loses it when the lower block's trie is
  dereferenced (`borrowed` in `HeadStateAvailable`). Roots coincide like this where blocks change no
  state, rewards included, or where an author claims another block's root.
* A crash inside `HeaderChain.SetHead` leaves canonical entries above the head (`torn`).
* A side chain longer than the head by `TriesInMemory` blocks, but lighter, drops the head's own
  state (`HeadStateAvailable` excludes it).
* `SetHead` announces no head, and falls back to genesis if the state at the new head is gone.
* A heavier header whose ancestor was rewound away makes the walk of `WriteHeader` dereference
  nil; modelled as a restart.
* After a reset, reinjection into a full pool may discard a transaction the new head has
  included, so that `Nonce` is below the state's (`NonceIsNext` says "not above"); a refused
  reinjected transaction may leave a gap inside a pending list.
* `reset` returns early if a block or a state is missing: the pool stays at its old head, and the next
  reset starts from the head it did not reach. A run with a reset drops the queued events of
  transactions below the pending nonce, after a failed reset all of them.
* A promotion request that is merged with a reset is served with nonces the reset has just cleared: a
  queued transaction right after the last pending one stays queued until something asks for another run.
* A full pool can replace a transaction without the price bump: room is made first.
* Heartbeats are set by `promoteTx` only: accounts that only ever queued are evicted at the
  first tick.
* `reorg` logs "Impossible reorg, please file an issue" for an empty old chain. An archive node that
  dies after committing a block's state and before `writeHeadBlock` gets there: it restarts on the
  parent, and importing the block's child calls `reorg` with an empty old chain, which it carries out
  correctly.
* `addTxs` does not advance past a nil error: in a call with several transactions an error moves to
  the slot of an earlier one that succeeded.
* With several synchronous callers liveness would need the mutex queue itself; one caller
  exercises every wait.

The ancient store:

* A data write that fails half way leaves bytes no later step removes; every later item of that file
  is then read at the wrong offset (incident `short`). `Sync` syncs only the current data file: a power
  loss may take bytes of one the table has left (`rolled`), and `repair` looks at the last file only.
  An index torn inside its first entry makes the item count wrap around (`header`).
* `Append` ignores the error of its index write and counts the item. Until the table is opened again,
  or a truncation succeeds, the item reads as an error and the entry of the next one lands in its
  place: items are then read under the wrong number (incident `shifted`; `freezer_table.go:353`).
* After an error return of `truncate` the index is shorter than the counters say: the next append shifts
  as above, and a truncation to a number above it fills the index up with zeros (`extended`).
* A file that cannot be opened again when `Append` leaves it is not missed until it is read: its items
  read as errors until the table is opened again.
* `Append` checks number and size before it gives up the lock to change files, and not again: a
  truncation in that gap puts the blob under another number, or lets a file grow beyond its size.
* `SetHead` calls `TruncateAncients(num + 1)`, so the block above the rewind's target stays in the
  tables, where it reads as canonical until a new one takes the number (`stale`).
* `freeze` and the fast-sync writers hold no lock against a rewind: tables that a rewind cut between
  the reading and the appending of a batch receive blocks of the old chain (`raced`).
* `FastSyncCommitHead` sets the head in memory only; the marker on disk follows with the next block.

Background work:

* Section 0 has no previous head to compare with, so a result for the old chain is stored after a
  reorganisation inside it; a reader's check drops it, and nothing starts the update again until a
  further section completes. A section that failed waits for the next head in the same way.
* If `Close` runs before the event loop has marked itself active, it is never told to quit.
* The channels of the matcher belong to it, not to a session: a retriever of a closed session can take
  work from, or deliver into, the distributor of the next one, which panics on an empty queue or
  waits for sections nobody fetches (`stray`).
* Fast sync during the index job of `NewBlockChain` leaves blocks out, and a crash during that job does:
  it is not resumed, and the tail that fast sync writes later claims what the job had not reached
  (`unsure`). A crash in
  `UnindexTransactions`, or a rewind below the tail followed by new imports, leaves entries that
  nothing deletes (`leaked`). After a rewind below the tail nothing is indexed until the chain has
  grown past it.
* If the journal cannot be opened when the pool starts, `NewTxPool` warns, and the rotation it does next
  renames the file of an empty pool over the journal: all journaled transactions are lost
  (`tx_journal.go:28-31`, `tx_pool.go:189-194`; `unread` in `JournalSafe`).
* A torn journal record hides all later ones until the next rotation; a failed rotation leaves no
  writer until the next tick; the rename is not preceded by a sync (power loss is not modelled).

Sequential parts:

* `newFilter` takes a fork for passed if `head > fork`, `newID` if `fork <= head`. A node whose head is
  exactly a fork block tells a syncing peer with the same rules that it is incompatible, and accepts a
  peer that has diverged there. Both properties of ForkID are stated around that block.
* `EstimateGas` halves `hi + lo` in 64 bits. For a call whose own gas limit is near the largest word the
  sum wraps: the estimate is 0, or the search never ends, with the lock held (`EstimateExact` allows
  both from half the largest word on).
* The shift of `AdjustTime` is lost when the pending block is generated again. `AdjustTime` gives
  `AddTx` no chain, so a pending transaction that asks for an older block's hash panics.
  `simulated.go` calls `TransitionDb` with an older signature than the one in the repository.
* A fork that moves to or from block 0 or 1 has `RewindTo` 0, so the configuration is overwritten without a
  rewind, and a restored ancient store gets any configuration unchecked (`unchecked`). Two deaths at
  the wrong places leave "missing block number for head header hash" on every later start
  (`halfway`). `Commit` without a difficulty writes total difficulty 0.
* After full blocks near the minimum of 5000 gas, `CalcGasLimit` can move the limit by parent/1024 or more,
  which header verification refuses.
* `NegativePoint` of an affine twist point leaves t at 0, for which `MakeAffine` returns early;
  `twistPoint.Double` is wrong when the destination is the argument; `gfP12.Conjugate` returns its
  argument and `gfP12.MulScalar` does not use it. No caller in the repository is affected.
* `BitCurve.Add` of a point and itself panics, in spite of its comment "Add returns the sum of (x1,y1) and
  (x2,y2)" (`curve.go:111`): the addition formula gives z = 0, which has no inverse, and
  `affineFromJacobian` multiplies with nil. The sum is what `Double` returns. A point and its opposite,
  whose sum is the point at infinity, panic as well. `CurveIsGroup` claims the sum of points that differ
  in x only.

## 4. Proofs

Checked by TLAPS for every value of the constants that the named assumptions allow.

**HeaderChainProofs**, from `HeaderTree` and `GenesisIsRoot` of ChainTree (a tree, genesis its
root, difficulties natural; no bound on size or height, no assumption on weights).
`IInv` conjoins the type invariant, `HeadIsRooted` and `NoHeavierHeaderSkipped` with: marker and
both copies of the head agree (`MarkerIsHead`); what a rewind has batched lies above the head
(`BatchAboveHead`); the index is the head's chain, plus what a running rewind still has to delete
(`IndexIsHeadChain`); a header that waits for `WriteMarkers` is stored and at least as heavy as
the head (`InsertionInChain`). `CanonicalIsHeadChain` alone is not inductive: it says nothing
during a rewind, and the walk of `WriteMarkers`, which stops at the first number that agrees, is
right only because the index below was a chain already, so that all lower numbers agree too.
Results: `TypeCorrect`, `CanonicalChain`, `HeadRooted`, `NothingHeavierSkipped`, and the action
property `NeverLighter`.

**BlockChainProofs**, from `HeaderTree`, `GenesisIsRoot` and `BlockContent` of BlockChain (types, and
that a transaction occurs once on the way to a block; nothing is assumed of roots, nor of what is built
on refused blocks; any number of tries in memory, any imports, mined blocks and rewinds).
`HeadChainCanonical` is not inductive: a batch that writes the head says nothing of the numbers below
it. `IInv` therefore says what each point of a call has secured for the batches to come: a block that
was committed or is about to become the head is stored, and no block on the way to it was refused in
vain (`Clean`, `CallInv`); during a reorganisation the index already is the new chain below `walk`, and
from there its blocks are stored (`ReorgInv`); below a block about to become the head the index is its
chain (`HeadInv`); a rewind has batched only what lies above both heads (`RewindInv`); and every
available state root is that of an accepted block with a clean chain (`StateInv`), while a stored block
whose chain is not clean names a root no accepted block has, save itself (`BlocksInv`): so a known
block, or one reached through a side chain, can be made canonical. A block stored unexecuted under a
root that an accepted block has is a ghost, and then its chain is clean by definition; how far
`OnlyAccepted` reaches is therefore how far the ghost check does. The first batch of a reorganisation
relies on the walk of `reorg` ending at *the* last common ancestor: up to it old and new chain share the
index (`SharedAncestry`), and it is unique (`CommonUnique`), so the blocks `reorg` has read are the ones
it writes. Results: `TypeCorrect`, `HeadChain`, `HeaderChainAgrees`, `OnlyAccepted`. `ChainTreeProofs`
holds the lemmas on ancestors.

**TxPoolReorgProofs**, from `ReorgConstants` (any number of callers, channels and heads, any channel
capacity). `IInv` adds to the type invariant: the scheduler answers exactly the goroutine whose request
it took (`ReplyInv`); the active run owns `curDone`, the next run another channel (`ChanInv`); only a
caller that has yet to request owes a request (`DirtyInv`); what a waiting caller inserted is in the
hands of the run it waits for (`WaitInv`); the reset the pool was last asked for, active run, pending
request and loop form a chain of heads (`ResetInv`); whether the pool's own state got there plays no
part in it. Results: `TypeCorrect`, `OneReorg`, `PromotionOwed`, `SyncAdds`, `ResetChain`.

What the head promises has one more invariant per property, on top of `IInv`, in the second half of
BlockChainProofs. `HeadIsAnnounced`: within a call, either subscribers know the head or the call has
noted it as the one to announce (`AnnouncedInv`). `HeaviestWins` follows from what each branch of the
import compares. `LookupsComplete`: between the batch of a reorganisation that rewrites the index and
the one that writes the head, the entries of the *new* chain are complete below the block to come, and
what `DeleteIndexes` deletes is not among them, because a transaction is in one block of a chain only
(`LookupInv`). `HeadHasState`: a block about to become the head has its state, and a head within the
window that did not borrow its state keeps it: on disk, or in memory under a number not below its own
(`Held`, `HeldInv`), so that it is dereferenced no sooner than the head's own trie would be. No
assumption on roots is needed: what would break the property is `borrowed`, a head that has only the
state of a lower block, which the `block_chain` run reaches.

**FreezerTableProofs**, from `TableAssumption` (blobs are sequences no longer than a file; any bounds on
items, files and failures). `TableIsLog`: `Spec` implies `ImplementsLog`, the refinement of `AncientLog`.
`ItemsRead`: `ItemsExact`. `RepairedAligned`: the action part of `RepairAligns`, also after an incident.
The inductive invariant `TableInv` has three parts.
* `TypeInv`: types, and how far a call has come and what it counts on (`ControlInv`): between two calls
  the index has at most `items + 1` entries; `Append` past its check keeps `items` below the bound
  through a truncation.
* `SizeInv`, until a truncation came in the gap of `Append`: no entry and no head beyond `MaxFileSize`,
  the item about to be written is number `items`, and its entry is misplaced only where the index had
  fallen behind.
* `IntactInv`, until an incident. On disk (`DiskInv`): entries are in order, all but those in the head
  file have their data (`Held`), and those of synced items have it out of reach of a power loss or in a
  file whose loss would be an incident. In memory (`OpenInv`): every entry has its data, no file beyond
  the head is open — so a roll always empties the file it rolls to — and while the index has the entries
  the counters count (`InStep`) the head file ends where the last item ends, or with the one blob whose
  entry is still to be written. Unless a call stopped `halfway` it is in step, with all files up to the
  head open; otherwise it may be behind, and the next entry written is the incident `shifted`. What
  repair would keep is then a prefix of the index (`KeptEntries`: an entry is kept exactly if it is
  `Held`), so a step changes the log only by the entries it adds, drops or uncovers: `PrefixLog` and
  `SameLog` say this once for all steps, and each action has a lemma that it is a step of the log or
  leaves it alone (`LogSteps`). Attempting the proof showed that the old type invariant, file sizes up
  to `2 * MaxFileSize`, held on the run's instance only: with four items and three files, truncations in
  the gap of successive appends make one file three times its limit. The types now say `Nat`, and
  `SizeInv` says when the limit holds.

**FastSyncProofs, the tables**, from `FreezerAssumption` (table names distinct and among them the ones
the accessors read; any height, threshold, batch limit, number of failures and rewinds). Everything is
claimed of the time before a rewind goes below the appending goroutine (`raced`, which never becomes
false again). `TablesFit` is not inductive: it speaks of quiet moments. `AncientInv` says where the
tables are at the others: one block longer up to the table `AppendAncient` has come to, cut where
`TruncateAncients` has been (`TablesAt`); items agree wherever two tables both have them, also after a
crash (`ItemsAgree`); and a cut goes on alone (`CutAlone`): the goroutine that appends is itself
cutting, or a rewind is, and then there is nothing to freeze and no block fast sync could write, since
head, database head and the blocks being written all lie below the cut. Result: `TablesStayFit`,
`TablesFit` for every value of the constants.

**FastSyncProofs, the two stores**, from the same assumption and on top of `AncientInv`.
`BlocksNeverLost`: `NoBlockLost` for every value of the constants, again until a rewind goes too deep.
The property speaks of moments without a rewind; `BlockInv` says where the blocks are at all others,
closed databases included.
* *Where a block is* (`Covered`): every number of the chain is in the key-value store under the canonical
  hash, with the body if it is at or below the fast block or block (`Kept`), or synced in every table
  (`InTables`). `Agreeing` adds that no table has another block there, but for stale numbers. The first
  batch of a deletion keeps this because `Held` says that what the goroutine has written is the chain's,
  and is synced before anything is deleted for it.
* *What the tables hold beyond the chain* (`Ended`, `Short`): what a rewind left, and what fast sync is
  writing and will take back. This is why importing a header or a block never meets a strange item.
* *What start-up may give up* (`Pending`, `Strays`, `HeadsKnown`): without a head block in the database
  it goes back to the fast block or one header further, so all above the fast block has to be in the
  key-value store; with one, the tables agree with the chain above the fast block, and it goes back to
  the fast block exactly. The block tables run ahead of is always the fast block (`FastBlockBehind`).
* *What each goroutine has yet to do* (`Syncing`, `Freezing`, `Rewinding`).
Each action has a lemma that it keeps `BlockInv`; `NotRefused` reads off that no check of
`NewDatabaseWithFreezer` fires. The proof found two places where the model said more than the code: a
refused or ended start-up touched variables it leaves alone.

**BackgroundProofs.** Background moves one component at a time, so each theorem has an invariant over
one component's variables. From `JournalAssumption`: `JournalIsSafe`. `JournalInv` says, per phase of a
rotation, which of the two files holds what the pool has or owes, when there is a writer, and that a
file which could not be read is left alone until a rotation renames over it (`unread`). From
`TxIndexerAssumption` (any limit, chain, number of crashes and rewinds): `TailBoundsIndex`.
`TailIsBoundary` says nothing while a job runs; `TxInv` adds what the job has in its batch and queue
(`IndexJobOK`, `UnindexJobOK`), that the index is complete even before there is a tail
(`CoveredBeforeTail`), and that entries below the tail belong to a job or are `leaked` (`BelowTail`). A
first attempt at this proof showed a behaviour the bounds had hidden: see `unsure` in the observations.
From `IndexerAssumption`: `IndexIsConsistent` and the action property `ReadersAreTold`. `IndexerInv`
states the links between any two stored sections rather than neighbours, that there is no head above the
last section, and of a section in progress that its blocks so far extend the head it started from. From
`MatcherAssumption` (each session has finitely many retrievers of its own): `WorkIsAccounted`.
`WorkAccounted` counts, and counts are not inductive; `MatcherInv` says why they come out. An awaited
section is queued once and with nobody, or with one retriever and not queued (`PlaceInv`, while the
session is live); a bit is offered at most once and only with requests, also after the session is closed
(`TokenInv`); retrievers of later sessions are idle (`Waiting`), so a session starts with nothing owed.
What the distributor does to a queue is one relation, `Given`, with which each of its steps is taken
apart.

**SequentialProofs**, from `GenesisAssumption` (any set of specifications, among them a well-formed main
one; configurations are numbers). `DatabaseStaysUsable`: `GenesisInv` says what the order of the records
of `Commit` secures (`StoreInv`: a block found is stored, a configuration comes last), that the stored
configuration is the chain's (`ChainInv`), what is still to be written after each of the branches of
`SetupGenesisBlock` (`SetupInv`) and that the caller's rewind goes below the fork it is for (`StartInv`).
From `ForkAssumption` (rules are set to block numbers up to the bound): `FiltersAreExact`. A checksum has
one place among those a filter knows (`KnownOnce`), which is the first fork that did not go into it;
`FilterAccepts` and `FilterRejects` compare that place with the filter's position and the peer's next fork.
From `TxListAssumption` (nonces, costs, gas and limits are numbers): `ListImplementsSpec`, the refinement
`TxList` => `TxListSpec`. The mapping forgets the heap and the cache; the invariant `MapOK` says what they
are of the map: the heap its nonces, strictly ascending, and the cache, unless nil, its transactions in that
order (`InOrder`). A pop of the first `k` nonces (`PopKeeps`) takes the same transactions out of all three,
and each count the code pops by is the end of a prefix (`DownClosed`): for `Ready`, that nonces which ascend
and fill an interval are consecutive; for `Cap`, that the i-th transaction has i - 1 before it (`Ranks`). A
sorted copy is unique (`OneOrder`), so a patched cache is the one `Flatten` would build. On top of it
`FilterLeavesPayable`: the high-water marks cover the list (`CapsInv`), which is what lets `Filter` return
without looking; no run states this, the refinement has the marks on both sides.

**Only model-checked**, and why.
* Liveness and `ENABLED` are out of the prover's reach: `CallsReturn`, `RequestsServed`, `RepairEnds` in
  `RepairAligns`, `IndexerNeverStuck`, `SessionAnswers`.
* `TxPool` and `BitsetCodec` are built from recursive operators or folds over records; `Simulated` adds
  up balances by folds; `ResultsExact`, the safety part of `Matcher`'s `SessionAnswers`, compares with a
  sorted sequence. What a fold computes is an induction over data.
* `Pairing` and `BitCurve` are arithmetic on one curve.

## 5. Plan

1. Proofs: `IndexCatchesUp` of the indexer; the pool's limits, for which its folds over accounts have to
   become sums a proof can take apart.
2. BlockChain: the queue of future blocks.
3. The error slots of `addTxs`.

## 6. Not modelled

* **Future blocks** (`addFutureBlock`, `procFutureBlocks`): a queue with a timer that offers blocks to
  `InsertChain` again; BlockChain already offers any block at any time.
* **Key layout and encodings** (`schema.go`, `table.go`, most of the accessors, generated genesis
  encoders): no control flow of their own; the accessors that have some are part of Freezer,
  FastSync and TxIndexer.
* **Sender recovery and prefetching** (`tx_cacher.go`, `state_prefetcher.go`): caches no decision
  depends on.
* **ABI codec and bindings, assembler, Solidity and hex utilities**: reflection and text processing
  without state; what they encode is out of reach of a finite model.
* **`GetHashFn`** (`evm.go`): a cache of the hashes of one block's ancestors.
* **Ciphers, hashes and C code** (`crypto.go`, `ecies.go`, `secp256k1.c`, key stores).
* **HTTP gateway** (`main.go`): handlers that forward requests and keep nothing between calls.
* **JavaScript client**: request formatting, third-party in origin.
* The queries and log filters of the simulated backend, and setters of the chain generator no
  property is about.
