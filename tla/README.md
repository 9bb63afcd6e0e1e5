# dig-coinstore in TLA+

A TLA+ development for the coin store in `src/src/`: the state of a Chia-style
UTXO chain kept in a key-value store (RocksDB or LMDB), with secondary indices,
a sparse Merkle tree over the rows and a set of unspent ids in memory. Modules
model its operations, TLC checks small instances, and TLAPS proves the central
invariants for every instance.

    tlc -config MCCoinStore.cfg MCCoinStore     # any run of PROJECT.json
    tlapm CoinStoreProofs.tla                   # any module of section 4

## 1. Inventory

| Component | State | Operations | What makes it correct |
|---|---|---|---|
| Chain state machine (`coin_store.rs`) | six coin column families, two hint families, four metadata keys; in memory the tree, the tip and the unspent set | `with_config`, `init_genesis`, `apply_block`, `rollback_to_block`, `rollback_n_blocks` | indices follow the rows; memory is what a restart would load; a failed call changes nothing; a rollback brings back the old state |
| Snapshots and restore (`coin_store.rs`) | `state_snapshots` | `snapshot`, `save_snapshot`, `load_snapshot`, `restore`, pruning | what is saved can be restored; restore replaces everything; a stop half way does no lasting damage |
| Hint store (`hints.rs`, and the hint parts of blocks and rollbacks) | `hints`, `hints_by_value` | `add_hint`, `remove_hints_for_coins`, five queries | the two indices mirror each other; removals are complete |
| Queries (`queries.rs`, `stats`) | none | lookups by id, puzzle hash, height, parent; aggregates; lineage; paginated batch | queries over different indices agree; paging neither loses nor repeats coins and ends |
| Sparse Merkle tree (`merkle/`) | leaves, cached root, pending node rows | batch insert, update, remove; `root`, `root_observed`; proofs; flush and load | one root per leaf map, however it was reached; proofs that hold for the stored value only; rows that can be read back |
| Storage backends (`storage/`) | column families; in LMDB six databases and one write transaction, in RocksDB tables and a log | `get`, `put`, `delete`, `batch_write`, `prefix_scan`, `flush`, `compact` | a batch is atomic and durable; a scan is ordered and stays in its family; a writer never blocks the others for ever |
| Schema and encodings (`schema.rs`, `kv_bincode.rs`) | none | keys, two row encodings | decoding inverts encoding |
| Config, types, errors | none | builders and records | |
| `archive.rs`, `block_apply.rs`, `rollback.rs`, `cache/` | none | none: documentation and empty modules | |

**Interaction.** The caller owns a `CoinStore`, usually behind a read-write
lock. Mutators (`&mut self`) run alone; everything that takes `&self`, which
includes `add_hint`, `remove_hints_for_coins` and `save_snapshot`, may run
beside other `&self` calls. Genesis, blocks and rollbacks write all their column
families in one batch and change the tree *before* that batch and the other
memory *after* it. `restore` and the hint calls write in several steps.

**What is hard.** Errors and crashes between a change of memory and the commit
it belongs to; rollback, which keeps no undo log and reconstructs an old state
from height indices; two row encodings that alternate as a flag changes; hint
calls that interleave key by key; a destructive multi-commit `restore`; cursors
that live across changes of the chain; a tree whose pending rows leave it before
they are committed; engines that differ in what they sync, share databases
between families, and drop old files. `PROJECT.json` lists the hazards with
their lines and the properties aimed at each.

## 2. Modules

| Module | Models | Built on |
|---|---|---|
| `CoinStore` | the chain state machine | |
| `UtxoLedger` | abstract: the unspent coins per height | |
| `CoinStoreReorg` | `CoinStore` with a history of committed states | `CoinStore` |
| `Checkpoints` | snapshots, pruning, `restore` beside the running chain | `CoinStore` |
| `Queries` | every query of `queries.rs`, `stats`, `is_unspent` | `CoinStore`, `Lists` |
| `Paging` | the paginated query and its caller's loop beside the running chain | `Queries` |
| `Lists` | loops over lists and sets: filtering, first different items, sums | |
| `HintStore` | the hint calls, one storage operation per step | |
| `HintQueries` | the five hint queries, over keys of bytes | `HintStore`, `ByteKeys`, `Lists` |
| `MerkleTree` | the sparse Merkle tree and the caller that persists it | |
| `WriteBatches`, `ByteKeys` | write operations; byte keys and their order | |
| `KvStore` | abstract: the contract of the trait `StorageBackend` | `WriteBatches` |
| `LmdbBackend`, `RocksDbBackend` | the two engines | `WriteBatches`, `ByteKeys` |
| `StorageEngines` | either engine behind the trait, refining `KvStore` | both engines |
| `CoinStoreProofs` | proofs: types, the inductive invariant, the ledger refinement, hints, failed calls, counts | `CoinStore` |
| `CoinStoreHistory` | proofs: rollbacks restore history | `CoinStoreReorg`, `CoinStoreProofs` |
| `CheckpointsProofs` | proofs: snapshots and restore | `Checkpoints`, `CoinStoreProofs` |
| `OrderProofs` | lemmas: induction, lists by rank, `Lists`, sums, the order of byte keys | `Lists`, `ByteKeys` |
| `QueriesProofs` | proofs: paging and the queries of the chain | `Paging`, `CoinStoreProofs`, `OrderProofs` |
| `HintStoreProofs` | proofs: types, the forward-key invariant, complete removals, the hint queries | `HintQueries`, `OrderProofs` |
| `MerkleTreeProofs` | proofs: hashes, proofs and persistence for trees of every height | `MerkleTree` |
| `StorageEnginesProofs` | proofs: both engines implement `KvStore`, and their reads | `StorageEngines`, `OrderProofs` |
| `MC*` | instances for TLC | |

### CoinStore

A coin and its id are one value, because the id is a hash of the coin's
immutable fields; `ParentOf` and `PuzzleOf` are those fields. `coin_records`
maps a coin to its *encoded* row. `EncodeRow` and `DecodeRow` keep what the
97-byte and the bincode layout keep: the short one has no `ff_eligible` and
writes the spent height of an unspent coin as 0. Index families are sets of key
tuples. `merkle_tree` maps a coin to the row its leaf hashes; hashes are taken
to be collision-free, so two roots are equal exactly when the maps are.
`expected_state_root` is "none", "canonical" (what an independent replica of the
stored chain computes) or "other".

One call is one step, split into one action per way it can end. For
`apply_block` these are the header checks, the body checks, a failing read, the
two tree errors, a root mismatch (which rebuilds the tree), a failing commit and
success; `HeaderError` and `BodyError` return the error of the first failing
check in the order of the code. Ids are checked as the caller *claims* them
while rows are stored under the id *computed* from the coin; `ClaimedIds` and
`CreatedCoins` keep the two apart. `FailWithTree` is an error after the tree has
changed; it sets the observation `tree_stale`. `ret` records what the last call
returned. `Crash` may follow any step and keeps only the column families.

### CoinStoreReorg, UtxoLedger

`UtxoLedger` is the promise to the caller: a function from height to unspent
coins that blocks extend and rollbacks cut. `LedgerSpec` is its refinement, with
the unspent coins of height `h` read off the stored rows (`UtxoAt`).
`CoinStoreReorg` adds `past`, the frame (rows, indices, hints, tip hash)
committed at each height of the current chain, to compare with what a rollback
reconstructs.

### Checkpoints

`TakeSnapshot` takes the rows from storage and the root from memory, as the
code does. `restore` validates, clears the families in the order of
`ALL_COLUMN_FAMILIES`, writes batches and puts the metadata into the last one.
It is one step when it succeeds, since it takes `&mut self`; where it can stop,
`RestoreStopsClearing` leaves any part of the family being cleared, and
`RestoreStopsWriting` leaves the batches written so far, with memory as it was;
a crash at the same point is that step followed by `Crash`. The families for
Merkle nodes and archived records are never written by this code and are left
out. `torn` records that a restore has stopped and none has completed since.
With `CallersRetry`, a caller whose restore has stopped only reopens the store
and restores again; without it nothing can be promised until a restore
completes. `RowsPerBatch` is the batch size (50 000 operations, 5 per row). Where the
batches of hints end is left open.

### Queries and Paging

Queries are operators on the chain state. Lists of records are sequences of
coins in the order of their ids (`IdOrder`), because prefix scans are ordered.
In `Paging` a caller repeats the same request with the returned height until it
gets the last page; between two pages the chain takes any steps. `steady` is the
set of coins that have matched since the first call: only about these can the
caller expect anything. Puzzle hashes and hints are values of one kind, so that
the hinted join can match.

### HintStore

Each client thread executes a call as a sequence of storage operations:
`add_hint` reads the forward key, writes it, writes the reverse key;
`remove_hints_for_coins` scans a coin and deletes, per hint, the reverse and
then the forward key. Errors and crashes can fall between any two. Blocks and
rollbacks write both indices in one batch and run when no call is in progress.

### HintQueries

A coin id is a sequence of `Width` bytes (32 in the code) and a hint one of 1 to
`Width` bytes, since the queries cut keys apart by position and length: the key
of a pair is the concatenation of its halves, and a scan by a hint meets the
keys of every hint whose bytes, continued by a coin id, begin the same way. The
queries are operators on the two indices of `HintStore` and are checked in every
state of it, half-finished calls included.

### MerkleTree

A key is a sequence of `Height` bits (256 in the code) and a node the bits that
lead to it. Hashes are constructors: equal exactly when their arguments are.
`SubtreeHash` is the recursive walk, `Visited` the nodes it reaches (it does not
descend below an empty one), `PersistOps` the rows it records, with `None` for a
deletion. `root` and `flush_to_batch` change the cached root and the pending
rows as the methods do; `flush_to_batch` drains them at once. The caller of the
module commits or loses the batch, stops, and opens the tree again with
`load_from_store`. It keeps its coin rows in the same batch, as the comment on
`flush_to_batch` demands, and hands a batch over before it changes leaves again.
Two observations, `dropped` and `partial`, say that drained rows were lost and
that storage was written without them. Proofs are built from the leaf map and
verified by folding siblings from the leaf up.

`CoinStore` in this commit rebuilds its tree from rows and does not call
`flush_to_batch` or `load_from_store`, which is why `MerkleTree` has a caller of
its own and `CoinStore` keeps only the leaf map.

### The storage engines

`KvStore` states what the trait promises: a call takes effect whole or not at
all, and `survivors` is the set of contents that a stop of the machine may leave.
A single write may be lost by a stop, an acknowledged batch and everything before
it may not; rows of expiring families may disappear.

`LmdbBackend` executes a write as the code does: begin a transaction (waiting for
that of another thread), one row at a time with the key behind the tag of its
family, commit. Errors may come from each of these steps, and an unknown family
is noticed before the transaction by `put` and `delete` and inside it by
`batch_write`. `RocksDbBackend` appends a write to the log and makes it visible;
`synced` is how much of the log is on disk, which `batch_write` brings up to
date and `put` and `delete` do not. Table files are written and, for the two
families with FIFO compaction, dropped. What the libraries do by themselves
(transactions, log recovery, key order) is marked external in the map.

## 3. Runs

| Run | Shows |
|---|---|
| `chain` | Over blocks (good, malformed, with wrong roots), rollbacks to every target including negative ones and by counts that wrap, storage faults and crashes: indices equal what the rows imply; memory equals what a restart loads; the tree equals the rows unless a call failed after changing it; heights stay within the chain; hints are mirrored and have coins; rejected calls change nothing; a rollback that returns Ok is at the height asked for; returned counts are true; the rows implement `UtxoLedger`; at height h the store holds the rows, indices and hints it held when block h was committed, whatever branches were tried in between (`ff_eligible` excepted). |
| `checkpoints` | Everything stays consistent unless a restore was torn; a restore that returns Ok replaces everything, remains of torn ones included; retained checkpoints are restorable; pruning keeps the highest, and a checkpoint goes, the one just saved included, only for as many higher ones as may be kept. |
| `paging` | The queries agree with each other; replaying the height queries gives the unspent set; balances, counts and stats agree; lineages survive rollbacks; a caller paging through unspent coins gets each steady one exactly once and reaches the last page. |
| `hint_single` | With one thread, every reverse key has its forward key, and a removal that returns Ok leaves nothing of its coins, whatever earlier calls left half done. A query by the bytes of a hint finds exactly the coins under that hint; a batch query returns fewer than its limit only if there are no more; with the indices in step, coins and hints of 32 bytes find each other both ways beside shorter hints, and all pairs are counted. |
| `merkle` | Whatever mix of batches, recomputations, flushes, failed commits and restarts led to a tree: a cached root and `root_observed` are the root of the leaves; a reader following stored rows from the root sees the nodes of the stored leaves, unless drained rows were lost; every restart after a committed flush finds its root, and other leaves are refused; a proof verifies for the stored value and no other, also against later roots. |
| `storage` | Either engine implements `KvStore`, with two threads, unknown families, errors at any point, compaction and stops of the machine; scans and gets stay within their family; LMDB's write transaction always ends. |
| `historical_root` (violation) | The root after a rollback can differ from the root recorded at that height: reviving a coin sets `ff_eligible` by another rule than applying a block does. |
| `tip_hash` (violation) | A rollback leaves the zero hash as tip hash, so the block that follows the target on the old chain is refused. |
| `failed_commit` (violation) | A failing commit leaves the tree ahead of storage. |
| `hint_race` (violation) | `add_hint` beside `remove_hints_for_coins` leaves the indices out of step although both return Ok. |
| `short_hints` (violation) | A short hint is stored for a coin, and `get_hints_for_coin_ids` does not return it; HNT-006 demands it. |
| `resume_spent` (violation) | With spent coins included, a coin created below the cursor and spent at or above it is on no page. |

The violation runs each contradict a line of the repository's documents, quoted
under "findings" in `PROJECT.json`.

**Bounds.** Heights 0 to 3 (0 to 2 for paging, 0 and 1 for checkpoints): a coin
can be created, spent by a later block, both undone together or separately, and
the heights reused by another branch. A lineage of three coins gives
parent-dependent eligibility, two reward coins per block are the minimum the
code accepts. `I64Limit = 8` puts the wrap of `rollback_n_blocks` within the
counts tried: of 0, 1, 9 and 15 the last two become -7 and -1, and the
target then lies above the tip or wraps once more to a negative number. `U64Limit = 16` lets stats saturate and a balance wrap. Requests
have pages of 1 to 3 items over blocks of 1 to 4 matching coins, so some blocks
overflow a page. `MaxSnapshots = 1` and `RowsPerBatch = 2` make pruning and a
batch boundary happen. Two threads, coins and hints suffice for the hint
interleavings, which concern one pair; in `hint_single` the two coins and three
hints are built from two bytes so that one hint is a prefix of another and a
short hint followed by a coin id looks like a long one. `Height = 3` with three
keys gives leaves that part at the root and below it, subtrees that empty and
fill again, and proofs for absent keys in empty and in occupied subtrees. Two
writing threads with `MaxLog = 2` give batches and single writes before and
behind one another in the log; keys use the bytes that serve as tags. No
symmetry is used.

**Fairness.** Safety runs need none. `PagingEnds` assumes weak fairness of
`NextPage`: the caller, who is the one waiting for the result, keeps asking.
Nothing is assumed of blocks, rollbacks or crashes. A crash ends the caller.
The property leaves out chains with a block larger than a page: there the
cursor never moves (QRY-007 documents the empty page). `TransactionsEnd` assumes
weak fairness of each thread inside an LMDB call: a thread that has begun a
`put`, `delete` or `batch_write` runs on, since nothing in these calls waits
except for the transaction itself. Which thread gets the transaction next, and
that anyone calls, is left open.

**Assumptions on callers.** `chain` uses blocks whose additions claim true ids
(`HonestBlocks`), that hint only coins they create (`HintsOnCreated`) and that
list no removal twice (`DistinctRemovals`). The three are operators of
`CoinStore` and hypotheses of the theorems that need them; TLC evaluates them on
the blocks of the run. `LineageSurvivesRollback` also needs blocks that spend the
parents of their additions (`BlocksSpendParents`), and `QueriesAgree` heights below
2^64 (`HeightsFit`), since one of the queries it compares asks for heights up to
the largest u64; in the code the type of heights sees to it. `apply_block` checks
none of the others. `checkpoints`
assumes that a caller whose restore has stopped reopens the store and restores
again (`CallersRetry`). In `merkle` the caller commits or discards a batch before
it changes leaves again.

## 4. Proofs

`CoinStoreProofs` proves `TypeCorrect` and `Invariance`, that

    IInv == TypeOK /\ DiskInv /\ MemoryInv

is inductive, where `DiskInv` is `GenesisFirst`, `IndexesMatchRecords`,
`HeightsWithinChain` and `HintsMirrored`, and `MemoryInv` is
`MemoryMatchesDisk` and `TreeMatchesDisk`. None of the parts is inductive
alone. Rollback finds coins by scanning the height indices, so the rows it
changes are the right ones only if the indices match; the index keys it deletes
are right only if heights lie within the chain; the 97-byte row reads a spend at
height 0 as unspent, so "spent later than created" carries the round trip of the
encoding; opening an uninitialised store yields an empty tree, which is right
because no row exists before genesis. The proof first summarises each commit by
its effect on the set of rows and their two heights (lemmas such as
`HonestIds`), then argues about these effects. From `Invariance` follow
`IndexesCorrect`, `MemoryCorrect`, `TreeCorrect`, `HeightsCorrect` and
`HintIndexesCorrect`. Assumptions: the typing of the constants, finiteness of
`Coin`, and `HonestBlocks`.

The same module builds on it.

- `LedgerRefinement`: the rows implement `UtxoLedger`. Genesis, a committed block
  and a committed rollback map to the ledger's three actions and every other step
  to a stutter. `UtxoAt(h)` is read off the two heights of each row, so a block
  must not disturb the heights below its own and a rollback must undo exactly the
  spends above its target; both follow from the effect lemmas and `HeightsWithinChain`.
- `HintsCorrect` (with `HintsOnCreated`): `HintsHaveCoins` is inductive together
  with `IInv`, because a rollback deletes the hints of the coins it deletes.
- `FailuresChangeNothing`: only the state-root mismatch changes the tree and then
  fails; it rebuilds the tree from rows, which by `TreeMatchesDisk` is what it was.
- `TargetsReached`: at its target a rollback has the coins `UtxoAt` gave for that
  height before it, since it keeps the heights of rows at or below the target; a count
  of 2^63 or more wraps to a target above the tip, which is refused, or wraps twice
  and comes out right, while heights are below 2^63.
- `CountsCorrect` (with `DistinctRemovals`): the counts of the results equal the
  cardinalities of what appeared and disappeared.

`CoinStoreHistory` proves `RollbackCorrect`, that `RollbackRestoresHistory` holds.
The inductive invariant says of every height of the present chain, not just the
tip, that cutting today's rows at that height gives the frame committed there; a
rollback to it then only makes true what the invariant already says.

`CheckpointsProofs` uses `CheckpointsInv`: unless `torn`, `IInv` holds and every
row is stored as the encoding of what it decodes to (`RowsCanonical`); in the
exported snapshot and in every checkpoint no coin is younger than the snapshot or
spent before it was created (`SoundSnapshot`); and a retained checkpoint that was
taken with a true tree passes the validation of `restore`. `RowsCanonical` makes
the root of a snapshot the root of what a restore writes, and `SoundSnapshot` lets
`restore` re-establish `IInv` knowing nothing of the store it overwrites.
From it follow `CheckpointsSound`, `CheckpointsRestore`,
`RestoreCorrect` and `RetentionCorrect`. Pruning is argued from the finiteness of
the set of heights. Assumptions: `HonestBlocks` and `CallersRetry`.

`HintStoreProofs` proves `HintTypesCorrect` without assumptions, and under
`OneDirection` (no thread adds while another removes) `ReverseKeysCorrect` and
`RemovalCorrect`, for any number of threads with errors and crashes anywhere. The
inductive invariant says what each program point knows: an adder about to write
the reverse key has the forward key in place, a remover about to delete the
forward key has deleted the reverse one, and a remover has left nothing of the
coins it has passed. With adders beside removers both statements are false
(`hint_race`).

It also proves the three query properties, for coin ids and hints of any width and
in every state of the indices, calls half done included; all that is needed of the
state is its type. A key is the concatenation of two parts. Of the keys a scan
meets, the filter on the length leaves those whose first part has the right length,
and then it is the right one (`FirstPart`); cutting at a position gives back the
second part (`KeyParts`), so the scan lists the second parts of its first part, each
once (`SecondParts`, used for hints and for coins). With it `HintQueryCorrect`;
`BatchQueryCorrect`, because an answer below the limit means that no single hint
reached it either; and `QueriesInStep`, which counts keys and pairs by bijections.

`MerkleTreeProofs` is about trees of every `Height`. The definitions of
`empty_hash`, `SubtreeHash` and `verify` are recursive functions; the proofs first
show that the recursions have solutions, by induction over the least
counterexample (`Least`), since the library's induction theorems cannot be
instantiated. Then

- equal hashes at a node mean equal leaves below it (`HashIsInjective`), so a root
  identifies its leaf map (`RootIsInjective`) and the test for an empty subtree in
  `record_merkle_persist_op` is exact (`EmptyNodes`);
- `ProofsAreSound`: from the root down, every level of a verifying proof equals
  the node of the tree, whatever siblings the proof carries; `ProofsAreComplete`:
  from the leaf up, the siblings of `build_sparse_proof_for_key` give the nodes.

`MerkleInv` adds to the properties that a batch is one tree (its leaves, root and
rows agree), that there are no pending rows while a batch is under construction,
and that stored, queued and pending rows laid over each other read the tree of
the cached root unless rows were dropped. Its consequences are
`MerkleTypesCorrect`, `RootCorrect`, `StoredNodesCorrect`, `RestartCorrect` and
`ProofsCorrect`. Assumptions: the typing of the constants, hashes as constructors,
leaf hashes that differ from the empty leaf, and that no hash or batch equals
`None` (`NoneAssumption`; in the code these are Rust options).

`OrderProofs` holds what the queries rest on. The prover cannot expand `SelectSeq`
and `SortSeq`, whose definitions choose a function or a permutation, so the models
write lists as the code's loops do (`Keep`, `Fresh`, `FlattenSeq`) or by rank: item n
is the element with n - 1 elements below it (`InKeyOrder`, `InPageOrder`). The module
shows, by induction over the least counterexample and over finite sets (`Induct`,
`SetInduct`), that the recursions have solutions, that ranks in a strict total order
of a finite set are 0, 1, 2, ... (`RanksCover`) and so a list by rank holds every
element once and in order (`Listed`), what filtering, concatenating and dropping
repetitions keep (`Kept`, `Flattened`, `Freshened`), that a sum does not depend on the
order of adding and can be taken group by group (`SumAnyOrder`, `SumOfGroups`), and
that `LexLess` is a strict total order of byte strings in which the keys with a prefix
lie together (`LexTransitive`, `LexTotal`, `PrefixFirst`) and which tagging preserves
(`TaggedKeys`).

`QueriesProofs` is about `Paging` and `Queries`.

- `PagingInvariance`: beside `IInv`, `CallerInv` holds. Its core is `AtCursor`: of the
  coins that matched since the caller's first call, none that was delivered lies at or
  above the cursor, and for unspent coins all below the cursor were delivered. A page
  ends between two sort heights, so the coins it leaves are exactly those at or above
  the returned height (`PageHolds`), and a coin that keeps matching keeps its height
  through blocks, rollbacks and restarts (`HeightStays`). `PagingDelivers` and
  `PagingDoesNotRepeat` follow.
- `QueriesCorrect` (with `HeightsFit`): by `IndexesMatchRecords` each scan of an index
  lists the rows with its key; the scans of different keys have no coin in common, so
  their concatenation repeats none. `TipFits`, that the tip is a u64, is inductive.
- `HeightQueriesCorrect`: from `HeightsWithinChain`, added minus removed up to the tip
  is the unspent set.
- `BalancesCorrect`: the balances are sums over the groups of a partition, and no group
  wraps if the whole does not; stats agree because no row exists before genesis.
- `LineageCorrect` (with `BlocksSpendParents`): inductively, the parent of a stored coin
  is stored and was spent at the height the coin was created, or is none
  (`ParentsKnown`). A rollback deletes the coins created above its target and revives
  the coins spent there, so it cannot part a child from the spend of its parent.

`StorageEnginesProofs` proves `StorageTypesCorrect` and `StorageRefinement`, that
either engine implements `KvStore`, for any set of threads and requests and any
length of the log. Three arguments carry it.

- *A batch is a fold.* `ApplyOps` folds `ApplyOp` over the operations. `FoldSteps`
  shows that the fold has a solution and that it runs through one contents per
  operation, and `StepsApply` that any such run ends in the result of the fold. The
  same is shown of RocksDB's log (`ReplaySteps`), of which the contents after n
  writes depend on these writes only (`ReplayPrefix`).
- *LMDB's databases hold the families.* No stored key begins with the tags of two
  families of its database (`OneFamily`), and taking the tag off undoes putting it
  on (`TagThere`, `TagBack`). So one operation on the stored rows is one operation
  on the rows by family (`ApplyRouted`).
- *Dropping rows commutes with writing.* If some rows of expiring families are
  dropped, then after the same writes the contents still differ by such rows only
  (`AgedReplay`), so that dropping a table file is a step of `KvStore` although the
  log lies on top of it.

The inductive invariant `StorageInv` says that the transaction of LMDB's writer
holds what the operations done so far, all of known families, make of the
committed rows, that nobody else has begun, and that RocksDB's log is a list of
batches of which a beginning is on disk. A commit then is `Succeed` with the whole
batch, an error at any point leaves the committed rows alone, and recovery finds
one of the `survivors`.

`ReadsCorrect` states `ReadsStayInTheirFamily`. That the rows
are finitely many, one to a key and all with a value (`Sound`) is shown of `KvStore` and carried over by the
refinement. RocksDB's iterator starts at the first key not below the prefix and stops
at the first one outside it; `PrefixFirst` says that this loses nothing. LMDB scans for
the tag and the prefix in a database of several families; `OneFamily` and `TaggedKeys`
say that these are the keys of the family, in the family's own order.
Assumptions (`StorageAssumption`): the shape of requests, operations and reads, that
values and requests are not `None` (options in the code), and that reads name known
families.

**Only model-checked:** `PagingEnds` and `TransactionsEnd`, since liveness under
fairness is outside the prover's reach, and the six violation runs. Every invariant
and every action property that a passing run checks is a theorem.

## 5. Differences met without a run of their own

The code does each of these, and no property says otherwise.

- A removal repeated inside one block passes validation and is counted twice
  (`coin_store.rs:898`; BLK-005 and the block-application NORMATIVE speak of a
  `SpendCountMismatch`).
- `rollback_n_blocks(n)` converts with `n as i64`: `u64::MAX` becomes -1, the target is
  above the tip and the call fails (`coin_store.rs:1281`; RBK-005 line 49 says "where
  `n > height` triggers a full reset"). `RollbackReachesItsTarget` says that a wrapped
  count is refused or resets, never that the chain stops at a third height.
- A negative rollback target keeps the genesis coins (`coin_store.rs:1063`;
  RBK-006 line 86), and a target above the tip is an error (RBK-001 line 77
  says no-op).
- An `add_hint` that failed between its two writes and is repeated finds the forward
  key and returns Ok without the reverse one (`hints.rs:165`; HNT-002 line 45 says
  that the coin is found by the hint after a double insertion).
- After a rollback `save_snapshot` may prune the checkpoint it has just written, as the
  lowest, and returns Ok (`coin_store.rs:629`). API-008 line 94 says the lowest heights
  go first, its test at line 155 that of two snapshots saved the second remains.
- Snapshots never carry hints (`coin_store.rs:466`; API-008 line 14).
- `get_coin_records` returns one record per occurrence of an id (`queries.rs:70`
  says duplicates produce one).
- An addition whose `coin_id` is not the id of its coin is accepted, stored under
  the computed id and remembered in memory under the claimed one
  (`coin_store.rs:826`; `types.rs:235` says mismatches are rejected). The runs and
  proofs about memory assume honest ids.
- `flush_to_batch` drains the pending rows before the commit; after a commit that
  fails, the next flush writes the root without them (`merkle/mod.rs:449`; the Merkle
  NORMATIVE line 19 says inner nodes are persisted). `StoredNodesAreReadable` exempts
  the states in which this has happened.
- Rows below a subtree that has become empty stay in `merkle_nodes`: the walk
  records one deletion at the top of the subtree (`merkle/mod.rs:521`; MRK-003
  line 77 says empty subtree nodes are not persisted). `StoredNodesAreReadable`
  shows that a reader does not meet them.
- SPEC line 1314 asks for FIFO compaction of the height indices; the code uses
  Level for them (`rocksdb.rs:275`), as it must: with FIFO `KvSpec` fails.

## 6. Not modelled

Tuning of the engines (caches, bloom filters, write buffers, level sizes), the
configuration builder, byte layouts of rows, hash functions, empty modules.
These hold no state that changes or, for tuning, only affect speed.
RocksDB turns its log into tables when it likes, in one external action for all
families; the crate's `flush`, which asks for the default family, and `compact`,
which asks for one, add no step to it. LMDB's `force_sync`
adds nothing, as every commit syncs, and its `compact` does nothing. LMDB read
transactions are single reads, as in the code.
Concurrent `save_snapshot` calls are not
interleaved.

## 7. State of the work

All modules of section 2 are written, and every safety property that a passing run
checks is proved for all values of the constants. What would extend the development:
concurrent `save_snapshot` calls, the byte layout of rows, and the query over more
than two hints at once, which the definition covers and the property
`BatchQueryFillsItsLimit` states for two.
