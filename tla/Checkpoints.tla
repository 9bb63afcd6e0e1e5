----------------------------- MODULE Checkpoints -----------------------------
(***************************************************************************)
(* Snapshots, retained checkpoints and restore (src/src/coin_store.rs),    *)
(* composed with the chain state machine.                                  *)
(*                                                                         *)
(* restore takes `&mut self` and is not one commit: it clears the column   *)
(* families key by key, writes the rows in batches and the metadata in the *)
(* last batch.  No other call sees the states in between, but a storage    *)
(* error or a crash leaves one of them behind; they are the outcomes of    *)
(* RestoreStopsClearing and RestoreStopsWriting.  save_snapshot is a put   *)
(* followed by deletions and can stop between them in the same way.        *)
(***************************************************************************)
EXTENDS CoinStore

CONSTANTS
    MaxSnapshots,   \* CoinStoreConfig::max_snapshots, 0 for no pruning
    RowsPerBatch,   \* rows in a full batch of restore: 50_000 operations / 5
    CallersRetry    \* whether a caller whose restore has stopped only reopens
                    \* the store and restores again, until that succeeds

ASSUME CheckpointsAssumption ==
    /\ MaxSnapshots \in Nat
    /\ RowsPerBatch \in Nat \ {0}
    /\ CallersRetry \in BOOLEAN

VARIABLES
    state_snapshots,  \* column family: height -> snapshot
    exported,         \* the snapshot a caller keeps outside the store, or None
    torn              \* observation: a restore has stopped half way, and none
                      \* has completed since

extras == <<state_snapshots, exported, torn>>
allVars == <<vars, extras>>

-----------------------------------------------------------------------------
(* snapshot, save_snapshot, load_snapshot.                                 *)

\* CoinStore::snapshot: the rows come from storage and the root from the tree
\* in memory.  `totals` stands for total_coins, total_value and the map keys
\* agreeing with the rows; `stale` records whether the tree did.
TakeSnapshot ==
    [height |-> height, block_hash |-> tip_hash, timestamp |-> timestamp,
     state_root |-> merkle_tree, coins |-> [c \in Present |-> Rec(c)],
     hints |-> {}, totals |-> TRUE, stale |-> tree_stale]

With(snapshots, h, s) ==
    [i \in DOMAIN snapshots \cup {h} |-> IF i = h THEN s ELSE snapshots[i]]
Without(snapshots, H) == [i \in DOMAIN snapshots \ H |-> snapshots[i]]

\* Fault: one snapshot too many is kept.
Excess_OffByOne(H) ==
    IF MaxSnapshots = 0 THEN {}
    ELSE {h \in H : Cardinality({i \in H : i > h}) > MaxSnapshots}

\* prune_snapshots_to_limit: the heights it deletes, smallest first.
Excess(H) ==
    IF MaxSnapshots = 0 THEN {}
    ELSE {h \in H : Cardinality({i \in H : i > h}) >= MaxSnapshots}

SaveSnapshot ==
    /\ up
    /\ initialized
    /\ LET put == With(state_snapshots, height, TakeSnapshot)
       IN  state_snapshots' = Without(put, Excess(DOMAIN put))
    /\ ret' = Ok("save_snapshot", 0, 0)
    /\ UNCHANGED <<disk, up, memory, tree_stale, exported, torn>>

SaveSnapshotRejected ==
    /\ up
    /\ ~initialized
    /\ Reject("save_snapshot", "NotInitialized")
    /\ UNCHANGED extras

\* Storage fails after the put, when some of the excess heights are deleted.
SaveSnapshotStops ==
    /\ StorageFaults
    /\ up
    /\ initialized
    /\ LET put == With(state_snapshots, height, TakeSnapshot)
       IN  \E n \in 0 .. height : LET gone == {h \in Excess(DOMAIN put) : h < n}
           IN  /\ gone # Excess(DOMAIN put)
               /\ state_snapshots' = Without(put, gone)
    /\ ret' = Err("save_snapshot", "StorageError")
    /\ UNCHANGED <<disk, up, memory, tree_stale, exported, torn>>

\* A caller keeps the result of snapshot or of load_snapshot.  Snapshots come
\* without hints; the caller may add the pairs it has read itself.
Export ==
    /\ up
    /\ \/ /\ initialized
          /\ exported' \in {TakeSnapshot, [TakeSnapshot EXCEPT !.hints = hints]}
       \/ \E h \in DOMAIN state_snapshots : exported' = state_snapshots[h]
    /\ ret' = Ok("snapshot", 0, 0)
    /\ UNCHANGED <<disk, up, memory, tree_stale, state_snapshots, torn>>

-----------------------------------------------------------------------------
(* restore.                                                                *)

RowsOf(s) ==
    [c \in Coin |-> IF c \in DOMAIN s.coins THEN EncodeRow(s.coins[c])
                    ELSE Absent]

RestoreError(s) ==
    IF ~s.totals THEN "StorageError"
    ELSE IF RowsOf(s) # s.state_root THEN "StateRootMismatch"
    ELSE "Ok"

\* Fault: a column family is not cleared.
Cleared_Kept(keys) == keys

\* clear_column_family
Cleared(keys) == {}

\* Fault: every coin is indexed as unspent.
UnspentOf_All(s, D) == D

UnspentOf(s, D) == {c \in D : s.coins[c].spent_height = None}

\* append_coin_record_to_batch for the coins D of s, into cleared families.
WriteCoins(s, D) ==
    /\ coin_records' =
           [c \in Coin |-> IF c \in D THEN EncodeRow(s.coins[c]) ELSE Absent]
    /\ coin_by_puzzle_hash' = Cleared(coin_by_puzzle_hash) \cup PuzzleKeys(D)
    /\ unspent_by_puzzle_hash' =
           Cleared(unspent_by_puzzle_hash) \cup PuzzleKeys(UnspentOf(s, D))
    /\ coin_by_parent' = Cleared(coin_by_parent) \cup ParentKeys(D)
    /\ coin_by_confirmed_height' =
           Cleared(coin_by_confirmed_height)
               \cup {<<s.coins[c].confirmed_height, c>> : c \in D}
    /\ coin_by_spent_height' =
           Cleared(coin_by_spent_height)
               \cup {<<s.coins[c].spent_height, c>> : c \in D \ UnspentOf(s, D)}

\* The snapshots a caller can pass: the one it holds, or a damaged copy.
Offers ==
    IF exported = None THEN {}
    ELSE {exported, [exported EXCEPT !.totals = FALSE]}
             \cup {[exported EXCEPT !.coins = [d \in DOMAIN @ \ {c} |-> @[d]]] :
                      c \in DOMAIN exported.coins}

RestoreRejected(s) ==
    /\ up
    /\ RestoreError(s) # "Ok"
    /\ Reject("restore", RestoreError(s))
    /\ UNCHANGED extras

Restore(s) ==
    /\ up
    /\ RestoreError(s) = "Ok"
    /\ WriteCoins(s, DOMAIN s.coins)
    /\ hints' = Cleared(hints) \cup s.hints
    /\ hints_by_value' = Cleared(hints_by_value) \cup ReverseHintKeys(s.hints)
    /\ metadata' = [initialized |-> TRUE, height |-> s.height,
                    tip_hash |-> s.block_hash, timestamp |-> s.timestamp]
    /\ state_snapshots' = Without(state_snapshots, DOMAIN state_snapshots)
    /\ merkle_tree' = RowsOf(s)
    /\ height' = s.height /\ tip_hash' = s.block_hash
    /\ timestamp' = s.timestamp /\ initialized' = TRUE
    /\ unspent_ids' = UnspentOf(s, DOMAIN s.coins)
    /\ ret' = Ok("restore", 0, 0)
    /\ tree_stale' = FALSE
    /\ torn' = FALSE
    /\ UNCHANGED <<up, exported>>

\* A storage error ends the call with memory as it was.  A process that stops
\* at the same point leaves what this step followed by Crash leaves.
Interrupted ==
    /\ StorageFaults
    /\ torn' = TRUE
    /\ ret' = Err("restore", "StorageError")
    /\ UNCHANGED <<up, memory, tree_stale, exported>>

\* Family k of ALL_COLUMN_FAMILIES when clearing stops inside family n: empty,
\* any part of it, or untouched.
Part(k, n, keys) ==
    IF k < n THEN {{}} ELSE IF k = n THEN SUBSET keys ELSE {keys}

\* The metadata keys in key order; `initialized` is the last one deleted.
MetadataPart ==
    {metadata,
     [metadata EXCEPT !.height = None],
     [metadata EXCEPT !.height = None, !.timestamp = None],
     [metadata EXCEPT !.height = None, !.timestamp = None, !.tip_hash = None]}

RestoreStopsClearing(s, n) ==
    /\ up
    /\ RestoreError(s) = "Ok"
    /\ \E rows \in Part(1, n, Present) :
           coin_records' = [c \in Coin |-> IF c \in rows THEN coin_records[c]
                                           ELSE Absent]
    /\ coin_by_puzzle_hash' \in Part(2, n, coin_by_puzzle_hash)
    /\ unspent_by_puzzle_hash' \in Part(3, n, unspent_by_puzzle_hash)
    /\ coin_by_parent' \in Part(4, n, coin_by_parent)
    /\ coin_by_confirmed_height' \in Part(5, n, coin_by_confirmed_height)
    /\ coin_by_spent_height' \in Part(6, n, coin_by_spent_height)
    /\ hints' \in Part(7, n, hints)
    /\ hints_by_value' \in Part(8, n, hints_by_value)
    /\ \E kept \in Part(9, n, DOMAIN state_snapshots) :
           /\ \A h \in kept, i \in DOMAIN state_snapshots : i > h => i \in kept
           /\ state_snapshots' = [h \in kept |-> state_snapshots[h]]
    /\ metadata' \in IF n = 10 THEN MetadataPart ELSE {metadata}
    /\ Interrupted

\* Every family is empty and some full batches are in: of rows, or of all the
\* rows and some of the hints, which follow them.
RestoreStopsWriting(s, D, H) ==
    /\ up
    /\ RestoreError(s) = "Ok"
    /\ D \subseteq DOMAIN s.coins
    /\ IF H = {} THEN Cardinality(D) % RowsPerBatch = 0 ELSE D = DOMAIN s.coins
    /\ WriteCoins(s, D)
    /\ hints' = Cleared(hints) \cup H
    /\ hints_by_value' = Cleared(hints_by_value) \cup ReverseHintKeys(H)
    /\ metadata' = EmptyMetadata
    /\ state_snapshots' = Without(state_snapshots, DOMAIN state_snapshots)
    /\ Interrupted

-----------------------------------------------------------------------------

CheckpointsInit ==
    /\ Init
    /\ state_snapshots = [h \in {} |-> None]
    /\ exported = None
    /\ torn = FALSE

CheckpointsNext ==
    \/ /\ torn => ~CallersRetry
       /\ \/ Next /\ UNCHANGED extras
          \/ SaveSnapshot
          \/ SaveSnapshotRejected
          \/ SaveSnapshotStops
          \/ Export
    \/ torn /\ (WithConfig \/ Crash) /\ UNCHANGED extras
    \/ \E s \in Offers :
           \/ RestoreRejected(s)
           \/ Restore(s)
           \/ \E n \in 1 .. 10 : RestoreStopsClearing(s, n)
           \/ \E D \in SUBSET DOMAIN s.coins, H \in SUBSET s.hints :
                  RestoreStopsWriting(s, D, H)

CheckpointsSpec == CheckpointsInit /\ [][CheckpointsNext]_allVars

-----------------------------------------------------------------------------
(* Properties.                                                             *)

\* Saving, exporting and restoring, mixed with blocks, rollbacks, faults and
\* restarts, keep rows, indices, memory, tree and hints consistent as long as
\* no restore has stopped half way since the last one that completed.
SoundUnlessTorn ==
    ~torn => /\ IndexesMatchRecords
             /\ MemoryMatchesDisk
             /\ TreeMatchesDisk
             /\ HeightsWithinChain
             /\ HintsMirrored

\* A restore that returns Ok leaves exactly the rows, the tip and the hints of
\* its snapshot, in storage and in memory, and no checkpoint: whatever the
\* store held before, the remains of interrupted restores included.
RestoreReplacesEverything ==
    [][(ret'.call = "restore" /\ ret'.outcome = "Ok") =>
           /\ \E s \in Offers :
                  /\ coin_records' = RowsOf(s)
                  /\ metadata'.height = s.height
                  /\ metadata'.tip_hash = s.block_hash
                  /\ hints' = s.hints
           /\ DOMAIN state_snapshots' = {}
           /\ up' /\ ~torn' /\ SoundUnlessTorn']_allVars

\* Every retained checkpoint lies under its own height and restore accepts it,
\* unless the tree was stale when it was taken: decoding the rows into the
\* snapshot and encoding them again gives the leaves the root was built from.
RetainedSnapshotsRestore ==
    \A h \in DOMAIN state_snapshots :
        LET s == state_snapshots[h]
        IN  s.height = h /\ (~s.stale => RestoreError(s) = "Ok")

\* save_snapshot that returns Ok leaves at most max_snapshots checkpoints, also
\* after earlier saves that stopped before pruning.  It gives up a checkpoint, its
\* own included, only for max_snapshots higher ones: the one just saved can go
\* only after a rollback below retained checkpoints.
RetentionKeepsHighest ==
    [][(ret'.call = "save_snapshot" /\ ret'.outcome = "Ok") =>
           /\ MaxSnapshots = 0 \/ Cardinality(DOMAIN state_snapshots') <= MaxSnapshots
           /\ \A h \in (DOMAIN state_snapshots \cup {height}) \ DOMAIN state_snapshots' :
                  /\ Cardinality(DOMAIN state_snapshots') = MaxSnapshots
                  /\ \A i \in DOMAIN state_snapshots' : h < i]_allVars

=============================================================================
