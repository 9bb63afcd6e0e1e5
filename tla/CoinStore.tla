------------------------------ MODULE CoinStore ------------------------------
(***************************************************************************)
(* The chain state machine of dig-coinstore (src/src/coin_store.rs): open, *)
(* genesis, block application and rollback, over the column families they  *)
(* write and the memory they keep beside them.                             *)
(*                                                                         *)
(* A coin id is the SHA-256 of (parent, puzzle hash, amount), so a coin    *)
(* and its id are one value here and its immutable fields are constant     *)
(* functions of it.  A Merkle leaf hash is a collision-free digest of the  *)
(* stored row, so the tree is the map from coin to the row it last hashed, *)
(* and two roots are equal exactly when the maps are.                      *)
(*                                                                         *)
(* Every mutating call takes `&mut self`, so one call is one step; its     *)
(* alternatives (each early return, a failing commit, success) are         *)
(* separate actions.  The process may stop between any two steps.          *)
(***************************************************************************)
EXTENDS Integers, Sequences, FiniteSets

CONSTANTS
    Coin,          \* coin ids
    ParentOf,      \* coin -> id of the coin that created it
    PuzzleOf,      \* coin -> puzzle hash
    Hint,          \* 32-byte hints
    EmptyHint,     \* the all-zero hint, which is never stored
    BlockHash,     \* block ids
    ZeroHash,      \* the all-zero block id
    None,          \* Option::None
    Absent,        \* no row under this key
    Geneses,       \* arguments init_genesis may receive
    Blocks,        \* arguments apply_block may receive
    Targets,       \* arguments rollback_to_block may receive
    Counts,        \* arguments rollback_n_blocks may receive
    I64Limit,      \* 2^63
    StorageFaults  \* whether the storage engine may return errors

MinRewardCoins == 2

Addition == [coin_id : Coin, coin : Coin, same_as_parent : BOOLEAN]

\* The values the Option<Bytes32> of expected_state_root stands for: absent,
\* the root an independent replica of this store computes, or another root.
ExpectedRoot == {"none", "canonical", "other"}

Block == [height : Nat, parent_hash : BlockHash, block_hash : BlockHash,
          timestamp : Nat, coinbase_coins : Seq(Coin),
          additions : Seq(Addition), removals : Seq(Coin),
          hints : SUBSET (Coin \X Hint), expected_state_root : ExpectedRoot]

Genesis == [coins : SUBSET Coin, coinbase : SUBSET Coin, timestamp : Nat]

ASSUME ConstantsAssumption ==
    /\ IsFiniteSet(Coin)
    /\ PuzzleOf \in [Coin -> Nat]
    /\ ParentOf \in [Coin -> Coin \cup {None}]
    /\ EmptyHint \in Hint
    /\ ZeroHash \in BlockHash
    /\ None \notin Coin \cup Nat \cup BlockHash
    /\ StorageFaults \in BOOLEAN

ASSUME InputsAssumption ==
    /\ Geneses \subseteq Genesis
    /\ Blocks \subseteq Block
    /\ Targets \subseteq Int
    /\ I64Limit \in Nat \ {0}
    /\ Counts \subseteq 0 .. 2 * I64Limit - 1

VARIABLES
    \* the column families
    coin_records,             \* coin -> encoded row, or Absent
    coin_by_puzzle_hash,      \* set of <<puzzle hash, coin>>
    unspent_by_puzzle_hash,   \* set of <<puzzle hash, coin>>
    coin_by_parent,           \* set of <<parent, coin>>
    coin_by_confirmed_height, \* set of <<height, coin>>
    coin_by_spent_height,     \* set of <<height, coin>>
    hints,                    \* set of <<coin, hint>>
    hints_by_value,           \* set of <<hint, coin>>
    metadata,                 \* the four chain-tip keys
    \* the fields of struct CoinStore
    up,                       \* the store is open in a live process
    merkle_tree,              \* coin -> the row its leaf hashes, or Absent
    height, tip_hash, timestamp, initialized, unspent_ids,
    \* observations
    ret,                      \* what the last call returned
    tree_stale                \* a call failed after it had changed the tree

coinCFs == <<coin_records, coin_by_puzzle_hash, unspent_by_puzzle_hash,
             coin_by_parent, coin_by_confirmed_height, coin_by_spent_height>>
hintCFs == <<hints, hints_by_value>>
disk    == <<coinCFs, hintCFs, metadata>>
tip     == <<height, tip_hash, timestamp, initialized>>
memory  == <<merkle_tree, tip, unspent_ids>>
vars    == <<disk, up, memory, ret, tree_stale>>

-----------------------------------------------------------------------------
(* Rows of coin_records and their two encodings.                           *)

CoinRecord == [confirmed_height : Nat, spent_height : Nat \cup {None},
               coinbase : BOOLEAN, timestamp : Nat, ff_eligible : BOOLEAN]

\* The 97-byte layout has no room for ff_eligible and stores an Option as a
\* number whose zero means None; the bincode layout keeps both.
LegacyRow  == [format : {"legacy"}, confirmed_height : Nat, spent_raw : Nat,
               coinbase : BOOLEAN, timestamp : Nat]
BincodeRow == [format : {"bincode"}, confirmed_height : Nat,
               spent_height : Nat \cup {None}, coinbase : BOOLEAN,
               timestamp : Nat, ff_eligible : BOOLEAN]
Row == LegacyRow \cup BincodeRow

ASSUME AbsentAssumption == Absent \notin Row

EncodeRow(rec) ==
    IF rec.ff_eligible
    THEN [format |-> "bincode", confirmed_height |-> rec.confirmed_height,
          spent_height |-> rec.spent_height, coinbase |-> rec.coinbase,
          timestamp |-> rec.timestamp, ff_eligible |-> TRUE]
    ELSE [format |-> "legacy", confirmed_height |-> rec.confirmed_height,
          spent_raw |-> IF rec.spent_height = None THEN 0 ELSE rec.spent_height,
          coinbase |-> rec.coinbase, timestamp |-> rec.timestamp]

\* Fault: the flag of a bincode row is lost.
DecodeRow_LosesFlag(row) ==
    [confirmed_height |-> row.confirmed_height,
     spent_height |-> IF row.format = "bincode" THEN row.spent_height
                      ELSE IF row.spent_raw # 0 THEN row.spent_raw ELSE None,
     coinbase |-> row.coinbase, timestamp |-> row.timestamp,
     ff_eligible |-> FALSE]

DecodeRow(row) ==
    IF row.format = "bincode"
    THEN [confirmed_height |-> row.confirmed_height,
          spent_height |-> row.spent_height, coinbase |-> row.coinbase,
          timestamp |-> row.timestamp, ff_eligible |-> row.ff_eligible]
    ELSE [confirmed_height |-> row.confirmed_height,
          spent_height |-> IF row.spent_raw # 0 THEN row.spent_raw ELSE None,
          coinbase |-> row.coinbase, timestamp |-> row.timestamp,
          ff_eligible |-> FALSE]

NewCoinRecord(at, ts, is_coinbase, ff) ==
    [confirmed_height |-> at, spent_height |-> None, coinbase |-> is_coinbase,
     timestamp |-> ts, ff_eligible |-> ff]

Present == {c \in Coin : coin_records[c] # Absent}
Rec(c)  == DecodeRow(coin_records[c])
Unspent == {c \in Present : Rec(c).spent_height = None}

PuzzleKeys(C) == {<<PuzzleOf[c], c>> : c \in C}
ParentKeys(C) == {<<ParentOf[c], c>> : c \in C}
HeightKeys(h, C) == {<<h, c>> : c \in C}

\* Fault: the reverse index is written under the forward keys.
ReverseHintKeys_Forward(H) == H

ReverseHintKeys(H) == {<<p[2], p[1]>> : p \in H}

Elements(s) == {s[i] : i \in DOMAIN s}

-----------------------------------------------------------------------------
(* The in-memory tree.  A batch call checks every key before it changes    *)
(* anything; `clash` and `missing` are its two errors.                     *)

TreeInsert(tree, rows) ==
    [c \in Coin |-> IF c \in DOMAIN rows THEN rows[c] ELSE tree[c]]
TreeRemove(tree, C) == [c \in Coin |-> IF c \in C THEN Absent ELSE tree[c]]
TreeHasAny(tree, C) == \E c \in C : tree[c] # Absent
TreeHasAll(tree, C) == \A c \in C : tree[c] # Absent

-----------------------------------------------------------------------------
(* What a call returns.                                                    *)

Outcome == {"Ok", "NotInitialized", "GenesisAlreadyInitialized",
            "HeightMismatch", "ParentHashMismatch", "InvalidRewardCoinCount",
            "CoinNotFound", "DoubleSpend", "CoinAlreadyExists",
            "StateRootMismatch", "RollbackAboveTip", "StorageError"}
Call == {"open", "init_genesis", "apply_block", "rollback", "snapshot",
         "save_snapshot", "restore"}

\* gained and lost are the two counts of an ApplyBlockResult (coins_created,
\* coins_spent) or of a RollbackResult (coins_unspent, coins_deleted).
Result == [call : Call, outcome : Outcome, gained : Nat, lost : Nat]
Ok(call, gained, lost) ==
    [call |-> call, outcome |-> "Ok", gained |-> gained, lost |-> lost]
Err(call, outcome) ==
    [call |-> call, outcome |-> outcome, gained |-> 0, lost |-> 0]

EmptyMetadata == [initialized |-> FALSE, height |-> None, tip_hash |-> None,
                  timestamp |-> None]
EmptyTree == [c \in Coin |-> Absent]
\* Fault: a missing metadata key has no default.
UnwrapOr_NoDefault(option, default) == option

UnwrapOr(option, default) == IF option = None THEN default ELSE option

-----------------------------------------------------------------------------
(* Opening and losing the process.                                         *)

Init ==
    /\ coin_records = [c \in Coin |-> Absent]
    /\ coin_by_puzzle_hash = {} /\ unspent_by_puzzle_hash = {}
    /\ coin_by_parent = {} /\ coin_by_confirmed_height = {}
    /\ coin_by_spent_height = {}
    /\ hints = {} /\ hints_by_value = {}
    /\ metadata = EmptyMetadata
    /\ up = FALSE
    /\ merkle_tree = EmptyTree
    /\ height = 0 /\ tip_hash = ZeroHash /\ timestamp = 0
    /\ initialized = FALSE /\ unspent_ids = {}
    /\ ret = Ok("open", 0, 0)
    /\ tree_stale = FALSE

\* CoinStore::with_config: the tip comes from metadata with defaults, the tree
\* and the unspent set are rebuilt from coin_records.
WithConfig ==
    /\ ~up
    /\ up' = TRUE
    /\ initialized' = metadata.initialized
    /\ height' = UnwrapOr(metadata.height, 0)
    /\ tip_hash' = UnwrapOr(metadata.tip_hash, ZeroHash)
    /\ timestamp' = UnwrapOr(metadata.timestamp, 0)
    /\ merkle_tree' = IF metadata.initialized THEN coin_records ELSE EmptyTree
    /\ unspent_ids' = IF metadata.initialized THEN Unspent ELSE {}
    /\ ret' = Ok("open", 0, 0)
    /\ tree_stale' = FALSE
    /\ UNCHANGED disk

\* The process stops; only what was committed survives.
Crash ==
    /\ up
    /\ up' = FALSE
    /\ merkle_tree' = EmptyTree
    /\ height' = 0 /\ tip_hash' = ZeroHash /\ timestamp' = 0
    /\ initialized' = FALSE /\ unspent_ids' = {}
    /\ ret' = Ok("open", 0, 0)
    /\ tree_stale' = FALSE
    /\ UNCHANGED disk

\* A call that returns an error before it has changed anything.
Reject(call, outcome) ==
    /\ ret' = Err(call, outcome)
    /\ UNCHANGED <<disk, up, memory, tree_stale>>

\* A call that returns an error after it has changed the tree to `tree`.
FailWithTree(call, tree) ==
    /\ merkle_tree' = tree
    /\ tree_stale' = TRUE
    /\ ret' = Err(call, "StorageError")
    /\ UNCHANGED <<disk, up, tip, unspent_ids>>

-----------------------------------------------------------------------------
(* init_genesis.                                                           *)

GenesisRows(g) ==
    [c \in g.coins |->
        EncodeRow(NewCoinRecord(0, g.timestamp, c \in g.coinbase, FALSE))]

InitGenesisRejected ==
    /\ up
    /\ initialized
    /\ Reject("init_genesis", "GenesisAlreadyInitialized")

\* The tree still holds the leaves of an earlier genesis whose commit failed.
InitGenesisTreeError(g) ==
    /\ up
    /\ ~initialized
    /\ TreeHasAny(merkle_tree, g.coins)
    /\ Reject("init_genesis", "StorageError")

InitGenesisCommitFails(g) ==
    /\ StorageFaults
    /\ up
    /\ ~initialized
    /\ ~TreeHasAny(merkle_tree, g.coins)
    /\ FailWithTree("init_genesis", TreeInsert(merkle_tree, GenesisRows(g)))

InitGenesisCommits(g) ==
    /\ up
    /\ ~initialized
    /\ ~TreeHasAny(merkle_tree, g.coins)
    /\ coin_records' = TreeInsert(coin_records, GenesisRows(g))
    /\ coin_by_puzzle_hash' = coin_by_puzzle_hash \cup PuzzleKeys(g.coins)
    /\ unspent_by_puzzle_hash' = unspent_by_puzzle_hash \cup PuzzleKeys(g.coins)
    /\ coin_by_parent' = coin_by_parent \cup ParentKeys(g.coins)
    /\ coin_by_confirmed_height' =
           coin_by_confirmed_height \cup HeightKeys(0, g.coins)
    /\ metadata' = [initialized |-> TRUE, height |-> 0, tip_hash |-> ZeroHash,
                    timestamp |-> g.timestamp]
    /\ merkle_tree' = TreeInsert(merkle_tree, GenesisRows(g))
    /\ height' = 0 /\ tip_hash' = ZeroHash /\ timestamp' = g.timestamp
    /\ initialized' = TRUE
    /\ unspent_ids' = g.coins
    /\ ret' = Ok("init_genesis", 0, 0)
    /\ UNCHANGED <<coin_by_spent_height, hintCFs, up, tree_stale>>

-----------------------------------------------------------------------------
(* apply_block, phase 1: validation.                                       *)

\* BLK-002, BLK-003, BLK-004: the checks that read no coin.
HeaderError(b) ==
    IF ~initialized THEN "NotInitialized"
    ELSE IF b.height # height + 1 THEN "HeightMismatch"
    ELSE IF b.parent_hash # tip_hash THEN "ParentHashMismatch"
    ELSE IF Len(b.coinbase_coins) < MinRewardCoins THEN "InvalidRewardCoinCount"
    ELSE "Ok"

\* Fault: a removal only has to exist.
BadRemovals_Exists(b) == {i \in DOMAIN b.removals : b.removals[i] \notin Present}

\* BLK-005: the error of the first removal that is not an unspent coin.
BadRemovals(b) == {i \in DOMAIN b.removals : b.removals[i] \notin Unspent}
FirstBadRemoval(b) ==
    b.removals[CHOOSE i \in BadRemovals(b) : \A j \in BadRemovals(b) : i <= j]

\* Fault: the ids of the coinbase coins are not collected.
ClaimedIds_NoCoinbase(b) ==
    [i \in DOMAIN b.additions |-> b.additions[i].coin_id]

\* BLK-006: the ids are the ones the additions claim; coinbase ids are
\* computed.  The HashSet makes a repeated id an error as well.
ClaimedIds(b) ==
    [i \in DOMAIN b.additions |-> b.additions[i].coin_id] \o b.coinbase_coins

\* Fault: only ids that are stored already are found, not repeated ones.
AdditionExists_Stored(b) == \E c \in Elements(ClaimedIds(b)) : c \in Present

AdditionExists(b) ==
    LET ids == ClaimedIds(b)
    IN  \E i \in DOMAIN ids :
            \/ ids[i] \in Present
            \/ \E j \in DOMAIN ids : j # i /\ ids[j] = ids[i]

BodyError(b) ==
    IF BadRemovals(b) # {}
    THEN IF FirstBadRemoval(b) \in Present THEN "DoubleSpend" ELSE "CoinNotFound"
    ELSE IF AdditionExists(b) THEN "CoinAlreadyExists"
    ELSE "Ok"

Valid(b) == HeaderError(b) = "Ok" /\ BodyError(b) = "Ok"

-----------------------------------------------------------------------------
(* apply_block, phase 2: the batch.                                        *)

\* Rows are stored under the computed id of the coin, not the claimed one.
AddedCoins(b)   == {a.coin : a \in Elements(b.additions)}
CreatedCoins(b) == AddedCoins(b) \cup Elements(b.coinbase_coins)
SpentCoins(b)   == Elements(b.removals)

\* same_as_parent of the last addition of c: the last put of a key wins.
LastSameAsParent(b, c) ==
    \E i \in DOMAIN b.additions :
        /\ b.additions[i].coin = c
        /\ b.additions[i].same_as_parent
        /\ \A j \in DOMAIN b.additions : b.additions[j].coin = c => j <= i

CreatedRows(b) ==
    [c \in CreatedCoins(b) |->
        IF c \in AddedCoins(b)
        THEN EncodeRow(NewCoinRecord(b.height, b.timestamp, FALSE,
                                     LastSameAsParent(b, c)))
        ELSE EncodeRow(NewCoinRecord(b.height, b.timestamp, TRUE, FALSE))]

SpentRows(b) ==
    [c \in SpentCoins(b) |->
        EncodeRow([Rec(c) EXCEPT !.spent_height = b.height])]

\* coin_records, and the tree, once the batch is in.
WithBlock(rows, b) == TreeInsert(TreeInsert(rows, CreatedRows(b)), SpentRows(b))

\* BLK-012: an all-zero hint is skipped.
StoredHints(b) == {p \in b.hints : p[2] # EmptyHint}

\* BLK-013: batch_insert fails on a leaf that is there, batch_update on one
\* that is not.
InsertClashes(b) == TreeHasAny(merkle_tree, CreatedCoins(b))
UpdateMisses(b) ==
    ~TreeHasAll(TreeInsert(merkle_tree, CreatedRows(b)), SpentCoins(b))
Staged(b) == Valid(b) /\ ~InsertClashes(b) /\ ~UpdateMisses(b)

\* BLK-009
RootMatches(b) ==
    \/ b.expected_state_root = "none"
    \/ /\ b.expected_state_root = "canonical"
       /\ WithBlock(merkle_tree, b) = WithBlock(coin_records, b)

ApplyBlockRejectedByHeader(b) ==
    /\ up
    /\ HeaderError(b) # "Ok"
    /\ Reject("apply_block", HeaderError(b))

ApplyBlockRejectedByBody(b) ==
    /\ up
    /\ HeaderError(b) = "Ok"
    /\ BodyError(b) # "Ok"
    /\ Reject("apply_block", BodyError(b))

\* backend.get fails while the coins of the block are being checked.
ApplyBlockReadFails(b) ==
    /\ StorageFaults
    /\ up
    /\ HeaderError(b) = "Ok"
    /\ Reject("apply_block", "StorageError")

ApplyBlockInsertClashes(b) ==
    /\ up
    /\ Valid(b)
    /\ InsertClashes(b)
    /\ Reject("apply_block", "StorageError")

ApplyBlockUpdateMisses(b) ==
    /\ up
    /\ Valid(b)
    /\ ~InsertClashes(b)
    /\ UpdateMisses(b)
    /\ FailWithTree("apply_block", TreeInsert(merkle_tree, CreatedRows(b)))

\* Fault: the tree keeps the rejected block.
ApplyBlockRootMismatch_NoRebuild(b) ==
    /\ up
    /\ Staged(b)
    /\ ~RootMatches(b)
    /\ merkle_tree' = WithBlock(merkle_tree, b)
    /\ ret' = Err("apply_block", "StateRootMismatch")
    /\ UNCHANGED <<disk, up, tip, unspent_ids, tree_stale>>

\* The tree is rebuilt from storage, which also repairs a stale one.
ApplyBlockRootMismatch(b) ==
    /\ up
    /\ Staged(b)
    /\ ~RootMatches(b)
    /\ merkle_tree' = coin_records
    /\ tree_stale' = FALSE
    /\ ret' = Err("apply_block", "StateRootMismatch")
    /\ UNCHANGED <<disk, up, tip, unspent_ids>>

\* The commit fails, or the scan that would rebuild the tree does.
ApplyBlockCommitFails(b) ==
    /\ StorageFaults
    /\ up
    /\ Staged(b)
    /\ FailWithTree("apply_block", WithBlock(merkle_tree, b))

ApplyBlockCommits(b) ==
    /\ up
    /\ Staged(b)
    /\ RootMatches(b)
    /\ coin_records' = WithBlock(coin_records, b)
    /\ coin_by_puzzle_hash' = coin_by_puzzle_hash \cup PuzzleKeys(CreatedCoins(b))
    /\ unspent_by_puzzle_hash' =
           (unspent_by_puzzle_hash \cup PuzzleKeys(CreatedCoins(b)))
               \ PuzzleKeys(SpentCoins(b))
    /\ coin_by_parent' = coin_by_parent \cup ParentKeys(CreatedCoins(b))
    /\ coin_by_confirmed_height' =
           coin_by_confirmed_height \cup HeightKeys(b.height, CreatedCoins(b))
    /\ coin_by_spent_height' =
           coin_by_spent_height \cup HeightKeys(b.height, SpentCoins(b))
    /\ hints' = hints \cup StoredHints(b)
    /\ hints_by_value' = hints_by_value \cup ReverseHintKeys(StoredHints(b))
    /\ metadata' = [metadata EXCEPT !.height = b.height,
                                    !.tip_hash = b.block_hash,
                                    !.timestamp = b.timestamp]
    /\ merkle_tree' = WithBlock(merkle_tree, b)
    /\ height' = b.height
    /\ tip_hash' = b.block_hash
    /\ timestamp' = b.timestamp
    /\ unspent_ids' = (unspent_ids \cup Elements(ClaimedIds(b))) \ SpentCoins(b)
    /\ ret' = Ok("apply_block", Len(b.coinbase_coins) + Len(b.additions),
                 Len(b.removals))
    /\ UNCHANGED <<up, initialized, tree_stale>>

-----------------------------------------------------------------------------
(* rollback_to_block and rollback_n_blocks.                                *)

Clamp(target) == IF target < 0 THEN 0 ELSE target

\* Fault: the scans start one height too late.
UndoneHeights_Late(target) == Clamp(target) + 2 .. height

UndoneHeights(target) == Clamp(target) + 1 .. height

\* Fault: coins that were spent inside the undone range are kept.
DeletedCoins_Unspent(target) ==
    {c \in Unspent : \E h \in UndoneHeights(target) :
                         <<h, c>> \in coin_by_confirmed_height}

\* RBK-002 scans the confirmed-height index, RBK-003 the spent-height index.
DeletedCoins(target) ==
    {c \in Present : \E h \in UndoneHeights(target) :
                         <<h, c>> \in coin_by_confirmed_height}

\* Fault: spends of undone blocks are kept.
RevivedCoins_None(target) == {}

RevivedCoins(target) ==
    {c \in Present \ DeletedCoins(target) :
        \E h \in UndoneHeights(target) : <<h, c>> \in coin_by_spent_height}

\* RBK-003 and RBK-004; the parent is looked up before the batch is applied.
RevivedRows(target) ==
    [c \in RevivedCoins(target) |->
        EncodeRow([Rec(c) EXCEPT !.spent_height = None,
                                 !.ff_eligible = ParentOf[c] \in Present])]

WithRollback(rows, target) ==
    TreeInsert(TreeRemove(rows, DeletedCoins(target)), RevivedRows(target))

\* Fault: only the keys of deleted coins leave the spent-height index.
DeletedSpentKeys_NoRevived(target) ==
    {<<Rec(c).spent_height, c>> : c \in DeletedCoins(target) \ Unspent}

\* Keys of the spent-height index that the two scans delete.
DeletedSpentKeys(target) ==
    {<<Rec(c).spent_height, c>> : c \in DeletedCoins(target) \ Unspent}
        \cup {key \in coin_by_spent_height :
                 /\ key[1] \in UndoneHeights(target)
                 /\ key[2] \in DeletedCoins(target) \cup RevivedCoins(target)}

\* Fault: the hints of the first undone block are kept.
DeletedHints_Late(target) ==
    {p \in hints : /\ p[1] \in DeletedCoins(target)
                   /\ Rec(p[1]).confirmed_height > Clamp(target) + 1}

\* HNT-005
DeletedHints(target) ==
    {p \in hints : /\ p[1] \in DeletedCoins(target)
                   /\ Rec(p[1]).confirmed_height > Clamp(target)}

RollbackError(target) ==
    IF ~initialized THEN "NotInitialized"
    ELSE IF target > height THEN "RollbackAboveTip"
    ELSE "Ok"

RollbackIsNoOp(target) == height <= Clamp(target) /\ target >= 0
Undoes(target) ==
    up /\ RollbackError(target) = "Ok" /\ ~RollbackIsNoOp(target)

RemoveMisses(target) == ~TreeHasAll(merkle_tree, DeletedCoins(target))
ReviveMisses(target) ==
    ~TreeHasAll(TreeRemove(merkle_tree, DeletedCoins(target)),
                RevivedCoins(target))

RollbackRejected(target) ==
    /\ up
    /\ RollbackError(target) # "Ok"
    /\ Reject("rollback", RollbackError(target))

RollbackNoOp(target) ==
    /\ up
    /\ RollbackError(target) = "Ok"
    /\ RollbackIsNoOp(target)
    /\ ret' = Ok("rollback", 0, 0)
    /\ UNCHANGED <<disk, up, memory, tree_stale>>

\* batch_remove fails before it changes the tree, batch_update after it did.
RollbackTreeError(target) ==
    /\ Undoes(target)
    /\ RemoveMisses(target) \/ ReviveMisses(target)
    /\ IF RemoveMisses(target)
       THEN Reject("rollback", "StorageError")
       ELSE FailWithTree("rollback",
                         TreeRemove(merkle_tree, DeletedCoins(target)))

\* prefix_scan or get fails during the two scans.
RollbackReadFails(target) ==
    /\ StorageFaults
    /\ Undoes(target)
    /\ Reject("rollback", "StorageError")

RollbackCommitFails(target) ==
    /\ StorageFaults
    /\ Undoes(target)
    /\ ~RemoveMisses(target)
    /\ ~ReviveMisses(target)
    /\ FailWithTree("rollback", WithRollback(merkle_tree, target))

RollbackCommits(target) ==
    /\ Undoes(target)
    /\ ~RemoveMisses(target)
    /\ ~ReviveMisses(target)
    /\ coin_records' = WithRollback(coin_records, target)
    /\ coin_by_puzzle_hash' =
           coin_by_puzzle_hash \ PuzzleKeys(DeletedCoins(target))
    /\ unspent_by_puzzle_hash' =
           (unspent_by_puzzle_hash \ PuzzleKeys(DeletedCoins(target)))
               \cup PuzzleKeys(RevivedCoins(target))
    /\ coin_by_parent' = coin_by_parent \ ParentKeys(DeletedCoins(target))
    /\ coin_by_confirmed_height' =
           coin_by_confirmed_height
               \ {<<Rec(c).confirmed_height, c>> : c \in DeletedCoins(target)}
    /\ coin_by_spent_height' = coin_by_spent_height \ DeletedSpentKeys(target)
    /\ hints' = hints \ DeletedHints(target)
    /\ hints_by_value' =
           hints_by_value \ ReverseHintKeys(DeletedHints(target))
    /\ metadata' = [metadata EXCEPT !.height = Clamp(target),
                                    !.tip_hash = ZeroHash,
                                    !.timestamp = timestamp]
    /\ merkle_tree' = WithRollback(merkle_tree, target)
    /\ height' = Clamp(target)
    /\ tip_hash' = ZeroHash
    /\ unspent_ids' =
           (unspent_ids \ DeletedCoins(target)) \cup RevivedCoins(target)
    /\ ret' = Ok("rollback", Cardinality(RevivedCoins(target)),
                 Cardinality(DeletedCoins(target)))
    /\ UNCHANGED <<up, timestamp, initialized, tree_stale>>

RollbackToBlock(target) ==
    \/ RollbackRejected(target)
    \/ RollbackNoOp(target)
    \/ RollbackTreeError(target)
    \/ RollbackReadFails(target)
    \/ RollbackCommitFails(target)
    \/ RollbackCommits(target)

\* Fault: the top bit of the count is cut off.
AsI64_Truncates(n) == n % I64Limit

\* `n as i64` and the i64 subtraction, both of which wrap in a release build.
AsI64(n) == IF n < I64Limit THEN n ELSE n - 2 * I64Limit
WrapI64(x) == IF x >= I64Limit THEN x - 2 * I64Limit ELSE x
NBlocksTarget(n) == WrapI64(height - AsI64(n))

RollbackNBlocks(n) == RollbackToBlock(NBlocksTarget(n))

InitGenesis(g) ==
    \/ InitGenesisTreeError(g)
    \/ InitGenesisCommitFails(g)
    \/ InitGenesisCommits(g)

ApplyBlock(b) ==
    \/ ApplyBlockRejectedByHeader(b)
    \/ ApplyBlockRejectedByBody(b)
    \/ ApplyBlockReadFails(b)
    \/ ApplyBlockInsertClashes(b)
    \/ ApplyBlockUpdateMisses(b)
    \/ ApplyBlockRootMismatch(b)
    \/ ApplyBlockCommitFails(b)
    \/ ApplyBlockCommits(b)

Next ==
    \/ WithConfig
    \/ Crash
    \/ InitGenesisRejected
    \/ \E g \in Geneses : InitGenesis(g)
    \/ \E b \in Blocks : ApplyBlock(b)
    \/ \E target \in Targets : RollbackToBlock(target)
    \/ \E n \in Counts : RollbackNBlocks(n)

Spec == Init /\ [][Next]_vars

-----------------------------------------------------------------------------
(* Properties.                                                             *)

\* Every column family and every field of struct CoinStore holds values of
\* the kind the code stores there.
TypeOK ==
    /\ coin_records \in [Coin -> Row \cup {Absent}]
    /\ coin_by_puzzle_hash \subseteq Nat \X Coin
    /\ unspent_by_puzzle_hash \subseteq Nat \X Coin
    /\ coin_by_parent \subseteq (Coin \cup {None}) \X Coin
    /\ coin_by_confirmed_height \subseteq Nat \X Coin
    /\ coin_by_spent_height \subseteq Nat \X Coin
    /\ hints \subseteq Coin \X Hint
    /\ hints_by_value \subseteq Hint \X Coin
    /\ metadata \in [initialized : BOOLEAN, height : Nat \cup {None},
                     tip_hash : BlockHash \cup {None},
                     timestamp : Nat \cup {None}]
    /\ up \in BOOLEAN
    /\ merkle_tree \in [Coin -> Row \cup {Absent}]
    /\ height \in Nat
    /\ tip_hash \in BlockHash
    /\ timestamp \in Nat
    /\ initialized \in BOOLEAN
    /\ unspent_ids \subseteq Coin
    /\ ret \in Result
    /\ tree_stale \in BOOLEAN

\* The five secondary indices hold exactly the keys the rows of coin_records
\* imply, after any mix of blocks, rollbacks, failed calls and restarts: no
\* query by puzzle hash, parent or height can miss a coin or return a ghost.
IndexesMatchRecords ==
    /\ coin_by_puzzle_hash = PuzzleKeys(Present)
    /\ unspent_by_puzzle_hash = PuzzleKeys(Unspent)
    /\ coin_by_parent = ParentKeys(Present)
    /\ coin_by_confirmed_height =
           {<<Rec(c).confirmed_height, c>> : c \in Present}
    /\ coin_by_spent_height =
           {<<Rec(c).spent_height, c>> : c \in Present \ Unspent}

\* The caller fills CoinAddition.coin_id with the id of the coin beside it,
\* which apply_block does not check.
HonestBlocks ==
    \A b \in Blocks : \A i \in DOMAIN b.additions :
        b.additions[i].coin_id = b.additions[i].coin

\* The caller hints only coins the block creates, and lists a removal once;
\* apply_block checks neither.
HintsOnCreated == \A b \in Blocks : \A p \in b.hints : p[1] \in CreatedCoins(b)
DistinctRemovals ==
    \A b \in Blocks : \A i, j \in DOMAIN b.removals :
        b.removals[i] = b.removals[j] => i = j

\* While the store is open, the tip and the unspent set kept in memory are the
\* ones a restart would load, even after a failed commit.
MemoryMatchesDisk ==
    up => /\ initialized = metadata.initialized
          /\ height = UnwrapOr(metadata.height, 0)
          /\ tip_hash = UnwrapOr(metadata.tip_hash, ZeroHash)
          /\ timestamp = UnwrapOr(metadata.timestamp, 0)
          /\ unspent_ids = Unspent

\* While the store is open, the tree hashes exactly the stored rows, unless a
\* call has failed between its change of the tree and its commit and nothing
\* has rebuilt the tree since.
TreeMatchesDisk == (up /\ ~tree_stale) => merkle_tree = coin_records

\* No row lies above the tip, and a spent coin was spent by a later block than
\* the one that created it: a rollback leaves neither a coin nor a spend of an
\* undone block behind.
HeightsWithinChain ==
    \A c \in Present :
        /\ Rec(c).confirmed_height <= UnwrapOr(metadata.height, 0)
        /\ c \notin Unspent =>
               Rec(c).spent_height \in
                   Rec(c).confirmed_height + 1 .. UnwrapOr(metadata.height, 0)

\* No row exists before the genesis commit, and the tip height is stored from
\* then on: the empty tree of an uninitialized open is the right one.
GenesisFirst ==
    /\ ~metadata.initialized => Present = {}
    /\ metadata.initialized => metadata.height # None

\* The two hint indices mirror each other.
HintsMirrored == hints_by_value = {<<p[2], p[1]>> : p \in hints}

\* No hint names a coin the store does not hold, provided the blocks hint only
\* coins they create: rollback removes the hints of the coins it deletes.
HintsHaveCoins == \A p \in hints : p[1] \in Present

\* A call that returns an error leaves the column families and the whole of
\* the memory as they were, unless storage failed under it (tree_stale').
FailedCallChangesNothing ==
    [][ret'.outcome # "Ok" /\ ~tree_stale /\ ~tree_stale'
           => UNCHANGED <<disk, memory>>]_vars

\* apply_block's doc comment and RBK-007 say more: a block or a rollback that
\* fails for whatever reason, a failing commit included, changes nothing.
FailureIsInvisible ==
    [][(ret'.call \in {"apply_block", "rollback"} /\ ret'.outcome # "Ok")
           => UNCHANGED <<disk, memory>>]_vars

\* The counts in ApplyBlockResult and RollbackResult are the numbers of coins
\* that entered or left the store and that changed from unspent to spent or
\* back.
CountsAreTrue ==
    [][/\ (ret'.call = "apply_block" /\ ret'.outcome = "Ok") =>
             /\ ret'.gained = Cardinality(Present' \ Present)
             /\ ret'.lost = Cardinality(Unspent \ Unspent')
       /\ (ret'.call = "rollback" /\ ret'.outcome = "Ok") =>
             /\ ret'.gained = Cardinality(Unspent' \ Unspent)
             /\ ret'.lost = Cardinality(Present \ Present')]_vars

\* The coins unspent after block h, read off the stored rows alone.
UtxoAt(h) ==
    {c \in Present : /\ Rec(c).confirmed_height <= h
                     /\ c \in Unspent \/ Rec(c).spent_height > h}

\* An Ok call leaves the chain at height `goal`, with the coins that were unspent
\* after that height, in storage and in memory.
Reaches(goal) ==
    /\ height' = goal
    /\ Unspent' = UtxoAt(goal)
    /\ unspent_ids' = UtxoAt(goal)

\* A rollback that returns Ok has gone to the height it was asked for, or to
\* height 0 if that is negative, from whatever chain: no clamp, no-op test or
\* wrapping of a count of blocks makes it stop elsewhere, and a count of 2^63 or
\* more is refused or resets the chain.  Heights are below 2^63.
RollbackReachesItsTarget ==
    [][(ret'.call = "rollback" /\ ret'.outcome = "Ok") =>
        /\ \A target \in Targets :
               Reaches(IF target > 0 THEN target ELSE 0) \/ ~RollbackToBlock(target)
        /\ height < I64Limit =>
               \A n \in Counts :
                   Reaches(IF n < height THEN height - n ELSE 0) \/ ~RollbackNBlocks(n)]_vars

Ledger == INSTANCE UtxoLedger
    WITH started <- metadata.initialized,
         tip <- UnwrapOr(metadata.height, 0),
         utxo <- [h \in 0 .. UnwrapOr(metadata.height, 0) |-> UtxoAt(h)]

\* The stored rows implement the ledger of unspent coins per height: blocks
\* extend it, rollbacks cut it at their target, and failed calls, crashes and
\* restarts leave it alone.
LedgerSpec == Ledger!Spec

=============================================================================
