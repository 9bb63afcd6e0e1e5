--------------------------- MODULE CoinStoreProofs ---------------------------
(*****************************************************************************)
(* Machine-checked theorems about CoinStore: that its state keeps its types, *)
(* the inductive invariant with the safety theorems that follow from it, and *)
(* what every step does as its caller sees it (the rows implement UtxoLedger, *)
(* a failed call changes nothing, the counts a call returns are true).      *)
(*****************************************************************************)
EXTENDS CoinStore, FiniteSetTheorems, TLAPS

-----------------------------------------------------------------------------
(* Rows.                                                                   *)

\* Encoding yields a storable row.
LEMMA EncodeType ==
    ASSUME NEW rec \in CoinRecord
    PROVE  EncodeRow(rec) \in Row /\ EncodeRow(rec) # Absent
<1>1. CASE rec.ff_eligible
  <2>1. EncodeRow(rec) \in BincodeRow
    BY <1>1 DEF CoinRecord, BincodeRow, EncodeRow
  <2>. QED
    BY <2>1, AbsentAssumption DEF Row
<1>2. CASE ~rec.ff_eligible
  <2>1. (IF rec.spent_height = None THEN 0 ELSE rec.spent_height) \in Nat
    BY DEF CoinRecord
  <2>2. EncodeRow(rec) \in LegacyRow
    BY <1>2, <2>1 DEF CoinRecord, LegacyRow, EncodeRow
  <2>. QED
    BY <2>2, AbsentAssumption DEF Row
<1>. QED
  BY <1>1, <1>2

\* Decoding a stored row yields a record.
LEMMA DecodeType ==
    ASSUME NEW row \in Row
    PROVE  DecodeRow(row) \in CoinRecord
<1>1. CASE row \in BincodeRow
  BY <1>1 DEF BincodeRow, DecodeRow, CoinRecord
<1>2. CASE row \in LegacyRow
  <2>1. row.format # "bincode"
    BY <1>2 DEF LegacyRow
  <2>. QED
    BY <1>2, <2>1 DEF LegacyRow, DecodeRow, CoinRecord
<1>. QED
  BY <1>1, <1>2 DEF Row

\* The two formats lose nothing of a record whose spent height is not zero,
\* the one value the 97-byte layout cannot tell from None.
LEMMA RoundTrip ==
    ASSUME NEW rec \in CoinRecord, rec.spent_height # 0
    PROVE  DecodeRow(EncodeRow(rec)) = rec
<1>1. CASE rec.ff_eligible
  BY <1>1 DEF CoinRecord, EncodeRow, DecodeRow
<1>2. CASE ~rec.ff_eligible
  <2>1. rec.ff_eligible = FALSE
    BY <1>2 DEF CoinRecord
  <2>2. CASE rec.spent_height = None
    BY <2>1, <2>2 DEF CoinRecord, EncodeRow, DecodeRow
  <2>3. CASE rec.spent_height # None
    BY <2>1, <2>3 DEF CoinRecord, EncodeRow, DecodeRow
  <2>. QED
    BY <2>2, <2>3
<1>. QED
  BY <1>1, <1>2

-----------------------------------------------------------------------------
(* The values the actions write.                                           *)

Rows == [Coin -> Row \cup {Absent}]

LEMMA TreeInsertType ==
    ASSUME NEW tree \in Rows, NEW C \in SUBSET Coin, NEW rows \in [C -> Row]
    PROVE  TreeInsert(tree, rows) \in Rows
BY DEF TreeInsert, Rows

LEMMA TreeRemoveType ==
    ASSUME NEW tree \in Rows, NEW C
    PROVE  TreeRemove(tree, C) \in Rows
BY DEF TreeRemove, Rows

LEMMA RecType ==
    ASSUME TypeOK, NEW c \in Present
    PROVE  c \in Coin /\ coin_records[c] \in Row /\ Rec(c) \in CoinRecord
<1>1. c \in Coin /\ coin_records[c] \in Row
  BY DEF TypeOK, Present
<1>. QED
  BY <1>1, DecodeType DEF Rec

LEMMA NewCoinRecordType ==
    ASSUME NEW h \in Nat, NEW ts \in Nat, NEW cb \in BOOLEAN, NEW ff \in BOOLEAN
    PROVE  /\ NewCoinRecord(h, ts, cb, ff) \in CoinRecord
           /\ NewCoinRecord(h, ts, cb, ff).confirmed_height = h
           /\ NewCoinRecord(h, ts, cb, ff).spent_height = None
           /\ NewCoinRecord(h, ts, cb, ff).spent_height # 0
BY ConstantsAssumption DEF NewCoinRecord, CoinRecord

\* What a block argument is made of.
LEMMA BlockType ==
    ASSUME NEW b \in Blocks
    PROVE  /\ b \in Block
           /\ CreatedCoins(b) \subseteq Coin
           /\ SpentCoins(b) \subseteq Coin
           /\ StoredHints(b) \subseteq Coin \X Hint
           /\ Elements(ClaimedIds(b)) \subseteq Coin
<1>1. b \in Block
  BY InputsAssumption
<1>2. /\ b.additions \in Seq(Addition) /\ b.removals \in Seq(Coin)
      /\ b.coinbase_coins \in Seq(Coin) /\ b.hints \subseteq Coin \X Hint
  BY <1>1 DEF Block
<1>3. \A i \in DOMAIN b.additions : b.additions[i] \in Addition
  BY <1>2
<1>4. \A i \in DOMAIN b.additions :
          b.additions[i].coin \in Coin /\ b.additions[i].coin_id \in Coin
  BY <1>3 DEF Addition
<1>5. [i \in DOMAIN b.additions |-> b.additions[i].coin_id] \in Seq(Coin)
  BY <1>2, <1>4
<1>6. ClaimedIds(b) \in Seq(Coin)
  BY <1>2, <1>5 DEF ClaimedIds
<1>7. Elements(ClaimedIds(b)) \subseteq Coin
  BY <1>6 DEF Elements
<1>8. CreatedCoins(b) \subseteq Coin
  BY <1>2, <1>4 DEF CreatedCoins, AddedCoins, Elements
<1>9. SpentCoins(b) \subseteq Coin
  BY <1>2 DEF SpentCoins, Elements
<1>. QED
  BY <1>1, <1>2, <1>7, <1>8, <1>9 DEF StoredHints

LEMMA CreatedRowsType ==
    ASSUME NEW b \in Blocks
    PROVE  CreatedRows(b) \in [CreatedCoins(b) -> Row]
<1>1. b.height \in Nat /\ b.timestamp \in Nat
  BY BlockType DEF Block
<1>2. \A c : LastSameAsParent(b, c) \in BOOLEAN
  BY DEF LastSameAsParent
<1>3. \A cb, ff \in BOOLEAN :
          EncodeRow(NewCoinRecord(b.height, b.timestamp, cb, ff)) \in Row
  BY <1>1, NewCoinRecordType, EncodeType
<1>. QED
  BY <1>2, <1>3 DEF CreatedRows

LEMMA SpentRowsType ==
    ASSUME TypeOK, NEW b \in Blocks, Valid(b)
    PROVE  /\ SpentCoins(b) \subseteq Unspent
           /\ SpentRows(b) \in [SpentCoins(b) -> Row]
<1>1. BadRemovals(b) = {}
  BY DEF Valid, BodyError
<1>2. SpentCoins(b) \subseteq Unspent
  BY <1>1 DEF BadRemovals, SpentCoins, Elements
<1>3. b.height \in Nat
  BY BlockType DEF Block
<1>4. ASSUME NEW c \in SpentCoins(b)
      PROVE  EncodeRow([Rec(c) EXCEPT !.spent_height = b.height]) \in Row
  <2>1. Rec(c) \in CoinRecord
    BY <1>2, RecType DEF Unspent
  <2>2. [Rec(c) EXCEPT !.spent_height = b.height] \in CoinRecord
    BY <1>3, <2>1 DEF CoinRecord
  <2>. QED
    BY <2>2, EncodeType
<1>. QED
  BY <1>2, <1>4 DEF SpentRows

LEMMA RevivedRowsType ==
    ASSUME TypeOK, NEW t \in Int
    PROVE  /\ DeletedCoins(t) \subseteq Coin
           /\ RevivedCoins(t) \subseteq Coin
           /\ RevivedRows(t) \in [RevivedCoins(t) -> Row]
<1>1. DeletedCoins(t) \subseteq Coin /\ RevivedCoins(t) \subseteq Present
  BY DEF DeletedCoins, RevivedCoins, Present
<1>2. ASSUME NEW c \in RevivedCoins(t)
      PROVE  EncodeRow([Rec(c) EXCEPT !.spent_height = None,
                            !.ff_eligible = ParentOf[c] \in Present]) \in Row
  <2>1. Rec(c) \in CoinRecord
    BY <1>1, RecType
  <2>2. (ParentOf[c] \in Present) \in BOOLEAN
    OBVIOUS
  <2>3. [Rec(c) EXCEPT !.spent_height = None,
                       !.ff_eligible = ParentOf[c] \in Present] \in CoinRecord
    BY <2>1, <2>2 DEF CoinRecord
  <2>. QED
    BY <2>3, EncodeType
<1>. QED
  BY <1>1, <1>2 DEF RevivedRows, Present

-----------------------------------------------------------------------------
(* Type correctness.                                                       *)

LEMMA GenesisRowsType ==
    ASSUME NEW g \in Geneses
    PROVE  /\ g.coins \subseteq Coin /\ g.timestamp \in Nat
           /\ GenesisRows(g) \in [g.coins -> Row]
<1>1. g.coins \subseteq Coin /\ g.timestamp \in Nat
  BY InputsAssumption DEF Genesis
<1>2. \A cb \in BOOLEAN :
          EncodeRow(NewCoinRecord(0, g.timestamp, cb, FALSE)) \in Row
  BY <1>1, NewCoinRecordType, EncodeType
<1>3. ASSUME NEW c \in g.coins
      PROVE  EncodeRow(NewCoinRecord(0, g.timestamp, c \in g.coinbase, FALSE)) \in Row
  <2>1. (c \in g.coinbase) \in BOOLEAN
    OBVIOUS
  <2>. QED
    BY <1>2, <2>1, Zenon
<1>. QED
  BY <1>1, <1>3 DEF GenesisRows

LEMMA KeysType ==
    ASSUME NEW C \in SUBSET Coin, NEW h \in Nat
    PROVE  /\ PuzzleKeys(C) \subseteq Nat \X Coin
           /\ ParentKeys(C) \subseteq (Coin \cup {None}) \X Coin
           /\ HeightKeys(h, C) \subseteq Nat \X Coin
BY ConstantsAssumption DEF PuzzleKeys, ParentKeys, HeightKeys

LEMMA ResultType ==
    ASSUME NEW call \in Call, NEW outcome \in Outcome, NEW m \in Nat, NEW n \in Nat
    PROVE  Ok(call, m, n) \in Result /\ Err(call, outcome) \in Result
BY DEF Ok, Err, Result, Outcome

LEMMA RejectType ==
    ASSUME TypeOK, NEW call \in Call, NEW outcome \in Outcome,
           Reject(call, outcome)
    PROVE  TypeOK'
BY ResultType
DEF Reject, TypeOK, disk, coinCFs, hintCFs, memory, tip

LEMMA FailWithTreeType ==
    ASSUME TypeOK, NEW call \in Call, NEW tree \in Rows, FailWithTree(call, tree)
    PROVE  TypeOK'
<1>1. Err(call, "StorageError") \in Result
  BY ResultType DEF Outcome
<1>. QED
  BY <1>1 DEF FailWithTree, Rows, TypeOK, disk, coinCFs, hintCFs, tip

LEMMA OpenType ==
    ASSUME TypeOK, WithConfig \/ Crash
    PROVE  TypeOK'
<1>1. Ok("open", 0, 0) \in Result
  BY ResultType DEF Call, Outcome
<1>2. EmptyTree \in Rows
  BY DEF EmptyTree, Rows
<1>3. Unspent \subseteq Coin
  BY DEF Unspent, Present
<1>4. /\ UnwrapOr(metadata.height, 0) \in Nat
      /\ UnwrapOr(metadata.tip_hash, ZeroHash) \in BlockHash
      /\ UnwrapOr(metadata.timestamp, 0) \in Nat
      /\ metadata.initialized \in BOOLEAN
  BY ConstantsAssumption DEF TypeOK, UnwrapOr
<1>5. CASE WithConfig
  BY <1>1, <1>2, <1>3, <1>4, <1>5
  DEF WithConfig, TypeOK, Rows, disk, coinCFs, hintCFs
<1>6. CASE Crash
  BY <1>1, <1>2, <1>6, ConstantsAssumption
  DEF Crash, TypeOK, Rows, disk, coinCFs, hintCFs
<1>. QED
  BY <1>5, <1>6

LEMMA InitGenesisCommitsType ==
    ASSUME TypeOK, NEW g \in Geneses, InitGenesisCommits(g)
    PROVE  TypeOK'
<1>1. g.coins \in SUBSET Coin /\ g.timestamp \in Nat /\ ZeroHash \in BlockHash
  BY GenesisRowsType, ConstantsAssumption
<1>2. /\ TreeInsert(merkle_tree, GenesisRows(g)) \in Rows
      /\ TreeInsert(coin_records, GenesisRows(g)) \in Rows
  BY <1>1, GenesisRowsType, TreeInsertType DEF TypeOK, Rows
<1>3. Ok("init_genesis", 0, 0) \in Result
  BY ResultType DEF Call, Outcome
<1>4. /\ PuzzleKeys(g.coins) \subseteq Nat \X Coin
      /\ ParentKeys(g.coins) \subseteq (Coin \cup {None}) \X Coin
      /\ HeightKeys(0, g.coins) \subseteq Nat \X Coin
  BY <1>1, KeysType
<1>. QED
  BY <1>1, <1>2, <1>3, <1>4 DEF InitGenesisCommits, TypeOK, Rows, hintCFs

LEMMA ApplyBlockCommitsType ==
    ASSUME TypeOK, NEW b \in Blocks, ApplyBlockCommits(b)
    PROVE  TypeOK'
<1>0. /\ b.height \in Nat /\ b.timestamp \in Nat /\ b.block_hash \in BlockHash
      /\ b.coinbase_coins \in Seq(Coin) /\ b.additions \in Seq(Addition)
      /\ b.removals \in Seq(Coin)
  BY BlockType DEF Block
<1>1. /\ b.height \in Nat /\ b.timestamp \in Nat /\ b.block_hash \in BlockHash
      /\ Len(b.coinbase_coins) + Len(b.additions) \in Nat
      /\ Len(b.removals) \in Nat
  <2>1. \A S : \A s \in Seq(S) : Len(s) \in Nat
    OBVIOUS
  <2>2. /\ Len(b.coinbase_coins) \in Nat /\ Len(b.additions) \in Nat
        /\ Len(b.removals) \in Nat
    BY <1>0, <2>1, Zenon
  <2>3. \A m, n \in Nat : m + n \in Nat
    OBVIOUS
  <2>. QED
    BY <1>0, <2>2, <2>3, Zenon
<1>2. /\ CreatedCoins(b) \in SUBSET Coin /\ SpentCoins(b) \in SUBSET Coin
      /\ Elements(ClaimedIds(b)) \subseteq Coin
      /\ StoredHints(b) \subseteq Coin \X Hint
  BY BlockType
<1>3. Valid(b)
  BY DEF ApplyBlockCommits, Staged
<1>4. \A tree \in Rows : WithBlock(tree, b) \in Rows
  BY <1>2, <1>3, CreatedRowsType, SpentRowsType, TreeInsertType DEF WithBlock
<1>5. Ok("apply_block", Len(b.coinbase_coins) + Len(b.additions),
         Len(b.removals)) \in Result
  BY <1>1, ResultType DEF Call, Outcome
<1>6. /\ PuzzleKeys(CreatedCoins(b)) \subseteq Nat \X Coin
      /\ ParentKeys(CreatedCoins(b)) \subseteq (Coin \cup {None}) \X Coin
      /\ HeightKeys(b.height, CreatedCoins(b)) \subseteq Nat \X Coin
      /\ HeightKeys(b.height, SpentCoins(b)) \subseteq Nat \X Coin
  BY <1>1, <1>2, KeysType
<1>7. ReverseHintKeys(StoredHints(b)) \subseteq Hint \X Coin
  BY <1>2 DEF ReverseHintKeys
<1>8. /\ coin_records' \in Rows /\ merkle_tree' \in Rows
  BY <1>4 DEF ApplyBlockCommits, TypeOK, Rows
<1>9. metadata' \in [initialized : BOOLEAN, height : Nat \cup {None},
                     tip_hash : BlockHash \cup {None},
                     timestamp : Nat \cup {None}]
  BY <1>1 DEF ApplyBlockCommits, TypeOK
<1>. QED
  BY <1>1, <1>2, <1>5, <1>6, <1>7, <1>8, <1>9
  DEF ApplyBlockCommits, TypeOK, Rows

LEMMA RollbackCommitsType ==
    ASSUME TypeOK, NEW t \in Int, RollbackCommits(t)
    PROVE  TypeOK'
<1>1. DeletedCoins(t) \in SUBSET Coin /\ RevivedCoins(t) \in SUBSET Coin
  BY RevivedRowsType
<1>2. \A tree \in Rows : WithRollback(tree, t) \in Rows
  BY <1>1, RevivedRowsType, TreeInsertType, TreeRemoveType DEF WithRollback
<1>3. /\ Cardinality(DeletedCoins(t)) \in Nat
      /\ Cardinality(RevivedCoins(t)) \in Nat
  BY <1>1, ConstantsAssumption, FS_Subset, FS_CardinalityType
<1>4. Ok("rollback", Cardinality(RevivedCoins(t)),
         Cardinality(DeletedCoins(t))) \in Result
  BY <1>3, ResultType DEF Call, Outcome
<1>5. PuzzleKeys(RevivedCoins(t)) \subseteq Nat \X Coin
  BY <1>1, KeysType
<1>6. Clamp(t) \in Nat /\ ZeroHash \in BlockHash
  BY ConstantsAssumption DEF Clamp
<1>7. coin_records' \in Rows /\ merkle_tree' \in Rows
  BY <1>2 DEF RollbackCommits, TypeOK, Rows
<1>8. metadata' \in [initialized : BOOLEAN, height : Nat \cup {None},
                     tip_hash : BlockHash \cup {None},
                     timestamp : Nat \cup {None}]
  BY <1>6 DEF RollbackCommits, TypeOK
<1>. QED
  BY <1>1, <1>4, <1>5, <1>6, <1>7, <1>8 DEF RollbackCommits, TypeOK, Rows

LEMMA InitGenesisType ==
    ASSUME TypeOK, NEW g \in Geneses, InitGenesis(g)
    PROVE  TypeOK'
<1>1. CASE InitGenesisTreeError(g)
  BY <1>1, RejectType DEF InitGenesisTreeError, Call, Outcome
<1>2. CASE InitGenesisCommitFails(g)
  <2>1. TreeInsert(merkle_tree, GenesisRows(g)) \in Rows
    BY GenesisRowsType, TreeInsertType DEF TypeOK, Rows
  <2>. QED
    BY <1>2, <2>1, FailWithTreeType DEF InitGenesisCommitFails, Call
<1>. QED
  BY <1>1, <1>2, InitGenesisCommitsType DEF InitGenesis

LEMMA ApplyBlockType ==
    ASSUME TypeOK, NEW b \in Blocks, ApplyBlock(b)
    PROVE  TypeOK'
<1>1. "apply_block" \in Call /\ "StorageError" \in Outcome
  BY DEF Call, Outcome
<1>2. HeaderError(b) \in Outcome /\ BodyError(b) \in Outcome
  BY DEF HeaderError, BodyError, Outcome
<1>3. TreeInsert(merkle_tree, CreatedRows(b)) \in Rows
  BY BlockType, CreatedRowsType, TreeInsertType DEF TypeOK, Rows
<1>4. CASE ApplyBlockRejectedByHeader(b) \/ ApplyBlockRejectedByBody(b)
  BY <1>1, <1>2, <1>4, RejectType
  DEF ApplyBlockRejectedByHeader, ApplyBlockRejectedByBody
<1>5. CASE ApplyBlockReadFails(b) \/ ApplyBlockInsertClashes(b)
  BY <1>1, <1>5, RejectType DEF ApplyBlockReadFails, ApplyBlockInsertClashes
<1>6. CASE ApplyBlockUpdateMisses(b)
  BY <1>1, <1>3, <1>6, FailWithTreeType DEF ApplyBlockUpdateMisses
<1>7. CASE ApplyBlockRootMismatch(b)
  <2>1. Err("apply_block", "StateRootMismatch") \in Result
    BY ResultType DEF Call, Outcome
  <2>. QED
    BY <1>7, <2>1
    DEF ApplyBlockRootMismatch, TypeOK, disk, coinCFs, hintCFs, tip
<1>8. CASE ApplyBlockCommitFails(b)
  <2>1. Valid(b)
    BY <1>8 DEF ApplyBlockCommitFails, Staged
  <2>2. WithBlock(merkle_tree, b) \in Rows
    BY <1>3, <2>1, BlockType, SpentRowsType, TreeInsertType DEF WithBlock
  <2>. QED
    BY <1>1, <1>8, <2>2, FailWithTreeType DEF ApplyBlockCommitFails
<1>. QED
  BY <1>4, <1>5, <1>6, <1>7, <1>8, ApplyBlockCommitsType DEF ApplyBlock

LEMMA RollbackType ==
    ASSUME TypeOK, NEW t \in Int, RollbackToBlock(t)
    PROVE  TypeOK'
<1>1. "rollback" \in Call /\ "StorageError" \in Outcome
  BY DEF Call, Outcome
<1>2. RollbackError(t) \in Outcome
  BY DEF RollbackError, Outcome
<1>3. TreeRemove(merkle_tree, DeletedCoins(t)) \in Rows
  BY TreeRemoveType DEF TypeOK, Rows
<1>4. CASE RollbackRejected(t) \/ RollbackReadFails(t)
  BY <1>1, <1>2, <1>4, RejectType DEF RollbackRejected, RollbackReadFails
<1>5. CASE RollbackNoOp(t)
  <2>1. Ok("rollback", 0, 0) \in Result
    BY <1>1, ResultType
  <2>. QED
    BY <1>5, <2>1 DEF RollbackNoOp, TypeOK, disk, coinCFs, hintCFs, memory, tip
<1>6. CASE RollbackTreeError(t)
  BY <1>1, <1>3, <1>6, RejectType, FailWithTreeType DEF RollbackTreeError
<1>7. CASE RollbackCommitFails(t)
  <2>1. WithRollback(merkle_tree, t) \in Rows
    BY <1>3, RevivedRowsType, TreeInsertType DEF WithRollback
  <2>. QED
    BY <1>1, <1>7, <2>1, FailWithTreeType DEF RollbackCommitFails
<1>. QED
  BY <1>4, <1>5, <1>6, <1>7, RollbackCommitsType DEF RollbackToBlock

LEMMA NBlocksTargetType ==
    ASSUME TypeOK, NEW n \in Counts
    PROVE  NBlocksTarget(n) \in Int
BY InputsAssumption DEF NBlocksTarget, WrapI64, AsI64, TypeOK

LEMMA NextType == TypeOK /\ [Next]_vars => TypeOK'
<1> SUFFICES ASSUME TypeOK, [Next]_vars PROVE TypeOK'
  OBVIOUS
<1>1. CASE WithConfig \/ Crash
  BY <1>1, OpenType
<1>2. CASE InitGenesisRejected
  BY <1>2, RejectType DEF InitGenesisRejected, Call, Outcome
<1>3. CASE \E g \in Geneses : InitGenesis(g)
  BY <1>3, InitGenesisType
<1>4. CASE \E b \in Blocks : ApplyBlock(b)
  BY <1>4, ApplyBlockType
<1>5. CASE \E target \in Targets : RollbackToBlock(target)
  BY <1>5, RollbackType, InputsAssumption
<1>6. CASE \E n \in Counts : RollbackNBlocks(n)
  BY <1>6, RollbackType, NBlocksTargetType DEF RollbackNBlocks
<1>7. CASE UNCHANGED vars
  BY <1>7 DEF vars, TypeOK, disk, coinCFs, hintCFs, memory, tip
<1>. QED
  BY <1>1, <1>2, <1>3, <1>4, <1>5, <1>6, <1>7 DEF Next

LEMMA InitType == Init => TypeOK
<1> SUFFICES ASSUME Init PROVE TypeOK
  OBVIOUS
<1>1. Ok("open", 0, 0) \in Result
  BY ResultType DEF Call, Outcome
<1>. QED
  BY <1>1, ConstantsAssumption DEF Init, TypeOK, EmptyTree, EmptyMetadata

\* Type correctness of the store, for every set of coins, blocks and rollback
\* targets: no call, failed call, crash or restart writes an ill-formed row,
\* key or field.
THEOREM TypeCorrect == Spec => []TypeOK
BY InitType, NextType, PTL DEF Spec

-----------------------------------------------------------------------------
(*****************************************************************************)
(* Safety.  Each commit is first summarised by what it does to the set of   *)
(* rows and to the two heights of a row; the invariants are then preserved by *)
(* reasoning about those effects alone.                                     *)
(*****************************************************************************)

-----------------------------------------------------------------------------
(* Effects of the three commits on the rows.                               *)

\* With honest ids, the ids phase 1 checks are the ids phase 2 stores.
LEMMA HonestIds ==
    ASSUME HonestBlocks, NEW b \in Blocks
    PROVE  Elements(ClaimedIds(b)) = CreatedCoins(b)
<1>1. b.additions \in Seq(Addition) /\ b.coinbase_coins \in Seq(Coin)
  BY BlockType DEF Block
<1> DEFINE s == [i \in DOMAIN b.additions |-> b.additions[i].coin_id]
           t == b.coinbase_coins
<1>2. \A i \in DOMAIN b.additions : b.additions[i].coin_id = b.additions[i].coin
  BY DEF HonestBlocks
<1>3. \A i \in DOMAIN b.additions : b.additions[i].coin_id \in Coin
  <2>1. \A i \in DOMAIN b.additions : b.additions[i] \in Addition
    BY <1>1
  <2>. QED
    BY <2>1 DEF Addition
<1>4. s \in Seq(Coin) /\ DOMAIN s = DOMAIN b.additions
  BY <1>1, <1>3
<1>5. Elements(s \o t) = Elements(s) \cup Elements(t)
  <2> HIDE DEF s, t
  <2> SUFFICES ASSUME s \in Seq(Coin), t \in Seq(Coin)
               PROVE  Elements(s \o t) = Elements(s) \cup Elements(t)
    BY <1>1, <1>4 DEF t
  <2>1. /\ DOMAIN s = 1 .. Len(s) /\ DOMAIN t = 1 .. Len(t)
        /\ DOMAIN (s \o t) = 1 .. Len(s) + Len(t)
        /\ Len(s) \in Nat /\ Len(t) \in Nat
    OBVIOUS
  <2>2. \A i \in 1 .. Len(s) : (s \o t)[i] = s[i] /\ i \in 1 .. Len(s) + Len(t)
    BY <2>1
  <2>3. \A j \in 1 .. Len(t) :
            /\ (s \o t)[j + Len(s)] = t[j]
            /\ j + Len(s) \in 1 .. Len(s) + Len(t)
    BY <2>1
  <2>4. \A i \in 1 .. Len(s) + Len(t) :
            i \in 1 .. Len(s) \/ (\E j \in 1 .. Len(t) : i = j + Len(s))
    <3> SUFFICES ASSUME NEW i \in 1 .. Len(s) + Len(t), i \notin 1 .. Len(s)
                 PROVE  i - Len(s) \in 1 .. Len(t) /\ i = (i - Len(s)) + Len(s)
      OBVIOUS
    <3>. QED
      BY <2>1
  <2>5. \A i \in DOMAIN (s \o t) : (s \o t)[i] \in Elements(s) \cup Elements(t)
    BY <2>1, <2>2, <2>3, <2>4, Zenon DEF Elements
  <2>6. \A i \in DOMAIN s : s[i] \in Elements(s \o t)
    BY <2>1, <2>2, Zenon DEF Elements
  <2>7. \A j \in DOMAIN t : t[j] \in Elements(s \o t)
    BY <2>1, <2>3, Zenon DEF Elements
  <2>. QED
    BY <2>5, <2>6, <2>7, Zenon DEF Elements
<1>6. Elements(s) = AddedCoins(b)
  BY <1>2, <1>4 DEF Elements, AddedCoins
<1>. QED
  BY <1>5, <1>6 DEF ClaimedIds, CreatedCoins

LEMMA ValidBlock ==
    ASSUME TypeOK, HonestBlocks, NEW b \in Blocks, Valid(b)
    PROVE  /\ CreatedCoins(b) \cap Present = {}
           /\ SpentCoins(b) \subseteq Unspent
           /\ CreatedCoins(b) \cap SpentCoins(b) = {}
           /\ b.height = height + 1
           /\ initialized
<1>1. ~AdditionExists(b)
  BY DEF Valid, BodyError
<1>2. Elements(ClaimedIds(b)) \cap Present = {}
  BY <1>1 DEF AdditionExists, Elements
<1>3. CreatedCoins(b) \cap Present = {}
  BY <1>2, HonestIds
<1>4. SpentCoins(b) \subseteq Unspent
  BY SpentRowsType
<1>5. b.height = height + 1 /\ initialized
  BY DEF Valid, HeaderError
<1>. QED
  BY <1>3, <1>4, <1>5 DEF Unspent

LEMMA ApplyEffects ==
    ASSUME TypeOK, HonestBlocks, NEW b \in Blocks, ApplyBlockCommits(b)
    PROVE  /\ Present' = Present \cup CreatedCoins(b)
           /\ Unspent' = (Unspent \cup CreatedCoins(b)) \ SpentCoins(b)
           /\ \A c \in CreatedCoins(b) :
                  /\ Rec(c)'.confirmed_height = b.height
                  /\ Rec(c)'.spent_height = None
           /\ \A c \in SpentCoins(b) :
                  /\ Rec(c)'.confirmed_height = Rec(c).confirmed_height
                  /\ Rec(c)'.spent_height = b.height
                  /\ Rec(c)'.coinbase = Rec(c).coinbase
                  /\ Rec(c)'.timestamp = Rec(c).timestamp
           /\ \A c \in Present \ SpentCoins(b) :
                  Rec(c)' = Rec(c) /\ coin_records'[c] = coin_records[c]
           /\ \A c \in CreatedCoins(b) \cup SpentCoins(b) :
                  coin_records'[c] = EncodeRow(Rec(c)')
<1>1. Valid(b) /\ coin_records' = WithBlock(coin_records, b)
  BY DEF ApplyBlockCommits, Staged
<1>2. /\ CreatedCoins(b) \cap Present = {} /\ SpentCoins(b) \subseteq Unspent
      /\ CreatedCoins(b) \cap SpentCoins(b) = {}
      /\ b.height = height + 1
  BY <1>1, ValidBlock
<1>3. CreatedCoins(b) \subseteq Coin /\ SpentCoins(b) \subseteq Coin
  BY BlockType
<1>4. /\ DOMAIN CreatedRows(b) = CreatedCoins(b)
      /\ DOMAIN SpentRows(b) = SpentCoins(b)
  BY DEF CreatedRows, SpentRows
<1>5. \A c \in Coin :
          coin_records'[c] = IF c \in SpentCoins(b) THEN SpentRows(b)[c]
                             ELSE IF c \in CreatedCoins(b) THEN CreatedRows(b)[c]
                             ELSE coin_records[c]
  BY <1>1, <1>4 DEF WithBlock, TreeInsert
<1>6. b.height \in Nat /\ b.height # 0 /\ b.timestamp \in Nat
  <2>1. b.height \in Nat /\ b.timestamp \in Nat
    BY BlockType DEF Block
  <2>. QED
    BY <1>2, <2>1 DEF TypeOK
<1>7. ASSUME NEW c \in CreatedCoins(b)
      PROVE  /\ coin_records'[c] # Absent
             /\ Rec(c)'.confirmed_height = b.height
             /\ Rec(c)'.spent_height = None
             /\ coin_records'[c] = EncodeRow(Rec(c)')
  <2>1. coin_records'[c] = CreatedRows(b)[c]
    BY <1>2, <1>3, <1>5
  <2>2. PICK cb \in BOOLEAN, ff \in BOOLEAN :
            CreatedRows(b)[c] =
                EncodeRow(NewCoinRecord(b.height, b.timestamp, cb, ff))
    <3>1. LastSameAsParent(b, c) \in BOOLEAN
      BY DEF LastSameAsParent
    <3>. QED
      BY <3>1, Zenon DEF CreatedRows
  <2> DEFINE r == NewCoinRecord(b.height, b.timestamp, cb, ff)
  <2>3. /\ r \in CoinRecord /\ r.confirmed_height = b.height
        /\ r.spent_height = None /\ r.spent_height # 0
    BY <1>6, NewCoinRecordType
  <2>4. DecodeRow(EncodeRow(r)) = r /\ EncodeRow(r) # Absent
    BY <2>3, RoundTrip, EncodeType
  <2>5. Rec(c)' = r
    BY <2>1, <2>2, <2>4 DEF Rec
  <2>. QED
    BY <2>1, <2>2, <2>3, <2>4, <2>5
<1>8. ASSUME NEW c \in SpentCoins(b)
      PROVE  /\ coin_records'[c] # Absent
             /\ Rec(c)'.confirmed_height = Rec(c).confirmed_height
             /\ Rec(c)'.spent_height = b.height
             /\ Rec(c)'.coinbase = Rec(c).coinbase
             /\ Rec(c)'.timestamp = Rec(c).timestamp
             /\ coin_records'[c] = EncodeRow(Rec(c)')
  <2> DEFINE r == [Rec(c) EXCEPT !.spent_height = b.height]
  <2>1. Rec(c) \in CoinRecord
    BY <1>2, RecType DEF Unspent
  <2>2. /\ r \in CoinRecord /\ r.spent_height = b.height
        /\ r.confirmed_height = Rec(c).confirmed_height
        /\ r.coinbase = Rec(c).coinbase /\ r.timestamp = Rec(c).timestamp
    BY <1>6, <2>1 DEF CoinRecord
  <2>3. DecodeRow(EncodeRow(r)) = r /\ EncodeRow(r) # Absent
    BY <1>6, <2>2, RoundTrip, EncodeType
  <2>4. coin_records'[c] = EncodeRow(r)
    BY <1>3, <1>5 DEF SpentRows
  <2>5. Rec(c)' = r
    BY <2>3, <2>4 DEF Rec
  <2>. QED
    BY <2>2, <2>3, <2>4, <2>5
<1>9. \A c \in Coin \ (CreatedCoins(b) \cup SpentCoins(b)) :
          coin_records'[c] = coin_records[c] /\ Rec(c)' = Rec(c)
  BY <1>5 DEF Rec
<1>10. Present' = Present \cup CreatedCoins(b)
  <2>1. SpentCoins(b) \subseteq Present
    BY <1>2 DEF Unspent
  <2>. QED
    BY <1>3, <1>7, <1>8, <1>9, <2>1 DEF Present
<1>11. \A c \in Present \ SpentCoins(b) :
           Rec(c)' = Rec(c) /\ coin_records'[c] = coin_records[c]
  BY <1>2, <1>9 DEF Present
<1>12. Unspent' = (Unspent \cup CreatedCoins(b)) \ SpentCoins(b)
  <2>1. Unspent' = {c \in Present' : Rec(c)'.spent_height = None}
    BY DEF Unspent
  <2>2. Unspent = {c \in Present : Rec(c).spent_height = None}
    BY DEF Unspent
  <2>3. b.height # None
    BY <1>6, ConstantsAssumption
  <2>. QED
    BY <1>2, <1>7, <1>8, <1>10, <1>11, <2>1, <2>2, <2>3
<1>. QED
  BY <1>7, <1>8, <1>10, <1>11, <1>12

LEMMA RollbackEffects ==
    ASSUME TypeOK, NEW t \in Int, RollbackCommits(t)
    PROVE  /\ Present' = Present \ DeletedCoins(t)
           /\ RevivedCoins(t) \subseteq Present \ DeletedCoins(t)
           /\ Unspent' = (Unspent \ DeletedCoins(t)) \cup RevivedCoins(t)
           /\ \A c \in RevivedCoins(t) :
                  /\ Rec(c)'.confirmed_height = Rec(c).confirmed_height
                  /\ Rec(c)'.spent_height = None
                  /\ Rec(c)'.coinbase = Rec(c).coinbase
                  /\ Rec(c)'.timestamp = Rec(c).timestamp
                  /\ coin_records'[c] = EncodeRow(Rec(c)')
           /\ \A c \in Present \ (DeletedCoins(t) \cup RevivedCoins(t)) :
                  Rec(c)' = Rec(c) /\ coin_records'[c] = coin_records[c]
<1>1. coin_records' = WithRollback(coin_records, t)
  BY DEF RollbackCommits
<1>2. RevivedCoins(t) \subseteq Present \ DeletedCoins(t)
  BY DEF RevivedCoins
<1>3. DeletedCoins(t) \subseteq Present /\ Present \subseteq Coin
  BY DEF DeletedCoins, Present
<1>4. DOMAIN RevivedRows(t) = RevivedCoins(t)
  BY DEF RevivedRows
<1>5. \A c \in Coin :
          coin_records'[c] = IF c \in RevivedCoins(t) THEN RevivedRows(t)[c]
                             ELSE IF c \in DeletedCoins(t) THEN Absent
                             ELSE coin_records[c]
  BY <1>1, <1>4 DEF WithRollback, TreeInsert, TreeRemove
<1>6. ASSUME NEW c \in RevivedCoins(t)
      PROVE  /\ coin_records'[c] # Absent
             /\ Rec(c)'.confirmed_height = Rec(c).confirmed_height
             /\ Rec(c)'.spent_height = None
             /\ Rec(c)'.coinbase = Rec(c).coinbase
             /\ Rec(c)'.timestamp = Rec(c).timestamp
             /\ coin_records'[c] = EncodeRow(Rec(c)')
  <2> DEFINE r == [Rec(c) EXCEPT !.spent_height = None,
                                 !.ff_eligible = ParentOf[c] \in Present]
  <2>1. Rec(c) \in CoinRecord
    BY <1>2, RecType
  <2>2. (ParentOf[c] \in Present) \in BOOLEAN
    OBVIOUS
  <2>3. /\ r \in CoinRecord /\ r.spent_height = None
        /\ r.confirmed_height = Rec(c).confirmed_height
        /\ r.coinbase = Rec(c).coinbase /\ r.timestamp = Rec(c).timestamp
    BY <2>1, <2>2 DEF CoinRecord
  <2>4. r.spent_height # 0
    BY <2>3, ConstantsAssumption
  <2>5. DecodeRow(EncodeRow(r)) = r /\ EncodeRow(r) # Absent
    BY <2>3, <2>4, RoundTrip, EncodeType
  <2>6. coin_records'[c] = EncodeRow(r)
    BY <1>2, <1>3, <1>5 DEF RevivedRows
  <2>7. Rec(c)' = r
    BY <2>5, <2>6 DEF Rec
  <2>. QED
    BY <2>3, <2>5, <2>6, <2>7
<1>7. \A c \in Coin \ (DeletedCoins(t) \cup RevivedCoins(t)) :
          coin_records'[c] = coin_records[c] /\ Rec(c)' = Rec(c)
  BY <1>5 DEF Rec
<1>8. \A c \in DeletedCoins(t) : coin_records'[c] = Absent
  BY <1>2, <1>3, <1>5
<1>9. Present' = Present \ DeletedCoins(t)
  BY <1>2, <1>3, <1>6, <1>7, <1>8 DEF Present
<1>10. Unspent' = (Unspent \ DeletedCoins(t)) \cup RevivedCoins(t)
  <2>1. Unspent' = {c \in Present' : Rec(c)'.spent_height = None}
    BY DEF Unspent
  <2>2. Unspent = {c \in Present : Rec(c).spent_height = None}
    BY DEF Unspent
  <2>. QED
    BY <1>2, <1>3, <1>6, <1>7, <1>9, <2>1, <2>2
<1>. QED
  BY <1>2, <1>3, <1>6, <1>7, <1>9, <1>10

LEMMA GenesisEffects ==
    ASSUME TypeOK, NEW g \in Geneses, InitGenesisCommits(g), Present = {}
    PROVE  /\ Present' = g.coins
           /\ Unspent' = g.coins
           /\ \A c \in g.coins : /\ Rec(c)'.confirmed_height = 0
                                 /\ coin_records'[c] = EncodeRow(Rec(c)')
<1>1. g.coins \subseteq Coin /\ g.timestamp \in Nat
  BY GenesisRowsType
<1>2. DOMAIN GenesisRows(g) = g.coins
  BY DEF GenesisRows
<1>3. \A c \in Coin : coin_records'[c] = IF c \in g.coins THEN GenesisRows(g)[c]
                                         ELSE coin_records[c]
  BY <1>2 DEF InitGenesisCommits, TreeInsert
<1>4. ASSUME NEW c \in g.coins
      PROVE  /\ coin_records'[c] # Absent
             /\ Rec(c)'.confirmed_height = 0
             /\ Rec(c)'.spent_height = None
             /\ coin_records'[c] = EncodeRow(Rec(c)')
  <2> DEFINE r == NewCoinRecord(0, g.timestamp, c \in g.coinbase, FALSE)
  <2>1. (c \in g.coinbase) \in BOOLEAN
    OBVIOUS
  <2>2. /\ r \in CoinRecord /\ r.confirmed_height = 0
        /\ r.spent_height = None /\ r.spent_height # 0
    <3>1. \A cb \in BOOLEAN :
              /\ NewCoinRecord(0, g.timestamp, cb, FALSE) \in CoinRecord
              /\ NewCoinRecord(0, g.timestamp, cb, FALSE).confirmed_height = 0
              /\ NewCoinRecord(0, g.timestamp, cb, FALSE).spent_height = None
              /\ NewCoinRecord(0, g.timestamp, cb, FALSE).spent_height # 0
      BY <1>1, NewCoinRecordType
    <3>. QED
      BY <2>1, <3>1, Zenon
  <2>3. DecodeRow(EncodeRow(r)) = r /\ EncodeRow(r) # Absent
    BY <2>2, RoundTrip, EncodeType
  <2>4. coin_records'[c] = EncodeRow(r)
    BY <1>1, <1>3 DEF GenesisRows
  <2>5. Rec(c)' = r
    BY <2>3, <2>4 DEF Rec
  <2>. QED
    BY <2>2, <2>3, <2>4, <2>5
<1>5. Present' = g.coins
  BY <1>1, <1>3, <1>4 DEF Present
<1>6. Unspent' = g.coins
  <2>1. Unspent' = {c \in Present' : Rec(c)'.spent_height = None}
    BY DEF Unspent
  <2>. QED
    BY <1>4, <1>5, <2>1
<1>. QED
  BY <1>4, <1>5, <1>6

-----------------------------------------------------------------------------
(* The inductive invariant.  IndexesMatchRecords alone is not inductive:   *)
(* init_genesis may overwrite rows unless none exists before it            *)
(* (GenesisFirst) and unless the memory knows whether it ran               *)
(* (MemoryMatchesDisk); rollback bounds its scans by the height in memory. *)

DiskInv == /\ GenesisFirst
           /\ IndexesMatchRecords
           /\ HeightsWithinChain
           /\ HintsMirrored
MemoryInv == MemoryMatchesDisk /\ TreeMatchesDisk
IInv == TypeOK /\ DiskInv /\ MemoryInv

LEMMA KeysAlgebra ==
    ASSUME NEW A, NEW B
    PROVE  /\ PuzzleKeys(A \cup B) = PuzzleKeys(A) \cup PuzzleKeys(B)
           /\ PuzzleKeys(A \ B) = PuzzleKeys(A) \ PuzzleKeys(B)
           /\ ParentKeys(A \cup B) = ParentKeys(A) \cup ParentKeys(B)
           /\ ParentKeys(A \ B) = ParentKeys(A) \ ParentKeys(B)
           /\ ReverseHintKeys(A \cup B) = ReverseHintKeys(A) \cup ReverseHintKeys(B)
BY DEF PuzzleKeys, ParentKeys, ReverseHintKeys

LEMMA ReverseDifference ==
    ASSUME NEW A \in SUBSET (Coin \X Hint), NEW B \in SUBSET A
    PROVE  ReverseHintKeys(A \ B) = ReverseHintKeys(A) \ ReverseHintKeys(B)
BY DEF ReverseHintKeys

LEMMA DiskStutter ==
    ASSUME DiskInv, UNCHANGED disk
    PROVE  DiskInv'
<1>1. UNCHANGED <<coin_records, coin_by_puzzle_hash, unspent_by_puzzle_hash,
                  coin_by_parent, coin_by_confirmed_height,
                  coin_by_spent_height, hints, hints_by_value, metadata>>
  BY DEF disk, coinCFs, hintCFs
<1>2. Present' = Present
  BY <1>1 DEF Present
<1>3. \A c : Rec(c)' = Rec(c)
  BY <1>1 DEF Rec
<1>4. Unspent' = Unspent
  BY <1>2, <1>3 DEF Unspent
<1>5. GenesisFirst' /\ HintsMirrored'
  BY <1>1, <1>2 DEF DiskInv, GenesisFirst, HintsMirrored
<1>6. IndexesMatchRecords'
  BY <1>1, <1>2, <1>3, <1>4 DEF DiskInv, IndexesMatchRecords
<1>7. HeightsWithinChain'
  BY <1>1, <1>2, <1>3, <1>4 DEF DiskInv, HeightsWithinChain
<1>. QED
  BY <1>5, <1>6, <1>7 DEF DiskInv

LEMMA GenesisDisk ==
    ASSUME IInv, NEW g \in Geneses, InitGenesisCommits(g)
    PROVE  DiskInv'
<1>1. Present = {}
  BY DEF IInv, DiskInv, MemoryInv, GenesisFirst, MemoryMatchesDisk,
         InitGenesisCommits
<1>2. /\ Present' = g.coins /\ Unspent' = g.coins
      /\ \A c \in g.coins : Rec(c)'.confirmed_height = 0
  BY <1>1, GenesisEffects DEF IInv
<1>3. Unspent = {}
  BY <1>1 DEF Unspent
<1>4. metadata'.initialized = TRUE /\ metadata'.height = 0 /\ 0 # None
  BY ConstantsAssumption DEF InitGenesisCommits
<1>5. GenesisFirst'
  BY <1>4 DEF GenesisFirst
<1>6. IndexesMatchRecords'
  <2>1. /\ coin_by_puzzle_hash = {} /\ unspent_by_puzzle_hash = {}
        /\ coin_by_parent = {} /\ coin_by_confirmed_height = {}
        /\ coin_by_spent_height = {}
    BY <1>1, <1>3
    DEF IInv, DiskInv, IndexesMatchRecords, PuzzleKeys, ParentKeys
  <2>2. /\ coin_by_puzzle_hash' = PuzzleKeys(g.coins)
        /\ unspent_by_puzzle_hash' = PuzzleKeys(g.coins)
        /\ coin_by_parent' = ParentKeys(g.coins)
        /\ coin_by_confirmed_height' = HeightKeys(0, g.coins)
        /\ coin_by_spent_height' = {}
    BY <2>1 DEF InitGenesisCommits
  <2>3. /\ PuzzleKeys(Present)' = PuzzleKeys(g.coins)
        /\ PuzzleKeys(Unspent)' = PuzzleKeys(g.coins)
        /\ ParentKeys(Present)' = ParentKeys(g.coins)
    BY <1>2 DEF PuzzleKeys, ParentKeys
  <2>4. HeightKeys(0, g.coins) = {<<Rec(c)'.confirmed_height, c>> : c \in Present'}
    BY <1>2 DEF HeightKeys
  <2>. QED
    BY <1>2, <2>2, <2>3, <2>4 DEF IndexesMatchRecords
<1>7. HeightsWithinChain'
  BY <1>2, <1>4 DEF HeightsWithinChain, UnwrapOr
<1>8. HintsMirrored'
  BY DEF InitGenesisCommits, hintCFs, HintsMirrored, IInv, DiskInv
<1>. QED
  BY <1>5, <1>6, <1>7, <1>8 DEF DiskInv

LEMMA ApplyDisk ==
    ASSUME IInv, HonestBlocks, NEW b \in Blocks, ApplyBlockCommits(b)
    PROVE  DiskInv'
<1> DEFINE New == CreatedCoins(b)
           Gone == SpentCoins(b)
<1>1. TypeOK /\ Valid(b) /\ up
  BY DEF IInv, ApplyBlockCommits, Staged
<1>2. /\ New \cap Present = {} /\ Gone \subseteq Unspent /\ New \cap Gone = {}
      /\ b.height = height + 1 /\ initialized
  BY <1>1, ValidBlock
<1>3. /\ Present' = Present \cup New
      /\ Unspent' = (Unspent \cup New) \ Gone
      /\ \A c \in New : /\ Rec(c)'.confirmed_height = b.height
                        /\ Rec(c)'.spent_height = None
      /\ \A c \in Gone : /\ Rec(c)'.confirmed_height = Rec(c).confirmed_height
                         /\ Rec(c)'.spent_height = b.height
      /\ \A c \in Present \ Gone : Rec(c)' = Rec(c)
  BY <1>1, ApplyEffects
<1>4. /\ height = UnwrapOr(metadata.height, 0) /\ metadata.initialized
  BY <1>1, <1>2 DEF IInv, MemoryInv, MemoryMatchesDisk
<1>5. height \in Nat /\ b.height \in Nat /\ b.height # None
  BY <1>1, <1>2, ConstantsAssumption DEF TypeOK
<1>6. metadata'.height = b.height /\ metadata'.initialized = metadata.initialized
  BY <1>1 DEF ApplyBlockCommits, TypeOK
<1>7. Unspent \subseteq Present
  BY DEF Unspent
<1> HIDE DEF New, Gone
<1>8. GenesisFirst'
  BY <1>4, <1>5, <1>6 DEF GenesisFirst
<1>9. IndexesMatchRecords'
  <2>1. IndexesMatchRecords
    BY DEF IInv, DiskInv
  <2>2. coin_by_puzzle_hash' = PuzzleKeys(Present)'
    <3>1. coin_by_puzzle_hash' = PuzzleKeys(Present) \cup PuzzleKeys(New)
      BY <2>1 DEF IndexesMatchRecords, ApplyBlockCommits, New
    <3>2. PuzzleKeys(Present)' = PuzzleKeys(Present \cup New)
      BY <1>3 DEF PuzzleKeys
    <3>. QED
      BY <3>1, <3>2, KeysAlgebra
  <2>3. unspent_by_puzzle_hash' = PuzzleKeys(Unspent)'
    <3>1. unspent_by_puzzle_hash' =
              (PuzzleKeys(Unspent) \cup PuzzleKeys(New)) \ PuzzleKeys(Gone)
      BY <2>1 DEF IndexesMatchRecords, ApplyBlockCommits, New, Gone
    <3>2. PuzzleKeys(Unspent)' = PuzzleKeys((Unspent \cup New) \ Gone)
      BY <1>3 DEF PuzzleKeys
    <3>3. PuzzleKeys((Unspent \cup New) \ Gone) =
              PuzzleKeys(Unspent \cup New) \ PuzzleKeys(Gone)
      BY KeysAlgebra
    <3>4. PuzzleKeys(Unspent \cup New) = PuzzleKeys(Unspent) \cup PuzzleKeys(New)
      BY KeysAlgebra
    <3>. QED
      BY <3>1, <3>2, <3>3, <3>4
  <2>4. coin_by_parent' = ParentKeys(Present)'
    <3>1. coin_by_parent' = ParentKeys(Present) \cup ParentKeys(New)
      BY <2>1 DEF IndexesMatchRecords, ApplyBlockCommits, New
    <3>2. ParentKeys(Present)' = ParentKeys(Present \cup New)
      BY <1>3 DEF ParentKeys
    <3>. QED
      BY <3>1, <3>2, KeysAlgebra
  <2>5. coin_by_confirmed_height' = {<<Rec(c)'.confirmed_height, c>> : c \in Present'}
    <3>1. coin_by_confirmed_height' =
              {<<Rec(c).confirmed_height, c>> : c \in Present}
                  \cup {<<b.height, c>> : c \in New}
      BY <2>1 DEF IndexesMatchRecords, ApplyBlockCommits, HeightKeys, New
    <3>2. \A c \in Present : Rec(c)'.confirmed_height = Rec(c).confirmed_height
      BY <1>3
    <3>. QED
      BY <1>3, <3>1, <3>2
  <2>6. coin_by_spent_height' =
            {<<Rec(c)'.spent_height, c>> : c \in (Present \ Unspent)'}
    <3>1. coin_by_spent_height' =
              {<<Rec(c).spent_height, c>> : c \in Present \ Unspent}
                  \cup {<<b.height, c>> : c \in Gone}
      BY <2>1 DEF IndexesMatchRecords, ApplyBlockCommits, HeightKeys, Gone
    <3>2. (Present \ Unspent)' = (Present \ Unspent) \cup Gone
      BY <1>2, <1>3, <1>7
    <3>3. \A c \in Present \ Unspent : Rec(c)'.spent_height = Rec(c).spent_height
      BY <1>2, <1>3
    <3>. QED
      BY <1>3, <3>1, <3>2, <3>3
  <2>. QED
    BY <2>2, <2>3, <2>4, <2>5, <2>6 DEF IndexesMatchRecords
<1>10. HeightsWithinChain'
  <2>1. HeightsWithinChain
    BY DEF IInv, DiskInv
  <2>2. UnwrapOr(metadata.height, 0)' = b.height
    BY <1>5, <1>6 DEF UnwrapOr
  <2> SUFFICES ASSUME NEW c \in Present'
               PROVE  /\ Rec(c)'.confirmed_height <= b.height
                      /\ c \notin Unspent' =>
                             Rec(c)'.spent_height \in
                                 Rec(c)'.confirmed_height + 1 .. b.height
    BY <2>2 DEF HeightsWithinChain
  <2>3. CASE c \in New
    BY <1>2, <1>3, <1>5, <2>3
  <2>4. CASE c \in Gone
    <3>1. Rec(c) \in CoinRecord
      BY <1>1, <1>2, <1>7, <2>4, RecType
    <3>2. Rec(c).confirmed_height \in Nat
      BY <3>1 DEF CoinRecord
    <3>3. Rec(c).confirmed_height <= height
      BY <1>2, <1>4, <1>7, <2>1, <2>4 DEF HeightsWithinChain
    <3>. QED
      BY <1>2, <1>3, <1>5, <2>4, <3>2, <3>3
  <2>5. CASE c \in Present \ Gone
    <3>1. Rec(c) \in CoinRecord
      BY <1>1, <2>5, RecType
    <3>2. Rec(c).confirmed_height \in Nat
      BY <3>1 DEF CoinRecord
    <3>3. /\ Rec(c).confirmed_height <= height
          /\ c \notin Unspent =>
                 Rec(c).spent_height \in Rec(c).confirmed_height + 1 .. height
      BY <1>4, <2>1, <2>5 DEF HeightsWithinChain
    <3>4. c \notin Unspent' => c \notin Unspent
      BY <1>3, <2>5
    <3>. QED
      BY <1>2, <1>3, <1>5, <2>5, <3>2, <3>3, <3>4
  <2>. QED
    BY <1>2, <1>3, <2>3, <2>4, <2>5
<1>11. HintsMirrored'
  <2>1. hints_by_value = ReverseHintKeys(hints)
    BY DEF IInv, DiskInv, HintsMirrored, ReverseHintKeys
  <2>2. hints_by_value' = ReverseHintKeys(hints \cup StoredHints(b))
    BY <2>1, KeysAlgebra DEF ApplyBlockCommits
  <2>3. hints' = hints \cup StoredHints(b)
    BY DEF ApplyBlockCommits
  <2>. QED
    BY <2>2, <2>3 DEF HintsMirrored, ReverseHintKeys
<1>. QED
  BY <1>8, <1>9, <1>10, <1>11 DEF DiskInv

\* What the two scans of a rollback find, in terms of the rows.
LEMMA UndoneCoins ==
    ASSUME IInv, NEW t \in Int, Undoes(t)
    PROVE  /\ Clamp(t) \in 0 .. height
           /\ DeletedCoins(t) =
                  {c \in Present : Rec(c).confirmed_height > Clamp(t)}
           /\ RevivedCoins(t) =
                  {c \in Present \ Unspent :
                      /\ Rec(c).confirmed_height <= Clamp(t)
                      /\ Rec(c).spent_height > Clamp(t)}
<1>1. /\ TypeOK /\ IndexesMatchRecords /\ HeightsWithinChain /\ up
      /\ height = UnwrapOr(metadata.height, 0)
  BY DEF IInv, DiskInv, MemoryInv, MemoryMatchesDisk, Undoes
<1>2. height \in Nat
  BY <1>1 DEF TypeOK
<1>3. Clamp(t) \in 0 .. height
  BY <1>2 DEF Undoes, RollbackError, Clamp
<1>4. \A c \in Present : Rec(c).confirmed_height \in 0 .. height
  <2> SUFFICES ASSUME NEW c \in Present
               PROVE  Rec(c).confirmed_height \in 0 .. height
    OBVIOUS
  <2>1. Rec(c) \in CoinRecord
    BY <1>1, RecType
  <2>2. Rec(c).confirmed_height \in Nat
    BY <2>1 DEF CoinRecord
  <2>. QED
    BY <1>1, <1>2, <2>2 DEF HeightsWithinChain
<1>5. \A c \in Present \ Unspent :
          Rec(c).spent_height \in Rec(c).confirmed_height + 1 .. height
  BY <1>1 DEF HeightsWithinChain
<1>6. \A h, c : <<h, c>> \in coin_by_confirmed_height <=>
                    c \in Present /\ h = Rec(c).confirmed_height
  BY <1>1 DEF IndexesMatchRecords
<1>7. \A h, c : <<h, c>> \in coin_by_spent_height <=>
                    c \in Present \ Unspent /\ h = Rec(c).spent_height
  BY <1>1 DEF IndexesMatchRecords
<1>8. DeletedCoins(t) = {c \in Present : Rec(c).confirmed_height > Clamp(t)}
  <2>1. DeletedCoins(t) =
            {c \in Present : Rec(c).confirmed_height \in Clamp(t) + 1 .. height}
    BY <1>6 DEF DeletedCoins, UndoneHeights
  <2>. QED
    BY <1>2, <1>3, <1>4, <2>1
<1>9. RevivedCoins(t) = {c \in Present \ Unspent :
                            /\ Rec(c).confirmed_height <= Clamp(t)
                            /\ Rec(c).spent_height > Clamp(t)}
  <2>1. RevivedCoins(t) =
            {c \in (Present \ DeletedCoins(t)) \cap (Present \ Unspent) :
                Rec(c).spent_height \in Clamp(t) + 1 .. height}
    BY <1>7 DEF RevivedCoins, UndoneHeights
  <2>2. \A c \in Present :
            c \notin DeletedCoins(t) <=> Rec(c).confirmed_height <= Clamp(t)
    BY <1>2, <1>3, <1>4, <1>8
  <2>3. \A c \in Present \ Unspent :
            Rec(c).spent_height \in Clamp(t) + 1 .. height
                <=> Rec(c).spent_height > Clamp(t)
    BY <1>2, <1>3, <1>4, <1>5
  <2>. QED
    BY <2>1, <2>2, <2>3
<1>. QED
  BY <1>3, <1>8, <1>9

LEMMA RollbackDisk ==
    ASSUME IInv, NEW t \in Int, RollbackCommits(t)
    PROVE  DiskInv'
<1> DEFINE Del == DeletedCoins(t)
           Rev == RevivedCoins(t)
<1>1. /\ TypeOK /\ Undoes(t) /\ IndexesMatchRecords /\ HeightsWithinChain
      /\ initialized = metadata.initialized /\ initialized
  BY DEF IInv, DiskInv, MemoryInv, MemoryMatchesDisk, RollbackCommits, Undoes,
         RollbackError
<1>2. /\ Clamp(t) \in 0 .. height
      /\ Del = {c \in Present : Rec(c).confirmed_height > Clamp(t)}
      /\ Rev = {c \in Present \ Unspent :
                   /\ Rec(c).confirmed_height <= Clamp(t)
                   /\ Rec(c).spent_height > Clamp(t)}
  BY <1>1, UndoneCoins
<1>3. /\ Present' = Present \ Del
      /\ Rev \subseteq Present \ Del
      /\ Unspent' = (Unspent \ Del) \cup Rev
      /\ \A c \in Rev : /\ Rec(c)'.confirmed_height = Rec(c).confirmed_height
                        /\ Rec(c)'.spent_height = None
      /\ \A c \in Present \ (Del \cup Rev) : Rec(c)' = Rec(c)
  BY <1>1, RollbackEffects
<1>4. /\ metadata'.height = Clamp(t)
      /\ metadata'.initialized = metadata.initialized
  BY <1>1 DEF RollbackCommits, TypeOK
<1>5. Clamp(t) \in Nat /\ Clamp(t) # None
  BY ConstantsAssumption DEF Clamp
<1>6. Unspent \subseteq Present
  BY DEF Unspent
<1> HIDE DEF Del, Rev
<1>7. GenesisFirst'
  BY <1>1, <1>4, <1>5 DEF GenesisFirst
<1>8. IndexesMatchRecords'
  <2>1. coin_by_puzzle_hash' = PuzzleKeys(Present)'
    <3>1. coin_by_puzzle_hash' = PuzzleKeys(Present) \ PuzzleKeys(Del)
      BY <1>1 DEF IndexesMatchRecords, RollbackCommits, Del
    <3>2. PuzzleKeys(Present)' = PuzzleKeys(Present \ Del)
      BY <1>3 DEF PuzzleKeys
    <3>. QED
      BY <3>1, <3>2, KeysAlgebra
  <2>2. unspent_by_puzzle_hash' = PuzzleKeys(Unspent)'
    <3>1. unspent_by_puzzle_hash' =
              (PuzzleKeys(Unspent) \ PuzzleKeys(Del)) \cup PuzzleKeys(Rev)
      BY <1>1 DEF IndexesMatchRecords, RollbackCommits, Del, Rev
    <3>2. PuzzleKeys(Unspent)' = PuzzleKeys((Unspent \ Del) \cup Rev)
      BY <1>3 DEF PuzzleKeys
    <3>3. PuzzleKeys((Unspent \ Del) \cup Rev) =
              PuzzleKeys(Unspent \ Del) \cup PuzzleKeys(Rev)
      BY KeysAlgebra
    <3>4. PuzzleKeys(Unspent \ Del) = PuzzleKeys(Unspent) \ PuzzleKeys(Del)
      BY KeysAlgebra
    <3>. QED
      BY <3>1, <3>2, <3>3, <3>4
  <2>3. coin_by_parent' = ParentKeys(Present)'
    <3>1. coin_by_parent' = ParentKeys(Present) \ ParentKeys(Del)
      BY <1>1 DEF IndexesMatchRecords, RollbackCommits, Del
    <3>2. ParentKeys(Present)' = ParentKeys(Present \ Del)
      BY <1>3 DEF ParentKeys
    <3>. QED
      BY <3>1, <3>2, KeysAlgebra
  <2>4. coin_by_confirmed_height' = {<<Rec(c)'.confirmed_height, c>> : c \in Present'}
    <3>1. coin_by_confirmed_height' =
              {<<Rec(c).confirmed_height, c>> : c \in Present}
                  \ {<<Rec(c).confirmed_height, c>> : c \in Del}
      BY <1>1 DEF IndexesMatchRecords, RollbackCommits, Del
    <3>2. \A c \in Present \ Del : Rec(c)'.confirmed_height = Rec(c).confirmed_height
      BY <1>3
    <3>. QED
      BY <1>3, <3>1, <3>2
  <2>5. coin_by_spent_height' =
            {<<Rec(c)'.spent_height, c>> : c \in (Present \ Unspent)'}
    <3>1. coin_by_spent_height = {<<Rec(c).spent_height, c>> : c \in Present \ Unspent}
      BY <1>1 DEF IndexesMatchRecords
    <3>2. coin_by_spent_height' = coin_by_spent_height \ DeletedSpentKeys(t)
      BY DEF RollbackCommits
    <3>3. \A c \in Present \ Unspent :
              <<Rec(c).spent_height, c>> \in DeletedSpentKeys(t)
                  <=> c \in Del \cup Rev
      <4> SUFFICES ASSUME NEW c \in Present \ Unspent
                   PROVE  <<Rec(c).spent_height, c>> \in DeletedSpentKeys(t)
                              <=> c \in Del \cup Rev
        OBVIOUS
      <4>1. c \in Del => <<Rec(c).spent_height, c>> \in DeletedSpentKeys(t)
        BY DEF DeletedSpentKeys, Del
      <4>2. c \in Rev => <<Rec(c).spent_height, c>> \in DeletedSpentKeys(t)
        <5> SUFFICES ASSUME c \in Rev
                     PROVE  <<Rec(c).spent_height, c>> \in DeletedSpentKeys(t)
          OBVIOUS
        <5>1. PICK h \in UndoneHeights(t) : <<h, c>> \in coin_by_spent_height
          BY DEF Rev, RevivedCoins
        <5>2. h = Rec(c).spent_height
          BY <3>1, <5>1
        <5>. QED
          BY <5>1, <5>2 DEF DeletedSpentKeys, Rev
      <4>3. <<Rec(c).spent_height, c>> \in DeletedSpentKeys(t) => c \in Del \cup Rev
        BY DEF DeletedSpentKeys, Del, Rev
      <4>. QED
        BY <4>1, <4>2, <4>3
    <3>4. (Present \ Unspent)' = (Present \ Unspent) \ (Del \cup Rev)
      BY <1>3, <1>6
    <3>5. \A c \in (Present \ Unspent)' : Rec(c)'.spent_height = Rec(c).spent_height
      BY <1>3, <3>4
    <3>6. coin_by_spent_height' =
              {<<Rec(c).spent_height, c>> : c \in (Present \ Unspent) \ (Del \cup Rev)}
      BY <3>1, <3>2, <3>3
    <3>. QED
      BY <3>4, <3>5, <3>6
  <2>. QED
    BY <2>1, <2>2, <2>3, <2>4, <2>5 DEF IndexesMatchRecords
<1>9. HeightsWithinChain'
  <2>1. UnwrapOr(metadata.height, 0)' = Clamp(t)
    BY <1>4, <1>5 DEF UnwrapOr
  <2> SUFFICES ASSUME NEW c \in Present'
               PROVE  /\ Rec(c)'.confirmed_height <= Clamp(t)
                      /\ c \notin Unspent' =>
                             Rec(c)'.spent_height \in
                                 Rec(c)'.confirmed_height + 1 .. Clamp(t)
    BY <2>1 DEF HeightsWithinChain
  <2>2. c \in Present \ Del
    BY <1>3
  <2>3. Rec(c) \in CoinRecord
    BY <1>1, <2>2, RecType
  <2>4. Rec(c).confirmed_height \in Nat
    BY <2>3 DEF CoinRecord
  <2>5. Rec(c).confirmed_height <= Clamp(t)
    BY <1>2, <1>5, <2>2, <2>4
  <2>6. CASE c \in Rev
    BY <1>3, <2>5, <2>6
  <2>7. CASE c \notin Rev
    <3>1. Rec(c)' = Rec(c)
      BY <1>3, <2>2, <2>7
    <3>2. ASSUME c \notin Unspent'
          PROVE  Rec(c).spent_height \in Rec(c).confirmed_height + 1 .. Clamp(t)
      <4>1. c \in Present \ Unspent
        BY <1>3, <2>2, <3>2
      <4>2. Rec(c).spent_height \in
                Rec(c).confirmed_height + 1 .. UnwrapOr(metadata.height, 0)
        BY <1>1, <4>1 DEF HeightsWithinChain
      <4>3. ~(Rec(c).spent_height > Clamp(t))
        BY <1>2, <2>5, <2>7, <4>1
      <4>. QED
        BY <1>5, <2>4, <4>2, <4>3
    <3>. QED
      BY <2>5, <3>1, <3>2
  <2>. QED
    BY <2>6, <2>7
<1>10. HintsMirrored'
  <2>1. hints_by_value = ReverseHintKeys(hints)
    BY DEF IInv, DiskInv, HintsMirrored, ReverseHintKeys
  <2>2. hints \in SUBSET (Coin \X Hint) /\ DeletedHints(t) \in SUBSET hints
    BY <1>1 DEF TypeOK, DeletedHints
  <2>3. hints_by_value' = ReverseHintKeys(hints \ DeletedHints(t))
    BY <2>1, <2>2, ReverseDifference DEF RollbackCommits
  <2>4. hints' = hints \ DeletedHints(t)
    BY DEF RollbackCommits
  <2>. QED
    BY <2>3, <2>4 DEF HintsMirrored, ReverseHintKeys
<1>. QED
  BY <1>7, <1>8, <1>9, <1>10 DEF DiskInv

-----------------------------------------------------------------------------
(* Memory against disk.                                                    *)

\* A step that leaves the disk, the tip and the unspent set alone keeps the
\* memory in agreement with the disk, whatever it does to a stale tree.
LEMMA MemoryStutter ==
    ASSUME MemoryInv, UNCHANGED <<disk, up, tip, unspent_ids>>,
           \/ tree_stale'
           \/ merkle_tree' = coin_records
           \/ UNCHANGED <<merkle_tree, tree_stale>>
    PROVE  MemoryInv'
<1>1. UNCHANGED <<coin_records, metadata, up, height, tip_hash, timestamp,
                  initialized, unspent_ids>>
  BY DEF disk, coinCFs, tip
<1>2. Unspent' = Unspent
  BY <1>1 DEF Unspent, Present, Rec
<1>3. MemoryMatchesDisk'
  BY <1>1, <1>2 DEF MemoryInv, MemoryMatchesDisk
<1>4. TreeMatchesDisk'
  BY <1>1 DEF MemoryInv, TreeMatchesDisk
<1>. QED
  BY <1>3, <1>4 DEF MemoryInv

LEMMA OpenMemory ==
    ASSUME IInv, WithConfig \/ Crash
    PROVE  MemoryInv'
<1>1. CASE Crash
  BY <1>1 DEF Crash, MemoryInv, MemoryMatchesDisk, TreeMatchesDisk
<1>2. CASE WithConfig
  <2>1. coin_records' = coin_records /\ metadata' = metadata
    BY <1>2 DEF WithConfig, disk, coinCFs
  <2>2. Unspent' = Unspent
    BY <2>1 DEF Unspent, Present, Rec
  <2>3. ~metadata.initialized => Present = {}
    BY DEF IInv, DiskInv, GenesisFirst
  <2>4. ~metadata.initialized => Unspent = {} /\ coin_records = EmptyTree
    <3>1. coin_records \in [Coin -> Row \cup {Absent}]
      BY DEF IInv, TypeOK
    <3>. QED
      BY <2>3, <3>1 DEF Unspent, Present, EmptyTree
  <2>5. MemoryMatchesDisk'
    BY <1>2, <2>1, <2>2, <2>4 DEF WithConfig, MemoryMatchesDisk
  <2>6. TreeMatchesDisk'
    BY <1>2, <2>1, <2>4 DEF WithConfig, TreeMatchesDisk
  <2>. QED
    BY <2>5, <2>6 DEF MemoryInv
<1>. QED
  BY <1>1, <1>2

LEMMA GenesisMemory ==
    ASSUME IInv, NEW g \in Geneses, InitGenesisCommits(g)
    PROVE  MemoryInv'
<1>1. Present = {}
  BY DEF IInv, DiskInv, MemoryInv, GenesisFirst, MemoryMatchesDisk,
         InitGenesisCommits
<1>2. Unspent' = g.coins
  BY <1>1, GenesisEffects DEF IInv
<1>3. g.timestamp # None /\ 0 # None
  BY GenesisRowsType, ConstantsAssumption
<1>4. MemoryMatchesDisk'
  BY <1>2, <1>3 DEF InitGenesisCommits, MemoryMatchesDisk, UnwrapOr
<1>5. TreeMatchesDisk'
  BY DEF InitGenesisCommits, TreeMatchesDisk, IInv, MemoryInv
<1>. QED
  BY <1>4, <1>5 DEF MemoryInv

LEMMA ApplyMemory ==
    ASSUME IInv, HonestBlocks, NEW b \in Blocks, ApplyBlockCommits(b)
    PROVE  MemoryInv'
<1>1. TypeOK /\ up
  BY DEF IInv, ApplyBlockCommits
<1>2. Unspent' = (Unspent \cup CreatedCoins(b)) \ SpentCoins(b)
  BY <1>1, ApplyEffects
<1>3. unspent_ids' = (Unspent \cup CreatedCoins(b)) \ SpentCoins(b)
  BY <1>1, HonestIds DEF ApplyBlockCommits, IInv, MemoryInv, MemoryMatchesDisk
<1>4. /\ b.height \in Nat /\ b.timestamp \in Nat /\ b.block_hash \in BlockHash
  BY BlockType DEF Block
<1>5. b.height # None /\ b.timestamp # None
  BY <1>4, ConstantsAssumption
<1>6. /\ metadata'.height = height' /\ metadata'.tip_hash = tip_hash'
      /\ metadata'.timestamp = timestamp'
      /\ metadata'.initialized = metadata.initialized
      /\ height' = b.height /\ timestamp' = b.timestamp /\ tip_hash' = b.block_hash
  BY <1>1 DEF ApplyBlockCommits, TypeOK
<1>7. UnwrapOr(metadata.tip_hash, ZeroHash)' = tip_hash'
  BY <1>4, <1>6, ConstantsAssumption DEF UnwrapOr
<1>8. MemoryMatchesDisk'
  BY <1>2, <1>3, <1>5, <1>6, <1>7
  DEF ApplyBlockCommits, MemoryMatchesDisk, UnwrapOr, IInv, MemoryInv
<1>9. TreeMatchesDisk'
  BY DEF ApplyBlockCommits, TreeMatchesDisk, IInv, MemoryInv
<1>. QED
  BY <1>8, <1>9 DEF MemoryInv

LEMMA RollbackMemory ==
    ASSUME IInv, NEW t \in Int, RollbackCommits(t)
    PROVE  MemoryInv'
<1>1. TypeOK /\ up /\ Undoes(t)
  BY DEF IInv, RollbackCommits, Undoes
<1>2. Unspent' = (Unspent \ DeletedCoins(t)) \cup RevivedCoins(t)
  BY <1>1, RollbackEffects
<1>3. Clamp(t) # None /\ timestamp # None
  BY <1>1, ConstantsAssumption DEF Clamp, TypeOK
<1>4. /\ metadata'.height = Clamp(t) /\ metadata'.tip_hash = ZeroHash
      /\ metadata'.timestamp = timestamp
      /\ metadata'.initialized = metadata.initialized
  BY <1>1 DEF RollbackCommits, TypeOK
<1>5. MemoryMatchesDisk'
  BY <1>1, <1>2, <1>3, <1>4
  DEF RollbackCommits, MemoryMatchesDisk, UnwrapOr, IInv, MemoryInv
<1>6. TreeMatchesDisk'
  BY DEF RollbackCommits, TreeMatchesDisk, IInv, MemoryInv
<1>. QED
  BY <1>5, <1>6 DEF MemoryInv

-----------------------------------------------------------------------------
(* Every step preserves the invariant.                                     *)

LEMMA RejectInv ==
    ASSUME IInv, NEW call, NEW outcome, Reject(call, outcome)
    PROVE  DiskInv' /\ MemoryInv'
BY DiskStutter, MemoryStutter DEF IInv, Reject, memory

LEMMA FailWithTreeInv ==
    ASSUME IInv, NEW call, NEW tree, FailWithTree(call, tree)
    PROVE  DiskInv' /\ MemoryInv'
BY DiskStutter, MemoryStutter DEF IInv, FailWithTree

LEMMA InitGenesisInv ==
    ASSUME IInv, NEW g \in Geneses, InitGenesis(g)
    PROVE  DiskInv' /\ MemoryInv'
<1>1. CASE InitGenesisTreeError(g)
  BY <1>1, RejectInv DEF InitGenesisTreeError
<1>2. CASE InitGenesisCommitFails(g)
  BY <1>2, FailWithTreeInv DEF InitGenesisCommitFails
<1>3. CASE InitGenesisCommits(g)
  BY <1>3, GenesisDisk, GenesisMemory
<1>. QED
  BY <1>1, <1>2, <1>3 DEF InitGenesis

LEMMA ApplyBlockInv ==
    ASSUME IInv, HonestBlocks, NEW b \in Blocks, ApplyBlock(b)
    PROVE  DiskInv' /\ MemoryInv'
<1>1. CASE ApplyBlockRejectedByHeader(b) \/ ApplyBlockRejectedByBody(b)
  BY <1>1, RejectInv DEF ApplyBlockRejectedByHeader, ApplyBlockRejectedByBody
<1>2. CASE ApplyBlockReadFails(b) \/ ApplyBlockInsertClashes(b)
  BY <1>2, RejectInv DEF ApplyBlockReadFails, ApplyBlockInsertClashes
<1>3. CASE ApplyBlockUpdateMisses(b) \/ ApplyBlockCommitFails(b)
  BY <1>3, FailWithTreeInv DEF ApplyBlockUpdateMisses, ApplyBlockCommitFails
<1>4. CASE ApplyBlockRootMismatch(b)
  BY <1>4, DiskStutter, MemoryStutter DEF IInv, ApplyBlockRootMismatch
<1>5. CASE ApplyBlockCommits(b)
  BY <1>5, ApplyDisk, ApplyMemory
<1>. QED
  BY <1>1, <1>2, <1>3, <1>4, <1>5 DEF ApplyBlock

LEMMA RollbackInv ==
    ASSUME IInv, NEW t \in Int, RollbackToBlock(t)
    PROVE  DiskInv' /\ MemoryInv'
<1>1. CASE RollbackRejected(t) \/ RollbackReadFails(t)
  BY <1>1, RejectInv DEF RollbackRejected, RollbackReadFails
<1>2. CASE RollbackNoOp(t)
  BY <1>2, DiskStutter, MemoryStutter DEF IInv, RollbackNoOp, memory
<1>3. CASE RollbackTreeError(t)
  BY <1>3, RejectInv, FailWithTreeInv DEF RollbackTreeError
<1>4. CASE RollbackCommitFails(t)
  BY <1>4, FailWithTreeInv DEF RollbackCommitFails
<1>5. CASE RollbackCommits(t)
  BY <1>5, RollbackDisk, RollbackMemory
<1>. QED
  BY <1>1, <1>2, <1>3, <1>4, <1>5 DEF RollbackToBlock

LEMMA NextInv ==
    ASSUME HonestBlocks
    PROVE  IInv /\ [Next]_vars => IInv'
<1> SUFFICES ASSUME IInv, [Next]_vars PROVE IInv'
  OBVIOUS
<1>1. TypeOK'
  BY NextType DEF IInv
<1>2. DiskInv' /\ MemoryInv'
  <2>1. CASE WithConfig \/ Crash
    BY <2>1, OpenMemory, DiskStutter DEF IInv, WithConfig, Crash
  <2>2. CASE InitGenesisRejected
    BY <2>2, RejectInv DEF InitGenesisRejected
  <2>3. CASE \E g \in Geneses : InitGenesis(g)
    BY <2>3, InitGenesisInv
  <2>4. CASE \E b \in Blocks : ApplyBlock(b)
    BY <2>4, ApplyBlockInv
  <2>5. CASE \E target \in Targets : RollbackToBlock(target)
    BY <2>5, RollbackInv, InputsAssumption
  <2>6. CASE \E n \in Counts : RollbackNBlocks(n)
    BY <2>6, RollbackInv, NBlocksTargetType DEF RollbackNBlocks, IInv
  <2>7. CASE UNCHANGED vars
    BY <2>7, DiskStutter, MemoryStutter DEF IInv, vars, memory
  <2>. QED
    BY <2>1, <2>2, <2>3, <2>4, <2>5, <2>6, <2>7 DEF Next
<1>. QED
  BY <1>1, <1>2 DEF IInv

LEMMA InitInv == Init => IInv
<1> SUFFICES ASSUME Init PROVE IInv
  OBVIOUS
<1>1. Present = {} /\ Unspent = {}
  BY DEF Init, Present, Unspent
<1>2. DiskInv
  BY <1>1 DEF Init, DiskInv, GenesisFirst, IndexesMatchRecords,
              HeightsWithinChain, HintsMirrored, PuzzleKeys, ParentKeys,
              EmptyMetadata
<1>3. MemoryInv
  BY DEF Init, MemoryInv, MemoryMatchesDisk, TreeMatchesDisk
<1>. QED
  BY <1>2, <1>3, InitType DEF IInv

THEOREM Invariance == ASSUME HonestBlocks PROVE Spec => []IInv
BY InitInv, NextInv, PTL DEF Spec

\* For every chain of blocks whose additions carry their true coin ids, the
\* secondary indices, which every query reads, hold exactly the keys that the
\* stored rows imply, through rollbacks, failed commits, crashes and restarts.
THEOREM IndexesCorrect == ASSUME HonestBlocks PROVE Spec => []IndexesMatchRecords
BY Invariance, PTL DEF IInv, DiskInv

\* The tip and the unspent set that apply_block and rollback_to_block keep by
\* hand are at every moment the ones a restart would rebuild from disk.
THEOREM MemoryCorrect == ASSUME HonestBlocks PROVE Spec => []MemoryMatchesDisk
BY Invariance, PTL DEF IInv, MemoryInv

\* The tree, which apply_block and rollback_to_block change before they
\* commit, hashes the stored rows unless a commit failed under it.
THEOREM TreeCorrect == ASSUME HonestBlocks PROVE Spec => []TreeMatchesDisk
BY Invariance, PTL DEF IInv, MemoryInv

\* No row is above the tip and no coin is spent before the block after the one
\* that created it.
THEOREM HeightsCorrect == ASSUME HonestBlocks PROVE Spec => []HeightsWithinChain
BY Invariance, PTL DEF IInv, DiskInv

\* The forward and the reverse hint index, written and deleted key by key in
\* the same batches, never disagree.
THEOREM HintIndexesCorrect == ASSUME HonestBlocks PROVE Spec => []HintsMirrored
BY Invariance, PTL DEF IInv, DiskInv

-----------------------------------------------------------------------------
(*****************************************************************************)
(* Steps.  All that follows rests on the inductive invariant IInv.          *)
(*****************************************************************************)

\* How a step can end: an error or an open, and the disk is untouched; a
\* rollback to where the chain is; or one of the three commits.
LEMMA Steps ==
    ASSUME TypeOK, Next
    PROVE  \/ UNCHANGED disk /\ (ret'.outcome # "Ok" \/ ret'.call = "open")
           \/ UNCHANGED disk /\ up /\ initialized /\ ret' = Ok("rollback", 0, 0)
           \/ \E g \in Geneses : InitGenesisCommits(g)
           \/ \E b \in Blocks : ApplyBlockCommits(b)
           \/ \E t \in Int : RollbackCommits(t)
<1> DEFINE Quiet == UNCHANGED disk /\ (ret'.outcome # "Ok" \/ ret'.call = "open")
<1> USE DEF Reject, FailWithTree, Err
<1>1. CASE WithConfig \/ Crash \/ InitGenesisRejected
  BY <1>1 DEF WithConfig, Crash, InitGenesisRejected, Ok
<1>2. ASSUME NEW g \in Geneses, InitGenesis(g)
      PROVE  Quiet \/ InitGenesisCommits(g)
  BY <1>2 DEF InitGenesis, InitGenesisTreeError, InitGenesisCommitFails
<1>3. ASSUME NEW b \in Blocks, ApplyBlock(b)
      PROVE  Quiet \/ ApplyBlockCommits(b)
  BY <1>3 DEF ApplyBlock, ApplyBlockRejectedByHeader, ApplyBlockRejectedByBody,
              ApplyBlockReadFails, ApplyBlockInsertClashes,
              ApplyBlockUpdateMisses, ApplyBlockRootMismatch,
              ApplyBlockCommitFails
<1>4. ASSUME NEW t \in Int, RollbackToBlock(t)
      PROVE  \/ Quiet
             \/ UNCHANGED disk /\ up /\ initialized /\ ret' = Ok("rollback", 0, 0)
             \/ RollbackCommits(t)
  BY <1>4 DEF RollbackToBlock, RollbackRejected, RollbackNoOp, RollbackError,
              RollbackTreeError, RollbackReadFails, RollbackCommitFails
<1>5. CASE \E target \in Targets : RollbackToBlock(target)
  BY <1>4, <1>5, InputsAssumption
<1>6. CASE \E n \in Counts : RollbackNBlocks(n)
  BY <1>4, <1>6, NBlocksTargetType DEF RollbackNBlocks
<1>. QED
  BY <1>1, <1>2, <1>3, <1>5, <1>6 DEF Next

LEMMA DiskSteps ==
    ASSUME TypeOK, [Next]_vars
    PROVE  \/ UNCHANGED disk
           \/ \E g \in Geneses : InitGenesisCommits(g)
           \/ \E b \in Blocks : ApplyBlockCommits(b)
           \/ \E t \in Int : RollbackCommits(t)
<1>1. CASE UNCHANGED vars
  BY <1>1 DEF vars
<1>. QED
  BY <1>1, Steps

-----------------------------------------------------------------------------
(* The ledger that the rows stand for.                                     *)

StoredTip == UnwrapOr(metadata.height, 0)
StoredUtxo == [h \in 0 .. StoredTip |-> UtxoAt(h)]

LEMMA StoredTipType == ASSUME TypeOK PROVE StoredTip \in Nat
BY DEF StoredTip, UnwrapOr, TypeOK

\* The coins unspent at the tip are the rows without a spent height.
LEMMA UtxoAtTip ==
    TypeOK /\ HeightsWithinChain => UtxoAt(StoredTip) = Unspent
<1> SUFFICES ASSUME TypeOK, HeightsWithinChain
             PROVE  UtxoAt(StoredTip) = Unspent
  OBVIOUS
<1>1. StoredTip \in Nat
  BY StoredTipType
<1>2. Unspent \subseteq Present
  BY DEF Unspent
<1>3. \A c \in Present : Rec(c).confirmed_height <= StoredTip
  BY DEF HeightsWithinChain, StoredTip
<1>4. \A c \in Present \ Unspent : ~(Rec(c).spent_height > StoredTip)
  <2> SUFFICES ASSUME NEW c \in Present \ Unspent
               PROVE  ~(Rec(c).spent_height > StoredTip)
    OBVIOUS
  <2>1. Rec(c) \in CoinRecord
    BY RecType
  <2>2. Rec(c).confirmed_height \in Nat
    BY <2>1 DEF CoinRecord
  <2>3. Rec(c).spent_height \in Rec(c).confirmed_height + 1 .. StoredTip
    BY DEF HeightsWithinChain, StoredTip
  <2>. QED
    BY <1>1, <2>2, <2>3
<1>. QED
  BY <1>2, <1>3, <1>4 DEF UtxoAt

LEMMA LedgerInit == Init => Ledger!Init
<1> SUFFICES ASSUME Init PROVE Ledger!Init
  OBVIOUS
<1>1. metadata.initialized = FALSE /\ UnwrapOr(metadata.height, 0) = 0
  BY DEF Init, EmptyMetadata, UnwrapOr
<1>2. \A h : UtxoAt(h) = {}
  BY DEF Init, UtxoAt, Present
<1>. QED
  BY <1>1, <1>2 DEF Ledger!Init

LEMMA LedgerStutter ==
    ASSUME UNCHANGED disk
    PROVE  UNCHANGED Ledger!vars
<1>1. UNCHANGED <<coin_records, metadata>>
  BY DEF disk, coinCFs
<1>2. Present' = Present /\ Unspent' = Unspent /\ \A c : Rec(c)' = Rec(c)
  BY <1>1 DEF Present, Unspent, Rec
<1>3. \A h : UtxoAt(h)' = UtxoAt(h)
  BY <1>2 DEF UtxoAt
<1>4. UnwrapOr(metadata.height, 0)' = UnwrapOr(metadata.height, 0)
  BY <1>1 DEF UnwrapOr
<1>. QED
  BY <1>1, <1>3, <1>4 DEF Ledger!vars

\* init_genesis starts the ledger.
LEMMA GenesisStarts ==
    ASSUME IInv, NEW g \in Geneses, InitGenesisCommits(g)
    PROVE  Ledger!Start
<1>1. ~metadata.initialized
  BY DEF IInv, MemoryInv, MemoryMatchesDisk, InitGenesisCommits
<1>2. metadata'.initialized = TRUE /\ UnwrapOr(metadata.height, 0)' = 0
  BY ConstantsAssumption DEF InitGenesisCommits, UnwrapOr
<1>3. \A h : UtxoAt(h)' \in SUBSET Coin
  BY DEF UtxoAt, Present
<1>. QED
  BY <1>1, <1>2, <1>3 DEF Ledger!Start

\* A block leaves the unspent coins of every height below it as they were: a
\* coin it spends was unspent there and still is, by its later spent height.
LEMMA ApplyKeepsPast ==
    ASSUME IInv, HonestBlocks, NEW b \in Blocks, ApplyBlockCommits(b),
           NEW h \in 0 .. StoredTip
    PROVE  UtxoAt(h)' = UtxoAt(h)
<1>1. TypeOK /\ Valid(b) /\ up
  BY DEF IInv, ApplyBlockCommits, Staged
<1>2. b.height = StoredTip + 1
  BY <1>1, ValidBlock DEF IInv, MemoryInv, MemoryMatchesDisk, StoredTip
<1>3. StoredTip \in Nat
  BY <1>1, StoredTipType
<1>4. b.height > h /\ ~(b.height <= h)
  BY <1>2, <1>3
<1>5. /\ CreatedCoins(b) \cap Present = {} /\ SpentCoins(b) \subseteq Unspent
      /\ CreatedCoins(b) \cap SpentCoins(b) = {}
  BY <1>1, ValidBlock
<1>6. /\ Present' = Present \cup CreatedCoins(b)
      /\ Unspent' = (Unspent \cup CreatedCoins(b)) \ SpentCoins(b)
      /\ \A c \in CreatedCoins(b) : Rec(c)'.confirmed_height = b.height
      /\ \A c \in SpentCoins(b) :
             /\ Rec(c)'.confirmed_height = Rec(c).confirmed_height
             /\ Rec(c)'.spent_height = b.height
      /\ \A c \in Present \ SpentCoins(b) : Rec(c)' = Rec(c)
  BY <1>1, ApplyEffects
<1>7. Unspent \subseteq Present
  BY DEF Unspent
<1>8. \A c \in CreatedCoins(b) : c \notin UtxoAt(h)' /\ c \notin UtxoAt(h)
  BY <1>4, <1>5, <1>6 DEF UtxoAt
<1>9. \A c \in SpentCoins(b) : c \in UtxoAt(h)' <=> c \in UtxoAt(h)
  BY <1>4, <1>5, <1>6, <1>7 DEF UtxoAt
<1>10. \A c \in Present \ SpentCoins(b) : c \in UtxoAt(h)' <=> c \in UtxoAt(h)
  BY <1>5, <1>6 DEF UtxoAt
<1>11. UtxoAt(h) \subseteq Present /\ UtxoAt(h)' \subseteq Present'
  BY DEF UtxoAt
<1>. QED
  BY <1>6, <1>8, <1>9, <1>10, <1>11

\* apply_block extends the ledger by one height.
LEMMA BlockExtends ==
    ASSUME IInv, IInv', HonestBlocks, NEW b \in Blocks, ApplyBlockCommits(b)
    PROVE  Ledger!Extend
<1>1. TypeOK /\ Valid(b) /\ up
  BY DEF IInv, ApplyBlockCommits, Staged
<1>2. b.height = StoredTip + 1 /\ metadata.initialized
  BY <1>1, ValidBlock DEF IInv, MemoryInv, MemoryMatchesDisk, StoredTip
<1>3. StoredTip \in Nat
  BY <1>1, StoredTipType
<1>4. metadata'.height = b.height /\ metadata'.initialized = metadata.initialized
  BY <1>1 DEF ApplyBlockCommits, TypeOK
<1>5. StoredTip' = StoredTip + 1
  BY <1>2, <1>3, <1>4, ConstantsAssumption DEF StoredTip, UnwrapOr
<1>6. \A h \in 0 .. StoredTip : UtxoAt(h)' = UtxoAt(h)
  BY ApplyKeepsPast
<1>7. \A h : UtxoAt(h)' \in SUBSET Coin
  BY DEF UtxoAt, Present
<1>8. UtxoAt(StoredTip) = Unspent
  BY <1>1, UtxoAtTip DEF IInv, DiskInv
<1>9. ASSUME NEW h, h = StoredTip'
      PROVE  UtxoAt(h)' = Unspent'
  <2>1. (TypeOK /\ HeightsWithinChain => UtxoAt(StoredTip) = Unspent)'
    BY UtxoAtTip, PTL
  <2>. QED
    BY <1>9, <2>1 DEF UtxoAt, IInv, DiskInv
<1>10. (Unspent' \ Unspent) \cap Present = {}
  <2>1. CreatedCoins(b) \cap Present = {}
    BY <1>1, ValidBlock
  <2>2. Unspent' = (Unspent \cup CreatedCoins(b)) \ SpentCoins(b)
    BY <1>1, ApplyEffects
  <2>. QED
    BY <2>1, <2>2
<1>11. Ledger!EverHeld \subseteq Present
  BY DEF Ledger!EverHeld, UtxoAt
<1>12. StoredUtxo' = [h \in 0 .. StoredTip + 1 |-> UtxoAt(h)']
  BY <1>5 DEF StoredUtxo
<1>13. /\ StoredUtxo' \in [0 .. StoredTip + 1 -> SUBSET Coin]
       /\ \A h \in 0 .. StoredTip : StoredUtxo'[h] = StoredUtxo[h]
       /\ StoredUtxo'[StoredTip + 1] = Unspent'
       /\ StoredUtxo[StoredTip] = Unspent
  BY <1>3, <1>5, <1>6, <1>7, <1>8, <1>9, <1>12 DEF StoredUtxo
<1>14. (StoredUtxo'[StoredTip + 1] \ StoredUtxo[StoredTip])
           \cap Ledger!EverHeld = {}
  BY <1>10, <1>11, <1>13
<1>. QED
  BY <1>2, <1>4, <1>5, <1>13, <1>14 DEF Ledger!Extend, StoredUtxo, StoredTip

\* A rollback leaves the unspent coins of every height up to its target as
\* they were: it deletes only coins created above, revives only coins spent
\* above.
LEMMA RollbackKeepsPast ==
    ASSUME IInv, NEW t \in Int, RollbackCommits(t), NEW h \in 0 .. Clamp(t)
    PROVE  UtxoAt(h)' = UtxoAt(h)
<1> DEFINE Del == DeletedCoins(t)
           Rev == RevivedCoins(t)
<1>1. TypeOK /\ Undoes(t)
  BY DEF IInv, RollbackCommits
<1>2. /\ Del = {c \in Present : Rec(c).confirmed_height > Clamp(t)}
      /\ Rev = {c \in Present \ Unspent :
                   /\ Rec(c).confirmed_height <= Clamp(t)
                   /\ Rec(c).spent_height > Clamp(t)}
  BY <1>1, UndoneCoins
<1>3. /\ Present' = Present \ Del
      /\ Unspent' = (Unspent \ Del) \cup Rev
      /\ \A c \in Rev : Rec(c)'.confirmed_height = Rec(c).confirmed_height
      /\ \A c \in Present \ (Del \cup Rev) : Rec(c)' = Rec(c)
  BY <1>1, RollbackEffects
<1>4. \A c \in Present : Rec(c).confirmed_height \in Nat
  BY <1>1, RecType DEF CoinRecord
<1>5. \A c \in Present \ Unspent : Rec(c).spent_height \in Nat
  BY <1>1, RecType DEF CoinRecord, Unspent
<1>6. Clamp(t) \in Nat /\ h \in Nat /\ h <= Clamp(t)
  BY DEF Clamp
<1>7. UtxoAt(h) \subseteq Present /\ UtxoAt(h)' \subseteq Present'
  BY DEF UtxoAt
<1>8. \A c \in Del : c \notin UtxoAt(h)
  BY <1>2, <1>4, <1>6 DEF UtxoAt
<1>9. \A c \in Rev : c \in UtxoAt(h)' <=> c \in UtxoAt(h)
  <2>1. \A c \in Rev : Rec(c).spent_height > h
    BY <1>2, <1>5, <1>6
  <2> HIDE DEF Del
  <2>2. \A c \in Rev : c \in Present /\ c \in Present' /\ c \in Unspent'
    <3>1. Rev \subseteq Present \ Del
      BY <1>1, RollbackEffects DEF Del
    <3>. QED
      BY <1>3, <3>1
  <2>. QED
    BY <1>3, <2>1, <2>2 DEF UtxoAt
<1> HIDE DEF Del, Rev
<1>10. \A c \in Present \ (Del \cup Rev) : c \in UtxoAt(h)' <=> c \in UtxoAt(h)
  BY <1>3 DEF UtxoAt
<1>. QED
  BY <1>3, <1>7, <1>8, <1>9, <1>10

\* rollback_to_block rewinds the ledger to its target.
LEMMA RollbackRewinds ==
    ASSUME IInv, NEW t \in Int, RollbackCommits(t)
    PROVE  Ledger!Rewind
<1>1. TypeOK /\ Undoes(t) /\ up
  BY DEF IInv, RollbackCommits, Undoes
<1>2. height = StoredTip /\ metadata.initialized
  BY <1>1 DEF IInv, MemoryInv, MemoryMatchesDisk, StoredTip, Undoes, RollbackError
<1>3. Clamp(t) \in 0 .. StoredTip /\ StoredTip \in Nat
  BY <1>1, <1>2, UndoneCoins, StoredTipType
<1>4. metadata'.height = Clamp(t) /\ metadata'.initialized = metadata.initialized
  BY <1>1 DEF RollbackCommits, TypeOK
<1>5. StoredTip' = Clamp(t)
  BY <1>3, <1>4, ConstantsAssumption DEF StoredTip, UnwrapOr
<1>6. \A h \in 0 .. Clamp(t) : UtxoAt(h)' = UtxoAt(h)
  BY RollbackKeepsPast
<1>7. \A h \in 0 .. Clamp(t) : h \in 0 .. StoredTip
  BY <1>3
<1>. QED
  BY <1>2, <1>3, <1>4, <1>5, <1>6, <1>7 DEF Ledger!Rewind, StoredTip

\* The rows on disk implement the ledger that UtxoLedger promises, for every
\* chain of blocks with true coin ids: genesis starts it, a block extends it
\* with coins the chain never held, a rollback cuts it at its target without
\* touching a height below, and no failed call, crash or restart changes it.
THEOREM LedgerRefinement == ASSUME HonestBlocks PROVE Spec => LedgerSpec
<1>1. IInv /\ IInv' /\ [Next]_vars => [Ledger!Next]_(Ledger!vars)
  <2> SUFFICES ASSUME IInv, IInv', [Next]_vars
               PROVE  Ledger!Next \/ UNCHANGED Ledger!vars
    OBVIOUS
  <2>. QED
    BY DiskSteps, LedgerStutter, GenesisStarts, BlockExtends, RollbackRewinds
    DEF Ledger!Next, IInv
<1>. QED
  BY <1>1, LedgerInit, Invariance, PTL DEF Spec, LedgerSpec, Ledger!Spec

-----------------------------------------------------------------------------
(* Hints.                                                                  *)

\* A commit that keeps a row keeps its hints, one that deletes it deletes them.
LEMMA HintsStep ==
    ASSUME HonestBlocks, HintsOnCreated, IInv, HintsHaveCoins, [Next]_vars
    PROVE  HintsHaveCoins'
<1>1. TypeOK
  BY DEF IInv
<1>2. CASE UNCHANGED disk
  BY <1>2 DEF disk, coinCFs, hintCFs, HintsHaveCoins, Present
<1>3. ASSUME NEW g \in Geneses, InitGenesisCommits(g)
      PROVE  HintsHaveCoins'
  <2>1. Present = {} /\ hints' = hints
    BY <1>3 DEF IInv, DiskInv, MemoryInv, GenesisFirst, MemoryMatchesDisk,
                InitGenesisCommits, hintCFs
  <2>. QED
    BY <2>1 DEF HintsHaveCoins
<1>4. ASSUME NEW b \in Blocks, ApplyBlockCommits(b)
      PROVE  HintsHaveCoins'
  <2>1. Present' = Present \cup CreatedCoins(b)
    BY <1>1, <1>4, ApplyEffects
  <2>2. hints' = hints \cup StoredHints(b)
    BY <1>4 DEF ApplyBlockCommits
  <2>3. \A p \in StoredHints(b) : p[1] \in CreatedCoins(b)
    BY DEF StoredHints, HintsOnCreated
  <2>. QED
    BY <2>1, <2>2, <2>3 DEF HintsHaveCoins
<1>5. ASSUME NEW t \in Int, RollbackCommits(t)
      PROVE  HintsHaveCoins'
  <2>1. Present' = Present \ DeletedCoins(t)
    BY <1>1, <1>5, RollbackEffects
  <2>2. hints' = hints \ DeletedHints(t)
    BY <1>5 DEF RollbackCommits
  <2>3. \A c \in DeletedCoins(t) : Rec(c).confirmed_height > Clamp(t)
    BY <1>5, UndoneCoins DEF RollbackCommits
  <2>4. \A p \in hints : p[1] \in DeletedCoins(t) => p \in DeletedHints(t)
    BY <2>3 DEF DeletedHints
  <2>. QED
    BY <2>1, <2>2, <2>4 DEF HintsHaveCoins
<1>. QED
  BY <1>1, <1>2, <1>3, <1>4, <1>5, DiskSteps

\* No hint outlives its coin: rollback, which finds hints through the coins it
\* deletes, leaves none behind, if blocks hint only coins they create.
THEOREM HintsCorrect ==
    ASSUME HonestBlocks, HintsOnCreated
    PROVE  Spec => []HintsHaveCoins
<1>1. Init => HintsHaveCoins
  BY DEF Init, HintsHaveCoins
<1>2. IInv /\ HintsHaveCoins /\ [Next]_vars => HintsHaveCoins'
  BY HintsStep
<1>. QED
  BY <1>1, <1>2, Invariance, PTL DEF Spec

-----------------------------------------------------------------------------
(* What a failed call leaves behind.                                       *)

LEMMA FailedCallStep ==
    ASSUME IInv, [Next]_vars, ret'.outcome # "Ok", ~tree_stale, ~tree_stale',
           ~UNCHANGED vars
    PROVE  UNCHANGED <<disk, memory>>
<1> USE DEF Reject, FailWithTree
<1>1. CASE WithConfig \/ Crash \/ InitGenesisRejected
  BY <1>1 DEF WithConfig, Crash, InitGenesisRejected, Ok
<1>2. ASSUME NEW g \in Geneses, InitGenesis(g)
      PROVE  UNCHANGED <<disk, memory>>
  BY <1>2 DEF InitGenesis, InitGenesisTreeError, InitGenesisCommitFails,
              InitGenesisCommits, Ok
<1>3. ASSUME NEW b \in Blocks, ApplyBlock(b)
      PROVE  UNCHANGED <<disk, memory>>
  <2>1. CASE ApplyBlockRootMismatch(b)
    \* the rebuilt tree is the one the call found
    BY <2>1 DEF ApplyBlockRootMismatch, IInv, MemoryInv, TreeMatchesDisk, memory
  <2>2. CASE ApplyBlockCommits(b)
    BY <2>2 DEF ApplyBlockCommits, Ok
  <2>. QED
    BY <1>3, <2>1, <2>2
    DEF ApplyBlock, ApplyBlockRejectedByHeader, ApplyBlockRejectedByBody,
        ApplyBlockReadFails, ApplyBlockInsertClashes, ApplyBlockUpdateMisses,
        ApplyBlockCommitFails
<1>4. ASSUME NEW t \in Int, RollbackToBlock(t)
      PROVE  UNCHANGED <<disk, memory>>
  BY <1>4 DEF RollbackToBlock, RollbackRejected, RollbackNoOp,
              RollbackTreeError, RollbackReadFails, RollbackCommitFails,
              RollbackCommits, Ok
<1>5. CASE \E target \in Targets : RollbackToBlock(target)
  BY <1>4, <1>5, InputsAssumption
<1>6. CASE \E n \in Counts : RollbackNBlocks(n)
  BY <1>4, <1>6, NBlocksTargetType DEF RollbackNBlocks, IInv
<1>. QED
  BY <1>1, <1>2, <1>3, <1>5, <1>6 DEF Next

\* A call that returns an error, storage failures aside, leaves rows, indices,
\* tip, unspent set and tree as they were, also where apply_block has changed
\* the tree before it notices a wrong state root and rebuilds it.
THEOREM FailuresChangeNothing ==
    ASSUME HonestBlocks PROVE Spec => FailedCallChangesNothing
<1>1. IInv /\ [Next]_vars =>
          [ret'.outcome # "Ok" /\ ~tree_stale /\ ~tree_stale'
               => UNCHANGED <<disk, memory>>]_vars
  BY FailedCallStep
<1>. QED
  BY <1>1, Invariance, PTL DEF Spec, FailedCallChangesNothing

-----------------------------------------------------------------------------
(* The target of a rollback.                                               *)

\* rollback_to_block ends at its clamped target, also where that is the tip and
\* nothing is undone.
LEMMA RollbackReaches ==
    ASSUME IInv, IInv', NEW t \in Int, RollbackToBlock(t), ret'.outcome = "Ok"
    PROVE  Reaches(Clamp(t)) /\ t <= height
<1>1. TypeOK /\ TypeOK' /\ HeightsWithinChain /\ HeightsWithinChain'
  BY DEF IInv, DiskInv
<1>2. RollbackNoOp(t) \/ RollbackCommits(t)
  BY DEF RollbackToBlock, RollbackRejected, RollbackTreeError, RollbackReadFails,
         RollbackCommitFails, Reject, FailWithTree, Err
<1>3. up /\ up' /\ t <= height /\ height \in Nat
  BY <1>1, <1>2 DEF RollbackNoOp, RollbackCommits, Undoes, RollbackError, TypeOK
<1>4. unspent_ids' = Unspent' /\ height = StoredTip /\ height' = StoredTip'
  BY <1>3 DEF IInv, MemoryInv, MemoryMatchesDisk, StoredTip
<1>5. height' = Clamp(t)
  BY <1>2, <1>3 DEF RollbackNoOp, RollbackIsNoOp, RollbackCommits, Clamp, memory, tip
<1>6. UtxoAt(Clamp(t))' = UtxoAt(Clamp(t))
  <2>1. CASE RollbackNoOp(t)
    <3>1. UNCHANGED <<coin_records, metadata>>
      BY <2>1 DEF RollbackNoOp, disk, coinCFs
    <3>. QED
      BY <3>1 DEF UtxoAt, Present, Unspent, Rec, Clamp
  <2>2. CASE RollbackCommits(t)
    BY <2>2, RollbackKeepsPast DEF Clamp
  <2>. QED
    BY <1>2, <2>1, <2>2
<1>7. Unspent' = UtxoAt(StoredTip)'
  <2>1. (TypeOK /\ HeightsWithinChain => UtxoAt(StoredTip) = Unspent)'
    BY UtxoAtTip, PTL
  <2>. QED
    BY <1>1, <2>1
<1>8. \A h : h = StoredTip' => UtxoAt(StoredTip)' = UtxoAt(h)'
  BY DEF UtxoAt
<1>9. Unspent' = UtxoAt(Clamp(t))
  BY <1>4, <1>5, <1>6, <1>7, <1>8 DEF UtxoAt
<1>. QED
  BY <1>3, <1>4, <1>5, <1>9 DEF Reaches

\* A target that is not above the tip is the one the count asks for: a count that
\* wraps to a negative number and does not wrap back is refused.
LEMMA CountReaches ==
    ASSUME TypeOK, NEW n \in Counts, height < I64Limit, NBlocksTarget(n) <= height
    PROVE  Clamp(NBlocksTarget(n)) = IF n < height THEN height - n ELSE 0
<1>1. height \in Nat /\ I64Limit \in Nat /\ n \in 0 .. 2 * I64Limit - 1
  BY InputsAssumption DEF TypeOK
<1>2. CASE n < I64Limit
  BY <1>1, <1>2 DEF NBlocksTarget, WrapI64, AsI64, Clamp
<1>3. CASE n >= I64Limit
  BY <1>1, <1>3 DEF NBlocksTarget, WrapI64, AsI64, Clamp
<1>. QED
  BY <1>1, <1>2, <1>3

\* A rollback that returns Ok is at its target height with the unspent coins of
\* that height, for every target and every u64 count, wrapping ones included.
THEOREM TargetsReached ==
    ASSUME HonestBlocks PROVE Spec => RollbackReachesItsTarget
<1>1. ASSUME IInv, IInv', ret'.outcome = "Ok"
      PROVE  /\ \A target \in Targets :
                    Reaches(IF target > 0 THEN target ELSE 0) \/ ~RollbackToBlock(target)
             /\ height < I64Limit =>
                    \A n \in Counts :
                        Reaches(IF n < height THEN height - n ELSE 0) \/ ~RollbackNBlocks(n)
  <2>1. ASSUME NEW target \in Targets, RollbackToBlock(target)
        PROVE  Reaches(IF target > 0 THEN target ELSE 0)
    <3>1. target \in Int
      BY InputsAssumption
    <3>2. Clamp(target) = IF target > 0 THEN target ELSE 0
      BY <3>1 DEF Clamp
    <3>3. Reaches(Clamp(target))
      BY <1>1, <2>1, <3>1, RollbackReaches
    <3>. QED
      BY <3>2, <3>3
  <2>2. ASSUME NEW n \in Counts, height < I64Limit, RollbackNBlocks(n)
        PROVE  Reaches(IF n < height THEN height - n ELSE 0)
    <3>1. TypeOK /\ NBlocksTarget(n) \in Int
      BY <1>1, NBlocksTargetType DEF IInv
    <3>2. Reaches(Clamp(NBlocksTarget(n))) /\ NBlocksTarget(n) <= height
      BY <1>1, <2>2, <3>1, RollbackReaches DEF RollbackNBlocks
    <3>3. Clamp(NBlocksTarget(n)) = IF n < height THEN height - n ELSE 0
      BY <2>2, <3>1, <3>2, CountReaches
    <3>. QED
      BY <3>2, <3>3
  <2>. QED
    BY <2>1, <2>2
<1>2. IInv /\ IInv' /\ [Next]_vars =>
          [(ret'.call = "rollback" /\ ret'.outcome = "Ok") =>
              /\ \A target \in Targets :
                     Reaches(IF target > 0 THEN target ELSE 0) \/ ~RollbackToBlock(target)
              /\ height < I64Limit =>
                     \A n \in Counts :
                         Reaches(IF n < height THEN height - n ELSE 0) \/ ~RollbackNBlocks(n)]_vars
  BY <1>1
<1>. QED
  BY <1>2, Invariance, PTL DEF Spec, RollbackReachesItsTarget

-----------------------------------------------------------------------------
(* The counts that are returned.                                           *)

\* A sequence without repetitions has as many elements as positions.
LEMMA DistinctElements ==
    ASSUME NEW S, NEW s \in Seq(S),
           \A i, j \in DOMAIN s : s[i] = s[j] => i = j
    PROVE  Cardinality(Elements(s)) = Len(s)
<1>1. DOMAIN s = 1 .. Len(s) /\ Len(s) \in Nat
  OBVIOUS
<1>2. s \in [1 .. Len(s) -> Elements(s)]
  BY <1>1 DEF Elements
<1>3. s \in Injection(1 .. Len(s), Elements(s))
  BY <1>1, <1>2 DEF Injection, IsInjective
<1>4. s \in Surjection(1 .. Len(s), Elements(s))
  BY <1>1, <1>2, Zenon DEF Surjection, Elements
<1>5. ExistsBijection(1 .. Len(s), Elements(s))
  BY <1>3, <1>4 DEF ExistsBijection, Bijection
<1>. QED
  BY <1>1, <1>5, FS_CountingElements

\* What apply_block returns: the HashSet of claimed ids makes every created
\* coin count once; a removal counts once because the caller lists it once.
LEMMA ApplyCounts ==
    ASSUME TypeOK, HonestBlocks, DistinctRemovals, NEW b \in Blocks,
           ApplyBlockCommits(b)
    PROVE  /\ ret'.gained = Cardinality(Present' \ Present)
           /\ ret'.lost = Cardinality(Unspent \ Unspent')
<1>1. Valid(b)
  BY DEF ApplyBlockCommits, Staged
<1>2. /\ b.additions \in Seq(Addition) /\ b.coinbase_coins \in Seq(Coin)
      /\ b.removals \in Seq(Coin)
  BY BlockType DEF Block
<1>3. /\ Present' \ Present = CreatedCoins(b)
      /\ Unspent \ Unspent' = SpentCoins(b)
  <2>1. /\ CreatedCoins(b) \cap Present = {} /\ SpentCoins(b) \subseteq Unspent
        /\ CreatedCoins(b) \cap SpentCoins(b) = {}
    BY <1>1, ValidBlock
  <2>2. /\ Present' = Present \cup CreatedCoins(b)
        /\ Unspent' = (Unspent \cup CreatedCoins(b)) \ SpentCoins(b)
    BY ApplyEffects
  <2>. QED
    BY <2>1, <2>2
<1>4. Cardinality(CreatedCoins(b)) = Len(b.coinbase_coins) + Len(b.additions)
  <2> DEFINE s == [i \in DOMAIN b.additions |-> b.additions[i].coin_id]
  <2>1. s \in Seq(Coin) /\ Len(s) = Len(b.additions)
    <3>1. \A i \in DOMAIN b.additions : b.additions[i].coin_id \in Coin
      <4>1. \A i \in DOMAIN b.additions : b.additions[i] \in Addition
        BY <1>2
      <4>. QED
        BY <4>1 DEF Addition
    <3>. QED
      BY <1>2, <3>1
  <2>2. ClaimedIds(b) = s \o b.coinbase_coins
    BY DEF ClaimedIds
  <2> HIDE DEF s
  <2>3. /\ ClaimedIds(b) \in Seq(Coin)
        /\ Len(ClaimedIds(b)) = Len(s) + Len(b.coinbase_coins)
    <3>1. \A x, y \in Seq(Coin) : /\ x \o y \in Seq(Coin)
                                  /\ Len(x \o y) = Len(x) + Len(y)
      OBVIOUS
    <3>. QED
      BY <1>2, <2>1, <2>2, <3>1, Zenon
  <2>4. \A i, j \in DOMAIN ClaimedIds(b) :
            ClaimedIds(b)[i] = ClaimedIds(b)[j] => i = j
    BY <1>1 DEF Valid, BodyError, AdditionExists
  <2>5. Cardinality(Elements(ClaimedIds(b))) = Len(ClaimedIds(b))
    BY <2>3, <2>4, DistinctElements
  <2>6. Len(b.additions) \in Nat /\ Len(b.coinbase_coins) \in Nat
    BY <1>2
  <2>7. Cardinality(Elements(ClaimedIds(b))) = Len(b.additions) + Len(b.coinbase_coins)
    BY <2>1, <2>3, <2>5, Zenon
  <2>8. Elements(ClaimedIds(b)) = CreatedCoins(b)
    BY HonestIds
  <2>9. \A m, n \in Nat : m + n = n + m
    OBVIOUS
  <2>. QED
    BY <2>6, <2>7, <2>8, <2>9, Zenon
<1>5. Cardinality(SpentCoins(b)) = Len(b.removals)
  BY <1>2, DistinctElements DEF DistinctRemovals, SpentCoins
<1>6. ret' = Ok("apply_block", Len(b.coinbase_coins) + Len(b.additions),
                Len(b.removals))
  BY DEF ApplyBlockCommits
<1>. QED
  BY <1>3, <1>4, <1>5, <1>6 DEF Ok

LEMMA RollbackCounts ==
    ASSUME IInv, NEW t \in Int, RollbackCommits(t)
    PROVE  /\ ret'.gained = Cardinality(Unspent' \ Unspent)
           /\ ret'.lost = Cardinality(Present \ Present')
<1>1. TypeOK /\ Undoes(t)
  BY DEF IInv, RollbackCommits
<1>2. Unspent' = (Unspent \ DeletedCoins(t)) \cup RevivedCoins(t)
  BY <1>1, RollbackEffects
<1>3. RevivedCoins(t) \cap Unspent = {}
  BY <1>1, UndoneCoins
<1>4. Present' = Present \ DeletedCoins(t) /\ DeletedCoins(t) \subseteq Present
  BY <1>1, RollbackEffects DEF DeletedCoins
<1>5. /\ Unspent' \ Unspent = RevivedCoins(t)
      /\ Present \ Present' = DeletedCoins(t)
  BY <1>2, <1>3, <1>4
<1>6. ret' = Ok("rollback", Cardinality(RevivedCoins(t)),
                Cardinality(DeletedCoins(t)))
  BY DEF RollbackCommits
<1>. QED
  BY <1>5, <1>6 DEF Ok

\* coins_created, coins_spent, coins_unspent and coins_deleted count the coins
\* whose rows really appeared, disappeared or changed, for honest blocks that
\* list no removal twice.
THEOREM CountsCorrect ==
    ASSUME HonestBlocks, DistinctRemovals PROVE Spec => CountsAreTrue
<1>1. ASSUME UNCHANGED disk
      PROVE  Present' = Present /\ Unspent' = Unspent
  BY <1>1 DEF disk, coinCFs, Present, Unspent, Rec
<1>2. Cardinality({}) = 0
  BY FS_EmptySet
<1>3. ASSUME NEW g \in Geneses, InitGenesisCommits(g)
      PROVE  ret'.call = "init_genesis"
  BY <1>3 DEF InitGenesisCommits, Ok
<1>4. ASSUME IInv, Next, ret'.outcome = "Ok"
      PROVE  /\ ret'.call = "apply_block" =>
                    /\ ret'.gained = Cardinality(Present' \ Present)
                    /\ ret'.lost = Cardinality(Unspent \ Unspent')
             /\ ret'.call = "rollback" =>
                    /\ ret'.gained = Cardinality(Unspent' \ Unspent)
                    /\ ret'.lost = Cardinality(Present \ Present')
  <2>1. CASE UNCHANGED disk /\ (ret'.outcome # "Ok" \/ ret'.call = "open")
    BY <1>4, <2>1
  <2>2. CASE ret' = Ok("rollback", 0, 0) /\ UNCHANGED disk
    <3>1. Unspent' \ Unspent = {} /\ Present \ Present' = {}
      BY <1>1, <2>2
    <3>. QED
      BY <1>2, <2>2, <3>1 DEF Ok
  <2>3. CASE \E b \in Blocks : ApplyBlockCommits(b)
    <3>1. ret'.call = "apply_block"
      BY <2>3 DEF ApplyBlockCommits, Ok
    <3>. QED
      BY <1>4, <2>3, <3>1, ApplyCounts DEF IInv
  <2>4. CASE \E t \in Int : RollbackCommits(t)
    <3>1. ret'.call = "rollback"
      BY <2>4 DEF RollbackCommits, Ok
    <3>. QED
      BY <1>4, <2>4, <3>1, RollbackCounts
  <2>. QED
    BY <1>3, <1>4, <2>1, <2>2, <2>3, <2>4, Steps DEF IInv
<1>5. IInv /\ [Next]_vars =>
          [/\ (ret'.call = "apply_block" /\ ret'.outcome = "Ok") =>
                 /\ ret'.gained = Cardinality(Present' \ Present)
                 /\ ret'.lost = Cardinality(Unspent \ Unspent')
           /\ (ret'.call = "rollback" /\ ret'.outcome = "Ok") =>
                 /\ ret'.gained = Cardinality(Unspent' \ Unspent)
                 /\ ret'.lost = Cardinality(Present \ Present')]_vars
  BY <1>4
<1>. QED
  BY <1>5, Invariance, PTL DEF Spec, CountsAreTrue

=============================================================================
