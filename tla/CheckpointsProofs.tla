-------------------------- MODULE CheckpointsProofs --------------------------
(***************************************************************************)
(* Snapshots and restore.  A snapshot is taken only from a sound store and *)
(* keeps, row by row, what makes the store sound; whatever restore finds   *)
(* in the column families, it replaces by such rows.  The argument needs   *)
(* that a caller whose restore has stopped only retries (CallersRetry):    *)
(* otherwise it could save the remains of a torn store as a snapshot.      *)
(***************************************************************************)
EXTENDS Checkpoints, CoinStoreProofs

-----------------------------------------------------------------------------
(* What holds of every snapshot a caller or the store keeps.               *)

SnapshotOf(C) ==
    [height : Nat, block_hash : BlockHash, timestamp : Nat, state_root : Rows,
     coins : [C -> CoinRecord], hints : SUBSET (Coin \X Hint),
     totals : BOOLEAN, stale : BOOLEAN]

SoundCoin(rec, h) ==
    /\ rec.confirmed_height <= h
    /\ rec.spent_height # None =>
           rec.spent_height \in rec.confirmed_height + 1 .. h

SoundSnapshot(s) ==
    \E C \in SUBSET Coin :
        s \in SnapshotOf(C) /\ \A c \in C : SoundCoin(s.coins[c], s.height)

\* Every stored row is the encoding of the record it decodes to: encoding what
\* a snapshot decoded gives the row back.
RowsCanonical == \A c \in Present : coin_records[c] = EncodeRow(Rec(c))

Retained ==
    /\ IsFiniteSet(DOMAIN state_snapshots)
    /\ DOMAIN state_snapshots \subseteq Nat
    /\ \A h \in DOMAIN state_snapshots :
           /\ SoundSnapshot(state_snapshots[h])
           /\ state_snapshots[h].height = h
           /\ ~state_snapshots[h].stale => RestoreError(state_snapshots[h]) = "Ok"

\* The inductive invariant.  While a restore is torn nothing is claimed of the
\* disk and the memory, only of the snapshots that can mend them.
CheckpointsInv ==
    /\ ~torn => IInv /\ RowsCanonical
    /\ up \in BOOLEAN
    /\ exported # None => SoundSnapshot(exported)
    /\ Retained

-----------------------------------------------------------------------------
(* What restore leaves behind.                                             *)

\* What restore writes for a sound snapshot: the rows decode to the records of
\* the snapshot, and the indices to their keys.
LEMMA RestoreRows ==
    ASSUME NEW C \in SUBSET Coin, NEW s \in SnapshotOf(C),
           \A c \in C : SoundCoin(s.coins[c], s.height),
           coin_records' =
               [c \in Coin |-> IF c \in C THEN EncodeRow(s.coins[c]) ELSE Absent]
    PROVE  /\ coin_records' \in Rows
           /\ Present' = C
           /\ \A c \in C : /\ s.coins[c] \in CoinRecord
                           /\ Rec(c)' = s.coins[c]
                           /\ coin_records'[c] = EncodeRow(Rec(c)')
           /\ Unspent' = {c \in C : s.coins[c].spent_height = None}
<1>1. s.coins \in [C -> CoinRecord] /\ s.height \in Nat
  BY DEF SnapshotOf
<1>2. ASSUME NEW c \in C
      PROVE  /\ s.coins[c] \in CoinRecord
             /\ s.coins[c].spent_height # 0
  <2>1. s.coins[c] \in CoinRecord
    BY <1>1
  <2>2. s.coins[c].confirmed_height \in Nat
    BY <2>1 DEF CoinRecord
  <2>3. CASE s.coins[c].spent_height = None
    BY <2>1, <2>3, ConstantsAssumption
  <2>4. CASE s.coins[c].spent_height # None
    <3>1. s.coins[c].spent_height \in s.coins[c].confirmed_height + 1 .. s.height
      BY <2>4 DEF SoundCoin
    <3>. QED
      BY <1>1, <2>1, <2>2, <3>1
  <2>. QED
    BY <2>1, <2>3, <2>4
<1>3. \A c \in C : /\ coin_records'[c] = EncodeRow(s.coins[c])
                   /\ EncodeRow(s.coins[c]) \in Row
                   /\ EncodeRow(s.coins[c]) # Absent
                   /\ DecodeRow(EncodeRow(s.coins[c])) = s.coins[c]
  BY <1>2, EncodeType, RoundTrip
<1>4. coin_records' \in Rows
  BY <1>3 DEF Rows
<1>5. Present' = C
  BY <1>3 DEF Present
<1>6. \A c \in C : Rec(c)' = s.coins[c]
  BY <1>3 DEF Rec
<1>7. Unspent' = {c \in C : s.coins[c].spent_height = None}
  <2>1. Unspent' = {c \in Present' : Rec(c)'.spent_height = None}
    BY DEF Unspent
  <2>. QED
    BY <1>5, <1>6, <2>1
<1>. QED
  BY <1>2, <1>3, <1>4, <1>5, <1>6, <1>7

\* A restore of a sound snapshot makes the store sound again, whatever it held.
LEMMA RestoreSound ==
    ASSUME NEW s, SoundSnapshot(s), Restore(s)
    PROVE  IInv' /\ RowsCanonical'
<1>1. PICK C \in SUBSET Coin :
          s \in SnapshotOf(C) /\ \A c \in C : SoundCoin(s.coins[c], s.height)
  BY DEF SoundSnapshot
<1>2. /\ s.coins \in [C -> CoinRecord] /\ DOMAIN s.coins = C
      /\ s.height \in Nat /\ s.block_hash \in BlockHash /\ s.timestamp \in Nat
      /\ s.hints \subseteq Coin \X Hint
  BY <1>1 DEF SnapshotOf
<1> DEFINE Unsp == {c \in C : s.coins[c].spent_height = None}
<1>3. UnspentOf(s, C) = Unsp
  BY DEF UnspentOf
<1>4. /\ coin_records' =
             [c \in Coin |-> IF c \in C THEN EncodeRow(s.coins[c]) ELSE Absent]
      /\ coin_by_puzzle_hash' = PuzzleKeys(C)
      /\ unspent_by_puzzle_hash' = PuzzleKeys(Unsp)
      /\ coin_by_parent' = ParentKeys(C)
      /\ coin_by_confirmed_height' = {<<s.coins[c].confirmed_height, c>> : c \in C}
      /\ coin_by_spent_height' = {<<s.coins[c].spent_height, c>> : c \in C \ Unsp}
  <2> HIDE DEF Unsp
  <2>. QED
    BY <1>2, <1>3 DEF Restore, WriteCoins, Cleared
<1>5. /\ hints' = s.hints
      /\ hints_by_value' = ReverseHintKeys(s.hints)
      /\ metadata' = [initialized |-> TRUE, height |-> s.height,
                      tip_hash |-> s.block_hash, timestamp |-> s.timestamp]
      /\ merkle_tree' = RowsOf(s)
      /\ height' = s.height /\ tip_hash' = s.block_hash
      /\ timestamp' = s.timestamp /\ initialized' = TRUE
      /\ ret' = Ok("restore", 0, 0)
      /\ tree_stale' = FALSE
      /\ up' = TRUE
  BY DEF Restore, Cleared
<1>6. unspent_ids' = Unsp
  BY <1>2, <1>3 DEF Restore
<1>7. /\ coin_records' \in Rows
      /\ Present' = C
      /\ \A c \in C : /\ s.coins[c] \in CoinRecord
                      /\ Rec(c)' = s.coins[c]
                      /\ coin_records'[c] = EncodeRow(Rec(c)')
      /\ Unspent' = Unsp
  BY <1>1, <1>4, RestoreRows
<1>8. merkle_tree' = coin_records'
  BY <1>2, <1>4, <1>5 DEF RowsOf
<1>9. Unsp \subseteq C
  OBVIOUS
<1> HIDE DEF Unsp
<1>10. TypeOK'
  <2>1. ret' \in Result
    BY <1>5, ResultType DEF Call, Outcome
  <2>2. /\ coin_by_puzzle_hash' \subseteq Nat \X Coin
        /\ unspent_by_puzzle_hash' \subseteq Nat \X Coin
        /\ coin_by_parent' \subseteq (Coin \cup {None}) \X Coin
    BY <1>4, <1>9, KeysType
  <2>3. coin_by_confirmed_height' \subseteq Nat \X Coin
    BY <1>4, <1>7 DEF CoinRecord
  <2>4. coin_by_spent_height' \subseteq Nat \X Coin
    <3>1. \A c \in C \ Unsp : s.coins[c].spent_height \in Nat
      BY <1>7 DEF CoinRecord, Unsp
    <3>. QED
      BY <1>4, <3>1
  <2>5. hints_by_value' \subseteq Hint \X Coin
    BY <1>2, <1>5 DEF ReverseHintKeys
  <2>6. metadata' \in [initialized : BOOLEAN, height : Nat \cup {None},
                       tip_hash : BlockHash \cup {None},
                       timestamp : Nat \cup {None}]
    BY <1>2, <1>5
  <2>. QED
    BY <1>2, <1>5, <1>6, <1>7, <1>8, <1>9, <2>1, <2>2, <2>3, <2>4, <2>5, <2>6
    DEF TypeOK, Rows
<1>11. metadata'.height = s.height /\ s.height # None
  BY <1>2, <1>5, ConstantsAssumption
<1>12. DiskInv'
  <2>1. GenesisFirst'
    BY <1>5, <1>11 DEF GenesisFirst
  <2>2. IndexesMatchRecords'
    <3>1. {<<Rec(c)'.confirmed_height, c>> : c \in Present'} =
              {<<s.coins[c].confirmed_height, c>> : c \in C}
      BY <1>7
    <3>2. {<<Rec(c)'.spent_height, c>> : c \in Present' \ Unspent'} =
              {<<s.coins[c].spent_height, c>> : c \in C \ Unsp}
      BY <1>7
    <3>. QED
      BY <1>4, <1>7, <3>1, <3>2 DEF IndexesMatchRecords, PuzzleKeys, ParentKeys
  <2>3. HeightsWithinChain'
    <3>1. UnwrapOr(metadata'.height, 0) = s.height
      BY <1>11 DEF UnwrapOr
    <3>2. \A c \in C : SoundCoin(Rec(c)', s.height)
      BY <1>1, <1>7
    <3>3. \A c \in C : c \notin Unsp => Rec(c)'.spent_height # None
      BY <1>7 DEF Unsp
    <3>. QED
      BY <1>7, <3>1, <3>2, <3>3 DEF HeightsWithinChain, SoundCoin, UnwrapOr
  <2>4. HintsMirrored'
    BY <1>5 DEF HintsMirrored, ReverseHintKeys
  <2>. QED
    BY <2>1, <2>2, <2>3, <2>4 DEF DiskInv
<1>13. MemoryInv'
  <2>1. /\ UnwrapOr(metadata'.height, 0) = s.height
        /\ UnwrapOr(metadata'.tip_hash, ZeroHash) = s.block_hash
        /\ UnwrapOr(metadata'.timestamp, 0) = s.timestamp
    BY <1>2, <1>5, ConstantsAssumption DEF UnwrapOr
  <2>2. MemoryMatchesDisk'
    BY <1>5, <1>6, <1>7, <2>1 DEF MemoryMatchesDisk, UnwrapOr
  <2>. QED
    BY <1>8, <2>2 DEF MemoryInv, TreeMatchesDisk
<1>. QED
  BY <1>7, <1>10, <1>12, <1>13 DEF IInv, RowsCanonical

-----------------------------------------------------------------------------
(* The snapshots a store hands out.                                        *)

LEMMA TakenSound ==
    ASSUME IInv, up, initialized
    PROVE  /\ TakeSnapshot \in SnapshotOf(Present)
           /\ Present \in SUBSET Coin
           /\ \A c \in Present : SoundCoin(TakeSnapshot.coins[c], height)
           /\ TakeSnapshot.height = height
<1>1. TypeOK /\ HeightsWithinChain /\ MemoryMatchesDisk
  BY DEF IInv, DiskInv, MemoryInv
<1>2. Present \subseteq Coin
  BY DEF Present
<1>3. [c \in Present |-> Rec(c)] \in [Present -> CoinRecord]
  BY <1>1, RecType
<1>4. /\ height \in Nat /\ tip_hash \in BlockHash /\ timestamp \in Nat
      /\ merkle_tree \in Rows /\ tree_stale \in BOOLEAN
  BY <1>1 DEF TypeOK, Rows
<1>5. TakeSnapshot \in SnapshotOf(Present)
  BY <1>3, <1>4 DEF TakeSnapshot, SnapshotOf
<1>6. TakeSnapshot.coins = [c \in Present |-> Rec(c)] /\ TakeSnapshot.height = height
  BY DEF TakeSnapshot
<1>7. height = UnwrapOr(metadata.height, 0)
  BY <1>1 DEF MemoryMatchesDisk
<1>8. \A c \in Present : SoundCoin(Rec(c), height)
  BY <1>1, <1>7 DEF HeightsWithinChain, SoundCoin, Unspent
<1>. QED
  BY <1>2, <1>5, <1>6, <1>8

\* A snapshot whose tree was not stale restores: its rows are the stored ones,
\* and so are the leaves of the tree.
LEMMA TakenRestores ==
    ASSUME IInv, RowsCanonical, up, initialized, ~tree_stale
    PROVE  RestoreError(TakeSnapshot) = "Ok"
<1>1. coin_records \in Rows /\ merkle_tree = coin_records
  BY DEF IInv, TypeOK, Rows, MemoryInv, TreeMatchesDisk
<1>2. /\ TakeSnapshot.coins = [c \in Present |-> Rec(c)]
      /\ TakeSnapshot.state_root = merkle_tree
      /\ TakeSnapshot.totals = TRUE
  BY DEF TakeSnapshot
<1>3. RowsOf(TakeSnapshot) =
          [c \in Coin |-> IF c \in Present THEN EncodeRow(Rec(c)) ELSE Absent]
  BY <1>2 DEF RowsOf
<1>4. \A c \in Coin : c \notin Present => coin_records[c] = Absent
  BY DEF Present
<1>5. RowsOf(TakeSnapshot) = coin_records
  BY <1>1, <1>3, <1>4 DEF RowsCanonical, Rows
<1>. QED
  BY <1>1, <1>2, <1>5 DEF RestoreError

\* Adding hints to a sound snapshot, falsifying its totals or losing one of
\* its coins leaves the others sound.
LEMMA DamagedSound ==
    ASSUME NEW s, SoundSnapshot(s)
    PROVE  /\ \A H \in SUBSET (Coin \X Hint) :
                  SoundSnapshot([s EXCEPT !.hints = H])
           /\ SoundSnapshot([s EXCEPT !.totals = FALSE])
           /\ \A c \in DOMAIN s.coins :
                  SoundSnapshot([s EXCEPT !.coins =
                                     [d \in DOMAIN @ \ {c} |-> @[d]]])
<1>1. PICK C \in SUBSET Coin :
          s \in SnapshotOf(C) /\ \A c \in C : SoundCoin(s.coins[c], s.height)
  BY DEF SoundSnapshot
<1>2. ASSUME NEW H \in SUBSET (Coin \X Hint)
      PROVE  SoundSnapshot([s EXCEPT !.hints = H])
  <2> DEFINE t == [s EXCEPT !.hints = H]
  <2>1. t \in SnapshotOf(C) /\ t.coins = s.coins /\ t.height = s.height
    BY <1>1 DEF SnapshotOf
  <2> HIDE DEF t
  <2>. QED
    BY <1>1, <2>1 DEF SoundSnapshot, t
<1>3. SoundSnapshot([s EXCEPT !.totals = FALSE])
  <2> DEFINE t == [s EXCEPT !.totals = FALSE]
  <2>1. t \in SnapshotOf(C) /\ t.coins = s.coins /\ t.height = s.height
    BY <1>1 DEF SnapshotOf
  <2> HIDE DEF t
  <2>. QED
    BY <1>1, <2>1 DEF SoundSnapshot, t
<1>4. ASSUME NEW c \in DOMAIN s.coins
      PROVE  SoundSnapshot([s EXCEPT !.coins = [d \in DOMAIN @ \ {c} |-> @[d]]])
  <2> DEFINE t == [s EXCEPT !.coins = [d \in DOMAIN @ \ {c} |-> @[d]]]
             rest == [d \in DOMAIN s.coins \ {c} |-> s.coins[d]]
  <2>1. s.coins \in [C -> CoinRecord] /\ DOMAIN s.coins = C
    BY <1>1 DEF SnapshotOf
  <2>2. rest \in [C \ {c} -> CoinRecord] /\ \A d \in C \ {c} : rest[d] = s.coins[d]
    BY <2>1
  <2>3. t = [s EXCEPT !.coins = rest]
    OBVIOUS
  <2> HIDE DEF t, rest
  <2>4. t \in SnapshotOf(C \ {c}) /\ t.coins = rest /\ t.height = s.height
    BY <1>1, <2>2, <2>3 DEF SnapshotOf
  <2>5. C \ {c} \in SUBSET Coin
    OBVIOUS
  <2>6. \A d \in C \ {c} : SoundCoin(t.coins[d], t.height)
    BY <1>1, <2>2, <2>4
  <2>. QED
    BY <2>4, <2>5, <2>6 DEF SoundSnapshot, t
<1>. QED
  BY <1>2, <1>3, <1>4

LEMMA OffersSound ==
    ASSUME exported # None => SoundSnapshot(exported)
    PROVE  \A s \in Offers : SoundSnapshot(s)
BY DamagedSound, Zenon DEF Offers

-----------------------------------------------------------------------------
(* The steps that leave rows, memory or snapshots alone.                   *)

LEMMA CanonicalStutter ==
    ASSUME RowsCanonical, UNCHANGED disk
    PROVE  RowsCanonical'
BY DEF RowsCanonical, Present, Rec, disk, coinCFs

\* Every row a block, a rollback or genesis writes is the encoding of a record.
LEMMA CanonicalStep ==
    ASSUME HonestBlocks
    PROVE  IInv /\ RowsCanonical /\ [Next]_vars => RowsCanonical'
<1> SUFFICES ASSUME IInv, RowsCanonical, [Next]_vars PROVE RowsCanonical'
  OBVIOUS
<1>1. TypeOK
  BY DEF IInv
<1>2. CASE UNCHANGED disk
  BY <1>2, CanonicalStutter
<1>3. ASSUME NEW g \in Geneses, InitGenesisCommits(g) PROVE RowsCanonical'
  <2>1. Present = {}
    BY <1>3 DEF InitGenesisCommits, IInv, DiskInv, MemoryInv, GenesisFirst,
                MemoryMatchesDisk
  <2>. QED
    BY <1>1, <1>3, <2>1, GenesisEffects DEF RowsCanonical
<1>4. ASSUME NEW b \in Blocks, ApplyBlockCommits(b) PROVE RowsCanonical'
  BY <1>1, <1>4, ApplyEffects DEF RowsCanonical
<1>5. ASSUME NEW t \in Int, RollbackCommits(t) PROVE RowsCanonical'
  BY <1>1, <1>5, RollbackEffects DEF RowsCanonical
<1>. QED
  BY <1>1, <1>2, <1>3, <1>4, <1>5, DiskSteps

\* A call that only reads the store, or fails before it has changed anything.
LEMMA QuietSound ==
    ASSUME IInv, RowsCanonical, UNCHANGED <<disk, up, memory, tree_stale>>,
           ret' \in Result
    PROVE  IInv' /\ RowsCanonical'
<1>1. DiskInv' /\ MemoryInv'
  BY DiskStutter, MemoryStutter DEF IInv, memory
<1>2. TypeOK'
  BY DEF IInv, TypeOK, disk, coinCFs, hintCFs, memory, tip
<1>. QED
  BY <1>1, <1>2, CanonicalStutter DEF IInv

LEMMA RetainedShrinks ==
    ASSUME Retained, NEW K \in SUBSET DOMAIN state_snapshots,
           state_snapshots' = [h \in K |-> state_snapshots[h]]
    PROVE  Retained'
<1>1. DOMAIN state_snapshots' = K /\ \A h \in K : state_snapshots'[h] = state_snapshots[h]
  OBVIOUS
<1>2. IsFiniteSet(K) /\ K \subseteq Nat
  BY FS_Subset DEF Retained
<1>. QED
  BY <1>1, <1>2 DEF Retained, RestoreError, RowsOf

LEMMA RetainedSaves ==
    ASSUME IInv, RowsCanonical, up, initialized, Retained, NEW G,
           state_snapshots' =
               Without(With(state_snapshots, height, TakeSnapshot), G)
    PROVE  /\ Retained'
           /\ DOMAIN state_snapshots' = (DOMAIN state_snapshots \cup {height}) \ G
<1> DEFINE K == (DOMAIN state_snapshots \cup {height}) \ G
<1>1. /\ DOMAIN state_snapshots' = K
      /\ \A h \in K : state_snapshots'[h] = IF h = height THEN TakeSnapshot
                                            ELSE state_snapshots[h]
  BY DEF With, Without
<1>2. height \in Nat
  BY DEF IInv, TypeOK
<1>3. IsFiniteSet(K) /\ K \subseteq Nat
  <2>1. IsFiniteSet(DOMAIN state_snapshots \cup {height})
    BY FS_AddElement DEF Retained
  <2>. QED
    BY <1>2, <2>1, FS_Subset DEF Retained
<1>4. /\ SoundSnapshot(TakeSnapshot)
      /\ TakeSnapshot.height = height
      /\ TakeSnapshot.stale = tree_stale
      /\ ~tree_stale => RestoreError(TakeSnapshot) = "Ok"
  <2>1. TakeSnapshot.stale = tree_stale
    BY DEF TakeSnapshot
  <2>. QED
    BY <2>1, TakenSound, TakenRestores DEF SoundSnapshot
<1>5. \A h \in K : /\ SoundSnapshot(state_snapshots'[h])
                   /\ state_snapshots'[h].height = h
                   /\ ~state_snapshots'[h].stale =>
                          RestoreError(state_snapshots'[h]) = "Ok"
  BY <1>1, <1>4 DEF Retained
<1> HIDE DEF K
<1>6. Retained'
  BY <1>1, <1>3, <1>5 DEF Retained, RestoreError, RowsOf
<1>. QED
  BY <1>1, <1>6 DEF K

-----------------------------------------------------------------------------
(* The invariant is inductive.                                             *)

LEMMA RetainedStutter ==
    ASSUME Retained, UNCHANGED state_snapshots
    PROVE  Retained'
BY DEF Retained, RestoreError, RowsOf

\* The steps of a store that is not torn.
LEMMA WholeStep ==
    ASSUME HonestBlocks, CheckpointsInv, ~torn,
           \/ Next /\ UNCHANGED extras
           \/ SaveSnapshot
           \/ SaveSnapshotRejected
           \/ SaveSnapshotStops
           \/ Export
    PROVE  CheckpointsInv'
<1>1. IInv /\ RowsCanonical /\ Retained /\ (exported # None => SoundSnapshot(exported))
  BY DEF CheckpointsInv
<1>2. \A call \in Call, outcome \in Outcome :
          Ok(call, 0, 0) \in Result /\ Err(call, outcome) \in Result
  BY ResultType
<1>3. CASE Next /\ UNCHANGED extras
  <2>1. IInv' /\ RowsCanonical'
    BY <1>1, <1>3, NextInv, CanonicalStep
  <2>2. UNCHANGED <<state_snapshots, exported, torn>>
    BY <1>3 DEF extras
  <2>3. up' \in BOOLEAN
    BY <2>1 DEF IInv, TypeOK
  <2>4. Retained'
    BY <1>1, <2>2, RetainedStutter
  <2>. QED
    BY <1>1, <2>1, <2>2, <2>3, <2>4 DEF CheckpointsInv
<1>4. CASE SaveSnapshot \/ SaveSnapshotStops
  <2>1. /\ up /\ initialized /\ UNCHANGED <<disk, up, memory, tree_stale>>
        /\ UNCHANGED <<exported, torn>> /\ ret' \in Result
        /\ \E G : state_snapshots' =
                      Without(With(state_snapshots, height, TakeSnapshot), G)
    <3>1. CASE SaveSnapshot
      BY <1>2, <3>1 DEF SaveSnapshot, Call, Outcome
    <3>2. CASE SaveSnapshotStops
      BY <1>2, <3>2 DEF SaveSnapshotStops, Call, Outcome
    <3>. QED
      BY <1>4, <3>1, <3>2
  <2>2. IInv' /\ RowsCanonical'
    BY <1>1, <2>1, QuietSound
  <2>3. Retained'
    BY <1>1, <2>1, RetainedSaves
  <2>4. up' \in BOOLEAN
    BY <2>2 DEF IInv, TypeOK
  <2>. QED
    BY <1>1, <2>1, <2>2, <2>3, <2>4 DEF CheckpointsInv
<1>5. CASE SaveSnapshotRejected
  <2>1. /\ UNCHANGED <<disk, up, memory, tree_stale>> /\ ret' \in Result
        /\ UNCHANGED <<state_snapshots, exported, torn>>
    BY <1>2, <1>5 DEF SaveSnapshotRejected, Reject, Call, Outcome, extras
  <2>2. IInv' /\ RowsCanonical'
    BY <1>1, <2>1, QuietSound
  <2>3. up' \in BOOLEAN
    BY <2>2 DEF IInv, TypeOK
  <2>. QED
    BY <1>1, <2>1, <2>2, <2>3, RetainedStutter DEF CheckpointsInv
<1>6. CASE Export
  <2>1. /\ UNCHANGED <<disk, up, memory, tree_stale, state_snapshots, torn>>
        /\ ret' \in Result /\ up
    BY <1>2, <1>6 DEF Export, Call, Outcome
  <2>2. IInv' /\ RowsCanonical'
    BY <1>1, <2>1, QuietSound
  <2>3. up' \in BOOLEAN
    BY <2>2 DEF IInv, TypeOK
  <2>4. SoundSnapshot(exported')
    <3>1. ASSUME initialized
          PROVE  /\ SoundSnapshot(TakeSnapshot)
                 /\ SoundSnapshot([TakeSnapshot EXCEPT !.hints = hints])
      <4>1. SoundSnapshot(TakeSnapshot)
        BY <1>1, <2>1, <3>1, TakenSound DEF SoundSnapshot
      <4>2. hints \in SUBSET (Coin \X Hint)
        BY <1>1 DEF IInv, TypeOK
      <4>. QED
        BY <4>1, <4>2, DamagedSound
    <3>2. \A h \in DOMAIN state_snapshots : SoundSnapshot(state_snapshots[h])
      BY <1>1 DEF Retained
    <3>. QED
      BY <1>6, <3>1, <3>2 DEF Export
  <2>5. SoundSnapshot(exported)'
    BY <2>4 DEF SoundSnapshot, SnapshotOf
  <2>. QED
    BY <1>1, <2>1, <2>2, <2>3, <2>5, RetainedStutter DEF CheckpointsInv
<1>. QED
  BY <1>3, <1>4, <1>5, <1>6

\* restore, stopped or not, from any state.
LEMMA RestoreStep ==
    ASSUME CheckpointsInv,
           NEW s \in Offers,
           \/ RestoreRejected(s)
           \/ Restore(s)
           \/ \E n \in 1 .. 10 : RestoreStopsClearing(s, n)
           \/ \E D \in SUBSET DOMAIN s.coins, H \in SUBSET s.hints :
                  RestoreStopsWriting(s, D, H)
    PROVE  CheckpointsInv'
<1>1. Retained /\ (exported # None => SoundSnapshot(exported)) /\ up \in BOOLEAN
  BY DEF CheckpointsInv
<1>2. CASE RestoreRejected(s)
  <2>1. /\ UNCHANGED <<disk, up, memory, tree_stale>> /\ ret' \in Result
        /\ UNCHANGED <<state_snapshots, exported, torn>>
    <3>1. RestoreError(s) \in Outcome
      BY DEF RestoreError, Outcome
    <3>2. Err("restore", RestoreError(s)) \in Result
      BY <3>1, ResultType DEF Call
    <3>. QED
      BY <1>2, <3>2 DEF RestoreRejected, Reject, extras
  <2>2. ~torn => IInv' /\ RowsCanonical'
    BY <2>1, QuietSound DEF CheckpointsInv
  <2>. QED
    BY <1>1, <2>1, <2>2, RetainedStutter DEF CheckpointsInv
<1>3. CASE Restore(s)
  <2>1. IInv' /\ RowsCanonical'
    BY <1>1, <1>3, OffersSound, RestoreSound
  <2>2. up' \in BOOLEAN
    BY <2>1 DEF IInv, TypeOK
  <2>3. Retained'
    <3>1. state_snapshots' = [h \in {} |-> state_snapshots[h]]
      BY <1>3 DEF Restore, Without
    <3>. QED
      BY <1>1, <3>1, RetainedShrinks
  <2>4. UNCHANGED exported
    BY <1>3 DEF Restore
  <2>. QED
    BY <1>1, <2>1, <2>2, <2>3, <2>4 DEF CheckpointsInv
<1>4. ASSUME Interrupted, Retained' PROVE CheckpointsInv'
  BY <1>1, <1>4 DEF Interrupted, CheckpointsInv
<1>5. ASSUME NEW n \in 1 .. 10, RestoreStopsClearing(s, n)
      PROVE  CheckpointsInv'
  <2>1. PICK kept \in Part(9, n, DOMAIN state_snapshots) :
            state_snapshots' = [h \in kept |-> state_snapshots[h]]
    BY <1>5 DEF RestoreStopsClearing
  <2>2. kept \in SUBSET DOMAIN state_snapshots
    BY <2>1 DEF Part
  <2>3. Retained'
    BY <1>1, <2>1, <2>2, RetainedShrinks
  <2>. QED
    BY <1>4, <1>5, <2>3 DEF RestoreStopsClearing
<1>6. ASSUME NEW D \in SUBSET DOMAIN s.coins, NEW H \in SUBSET s.hints,
             RestoreStopsWriting(s, D, H)
      PROVE  CheckpointsInv'
  <2>1. state_snapshots' = [h \in {} |-> state_snapshots[h]]
    BY <1>6 DEF RestoreStopsWriting, Without
  <2>2. Retained'
    BY <1>1, <2>1, RetainedShrinks
  <2>. QED
    BY <1>4, <1>6, <2>2 DEF RestoreStopsWriting
<1>. QED
  BY <1>2, <1>3, <1>5, <1>6

LEMMA CheckpointsStep ==
    ASSUME HonestBlocks, CallersRetry
    PROVE  CheckpointsInv /\ [CheckpointsNext]_allVars => CheckpointsInv'
<1> SUFFICES ASSUME CheckpointsInv, [CheckpointsNext]_allVars
             PROVE  CheckpointsInv'
  OBVIOUS
<1>1. CASE ~torn /\ (\/ Next /\ UNCHANGED extras
                     \/ SaveSnapshot
                     \/ SaveSnapshotRejected
                     \/ SaveSnapshotStops
                     \/ Export)
  BY <1>1, WholeStep
<1>2. CASE torn /\ (WithConfig \/ Crash) /\ UNCHANGED extras
  <2>1. up' \in BOOLEAN /\ UNCHANGED <<state_snapshots, exported, torn>>
    BY <1>2 DEF WithConfig, Crash, extras
  <2>. QED
    BY <1>2, <2>1, RetainedStutter DEF CheckpointsInv
<1>3. CASE \E s \in Offers :
               \/ RestoreRejected(s)
               \/ Restore(s)
               \/ \E n \in 1 .. 10 : RestoreStopsClearing(s, n)
               \/ \E D \in SUBSET DOMAIN s.coins, H \in SUBSET s.hints :
                      RestoreStopsWriting(s, D, H)
  BY <1>3, RestoreStep
<1>4. CASE UNCHANGED allVars
  <2>1. UNCHANGED <<vars, disk, up, state_snapshots, exported, torn>>
    BY <1>4 DEF allVars, extras, vars
  <2>2. ~torn => IInv' /\ RowsCanonical'
    BY <2>1, NextInv, CanonicalStutter DEF CheckpointsInv
  <2>. QED
    BY <2>1, <2>2, RetainedStutter DEF CheckpointsInv
<1>. QED
  BY <1>1, <1>2, <1>3, <1>4 DEF CheckpointsNext

LEMMA CheckpointsStart == CheckpointsInit => CheckpointsInv
<1> SUFFICES ASSUME CheckpointsInit PROVE CheckpointsInv
  OBVIOUS
<1>1. IInv
  BY InitInv DEF CheckpointsInit
<1>2. RowsCanonical
  BY DEF CheckpointsInit, Init, RowsCanonical, Present
<1>3. Retained
  <2>1. DOMAIN state_snapshots = {}
    BY DEF CheckpointsInit
  <2>. QED
    BY <2>1, FS_EmptySet DEF Retained
<1>4. up \in BOOLEAN
  BY <1>1 DEF IInv, TypeOK
<1>. QED
  BY <1>1, <1>2, <1>3, <1>4 DEF CheckpointsInit, CheckpointsInv

\* Chain calls, snapshots, checkpoints, complete and stopped restores, crashes
\* and restarts all preserve the inductive invariant.
THEOREM CheckpointsInvariance ==
    ASSUME HonestBlocks, CallersRetry
    PROVE  CheckpointsSpec => []CheckpointsInv
BY CheckpointsStart, CheckpointsStep, PTL DEF CheckpointsSpec

\* The five sets of facts that make the store consistent survive snapshots,
\* checkpoints and restores for every chain of blocks and every point at which
\* a restore can stop, if a stopped restore is followed by another one.
THEOREM CheckpointsSound ==
    ASSUME HonestBlocks, CallersRetry
    PROVE  CheckpointsSpec => []SoundUnlessTorn
<1>1. CheckpointsInv => SoundUnlessTorn
  BY DEF CheckpointsInv, SoundUnlessTorn, IInv, DiskInv, MemoryInv
<1>. QED
  BY <1>1, CheckpointsInvariance, PTL

\* Every checkpoint save_snapshot has retained can be restored, however many
\* blocks, rollbacks and formats of rows lie between.
THEOREM CheckpointsRestore ==
    ASSUME HonestBlocks, CallersRetry
    PROVE  CheckpointsSpec => []RetainedSnapshotsRestore
<1>1. CheckpointsInv => RetainedSnapshotsRestore
  BY DEF CheckpointsInv, Retained, RetainedSnapshotsRestore
<1>. QED
  BY <1>1, CheckpointsInvariance, PTL

-----------------------------------------------------------------------------
(* What restore and save_snapshot promise when they return Ok.             *)

LEMMA ChainCalls ==
    ASSUME Next
    PROVE  ret'.call \in {"open", "init_genesis", "apply_block", "rollback"}
<1> USE DEF Reject, FailWithTree, Err, Ok
<1>1. CASE WithConfig \/ Crash \/ InitGenesisRejected
  BY <1>1 DEF WithConfig, Crash, InitGenesisRejected
<1>2. ASSUME NEW g \in Geneses, InitGenesis(g)
      PROVE  ret'.call = "init_genesis"
  BY <1>2 DEF InitGenesis, InitGenesisTreeError, InitGenesisCommitFails,
              InitGenesisCommits
<1>3. ASSUME NEW b \in Blocks, ApplyBlock(b)
      PROVE  ret'.call = "apply_block"
  <2>1. CASE ApplyBlockCommits(b)
    BY <2>1 DEF ApplyBlockCommits
  <2>. QED
    BY <1>3, <2>1
    DEF ApplyBlock, ApplyBlockRejectedByHeader, ApplyBlockRejectedByBody,
        ApplyBlockReadFails, ApplyBlockInsertClashes, ApplyBlockUpdateMisses,
        ApplyBlockRootMismatch, ApplyBlockCommitFails
<1>4. ASSUME NEW t, RollbackToBlock(t)
      PROVE  ret'.call = "rollback"
  BY <1>4 DEF RollbackToBlock, RollbackRejected, RollbackNoOp, RollbackTreeError,
              RollbackReadFails, RollbackCommitFails, RollbackCommits
<1>. QED
  BY <1>1, <1>2, <1>3, <1>4 DEF Next, RollbackNBlocks

\* Which action a successful restore or save_snapshot was.
LEMMA CheckpointCalls ==
    ASSUME CheckpointsNext, ret'.outcome = "Ok"
    PROVE  /\ ret'.call = "restore" => \E s \in Offers : Restore(s)
           /\ ret'.call = "save_snapshot" => ~(torn /\ CallersRetry) /\ SaveSnapshot
<1> USE DEF Err, Ok, Reject
<1>1. CASE Next \/ WithConfig \/ Crash
  BY <1>1, ChainCalls DEF Next
<1>2. CASE SaveSnapshotRejected \/ SaveSnapshotStops \/ Export
  BY <1>2 DEF SaveSnapshotRejected, SaveSnapshotStops, Export
<1>3. CASE SaveSnapshot /\ ~(torn /\ CallersRetry)
  BY <1>3 DEF SaveSnapshot
<1>4. ASSUME NEW s \in Offers,
             \/ RestoreRejected(s)
             \/ \E n \in 1 .. 10 : RestoreStopsClearing(s, n)
             \/ \E D \in SUBSET DOMAIN s.coins, H \in SUBSET s.hints :
                    RestoreStopsWriting(s, D, H)
      PROVE  FALSE
  BY <1>4 DEF RestoreRejected, RestoreStopsClearing, RestoreStopsWriting, Interrupted
<1>5. ASSUME NEW s \in Offers, Restore(s)
      PROVE  ret'.call = "restore"
  BY <1>5 DEF Restore
<1>. QED
  BY <1>1, <1>2, <1>3, <1>4, <1>5 DEF CheckpointsNext

\* A restore that returns Ok has replaced the whole store by the snapshot and
\* made it consistent, over the remains of any number of stopped restores.
THEOREM RestoreCorrect ==
    ASSUME HonestBlocks, CallersRetry
    PROVE  CheckpointsSpec => RestoreReplacesEverything
<1> DEFINE Goal ==
      (ret'.call = "restore" /\ ret'.outcome = "Ok") =>
           /\ \E s \in Offers :
                  /\ coin_records' = RowsOf(s)
                  /\ metadata'.height = s.height
                  /\ metadata'.tip_hash = s.block_hash
                  /\ hints' = s.hints
           /\ DOMAIN state_snapshots' = {}
           /\ up' /\ ~torn' /\ SoundUnlessTorn'
<1>1. ASSUME CheckpointsInv, CheckpointsNext PROVE Goal
  <2> SUFFICES ASSUME ret'.call = "restore", ret'.outcome = "Ok" PROVE Goal
    OBVIOUS
  <2>1. PICK s \in Offers : Restore(s)
    BY <1>1, CheckpointCalls
  <2>2. IInv'
    BY <1>1, <2>1, OffersSound, RestoreSound DEF CheckpointsInv
  <2>3. SoundUnlessTorn'
    BY <2>2 DEF SoundUnlessTorn, IInv, DiskInv, MemoryInv
  <2>4. coin_records' = RowsOf(s)
    BY <2>1 DEF Restore, WriteCoins, RowsOf
  <2>5. /\ metadata'.height = s.height /\ metadata'.tip_hash = s.block_hash
        /\ hints' = s.hints /\ DOMAIN state_snapshots' = {} /\ up' /\ ~torn'
    BY <2>1 DEF Restore, Cleared, Without
  <2>. QED
    BY <2>1, <2>3, <2>4, <2>5
<1> HIDE DEF Goal
<1>2. CheckpointsInv /\ [CheckpointsNext]_allVars => [Goal]_allVars
  BY <1>1
<1>. QED
  BY <1>2, CheckpointsInvariance, PTL
  DEF CheckpointsSpec, RestoreReplacesEverything, Goal

\* prune_snapshots_to_limit keeps the MaxSnapshots highest of the heights H.
LEMMA PruningBound ==
    ASSUME NEW H \in SUBSET Nat, IsFiniteSet(H), MaxSnapshots # 0
    PROVE  Cardinality(H \ Excess(H)) <= MaxSnapshots
<1> DEFINE Above(h) == {i \in H : i > h}
           K == H \ Excess(H)
<1>1. MaxSnapshots \in Nat
  BY CheckpointsAssumption
<1>2. \A h \in H : IsFiniteSet(Above(h)) /\ Cardinality(Above(h)) \in Nat
  <2> SUFFICES ASSUME NEW h \in H
               PROVE  IsFiniteSet(Above(h)) /\ Cardinality(Above(h)) \in Nat
    OBVIOUS
  <2>1. Above(h) \in SUBSET H
    OBVIOUS
  <2>. QED
    BY <2>1, FS_Subset, FS_CardinalityType
<1>3. K \in SUBSET H /\ \A h \in K : Cardinality(Above(h)) < MaxSnapshots
  BY <1>1, <1>2 DEF Excess
<1>4. CASE K = {}
  BY <1>1, <1>4, FS_EmptySet
<1>5. CASE K # {}
  <2>1. PICK m \in K : \A h \in K : m <= h
    <3> DEFINE R == OpToRel(<, Nat)
    <3>1. IsWellFoundedOn(R, Nat)
      BY NatLessThanWellFounded
    <3>2. \A x, y \in Nat : x < y => <<x, y>> \in R
      BY DEF OpToRel
    <3> HIDE DEF R
    <3>3. K \subseteq Nat
      BY <1>3
    <3> HIDE DEF K
    <3>4. PICK m \in K : \A h \in K : ~(<<h, m>> \in R)
      BY <1>5, <3>1, <3>3, WFMin
    <3>5. \A h \in K : m <= h
      <4> SUFFICES ASSUME NEW h \in K PROVE m <= h
        OBVIOUS
      <4>1. m \in Nat /\ h \in Nat /\ ~(h < m)
        BY <3>2, <3>3, <3>4
      <4>. QED
        BY <4>1
    <3>. QED
      BY <3>5
  <2>2. m \in H /\ Cardinality(Above(m)) < MaxSnapshots
    BY <1>3
  <2>3. K \in SUBSET (Above(m) \cup {m})
    <3> SUFFICES ASSUME NEW h \in K PROVE h \in H /\ (h > m \/ h = m)
      OBVIOUS
    <3>1. h \in H /\ h \in Nat /\ m \in Nat /\ m <= h
      BY <1>3, <2>1
    <3>. QED
      BY <3>1
  <2> HIDE DEF K
  <2>4. /\ IsFiniteSet(Above(m) \cup {m})
        /\ Cardinality(Above(m) \cup {m}) <= Cardinality(Above(m)) + 1
    <3>1. m \notin Above(m)
      <4>1. m \in Nat
        BY <2>2
      <4>. QED
        BY <4>1
    <3>2. IsFiniteSet(Above(m)) /\ Cardinality(Above(m)) \in Nat
      BY <1>2, <2>2
    <3> HIDE DEF Above
    <3>3. ASSUME NEW A, IsFiniteSet(A), m \notin A
          PROVE  /\ IsFiniteSet(A \cup {m})
                 /\ Cardinality(A \cup {m}) = Cardinality(A) + 1
      BY <3>3, FS_AddElement
    <3>4. /\ IsFiniteSet(Above(m) \cup {m})
          /\ Cardinality(Above(m) \cup {m}) = Cardinality(Above(m)) + 1
      BY <3>1, <3>2, <3>3, Zenon
    <3>. QED
      BY <3>2, <3>4
  <2>5. Cardinality(K) <= Cardinality(Above(m) \cup {m})
    BY <2>3, <2>4, FS_Subset
  <2>6. IsFiniteSet(K)
    BY <2>3, <2>4, FS_Subset
  <2>7. Cardinality(K) \in Nat /\ Cardinality(Above(m) \cup {m}) \in Nat
    BY <2>4, <2>6, FS_CardinalityType
  <2>. QED
    BY <1>1, <1>2, <2>2, <2>4, <2>5, <2>7 DEF K
<1>. QED
  BY <1>4, <1>5

LEMMA PruningOrder ==
    ASSUME NEW H \in SUBSET Nat, IsFiniteSet(H),
           NEW h \in Excess(H), NEW i \in H \ Excess(H)
    PROVE  h < i
<1> DEFINE Above(j) == {k \in H : k > j}
<1>1. MaxSnapshots \in Nat
  BY CheckpointsAssumption
<1>2. /\ h \in H /\ Cardinality(Above(h)) >= MaxSnapshots
      /\ i \in H /\ ~(Cardinality(Above(i)) >= MaxSnapshots)
  BY DEF Excess
<1>3. Above(i) \in SUBSET H /\ Above(h) \in SUBSET H
  OBVIOUS
<1>4. /\ IsFiniteSet(Above(i)) /\ Cardinality(Above(i)) \in Nat
      /\ IsFiniteSet(Above(h)) /\ Cardinality(Above(h)) \in Nat
  BY <1>3, FS_Subset, FS_CardinalityType
<1>5. ASSUME ~(h < i) PROVE FALSE
  <2>1. Above(h) \in SUBSET Above(i)
    <3> SUFFICES ASSUME NEW k \in H, k > h PROVE k > i
      OBVIOUS
    <3>1. k \in Nat /\ h \in Nat /\ i \in Nat
      BY <1>2
    <3>. QED
      BY <1>5, <3>1
  <2> HIDE DEF Above
  <2>2. Cardinality(Above(h)) <= Cardinality(Above(i))
    BY <1>4, <2>1, FS_Subset
  <2>. QED
    BY <1>1, <1>2, <1>4, <2>2
<1>. QED
  BY <1>5

\* If anything is pruned, max_snapshots checkpoints are left: those above the
\* highest one pruned.
LEMMA PruningSpares ==
    ASSUME NEW H \in SUBSET Nat, IsFiniteSet(H), MaxSnapshots # 0, Excess(H) # {}
    PROVE  Cardinality(H \ Excess(H)) >= MaxSnapshots
<1> DEFINE Above(h) == {i \in H : i > h}
           size(h) == Cardinality(Above(h))
           Sizes == {size(h) : h \in Excess(H)}
<1>1. \A h \in H : IsFiniteSet(Above(h)) /\ size(h) \in Nat
  <2> SUFFICES ASSUME NEW h \in H PROVE IsFiniteSet(Above(h)) /\ size(h) \in Nat
    OBVIOUS
  <2>1. Above(h) \in SUBSET H
    OBVIOUS
  <2>. QED
    BY <2>1, FS_Subset, FS_CardinalityType
<1>2. Excess(H) \subseteq H /\ \A h \in Excess(H) : size(h) >= MaxSnapshots
  BY DEF Excess
<1>3. PICK m \in Excess(H) : \A h \in Excess(H) : ~(size(h) < size(m))
  <2> DEFINE R == OpToRel(<, Nat)
  <2>1. IsWellFoundedOn(R, Nat)
    BY NatLessThanWellFounded
  <2>2. \A x, y \in Nat : x < y => <<x, y>> \in R
    BY DEF OpToRel
  <2>3. Sizes \subseteq Nat /\ Sizes # {}
    BY <1>1, <1>2
  <2> HIDE DEF R, Sizes
  <2>4. PICK n \in Sizes : \A k \in Sizes : ~(<<k, n>> \in R)
    BY <2>1, <2>3, WFMin
  <2>5. \A k \in Sizes : ~(k < n)
    BY <2>2, <2>3, <2>4
  <2> HIDE DEF size
  <2>. QED
    BY <2>5 DEF Sizes
<1>4. m \in H /\ m \in Nat
  BY <1>2, <1>3
<1>5. ASSUME NEW i \in Above(m), i \in Excess(H) PROVE FALSE
  <2>1. i \in H /\ i \in Nat /\ m < i
    BY <1>4, <1>5
  <2>2. /\ \A k \in H : k > i => k > m
        /\ ~(i > i)
    <3>1. \A k \in H : k \in Nat
      OBVIOUS
    <3>. QED
      BY <1>4, <2>1, <3>1
  <2>3. Above(i) \in SUBSET Above(m) /\ i \notin Above(i) /\ i \in Above(m)
    BY <1>5, <2>2
  <2>4. IsFiniteSet(Above(m)) /\ size(m) \in Nat /\ size(i) \in Nat
    BY <1>1, <1>4, <2>1
  <2> HIDE DEF Above
  <2>5. Above(i) # Above(m)
    BY <2>3
  <2>6. Cardinality(Above(i)) < Cardinality(Above(m))
    BY <2>3, <2>4, <2>5, FS_Subset
  <2>. QED
    BY <1>3, <1>5, <2>6
<1>6. Above(m) \in SUBSET (H \ Excess(H))
  BY <1>5
<1>7. IsFiniteSet(H \ Excess(H))
  BY FS_Difference
<1>8. size(m) <= Cardinality(H \ Excess(H)) /\ size(m) >= MaxSnapshots
  <2> HIDE DEF Above
  <2>1. Cardinality(Above(m)) <= Cardinality(H \ Excess(H))
    BY <1>6, <1>7, FS_Subset
  <2>. QED
    BY <1>2, <2>1
<1>9. size(m) \in Nat /\ Cardinality(H \ Excess(H)) \in Nat /\ MaxSnapshots \in Nat
  BY <1>1, <1>4, <1>7, FS_CardinalityType, CheckpointsAssumption
<1> HIDE DEF size
<1>. QED
  BY <1>8, <1>9

\* A save_snapshot that returns Ok has pruned to the limit, also what earlier
\* saves that stopped had left over, and has dropped only the lowest heights,
\* its own or another, each for as many higher ones as may be kept.
THEOREM RetentionCorrect ==
    ASSUME HonestBlocks, CallersRetry
    PROVE  CheckpointsSpec => RetentionKeepsHighest
<1> DEFINE Goal ==
      (ret'.call = "save_snapshot" /\ ret'.outcome = "Ok") =>
           /\ MaxSnapshots = 0 \/ Cardinality(DOMAIN state_snapshots') <= MaxSnapshots
           /\ \A h \in (DOMAIN state_snapshots \cup {height}) \ DOMAIN state_snapshots' :
                  /\ Cardinality(DOMAIN state_snapshots') = MaxSnapshots
                  /\ \A i \in DOMAIN state_snapshots' : h < i
<1>1. ASSUME CheckpointsInv, CheckpointsNext PROVE Goal
  <2> SUFFICES ASSUME ret'.call = "save_snapshot", ret'.outcome = "Ok" PROVE Goal
    OBVIOUS
  <2> DEFINE H == DOMAIN state_snapshots \cup {height}
  <2>1. ~torn /\ SaveSnapshot
    BY <1>1, CheckpointCalls
  <2>2. IInv /\ RowsCanonical /\ Retained
    BY <1>1, <2>1 DEF CheckpointsInv
  <2>3. DOMAIN With(state_snapshots, height, TakeSnapshot) = H
    BY DEF With
  <2>4. DOMAIN state_snapshots' = H \ Excess(H)
    BY <2>1, <2>2, <2>3, RetainedSaves DEF SaveSnapshot
  <2>5. H \in SUBSET Nat /\ IsFiniteSet(H)
    BY <2>2, FS_AddElement DEF IInv, TypeOK, Retained
  <2>6. /\ H \ DOMAIN state_snapshots' \subseteq Excess(H)
        /\ (DOMAIN state_snapshots \cup {height}) \ DOMAIN state_snapshots'
               = H \ DOMAIN state_snapshots'
    BY <2>4
  <2> HIDE DEF H
  <2>7. MaxSnapshots = 0 \/ Cardinality(DOMAIN state_snapshots') <= MaxSnapshots
    BY <2>4, <2>5, PruningBound
  <2>8. \A h \in H \ DOMAIN state_snapshots' :
            \A i \in DOMAIN state_snapshots' : h < i
    BY <2>4, <2>5, <2>6, PruningOrder
  <2>9. ASSUME NEW h \in H \ DOMAIN state_snapshots'
        PROVE  Cardinality(DOMAIN state_snapshots') = MaxSnapshots
    <3>1. h \in Excess(H)
      BY <2>6
    <3>2. MaxSnapshots # 0
      BY <3>1 DEF Excess
    <3>3. Cardinality(DOMAIN state_snapshots') >= MaxSnapshots
      BY <2>4, <2>5, <3>1, <3>2, PruningSpares
    <3>4. IsFiniteSet(DOMAIN state_snapshots')
      BY <2>4, <2>5, FS_Difference
    <3>5. Cardinality(DOMAIN state_snapshots') \in Nat /\ MaxSnapshots \in Nat
      BY <3>4, FS_CardinalityType, CheckpointsAssumption
    <3>. QED
      BY <2>7, <3>2, <3>3, <3>5
  <2>. QED
    BY <2>6, <2>7, <2>8, <2>9
<1> HIDE DEF Goal
<1>2. CheckpointsInv /\ [CheckpointsNext]_allVars => [Goal]_allVars
  BY <1>1
<1>. QED
  BY <1>2, CheckpointsInvariance, PTL
  DEF CheckpointsSpec, RetentionKeepsHighest, Goal

=============================================================================
