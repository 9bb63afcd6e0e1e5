--------------------------- MODULE CoinStoreHistory ---------------------------
(***************************************************************************)
(* Rollback without an undo log.  Every row carries the height that        *)
(* created it and the height that spent it, so the present rows determine  *)
(* what the store held at each height of the chain (FrameAt).  A block     *)
(* keeps every such picture of the past and a rollback keeps the ones up   *)
(* to its target; at the tip the picture is the store itself.              *)
(***************************************************************************)
EXTENDS CoinStoreReorg, CoinStoreProofs

-----------------------------------------------------------------------------
(* The past, read off the present.                                         *)

RowsAt(h) == {c \in Present : Rec(c).confirmed_height <= h}

RecAt(c, h) ==
    [confirmed_height |-> Rec(c).confirmed_height,
     spent_height |-> IF c \in UtxoAt(h) THEN None ELSE Rec(c).spent_height,
     coinbase |-> Rec(c).coinbase, timestamp |-> Rec(c).timestamp,
     ff_eligible |-> FALSE]

HintsAt(h) == {p \in hints : p[1] \in RowsAt(h)}

FrameAt(h) ==
    [rows |-> [c \in Coin |-> IF c \in RowsAt(h) THEN RecAt(c, h) ELSE Absent],
     indexes |-> <<PuzzleKeys(RowsAt(h)), PuzzleKeys(UtxoAt(h)),
                   ParentKeys(RowsAt(h)),
                   {<<Rec(c).confirmed_height, c>> : c \in RowsAt(h)},
                   {<<Rec(c).spent_height, c>> : c \in RowsAt(h) \ UtxoAt(h)}>>,
     hints |-> <<HintsAt(h), ReverseHintKeys(HintsAt(h))>>]

\* A recorded frame and a picture of the past agree, eligibility aside.
Agrees(frame, picture) ==
    /\ IgnoringEligibility(frame.rows) = picture.rows
    /\ frame.indexes = picture.indexes
    /\ frame.hints = picture.hints

\* The inductive invariant: not only the frame of the tip but every recorded
\* frame is the one the present rows imply.
HistoryInv ==
    /\ ~metadata.initialized => DOMAIN past = {}
    /\ metadata.initialized => DOMAIN past = 0 .. metadata.height
    /\ \A h \in DOMAIN past : Agrees(past[h], FrameAt(h))

-----------------------------------------------------------------------------
(* Which steps keep the pictures of the past.                              *)

\* A picture depends only on its rows, on which of them were unspent, on their
\* fixed fields, on the spent heights of the others and on the hints.
LEMMA PictureKept ==
    ASSUME NEW h,
           RowsAt(h)' = RowsAt(h), UtxoAt(h)' = UtxoAt(h),
           \A c \in RowsAt(h) :
               /\ Rec(c)'.confirmed_height = Rec(c).confirmed_height
               /\ Rec(c)'.coinbase = Rec(c).coinbase
               /\ Rec(c)'.timestamp = Rec(c).timestamp,
           \A c \in RowsAt(h) \ UtxoAt(h) :
               Rec(c)'.spent_height = Rec(c).spent_height,
           HintsAt(h)' = HintsAt(h)
    PROVE  FrameAt(h)' = FrameAt(h)
<1>1. \A c \in RowsAt(h) : RecAt(c, h)' = RecAt(c, h)
  BY DEF RecAt
<1>2. FrameAt(h)'.rows = FrameAt(h).rows
  BY <1>1 DEF FrameAt
<1>3. FrameAt(h)'.indexes = FrameAt(h).indexes
  BY DEF FrameAt, PuzzleKeys, ParentKeys
<1>4. FrameAt(h)'.hints = FrameAt(h).hints
  BY DEF FrameAt, ReverseHintKeys
<1>. QED
  BY <1>2, <1>3, <1>4 DEF FrameAt

LEMMA StutterKeepsPicture ==
    ASSUME UNCHANGED disk, NEW h
    PROVE  FrameAt(h)' = FrameAt(h)
<1>1. UNCHANGED <<coin_records, metadata, hints>>
  BY DEF disk, coinCFs, hintCFs
<1>2. Present' = Present /\ Unspent' = Unspent /\ \A c : Rec(c)' = Rec(c)
  BY <1>1 DEF Present, Unspent, Rec
<1>3. RowsAt(h)' = RowsAt(h) /\ UtxoAt(h)' = UtxoAt(h)
  BY <1>2 DEF RowsAt, UtxoAt
<1>4. HintsAt(h)' = HintsAt(h)
  BY <1>1, <1>3 DEF HintsAt
<1>. QED
  BY <1>2, <1>3, <1>4, PictureKept

\* A block changes no picture below it: its coins are too young to appear, the
\* spends it adds are too late, and it hints only its own coins.
LEMMA ApplyKeepsPicture ==
    ASSUME IInv, HonestBlocks, HintsOnCreated, NEW b \in Blocks,
           ApplyBlockCommits(b), NEW h \in 0 .. StoredTip
    PROVE  FrameAt(h)' = FrameAt(h)
<1>1. TypeOK /\ Valid(b) /\ up
  BY DEF IInv, ApplyBlockCommits, Staged
<1>2. b.height = StoredTip + 1 /\ StoredTip \in Nat
  BY <1>1, ValidBlock, StoredTipType
  DEF IInv, MemoryInv, MemoryMatchesDisk, StoredTip
<1>3. ~(b.height <= h)
  BY <1>2
<1>4. /\ CreatedCoins(b) \cap Present = {} /\ SpentCoins(b) \subseteq Unspent
      /\ Unspent \subseteq Present
  BY <1>1, ValidBlock DEF Unspent
<1>5. /\ Present' = Present \cup CreatedCoins(b)
      /\ \A c \in CreatedCoins(b) : Rec(c)'.confirmed_height = b.height
      /\ \A c \in SpentCoins(b) :
             /\ Rec(c)'.confirmed_height = Rec(c).confirmed_height
             /\ Rec(c)'.coinbase = Rec(c).coinbase
             /\ Rec(c)'.timestamp = Rec(c).timestamp
      /\ \A c \in Present \ SpentCoins(b) : Rec(c)' = Rec(c)
  BY <1>1, ApplyEffects
<1>6. \A c \in Present : /\ Rec(c)'.confirmed_height = Rec(c).confirmed_height
                         /\ Rec(c)'.coinbase = Rec(c).coinbase
                         /\ Rec(c)'.timestamp = Rec(c).timestamp
  BY <1>5
<1>7. RowsAt(h)' = RowsAt(h)
  BY <1>3, <1>4, <1>5, <1>6 DEF RowsAt
<1>8. UtxoAt(h)' = UtxoAt(h)
  BY ApplyKeepsPast
<1>9. \A c \in RowsAt(h) \ UtxoAt(h) : Rec(c)'.spent_height = Rec(c).spent_height
  <2>1. \A c \in RowsAt(h) \ UtxoAt(h) : c \in Present \ Unspent
    BY DEF RowsAt, UtxoAt
  <2>. QED
    BY <1>4, <1>5, <2>1
<1>10. HintsAt(h)' = HintsAt(h)
  <2>1. hints' = hints \cup StoredHints(b)
    BY DEF ApplyBlockCommits
  <2>2. \A p \in StoredHints(b) : p[1] \notin RowsAt(h)
    BY <1>4 DEF StoredHints, HintsOnCreated, RowsAt
  <2>. QED
    BY <1>7, <2>1, <2>2 DEF HintsAt
<1>11. RowsAt(h) \subseteq Present
  BY DEF RowsAt
<1>. QED
  BY <1>6, <1>7, <1>8, <1>9, <1>10, <1>11, PictureKept

\* A rollback changes no picture up to its target: what it deletes is younger,
\* what it revives was spent later, and the hints go with their coins.
LEMMA RollbackKeepsPicture ==
    ASSUME IInv, NEW t \in Int, RollbackCommits(t), NEW h \in 0 .. Clamp(t)
    PROVE  FrameAt(h)' = FrameAt(h)
<1> DEFINE Del == DeletedCoins(t)
           Rev == RevivedCoins(t)
<1>1. TypeOK /\ Undoes(t)
  BY DEF IInv, RollbackCommits
<1>2. /\ Del = {c \in Present : Rec(c).confirmed_height > Clamp(t)}
      /\ Rev = {c \in Present \ Unspent :
                   /\ Rec(c).confirmed_height <= Clamp(t)
                   /\ Rec(c).spent_height > Clamp(t)}
  BY <1>1, UndoneCoins
<1>3. /\ Present' = Present \ Del
      /\ \A c \in Rev :
             /\ Rec(c)'.confirmed_height = Rec(c).confirmed_height
             /\ Rec(c)'.coinbase = Rec(c).coinbase
             /\ Rec(c)'.timestamp = Rec(c).timestamp
      /\ \A c \in Present \ (Del \cup Rev) : Rec(c)' = Rec(c)
  BY <1>1, RollbackEffects
<1>4. \A c \in Present : Rec(c).confirmed_height \in Nat
  BY <1>1, RecType DEF CoinRecord
<1>5. \A c \in Present \ Unspent : Rec(c).spent_height \in Nat
  BY <1>1, RecType DEF CoinRecord, Unspent
<1>6. Clamp(t) \in Nat /\ h \in Nat /\ h <= Clamp(t)
  BY DEF Clamp
<1>7. \A c \in Del : c \notin RowsAt(h)
  BY <1>2, <1>4, <1>6 DEF RowsAt
<1>8. \A c \in Rev : c \in RowsAt(h) => c \in UtxoAt(h)
  BY <1>2, <1>5, <1>6 DEF RowsAt, UtxoAt
<1> HIDE DEF Del, Rev
<1>9. \A c \in Present \ Del :
          /\ Rec(c)'.confirmed_height = Rec(c).confirmed_height
          /\ Rec(c)'.coinbase = Rec(c).coinbase
          /\ Rec(c)'.timestamp = Rec(c).timestamp
  BY <1>3
<1>10. RowsAt(h) \subseteq Present \ Del
  BY <1>7 DEF RowsAt
<1>11. RowsAt(h)' = RowsAt(h)
  BY <1>3, <1>7, <1>9 DEF RowsAt
<1>12. UtxoAt(h)' = UtxoAt(h)
  BY RollbackKeepsPast
<1>13. \A c \in RowsAt(h) \ UtxoAt(h) : Rec(c)'.spent_height = Rec(c).spent_height
  BY <1>3, <1>8, <1>10
<1>14. HintsAt(h)' = HintsAt(h)
  <2>1. hints' = hints \ DeletedHints(t)
    BY DEF RollbackCommits
  <2>2. \A p \in DeletedHints(t) : p[1] \notin RowsAt(h)
    BY <1>7 DEF DeletedHints, Del
  <2>. QED
    BY <1>11, <2>1, <2>2 DEF HintsAt
<1>. QED
  BY <1>9, <1>10, <1>11, <1>12, <1>13, <1>14, PictureKept

LEMMA WithoutEligibility ==
    ASSUME NEW r \in CoinRecord
    PROVE  [r EXCEPT !.ff_eligible = FALSE] =
               [confirmed_height |-> r.confirmed_height,
                spent_height |-> r.spent_height, coinbase |-> r.coinbase,
                timestamp |-> r.timestamp, ff_eligible |-> FALSE]
<1> DEFINE x == [r EXCEPT !.ff_eligible = FALSE]
<1>1. x \in CoinRecord
  BY DEF CoinRecord
<1>2. /\ x.confirmed_height = r.confirmed_height
      /\ x.spent_height = r.spent_height /\ x.coinbase = r.coinbase
      /\ x.timestamp = r.timestamp /\ x.ff_eligible = FALSE
  BY DEF CoinRecord
<1> HIDE DEF x
<1>3. x = [confirmed_height |-> x.confirmed_height,
           spent_height |-> x.spent_height, coinbase |-> x.coinbase,
           timestamp |-> x.timestamp, ff_eligible |-> x.ff_eligible]
  BY <1>1 DEF CoinRecord
<1>. QED
  BY <1>2, <1>3 DEF x

\* The picture of the tip is the store itself.
LEMMA TipPicture ==
    IInv /\ HintsHaveCoins => Agrees(Frame, FrameAt(StoredTip))
<1> SUFFICES ASSUME IInv, HintsHaveCoins PROVE Agrees(Frame, FrameAt(StoredTip))
  OBVIOUS
<1>1. TypeOK /\ HeightsWithinChain /\ IndexesMatchRecords /\ HintsMirrored
  BY DEF IInv, DiskInv
<1>2. UtxoAt(StoredTip) = Unspent
  BY <1>1, UtxoAtTip
<1>3. RowsAt(StoredTip) = Present
  BY <1>1 DEF RowsAt, HeightsWithinChain, StoredTip
<1>4. HintsAt(StoredTip) = hints
  BY <1>3 DEF HintsAt, HintsHaveCoins
<1>5. IgnoringEligibility(Frame.rows) = FrameAt(StoredTip).rows
  <2>1. ASSUME NEW c \in Present
        PROVE  [DecodeRow(coin_records[c]) EXCEPT !.ff_eligible = FALSE] =
                   RecAt(c, StoredTip)
    <3>1. Rec(c) \in CoinRecord
      BY <1>1, RecType
    <3>2. Rec(c).spent_height = IF c \in Unspent THEN None ELSE Rec(c).spent_height
      BY DEF Unspent
    <3>3. [Rec(c) EXCEPT !.ff_eligible = FALSE] =
              [confirmed_height |-> Rec(c).confirmed_height,
               spent_height |-> Rec(c).spent_height,
               coinbase |-> Rec(c).coinbase, timestamp |-> Rec(c).timestamp,
               ff_eligible |-> FALSE]
      BY <3>1, WithoutEligibility
    <3>. QED
      BY <1>2, <3>2, <3>3 DEF RecAt, Rec
  <2>2. \A c \in Coin : coin_records[c] # Absent <=> c \in Present
    BY DEF Present
  <2>3. Frame.rows = coin_records
    BY DEF Frame
  <2>. QED
    BY <1>3, <2>1, <2>2, <2>3 DEF IgnoringEligibility, FrameAt
<1>6. Frame.indexes = FrameAt(StoredTip).indexes
  BY <1>1, <1>2, <1>3 DEF Frame, FrameAt, IndexesMatchRecords
<1>7. Frame.hints = FrameAt(StoredTip).hints
  BY <1>1, <1>4 DEF Frame, FrameAt, hintCFs, HintsMirrored, ReverseHintKeys
<1>. QED
  BY <1>5, <1>6, <1>7 DEF Agrees

-----------------------------------------------------------------------------
(* The induction.                                                          *)

\* Recording the new tip keeps the history sound, if the step kept the
\* pictures of the frames recorded before.
LEMMA RecordTip ==
    ASSUME IInv', HintsHaveCoins', HistoryInv, NEW k \in Nat,
           metadata'.initialized, metadata'.height = k,
           DOMAIN past = 0 .. k - 1,
           \A h \in 0 .. k - 1 : FrameAt(h)' = FrameAt(h),
           past' = [i \in DOMAIN past \cup {k} |->
                       IF i = k THEN Frame' ELSE past[i]]
    PROVE  HistoryInv'
<1>1. StoredTip' = k
  BY ConstantsAssumption DEF StoredTip, UnwrapOr
<1>2. Agrees(Frame', FrameAt(StoredTip)')
  <2>1. (IInv /\ HintsHaveCoins => Agrees(Frame, FrameAt(StoredTip)))'
    BY TipPicture, PTL
  <2>2. Agrees(Frame, FrameAt(StoredTip))'
    BY <2>1
  <2>. QED
    BY <2>2 DEF Agrees, IgnoringEligibility
<1>3. ASSUME NEW h, h = k
      PROVE  Agrees(past'[h], FrameAt(h)')
  <2>1. FrameAt(StoredTip)' = FrameAt(h)'
    BY <1>1, <1>3 DEF FrameAt, RowsAt, UtxoAt, HintsAt, RecAt
  <2>2. past'[h] = Frame'
    BY <1>3
  <2>. QED
    BY <1>2, <2>1, <2>2
<1>4. \A h \in 0 .. k - 1 : h # k
  OBVIOUS
<1>5. ASSUME NEW h \in 0 .. k - 1
      PROVE  Agrees(past'[h], FrameAt(h)')
  BY <1>4 DEF HistoryInv
<1>6. DOMAIN past' = 0 .. k
  <2>1. DOMAIN past' = (0 .. k - 1) \cup {k}
    OBVIOUS
  <2>. QED
    BY <2>1
<1>7. \A h \in 0 .. k : h \in 0 .. k - 1 \/ h = k
  OBVIOUS
<1>8. \A h \in DOMAIN past' : Agrees(past'[h], FrameAt(h)')
  BY <1>3, <1>5, <1>6, <1>7
<1>. QED
  BY <1>6, <1>8 DEF HistoryInv, Agrees, IgnoringEligibility

\* Cutting the history at a height keeps it sound, if the step kept the
\* pictures up to there.
LEMMA CutHistory ==
    ASSUME HistoryInv, NEW k \in Nat, NEW n \in Nat, k <= n,
           metadata'.initialized, metadata'.height = k, DOMAIN past = 0 .. n,
           \A h \in 0 .. k : FrameAt(h)' = FrameAt(h),
           past' = Cut(past, k)
    PROVE  HistoryInv'
<1>1. DOMAIN past' = 0 .. k /\ \A h \in 0 .. k : past'[h] = past[h]
  <2>1. (0 .. n) \cap (0 .. k) = 0 .. k
    OBVIOUS
  <2>. QED
    BY <2>1 DEF Cut
<1>2. \A h \in 0 .. k : h \in DOMAIN past
  OBVIOUS
<1>3. \A h \in DOMAIN past' : Agrees(past'[h], FrameAt(h)')
  BY <1>1, <1>2 DEF HistoryInv
<1>. QED
  BY <1>1, <1>3 DEF HistoryInv, Agrees, IgnoringEligibility

LEMMA HistoryStep ==
    ASSUME HonestBlocks, HintsOnCreated, IInv, IInv', HintsHaveCoins',
           HistoryInv, ReorgNext
    PROVE  HistoryInv'
<1>1. TypeOK /\ Next /\ Remember
  BY DEF IInv, ReorgNext
<1>2. GenesisFirst
  BY DEF IInv, DiskInv
<1>3. metadata.initialized => metadata.height \in Nat /\ StoredTip = metadata.height
  BY <1>1, <1>2 DEF TypeOK, GenesisFirst, StoredTip, UnwrapOr
<1>4. CASE UNCHANGED disk /\ past' = past
  <2>1. UNCHANGED metadata
    BY <1>4 DEF disk
  <2>2. \A h : FrameAt(h)' = FrameAt(h)
    BY <1>4, StutterKeepsPicture
  <2>3. \A h \in DOMAIN past' : Agrees(past'[h], FrameAt(h)')
    BY <1>4, <2>2 DEF HistoryInv
  <2>. QED
    BY <1>4, <2>1, <2>3 DEF HistoryInv, Agrees, IgnoringEligibility
<1>5. CASE UNCHANGED disk /\ (ret'.outcome # "Ok" \/ ret'.call = "open")
  BY <1>1, <1>4, <1>5 DEF Remember
<1>6. CASE UNCHANGED disk /\ up /\ initialized /\ ret' = Ok("rollback", 0, 0)
  <2>1. metadata' = metadata /\ metadata.initialized
    BY <1>6 DEF disk, IInv, MemoryInv, MemoryMatchesDisk
  <2>2. past' = Cut(past, metadata.height)
    BY <1>1, <1>6, <2>1 DEF Remember, Ok
  <2>3. DOMAIN past = 0 .. metadata.height
    BY <2>1 DEF HistoryInv
  <2>4. \A h : FrameAt(h)' = FrameAt(h)
    BY <1>6, StutterKeepsPicture
  <2>. QED
    BY <1>3, <2>1, <2>2, <2>3, <2>4, CutHistory
<1>7. ASSUME NEW g \in Geneses, InitGenesisCommits(g)
      PROVE  HistoryInv'
  <2>1. ~metadata.initialized
    BY <1>7 DEF InitGenesisCommits, IInv, MemoryInv, MemoryMatchesDisk
  <2>2. metadata'.initialized /\ metadata'.height = 0
    BY <1>7 DEF InitGenesisCommits
  <2>3. ret'.outcome = "Ok" /\ ret'.call = "init_genesis"
    BY <1>7 DEF InitGenesisCommits, Ok
  <2>4. DOMAIN past = {} /\ 0 .. 0 - 1 = {}
    BY <2>1 DEF HistoryInv
  <2>5. past' = [i \in DOMAIN past \cup {0} |-> IF i = 0 THEN Frame' ELSE past[i]]
    BY <1>1, <2>2, <2>3 DEF Remember
  <2>. QED
    BY <2>2, <2>4, <2>5, RecordTip
<1>8. ASSUME NEW b \in Blocks, ApplyBlockCommits(b)
      PROVE  HistoryInv'
  <2>1. Valid(b) /\ up
    BY <1>8 DEF ApplyBlockCommits, Staged
  <2>2. metadata.initialized /\ b.height = metadata.height + 1
    BY <1>1, <1>3, <2>1, ValidBlock
    DEF IInv, MemoryInv, MemoryMatchesDisk, StoredTip
  <2>3. metadata'.initialized /\ metadata'.height = b.height
    BY <1>1, <1>8, <2>2 DEF ApplyBlockCommits, TypeOK
  <2>4. ret'.outcome = "Ok" /\ ret'.call = "apply_block"
    BY <1>8 DEF ApplyBlockCommits, Ok
  <2>5. DOMAIN past = 0 .. b.height - 1 /\ b.height \in Nat
    BY <1>3, <2>2 DEF HistoryInv
  <2>6. \A h \in 0 .. b.height - 1 : FrameAt(h)' = FrameAt(h)
    <3>1. 0 .. b.height - 1 = 0 .. StoredTip
      BY <1>3, <2>2
    <3>. QED
      BY <1>8, <3>1, ApplyKeepsPicture
  <2>7. past' = [i \in DOMAIN past \cup {b.height} |->
                    IF i = b.height THEN Frame' ELSE past[i]]
    BY <1>1, <2>3, <2>4 DEF Remember
  <2>. QED
    BY <2>3, <2>5, <2>6, <2>7, RecordTip
<1>9. ASSUME NEW t \in Int, RollbackCommits(t)
      PROVE  HistoryInv'
  <2>1. Undoes(t) /\ up /\ initialized
    BY <1>9 DEF RollbackCommits, Undoes, RollbackError
  <2>2. metadata.initialized /\ height = StoredTip
    BY <2>1 DEF IInv, MemoryInv, MemoryMatchesDisk, StoredTip
  <2>3. Clamp(t) \in 0 .. metadata.height
    BY <1>3, <2>1, <2>2, UndoneCoins
  <2>4. metadata'.initialized /\ metadata'.height = Clamp(t)
    BY <1>1, <1>9, <2>2 DEF RollbackCommits, TypeOK
  <2>5. ret'.outcome = "Ok" /\ ret'.call = "rollback"
    BY <1>9 DEF RollbackCommits, Ok
  <2>6. past' = Cut(past, Clamp(t))
    BY <1>1, <2>4, <2>5 DEF Remember
  <2>7. \A h \in 0 .. Clamp(t) : FrameAt(h)' = FrameAt(h)
    BY <1>9, RollbackKeepsPicture
  <2>8. DOMAIN past = 0 .. metadata.height
    BY <2>2 DEF HistoryInv
  <2>9. Clamp(t) \in Nat /\ Clamp(t) <= metadata.height
    BY <1>3, <2>2, <2>3
  <2>. QED
    BY <1>3, <2>2, <2>4, <2>6, <2>7, <2>8, <2>9, CutHistory
<1>. QED
  BY <1>1, <1>5, <1>6, <1>7, <1>8, <1>9, Steps

LEMMA HistoryStutter ==
    ASSUME HistoryInv, UNCHANGED <<vars, past>>
    PROVE  HistoryInv'
<1>1. UNCHANGED disk /\ UNCHANGED metadata /\ past' = past
  BY DEF vars, disk
<1>2. \A h \in DOMAIN past' : Agrees(past'[h], FrameAt(h)')
  BY <1>1, StutterKeepsPicture DEF HistoryInv
<1>. QED
  BY <1>1, <1>2 DEF HistoryInv, Agrees, IgnoringEligibility

\* The recorded frame of the tip is the store.
LEMMA HistoryRestored ==
    IInv /\ HintsHaveCoins /\ HistoryInv => RollbackRestoresHistory
<1> SUFFICES ASSUME IInv, HintsHaveCoins, HistoryInv, metadata.initialized
             PROVE  /\ DOMAIN past = 0 .. metadata.height
                    /\ IgnoringEligibility(coin_records) =
                           IgnoringEligibility(TipFrame.rows)
                    /\ Frame.indexes = TipFrame.indexes
                    /\ Frame.hints = TipFrame.hints
  BY DEF RollbackRestoresHistory
<1>1. metadata.height \in Nat /\ StoredTip = metadata.height
  BY DEF IInv, DiskInv, TypeOK, GenesisFirst, StoredTip, UnwrapOr
<1>2. DOMAIN past = 0 .. metadata.height /\ metadata.height \in DOMAIN past
  BY <1>1 DEF HistoryInv
<1>3. Agrees(TipFrame, FrameAt(StoredTip))
  BY <1>1, <1>2 DEF HistoryInv, TipFrame
<1>4. Agrees(Frame, FrameAt(StoredTip)) /\ Frame.rows = coin_records
  BY TipPicture DEF Frame
<1>. QED
  BY <1>2, <1>3, <1>4 DEF Agrees

\* Whatever branches were applied and undone, with failed calls, crashes and
\* restarts anywhere between, the store at height h holds the coins, heights,
\* indices and hints that it held when the block of height h was committed:
\* rollback_to_block, which keeps no undo log, loses nothing but ff_eligible.
THEOREM RollbackCorrect ==
    ASSUME HonestBlocks, HintsOnCreated
    PROVE  ReorgSpec => []RollbackRestoresHistory
<1>1. ReorgInit => IInv /\ HintsHaveCoins /\ HistoryInv
  <2> SUFFICES ASSUME ReorgInit PROVE HintsHaveCoins /\ HistoryInv
    BY InitInv DEF ReorgInit
  <2>. QED
    BY DEF ReorgInit, Init, EmptyMetadata, NoFrame, HintsHaveCoins, HistoryInv
<1>2. IInv /\ HintsHaveCoins /\ HistoryInv /\ [ReorgNext]_<<vars, past>>
          => (IInv /\ HintsHaveCoins /\ HistoryInv)'
  <2> SUFFICES ASSUME IInv, HintsHaveCoins, HistoryInv,
                      [ReorgNext]_<<vars, past>>
               PROVE  (IInv /\ HintsHaveCoins /\ HistoryInv)'
    OBVIOUS
  <2>1. [Next]_vars
    BY DEF ReorgNext
  <2>2. IInv' /\ HintsHaveCoins'
    BY <2>1, NextInv, HintsStep
  <2>3. HistoryInv'
    BY <2>2, HistoryStep, HistoryStutter
  <2>. QED
    BY <2>2, <2>3
<1>. QED
  BY <1>1, <1>2, HistoryRestored, PTL DEF ReorgSpec

=============================================================================
