---------------------------- MODULE CoinStoreReorg ----------------------------
(***************************************************************************)
(* CoinStore observed by a caller that follows a chain through             *)
(* reorganisations: `past` remembers what the store held when each height  *)
(* of the current chain was committed.  The store keeps no such history;   *)
(* rollback_to_block reconstructs an old state from the rows of the new    *)
(* one, and this module says how far that succeeds.                        *)
(***************************************************************************)
EXTENDS CoinStore

VARIABLE past   \* height of the current chain -> the frame committed there

Frame ==
    [rows |-> coin_records,
     indexes |-> <<coin_by_puzzle_hash, unspent_by_puzzle_hash, coin_by_parent,
                   coin_by_confirmed_height, coin_by_spent_height>>,
     hints |-> hintCFs,
     tip_hash |-> metadata.tip_hash]

NoFrame == [h \in {} |-> None]

Cut(f, h) == [i \in DOMAIN f \cap (0 .. h) |-> f[i]]

\* A genesis or a block adds the frame it commits; a rollback forgets the
\* frames above its target; every other step leaves the history alone.
Remember ==
    past' = IF ret'.outcome # "Ok" \/ ret'.call = "open" THEN past
            ELSE IF ret'.call = "rollback" THEN Cut(past, metadata'.height)
            ELSE [i \in DOMAIN past \cup {metadata'.height} |->
                     IF i = metadata'.height THEN Frame' ELSE past[i]]

ReorgInit == Init /\ past = NoFrame
ReorgNext == Next /\ Remember
ReorgSpec == ReorgInit /\ [][ReorgNext]_<<vars, past>>

-----------------------------------------------------------------------------

\* The frame the current tip was first committed with.
TipFrame == past[metadata.height]

IgnoringEligibility(rows) ==
    [c \in Coin |-> IF rows[c] = Absent THEN Absent
                    ELSE [DecodeRow(rows[c]) EXCEPT !.ff_eligible = FALSE]]

\* After any sequence of blocks, rollbacks, failed calls and restarts, the
\* store at height h holds what it held when block h was committed: the same
\* coins, created and spent at the same heights, the same five indices and the
\* same hints.  Only the ff_eligible flag of a row is left out.
RollbackRestoresHistory ==
    metadata.initialized =>
        /\ DOMAIN past = 0 .. metadata.height
        /\ IgnoringEligibility(coin_records) = IgnoringEligibility(TipFrame.rows)
        /\ Frame.indexes = TipFrame.indexes
        /\ Frame.hints = TipFrame.hints

\* RBK-006: the state root after a rollback to h is the root recorded at h.
RootMatchesHistorical ==
    metadata.initialized => coin_records = TipFrame.rows

\* BLK-003: tip_hash is the hash of the tip block also after a rollback, so
\* that the block that follows it can be applied.
TipHashRestored ==
    metadata.initialized => metadata.tip_hash = TipFrame.tip_hash

=============================================================================
