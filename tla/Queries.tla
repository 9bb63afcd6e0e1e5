------------------------------- MODULE Queries -------------------------------
(***************************************************************************)
(* The read-only queries (src/src/queries.rs, and stats and is_unspent in  *)
(* src/src/coin_store.rs) as operators on the state of the chain.          *)
(*                                                                         *)
(* A coin id determines its record, so a list of records is the sequence   *)
(* of their ids.  Keys shorter than their layout do not occur, and         *)
(* `self.backend` errors are the caller's errors without any effect.       *)
(***************************************************************************)
EXTENDS CoinStore, Lists, SequencesExt

CONSTANTS
    IdOrder,    \* the coins in the order of their ids
    AmountOf,   \* coin -> amount
    U64Limit    \* 2^64

ASSUME QueriesAssumption ==
    /\ IdOrder \in Seq(Coin)
    /\ Elements(IdOrder) = Coin
    /\ Len(IdOrder) = Cardinality(Coin)
    /\ U64Limit \in Nat \ {0}
    /\ AmountOf \in [Coin -> 0 .. U64Limit - 1]

\* KvStore::prefix_scan: the keys below a prefix, in key order.
PrefixScan(cf, prefix) == Keep(IdOrder, {c \in Coin : <<prefix, c>> \in cf})

-----------------------------------------------------------------------------
(* Records by id, puzzle hash, height and parent.                          *)

GetCoinRecords(ids) == Keep(ids, Present)

\* The filter the record queries share.
Selected(include_spent, from, to) ==
    {c \in Present : /\ include_spent \/ c \in Unspent
                     /\ Rec(c).confirmed_height \in from .. to}

\* Fault: the end of the height range is exclusive.
GetCoinRecordsByNames_Exclusive(include_spent, names, from, to) ==
    Keep(names, Selected(include_spent, from, to - 1))

GetCoinRecordsByNames(include_spent, names, from, to) ==
    Keep(names, Selected(include_spent, from, to))

GetCoinRecordsByPuzzleHash(include_spent, ph, from, to) ==
    Keep(PrefixScan(coin_by_puzzle_hash, ph), Selected(include_spent, from, to))

GetCoinRecordsByPuzzleHashes(include_spent, phs, from, to) ==
    FlattenSeq([i \in DOMAIN phs |->
        GetCoinRecordsByPuzzleHash(include_spent, phs[i], from, to)])

GetCoinRecordsByParentIds(include_spent, ids, from, to) ==
    FlattenSeq([i \in DOMAIN ids |->
        Keep(PrefixScan(coin_by_parent, ids[i]), Selected(include_spent, from, to))])

GetCoinsAddedAtHeight(h) == GetCoinRecords(PrefixScan(coin_by_confirmed_height, h))

GetCoinsRemovedAtHeight(h) ==
    IF h = 0 THEN <<>> ELSE GetCoinRecords(PrefixScan(coin_by_spent_height, h))

FirstItems(s, max_items) ==
    SubSeq(s, 1, IF Len(s) <= max_items THEN Len(s) ELSE max_items)

GetCoinStatesByIds(include_spent, ids, from, to, max_items) ==
    FirstItems(GetCoinRecordsByNames(include_spent, ids, from, to), max_items)

GetCoinStatesByPuzzleHashes(include_spent, phs, from, max_items) ==
    FirstItems(GetCoinRecordsByPuzzleHashes(include_spent, phs, from, U64Limit - 1),
               max_items)

-----------------------------------------------------------------------------
(* Aggregates, statistics and lineage.                                     *)

SumOfAmounts(C) == SumOver(AmountOf, C)

NumUnspent == Cardinality(Unspent)
NumTotal == Cardinality(Present)
TotalUnspentValue == SumOfAmounts(Unspent)  \* u128: no sum of u64s reaches it

\* The sums are u64 and wrap in a release build.
AggregateUnspentByPuzzleHash ==
    LET coinsOf(ph) == {c \in Unspent : PuzzleOf[c] = ph}
    IN  [ph \in {PuzzleOf[c] : c \in Unspent} |->
            [total |-> SumOfAmounts(coinsOf(ph)) % U64Limit,
             count |-> Cardinality(coinsOf(ph))]]

\* saturating_add
Stats ==
    LET rows == IF initialized THEN Present ELSE {}
        value == SumOfAmounts(rows \cap Unspent)
    IN  [unspent_count |-> Cardinality(rows \cap Unspent),
         spent_count |-> Cardinality(rows \ Unspent),
         total_unspent_value |-> IF value < U64Limit THEN value ELSE U64Limit - 1,
         hint_count |-> Cardinality(hints)]

IsUnspent(c) == c \in unspent_ids

\* The zero id of a missing grandparent is None, as in ParentOf.
GetUnspentLineageInfoForPuzzleHash(ph) ==
    LET found == PrefixScan(unspent_by_puzzle_hash, ph)
        parent == ParentOf[found[1]]
    IN  IF Len(found) # 1 \/ found[1] \notin Present THEN None
        ELSE [coin_id |-> found[1], parent_id |-> parent,
              parent_parent_id |-> IF parent \in Present THEN ParentOf[parent]
                                   ELSE None]

-----------------------------------------------------------------------------
(* Properties.                                                             *)

AllPuzzles == SetToSeq({PuzzleOf[c] : c \in Coin})
AllParents == SetToSeq({ParentOf[c] : c \in Coin})

\* Heights are u64.
HeightsFit == \A b \in Blocks : b.height < U64Limit

\* The four ways to ask for the coins created in a range of heights (point
\* lookups, and the puzzle-hash, parent and height indices) list the same
\* coins, none of them twice, after any blocks, rollbacks and restarts.
QueriesAgree ==
    up => \A include_spent \in BOOLEAN, from, to \in 0 .. height :
        LET byNames == GetCoinRecordsByNames(include_spent, IdOrder, from, to)
            byHashes == GetCoinRecordsByPuzzleHashes(include_spent, AllPuzzles, from, to)
            byParents == GetCoinRecordsByParentIds(include_spent, AllParents, from, to)
        IN  /\ Elements(byHashes) = Elements(byNames) /\ Len(byHashes) = Len(byNames)
            /\ Elements(byParents) = Elements(byNames) /\ Len(byParents) = Len(byNames)
            /\ include_spent =>
                   Elements(byNames) =
                       UNION {Elements(GetCoinsAddedAtHeight(h)) : h \in from .. to}
            /\ to = height =>
                   Elements(GetCoinStatesByPuzzleHashes(include_spent, AllPuzzles,
                                                        from, NumTotal))
                       = Elements(GetCoinStatesByIds(include_spent, IdOrder, from,
                                                     to, NumTotal))

\* A client that replays the two height queries from genesis to the tip ends
\* with exactly the coins is_unspent answers true for, and never removes a
\* coin it has not added before.
HeightQueriesReplayChain ==
    up =>
        LET added(h) == UNION {Elements(GetCoinsAddedAtHeight(i)) : i \in 0 .. h}
            removed(h) == UNION {Elements(GetCoinsRemovedAtHeight(i)) : i \in 0 .. h}
        IN  /\ added(height) \ removed(height) = {c \in Coin : IsUnspent(c)}
            /\ \A h \in 1 .. height :
                   Elements(GetCoinsRemovedAtHeight(h))
                       \subseteq added(h - 1) \ removed(h - 1)

\* The balances by puzzle hash, the totals, stats and the unspent set in
\* memory tell the same story; the values agree while the supply fits in the
\* u64 that stats and the balances use.
BalancesAgree ==
    LET balances == AggregateUnspentByPuzzleHash
        counts == [ph \in DOMAIN balances |-> balances[ph].count]
        totals == [ph \in DOMAIN balances |-> balances[ph].total]
    IN  up => /\ Stats.unspent_count = NumUnspent
              /\ NumUnspent = Cardinality(unspent_ids)
              /\ Stats.spent_count = NumTotal - NumUnspent
              /\ SumOver(counts, DOMAIN balances) = NumUnspent
              /\ TotalUnspentValue < U64Limit =>
                     /\ Stats.total_unspent_value = TotalUnspentValue
                     /\ SumOver(totals, DOMAIN balances) = TotalUnspentValue

\* Every new coin but a reward is made by spending its parent in the same
\* block, and genesis coins have no parent; apply_block leaves this to its
\* caller.
BlocksSpendParents ==
    /\ \A g \in Geneses : \A c \in g.coins : ParentOf[c] = None
    /\ \A b \in Blocks : \A c \in CreatedCoins(b) :
           ParentOf[c] \in SpentCoins(b) \cup {None}

\* Provided blocks spend the parents of what they add (BlocksSpendParents), the
\* children a parent query returns were created by the block that spent the
\* parent, and the lineage of a singleton whose parent is known names the true
\* grandparent, also after a rollback has deleted a generation and revived the
\* one before.
LineageSurvivesRollback ==
    /\ \A p \in Present :
           \A c \in Elements(GetCoinRecordsByParentIds(TRUE, <<p>>, 0, U64Limit - 1)) :
               Rec(p).spent_height = Rec(c).confirmed_height
    /\ \A ph \in Elements(AllPuzzles) :
           LET info == GetUnspentLineageInfoForPuzzleHash(ph)
           IN  (info # None /\ info.parent_id # None) =>
                   /\ info.parent_id \in Present \ Unspent
                   /\ info.parent_parent_id = ParentOf[info.parent_id]

=============================================================================
