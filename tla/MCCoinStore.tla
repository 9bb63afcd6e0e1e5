----------------------------- MODULE MCCoinStore -----------------------------
(* Small instances of CoinStore: two genesis coins, a singleton lineage    *)
(* g1 -> a -> z, two reward coins per height, heights 0 to 3.              *)
EXTENDS CoinStoreReorg, TLC

MCCoin == {"g1", "g2", "a", "z", "r1", "s1", "r2", "s2", "r3", "s3"}
MCParentOf ==
    [c \in MCCoin |-> CASE c = "a" -> "g1" [] c = "z" -> "a" [] OTHER -> None]
MCPuzzleOf == [c \in MCCoin |-> IF c \in {"g1", "a"} THEN 1 ELSE 2]
MCHint == {"x", "zero"}
MCBlockHash == {"B0", "B1", "B2", "B3"}

MCGeneses ==
    {[coins |-> {"g1", "g2"}, coinbase |-> {"g2"}, timestamp |-> 1],
     [coins |-> {"g2"}, coinbase |-> {}, timestamp |-> 2]}

Add(c, same) == [coin_id |-> c, coin |-> c, same_as_parent |-> same]
Rewards(h) == << <<"r1", "s1">>, <<"r2", "s2">>, <<"r3", "s3">> >>[h]
HashOf(h) == <<"B1", "B2", "B3">>[h]

Body(removals, additions, hs, root) ==
    [removals |-> removals, additions |-> additions, hints |-> hs, root |-> root]

\* Bodies a caller may send: empty, the first two steps of the lineage, plain
\* spends, one and two at once, and state roots announced; at the first height
\* the lineage may also start without the flag, at the last it may end.
GoodBodies ==
    {Body(<<>>, <<>>, {}, "none"),
     Body(<<"g1">>, <<Add("a", TRUE)>>, {<<"a", "x">>}, "none"),
     Body(<<"a">>, <<Add("z", FALSE)>>, {<<"z", "x">>, <<"z", "zero">>}, "none"),
     Body(<<"g2">>, <<>>, {}, "canonical"),
     Body(<<"g2", "a">>, <<>>, {}, "none"),
     Body(<<"g2">>, <<Add("a", FALSE)>>, {}, "other")}

UnflaggedStart == Body(<<"g1">>, <<Add("a", FALSE)>>, {}, "none")
LineageEnd == Body(<<"z">>, <<>>, {}, "none")

BlockOf(h, parent, rewards, body) ==
    [height |-> h, parent_hash |-> parent, block_hash |-> HashOf(h),
     timestamp |-> 10 + h, coinbase_coins |-> rewards,
     additions |-> body.additions, removals |-> body.removals,
     hints |-> body.hints, expected_state_root |-> body.root]

\* Malformed in one respect each: too few rewards, a repeated reward, a reward
\* of the other height, a repeated addition.
BadBlocks ==
    {BlockOf(1, "B0", <<"r1">>, Body(<<>>, <<>>, {}, "none")),
     BlockOf(1, "B0", <<"r1", "r1">>, Body(<<>>, <<>>, {}, "none")),
     BlockOf(2, "B1", <<"r1", "s2">>, Body(<<>>, <<>>, {}, "none")),
     BlockOf(1, "B0", <<"r1", "s1">>,
             Body(<<"g1">>, <<Add("a", TRUE), Add("a", FALSE)>>, {}, "none"))}

GoodBlocks ==
    {BlockOf(1, "B0", Rewards(1), body) : body \in GoodBodies \cup {UnflaggedStart}}
        \cup {BlockOf(2, parent, Rewards(2), body) :
                 parent \in {"B0", "B1"}, body \in GoodBodies}
        \cup {BlockOf(3, parent, Rewards(3), body) :
                 parent \in {"B0", "B2"}, body \in GoodBodies \cup {LineageEnd}}

MCBlocks == GoodBlocks \cup BadBlocks
ASSUME CallersAssumption == HonestBlocks /\ HintsOnCreated /\ DistinctRemovals

MCTargets == -1 .. 4
\* With I64Limit = 8 the last two are 2^63 + 1 and 2^64 - 1.
MCCounts == {0, 1, 9, 15}

=============================================================================
