-------------------------- MODULE MCCoinStoreFaults --------------------------
(* One genesis coin, heights 0 to 2.                                      *)
EXTENDS CoinStore, TLC

MCCoin == {"g", "a", "r1", "s1", "r2", "s2"}
MCParentOf == [c \in MCCoin |-> IF c = "a" THEN "g" ELSE None]
MCPuzzleOf == [c \in MCCoin |-> 1]
MCHint == {"zero"}
MCBlockHash == {"B0", "B1", "B2"}
MCGeneses == {[coins |-> {"g"}, coinbase |-> {}, timestamp |-> 1]}

BlockOf(h, removals, additions) ==
    [height |-> h, parent_hash |-> <<"B0", "B1">>[h],
     block_hash |-> <<"B1", "B2">>[h], timestamp |-> 10 + h,
     coinbase_coins |-> << <<"r1", "s1">>, <<"r2", "s2">> >>[h],
     additions |-> additions, removals |-> removals, hints |-> {},
     expected_state_root |-> "none"]

Add(c) == [coin_id |-> c, coin |-> c, same_as_parent |-> FALSE]

PlainBlocks ==
    {BlockOf(h, <<>>, <<>>) : h \in {1, 2}}
        \cup {BlockOf(h, <<"g">>, <<Add("a")>>) : h \in {1, 2}}

NegativeTargets == {-1}

=============================================================================
