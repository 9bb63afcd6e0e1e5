--------------------------- MODULE MCCoinStoreReorg ---------------------------
(* Two competing branches over one genesis coin: g -> a -> z, with the flag *)
(* same_as_parent announced or not, heights 0 to 3, every rollback target.  *)
EXTENDS CoinStoreReorg, TLC

MCCoin == {"g", "a", "z", "r1", "s1", "r2", "s2", "r3", "s3"}
MCParentOf ==
    [c \in MCCoin |-> CASE c = "a" -> "g" [] c = "z" -> "a" [] OTHER -> None]
MCPuzzleOf == [c \in MCCoin |-> IF c \in {"g", "a"} THEN 1 ELSE 2]
MCHint == {"x", "zero"}
MCBlockHash == {"B0", "B1", "C1", "B2", "B3"}
MCGeneses == {[coins |-> {"g"}, coinbase |-> {}, timestamp |-> 1]}

Add(c, same) == [coin_id |-> c, coin |-> c, same_as_parent |-> same]

Body(removals, additions, hs) ==
    [removals |-> removals, additions |-> additions, hints |-> hs]

Bodies ==
    {Body(<<>>, <<>>, {}),
     Body(<<"g">>, <<Add("a", TRUE)>>, {<<"a", "x">>}),
     Body(<<"g">>, <<Add("a", FALSE)>>, {}),
     Body(<<"a">>, <<Add("z", FALSE)>>, {<<"z", "x">>}),
     Body(<<"z">>, <<>>, {})}

BlockOf(h, parent, hash, rewards, body) ==
    [height |-> h, parent_hash |-> parent, block_hash |-> hash,
     timestamp |-> 10 + h, coinbase_coins |-> rewards,
     additions |-> body.additions, removals |-> body.removals,
     hints |-> body.hints, expected_state_root |-> "none"]

\* After a rollback the store asks for the zero parent hash at any height.
MCBlocks ==
    {BlockOf(1, "B0", hash, <<"r1", "s1">>, body) :
        hash \in {"B1", "C1"}, body \in Bodies}
        \cup {BlockOf(2, parent, "B2", <<"r2", "s2">>, body) :
                 parent \in {"B0", "B1", "C1"}, body \in Bodies}
        \cup {BlockOf(3, parent, "B3", <<"r3", "s3">>, body) :
                 parent \in {"B0", "B2"}, body \in Bodies}

MCTargets == -1 .. 2
MCCounts == {1}

=============================================================================
