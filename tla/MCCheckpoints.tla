---------------------------- MODULE MCCheckpoints ----------------------------
(* One genesis coin, a fast-forward child, a reward pair, heights 0 and 1. *)
EXTENDS Checkpoints, TLC

MCCoin == {"g", "a", "r", "s"}
MCParentOf == [c \in MCCoin |-> IF c = "a" THEN "g" ELSE None]
MCPuzzleOf == [c \in MCCoin |-> 1]
MCHint == {"x", "zero"}
MCBlockHash == {"B0", "B1"}
MCGeneses == {[coins |-> {"g"}, coinbase |-> {}, timestamp |-> 1]}

BlockOf(removals, additions, hs) ==
    [height |-> 1, parent_hash |-> "B0", block_hash |-> "B1", timestamp |-> 11,
     coinbase_coins |-> <<"r", "s">>, additions |-> additions,
     removals |-> removals, hints |-> hs, expected_state_root |-> "none"]

MCBlocks ==
    {BlockOf(<<"g">>, <<[coin_id |-> "a", coin |-> "a", same_as_parent |-> TRUE]>>,
             {<<"a", "x">>})}
MCTargets == {0}

=============================================================================
