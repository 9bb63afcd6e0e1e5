------------------------------ MODULE MCPaging ------------------------------
(* A lineage g -> a -> b under puzzle hash 1, a genesis coin h under 2, a  *)
(* reward pair per height of which one coin lies under 2, heights 0 to 2.  *)
(* Puzzle hashes and hints are the same kind of value: reward r1 is hinted *)
(* to 1.                                                                   *)
EXTENDS Paging

MCCoin == {"g", "h", "a", "b", "r1", "s1", "r2", "s2"}
MCParentOf ==
    [c \in MCCoin |-> CASE c = "a" -> "g" [] c = "b" -> "a" [] OTHER -> None]
MCPuzzleOf ==
    [c \in MCCoin |-> CASE c \in {"g", "a", "b"} -> 1
                        [] c \in {"h", "s1", "s2"} -> 2
                        [] OTHER -> 3]
MCIdOrder == <<"a", "s1", "g", "b", "r1", "h", "s2", "r2">>
\* Stats saturates after the first block and the balance of puzzle hash 3
\* wraps after the second.
MCAmountOf ==
    [c \in MCCoin |-> CASE c \in {"s1", "s2"} -> 1
                        [] c \in {"r1", "r2"} -> 9
                        [] OTHER -> 5]
MCHint == 0 .. 1
MCBlockHash == {"B0", "B1", "B2"}
MCGeneses == {[coins |-> {"g", "h"}, coinbase |-> {}, timestamp |-> 1]}

Spend(c, child) ==
    [removals |-> <<c>>,
     additions |-> <<[coin_id |-> child, coin |-> child, same_as_parent |-> TRUE]>>]
Drop(c) == [removals |-> <<c>>, additions |-> <<>>]
Nothing == [removals |-> <<>>, additions |-> <<>>]

BlockOf(ht, parent, hash, rewards, hs, body) ==
    [height |-> ht, parent_hash |-> parent, block_hash |-> hash,
     timestamp |-> 10 + ht, coinbase_coins |-> rewards,
     additions |-> body.additions, removals |-> body.removals,
     hints |-> hs, expected_state_root |-> "none"]

MCBlocks ==
    {BlockOf(1, "B0", "B1", <<"r1", "s1">>, {<<"r1", 1>>}, body) :
         body \in {Spend("g", "a"), Nothing}}
    \cup {BlockOf(2, parent, "B2", <<"r2", "s2">>, {}, body) :
         parent \in {"B0", "B1"}, body \in {Spend("a", "b"), Spend("g", "a"), Drop("h")}}
MCTargets == 0 .. 1

RequestOf(phs, spent, hinted, amount, max) ==
    [puzzle_hashes |-> phs, include_spent |-> spent, include_unspent |-> TRUE,
     include_hinted |-> hinted, min_amount |-> amount, max_items |-> max]

\* Pages that some blocks overflow, that every block fits, with and without
\* spent, hinted and small coins; and a list of hashes that is too long.
MCRequests ==
    {RequestOf(<<1, 2>>, spent, TRUE, 0, max) : spent \in BOOLEAN, max \in 1 .. 3}
    \cup {RequestOf(<<1, 2>>, spent, FALSE, 0, 2) : spent \in BOOLEAN}
    \cup {RequestOf(<<1, 2>>, FALSE, TRUE, 2, 2), RequestOf(<<1, 2, 1>>, TRUE, TRUE, 0, 2)}

ASSUME HonestBlocks /\ HeightsFit /\ BlocksSpendParents

=============================================================================
