---------------------------- MODULE MCMerkleTree -----------------------------
(* Three of the eight keys of a tree of height 3: two that part at the     *)
(* second level, and one in the other half.                                *)
EXTENDS MerkleTree

CONSTANTS v1, v2

A == <<0, 0, 0>>
B == <<0, 1, 0>>
C == <<1, 0, 0>>
E(k, v) == [key |-> k, value |-> v]

MCLeafHash == {v1, v2}

\* Among them no entry, two entries, and one key twice.
MCEntryLists ==
    {<<>>, <<E(A, v1)>>, <<E(B, v1)>>, <<E(C, v1)>>,
     <<E(A, v1), E(A, v2)>>, <<E(B, v1), E(C, v1)>>}
MCKeyLists == {<<>>, <<A>>, <<B>>, <<C>>, <<A, B>>, <<C, C>>}

=============================================================================
