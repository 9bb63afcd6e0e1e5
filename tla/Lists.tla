-------------------------------- MODULE Lists --------------------------------
(* The loops of the queries over a list or a set.                          *)
EXTENDS Naturals, SequencesExt

\* The items of a list that lie in S, in their order.
Keep(list, S) ==
    LET kept[n \in 0 .. Len(list)] ==
            IF n = 0 THEN <<>>
            ELSE LET item == list[n]
                 IN  IF item \in S THEN Append(kept[n - 1], item) ELSE kept[n - 1]
    IN  kept[Len(list)]

\* The first max_items different items of a list.
Fresh(list, max_items) ==
    LET kept[n \in 0 .. Len(list)] ==
            IF n = 0 THEN <<>>
            ELSE LET found == kept[n - 1]
                     item == list[n]
                 IN  IF Len(found) >= max_items \/ item \in ToSet(found) THEN found
                     ELSE Append(found, item)
    IN  kept[Len(list)]

\* The sum of f[x] over a set.
SumOver(f, S) == MapThenSumSet(LAMBDA x : f[x], S)

=============================================================================
