------------------------------ MODULE ByteKeys -------------------------------
(* Keys as sequences of bytes, in the order in which both storage engines  *)
(* keep them and return them from a scan.                                  *)
EXTENDS Naturals, FiniteSets, SequencesExt

StartsWith(key, prefix) == IsPrefix(prefix, key)

LexLess(s, t) ==
    \/ IsStrictPrefix(s, t)
    \/ \E i \in DOMAIN s \cap DOMAIN t :
           s[i] < t[i] /\ SubSeq(s, 1, i - 1) = SubSeq(t, 1, i - 1)

InKeyOrder(keys) ==
    [i \in 1 .. Cardinality(keys) |->
        CHOOSE key \in keys : Cardinality({k \in keys : LexLess(k, key)}) = i - 1]

=============================================================================
