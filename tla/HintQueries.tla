----------------------------- MODULE HintQueries -----------------------------
(***************************************************************************)
(* The queries over the hint indices (src/src/hints.rs), beside the calls  *)
(* that change them.                                                       *)
(*                                                                         *)
(* Here a coin id is a sequence of Width bytes (32 in the code) and a hint *)
(* one of 1 to Width bytes, because the queries work on the keys: a scan   *)
(* of the reverse index by a hint also meets keys of other hints whose     *)
(* bytes, continued by a coin id, begin the same way.                      *)
(***************************************************************************)
EXTENDS HintStore, ByteKeys, Lists

CONSTANT Width      \* bytes of a coin id and of the longest hint

ASSUME WidthAssumption ==
    /\ Width \in Nat \ {0}
    /\ IsFiniteSet(CoinId) /\ IsFiniteSet(Hint)
    /\ \A c \in CoinId : c \in Seq(Nat) /\ Len(c) = Width
    /\ \A h \in Hint : h \in Seq(Nat) /\ Len(h) \in 1 .. Width

\* A pair <<coin, hint>> or <<hint, coin>> as the key it is stored under.
KeyOf(pair) == pair[1] \o pair[2]

\* The keys are pushed onto an empty list.
prefix_scan(index, prefix) ==
    <<>> \o InKeyOrder({key \in {KeyOf(pair) : pair \in index} : StartsWith(key, prefix)})

\* The loops stop once max_items results are there.
Take(s, max_items) ==
    SubSeq(s, 1, IF Len(s) < max_items THEN Len(s) ELSE max_items)

\* What a Bytes32 can hold: two of the queries cannot ask for a shorter hint.
FullHints == {h \in Hint : Len(h) = Width}

\* The keys of full length, without their first half.
SecondHalves(keys) ==
    LET full == Keep(keys, {key \in Seq(Nat) : Len(key) >= 2 * Width})
    IN  [i \in DOMAIN full |-> SubSeq(full[i], Width + 1, 2 * Width)]

get_coin_ids_by_hint(hint, max_items) ==
    Take(SecondHalves(prefix_scan(hints_by_value, hint)), max_items)

\* Fault: the limit is applied before coins found twice are dropped.
get_coin_ids_by_hints_LimitFirst(hint_list, max_items) ==
    LET found == [i \in DOMAIN hint_list |->
                     get_coin_ids_by_hint(hint_list[i], max_items)]
        first == Take(FlattenSeq(found), max_items)
    IN  Fresh(first, Len(first))

\* Each hint is asked for max_items coins; coins seen before are not repeated.
get_coin_ids_by_hints(hint_list, max_items) ==
    LET found == [i \in DOMAIN hint_list |->
                     get_coin_ids_by_hint(hint_list[i], max_items)]
    IN  Fresh(FlattenSeq(found), max_items)

\* Fault: a shorter hint is returned too, filled up with zero bytes.
get_hints_for_coin_ids_Padded(coin_ids) ==
    LET Zeros == [i \in 1 .. Width |-> 0]
        Of(c) == LET keys == prefix_scan(hints, c)
                 IN  [i \in DOMAIN keys |->
                         SubSeq(SubSeq(keys[i], Width + 1, Len(keys[i])) \o Zeros,
                                1, Width)]
    IN  [c \in {c \in coin_ids : Of(c) # <<>>} |-> Of(c)]

\* Coins without a hint of full length are left out of the answer.
get_hints_for_coin_ids(coin_ids) ==
    LET Of(c) == SecondHalves(prefix_scan(hints, c))
    IN  [c \in {c \in coin_ids : Of(c) # <<>>} |-> Of(c)]

count_hints == Cardinality({KeyOf(pair) : pair \in hints})

\* Fault: longer keys pass too, as in get_coin_ids_by_hint.
get_coin_ids_by_hint_bytes_AtLeast(hint, max_items) ==
    LET n == Len(hint)
        keys == prefix_scan(hints_by_value, hint)
        long == Keep(keys, {key \in Seq(Nat) : Len(key) >= n + Width})
    IN  Take([i \in DOMAIN long |-> SubSeq(long[i], n + 1, n + Width)], max_items)

get_coin_ids_by_hint_bytes(hint, max_items) ==
    LET n == Len(hint)
        keys == prefix_scan(hints_by_value, hint)
        exact == Keep(keys, {key \in Seq(Nat) : Len(key) = n + Width})
    IN  Take([i \in DOMAIN exact |-> SubSeq(exact[i], n + 1, n + Width)], max_items)

-----------------------------------------------------------------------------
(* Properties.                                                             *)

CoinsHinted(h) == {c \in CoinId : <<h, c>> \in hints_by_value}
Limits == 0 .. Cardinality(CoinId)
Smaller(m, n) == IF m < n THEN m ELSE n

\* A query by the bytes of a hint finds the coins stored under exactly that
\* hint, as many as allowed and each once, although its scan also meets keys of
\* longer and shorter hints; for a hint of 32 bytes the two queries agree.
HintQueryIsExact ==
    \A h \in Hint, m \in Limits :
        LET found == get_coin_ids_by_hint_bytes(h, m)
        IN  /\ ToSet(found) \subseteq CoinsHinted(h)
            /\ IsInjective(found)
            /\ Len(found) = Smaller(m, Cardinality(CoinsHinted(h)))
            /\ h \in FullHints => get_coin_ids_by_hint(h, m) = found

\* The query over several hints returns distinct coins, and fewer than
\* max_items only if there are no more, though each hint is cut off first and
\* coins found again do not count.
BatchQueryFillsItsLimit ==
    \A h1, h2 \in FullHints, m \in Limits :
        LET found == get_coin_ids_by_hints(<<h1, h2>>, m)
            all == CoinsHinted(h1) \cup CoinsHinted(h2)
        IN  /\ ToSet(found) \subseteq all
            /\ IsInjective(found)
            /\ Len(found) = Smaller(m, Cardinality(all))

\* While the two indices are in step, a coin and a hint of 32 bytes find each
\* other in both directions, also beside shorter hints of the same coin and
\* beside hints that begin with one another; and every stored pair counts, the
\* short hints included.
QueriesByCoinAndHintAgree ==
    hints_by_value = Reverses(hints) =>
        LET by_coin == get_hints_for_coin_ids(CoinId)
        IN  /\ \A c \in CoinId, h \in FullHints :
                   (c \in DOMAIN by_coin /\ h \in ToSet(by_coin[c])) <=>
                       c \in ToSet(get_coin_ids_by_hint(h, Cardinality(CoinId)))
            /\ count_hints =
                   Cardinality({key \in Hint \X CoinId :
                       key[2] \in ToSet(get_coin_ids_by_hint_bytes(key[1],
                                                                 Cardinality(CoinId)))})


=============================================================================
