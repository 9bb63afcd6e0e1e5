----------------------------- MODULE MCHintStore -----------------------------
(* Two coins, three hints, two threads.  Coin ids have two bytes.  The     *)
(* reverse key of the hint <<0>> for either coin begins with the bytes of  *)
(* one of the longer hints.                                                *)
EXTENDS HintQueries, TLC

C1 == <<0, 0>>
C2 == <<0, 1>>
MCCoinId == {C1, C2}
MCHint == {<<0>>, <<0, 0>>, <<0, 1>>}
TwoHints == {<<0>>, <<0, 0>>}
NoBytes == <<>>
ThreeBytes == <<0, 0, 0>>
OneThread == {"p"}
OtherThread == {"q"}
MCRemoveArgs == {<<>>, <<C1>>, <<C2, C1>>, <<C1, C1>>}

=============================================================================
