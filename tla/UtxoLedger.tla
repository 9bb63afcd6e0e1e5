------------------------------ MODULE UtxoLedger ------------------------------
(***************************************************************************)
(* What dig-coinstore promises to its caller: a ledger that remembers, for *)
(* every height of the current chain, which coins were unspent after that  *)
(* block.  A block may spend only coins that are unspent at the tip and    *)
(* may create only coins the chain has never held; a rollback forgets the  *)
(* heights above its target and changes nothing at or below it.            *)
(***************************************************************************)
EXTENDS Naturals

CONSTANT Coin

VARIABLES
    started,  \* the genesis has been committed
    tip,      \* height of the chain
    utxo      \* height -> the coins unspent after the block of that height

vars == <<started, tip, utxo>>

EverHeld == UNION {utxo[h] : h \in 0 .. tip}

Init ==
    /\ started = FALSE
    /\ tip = 0
    /\ utxo = [h \in 0 .. 0 |-> {}]

Start ==
    /\ ~started
    /\ started' = TRUE
    /\ tip' = 0
    /\ utxo' \in [0 .. 0 -> SUBSET Coin]

\* What leaves the set was unspent; what enters it is new to the chain.
Extend ==
    /\ started
    /\ tip' = tip + 1
    /\ utxo' \in [0 .. tip + 1 -> SUBSET Coin]
    /\ \A h \in 0 .. tip : utxo'[h] = utxo[h]
    /\ (utxo'[tip + 1] \ utxo[tip]) \cap EverHeld = {}
    /\ started' = started

Rewind ==
    /\ started
    /\ tip' \in 0 .. tip
    /\ utxo' = [h \in 0 .. tip' |-> utxo[h]]
    /\ started' = started

Next == Start \/ Extend \/ Rewind

Spec == Init /\ [][Next]_vars

=============================================================================
