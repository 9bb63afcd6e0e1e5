------------------------------ MODULE HintStore ------------------------------
(***************************************************************************)
(* The hint indices of dig-coinstore under the callers that share them     *)
(* (src/src/hints.rs).                                                     *)
(*                                                                         *)
(* add_hint and remove_hints_for_coins take `&self`: threads that hold a   *)
(* read lock run them side by side, and each is a sequence of single       *)
(* storage operations with no batch around it.  apply_block and            *)
(* rollback_to_block take `&mut self`, so they run alone and write the two *)
(* indices in one batch.  The process may stop between any two operations. *)
(***************************************************************************)
EXTENDS Naturals, Sequences, FiniteSets

CONSTANTS
    CoinId,         \* coin ids
    Hint,           \* hints of 1 to 32 bytes
    EmptyHint,      \* the hint of 0 bytes
    LongHint,       \* a hint of more than 32 bytes
    Adders,         \* threads that call add_hint
    Removers,       \* threads that call remove_hints_for_coins
    RemoveArgs,     \* coin lists remove_hints_for_coins may receive
    StorageFaults,  \* whether a storage operation may return an error
    Crashes         \* whether the process may stop

Client == Adders \cup Removers
Pair == CoinId \X Hint

ASSUME HintAssumption ==
    /\ EmptyHint \notin Hint
    /\ LongHint \notin Hint
    /\ EmptyHint # LongHint
    /\ RemoveArgs \subseteq Seq(CoinId)
    /\ StorageFaults \in BOOLEAN
    /\ Crashes \in BOOLEAN

VARIABLES
    hints,           \* forward index, set of <<coin, hint>>
    hints_by_value,  \* reverse index, set of <<hint, coin>>
    call,            \* client -> the call it is executing, or Idle
    answer           \* client -> what its last call returned

vars == <<hints, hints_by_value, call, answer>>

ReverseKey(pair) == <<pair[2], pair[1]>>
Reverses(P) == {ReverseKey(pair) : pair \in P}
PairsOf(c) == {pair \in hints : pair[1] = c}

Idle == [op |-> "idle"]

\* add_hint is about to read, to write the forward or the reverse key.
Adding(pair, at) == [op |-> "add", at |-> at, pair |-> pair]

\* remove_hints_for_coins has dealt with `done` of the coins of its argument;
\* `found` is what remains of the scan of the next one, `pair` the entry whose
\* reverse key is gone.
Scanning(coin_ids, done, n) ==
    [op |-> "remove", at |-> "scan", coin_ids |-> coin_ids, done |-> done,
     found |-> {}, removed |-> n]
Deleting(coin_ids, done, found, n) ==
    [op |-> "remove", at |-> "reverse", coin_ids |-> coin_ids, done |-> done,
     found |-> found, removed |-> n]
Dropping(coin_ids, done, found, pair, n) ==
    [op |-> "remove", at |-> "forward", coin_ids |-> coin_ids, done |-> done,
     found |-> found, pair |-> pair, removed |-> n]

\* n is the number of pairs removed.
NoAnswer == [op |-> "none", outcome |-> "none", n |-> 0]
Answer(op, outcome, n) == [op |-> op, outcome |-> outcome, n |-> n]

Init ==
    /\ hints = {}
    /\ hints_by_value = {}
    /\ call = [p \in Client |-> Idle]
    /\ answer = [p \in Client |-> NoAnswer]

Continue(p, next) ==
    /\ call' = [call EXCEPT ![p] = next]
    /\ UNCHANGED answer

Return(p, result) ==
    /\ call' = [call EXCEPT ![p] = Idle]
    /\ answer' = [answer EXCEPT ![p] = result]

At(p, op, at) == call[p].op = op /\ call[p].at = at

-----------------------------------------------------------------------------
(* add_hint.                                                               *)

\* Fault: an empty hint is stored like any other.
AddHint_KeepsEmpty(p, c, h) ==
    /\ call[p] = Idle
    /\ IF h = LongHint THEN Return(p, Answer("add", "HintTooLong", 0))
       ELSE Continue(p, Adding(<<c, h>>, "check"))
    /\ UNCHANGED <<hints, hints_by_value>>

\* validate_hint
AddHint(p, c, h) ==
    /\ call[p] = Idle
    /\ IF h = EmptyHint THEN Return(p, Answer("add", "Ok", 0))
       ELSE IF h = LongHint THEN Return(p, Answer("add", "HintTooLong", 0))
       ELSE Continue(p, Adding(<<c, h>>, "check"))
    /\ UNCHANGED <<hints, hints_by_value>>

\* The idempotency check reads the forward index only.
AddHintCheck(p) ==
    /\ At(p, "add", "check")
    /\ IF call[p].pair \in hints
       THEN Return(p, Answer("add", "Ok", 0))
       ELSE Continue(p, Adding(call[p].pair, "forward"))
    /\ UNCHANGED <<hints, hints_by_value>>

AddHintPutForward(p) ==
    /\ At(p, "add", "forward")
    /\ hints' = hints \cup {call[p].pair}
    /\ Continue(p, Adding(call[p].pair, "reverse"))
    /\ UNCHANGED hints_by_value

AddHintPutReverse(p) ==
    /\ At(p, "add", "reverse")
    /\ hints_by_value' = hints_by_value \cup {ReverseKey(call[p].pair)}
    /\ Return(p, Answer("add", "Ok", 0))
    /\ UNCHANGED hints

-----------------------------------------------------------------------------
(* remove_hints_for_coins.                                                 *)

RemoveHints(p, coin_ids) ==
    /\ call[p] = Idle
    /\ Continue(p, Scanning(coin_ids, 0, 0))
    /\ UNCHANGED <<hints, hints_by_value>>

\* The loop over the coins, and the scan of the next one.
RemoveHintsScan(p) ==
    /\ At(p, "remove", "scan")
    /\ LET r == call[p]
           found == PairsOf(r.coin_ids[r.done + 1])
       IN  IF r.done = Len(r.coin_ids)
           THEN Return(p, Answer("remove", "Ok", r.removed))
           ELSE IF found = {}
           THEN Continue(p, Scanning(r.coin_ids, r.done + 1, r.removed))
           ELSE Continue(p, Deleting(r.coin_ids, r.done, found, r.removed))
    /\ UNCHANGED <<hints, hints_by_value>>

\* Fault: the reverse key stays.
RemoveHintsDeleteReverse_Kept(p) ==
    /\ At(p, "remove", "reverse")
    /\ \E pair \in call[p].found :
           Continue(p, Dropping(call[p].coin_ids, call[p].done,
                                call[p].found \ {pair}, pair,
                                call[p].removed))
    /\ UNCHANGED <<hints, hints_by_value>>

RemoveHintsDeleteReverse(p) ==
    /\ At(p, "remove", "reverse")
    /\ \E pair \in call[p].found :
           /\ hints_by_value' = hints_by_value \ {ReverseKey(pair)}
           /\ Continue(p, Dropping(call[p].coin_ids, call[p].done,
                                   call[p].found \ {pair}, pair,
                                   call[p].removed))
    /\ UNCHANGED hints

\* Fault: the loop over the hints of a coin ends after the first.
RemoveHintsDeleteForward_First(p) ==
    /\ At(p, "remove", "forward")
    /\ hints' = hints \ {call[p].pair}
    /\ LET r == call[p]
       IN  Continue(p, Scanning(r.coin_ids, r.done + 1, r.removed + 1))
    /\ UNCHANGED hints_by_value

RemoveHintsDeleteForward(p) ==
    /\ At(p, "remove", "forward")
    /\ hints' = hints \ {call[p].pair}
    /\ LET r == call[p]
       IN  IF r.found = {}
           THEN Continue(p, Scanning(r.coin_ids, r.done + 1, r.removed + 1))
           ELSE Continue(p, Deleting(r.coin_ids, r.done, r.found, r.removed + 1))
    /\ UNCHANGED hints_by_value

-----------------------------------------------------------------------------

\* Any storage operation of a call in progress may fail and end the call.
StorageError(p) ==
    /\ StorageFaults
    /\ call[p] # Idle
    /\ Return(p, Answer(call[p].op, "StorageError", 0))
    /\ UNCHANGED <<hints, hints_by_value>>

Quiet == \A p \in Client : call[p] = Idle

\* The process stops: calls in progress are lost, what was written stays.
Crash ==
    /\ Crashes
    /\ ~Quiet
    /\ call' = [p \in Client |-> Idle]
    /\ answer' = [p \in Client |-> NoAnswer]
    /\ UNCHANGED <<hints, hints_by_value>>

\* apply_block (BLK-012) writes both keys of a hint in its batch.
ApplyBlockHint(pair) ==
    /\ Quiet
    /\ hints' = hints \cup {pair}
    /\ hints_by_value' = hints_by_value \cup {ReverseKey(pair)}
    /\ UNCHANGED <<call, answer>>

\* rollback_to_block (HNT-005) scans the forward index of a deleted coin.
RollbackHints(c) ==
    /\ Quiet
    /\ hints' = hints \ PairsOf(c)
    /\ hints_by_value' = hints_by_value \ Reverses(PairsOf(c))
    /\ UNCHANGED <<call, answer>>

AddStep(p) ==
    \/ \E c \in CoinId, h \in Hint \cup {EmptyHint, LongHint} : AddHint(p, c, h)
    \/ AddHintCheck(p)
    \/ AddHintPutForward(p)
    \/ AddHintPutReverse(p)

RemoveStep(p) ==
    \/ \E coin_ids \in RemoveArgs : RemoveHints(p, coin_ids)
    \/ RemoveHintsScan(p)
    \/ RemoveHintsDeleteReverse(p)
    \/ RemoveHintsDeleteForward(p)

Next ==
    \/ \E p \in Adders : AddStep(p)
    \/ \E p \in Removers : RemoveStep(p)
    \/ \E p \in Client : StorageError(p)
    \/ Crash
    \/ \E pair \in Pair : ApplyBlockHint(pair)
    \/ \E c \in CoinId : RollbackHints(c)

Spec == Init /\ [][Next]_vars

-----------------------------------------------------------------------------
(* Properties.                                                             *)

CallState ==
    {Idle}
        \cup [op : {"add"}, at : {"check", "forward", "reverse"}, pair : Pair]
        \cup [op : {"remove"}, at : {"scan", "reverse"}, coin_ids : Seq(CoinId),
              done : Nat, found : SUBSET Pair, removed : Nat]
        \cup [op : {"remove"}, at : {"forward"}, coin_ids : Seq(CoinId),
              done : Nat, found : SUBSET Pair, pair : Pair, removed : Nat]

\* The forward index holds pairs and the reverse index reversed pairs of coins
\* and storable hints; every call in progress works on such pairs.
TypeOK ==
    /\ hints \subseteq Pair
    /\ hints_by_value \subseteq Hint \X CoinId
    /\ call \in [Client -> CallState]
    /\ answer \in [Client ->
                      [op : {"none", "add", "remove"},
                       outcome : {"none", "Ok", "HintTooLong", "StorageError"},
                       n : Nat]]

\* No two threads change the indices in opposite directions.
OneDirection ==
    \/ Adders = {}
    \/ Removers = {}
    \/ \A p, q \in Client : p = q

\* A call that returns Ok in this step.
Returns(p, op) ==
    call[p].op = op /\ call'[p] = Idle /\ answer'[p].outcome = "Ok"

\* Under OneDirection every reverse key has its forward key, whatever stops half
\* way: what an interrupted add_hint or remove_hints_for_coins leaves behind is
\* a forward key, which a rollback and a removal of the coin still find.
ReverseHasForward == hints_by_value \subseteq Reverses(hints)

\* When remove_hints_for_coins returns Ok, no key of its coins is left in
\* either index, also where an earlier call had left a forward key alone.
RemovalIsComplete ==
    [][\A p \in Removers : Returns(p, "remove") =>
           \A i \in DOMAIN call[p].coin_ids :
               /\ \A pair \in hints' : pair[1] # call[p].coin_ids[i]
               /\ \A key \in hints_by_value' : key[2] # call[p].coin_ids[i]]_vars

\* HNT-003: no entry in one index without its counterpart in the other, at
\* least while no call is running.
IndexesInSync == Quiet => hints_by_value = Reverses(hints)

=============================================================================
