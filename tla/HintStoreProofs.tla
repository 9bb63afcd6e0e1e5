--------------------------- MODULE HintStoreProofs ---------------------------
(***************************************************************************)
(* For any number of threads that change the hint indices in one           *)
(* direction, every reverse key has its forward key, and a removal that    *)
(* returns Ok has removed everything.  The queries over the indices, for   *)
(* coin ids and hints of any width.                                        *)
(***************************************************************************)
EXTENDS HintQueries, OrderProofs

\* Threads run only the calls they were given.
Roles ==
    \A p \in Client : /\ call[p].op = "add" => p \in Adders
                      /\ call[p].op = "remove" => p \in Removers

\* add_hint has written the forward key before it writes the reverse key, and
\* remove_hints_for_coins has deleted the reverse key before the forward key.
ForwardFirst ==
    \A p \in Client : At(p, "add", "reverse") => call[p].pair \in hints
ReverseGone ==
    \A p \in Client :
        At(p, "remove", "forward") => ReverseKey(call[p].pair) \notin hints_by_value

HInv == TypeOK /\ ReverseHasForward /\ Roles /\ ForwardFirst /\ ReverseGone

-----------------------------------------------------------------------------
(* The calls in progress.                                                  *)

LEMMA CallForms ==
    /\ Idle \in CallState /\ Idle.op = "idle"
    /\ \A pair \in Pair, at \in {"check", "forward", "reverse"} :
           /\ Adding(pair, at) \in CallState
           /\ Adding(pair, at).op = "add"
           /\ Adding(pair, at).at = at
           /\ Adding(pair, at).pair = pair
  BY DEF CallState, Idle, Adding

LEMMA ScanForm ==
    ASSUME NEW coin_ids \in Seq(CoinId), NEW done \in Nat, NEW n \in Nat
    PROVE  /\ Scanning(coin_ids, done, n) \in CallState
           /\ Scanning(coin_ids, done, n).op = "remove"
           /\ Scanning(coin_ids, done, n).at = "scan"
           /\ Scanning(coin_ids, done, n).coin_ids = coin_ids
           /\ Scanning(coin_ids, done, n).done = done
  BY DEF CallState, Scanning

LEMMA DeleteForm ==
    ASSUME NEW coin_ids \in Seq(CoinId), NEW done \in Nat, NEW n \in Nat,
           NEW found \in SUBSET Pair
    PROVE  /\ Deleting(coin_ids, done, found, n) \in CallState
           /\ Deleting(coin_ids, done, found, n).op = "remove"
           /\ Deleting(coin_ids, done, found, n).at = "reverse"
           /\ Deleting(coin_ids, done, found, n).coin_ids = coin_ids
           /\ Deleting(coin_ids, done, found, n).done = done
           /\ Deleting(coin_ids, done, found, n).found = found
  BY DEF CallState, Deleting

LEMMA DropForm ==
    ASSUME NEW coin_ids \in Seq(CoinId), NEW done \in Nat, NEW n \in Nat,
           NEW found \in SUBSET Pair, NEW pair \in Pair
    PROVE  /\ Dropping(coin_ids, done, found, pair, n) \in CallState
           /\ Dropping(coin_ids, done, found, pair, n).op = "remove"
           /\ Dropping(coin_ids, done, found, pair, n).at = "forward"
           /\ Dropping(coin_ids, done, found, pair, n).pair = pair
           /\ Dropping(coin_ids, done, found, pair, n).coin_ids = coin_ids
           /\ Dropping(coin_ids, done, found, pair, n).done = done
           /\ Dropping(coin_ids, done, found, pair, n).found = found
  BY DEF CallState, Dropping

LEMMA AddFields ==
    ASSUME NEW r \in CallState, r.op = "add"
    PROVE  r.pair \in Pair /\ r.at \in {"check", "forward", "reverse"}
  BY DEF CallState, Idle

LEMMA RemoveFields ==
    ASSUME NEW r \in CallState, r.op = "remove"
    PROVE  /\ r.coin_ids \in Seq(CoinId) /\ r.done \in Nat
           /\ r.removed \in Nat /\ r.found \in SUBSET Pair
           /\ r.at \in {"scan", "reverse", "forward"}
           /\ r.at = "forward" => r.pair \in Pair
  BY DEF CallState, Idle

LEMMA ReverseType ==
    ASSUME NEW a \in Pair
    PROVE  ReverseKey(a) \in Hint \X CoinId
  BY DEF ReverseKey, Pair

AnswerType == [op : {"none", "add", "remove"},
               outcome : {"none", "Ok", "HintTooLong", "StorageError"}, n : Nat]

LEMMA AnswerForms ==
    /\ NoAnswer \in AnswerType
    /\ \A n \in Nat, op \in {"add", "remove"},
          outcome \in {"Ok", "HintTooLong", "StorageError"} :
              Answer(op, outcome, n) \in AnswerType
  BY DEF NoAnswer, Answer, AnswerType

LEMMA Ended ==
    ASSUME TypeOK, NEW p \in Client, NEW result \in AnswerType, Return(p, result)
    PROVE  /\ call' \in [Client -> CallState]
           /\ answer' \in [Client -> AnswerType]
           /\ call'[p] = Idle
           /\ \A q \in Client : q # p => call'[q] = call[q]
  BY CallForms DEF TypeOK, Return, AnswerType

LEMMA Continued ==
    ASSUME TypeOK, NEW p \in Client, NEW next \in CallState, Continue(p, next)
    PROVE  /\ call' \in [Client -> CallState]
           /\ answer' \in [Client -> AnswerType]
           /\ call'[p] = next
           /\ \A q \in Client : q # p => call'[q] = call[q]
  BY DEF TypeOK, Continue, AnswerType

-----------------------------------------------------------------------------
(* Types.                                                                  *)

LEMMA ClientStepType ==
    ASSUME TypeOK, NEW p \in Client,
           \/ \E next \in CallState : Continue(p, next)
           \/ \E result \in AnswerType : Return(p, result),
           hints' \subseteq Pair, hints_by_value' \subseteq Hint \X CoinId
    PROVE  TypeOK'
<1>1. call' \in [Client -> CallState] /\ answer' \in [Client -> AnswerType]
  BY Ended, Continued
<1>. QED
  BY <1>1 DEF TypeOK, AnswerType

LEMMA AddType ==
    ASSUME TypeOK, NEW p \in Adders, AddStep(p)
    PROVE  TypeOK'
<1>1. /\ p \in Client /\ call[p] \in CallState
      /\ hints \subseteq Pair /\ hints_by_value \subseteq Hint \X CoinId
  BY DEF Client, TypeOK
<1>2. \A n \in Nat, outcome \in {"Ok", "HintTooLong"} :
          Answer("add", outcome, n) \in AnswerType
  BY AnswerForms
<1>3. ASSUME NEW c \in CoinId, NEW h \in Hint \cup {EmptyHint, LongHint},
             AddHint(p, c, h)
      PROVE  TypeOK'
  <2>1. CASE h \in {EmptyHint, LongHint}
    <3>1. \E result \in AnswerType : Return(p, result)
      BY <1>2, <1>3, <2>1 DEF AddHint
    <3>. QED
      BY <1>1, <1>3, <3>1, ClientStepType DEF AddHint
  <2>2. CASE h \notin {EmptyHint, LongHint}
    <3>1. <<c, h>> \in Pair
      BY <2>2 DEF Pair
    <3>2. Continue(p, Adding(<<c, h>>, "check"))
      BY <1>3, <2>2 DEF AddHint
    <3>. QED
      BY <1>1, <1>3, <3>1, <3>2, CallForms, ClientStepType DEF AddHint
  <2>. QED
    BY <2>1, <2>2
<1>4. ASSUME call[p].op = "add"
      PROVE  /\ call[p].pair \in Pair /\ ReverseKey(call[p].pair) \in Hint \X CoinId
             /\ \A at \in {"forward", "reverse"} :
                    Adding(call[p].pair, at) \in CallState
  BY <1>1, <1>4, AddFields, ReverseType, CallForms
<1>5. CASE AddHintCheck(p)
  <2>1. \/ \E next \in CallState : Continue(p, next)
        \/ \E result \in AnswerType : Return(p, result)
    BY <1>2, <1>4, <1>5 DEF AddHintCheck, At
  <2>. QED
    BY <1>1, <1>5, <2>1, ClientStepType DEF AddHintCheck
<1>6. CASE AddHintPutForward(p)
  <2>1. call[p].op = "add" /\ Continue(p, Adding(call[p].pair, "reverse"))
    BY <1>6 DEF AddHintPutForward, At
  <2>2. hints' \subseteq Pair /\ hints_by_value' \subseteq Hint \X CoinId
    BY <1>1, <1>4, <1>6, <2>1 DEF AddHintPutForward
  <2>. QED
    BY <1>1, <1>4, <2>1, <2>2, ClientStepType
<1>7. CASE AddHintPutReverse(p)
  <2>1. call[p].op = "add" /\ \E result \in AnswerType : Return(p, result)
    BY <1>2, <1>7 DEF AddHintPutReverse, At
  <2>2. hints' \subseteq Pair /\ hints_by_value' \subseteq Hint \X CoinId
    BY <1>1, <1>4, <1>7, <2>1 DEF AddHintPutReverse
  <2>. QED
    BY <1>1, <2>1, <2>2, ClientStepType
<1>. QED
  BY <1>3, <1>5, <1>6, <1>7 DEF AddStep

LEMMA RemoveType ==
    ASSUME TypeOK, NEW p \in Removers, RemoveStep(p)
    PROVE  TypeOK'
<1>1. /\ p \in Client /\ call[p] \in CallState
      /\ hints \subseteq Pair /\ hints_by_value \subseteq Hint \X CoinId
  BY DEF Client, TypeOK
<1>2. hints' \subseteq Pair /\ hints_by_value' \subseteq Hint \X CoinId
  BY <1>1 DEF RemoveStep, RemoveHints, RemoveHintsScan,
              RemoveHintsDeleteReverse, RemoveHintsDeleteForward
<1>3. ASSUME NEW coin_ids \in RemoveArgs, RemoveHints(p, coin_ids)
      PROVE  \E next \in CallState : Continue(p, next)
  BY <1>3, HintAssumption, ScanForm DEF RemoveHints
<1>4. ASSUME call[p].op = "remove"
      PROVE  /\ call[p].coin_ids \in Seq(CoinId) /\ call[p].done \in Nat
             /\ call[p].removed \in Nat /\ call[p].found \in SUBSET Pair
             /\ call[p].done + 1 \in Nat /\ call[p].removed + 1 \in Nat
  <2>1. /\ call[p].coin_ids \in Seq(CoinId) /\ call[p].done \in Nat
        /\ call[p].removed \in Nat /\ call[p].found \in SUBSET Pair
    BY <1>1, <1>4, RemoveFields
  <2>. QED
    BY <2>1
<1>6. CASE RemoveHintsScan(p)
  <2>1. call[p].op = "remove"
    BY <1>6 DEF RemoveHintsScan, At
  <2>2. Answer("remove", "Ok", call[p].removed) \in AnswerType
    BY <1>4, <2>1, AnswerForms
  <2>3. Scanning(call[p].coin_ids, call[p].done + 1, call[p].removed) \in CallState
    BY <1>4, <2>1, ScanForm, Zenon
  <2>4. \A c : PairsOf(c) \in SUBSET Pair
    BY <1>1 DEF PairsOf
  <2>5. \A c : Deleting(call[p].coin_ids, call[p].done, PairsOf(c),
                        call[p].removed) \in CallState
    BY <1>4, <2>1, <2>4, DeleteForm, Zenon
  <2>6. \/ \E next \in CallState : Continue(p, next)
        \/ \E result \in AnswerType : Return(p, result)
    BY <1>6, <2>2, <2>3, <2>5, Zenon DEF RemoveHintsScan
  <2>. QED
    BY <1>1, <1>2, <2>6, ClientStepType
<1>7. CASE RemoveHintsDeleteReverse(p)
  <2>1. call[p].op = "remove"
    BY <1>7 DEF RemoveHintsDeleteReverse, At
  <2>2. PICK pair \in call[p].found :
            Continue(p, Dropping(call[p].coin_ids, call[p].done,
                                 call[p].found \ {pair}, pair, call[p].removed))
    BY <1>7 DEF RemoveHintsDeleteReverse
  <2>3. pair \in Pair /\ call[p].found \ {pair} \in SUBSET Pair
    BY <1>4, <2>1
  <2>4. Dropping(call[p].coin_ids, call[p].done, call[p].found \ {pair}, pair,
                 call[p].removed) \in CallState
    BY <1>4, <2>1, <2>3, DropForm
  <2>. QED
    BY <1>1, <1>2, <2>2, <2>4, ClientStepType
<1>8. CASE RemoveHintsDeleteForward(p)
  <2>1. call[p].op = "remove"
    BY <1>8 DEF RemoveHintsDeleteForward, At
  <2>2. /\ Scanning(call[p].coin_ids, call[p].done + 1, call[p].removed + 1) \in CallState
        /\ Deleting(call[p].coin_ids, call[p].done, call[p].found,
                    call[p].removed + 1) \in CallState
    BY <1>4, <2>1, ScanForm, DeleteForm, Zenon
  <2>3. \E next \in CallState : Continue(p, next)
    BY <1>8, <2>2, Zenon DEF RemoveHintsDeleteForward
  <2>. QED
    BY <1>1, <1>2, <2>3, ClientStepType
<1>. QED
  BY <1>1, <1>2, <1>3, <1>6, <1>7, <1>8, ClientStepType DEF RemoveStep

\* The call in progress of every thread, in particular what a removal keeps of
\* a scan while other threads change the index, is made of coins and hints that
\* can be stored, for any number of threads in both directions.
THEOREM HintTypesCorrect == Spec => []TypeOK
<1>1. Init => TypeOK
  BY CallForms, AnswerForms DEF Init, TypeOK, AnswerType
<1>2. TypeOK /\ [Next]_vars => TypeOK'
  <2>. SUFFICES ASSUME TypeOK, [Next]_vars PROVE TypeOK'
    OBVIOUS
  <2>1. CASE UNCHANGED vars
    BY <2>1 DEF vars, TypeOK
  <2>2. ASSUME NEW p \in Client, StorageError(p) PROVE TypeOK'
    <3>1. call[p] \in CallState /\ call[p] # Idle
      BY <2>2 DEF TypeOK, StorageError
    <3>2. call[p].op \in {"add", "remove"}
      BY <3>1 DEF CallState
    <3>3. \E result \in AnswerType : Return(p, result)
      BY <2>2, <3>2, AnswerForms DEF StorageError
    <3>. QED
      BY <2>2, <3>3, ClientStepType DEF StorageError, TypeOK
  <2>3. CASE Crash
    BY <2>3, CallForms, AnswerForms DEF TypeOK, Crash, AnswerType
  <2>4. ASSUME NEW pair \in Pair, ApplyBlockHint(pair) PROVE TypeOK'
    BY <2>4, ReverseType DEF ApplyBlockHint, TypeOK
  <2>5. ASSUME NEW c \in CoinId, RollbackHints(c) PROVE TypeOK'
    BY <2>5 DEF RollbackHints, TypeOK
  <2>. QED
    BY <2>1, <2>2, <2>3, <2>4, <2>5, AddType, RemoveType DEF Next
<1>. QED
  BY <1>1, <1>2, PTL DEF Spec

-----------------------------------------------------------------------------
(* The invariant of the two indices.                                       *)

\* A step of p that touches neither index and leaves p before its first write,
\* or ends its call, preserves the invariant.
LEMMA ReadStep ==
    ASSUME HInv, NEW p \in Client, UNCHANGED <<hints, hints_by_value>>,
           call' \in [Client -> CallState], answer' \in [Client -> AnswerType],
           \A q \in Client : q # p => call'[q] = call[q],
           call'[p].op = "add" => p \in Adders /\ call'[p].at # "reverse",
           call'[p].op = "remove" => p \in Removers /\ call'[p].at # "forward"
    PROVE  HInv'
<1>1. TypeOK'
  BY DEF HInv, TypeOK, AnswerType
<1>2. ReverseHasForward'
  BY DEF HInv, ReverseHasForward, Reverses
<1>3. Roles'
  BY DEF HInv, Roles
<1>4. ForwardFirst'
  BY DEF HInv, ForwardFirst, At
<1>5. ReverseGone'
  BY DEF HInv, ReverseGone, At
<1>. QED
  BY <1>1, <1>2, <1>3, <1>4, <1>5 DEF HInv

-----------------------------------------------------------------------------
(* One lemma per operation.                                                *)

LEMMA AddHintStep ==
    ASSUME HInv, NEW p \in Adders, NEW c \in CoinId,
           NEW h \in Hint \cup {EmptyHint, LongHint}, AddHint(p, c, h)
    PROVE  HInv'
<1>1. p \in Client /\ TypeOK
  BY DEF Client, HInv
<1>2. CASE h \in {EmptyHint, LongHint}
  <2>1. PICK result \in AnswerType : Return(p, result)
    BY <1>2, AnswerForms DEF AddHint
  <2>. QED
    BY <1>1, <2>1, Ended, CallForms, ReadStep DEF AddHint
<1>3. CASE h \notin {EmptyHint, LongHint}
  <2>1. <<c, h>> \in Pair
    BY <1>3 DEF Pair
  <2>2. Continue(p, Adding(<<c, h>>, "check"))
    BY <1>3 DEF AddHint
  <2>. QED
    BY <1>1, <2>1, <2>2, Continued, CallForms, ReadStep DEF AddHint
<1>. QED
  BY <1>2, <1>3

LEMMA AddHintCheckStep ==
    ASSUME HInv, NEW p \in Adders, AddHintCheck(p)
    PROVE  HInv'
<1>1. p \in Client /\ TypeOK /\ call[p] \in CallState /\ call[p].op = "add"
  BY DEF Client, HInv, TypeOK, AddHintCheck, At
<1>2. call[p].pair \in Pair
  BY <1>1, AddFields
<1>3. CASE call[p].pair \in hints
  <2>1. PICK result \in AnswerType : Return(p, result)
    BY <1>3, AnswerForms DEF AddHintCheck
  <2>. QED
    BY <1>1, <2>1, Ended, CallForms, ReadStep DEF AddHintCheck
<1>4. CASE call[p].pair \notin hints
  <2>1. Continue(p, Adding(call[p].pair, "forward"))
    BY <1>4 DEF AddHintCheck
  <2>. QED
    BY <1>1, <1>2, <2>1, Continued, CallForms, ReadStep DEF AddHintCheck
<1>. QED
  BY <1>3, <1>4

LEMMA AddHintPutForwardStep ==
    ASSUME HInv, NEW p \in Adders, AddHintPutForward(p)
    PROVE  HInv'
<1>1. p \in Client /\ TypeOK /\ call[p] \in CallState /\ call[p].op = "add"
  BY DEF Client, HInv, TypeOK, AddHintPutForward, At
<1>2. call[p].pair \in Pair
  BY <1>1, AddFields
<1>3. Continue(p, Adding(call[p].pair, "reverse"))
  BY DEF AddHintPutForward
<1>4. /\ call' \in [Client -> CallState] /\ answer' \in [Client -> AnswerType]
      /\ call'[p] = Adding(call[p].pair, "reverse")
      /\ \A q \in Client : q # p => call'[q] = call[q]
  BY <1>1, <1>2, <1>3, Continued, CallForms
<1>5. call'[p].op = "add" /\ call'[p].at = "reverse" /\ call'[p].pair = call[p].pair
  BY <1>2, <1>4, CallForms
<1>6. hints' = hints \cup {call[p].pair} /\ hints_by_value' = hints_by_value
  BY DEF AddHintPutForward
<1>7. TypeOK'
  BY <1>1, <1>2, <1>4, <1>6 DEF TypeOK, AnswerType
<1>8. ReverseHasForward'
  BY <1>6 DEF HInv, ReverseHasForward, Reverses
<1>9. Roles'
  BY <1>4, <1>5 DEF HInv, Roles
<1>10. ForwardFirst'
  BY <1>4, <1>5, <1>6 DEF HInv, ForwardFirst, At
<1>11. ReverseGone'
  BY <1>4, <1>5, <1>6 DEF HInv, ReverseGone, At
<1>. QED
  BY <1>7, <1>8, <1>9, <1>10, <1>11 DEF HInv

LEMMA AddHintPutReverseStep ==
    ASSUME HInv, OneDirection, NEW p \in Adders, AddHintPutReverse(p)
    PROVE  HInv'
<1>1. p \in Client /\ TypeOK /\ call[p] \in CallState /\ call[p].op = "add"
  BY DEF Client, HInv, TypeOK, AddHintPutReverse, At
<1>2. call[p].pair \in Pair /\ call[p].pair \in hints
  BY <1>1, AddFields DEF HInv, ForwardFirst, AddHintPutReverse
<1>3. PICK result \in AnswerType : Return(p, result)
  BY AnswerForms DEF AddHintPutReverse
<1>4. /\ call' \in [Client -> CallState] /\ answer' \in [Client -> AnswerType]
      /\ call'[p].op = "idle"
      /\ \A q \in Client : q # p => call'[q] = call[q]
  BY <1>1, <1>3, Ended, CallForms
<1>5. /\ hints' = hints
      /\ hints_by_value' = hints_by_value \cup {ReverseKey(call[p].pair)}
  BY DEF AddHintPutReverse
<1>6. TypeOK'
  BY <1>1, <1>2, <1>4, <1>5, ReverseType DEF TypeOK, AnswerType
<1>7. ReverseHasForward'
  BY <1>2, <1>5 DEF HInv, ReverseHasForward, Reverses
<1>8. Roles'
  BY <1>4 DEF HInv, Roles
<1>9. ForwardFirst'
  BY <1>4, <1>5 DEF HInv, ForwardFirst, At
\* A removal that could be surprised by the new reverse key would run in
\* another thread than p.
<1>10. \A q \in Client : call'[q].op # "remove"
  <2>1. \A q \in Client : q # p /\ call'[q].op = "remove" => q \in Removers
    BY <1>4 DEF HInv, Roles
  <2>. QED
    BY <1>1, <1>4, <2>1 DEF OneDirection
<1>11. ReverseGone'
  BY <1>10 DEF ReverseGone, At
<1>. QED
  BY <1>6, <1>7, <1>8, <1>9, <1>11 DEF HInv

LEMMA RemoveHintsStep ==
    ASSUME HInv, NEW p \in Removers, NEW coin_ids \in Seq(CoinId),
           RemoveHints(p, coin_ids)
    PROVE  HInv'
<1>1. p \in Client /\ TypeOK
  BY DEF Client, HInv
<1>2. Continue(p, Scanning(coin_ids, 0, 0))
  BY DEF RemoveHints
<1>. QED
  BY <1>1, <1>2, Continued, ScanForm, ReadStep DEF RemoveHints

LEMMA RemoveHintsScanStep ==
    ASSUME HInv, NEW p \in Removers, RemoveHintsScan(p)
    PROVE  HInv'
<1>1. p \in Client /\ TypeOK /\ call[p] \in CallState /\ call[p].op = "remove"
  BY DEF Client, HInv, TypeOK, RemoveHintsScan, At
<1>2. /\ call[p].coin_ids \in Seq(CoinId) /\ call[p].done \in Nat
      /\ call[p].removed \in Nat
  BY <1>1, RemoveFields
<1>3. UNCHANGED <<hints, hints_by_value>>
  BY DEF RemoveHintsScan
<1>. DEFINE found == PairsOf(call[p].coin_ids[call[p].done + 1])
<1>4. found \in SUBSET Pair
  BY <1>1 DEF PairsOf, TypeOK
<1>5. CASE Return(p, Answer("remove", "Ok", call[p].removed))
  <2>1. PICK result \in AnswerType : Return(p, result)
    BY <1>2, <1>5, AnswerForms
  <2>. QED
    BY <1>1, <1>3, <2>1, Ended, CallForms, ReadStep
<1>6. CASE Continue(p, Scanning(call[p].coin_ids, call[p].done + 1,
                                call[p].removed))
  <2>1. call[p].done + 1 \in Nat
    BY <1>2
  <2>. QED
    BY <1>1, <1>2, <1>3, <1>6, <2>1, Continued, ScanForm, ReadStep
<1>7. CASE Continue(p, Deleting(call[p].coin_ids, call[p].done, found,
                                call[p].removed))
  BY <1>1, <1>2, <1>3, <1>4, <1>7, Continued, DeleteForm, ReadStep
<1>. QED
  BY <1>5, <1>6, <1>7 DEF RemoveHintsScan

LEMMA RemoveHintsDeleteReverseStep ==
    ASSUME HInv, NEW p \in Removers, RemoveHintsDeleteReverse(p)
    PROVE  HInv'
<1>1. p \in Client /\ TypeOK /\ call[p] \in CallState /\ call[p].op = "remove"
  BY DEF Client, HInv, TypeOK, RemoveHintsDeleteReverse, At
<1>2. /\ call[p].coin_ids \in Seq(CoinId) /\ call[p].done \in Nat
      /\ call[p].removed \in Nat /\ call[p].found \in SUBSET Pair
  BY <1>1, RemoveFields
<1>3. PICK pair \in call[p].found :
          /\ hints_by_value' = hints_by_value \ {ReverseKey(pair)}
          /\ Continue(p, Dropping(call[p].coin_ids, call[p].done,
                                  call[p].found \ {pair}, pair,
                                  call[p].removed))
  BY DEF RemoveHintsDeleteReverse
<1>4. pair \in Pair /\ call[p].found \ {pair} \in SUBSET Pair
  BY <1>2
<1>. DEFINE next == Dropping(call[p].coin_ids, call[p].done,
                             call[p].found \ {pair}, pair, call[p].removed)
<1>5. /\ next \in CallState /\ next.op = "remove" /\ next.at = "forward"
      /\ next.pair = pair
  BY <1>2, <1>4, DropForm
<1>. HIDE DEF next
<1>6. /\ call' \in [Client -> CallState] /\ answer' \in [Client -> AnswerType]
      /\ call'[p] = next
      /\ \A q \in Client : q # p => call'[q] = call[q]
  BY <1>1, <1>3, <1>5, Continued DEF next
<1>7. hints' = hints
  BY DEF RemoveHintsDeleteReverse
<1>8. TypeOK'
  BY <1>1, <1>3, <1>6, <1>7 DEF TypeOK, AnswerType
<1>9. ReverseHasForward'
  BY <1>3, <1>7 DEF HInv, ReverseHasForward, Reverses
<1>10. Roles'
  BY <1>5, <1>6 DEF HInv, Roles
<1>11. ForwardFirst'
  BY <1>5, <1>6, <1>7 DEF HInv, ForwardFirst, At
<1>12. ReverseGone'
  BY <1>3, <1>5, <1>6 DEF HInv, ReverseGone, At
<1>. QED
  BY <1>8, <1>9, <1>10, <1>11, <1>12 DEF HInv

LEMMA RemoveHintsDeleteForwardStep ==
    ASSUME HInv, OneDirection, NEW p \in Removers, RemoveHintsDeleteForward(p)
    PROVE  HInv'
<1>1. p \in Client /\ TypeOK /\ call[p] \in CallState /\ call[p].op = "remove"
      /\ call[p].at = "forward"
  BY DEF Client, HInv, TypeOK, RemoveHintsDeleteForward, At
<1>2. /\ call[p].coin_ids \in Seq(CoinId) /\ call[p].done \in Nat
      /\ call[p].removed \in Nat /\ call[p].found \in SUBSET Pair
      /\ call[p].pair \in Pair
  BY <1>1, RemoveFields
<1>3. ReverseKey(call[p].pair) \notin hints_by_value
  BY <1>1 DEF HInv, ReverseGone, At
<1>4. PICK next \in CallState :
          /\ next.op = "remove" /\ next.at \in {"scan", "reverse"}
          /\ Continue(p, next)
  <2>1. PICK d \in Nat, n \in Nat : d = call[p].done + 1 /\ n = call[p].removed + 1
    <3>1. call[p].done + 1 \in Nat /\ call[p].removed + 1 \in Nat
      BY <1>2
    <3>. QED
      BY <3>1, Zenon
  <2>. DEFINE scan == Scanning(call[p].coin_ids, d, n)
              delete == Deleting(call[p].coin_ids, call[p].done, call[p].found, n)
  <2>2. scan \in CallState /\ scan.op = "remove" /\ scan.at = "scan"
    BY <1>2, ScanForm
  <2>3. delete \in CallState /\ delete.op = "remove" /\ delete.at = "reverse"
    BY <1>2, DeleteForm
  <2>4. Continue(p, scan) \/ Continue(p, delete)
    BY <2>1, Zenon DEF RemoveHintsDeleteForward
  <2>. HIDE DEF scan, delete
  <2>. QED
    BY <2>2, <2>3, <2>4
<1>5. /\ call' \in [Client -> CallState] /\ answer' \in [Client -> AnswerType]
      /\ call'[p] = next
      /\ \A q \in Client : q # p => call'[q] = call[q]
  BY <1>1, <1>4, Continued
<1>6. hints' = hints \ {call[p].pair} /\ hints_by_value' = hints_by_value
  BY DEF RemoveHintsDeleteForward
<1>7. TypeOK'
  BY <1>1, <1>5, <1>6 DEF TypeOK, AnswerType
<1>8. ReverseHasForward'
  BY <1>3, <1>6 DEF HInv, ReverseHasForward, Reverses
<1>9. Roles'
  BY <1>4, <1>5 DEF HInv, Roles
<1>10. \A q \in Client : call'[q].op # "add"
  <2>1. \A q \in Client : q # p /\ call'[q].op = "add" => q \in Adders
    BY <1>5 DEF HInv, Roles
  <2>. QED
    BY <1>1, <1>4, <1>5, <2>1 DEF OneDirection
<1>11. ForwardFirst'
  BY <1>10 DEF ForwardFirst, At
<1>12. ReverseGone'
  BY <1>4, <1>5, <1>6 DEF HInv, ReverseGone, At
<1>. QED
  BY <1>7, <1>8, <1>9, <1>11, <1>12 DEF HInv

LEMMA StorageErrorStep ==
    ASSUME HInv, NEW p \in Client, StorageError(p)
    PROVE  HInv'
<1>1. TypeOK /\ call[p] \in CallState /\ call[p] # Idle
  BY DEF HInv, TypeOK, StorageError
<1>2. call[p].op \in {"add", "remove"}
  BY <1>1 DEF CallState
<1>3. PICK result \in AnswerType : Return(p, result)
  BY <1>2, AnswerForms DEF StorageError
<1>. QED
  BY <1>1, <1>3, Ended, CallForms, ReadStep DEF StorageError

LEMMA CrashStep ==
    ASSUME HInv, Crash
    PROVE  HInv'
<1>1. \A p \in Client : call'[p].op = "idle"
  BY CallForms DEF Crash
<1>2. TypeOK'
  BY CallForms, AnswerForms DEF HInv, TypeOK, Crash, AnswerType
<1>3. ReverseHasForward'
  BY DEF HInv, ReverseHasForward, Reverses, Crash
<1>. QED
  BY <1>1, <1>2, <1>3 DEF HInv, Roles, ForwardFirst, ReverseGone, At

\* A block or a rollback runs while no call does.
LEMMA WriterStep ==
    ASSUME HInv, Quiet, UNCHANGED <<call, answer>>,
           hints' \subseteq Pair, hints_by_value' \subseteq Hint \X CoinId,
           ReverseHasForward'
    PROVE  HInv'
<1>1. \A p \in Client : call'[p].op = "idle"
  BY CallForms DEF Quiet
<1>2. TypeOK'
  BY DEF HInv, TypeOK
<1>. QED
  BY <1>1, <1>2 DEF HInv, Roles, ForwardFirst, ReverseGone, At

LEMMA ApplyBlockHintStep ==
    ASSUME HInv, NEW pair \in Pair, ApplyBlockHint(pair)
    PROVE  HInv'
<1>1. hints' \subseteq Pair /\ hints_by_value' \subseteq Hint \X CoinId
  BY ReverseType DEF HInv, TypeOK, ApplyBlockHint
<1>2. ReverseHasForward'
  BY DEF HInv, ReverseHasForward, Reverses, ApplyBlockHint
<1>. QED
  BY <1>1, <1>2, WriterStep DEF ApplyBlockHint

LEMMA RollbackHintsStep ==
    ASSUME HInv, NEW c \in CoinId, RollbackHints(c)
    PROVE  HInv'
<1>1. hints' \subseteq Pair /\ hints_by_value' \subseteq Hint \X CoinId
  BY DEF HInv, TypeOK, RollbackHints
<1>2. ReverseHasForward'
  BY DEF HInv, ReverseHasForward, Reverses, RollbackHints
<1>. QED
  BY <1>1, <1>2, WriterStep DEF RollbackHints

-----------------------------------------------------------------------------

LEMMA HintInvariance ==
    ASSUME OneDirection
    PROVE  Spec => []HInv
<1>1. Init => HInv
  <2>1. SUFFICES ASSUME Init PROVE HInv
    OBVIOUS
  <2>2. \A p \in Client : call[p].op = "idle"
    BY <2>1, CallForms DEF Init
  <2>3. TypeOK
    BY <2>1, CallForms, AnswerForms DEF Init, TypeOK, AnswerType
  <2>. QED
    BY <2>1, <2>2, <2>3
    DEF Init, HInv, ReverseHasForward, Roles, ForwardFirst, ReverseGone, At
<1>2. HInv /\ [Next]_vars => HInv'
  <2>1. SUFFICES ASSUME HInv, [Next]_vars PROVE HInv'
    OBVIOUS
  <2>2. CASE UNCHANGED vars
    BY <2>1, <2>2 DEF vars, HInv, TypeOK, ReverseHasForward, Reverses, Roles,
                ForwardFirst, ReverseGone, At
  <2>3. CASE \E p \in Adders : AddStep(p)
    BY <2>1, <2>3, AddHintStep, AddHintCheckStep, AddHintPutForwardStep,
       AddHintPutReverseStep DEF AddStep
  <2>4. CASE \E p \in Removers : RemoveStep(p)
    BY <2>1, <2>4, HintAssumption, RemoveHintsStep, RemoveHintsScanStep,
       RemoveHintsDeleteReverseStep, RemoveHintsDeleteForwardStep
    DEF RemoveStep
  <2>5. CASE \E p \in Client : StorageError(p)
    BY <2>1, <2>5, StorageErrorStep
  <2>6. CASE Crash
    BY <2>1, <2>6, CrashStep
  <2>7. CASE \E pair \in Pair : ApplyBlockHint(pair)
    BY <2>1, <2>7, ApplyBlockHintStep
  <2>8. CASE \E c \in CoinId : RollbackHints(c)
    BY <2>1, <2>8, RollbackHintsStep
  <2>. QED
    BY <2>1, <2>2, <2>3, <2>4, <2>5, <2>6, <2>7, <2>8 DEF Next
<1>. QED
  BY <1>1, <1>2, PTL DEF Spec

\* For any number of threads, coins and hints: while no two threads change the
\* hint indices in opposite directions, a lookup by hint never returns a coin
\* that the forward index, and so a rollback, does not know of.
THEOREM ReverseKeysCorrect ==
    ASSUME OneDirection
    PROVE  Spec => []ReverseHasForward
<1>1. HInv => ReverseHasForward
  BY DEF HInv
<1>. QED
  BY <1>1, HintInvariance, PTL

-----------------------------------------------------------------------------
(* remove_hints_for_coins.                                                 *)

\* The coins dealt with have no forward key left, and what is left of the next
\* one is what its scan has found.
Progress(r) ==
    /\ r.done <= Len(r.coin_ids)
    /\ \A i \in 1 .. r.done : PairsOf(r.coin_ids[i]) = {}
    /\ r.at # "scan" => r.done < Len(r.coin_ids)
    /\ r.at = "reverse" => PairsOf(r.coin_ids[r.done + 1]) \subseteq r.found
    /\ r.at = "forward" =>
           PairsOf(r.coin_ids[r.done + 1]) \subseteq r.found \cup {r.pair}

RInv == \A p \in Client : call[p].op = "remove" => Progress(call[p])

LEMMA ProgressKept ==
    ASSUME NEW r, Progress(r), hints' \subseteq hints
    PROVE  Progress(r)'
<1>1. \A c : PairsOf(c)' \subseteq PairsOf(c)
  BY DEF PairsOf
<1>2. \A c : PairsOf(c) = {} => PairsOf(c)' = {}
  BY <1>1
<1>. QED
  BY <1>1, <1>2 DEF Progress

\* A step that adds no forward key, in which p reaches a new state of progress,
\* preserves the invariant.
LEMMA RemoveProgress ==
    ASSUME RInv, NEW p \in Client, hints' \subseteq hints,
           \A q \in Client : q # p => call'[q] = call[q],
           call'[p].op = "remove" => \E r : call'[p] = r /\ Progress(r)'
    PROVE  RInv'
<1>1. ASSUME NEW q \in Client, call'[q].op = "remove"
      PROVE  \E r : call'[q] = r /\ Progress(r)'
  <2>1. CASE q = p
    BY <1>1, <2>1
  <2>2. CASE q # p
    <3>1. call'[q] = call[q] /\ Progress(call[q])
      BY <1>1, <2>2 DEF RInv
    <3>2. PICK r : r = call[q]
      OBVIOUS
    <3>3. Progress(r)'
      BY <3>1, <3>2, ProgressKept
    <3>. QED
      BY <3>1, <3>2, <3>3
  <2>. QED
    BY <2>1, <2>2
<1>2. \A q \in Client : call'[q].op = "remove" => Progress(call[q])'
  <2> SUFFICES ASSUME NEW q \in Client, call'[q].op = "remove"
               PROVE  Progress(call[q])'
    OBVIOUS
  <2>1. PICK r : call'[q] = r /\ Progress(r)'
    BY <1>1
  <2>. QED
    BY <2>1 DEF Progress, PairsOf
<1>. QED
  BY <1>2 DEF RInv

LEMMA ScanProgress ==
    ASSUME HInv, RInv, NEW p \in Removers, RemoveHintsScan(p)
    PROVE  RInv'
<1>1. p \in Client /\ TypeOK /\ call[p] \in CallState /\ call[p].op = "remove"
      /\ call[p].at = "scan"
  BY DEF Client, HInv, TypeOK, RemoveHintsScan, At
<1>2. /\ call[p].coin_ids \in Seq(CoinId) /\ call[p].done \in Nat
      /\ call[p].removed \in Nat
  BY <1>1, RemoveFields
<1>3. hints' = hints
  BY DEF RemoveHintsScan
<1>4. \A c : PairsOf(c)' = PairsOf(c)
  BY <1>3 DEF PairsOf
<1>. DEFINE ids == call[p].coin_ids
            done == call[p].done
            found == PairsOf(ids[done + 1])
<1>5. done <= Len(ids) /\ \A i \in 1 .. done : PairsOf(ids[i]) = {}
  BY <1>1 DEF RInv, Progress
<1>6. Len(ids) \in Nat
  BY <1>2
<1>7. CASE done = Len(ids)
  <2>1. PICK result \in AnswerType : Return(p, result)
    BY <1>2, <1>7, AnswerForms DEF RemoveHintsScan
  <2>. QED
    BY <1>1, <1>3, <2>1, Ended, CallForms, RemoveProgress
<1>8. CASE done # Len(ids) /\ found = {}
  <2>1. Continue(p, Scanning(ids, done + 1, call[p].removed))
    BY <1>8 DEF RemoveHintsScan
  <2>2. done + 1 \in Nat
    BY <1>2
  <2>. DEFINE next == Scanning(ids, done + 1, call[p].removed)
  <2>3. /\ next \in CallState /\ next.at = "scan"
        /\ next.coin_ids = ids /\ next.done = done + 1
    BY <1>2, <2>2, ScanForm
  <2>. HIDE DEF next
  <2>4. /\ call'[p] = next
        /\ \A q \in Client : q # p => call'[q] = call[q]
    BY <1>1, <2>1, <2>3, Continued DEF next
  <2>5. \A i \in 1 .. done + 1 : PairsOf(ids[i]) = {}
    <3>1. \A i \in 1 .. done + 1 : i \in 1 .. done \/ i = done + 1
      BY <1>2
    <3>. QED
      BY <1>5, <1>8, <3>1
  <2>6. done + 1 <= Len(ids)
    BY <1>2, <1>5, <1>6, <1>8
  <2>. HIDE DEF ids, done
  <2>7. \E r : call'[p] = r /\ Progress(r)'
    <3>1. PICK r : r = next
      OBVIOUS
    <3>2. Progress(r)'
      BY <1>4, <2>3, <2>5, <2>6, <3>1 DEF Progress
    <3>. QED
      BY <2>4, <3>1, <3>2
  <2>. QED
    BY <1>1, <1>3, <2>4, <2>7, RemoveProgress
<1>9. CASE done # Len(ids) /\ found # {}
  <2>1. Continue(p, Deleting(ids, done, found, call[p].removed))
    BY <1>9 DEF RemoveHintsScan
  <2>2. found \in SUBSET Pair
    BY <1>1 DEF PairsOf, TypeOK
  <2>. DEFINE next == Deleting(ids, done, found, call[p].removed)
  <2>3. /\ next \in CallState /\ next.at = "reverse"
        /\ next.coin_ids = ids /\ next.done = done /\ next.found = found
    BY <1>2, <2>2, DeleteForm
  <2>. HIDE DEF next
  <2>4. /\ call'[p] = next
        /\ \A q \in Client : q # p => call'[q] = call[q]
    BY <1>1, <2>1, <2>3, Continued DEF next
  <2>5. done < Len(ids)
    BY <1>2, <1>5, <1>6, <1>9
  <2>. HIDE DEF ids, done
  <2>6. \E r : call'[p] = r /\ Progress(r)'
    <3>1. PICK r : r = next
      OBVIOUS
    <3>2. Progress(r)'
      BY <1>4, <1>5, <2>3, <2>5, <3>1 DEF Progress
    <3>. QED
      BY <2>4, <3>1, <3>2
  <2>. QED
    BY <1>1, <1>3, <2>4, <2>6, RemoveProgress
<1>. QED
  BY <1>7, <1>8, <1>9

LEMMA ReverseProgress ==
    ASSUME HInv, RInv, NEW p \in Removers, RemoveHintsDeleteReverse(p)
    PROVE  RInv'
<1>1. p \in Client /\ TypeOK /\ call[p] \in CallState /\ call[p].op = "remove"
      /\ call[p].at = "reverse"
  BY DEF Client, HInv, TypeOK, RemoveHintsDeleteReverse, At
<1>2. /\ call[p].coin_ids \in Seq(CoinId) /\ call[p].done \in Nat
      /\ call[p].removed \in Nat /\ call[p].found \in SUBSET Pair
  BY <1>1, RemoveFields
<1>. DEFINE ids == call[p].coin_ids
            done == call[p].done
            found == call[p].found
<1>3. PICK pair \in found :
          Continue(p, Dropping(ids, done, found \ {pair}, pair, call[p].removed))
  BY DEF RemoveHintsDeleteReverse
<1>4. pair \in Pair /\ found \ {pair} \in SUBSET Pair
  BY <1>2
<1>5. hints' = hints
  BY DEF RemoveHintsDeleteReverse
<1>6. \A c : PairsOf(c)' = PairsOf(c)
  BY <1>5 DEF PairsOf
<1>7. /\ done < Len(ids) /\ done <= Len(ids)
      /\ \A i \in 1 .. done : PairsOf(ids[i]) = {}
      /\ PairsOf(ids[done + 1]) \subseteq found
  BY <1>1 DEF RInv, Progress
<1>. DEFINE next == Dropping(ids, done, found \ {pair}, pair, call[p].removed)
<1>8. /\ next \in CallState /\ next.at = "forward"
      /\ next.coin_ids = ids /\ next.done = done
      /\ next.found = found \ {pair} /\ next.pair = pair
  BY <1>2, <1>4, DropForm
<1>. HIDE DEF next
<1>9. /\ call'[p] = next
      /\ \A q \in Client : q # p => call'[q] = call[q]
  BY <1>1, <1>3, <1>8, Continued DEF next
<1>. HIDE DEF ids, done, found
<1>10. \E r : call'[p] = r /\ Progress(r)'
  <2>1. PICK r : r = next
    OBVIOUS
  <2>2. PairsOf(ids[done + 1]) \subseteq (found \ {pair}) \cup {pair}
    BY <1>7
  <2>3. Progress(r)'
    BY <1>6, <1>7, <1>8, <2>1, <2>2 DEF Progress
  <2>. QED
    BY <1>9, <2>1, <2>3
<1>. QED
  BY <1>1, <1>5, <1>9, <1>10, RemoveProgress

LEMMA ForwardProgress ==
    ASSUME HInv, RInv, NEW p \in Removers, RemoveHintsDeleteForward(p)
    PROVE  RInv'
<1>1. p \in Client /\ TypeOK /\ call[p] \in CallState /\ call[p].op = "remove"
      /\ call[p].at = "forward"
  BY DEF Client, HInv, TypeOK, RemoveHintsDeleteForward, At
<1>2. /\ call[p].coin_ids \in Seq(CoinId) /\ call[p].done \in Nat
      /\ call[p].removed \in Nat /\ call[p].found \in SUBSET Pair
  BY <1>1, RemoveFields
<1>. DEFINE ids == call[p].coin_ids
            done == call[p].done
            found == call[p].found
            pair == call[p].pair
<1>3. hints' = hints \ {pair}
  BY DEF RemoveHintsDeleteForward
<1>4. \A c : PairsOf(c)' = PairsOf(c) \ {pair}
  BY <1>3 DEF PairsOf
<1>5. /\ done < Len(ids) /\ done <= Len(ids)
      /\ \A i \in 1 .. done : PairsOf(ids[i]) = {}
      /\ PairsOf(ids[done + 1]) \subseteq found \cup {pair}
  BY <1>1 DEF RInv, Progress
<1>6. PairsOf(ids[done + 1]) \ {pair} \subseteq found
  BY <1>5
<1>7. PICK d \in Nat, n \in Nat : d = done + 1 /\ n = call[p].removed + 1
  <2>1. done + 1 \in Nat /\ call[p].removed + 1 \in Nat
    BY <1>2
  <2>. QED
    BY <2>1, Zenon
<1>8. CASE found = {}
  <2>. DEFINE next == Scanning(ids, d, n)
  <2>1. Continue(p, next)
    BY <1>7, <1>8 DEF RemoveHintsDeleteForward
  <2>2. /\ next \in CallState /\ next.at = "scan"
        /\ next.coin_ids = ids /\ next.done = d
    BY <1>2, ScanForm
  <2>. HIDE DEF next
  <2>3. /\ call'[p] = next
        /\ \A q \in Client : q # p => call'[q] = call[q]
    BY <1>1, <2>1, <2>2, Continued
  <2>4. \A i \in 1 .. d : PairsOf(ids[i]) \ {pair} = {}
    <3>1. \A i \in 1 .. d : i \in 1 .. done \/ i = done + 1
      BY <1>2, <1>7
    <3>2. PairsOf(ids[done + 1]) \ {pair} = {}
      BY <1>6, <1>8
    <3>. HIDE DEF done, ids, pair
    <3>. QED
      BY <1>5, <3>1, <3>2
  <2>5. d <= Len(ids)
    <3>1. Len(ids) \in Nat
      BY <1>2
    <3>. QED
      BY <1>2, <1>5, <1>7, <3>1
  <2>. HIDE DEF ids, done, pair
  <2>6. \E r : call'[p] = r /\ Progress(r)'
    <3>1. PICK r : r = next
      OBVIOUS
    <3>2. Progress(r)'
      BY <1>4, <2>2, <2>4, <2>5, <3>1 DEF Progress
    <3>. QED
      BY <2>3, <3>1, <3>2
  <2>. QED
    BY <1>1, <1>3, <2>3, <2>6, RemoveProgress
<1>9. CASE found # {}
  <2>. DEFINE next == Deleting(ids, done, found, n)
  <2>1. Continue(p, next)
    BY <1>7, <1>9 DEF RemoveHintsDeleteForward
  <2>2. /\ next \in CallState /\ next.at = "reverse"
        /\ next.coin_ids = ids /\ next.done = done /\ next.found = found
    <3>1. ids \in Seq(CoinId) /\ done \in Nat /\ found \in SUBSET Pair
      BY <1>2
    <3>. HIDE DEF ids, done, found
    <3>2. PICK i \in Seq(CoinId), k \in Nat, f \in SUBSET Pair :
              i = ids /\ k = done /\ f = found
      BY <3>1, Zenon
    <3>3. /\ Deleting(i, k, f, n) \in CallState
          /\ Deleting(i, k, f, n).at = "reverse"
          /\ Deleting(i, k, f, n).coin_ids = i
          /\ Deleting(i, k, f, n).done = k
          /\ Deleting(i, k, f, n).found = f
      BY DeleteForm
    <3>. QED
      BY <3>2, <3>3
  <2>. HIDE DEF next
  <2>3. /\ call'[p] = next
        /\ \A q \in Client : q # p => call'[q] = call[q]
    BY <1>1, <2>1, <2>2, Continued
  <2>. HIDE DEF ids, done, found, pair
  <2>4. \E r : call'[p] = r /\ Progress(r)'
    <3>1. PICK r : r = next
      OBVIOUS
    <3>2. Progress(r)'
      BY <1>4, <1>5, <1>6, <2>2, <3>1 DEF Progress
    <3>. QED
      BY <2>3, <3>1, <3>2
  <2>. QED
    BY <1>1, <1>3, <2>3, <2>4, RemoveProgress
<1>. QED
  BY <1>8, <1>9

LEMMA RemovalStep ==
    ASSUME OneDirection, HInv, RInv, [Next]_vars, HInv'
    PROVE  RInv'
<1>1. CASE UNCHANGED vars
  BY <1>1 DEF vars, RInv, Progress, PairsOf
\* A new forward key comes from a thread that adds, or when no call runs: no
\* removal is under way then.
<1>2. ASSUME \A q \in Client : call'[q].op # "remove" PROVE RInv'
  BY <1>2 DEF RInv
<1>3. ASSUME NEW p \in Adders, AddStep(p) PROVE RInv'
  <2>1. p \in Client
    BY DEF Client
  <2>2. CASE AddHintPutForward(p)
    <3>1. call'[p].op # "remove"
      <4>1. TypeOK /\ call[p] \in CallState /\ call[p].op = "add"
        BY <2>1, <2>2 DEF HInv, TypeOK, AddHintPutForward, At
      <4>2. call[p].pair \in Pair
        BY <4>1, AddFields
      <4>. QED
        BY <2>1, <2>2, <4>1, <4>2, CallForms, Continued DEF AddHintPutForward
    <3>2. call[p].op = "add" /\ \A q \in Client : q # p => call'[q] = call[q]
      BY <2>1, <2>2 DEF AddHintPutForward, Continue, At, HInv, TypeOK
    <3>3. \A q \in Client : q # p => call'[q].op # "remove"
      BY <2>1, <3>2 DEF HInv, Roles, OneDirection
    <3>. QED
      BY <1>2, <3>1, <3>3
  <2>3. CASE ~AddHintPutForward(p)
    <3>1. hints' = hints
      BY <1>3, <2>3 DEF AddStep, AddHint, AddHintCheck, AddHintPutReverse
    <3>2. /\ \A q \in Client : q # p => call'[q] = call[q]
          /\ call'[p].op # "remove"
      <4>1. ASSUME NEW next, next.op # "remove", Continue(p, next) \/ (next = Idle /\ \E result : Return(p, result))
            PROVE  /\ \A q \in Client : q # p => call'[q] = call[q]
                   /\ call'[p].op # "remove"
        BY <2>1, <4>1 DEF Continue, Return, HInv, TypeOK
      <4>2. Idle.op # "remove" /\ \A pair, at : Adding(pair, at).op # "remove"
        BY DEF Idle, Adding
      <4>3. \E next : /\ next.op # "remove"
                      /\ Continue(p, next) \/ (next = Idle /\ \E result : Return(p, result))
        BY <1>3, <2>3, <4>2, Zenon DEF AddStep, AddHint, AddHintCheck, AddHintPutReverse
      <4>. QED
        BY <4>1, <4>3
    <3>. QED
      BY <2>1, <3>1, <3>2, RemoveProgress
  <2>. QED
    BY <2>2, <2>3
<1>4. ASSUME NEW p \in Removers, NEW coin_ids \in RemoveArgs, RemoveHints(p, coin_ids)
      PROVE  RInv'
  <2>1. p \in Client /\ TypeOK /\ coin_ids \in Seq(CoinId)
    BY HintAssumption DEF Client, HInv
  <2>. DEFINE next == Scanning(coin_ids, 0, 0)
  <2>2. next \in CallState /\ next.at = "scan" /\ next.coin_ids = coin_ids /\ next.done = 0
    BY <2>1, ScanForm
  <2>3. Continue(p, next) /\ hints' = hints
    BY <1>4 DEF RemoveHints
  <2>. HIDE DEF next
  <2>4. call'[p] = next /\ \A q \in Client : q # p => call'[q] = call[q]
    BY <2>1, <2>2, <2>3, Continued
  <2>5. \E r : call'[p] = r /\ Progress(r)'
    <3>1. PICK r : r = next
      OBVIOUS
    <3>2. 0 <= Len(coin_ids) /\ 1 .. 0 = {}
      BY <2>1
    <3>3. Progress(r)'
      BY <2>2, <3>1, <3>2 DEF Progress
    <3>. QED
      BY <2>4, <3>1, <3>3
  <2>. QED
    BY <2>1, <2>3, <2>4, <2>5, RemoveProgress
<1>5. ASSUME NEW p \in Client, StorageError(p) PROVE RInv'
  <2>1. hints' = hints /\ call'[p] = Idle /\ \A q \in Client : q # p => call'[q] = call[q]
    BY <1>5 DEF StorageError, Return, HInv, TypeOK
  <2>2. call'[p].op # "remove"
    BY <2>1, CallForms
  <2>. QED
    BY <2>1, <2>2, RemoveProgress
<1>6. CASE Crash
  <2>1. \A q \in Client : call'[q].op # "remove"
    BY <1>6, CallForms DEF Crash
  <2>. QED
    BY <1>2, <2>1
<1>7. ASSUME Quiet, UNCHANGED call PROVE RInv'
  <2>1. \A q \in Client : call'[q].op # "remove"
    BY <1>7, CallForms DEF Quiet
  <2>. QED
    BY <1>2, <2>1
<1>. QED
  BY <1>1, <1>3, <1>4, <1>5, <1>6, <1>7, ScanProgress, ReverseProgress,
     ForwardProgress
  DEF Next, RemoveStep, ApplyBlockHint, RollbackHints

\* remove_hints_for_coins returns Ok only from its loop over the coins, behind
\* the last of them.
LEMMA ReturnedRemoval ==
    ASSUME HInv, Next, NEW p \in Client, Returns(p, "remove")
    PROVE  hints' = hints /\ call[p].done = Len(call[p].coin_ids)
<1>1. /\ call \in [Client -> CallState] /\ DOMAIN answer = Client
      /\ call[p].op = "remove" /\ call'[p] = Idle /\ answer'[p].outcome = "Ok"
  BY DEF HInv, TypeOK, Returns
<1>2. call'[p] # call[p]
  BY <1>1, CallForms
<1>3. \A q \in Client : \A next : Continue(q, next) \/ Return(q, next) => q = p
  BY <1>1, <1>2 DEF Continue, Return
<1>4. \A next : Continue(p, next) => next = Idle
  BY <1>1 DEF Continue
<1>5. \A result : Return(p, result) => result.outcome = "Ok"
  BY <1>1 DEF Return
<1>6. /\ call[p] # Idle /\ call[p].op # "add"
      /\ Idle.op = "idle" /\ \A op, n : Answer(op, "StorageError", n).outcome # "Ok"
      /\ NoAnswer.outcome # "Ok"
  BY <1>1, CallForms DEF Answer, NoAnswer
<1>7. /\ \A ids, d, n : Scanning(ids, d, n).op = "remove"
      /\ \A ids, d, f, n : Deleting(ids, d, f, n).op = "remove"
      /\ \A ids, d, f, pair, n : Dropping(ids, d, f, pair, n).op = "remove"
  BY DEF Scanning, Deleting, Dropping
<1>8. ASSUME NEW q \in Adders, AddStep(q) PROVE FALSE
  <2>1. q \in Client
    BY DEF Client
  <2>2. call[q] = Idle \/ call[q].op = "add"
    BY <1>8 DEF AddStep, AddHint, AddHintCheck, AddHintPutForward,
                AddHintPutReverse, At
  <2>3. \E next : Continue(q, next) \/ Return(q, next)
    BY <1>8, Zenon DEF AddStep, AddHint, AddHintCheck, AddHintPutForward,
                       AddHintPutReverse
  <2>. QED
    BY <1>3, <1>6, <2>1, <2>2, <2>3
<1>9. ASSUME NEW q \in Removers, RemoveStep(q)
      PROVE  hints' = hints /\ call[p].done = Len(call[p].coin_ids)
  <2>1. q \in Client
    BY DEF Client
  <2>2. \E next : Continue(q, next) \/ Return(q, next)
    BY <1>9, Zenon DEF RemoveStep, RemoveHints, RemoveHintsScan,
                       RemoveHintsDeleteReverse, RemoveHintsDeleteForward
  <2>3. q = p
    BY <1>3, <2>1, <2>2
  <2>4. ~\E coin_ids \in RemoveArgs : RemoveHints(p, coin_ids)
    BY <1>6 DEF RemoveHints
  <2>5. ~RemoveHintsDeleteReverse(p) /\ ~RemoveHintsDeleteForward(p)
    <3>1. \A next : Continue(p, next) => next.op = "idle"
      BY <1>4, <1>6
    <3>. QED
      BY <1>7, <3>1, Zenon DEF RemoveHintsDeleteReverse, RemoveHintsDeleteForward
  <2>6. RemoveHintsScan(p)
    BY <1>9, <2>3, <2>4, <2>5 DEF RemoveStep
  <2>7. CASE call[p].done # Len(call[p].coin_ids)
    <3>1. \A next : Continue(p, next) => next.op = "idle"
      BY <1>4, <1>6
    <3>2. \E next : next.op = "remove" /\ Continue(p, next)
      BY <1>7, <2>6, <2>7, ZenonT(40) DEF RemoveHintsScan
    <3>. QED
      BY <3>1, <3>2
  <2>. QED
    BY <2>6, <2>7 DEF RemoveHintsScan
<1>10. ASSUME NEW q \in Client, StorageError(q) PROVE FALSE
  <2>1. q = p
    BY <1>3, <1>10, Zenon DEF StorageError
  <2>. QED
    BY <1>5, <1>6, <1>10, <2>1 DEF StorageError
<1>11. ~Crash
  BY <1>1, <1>6 DEF Crash
<1>12. ~Quiet
  BY <1>6 DEF Quiet
<1>. QED
  BY <1>8, <1>9, <1>10, <1>11, <1>12 DEF Next, ApplyBlockHint, RollbackHints

\* For any number of threads and any list of coins: while no two threads change
\* the hint indices in opposite directions, a remove_hints_for_coins that
\* returns Ok has left no key of its coins in either index.
THEOREM RemovalCorrect ==
    ASSUME OneDirection
    PROVE  Spec => RemovalIsComplete
<1>. DEFINE Goal ==
       \A p \in Removers : Returns(p, "remove") =>
           \A i \in DOMAIN call[p].coin_ids :
               /\ \A pair \in hints' : pair[1] # call[p].coin_ids[i]
               /\ \A key \in hints_by_value' : key[2] # call[p].coin_ids[i]
<1>1. Init => RInv
  <2>. SUFFICES ASSUME Init PROVE RInv
    OBVIOUS
  <2>1. \A p \in Client : call[p].op = "idle"
    BY CallForms DEF Init
  <2>. QED
    BY <2>1 DEF RInv
<1>2. HInv /\ RInv /\ [Next]_vars /\ HInv' => RInv'
  BY RemovalStep
<1>3. HInv /\ RInv /\ [Next]_vars /\ HInv' => [Goal]_vars
  <2>. SUFFICES ASSUME HInv, RInv, Next, HInv',
                       NEW p \in Removers, Returns(p, "remove")
                PROVE  \A i \in DOMAIN call[p].coin_ids :
                           /\ \A pair \in hints' : pair[1] # call[p].coin_ids[i]
                           /\ \A key \in hints_by_value' : key[2] # call[p].coin_ids[i]
    OBVIOUS
  <2>1. p \in Client /\ TypeOK /\ call[p] \in CallState /\ call[p].op = "remove"
    BY DEF Client, HInv, TypeOK, Returns
  <2>2. /\ call[p].coin_ids \in Seq(CoinId) /\ call[p].done \in Nat
        /\ call[p].at \in {"scan", "reverse", "forward"}
    BY <2>1, RemoveFields
  <2>3. hints' = hints /\ call[p].done = Len(call[p].coin_ids)
    BY <2>1, ReturnedRemoval
  <2>4. \A i \in DOMAIN call[p].coin_ids : PairsOf(call[p].coin_ids[i]) = {}
    <3>1. DOMAIN call[p].coin_ids = 1 .. call[p].done
      BY <2>2, <2>3
    <3>2. \A i \in 1 .. call[p].done : PairsOf(call[p].coin_ids[i]) = {}
      BY <2>1 DEF RInv, Progress
    <3>. QED
      BY <3>1, <3>2, Zenon
  <2>5. \A i \in DOMAIN call[p].coin_ids, pair \in hints' : pair[1] # call[p].coin_ids[i]
    BY <2>3, <2>4 DEF PairsOf
  <2>6. \A key \in hints_by_value' : \E pair \in hints' : key = ReverseKey(pair)
    BY DEF HInv, ReverseHasForward, Reverses
  <2>7. \A pair : ReverseKey(pair)[2] = pair[1]
    BY DEF ReverseKey
  <2>. QED
    BY <2>5, <2>6, <2>7
<1>. HIDE DEF Goal
<1>. QED
  BY <1>1, <1>2, <1>3, HintInvariance, PTL DEF Spec, RemovalIsComplete, Goal

-----------------------------------------------------------------------------
(* Queries.  A key is two sequences of bytes, one behind the other.        *)

LEMMA KeyParts ==
    ASSUME NEW a \in Seq(Nat), NEW b \in Seq(Nat)
    PROVE  /\ a \o b \in Seq(Nat) /\ Len(a \o b) = Len(a) + Len(b)
           /\ StartsWith(a \o b, a)
           /\ SubSeq(a \o b, Len(a) + 1, Len(a) + Len(b)) = b
<1>1. /\ a \o b \in Seq(Nat) /\ Len(a \o b) = Len(a) + Len(b)
      /\ \A j \in 1 .. Len(a) : (a \o b)[j] = a[j]
  OBVIOUS
<1>2. StartsWith(a \o b, a)
  <2>1. Len(a) <= Len(a \o b) /\ \A j \in 1 .. Len(a) : a[j] = (a \o b)[j]
    BY <1>1
  <2>. QED
    BY <1>1, <2>1, PrefixItems
<1>3. SubSeq(a \o b, Len(a) + 1, Len(a) + Len(b)) = b
  <2> DEFINE s == SubSeq(a \o b, Len(a) + 1, Len(a) + Len(b))
  <2>1. s \in Seq(Nat) /\ Len(s) = Len(b)
    BY <1>1
  <2>2. \A i \in 1 .. Len(b) : s[i] = b[i]
    BY <1>1
  <2> HIDE DEF s
  <2>3. s = b
    BY <2>1, <2>2, SeqT!SeqEqual
  <2>. QED
    BY <2>3 DEF s
<1>. QED
  BY <1>1, <1>2, <1>3

\* Of two first parts of one length only the right one begins a key.
LEMMA FirstPart ==
    ASSUME NEW a \in Seq(Nat), NEW b \in Seq(Nat), NEW c \in Seq(Nat),
           Len(a) = Len(b), StartsWith(b \o c, a)
    PROVE  a = b
<1>1. /\ b \o c \in Seq(Nat)
      /\ \A j \in 1 .. Len(b) : (b \o c)[j] = b[j]
  OBVIOUS
<1>2. \A j \in 1 .. Len(a) : a[j] = (b \o c)[j]
  BY <1>1, PrefixItems
<1>3. \A j \in 1 .. Len(a) : a[j] = b[j]
  BY <1>1, <1>2
<1>. QED
  BY <1>3, SeqT!SeqEqual

\* A scan lists the keys with the prefix, each once.
KeysUnder(index, p) == {key \in {KeyOf(pair) : pair \in index} : StartsWith(key, p)}

LEMMA ScanListed ==
    ASSUME NEW index, IsFiniteSet(index), NEW p \in Seq(Nat),
           \A pair \in index : pair[1] \in Seq(Nat) /\ pair[2] \in Seq(Nat)
    PROVE  /\ prefix_scan(index, p) \in Seq(Seq(Nat))
           /\ ToSet(prefix_scan(index, p)) = KeysUnder(index, p)
           /\ IsInjective(prefix_scan(index, p))
<1> DEFINE all == {KeyOf(pair) : pair \in index}
           K == {key \in all : StartsWith(key, p)}
           list == InKeyOrder(K)
<1>2. IsFiniteSet(all)
  <2> DEFINE f == [pair \in index |-> KeyOf(pair)]
  <2>1. f \in Surjection(index, all)
    BY DEF Surjection
  <2> HIDE DEF f, all
  <2>. QED
    BY <2>1, FS_Surjection
<1>3. IsFiniteSet(K)
  <2>1. K \in SUBSET all
    OBVIOUS
  <2> HIDE DEF K, all
  <2>. QED
    BY <1>2, <2>1, FS_Subset
<1>4. K \in SUBSET Seq(Nat)
  <2>1. \A pair \in index : KeyOf(pair) \in Seq(Nat)
    <3> SUFFICES ASSUME NEW pair \in index PROVE KeyOf(pair) \in Seq(Nat)
      OBVIOUS
    <3>1. pair[1] \in Seq(Nat) /\ pair[2] \in Seq(Nat)
      OBVIOUS
    <3>. QED
      BY <3>1 DEF KeyOf
  <2>. QED
    BY <2>1
<1> HIDE DEF K, all
<1>5. list \in Seq(K) /\ ToSet(list) = K /\ IsInjective(list)
  BY <1>3, <1>4, KeysOnce
<1> HIDE DEF list
<1>6. list \in Seq(Seq(Nat)) /\ <<>> \o list = list
  BY <1>4, <1>5
<1>7. prefix_scan(index, p) = <<>> \o list
  BY DEF prefix_scan, list, K, all
<1>. QED
  BY <1>5, <1>6, <1>7 DEF K, all, KeysUnder

\* A part of every key in a list, when the part tells the keys apart.
PartsOf(list, n, m) == [i \in DOMAIN list |-> SubSeq(list[i], n, m)]
PartSet(list, n, m) == {SubSeq(key, n, m) : key \in ToSet(list)}
Apart(list, n, m) ==
    \A x, y \in ToSet(list) : SubSeq(x, n, m) = SubSeq(y, n, m) => x = y

LEMMA PartsListed ==
    ASSUME NEW list \in Seq(Seq(Nat)), IsInjective(list), NEW n, NEW m, Apart(list, n, m)
    PROVE  /\ PartsOf(list, n, m) \in Seq(PartSet(list, n, m))
           /\ IsInjective(PartsOf(list, n, m))
           /\ ToSet(PartsOf(list, n, m)) = PartSet(list, n, m)
<1> DEFINE parts == [i \in DOMAIN list |-> SubSeq(list[i], n, m)]
           N == Len(list)
           T == PartSet(list, n, m)
<1>1. N \in Nat /\ DOMAIN list = 1 .. N
  OBVIOUS
<1>2. \A i \in 1 .. N : list[i] \in ToSet(list)
  BY <1>1 DEF ToSet
<1>3. DOMAIN parts = 1 .. N /\ \A i \in 1 .. N : parts[i] = SubSeq(list[i], n, m)
  BY <1>1
<1>4. parts = [i \in 1 .. N |-> parts[i]]
  BY <1>1
<1> HIDE DEF parts, N
<1>5. parts \in [1 .. N -> T]
  <2>1. \A i \in 1 .. N : parts[i] \in T
    BY <1>2, <1>3 DEF PartSet
  <2> HIDE DEF T
  <2>. QED
    BY <2>1, <1>4
<1>6. parts \in Seq(T)
  <2> HIDE DEF T
  <2>. QED
    BY <1>1, <1>5
<1>7. IsInjective(parts)
  BY <1>1, <1>2, <1>3 DEF IsInjective, Apart
<1>8. ToSet(parts) = {SubSeq(key, n, m) : key \in ToSet(list)}
  <2>1. ToSet(parts) = {parts[i] : i \in 1 .. N} /\ ToSet(list) = {list[i] : i \in 1 .. N}
    BY <1>1, <1>3 DEF ToSet
  <2>2. \A x \in ToSet(parts) : \E key \in ToSet(list) : x = SubSeq(key, n, m)
    BY <1>3, <2>1
  <2>3. \A key \in ToSet(list) : SubSeq(key, n, m) \in ToSet(parts)
    BY <1>3, <2>1
  <2> DEFINE Part(key) == SubSeq(key, n, m)
  <2>4. (\A x \in ToSet(parts) : \E key \in ToSet(list) : x = Part(key))
        /\ (\A key \in ToSet(list) : Part(key) \in ToSet(parts))
    BY <2>2, <2>3
  <2> HIDE DEF Part
  <2>5. ToSet(parts) = {Part(key) : key \in ToSet(list)}
    BY <2>4
  <2>. QED
    BY <2>5 DEF Part
<1>. QED
  BY <1>6, <1>7, <1>8 DEF parts, PartsOf, PartSet

LEMMA Taken ==
    ASSUME NEW T, NEW s \in Seq(T), IsInjective(s), NEW m \in Nat
    PROVE  /\ Take(s, m) \in Seq(T) /\ IsInjective(Take(s, m))
           /\ ToSet(Take(s, m)) \subseteq ToSet(s)
           /\ Len(Take(s, m)) = Smaller(m, Len(s))
           /\ Len(s) <= m => Take(s, m) = s
<1> DEFINE n == IF Len(s) < m THEN Len(s) ELSE m
           t == Take(s, m)
<1>1. n \in Nat /\ n <= Len(s) /\ n = Smaller(m, Len(s)) /\ Len(s) \in Nat
  BY DEF Smaller
<1>2. t = SubSeq(s, 1, n)
  BY DEF Take
<1>3. Len(s) <= m => n = Len(s)
  OBVIOUS
<1> HIDE DEF n, t
<1>4. /\ t \in Seq(T) /\ Len(t) = n /\ DOMAIN t = 1 .. n
      /\ \A i \in 1 .. n : t[i] = s[i] /\ i \in DOMAIN s
  BY <1>1, <1>2
<1>5. IsInjective(t) /\ ToSet(t) \subseteq ToSet(s)
  BY <1>4 DEF IsInjective, ToSet
<1>6. n = Len(s) => t = s
  BY <1>2
<1>. QED
  BY <1>1, <1>3, <1>4, <1>5, <1>6 DEF t

\* The second parts of the keys that a scan finds and a filter lets through:
\* those stored under the first part `a`, if the filter is right.
Selects(A, B, index, a, S, C, w) ==
    /\ A \in SUBSET Seq(Nat) /\ B \in SUBSET Seq(Nat)
    /\ index \in SUBSET (A \X B) /\ IsFiniteSet(index)
    /\ a \in A /\ C \in SUBSET B /\ w \in Nat
    /\ \A b \in C : Len(b) = w
    /\ \A x \in A, b \in B : <<x, b>> \in index =>
           (StartsWith(x \o b, a) /\ x \o b \in S <=> x = a /\ b \in C)
FoundParts(index, a, S, w) ==
    PartsOf(Keep(prefix_scan(index, a), S), Len(a) + 1, Len(a) + w)
SecondsOf(index, a, C) == {b \in C : <<a, b>> \in index}

LEMMA SecondParts ==
    ASSUME NEW A, NEW B, NEW index, NEW a, NEW S, NEW C, NEW w,
           Selects(A, B, index, a, S, C, w)
    PROVE  /\ FoundParts(index, a, S, w) \in Seq(B)
           /\ IsInjective(FoundParts(index, a, S, w))
           /\ ToSet(FoundParts(index, a, S, w)) = SecondsOf(index, a, C)
<1>0. /\ A \in SUBSET Seq(Nat) /\ B \in SUBSET Seq(Nat)
      /\ index \in SUBSET (A \X B) /\ IsFiniteSet(index)
      /\ a \in A /\ C \in SUBSET B /\ w \in Nat
  BY DEF Selects
<1> DEFINE scan == prefix_scan(index, a)
           list == Keep(scan, S)
           n == Len(a) + 1
           m == Len(a) + w
           Part(key) == SubSeq(key, n, m)
           parts == PartsOf(list, n, m)
           D == {b \in C : <<a, b>> \in index}
<1>1. /\ scan \in Seq(Seq(Nat)) /\ IsInjective(scan)
      /\ ToSet(scan) = KeysUnder(index, a)
  <2>1. a \in Seq(Nat)
    BY <1>0
  <2>2. \A pair \in index : pair[1] \in Seq(Nat) /\ pair[2] \in Seq(Nat)
    BY <1>0
  <2>. QED
    BY <1>0, <2>1, <2>2, ScanListed
<1> HIDE DEF scan
<1>2. list \in Seq(Seq(Nat)) /\ IsInjective(list) /\ ToSet(list) = ToSet(scan) \cap S
  BY <1>1, Kept
<1> HIDE DEF list
<1>3. \A key : key \in ToSet(list) <=> \E b \in D : key = a \o b
  <2>1. ASSUME NEW key \in ToSet(list) PROVE \E b \in D : key = a \o b
    <3>1. PICK pair \in index : key = KeyOf(pair)
      BY <1>1, <1>2 DEF KeysUnder
    <3>2. PICK x \in A, b \in B : pair = <<x, b>>
      BY <1>0
    <3>3. key = x \o b /\ StartsWith(key, a) /\ key \in S
      BY <1>1, <1>2, <3>1, <3>2 DEF KeyOf, KeysUnder
    <3>4. x = a /\ b \in C
      BY <3>1, <3>2, <3>3 DEF Selects
    <3>. QED
      BY <3>1, <3>2, <3>3, <3>4
  <2>2. ASSUME NEW b \in D PROVE a \o b \in ToSet(list)
    <3>1. b \in C /\ b \in B /\ <<a, b>> \in index
      BY <1>0
    <3>2. StartsWith(a \o b, a) /\ a \o b \in S
      BY <1>0, <3>1 DEF Selects
    <3>3. KeyOf(<<a, b>>) = a \o b
      BY DEF KeyOf
    <3>4. a \o b \in {KeyOf(pair) : pair \in index}
      BY <3>1, <3>3
    <3>. QED
      BY <1>1, <1>2, <3>2, <3>4 DEF KeysUnder
  <2>. QED
    BY <2>1, <2>2
<1>4. \A b \in D : Part(a \o b) = b /\ b \in B
  <2> SUFFICES ASSUME NEW b \in D PROVE Part(a \o b) = b /\ b \in B
    OBVIOUS
  <2>1. b \in B /\ b \in Seq(Nat) /\ a \in Seq(Nat) /\ Len(b) = w
    BY <1>0 DEF Selects
  <2>. QED
    BY <2>1, KeyParts
<1> HIDE DEF D
<1>5. Apart(list, n, m)
  <2>1. \A key \in ToSet(list) : key = a \o Part(key)
    <3> HIDE DEF Part
    <3>. QED
      BY <1>3, <1>4
  <2>2. \A x, y \in ToSet(list) : Part(x) = Part(y) => x = y
    <3> HIDE DEF Part
    <3>. QED
      BY <2>1
  <2>. QED
    BY <2>2 DEF Apart
<1>6. PartSet(list, n, m) = D
  <2>1. {Part(key) : key \in ToSet(list)} = D
    <3> HIDE DEF Part
    <3>. QED
      BY <1>3, <1>4
  <2>. QED
    BY <2>1 DEF PartSet
<1>7. D \subseteq B
  BY <1>0 DEF D
<1>8. parts \in Seq(D) /\ IsInjective(parts) /\ ToSet(parts) = D
  <2> HIDE DEF n, m
  <2>. QED
    BY <1>2, <1>5, <1>6, PartsListed
<1>9. parts \in Seq(B)
  <2> HIDE DEF parts
  <2>. QED
    BY <1>7, <1>8
<1>. QED
  BY <1>8, <1>9 DEF D, list, scan, FoundParts, SecondsOf

LEMMA IndexTypes ==
    ASSUME TypeOK
    PROVE  /\ CoinId \in SUBSET Seq(Nat) /\ Hint \in SUBSET Seq(Nat)
           /\ hints \in SUBSET (CoinId \X Hint) /\ IsFiniteSet(hints)
           /\ hints_by_value \in SUBSET (Hint \X CoinId) /\ IsFiniteSet(hints_by_value)
<1>1. CoinId \in SUBSET Seq(Nat) /\ Hint \in SUBSET Seq(Nat)
  BY WidthAssumption
<1>2. hints \in SUBSET (CoinId \X Hint) /\ hints_by_value \in SUBSET (Hint \X CoinId)
  BY DEF TypeOK, Pair
<1>3. IsFiniteSet(CoinId) /\ IsFiniteSet(Hint)
  BY WidthAssumption
<1>4. IsFiniteSet(CoinId \X Hint) /\ IsFiniteSet(Hint \X CoinId)
  BY <1>3, FS_Product
<1>. QED
  BY <1>1, <1>2, <1>4, FS_Subset

\* The coins stored under a hint, in the order of the reverse index.
ExactKeys(h) == {key \in Seq(Nat) : Len(key) = Len(h) + Width}
LongKeys == {key \in Seq(Nat) : Len(key) >= 2 * Width}
CoinList(h) == FoundParts(hints_by_value, h, ExactKeys(h), Width)

LEMMA ByHint ==
    ASSUME TypeOK, NEW h \in Hint
    PROVE  /\ CoinList(h) \in Seq(CoinId) /\ IsInjective(CoinList(h))
           /\ ToSet(CoinList(h)) = CoinsHinted(h)
           /\ IsFiniteSet(CoinsHinted(h)) /\ Len(CoinList(h)) \in Nat
           /\ Len(CoinList(h)) = Cardinality(CoinsHinted(h))
<1>1. \A x \in Hint, c \in CoinId :
          StartsWith(x \o c, h) /\ x \o c \in ExactKeys(h) <=> x = h /\ c \in CoinId
  <2> SUFFICES ASSUME NEW x \in Hint, NEW c \in CoinId
               PROVE  StartsWith(x \o c, h) /\ x \o c \in ExactKeys(h) <=> x = h
    OBVIOUS
  <2>1. /\ x \in Seq(Nat) /\ h \in Seq(Nat) /\ c \in Seq(Nat) /\ Len(c) = Width
        /\ Width \in Nat /\ Len(x) \in Nat /\ Len(h) \in Nat
    BY WidthAssumption
  <2>2. x \o c \in Seq(Nat) /\ Len(x \o c) = Len(x) + Width /\ StartsWith(x \o c, x)
    BY <2>1, KeyParts
  <2>3. x \o c \in ExactKeys(h) <=> Len(x) = Len(h)
    BY <2>1, <2>2 DEF ExactKeys
  <2>4. Len(x) = Len(h) /\ StartsWith(x \o c, h) => h = x
    BY <2>1, FirstPart
  <2>. QED
    BY <2>2, <2>3, <2>4
<1>2. \A c \in CoinId : Len(c) = Width
  BY WidthAssumption
<1>3. Width \in Nat /\ CoinId \in SUBSET CoinId
  BY WidthAssumption
<1>4. /\ CoinList(h) \in Seq(CoinId) /\ IsInjective(CoinList(h))
      /\ ToSet(CoinList(h)) = SecondsOf(hints_by_value, h, CoinId)
  <2>1. Selects(Hint, CoinId, hints_by_value, h, ExactKeys(h), CoinId, Width)
    BY <1>1, <1>2, <1>3, IndexTypes, Zenon DEF Selects
  <2>. QED
    BY <2>1, SecondParts DEF CoinList
<1>5. ToSet(CoinList(h)) = CoinsHinted(h)
  BY <1>4 DEF CoinsHinted, SecondsOf
<1>. QED
  BY <1>4, <1>5, LengthCounts

\* Of the keys that begin with a hint of full length, none is longer than the
\* exact ones.
LEMMA ByFullHint ==
    ASSUME TypeOK, NEW h \in FullHints
    PROVE  SecondHalves(prefix_scan(hints_by_value, h)) = CoinList(h)
<1> DEFINE scan == prefix_scan(hints_by_value, h)
<1>1. /\ h \in Hint /\ h \in Seq(Nat) /\ Len(h) = Width /\ Width \in Nat
  BY WidthAssumption DEF FullHints
<1>2. \A pair \in hints_by_value :
          pair[1] \in Hint /\ pair[2] \in CoinId /\ pair[1] \in Seq(Nat) /\ pair[2] \in Seq(Nat)
  BY IndexTypes
<1>3. scan \in Seq(Seq(Nat)) /\ ToSet(scan) = KeysUnder(hints_by_value, h)
  BY <1>1, <1>2, IndexTypes, ScanListed
<1>4. ASSUME NEW key \in ToSet(scan) PROVE key \in LongKeys <=> key \in ExactKeys(h)
  <2>1. PICK pair \in hints_by_value : key = pair[1] \o pair[2]
    BY <1>3 DEF KeysUnder, KeyOf
  <2>2. PICK x \in Hint, c \in CoinId : key = x \o c
    BY <1>2, <2>1
  <2>3. /\ Len(x) \in 1 .. Width /\ Len(c) = Width
        /\ x \in Seq(Nat) /\ c \in Seq(Nat)
    BY WidthAssumption
  <2>5. key \in Seq(Nat) /\ Len(key) = Len(x) + Width
    BY <2>2, <2>3, KeyParts
  <2>4. Len(key) >= 2 * Width <=> Len(key) = Len(h) + Width
    <3>1. \A l \in 1 .. Width : l + Width >= 2 * Width <=> l + Width = Width + Width
      BY <1>1
    <3>. QED
      BY <1>1, <2>3, <2>5, <3>1, Zenon
  <2>. QED
    BY <2>4, <2>5 DEF LongKeys, ExactKeys
<1> HIDE DEF scan
<1>5. Keep(scan, LongKeys) = Keep(scan, ExactKeys(h))
  BY <1>3, <1>4, KeptSame
<1>6. Len(h) + 1 = Width + 1 /\ Len(h) + Width = 2 * Width
  BY <1>1
<1>7. SecondHalves(scan) = PartsOf(Keep(scan, LongKeys), Width + 1, 2 * Width)
  BY DEF SecondHalves, LongKeys, PartsOf
<1>. QED
  BY <1>5, <1>6, <1>7 DEF CoinList, FoundParts, scan

\* The hints of full length stored for a coin.
LEMMA ByCoin ==
    ASSUME TypeOK, NEW c \in CoinId
    PROVE  LET list == SecondHalves(prefix_scan(hints, c))
           IN  /\ list \in Seq(Hint) /\ IsInjective(list)
               /\ ToSet(list) = {h \in FullHints : <<c, h>> \in hints}
<1> DEFINE scan == prefix_scan(hints, c)
<1>1. \A x \in CoinId, h \in Hint :
          StartsWith(x \o h, c) /\ x \o h \in LongKeys <=> x = c /\ h \in FullHints
  <2> SUFFICES ASSUME NEW x \in CoinId, NEW h \in Hint
               PROVE  StartsWith(x \o h, c) /\ x \o h \in LongKeys <=>
                          x = c /\ h \in FullHints
    OBVIOUS
  <2>1. /\ x \in Seq(Nat) /\ h \in Seq(Nat) /\ c \in Seq(Nat)
        /\ Len(c) = Width /\ Len(x) = Width /\ Width \in Nat /\ Len(h) \in 1 .. Width
    BY WidthAssumption
  <2>2. x \o h \in Seq(Nat) /\ Len(x \o h) = Width + Len(h) /\ StartsWith(x \o h, x)
    BY <2>1, KeyParts, ZenonT(40)
  <2>3. Len(x \o h) >= 2 * Width <=> Len(h) = Width
    BY <2>1, <2>2
  <2>4. x \o h \in LongKeys <=> h \in FullHints
    BY <2>2, <2>3 DEF LongKeys, FullHints
  <2>5. StartsWith(x \o h, c) => c = x
    BY <2>1, FirstPart
  <2>. QED
    BY <2>2, <2>4, <2>5
<1>2. \A h \in FullHints : Len(h) = Width
  BY DEF FullHints
<1>3. FullHints \in SUBSET Hint /\ Width \in Nat /\ Len(c) = Width
  BY WidthAssumption DEF FullHints
<1>4. LET parts == FoundParts(hints, c, LongKeys, Width)
      IN  /\ parts \in Seq(Hint) /\ IsInjective(parts)
          /\ ToSet(parts) = SecondsOf(hints, c, FullHints)
  <2>1. Selects(CoinId, Hint, hints, c, LongKeys, FullHints, Width)
    BY <1>1, <1>2, <1>3, IndexTypes, Zenon DEF Selects
  <2>. QED
    BY <2>1, SecondParts
<1>5. Len(c) + 1 = Width + 1 /\ Len(c) + Width = 2 * Width
  BY <1>3
<1>6. SecondHalves(scan) = PartsOf(Keep(scan, LongKeys), Width + 1, 2 * Width)
  BY DEF SecondHalves, LongKeys, PartsOf
<1>. QED
  BY <1>4, <1>5, <1>6 DEF FoundParts, SecondsOf

LEMMA QueryLists ==
    ASSUME TypeOK, NEW h \in Hint, NEW m
    PROVE  /\ get_coin_ids_by_hint_bytes(h, m) = Take(CoinList(h), m)
           /\ h \in FullHints => get_coin_ids_by_hint(h, m) = Take(CoinList(h), m)
<1>1. get_coin_ids_by_hint_bytes(h, m) = Take(CoinList(h), m)
  BY DEF get_coin_ids_by_hint_bytes, CoinList, FoundParts, PartsOf, ExactKeys
<1>2. h \in FullHints => get_coin_ids_by_hint(h, m) = Take(CoinList(h), m)
  BY ByFullHint DEF get_coin_ids_by_hint
<1>. QED
  BY <1>1, <1>2

LEMMA LimitsAreNumbers ==
    Cardinality(CoinId) \in Nat /\ \A m \in Limits : m \in Nat
<1>1. Cardinality(CoinId) \in Nat
  BY WidthAssumption, FS_CardinalityType
<1>. QED
  BY <1>1 DEF Limits

\* A query by the bytes of a hint (get_coin_ids_by_hint_bytes) finds the coins
\* stored under exactly that hint, up to its limit and each once, and agrees
\* with get_coin_ids_by_hint for a hint of full length.
THEOREM HintQueryCorrect == Spec => []HintQueryIsExact
<1>1. ASSUME TypeOK PROVE HintQueryIsExact
  <2> SUFFICES ASSUME NEW h \in Hint, NEW m \in Limits
               PROVE  LET found == get_coin_ids_by_hint_bytes(h, m)
                      IN  /\ ToSet(found) \subseteq CoinsHinted(h)
                          /\ IsInjective(found)
                          /\ Len(found) = Smaller(m, Cardinality(CoinsHinted(h)))
                          /\ h \in FullHints => get_coin_ids_by_hint(h, m) = found
    BY DEF HintQueryIsExact
  <2> DEFINE list == CoinList(h)
             found == Take(list, m)
  <2>1. m \in Nat
    BY LimitsAreNumbers
  <2>2. /\ get_coin_ids_by_hint_bytes(h, m) = found
        /\ h \in FullHints => get_coin_ids_by_hint(h, m) = found
    BY <1>1, QueryLists
  <2>3. /\ list \in Seq(CoinId) /\ IsInjective(list) /\ ToSet(list) = CoinsHinted(h)
        /\ Len(list) = Cardinality(CoinsHinted(h))
    BY <1>1, ByHint
  <2> HIDE DEF list
  <2>4. /\ IsInjective(found) /\ ToSet(found) \subseteq ToSet(list)
        /\ Len(found) = Smaller(m, Len(list))
    BY <2>1, <2>3, Taken
  <2> HIDE DEF found
  <2>. QED
    BY <2>2, <2>3, <2>4
<1>. QED
  BY <1>1, HintTypesCorrect, PTL

\* The two lists that get_coin_ids_by_hints runs through.
LEMMA BatchLists ==
    ASSUME TypeOK, NEW h1 \in FullHints, NEW h2 \in FullHints, NEW m \in Nat
    PROVE  \E flat \in Seq(CoinId) :
               /\ ToSet(flat) = ToSet(Take(CoinList(h1), m)) \cup ToSet(Take(CoinList(h2), m))
               /\ get_coin_ids_by_hints(<<h1, h2>>, m) = Fresh(flat, m)
<1> DEFINE pair == <<h1, h2>>
           found == [i \in DOMAIN pair |-> get_coin_ids_by_hint(pair[i], m)]
           s == Take(CoinList(h1), m)
           t == Take(CoinList(h2), m)
           flat == FlattenSeq(found)
<1>1. h1 \in Hint /\ h2 \in Hint
  BY DEF FullHints
<1>2. get_coin_ids_by_hint(h1, m) = s /\ get_coin_ids_by_hint(h2, m) = t
  BY <1>1, QueryLists
<1>3. s \in Seq(CoinId) /\ t \in Seq(CoinId)
  BY <1>1, ByHint, Taken
<1>4. DOMAIN found = 1 .. 2 /\ found[1] = s /\ found[2] = t
  BY <1>2
<1>5. get_coin_ids_by_hints(<<h1, h2>>, m) = Fresh(flat, m)
  BY DEF get_coin_ids_by_hints
<1>6. found \in Seq(Seq(CoinId))
  <2>1. found = [i \in 1 .. 2 |-> found[i]]
    OBVIOUS
  <2> HIDE DEF found, s, t
  <2>2. \A i \in 1 .. 2 : found[i] \in Seq(CoinId)
    <3>1. \A i \in 1 .. 2 : i = 1 \/ i = 2
      OBVIOUS
    <3>. QED
      BY <1>3, <1>4, <3>1
  <2>3. found \in [1 .. 2 -> Seq(CoinId)]
    BY <2>1, <2>2
  <2>4. \E n \in Nat : found \in [1 .. n -> Seq(CoinId)]
    BY <2>3, 2 \in Nat, Zenon
  <2>. QED
    BY <2>4
<1> HIDE DEF found, s, t
<1>7. /\ flat \in Seq(CoinId)
      /\ ToSet(flat) = UNION {ToSet(found[i]) : i \in DOMAIN found}
  BY <1>6, Flattened
<1>8. ToSet(flat) = ToSet(s) \cup ToSet(t)
  <2>1. \A i : i \in DOMAIN found <=> i = 1 \/ i = 2
    BY <1>4
  <2> HIDE DEF flat
  <2>. QED
    BY <1>4, <1>7, <2>1
<1> HIDE DEF flat
<1>. QED
  BY <1>5, <1>7, <1>8 DEF s, t

\* get_coin_ids_by_hints returns different coins, and fewer than its limit only
\* if there are no more.
THEOREM BatchQueryCorrect == Spec => []BatchQueryFillsItsLimit
<1>1. ASSUME TypeOK PROVE BatchQueryFillsItsLimit
  <2> SUFFICES ASSUME NEW h1 \in FullHints, NEW h2 \in FullHints, NEW m \in Limits
               PROVE  LET found == get_coin_ids_by_hints(<<h1, h2>>, m)
                          all == CoinsHinted(h1) \cup CoinsHinted(h2)
                      IN  /\ ToSet(found) \subseteq all
                          /\ IsInjective(found)
                          /\ Len(found) = Smaller(m, Cardinality(all))
    BY DEF BatchQueryFillsItsLimit
  <2> DEFINE all == CoinsHinted(h1) \cup CoinsHinted(h2)
             found == get_coin_ids_by_hints(<<h1, h2>>, m)
  <2>1. m \in Nat /\ h1 \in Hint /\ h2 \in Hint
    BY LimitsAreNumbers DEF FullHints
  <2>2. PICK flat \in Seq(CoinId) :
            /\ ToSet(flat) = ToSet(Take(CoinList(h1), m)) \cup ToSet(Take(CoinList(h2), m))
            /\ found = Fresh(flat, m)
    BY <1>1, <2>1, BatchLists
  <2>3. /\ found \in Seq(CoinId) /\ IsInjective(found) /\ ToSet(found) \subseteq ToSet(flat)
        /\ Len(found) \in Nat /\ Len(found) <= m
        /\ Len(found) < m => ToSet(found) = ToSet(flat)
    BY <2>1, <2>2, Freshened
  <2>4. IsFiniteSet(ToSet(found)) /\ Cardinality(ToSet(found)) = Len(found)
    BY <2>3, LengthCounts
  <2> HIDE DEF found
  <2>5. ASSUME NEW h \in {h1, h2}
        PROVE  /\ ToSet(Take(CoinList(h), m)) \subseteq CoinsHinted(h)
               /\ Len(found) < m => ToSet(Take(CoinList(h), m)) = CoinsHinted(h)
    <3> DEFINE list == CoinList(h)
               taken == Take(list, m)
    <3>1. /\ list \in Seq(CoinId) /\ IsInjective(list) /\ ToSet(list) = CoinsHinted(h)
          /\ Len(list) \in Nat
      BY <1>1, <2>1, ByHint
    <3>2. ToSet(taken) \subseteq ToSet(flat)
      BY <2>2
    <3> HIDE DEF list
    <3>3. /\ taken \in Seq(CoinId) /\ IsInjective(taken) /\ ToSet(taken) \subseteq ToSet(list)
          /\ Len(taken) = Smaller(m, Len(list))
          /\ Len(list) <= m => taken = list
      BY <2>1, <3>1, Taken
    <3> HIDE DEF taken
    <3>4. Cardinality(ToSet(taken)) = Len(taken)
      BY <3>3, LengthCounts
    <3>5. ASSUME Len(found) < m PROVE ToSet(taken) = CoinsHinted(h)
      <4>1. ToSet(taken) \subseteq ToSet(found)
        BY <2>3, <3>2, <3>5
      <4>2. Cardinality(ToSet(taken)) <= Cardinality(ToSet(found))
        BY <2>4, <4>1, FS_Subset
      <4>3. Smaller(m, Len(list)) < m
        BY <2>1, <2>3, <2>4, <3>1, <3>3, <3>4, <3>5, <4>2
      <4>4. Len(list) <= m
        BY <2>1, <3>1, <4>3 DEF Smaller
      <4>. QED
        BY <3>1, <3>3, <4>4
    <3>. QED
      BY <3>1, <3>3, <3>5 DEF taken, list
  <2>6. /\ ToSet(found) \subseteq all
        /\ Len(found) < m => ToSet(found) = all
    BY <2>2, <2>3, <2>5
  <2>7. IsFiniteSet(all) /\ Cardinality(all) \in Nat
    BY <1>1, <2>1, ByHint, FS_Union, FS_CardinalityType
  <2> HIDE DEF all
  <2>8. Len(found) <= Cardinality(all)
    BY <2>4, <2>6, <2>7, FS_Subset
  <2>9. Len(found) = Smaller(m, Cardinality(all))
    BY <2>1, <2>3, <2>4, <2>6, <2>7, <2>8 DEF Smaller
  <2>. QED
    BY <2>3, <2>6, <2>9 DEF all, found
<1>. QED
  BY <1>1, HintTypesCorrect, PTL

\* The keys of the forward index, the pairs of it and the pairs of its reverse
\* are equally many.
LEMMA KeysCount ==
    ASSUME TypeOK
    PROVE  /\ Cardinality({KeyOf(pair) : pair \in hints}) = Cardinality(hints)
           /\ Cardinality(Reverses(hints)) = Cardinality(hints)
<1>1. IsFiniteSet(hints) /\ hints \in SUBSET (CoinId \X Hint)
  BY IndexTypes
<1>2. Cardinality({KeyOf(pair) : pair \in hints}) = Cardinality(hints)
  <2> DEFINE f == [pair \in hints |-> KeyOf(pair)]
             Q == {KeyOf(pair) : pair \in hints}
  <2>1. ASSUME NEW x \in hints, NEW y \in hints, KeyOf(x) = KeyOf(y) PROVE x = y
    <3>1. PICK a \in CoinId, b \in Hint : x = <<a, b>>
      BY <1>1
    <3>2. PICK c \in CoinId, d \in Hint : y = <<c, d>>
      BY <1>1
    <3>3. a \o b = c \o d
      BY <2>1, <3>1, <3>2 DEF KeyOf
    <3>4. /\ a \in Seq(Nat) /\ b \in Seq(Nat) /\ c \in Seq(Nat) /\ d \in Seq(Nat)
          /\ Len(a) = Len(c)
      BY WidthAssumption
    <3>5. StartsWith(a \o b, a)
      BY <3>4, KeyParts
    <3>6. StartsWith(c \o d, a)
      BY <3>3, <3>5
    <3>7. a = c
      BY <3>4, <3>6, FirstPart
    <3>8. b = d
      BY <3>3, <3>4, <3>7, TaggedLess
    <3>. QED
      BY <3>1, <3>2, <3>7, <3>8
  <2>2. f \in Bijection(hints, Q)
    <3>1. f \in Injection(hints, Q)
      BY <2>1 DEF Injection, IsInjective
    <3>2. f \in Surjection(hints, Q)
      BY DEF Surjection
    <3>. QED
      BY <3>1, <3>2 DEF Bijection
  <2> HIDE DEF f, Q
  <2>3. Cardinality(Q) = Cardinality(hints)
    BY <1>1, <2>2, FS_Bijection DEF ExistsBijection
  <2>. QED
    BY <2>3 DEF Q
<1>3. Cardinality(Reverses(hints)) = Cardinality(hints)
  <2> DEFINE f == [pair \in hints |-> ReverseKey(pair)]
             Q == Reverses(hints)
  <2>1. \A x, y \in hints : ReverseKey(x) = ReverseKey(y) => x = y
    BY <1>1 DEF ReverseKey
  <2>2. f \in Bijection(hints, Q)
    <3>1. f \in Injection(hints, Q)
      BY <2>1 DEF Injection, IsInjective, Reverses
    <3>2. f \in Surjection(hints, Q)
      BY DEF Surjection, Reverses
    <3>. QED
      BY <3>1, <3>2 DEF Bijection
  <2> HIDE DEF f, Q
  <2>3. Cardinality(Q) = Cardinality(hints)
    BY <1>1, <2>2, FS_Bijection DEF ExistsBijection
  <2>. QED
    BY <2>3 DEF Q
<1>. QED
  BY <1>2, <1>3

\* With a limit that no answer reaches, a query finds every coin of a hint.
LEMMA AllFound ==
    ASSUME TypeOK, NEW h \in Hint
    PROVE  LET N == Cardinality(CoinId)
           IN  /\ ToSet(get_coin_ids_by_hint_bytes(h, N)) = CoinsHinted(h)
               /\ h \in FullHints => ToSet(get_coin_ids_by_hint(h, N)) = CoinsHinted(h)
<1> DEFINE N == Cardinality(CoinId)
<1>1. N \in Nat
  BY LimitsAreNumbers
<1>2. /\ CoinList(h) \in Seq(CoinId) /\ IsInjective(CoinList(h))
      /\ ToSet(CoinList(h)) = CoinsHinted(h)
      /\ Len(CoinList(h)) = Cardinality(CoinsHinted(h))
  BY ByHint
<1>3. Cardinality(CoinsHinted(h)) <= N
  <2>1. CoinsHinted(h) \in SUBSET CoinId
    BY DEF CoinsHinted
  <2>. QED
    BY <2>1, WidthAssumption, FS_Subset
<1>4. Len(CoinList(h)) <= N
  BY <1>2, <1>3
<1> HIDE DEF N
<1>5. Take(CoinList(h), N) = CoinList(h)
  BY <1>1, <1>2, <1>4, Taken
<1>. QED
  BY <1>2, <1>5, QueryLists DEF N

\* While the two indices are in step, get_hints_for_coin_ids and
\* get_coin_ids_by_hint find each other's answers for hints of full length, and
\* count_hints counts every pair.
THEOREM QueriesInStep == Spec => []QueriesByCoinAndHintAgree
<1>1. ASSUME TypeOK PROVE QueriesByCoinAndHintAgree
  <2> DEFINE N == Cardinality(CoinId)
             Of(c) == SecondHalves(prefix_scan(hints, c))
             by_coin == get_hints_for_coin_ids(CoinId)
             Rows == {key \in Hint \X CoinId :
                         key[2] \in ToSet(get_coin_ids_by_hint_bytes(key[1], N))}
  <2> SUFFICES ASSUME hints_by_value = Reverses(hints)
               PROVE  /\ \A c \in CoinId, h \in FullHints :
                             (c \in DOMAIN by_coin /\ h \in ToSet(by_coin[c])) <=>
                                 c \in ToSet(get_coin_ids_by_hint(h, N))
                      /\ count_hints = Cardinality(Rows)
    BY DEF QueriesByCoinAndHintAgree
  <2>1. by_coin = [c \in {c \in CoinId : Of(c) # <<>>} |-> Of(c)]
    BY DEF get_hints_for_coin_ids
  <2>2. \A c \in CoinId, h \in Hint : <<h, c>> \in hints_by_value <=> <<c, h>> \in hints
    <3>1. hints \in SUBSET (CoinId \X Hint)
      BY <1>1, IndexTypes
    <3>. QED
      BY <3>1 DEF Reverses, ReverseKey
  <2>3. ASSUME NEW c \in CoinId, NEW h \in FullHints
        PROVE  (c \in DOMAIN by_coin /\ h \in ToSet(by_coin[c])) <=>
                   c \in ToSet(get_coin_ids_by_hint(h, N))
    <3>1. ToSet(Of(c)) = {x \in FullHints : <<c, x>> \in hints}
      BY <1>1, ByCoin
    <3>2. ToSet(<<>>) = {}
      BY DEF ToSet
    <3> HIDE DEF Of
    <3>3. (c \in DOMAIN by_coin /\ h \in ToSet(by_coin[c])) <=> h \in ToSet(Of(c))
      <4> HIDE DEF by_coin
      <4>1. CASE Of(c) = <<>>
        BY <2>1, <3>2, <4>1
      <4>2. CASE Of(c) # <<>>
        BY <2>1, <4>2
      <4>. QED
        BY <4>1, <4>2
    <3>4. ToSet(get_coin_ids_by_hint(h, N)) = CoinsHinted(h)
      BY <1>1, AllFound DEF FullHints
    <3>5. c \in CoinsHinted(h) <=> <<c, h>> \in hints
      BY <2>2 DEF CoinsHinted, FullHints
    <3> HIDE DEF by_coin, N
    <3>. QED
      BY <3>1, <3>3, <3>4, <3>5
  <2>4. Rows = hints_by_value
    <3>1. \A h \in Hint, c \in CoinId :
              c \in ToSet(get_coin_ids_by_hint_bytes(h, N)) <=> <<h, c>> \in hints_by_value
      <4> SUFFICES ASSUME NEW h \in Hint, NEW c \in CoinId
                   PROVE  c \in ToSet(get_coin_ids_by_hint_bytes(h, N)) <=>
                              <<h, c>> \in hints_by_value
        OBVIOUS
      <4>1. ToSet(get_coin_ids_by_hint_bytes(h, N)) = CoinsHinted(h)
        BY <1>1, AllFound
      <4>. QED
        BY <4>1 DEF CoinsHinted
    <3>2. hints_by_value \subseteq Hint \X CoinId
      BY <1>1 DEF TypeOK
    <3>. QED
      BY <3>1, <3>2
  <2>5. count_hints = Cardinality(Rows)
    BY <1>1, <2>4, KeysCount DEF count_hints
  <2>. QED
    BY <2>3, <2>5
<1>. QED
  BY <1>1, HintTypesCorrect, PTL

=============================================================================
