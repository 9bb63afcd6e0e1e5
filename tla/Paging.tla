------------------------------- MODULE Paging -------------------------------
(***************************************************************************)
(* batch_coin_states_by_puzzle_hashes (src/src/queries.rs), called page by *)
(* page while the chain moves.  A page is one call under `&self`; between  *)
(* two pages other callers may apply blocks and roll back.  The caller is  *)
(* in the process of the store and loses its cursor when that stops.       *)
(***************************************************************************)
EXTENDS Queries

CONSTANTS
    Requests,                   \* arguments callers may pass
    MAX_PUZZLE_HASH_BATCH_SIZE  \* 990 in the code

Request == [puzzle_hashes : Seq(Nat), include_spent : BOOLEAN,
            include_unspent : BOOLEAN, include_hinted : BOOLEAN,
            min_amount : Nat, max_items : Nat]

ASSUME PagingAssumption ==
    /\ Requests \subseteq Request
    /\ MAX_PUZZLE_HASH_BATCH_SIZE \in Nat

VARIABLES
    phase,      \* "idle", "paging", "done", or "refused"
    request,    \* the arguments the caller repeats for every page
    cursor,     \* the min_height of the next page
    delivered,  \* coins the pages have held so far
    repeated,   \* coins more than one page has held
    steady      \* observation: coins that match since the first call

caller == <<phase, request, cursor, delivered, repeated, steady>>
pagingVars == <<vars, caller>>

-----------------------------------------------------------------------------
(* One call.                                                               *)

\* The ids `seen` collects: direct matches, then hinted ones.
Found(q) ==
    {c \in Coin : \E ph \in Elements(q.puzzle_hashes) :
        \/ <<ph, c>> \in coin_by_puzzle_hash
        \/ q.include_hinted /\ <<ph, c>> \in hints_by_value}

\* The filters other than the one on min_height.
Matches(q) ==
    {c \in Found(q) \cap Present :
        /\ c \notin Unspent => q.include_spent
        /\ c \in Unspent => q.include_unspent
        /\ AmountOf[c] >= q.min_amount}

SortHeight(c) ==
    IF c \notin Unspent /\ Rec(c).spent_height > Rec(c).confirmed_height
    THEN Rec(c).spent_height
    ELSE Rec(c).confirmed_height

\* MAX(confirmed_height, spent_height), then coin id.
SortsBefore(c, d) ==
    \/ SortHeight(c) < SortHeight(d)
    \/ /\ SortHeight(c) = SortHeight(d)
       /\ \E j \in DOMAIN IdOrder : IdOrder[j] = d /\ \E i \in 1 .. j - 1 : IdOrder[i] = c

\* The coin at position n has n - 1 coins before it.
InPageOrder(C) ==
    [n \in 1 .. Cardinality(C) |->
        CHOOSE c \in C : Cardinality({d \in C : SortsBefore(d, c)}) = n - 1]

\* Fault: the lower bound is exclusive.
Candidates_Exclusive(q, min_height) ==
    InPageOrder({c \in Matches(q) : Rec(c).confirmed_height > min_height})

Candidates(q, min_height) ==
    InPageOrder({c \in Matches(q) : Rec(c).confirmed_height >= min_height})

\* Fault: the page is cut without regard to heights.
PageEnd_Split(found, max_items) == max_items

\* Where an overfull list is cut: before the block of its overflow item.
PageEnd(found, max_items) ==
    Cardinality({i \in 1 .. max_items :
                    SortHeight(found[i]) < SortHeight(found[max_items + 1])})

\* Fault: the cursor is the height of the last item instead of the overflow.
Page_LastItem(found, max_items) ==
    IF Len(found) <= max_items
    THEN [states |-> found, next_height |-> None]
    ELSE [states |-> SubSeq(found, 1, PageEnd(found, max_items)),
          next_height |-> SortHeight(found[max_items])]

Page(found, max_items) ==
    IF Len(found) <= max_items
    THEN [states |-> found, next_height |-> None]
    ELSE [states |-> SubSeq(found, 1, PageEnd(found, max_items)),
          next_height |-> SortHeight(found[max_items + 1])]

-----------------------------------------------------------------------------
(* The caller's loop.                                                      *)

NoRequest ==
    [puzzle_hashes |-> <<>>, include_spent |-> FALSE, include_unspent |-> FALSE,
     include_hinted |-> FALSE, min_amount |-> 0, max_items |-> 0]

Start(q) ==
    /\ up
    /\ phase = "idle"
    /\ phase' = IF Len(q.puzzle_hashes) > MAX_PUZZLE_HASH_BATCH_SIZE
                THEN "refused" ELSE "paging"
    /\ request' = q
    /\ cursor' = 0
    /\ delivered' = {} /\ repeated' = {}
    /\ steady' = Matches(q)
    /\ UNCHANGED vars

NextPage ==
    /\ up
    /\ phase = "paging"
    /\ \E found \in {Candidates(request, cursor)} :
           \E page \in {Page(found, request.max_items)} :
               LET held == Elements(page.states)
               IN  /\ delivered' = delivered \cup held
                   /\ repeated' = repeated \cup (delivered \cap held)
                   /\ IF page.next_height = None
                      THEN phase' = "done" /\ cursor' = cursor
                      ELSE phase' = phase /\ cursor' = page.next_height
    /\ UNCHANGED <<vars, request, steady>>

\* A step of the chain; a stop of the process ends the caller as well.
ChainStep ==
    /\ Next
    /\ IF up'
       THEN /\ UNCHANGED <<phase, request, cursor, delivered, repeated>>
            /\ steady' = steady \cap Matches(request)'
       ELSE /\ phase' = "idle"
            /\ request' = NoRequest
            /\ cursor' = 0
            /\ delivered' = {} /\ repeated' = {} /\ steady' = {}

PagingInit ==
    /\ Init
    /\ phase = "idle"
    /\ request = NoRequest
    /\ cursor = 0
    /\ delivered = {} /\ repeated = {} /\ steady = {}

PagingNext ==
    \/ ChainStep
    \/ \E q \in Requests : Start(q)
    \/ NextPage

\* The caller asks for the next page as long as there is one.
PagingSpec == PagingInit /\ [][PagingNext]_pagingVars /\ WF_pagingVars(NextPage)

-----------------------------------------------------------------------------
(* Properties.                                                             *)

\* A caller that asks for unspent coins receives, by its last page, every coin
\* that matched from its first call on, whatever blocks and rollbacks come
\* between the pages.
UnspentCoinsAreDelivered ==
    (phase = "done" /\ ~request.include_spent) => steady \subseteq delivered

\* No page repeats a coin of an earlier one, spent coins included, unless the
\* coin stopped matching in between.
PagesDoNotRepeat == repeated \cap steady = {}

\* No block holds more matching coins than a page has room for.
BlocksFit ==
    LET matching == Matches(request)
    IN  \A h \in 0 .. height :
            Cardinality({c \in matching : SortHeight(c) = h}) <= request.max_items

\* A caller that repeats the call with the returned height reaches the last
\* page even while blocks and rollbacks go on, unless it meets a chain with a
\* block that does not fit in a page.
PagingEnds == phase = "paging" ~> (phase # "paging" \/ ~BlocksFit)

\* SPEC.md 3.5: the caller can resume at next_height without missing coins,
\* whichever filters it chose.
MatchingCoinsAreDelivered == phase = "done" => steady \subseteq delivered

=============================================================================
