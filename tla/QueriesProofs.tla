---------------------------- MODULE QueriesProofs ----------------------------
(***************************************************************************)
(* Theorems about the queries and about paging through them while the      *)
(* chain moves.                                                            *)
(***************************************************************************)
EXTENDS Paging, CoinStoreProofs, OrderProofs

-----------------------------------------------------------------------------
(* The order of a page.                                                    *)

\* IdOrder lists every coin once, so ids compare like their positions in it.
LEMMA IdsHavePositions ==
    \E p \in [Coin -> Nat] :
        /\ \A c, d \in Coin : p[c] = p[d] => c = d
        /\ \A c, d \in Coin :
               (\E j \in DOMAIN IdOrder :
                    IdOrder[j] = d /\ \E i \in 1 .. j - 1 : IdOrder[i] = c)
                   <=> p[c] < p[d]
<1> DEFINE D == 1 .. Len(IdOrder)
<1>1. IdOrder \in Seq(Coin) /\ Elements(IdOrder) = Coin /\ Len(IdOrder) = Cardinality(Coin)
  BY QueriesAssumption
<1>2. Len(IdOrder) \in Nat /\ DOMAIN IdOrder = D /\ IdOrder \in [D -> Coin]
  BY <1>1
<1>3. IdOrder \in Surjection(D, Coin)
  BY <1>1, <1>2 DEF Surjection, Elements
<1>4. IsFiniteSet(D) /\ Cardinality(D) = Cardinality(Coin)
  <2>1. IsFiniteSet(1 .. Len(IdOrder)) /\ Cardinality(1 .. Len(IdOrder)) =
            IF 1 > Len(IdOrder) THEN 0 ELSE Len(IdOrder) - 1 + 1
    BY <1>2, FS_Interval, SMTT(30)
  <2>. QED
    BY <1>1, <1>2, <2>1
<1>5. IdOrder \in Injection(D, Coin)
  BY <1>3, <1>4, FS_SurjSameCardinalityImpliesInj
<1>6. \A i, j \in D : IdOrder[i] = IdOrder[j] => i = j
  BY <1>2, <1>5 DEF Injection, IsInjective
<1> DEFINE p == [c \in Coin |-> CHOOSE j \in D : IdOrder[j] = c]
<1>7. \A c \in Coin : \E j \in D : IdOrder[j] = c
  BY <1>3 DEF Surjection
<1>8. \A c \in Coin : p[c] \in D /\ IdOrder[p[c]] = c
  BY <1>7
<1> HIDE DEF p
<1>9. p \in [Coin -> Nat]
  <2>1. p = [c \in Coin |-> p[c]]
    BY DEF p
  <2>2. \A c \in Coin : p[c] \in Nat
    BY <1>2, <1>8
  <2>. QED
    BY <2>1, <2>2
<1>10. \A c, d \in Coin : p[c] = p[d] => c = d
  BY <1>8
<1>11. ASSUME NEW c \in Coin, NEW d \in Coin
       PROVE  (\E j \in DOMAIN IdOrder :
                   IdOrder[j] = d /\ \E i \in 1 .. j - 1 : IdOrder[i] = c)
                  <=> p[c] < p[d]
  <2>1. ASSUME NEW j \in D, IdOrder[j] = d, NEW i \in 1 .. j - 1, IdOrder[i] = c
        PROVE  p[c] < p[d]
    <3>1. i \in D /\ j \in D /\ i < j
      BY <1>2, <2>1
    <3>2. p[c] = i /\ p[d] = j
      BY <1>6, <1>8, <2>1, <3>1
    <3>. QED
      BY <3>1, <3>2
  <2>2. ASSUME p[c] < p[d]
        PROVE  \E j \in DOMAIN IdOrder :
                   IdOrder[j] = d /\ \E i \in 1 .. j - 1 : IdOrder[i] = c
    <3>1. p[d] \in D /\ p[c] \in 1 .. p[d] - 1
      BY <1>2, <1>8, <2>2
    <3>. QED
      BY <1>2, <1>8, <3>1
  <2>. QED
    BY <1>2, <2>1, <2>2
<1>. QED
  BY <1>9, <1>10, <1>11

LEMMA SortHeightType ==
    ASSUME TypeOK, NEW c \in Present
    PROVE  /\ Rec(c).confirmed_height \in Nat
           /\ SortHeight(c) \in Nat
           /\ Rec(c).confirmed_height <= SortHeight(c)
           /\ c \in Unspent => SortHeight(c) = Rec(c).confirmed_height
<1>1. Rec(c) \in CoinRecord
  BY RecType
<1>2. Rec(c).confirmed_height \in Nat /\ Rec(c).spent_height \in Nat \cup {None}
  BY <1>1 DEF CoinRecord
<1>3. CASE c \in Unspent
  BY <1>2, <1>3 DEF SortHeight
<1>4. CASE c \notin Unspent
  <2>1. Rec(c).spent_height \in Nat
    BY <1>2, <1>4 DEF Unspent
  <2>. QED
    BY <1>2, <1>4, <2>1 DEF SortHeight
<1>. QED
  BY <1>3, <1>4

\* The list of candidates holds every one of them once, by height.
LEMMA PageOrder ==
    ASSUME TypeOK, NEW C \in SUBSET Present
    PROVE  LET found == InPageOrder(C)
           IN  /\ Cardinality(C) \in Nat
               /\ found \in [1 .. Cardinality(C) -> C]
               /\ \A c \in C : \E n \in 1 .. Cardinality(C) : found[n] = c
               /\ \A m, n \in 1 .. Cardinality(C) : m < n =>
                      /\ SortHeight(found[m]) <= SortHeight(found[n])
                      /\ found[m] # found[n]
<1> DEFINE Below == [c \in C |-> {d \in C : SortsBefore(d, c)}]
           found == InPageOrder(C)
<1>1. PICK p \in [Coin -> Nat] :
          /\ \A c, d \in Coin : p[c] = p[d] => c = d
          /\ \A c, d \in Coin :
                 (\E j \in DOMAIN IdOrder :
                      IdOrder[j] = d /\ \E i \in 1 .. j - 1 : IdOrder[i] = c)
                     <=> p[c] < p[d]
  BY IdsHavePositions
<1>2. C \subseteq Coin /\ IsFiniteSet(C)
  <2>1. C \in SUBSET Coin
    BY DEF Present
  <2>. QED
    BY <2>1, ConstantsAssumption, FS_Subset
<1>3. \A c \in C : SortHeight(c) \in Nat /\ p[c] \in Nat
  BY <1>2, SortHeightType
<1>4. \A c, d \in C : SortsBefore(c, d) <=>
          \/ SortHeight(c) < SortHeight(d)
          \/ SortHeight(c) = SortHeight(d) /\ p[c] < p[d]
  <2> TAKE c, d \in C
  <2>1. c \in Coin /\ d \in Coin
    BY <1>2
  <2>2. (\E j \in DOMAIN IdOrder :
             IdOrder[j] = d /\ \E i \in 1 .. j - 1 : IdOrder[i] = c) <=> p[c] < p[d]
    BY <1>1, <2>1
  <2>. QED
    BY <2>2, Zenon DEF SortsBefore
<1>5. \A c, d \in C : p[c] = p[d] => c = d
  BY <1>1, <1>2
<1>6. TotalOrder(C, Below)
  <2>1. Below \in [C -> SUBSET C]
    OBVIOUS
  <2>2. \A x \in C : x \notin Below[x]
    BY <1>3, <1>4
  <2>3. \A x, y \in C : y \in Below[x] => Below[y] \subseteq Below[x]
    <3> SUFFICES ASSUME NEW x \in C, NEW y \in C, SortsBefore(y, x),
                        NEW z \in C, SortsBefore(z, y)
                 PROVE  SortsBefore(z, x)
      OBVIOUS
    <3>. QED
      BY <1>3, <1>4
  <2>4. \A x, y \in C : x = y \/ x \in Below[y] \/ y \in Below[x]
    <3> SUFFICES ASSUME NEW x \in C, NEW y \in C, x # y
                 PROVE  SortsBefore(x, y) \/ SortsBefore(y, x)
      OBVIOUS
    <3>. QED
      BY <1>3, <1>4, <1>5
  <2> HIDE DEF Below
  <2>. QED
    BY <1>2, <2>1, <2>2, <2>3, <2>4 DEF TotalOrder
<1>7. found = ByRank(C, Below)
  <2>1. \A c \in C : Below[c] = {d \in C : SortsBefore(d, c)}
    OBVIOUS
  <2>2. \A n \in 1 .. Cardinality(C) :
            (CHOOSE c \in C : Cardinality({d \in C : SortsBefore(d, c)}) = n - 1)
                = CHOOSE c \in C : Cardinality(Below[c]) = n - 1
    <3> HIDE DEF Below
    <3> TAKE n \in 1 .. Cardinality(C)
    <3>1. \A c : (c \in C /\ Cardinality({d \in C : SortsBefore(d, c)}) = n - 1)
                     <=> (c \in C /\ Cardinality(Below[c]) = n - 1)
      BY <2>1
    <3>. QED
      BY <3>1, Zenon
  <2> HIDE DEF Below
  <2>. QED
    BY <2>2, SMTT(30) DEF InPageOrder, ByRank
<1>8. /\ Cardinality(C) \in Nat
      /\ found \in [1 .. Cardinality(C) -> C]
      /\ \A x \in C : /\ Cardinality(Below[x]) + 1 \in 1 .. Cardinality(C)
                      /\ found[Cardinality(Below[x]) + 1] = x
      /\ \A m, n \in 1 .. Cardinality(C) : m < n => found[m] \in Below[found[n]]
  <2> HIDE DEF Below, found
  <2>. QED
    BY <1>6, <1>7, Listed
<1>9. \A c \in C : \E n \in 1 .. Cardinality(C) : found[n] = c
  <2> HIDE DEF Below, found
  <2>. QED
    BY <1>8
<1>10. ASSUME NEW m \in 1 .. Cardinality(C), NEW n \in 1 .. Cardinality(C), m < n
       PROVE  SortHeight(found[m]) <= SortHeight(found[n]) /\ found[m] # found[n]
  <2> HIDE DEF found
  <2>1. found[m] \in C /\ found[n] \in C /\ SortsBefore(found[m], found[n])
    BY <1>8, <1>10
  <2>. QED
    BY <1>3, <1>4, <2>1
<1>. QED
  BY <1>8, <1>9, <1>10

\* What a page holds: coins below the returned height only, and all of them.
LEMMA PageHolds ==
    ASSUME TypeOK, NEW C \in SUBSET Present, NEW max_items \in Nat
    PROVE  LET page == Page(InPageOrder(C), max_items)
               held == Elements(page.states)
           IN  /\ held \subseteq C
               /\ page.next_height = None => held = C
               /\ page.next_height # None =>
                      /\ page.next_height \in Nat
                      /\ \E c \in C : SortHeight(c) = page.next_height
                      /\ \A c \in C : c \in held <=> SortHeight(c) < page.next_height
<1> DEFINE found == InPageOrder(C)
           N == Cardinality(C)
           page == Page(found, max_items)
           held == Elements(page.states)
<1> SUFFICES /\ held \subseteq C
             /\ page.next_height = None => held = C
             /\ page.next_height # None =>
                    /\ page.next_height \in Nat
                    /\ \E c \in C : SortHeight(c) = page.next_height
                    /\ \A c \in C : c \in held <=> SortHeight(c) < page.next_height
  OBVIOUS
<1>1. /\ N \in Nat /\ found \in [1 .. N -> C]
      /\ \A c \in C : \E n \in 1 .. N : found[n] = c
      /\ \A m, n \in 1 .. N : m < n => SortHeight(found[m]) <= SortHeight(found[n])
  BY PageOrder
<1>2. \A c \in C : SortHeight(c) \in Nat
  BY SortHeightType
<1> HIDE DEF found, N
<1>3. found \in Seq(C) /\ Len(found) = N /\ DOMAIN found = 1 .. N
  BY <1>1
<1>4. None \notin Nat
  BY ConstantsAssumption
<1>5. CASE N <= max_items
  <2>1. page.states = found /\ page.next_height = None
    BY <1>3, <1>5 DEF Page
  <2>2. held = C
    BY <1>1, <1>3, <2>1 DEF Elements
  <2> HIDE DEF held, page
  <2>. QED
    BY <2>1, <2>2
<1>6. CASE ~(N <= max_items)
  <2> DEFINE m == max_items
             top == SortHeight(found[m + 1])
             D == {i \in 1 .. m : SortHeight(found[i]) < top}
             k == Cardinality(D)
  <2>1. m + 1 \in 1 .. N /\ found[m + 1] \in C /\ top \in Nat
    BY <1>1, <1>2, <1>6
  <2>2. \A i \in 1 .. N : found[i] \in C /\ SortHeight(found[i]) \in Nat
    BY <1>1, <1>2
  <2>3. \A i \in 1 .. m : i \in 1 .. N
    BY <1>1, <1>6
  <2>4. \A x \in D, y \in 1 .. m : y <= x => y \in D
    <3> SUFFICES ASSUME NEW x \in D, NEW y \in 1 .. m, y <= x
                 PROVE  SortHeight(found[y]) < top
      OBVIOUS
    <3>1. SortHeight(found[y]) <= SortHeight(found[x])
      BY <1>1, <2>2, <2>3
    <3>. QED
      BY <2>1, <2>2, <2>3, <3>1
  <2>5. D \in SUBSET (1 .. m)
    OBVIOUS
  <2>6. k \in 0 .. m /\ \A x \in 1 .. m : x \in D <=> x <= k
    <3> HIDE DEF D
    <3>. QED
      BY <2>4, <2>5, NoGap
  <2>7. page.states = SubSeq(found, 1, k) /\ page.next_height = top
    BY <1>3, <1>6 DEF Page, PageEnd
  <2>8. page.next_height # None /\ page.next_height \in Nat
    BY <1>4, <2>1, <2>7
  <2> HIDE DEF k, D, page
  <2>9. /\ DOMAIN page.states = 1 .. k
        /\ \A i \in 1 .. k : page.states[i] = found[i] /\ i \in 1 .. m
    BY <1>1, <1>3, <1>6, <2>6, <2>7
  <2>10. held = {found[i] : i \in 1 .. k}
    BY <2>9 DEF Elements
  <2>11. \A i \in 1 .. k : i \in 1 .. N /\ SortHeight(found[i]) < top
    BY <2>3, <2>6, <2>9 DEF D
  <2>12. held \subseteq C
    BY <2>2, <2>10, <2>11
  <2>13. ASSUME NEW c \in C, SortHeight(c) < top PROVE c \in held
    <3>1. PICK n \in 1 .. N : found[n] = c
      BY <1>1
    <3>2. ~(m + 1 < n) /\ n # m + 1
      BY <1>1, <1>2, <2>1, <2>13, <3>1
    <3>3. n \in 1 .. m
      BY <1>1, <3>2
    <3>4. n \in D
      BY <2>13, <3>1, <3>3 DEF D
    <3>5. n \in 1 .. k
      BY <2>6, <3>3, <3>4
    <3>. QED
      BY <2>10, <3>1, <3>5
  <2>14. \A c \in held : SortHeight(c) < top
    BY <2>10, <2>11
  <2> HIDE DEF held
  <2>. QED
    BY <2>1, <2>7, <2>8, <2>12, <2>13, <2>14
<1>. QED
  BY <1>5, <1>6

-----------------------------------------------------------------------------
(* Paging beside the chain.                                                *)

\* A coin that is there before and after a step keeps the height that created
\* it: neither a block that spends it nor a rollback that revives it moves it,
\* and no step deletes a coin and creates it again.
LEMMA HeightStays ==
    ASSUME HonestBlocks, IInv, [Next]_vars, NEW c \in Present, c \in Present'
    PROVE  Rec(c)'.confirmed_height = Rec(c).confirmed_height
<1>1. TypeOK
  BY DEF IInv
<1>2. CASE UNCHANGED disk
  BY <1>2 DEF disk, coinCFs, Rec
<1>3. ASSUME NEW g \in Geneses, InitGenesisCommits(g) PROVE FALSE
  BY <1>3 DEF IInv, DiskInv, MemoryInv, GenesisFirst, MemoryMatchesDisk,
              InitGenesisCommits
<1>4. ASSUME NEW b \in Blocks, ApplyBlockCommits(b)
      PROVE  Rec(c)'.confirmed_height = Rec(c).confirmed_height
  BY <1>1, <1>4, ApplyEffects
<1>5. ASSUME NEW t \in Int, RollbackCommits(t)
      PROVE  Rec(c)'.confirmed_height = Rec(c).confirmed_height
  BY <1>1, <1>5, RollbackEffects
<1>. QED
  BY <1>1, <1>2, <1>3, <1>4, <1>5, DiskSteps

CallerTypes ==
    /\ phase \in {"idle", "paging", "done", "refused"}
    /\ request \in Requests \cup {NoRequest}
    /\ cursor \in Nat

\* What the caller has at the cursor: of the coins that matched all along it
\* holds none from the cursor on and, if it asked for unspent coins, all below.
AtCursor ==
    phase = "paging" =>
        /\ \A c \in steady \cap delivered : Rec(c).confirmed_height < cursor
        /\ ~request.include_spent =>
               \A c \in steady : Rec(c).confirmed_height < cursor => c \in delivered

CallerInv ==
    /\ CallerTypes
    /\ steady \subseteq Matches(request)
    /\ AtCursor
    /\ UnspentCoinsAreDelivered
    /\ PagesDoNotRepeat

PagingInv == IInv /\ CallerInv

LEMMA RequestType ==
    ASSUME CallerTypes
    PROVE  request.max_items \in Nat /\ request.include_spent \in BOOLEAN
<1>1. NoRequest \in Request
  BY DEF NoRequest, Request
<1>2. request \in Request
  BY <1>1, PagingAssumption DEF CallerTypes
<1>. QED
  BY <1>2 DEF Request

LEMMA MatchesPresent ==
    ASSUME NEW q
    PROVE  /\ Matches(q) \subseteq Present
           /\ ~q.include_spent => Matches(q) \subseteq Unspent
BY DEF Matches

LEMMA NextPageStep ==
    ASSUME PagingInv, NextPage
    PROVE  CallerInv'
<1> DEFINE C == {c \in Matches(request) : Rec(c).confirmed_height >= cursor}
           page == Page(InPageOrder(C), request.max_items)
           held == Elements(page.states)
<1>1. /\ phase = "paging"
      /\ delivered' = delivered \cup held
      /\ repeated' = repeated \cup (delivered \cap held)
      /\ IF page.next_height = None
         THEN phase' = "done" /\ cursor' = cursor
         ELSE phase' = phase /\ cursor' = page.next_height
      /\ request' = request /\ steady' = steady
  BY DEF NextPage, Candidates
<1>2. UNCHANGED <<coin_records, coin_by_puzzle_hash, hints_by_value>>
  BY DEF NextPage, vars, disk, coinCFs, hintCFs
<1>3. Matches(request)' = Matches(request)
  BY <1>1, <1>2 DEF Matches, Found, Present, Unspent, Rec
<1>4. \A c : Rec(c)' = Rec(c)
  BY <1>2 DEF Rec
<1>5. /\ TypeOK /\ CallerTypes /\ steady \subseteq Matches(request) /\ AtCursor
      /\ UnspentCoinsAreDelivered /\ PagesDoNotRepeat
  BY DEF PagingInv, CallerInv, IInv
<1>6. Matches(request) \subseteq Present
  BY MatchesPresent
<1>7. C \in SUBSET Present
  BY <1>6
<1>8. /\ held \subseteq C
      /\ page.next_height = None => held = C
      /\ page.next_height # None =>
             /\ page.next_height \in Nat
             /\ \E c \in C : SortHeight(c) = page.next_height
             /\ \A c \in C : c \in held <=> SortHeight(c) < page.next_height
  <2> HIDE DEF C
  <2>. QED
    BY <1>5, <1>7, RequestType, PageHolds
<1>9. \A c \in Matches(request) :
          /\ Rec(c).confirmed_height \in Nat /\ SortHeight(c) \in Nat
          /\ Rec(c).confirmed_height <= SortHeight(c)
          /\ c \in Unspent => SortHeight(c) = Rec(c).confirmed_height
  BY <1>5, <1>6, SortHeightType
<1>10. cursor \in Nat /\ request.include_spent \in BOOLEAN
  BY <1>5, RequestType DEF CallerTypes
<1>11. ~request.include_spent => Matches(request) \subseteq Unspent
  BY MatchesPresent
<1> HIDE DEF page, held
<1>12. CallerTypes'
  BY <1>1, <1>5, <1>8 DEF CallerTypes
<1>13. steady' \subseteq Matches(request)'
  BY <1>1, <1>3, <1>5
<1>14. \A c \in steady \cap delivered : Rec(c).confirmed_height < cursor
  BY <1>1, <1>5 DEF AtCursor
<1>15. PagesDoNotRepeat'
  <2>1. \A c \in steady \cap delivered : c \notin held
    BY <1>5, <1>8, <1>9, <1>10, <1>14
  <2>. QED
    BY <1>1, <1>5, <2>1 DEF PagesDoNotRepeat
<1>16. \A c \in steady : ~request.include_spent =>
           (c \in delivered \/ c \in C)
  BY <1>1, <1>5, <1>9, <1>10 DEF AtCursor
<1>17. UnspentCoinsAreDelivered'
  BY <1>1, <1>8, <1>16 DEF UnspentCoinsAreDelivered
<1>18. AtCursor'
  <2> SUFFICES ASSUME phase' = "paging"
               PROVE  /\ \A c \in steady \cap delivered' : Rec(c).confirmed_height < cursor'
                      /\ ~request.include_spent =>
                             \A c \in steady : Rec(c).confirmed_height < cursor'
                                 => c \in delivered'
    BY <1>1, <1>4 DEF AtCursor
  <2>1. page.next_height # None /\ cursor' = page.next_height
    BY <1>1
  <2>2. cursor <= cursor' /\ cursor' \in Nat
    BY <1>8, <1>9, <1>10, <2>1
  <2>3. ASSUME NEW c \in steady, c \in delivered' PROVE Rec(c).confirmed_height < cursor'
    <3>1. c \in Matches(request)
      BY <1>5
    <3>2. CASE c \in delivered
      BY <1>9, <1>10, <1>14, <2>2, <3>1, <3>2
    <3>3. CASE c \in held
      BY <1>8, <1>9, <2>1, <2>2, <3>1, <3>3
    <3>. QED
      BY <1>1, <2>3, <3>2, <3>3
  <2>4. ASSUME ~request.include_spent, NEW c \in steady,
               Rec(c).confirmed_height < cursor'
        PROVE  c \in delivered'
    <3>1. c \in delivered \/ c \in C
      BY <1>16, <2>4
    <3>2. SortHeight(c) = Rec(c).confirmed_height
      BY <1>5, <1>9, <1>11, <2>4
    <3>. QED
      BY <1>1, <1>8, <2>1, <2>4, <3>1, <3>2
  <2>. QED
    BY <2>3, <2>4
<1>. QED
  BY <1>12, <1>13, <1>15, <1>17, <1>18 DEF CallerInv

LEMMA StartStep ==
    ASSUME PagingInv, NEW q \in Requests, Start(q)
    PROVE  CallerInv'
<1>1. /\ phase' \in {"refused", "paging"} /\ request' = q /\ cursor' = 0
      /\ delivered' = {} /\ repeated' = {} /\ steady' = Matches(q)
  BY DEF Start
<1>2. UNCHANGED <<coin_records, coin_by_puzzle_hash, hints_by_value>>
  BY DEF Start, vars, disk, coinCFs, hintCFs
<1>3. Matches(request)' = Matches(q)
  BY <1>1, <1>2 DEF Matches, Found, Present, Unspent, Rec
<1>4. \A c : Rec(c)' = Rec(c)
  BY <1>2 DEF Rec
<1>5. \A c \in Matches(q) : ~(Rec(c).confirmed_height < 0)
  BY MatchesPresent, SortHeightType DEF PagingInv, IInv
<1>6. CallerTypes'
  BY <1>1 DEF CallerTypes
<1>7. AtCursor'
  BY <1>1, <1>4, <1>5 DEF AtCursor
<1>8. UnspentCoinsAreDelivered' /\ PagesDoNotRepeat'
  BY <1>1 DEF UnspentCoinsAreDelivered, PagesDoNotRepeat
<1>. QED
  BY <1>1, <1>3, <1>6, <1>7, <1>8 DEF CallerInv

\* A step of the chain may take coins from the steady ones, but moves none of
\* those that stay across the cursor.
LEMMA ChainKeepsCaller ==
    ASSUME HonestBlocks, PagingInv, [Next]_vars,
           UNCHANGED <<phase, request, cursor, delivered, repeated>>,
           steady' \subseteq steady, steady' \subseteq Matches(request)'
    PROVE  CallerInv'
<1>1. /\ IInv /\ CallerTypes /\ steady \subseteq Matches(request) /\ AtCursor
      /\ UnspentCoinsAreDelivered /\ PagesDoNotRepeat
  BY DEF PagingInv, CallerInv
<1>2. CallerTypes'
  BY <1>1 DEF CallerTypes
<1>3. Matches(request) \subseteq Present /\ Matches(request)' \subseteq Present'
  BY DEF Matches
<1>4. \A c \in steady' : c \in Present /\ c \in Present'
  BY <1>1, <1>3
<1>5. \A c \in steady' : Rec(c)'.confirmed_height = Rec(c).confirmed_height
  BY <1>1, <1>4, HeightStays
<1>6. AtCursor'
  BY <1>1, <1>5 DEF AtCursor
<1>7. UnspentCoinsAreDelivered' /\ PagesDoNotRepeat'
  BY <1>1 DEF UnspentCoinsAreDelivered, PagesDoNotRepeat
<1>. QED
  BY <1>2, <1>6, <1>7 DEF CallerInv

LEMMA CallerStops ==
    ASSUME phase' = "idle", request' = NoRequest, cursor' = 0,
           delivered' = {}, repeated' = {}, steady' = {}
    PROVE  CallerInv'
BY DEF CallerInv, CallerTypes, AtCursor, UnspentCoinsAreDelivered, PagesDoNotRepeat

LEMMA PagingNextInv ==
    ASSUME HonestBlocks, PagingInv, [PagingNext]_pagingVars
    PROVE  PagingInv'
<1>1. CASE ChainStep
  <2>1. Next /\ IInv'
    BY <1>1, NextInv DEF ChainStep, PagingInv
  <2>2. CASE up'
    <3>1. /\ UNCHANGED <<phase, request, cursor, delivered, repeated>>
          /\ steady' = steady \cap Matches(request)'
      BY <1>1, <2>2 DEF ChainStep
    <3>2. steady' \subseteq steady /\ steady' \subseteq Matches(request)'
      BY <3>1
    <3>. QED
      BY <2>1, <3>1, <3>2, ChainKeepsCaller DEF PagingInv
  <2>3. CASE ~up'
    BY <1>1, <2>1, <2>3, CallerStops DEF ChainStep, PagingInv
  <2>. QED
    BY <2>2, <2>3
<1>2. ASSUME NEW q \in Requests, Start(q) PROVE PagingInv'
  <2>1. IInv'
    BY <1>2, NextInv DEF Start, PagingInv
  <2>. QED
    BY <1>2, <2>1, StartStep DEF PagingInv
<1>3. CASE NextPage
  <2>1. IInv'
    BY <1>3, NextInv DEF NextPage, PagingInv
  <2>. QED
    BY <1>3, <2>1, NextPageStep DEF PagingInv
<1>4. CASE UNCHANGED pagingVars
  <2>1. UNCHANGED <<vars, phase, request, cursor, delivered, repeated, steady>>
    BY <1>4 DEF pagingVars, caller
  <2>2. IInv'
    BY <2>1, NextInv DEF PagingInv
  <2>3. Matches(request)' = Matches(request)
    BY <2>1 DEF Matches, Found, Present, Unspent, Rec, vars, disk, coinCFs, hintCFs
  <2>4. steady' \subseteq steady /\ steady' \subseteq Matches(request)'
    BY <2>1, <2>3 DEF PagingInv, CallerInv
  <2>. QED
    BY <2>1, <2>2, <2>4, ChainKeepsCaller DEF PagingInv
<1>. QED
  BY <1>1, <1>2, <1>3, <1>4 DEF PagingNext

LEMMA PagingInitInv == PagingInit => PagingInv
<1> SUFFICES ASSUME PagingInit PROVE PagingInv
  OBVIOUS
<1>1. IInv
  BY InitInv DEF PagingInit
<1>2. CallerInv
  BY DEF PagingInit, CallerInv, CallerTypes, AtCursor, UnspentCoinsAreDelivered,
         PagesDoNotRepeat
<1>. QED
  BY <1>1, <1>2 DEF PagingInv

\* The inductive invariant of a caller that pages while the chain moves.
THEOREM PagingInvariance == ASSUME HonestBlocks PROVE PagingSpec => []PagingInv
<1>1. PagingInv /\ [PagingNext]_pagingVars => PagingInv'
  BY PagingNextInv
<1>. QED
  BY <1>1, PagingInitInv, PTL DEF PagingSpec

\* Resuming batch_coin_states_by_puzzle_hashes at the returned height, a caller
\* that asks for unspent coins misses none that matched all along, for every
\* size of page and every mix of blocks and rollbacks between the pages.
THEOREM PagingDelivers ==
    ASSUME HonestBlocks PROVE PagingSpec => []UnspentCoinsAreDelivered
<1>1. PagingInv => UnspentCoinsAreDelivered
  BY DEF PagingInv, CallerInv
<1>. QED
  BY <1>1, PagingInvariance, PTL

\* Cutting a page before the block of its overflow item, and never within a
\* block, makes sure that no later page repeats a coin that still matches.
THEOREM PagingDoesNotRepeat ==
    ASSUME HonestBlocks PROVE PagingSpec => []PagesDoNotRepeat
<1>1. PagingInv => PagesDoNotRepeat
  BY DEF PagingInv, CallerInv
<1>. QED
  BY <1>1, PagingInvariance, PTL

-----------------------------------------------------------------------------
(* What the scans and the filters of the queries find.                     *)

LEMMA ListElements ==
    ASSUME NEW list
    PROVE  Elements(list) = ToSet(list)
BY DEF Elements, ToSet

LEMMA IdOrderList ==
    /\ IdOrder \in Seq(Coin) /\ Elements(IdOrder) = Coin /\ IsInjective(IdOrder)
<1>1. IdOrder \in Seq(Coin) /\ Elements(IdOrder) = Coin
  BY QueriesAssumption
<1>2. PICK p \in [Coin -> Nat] :
          /\ \A c, d \in Coin : p[c] = p[d] => c = d
          /\ \A c, d \in Coin :
                 (\E j \in DOMAIN IdOrder :
                      IdOrder[j] = d /\ \E i \in 1 .. j - 1 : IdOrder[i] = c)
                     <=> p[c] < p[d]
  BY IdsHavePositions
<1>3. \A i, j \in DOMAIN IdOrder : i < j => IdOrder[i] # IdOrder[j]
  <2> SUFFICES ASSUME NEW i \in DOMAIN IdOrder, NEW j \in DOMAIN IdOrder, i < j,
                      IdOrder[i] = IdOrder[j]
               PROVE  FALSE
    OBVIOUS
  <2>1. IdOrder[j] \in Coin /\ i \in 1 .. j - 1
    BY <1>1
  <2>2. p[IdOrder[j]] < p[IdOrder[j]]
    BY <1>2, <2>1
  <2>. QED
    BY <2>1, <2>2
<1>4. \A i, j \in DOMAIN IdOrder : IdOrder[i] = IdOrder[j] => i = j
  BY <1>1, <1>3
<1>. QED
  BY <1>1, <1>4 DEF IsInjective

LEMMA KeptCoins ==
    ASSUME NEW list \in Seq(Coin), NEW S
    PROVE  /\ Keep(list, S) \in Seq(Coin)
           /\ Elements(Keep(list, S)) = Elements(list) \cap S
           /\ IsInjective(list) => IsInjective(Keep(list, S))
BY Kept, ListElements

LEMMA ScanElements ==
    ASSUME NEW cf, NEW prefix
    PROVE  /\ PrefixScan(cf, prefix) \in Seq(Coin)
           /\ Elements(PrefixScan(cf, prefix)) = {c \in Coin : <<prefix, c>> \in cf}
           /\ IsInjective(PrefixScan(cf, prefix))
<1> DEFINE S == {c \in Coin : <<prefix, c>> \in cf}
<1>1. PrefixScan(cf, prefix) = Keep(IdOrder, S)
  BY DEF PrefixScan
<1>2. Coin \cap S = S
  OBVIOUS
<1> HIDE DEF S
<1>3. /\ PrefixScan(cf, prefix) \in Seq(Coin)
      /\ Elements(PrefixScan(cf, prefix)) = S
      /\ IsInjective(PrefixScan(cf, prefix))
  BY <1>1, <1>2, IdOrderList, KeptCoins
<1>. QED
  BY <1>3 DEF S

\* The heights of the stored rows, and what the two height queries find.
LEMMA RowHeights ==
    ASSUME IInv, NEW c \in Present
    PROVE  /\ Rec(c).confirmed_height \in 0 .. StoredTip
           /\ c \notin Unspent =>
                  /\ Rec(c).spent_height \in 1 .. StoredTip
                  /\ Rec(c).confirmed_height < Rec(c).spent_height
<1>1. TypeOK /\ HeightsWithinChain /\ StoredTip \in Nat
  BY StoredTipType DEF IInv, DiskInv
<1>2. Rec(c).confirmed_height \in Nat
  BY <1>1, SortHeightType
<1>. QED
  BY <1>1, <1>2 DEF HeightsWithinChain, StoredTip

LEMMA AddedElements ==
    ASSUME IInv, NEW h \in Nat
    PROVE  Elements(GetCoinsAddedAtHeight(h)) =
               {c \in Present : Rec(c).confirmed_height = h}
<1> DEFINE scan == PrefixScan(coin_by_confirmed_height, h)
<1>1. /\ scan \in Seq(Coin)
      /\ Elements(scan) = {c \in Coin : <<h, c>> \in coin_by_confirmed_height}
  BY ScanElements
<1>2. coin_by_confirmed_height = {<<Rec(c).confirmed_height, c>> : c \in Present}
  BY DEF IInv, DiskInv, IndexesMatchRecords
<1>3. Present \subseteq Coin
  BY DEF Present
<1>4. Elements(GetCoinsAddedAtHeight(h)) = Elements(scan) \cap Present
  <2> HIDE DEF scan
  <2>. QED
    BY <1>1, KeptCoins DEF GetCoinsAddedAtHeight, GetCoinRecords, scan
<1> HIDE DEF scan
<1>. QED
  BY <1>1, <1>2, <1>3, <1>4

LEMMA RemovedElements ==
    ASSUME IInv, NEW h \in Nat
    PROVE  Elements(GetCoinsRemovedAtHeight(h)) =
               {c \in Present \ Unspent : Rec(c).spent_height = h}
<1> DEFINE scan == PrefixScan(coin_by_spent_height, h)
           gone == {c \in Present \ Unspent : Rec(c).spent_height = h}
<1>1. CASE h = 0
  <2>1. GetCoinsRemovedAtHeight(h) = <<>>
    BY <1>1 DEF GetCoinsRemovedAtHeight
  <2>2. Elements(<<>>) = {}
    BY DEF Elements
  <2>3. gone = {}
    BY <1>1, RowHeights
  <2>. QED
    BY <2>1, <2>2, <2>3
<1>2. CASE h # 0
  <2>1. /\ scan \in Seq(Coin)
        /\ Elements(scan) = {c \in Coin : <<h, c>> \in coin_by_spent_height}
    BY ScanElements
  <2>2. coin_by_spent_height = {<<Rec(c).spent_height, c>> : c \in Present \ Unspent}
    BY DEF IInv, DiskInv, IndexesMatchRecords
  <2>3. Present \subseteq Coin
    BY DEF Present
  <2>4. Elements(GetCoinsRemovedAtHeight(h)) = Elements(scan) \cap Present
    <3> HIDE DEF scan
    <3>. QED
      BY <1>2, <2>1, KeptCoins DEF GetCoinsRemovedAtHeight, GetCoinRecords, scan
  <2> HIDE DEF scan
  <2>. QED
    BY <2>1, <2>2, <2>3, <2>4
<1>. QED
  BY <1>1, <1>2

\* The height indices tell the whole history of the chain: replaying them ends
\* with the unspent set kept in memory, and every removal finds its coin.
LEMMA ReplayInv == IInv => HeightQueriesReplayChain
<1> SUFFICES ASSUME IInv, up PROVE HeightQueriesReplayChain
  BY DEF HeightQueriesReplayChain
<1> DEFINE Added(h) == UNION {Elements(GetCoinsAddedAtHeight(i)) : i \in 0 .. h}
           Removed(h) == UNION {Elements(GetCoinsRemovedAtHeight(i)) : i \in 0 .. h}
<1>1. height = StoredTip /\ unspent_ids = Unspent /\ StoredTip \in Nat
  BY StoredTipType DEF IInv, MemoryInv, MemoryMatchesDisk, StoredTip
<1>2. Unspent \subseteq Present /\ Present \subseteq Coin
  BY DEF Unspent, Present
<1>3. ASSUME NEW h \in Nat
      PROVE  /\ Added(h) = {c \in Present : Rec(c).confirmed_height <= h}
             /\ Removed(h) = {c \in Present \ Unspent : Rec(c).spent_height <= h}
  <2>1. \A i \in 0 .. h : i \in Nat
    OBVIOUS
  <2>2. Added(h) = UNION {{c \in Present : Rec(c).confirmed_height = i} : i \in 0 .. h}
    BY <2>1, AddedElements
  <2>3. Removed(h) = UNION {{c \in Present \ Unspent : Rec(c).spent_height = i} :
                               i \in 0 .. h}
    BY <2>1, RemovedElements
  <2>4. \A c \in Present : Rec(c).confirmed_height \in Nat
    BY <1>1, RowHeights
  <2>5. \A c \in Present \ Unspent : Rec(c).spent_height \in Nat
    BY <1>1, RowHeights
  <2> HIDE DEF Added, Removed
  <2>. QED
    BY <2>2, <2>3, <2>4, <2>5
<1> HIDE DEF Added, Removed
<1>4. Added(height) = Present /\ Removed(height) = Present \ Unspent
  <2>1. \A c \in Present : Rec(c).confirmed_height <= StoredTip
    BY <1>1, RowHeights
  <2>2. \A c \in Present \ Unspent : Rec(c).spent_height <= StoredTip
    BY <1>1, RowHeights
  <2>. QED
    BY <1>1, <1>3, <2>1, <2>2
<1>5. Added(height) \ Removed(height) = {c \in Coin : IsUnspent(c)}
  BY <1>1, <1>2, <1>4 DEF IsUnspent
<1>6. ASSUME NEW h \in 1 .. height
      PROVE  Elements(GetCoinsRemovedAtHeight(h)) \subseteq Added(h - 1) \ Removed(h - 1)
  <2>1. h \in Nat /\ h - 1 \in Nat
    BY <1>1
  <2>2. Elements(GetCoinsRemovedAtHeight(h)) =
            {c \in Present \ Unspent : Rec(c).spent_height = h}
    BY <2>1, RemovedElements
  <2>3. \A c \in Present \ Unspent :
            Rec(c).spent_height = h => /\ Rec(c).confirmed_height <= h - 1
                                       /\ ~(Rec(c).spent_height <= h - 1)
    BY <1>1, <2>1, RowHeights
  <2>. QED
    BY <1>3, <2>1, <2>2, <2>3
<1>. QED
  BY <1>5, <1>6 DEF HeightQueriesReplayChain, Added, Removed

\* A client can rebuild the unspent set from the two height queries.
THEOREM HeightQueriesCorrect ==
    ASSUME HonestBlocks PROVE Spec => []HeightQueriesReplayChain
BY Invariance, ReplayInv, PTL

-----------------------------------------------------------------------------
(* Lineage.                                                                *)

\* A stored coin with a parent was created by the block that spent the parent.
ParentsKnown ==
    \A c \in Present : ParentOf[c] # None =>
        /\ ParentOf[c] \in Present
        /\ Rec(ParentOf[c]).spent_height = Rec(c).confirmed_height

LEMMA ParentsStep ==
    ASSUME HonestBlocks, BlocksSpendParents, IInv, ParentsKnown, [Next]_vars
    PROVE  ParentsKnown'
<1>1. TypeOK
  BY DEF IInv
<1>2. CASE UNCHANGED disk
  BY <1>2 DEF disk, coinCFs, ParentsKnown, Present, Rec
<1>3. ASSUME NEW g \in Geneses, InitGenesisCommits(g)
      PROVE  ParentsKnown'
  <2>1. Present = {}
    BY <1>3 DEF IInv, DiskInv, MemoryInv, GenesisFirst, MemoryMatchesDisk,
                InitGenesisCommits
  <2>2. Present' = g.coins
    BY <1>1, <1>3, <2>1, GenesisEffects
  <2>3. \A c \in g.coins : ParentOf[c] = None
    BY DEF BlocksSpendParents
  <2>. QED
    BY <2>2, <2>3 DEF ParentsKnown
<1>4. ASSUME NEW b \in Blocks, ApplyBlockCommits(b)
      PROVE  ParentsKnown'
  <2>1. /\ CreatedCoins(b) \cap Present = {} /\ SpentCoins(b) \subseteq Unspent
        /\ CreatedCoins(b) \cap SpentCoins(b) = {}
    BY <1>1, <1>4, ValidBlock DEF ApplyBlockCommits, Staged
  <2>2. /\ Present' = Present \cup CreatedCoins(b)
        /\ \A c \in CreatedCoins(b) : Rec(c)'.confirmed_height = b.height
        /\ \A c \in SpentCoins(b) :
               /\ Rec(c)'.confirmed_height = Rec(c).confirmed_height
               /\ Rec(c)'.spent_height = b.height
        /\ \A c \in Present \ SpentCoins(b) : Rec(c)' = Rec(c)
    BY <1>1, <1>4, ApplyEffects
  <2>3. Unspent \subseteq Present /\ \A c \in Unspent : Rec(c).spent_height = None
    BY DEF Unspent
  <2>4. ASSUME NEW c \in CreatedCoins(b), ParentOf[c] # None
        PROVE  /\ ParentOf[c] \in Present'
               /\ Rec(ParentOf[c])'.spent_height = Rec(c)'.confirmed_height
    <3>1. ParentOf[c] \in SpentCoins(b)
      BY <2>4 DEF BlocksSpendParents
    <3>. QED
      BY <2>1, <2>2, <2>3, <3>1
  <2>5. ASSUME NEW c \in Present, ParentOf[c] # None
        PROVE  /\ ParentOf[c] \in Present'
               /\ Rec(ParentOf[c])'.spent_height = Rec(c)'.confirmed_height
    <3>1. /\ ParentOf[c] \in Present
          /\ Rec(ParentOf[c]).spent_height = Rec(c).confirmed_height
      BY <2>5 DEF ParentsKnown
    <3>2. Rec(c).confirmed_height # None
      BY <1>1, SortHeightType, ConstantsAssumption
    <3>3. ParentOf[c] \notin SpentCoins(b)
      BY <2>1, <2>3, <3>1, <3>2
    <3>4. Rec(c)'.confirmed_height = Rec(c).confirmed_height
      BY <2>2
    <3>. QED
      BY <2>2, <3>1, <3>3, <3>4
  <2>. QED
    BY <2>2, <2>4, <2>5 DEF ParentsKnown
<1>5. ASSUME NEW t \in Int, RollbackCommits(t)
      PROVE  ParentsKnown'
  <2> DEFINE Del == DeletedCoins(t)
             Rev == RevivedCoins(t)
  <2>1. /\ Clamp(t) \in 0 .. height
        /\ Del = {c \in Present : Rec(c).confirmed_height > Clamp(t)}
        /\ Rev = {c \in Present \ Unspent : /\ Rec(c).confirmed_height <= Clamp(t)
                                           /\ Rec(c).spent_height > Clamp(t)}
    BY <1>5, UndoneCoins DEF RollbackCommits
  <2>2. /\ Present' = Present \ Del
        /\ \A c \in Rev : Rec(c)'.confirmed_height = Rec(c).confirmed_height
        /\ \A c \in Present \ (Del \cup Rev) : Rec(c)' = Rec(c)
    BY <1>1, <1>5, RollbackEffects
  <2> HIDE DEF Del, Rev
  <2> SUFFICES ASSUME NEW c \in Present \ Del, ParentOf[c] # None
               PROVE  /\ ParentOf[c] \in Present'
                      /\ Rec(ParentOf[c])'.spent_height = Rec(c)'.confirmed_height
    BY <2>2 DEF ParentsKnown
  <2> DEFINE p == ParentOf[c]
  <2>3. p \in Present /\ Rec(p).spent_height = Rec(c).confirmed_height
    BY DEF ParentsKnown
  <2>4. Rec(c).confirmed_height \in Nat /\ Rec(c).confirmed_height # None
    BY <1>1, SortHeightType, ConstantsAssumption
  <2>5. p \notin Unspent
    BY <2>3, <2>4 DEF Unspent
  <2>6. Rec(p).confirmed_height < Rec(p).spent_height /\ Rec(p).confirmed_height \in Nat
    BY <1>1, <2>3, <2>5, RowHeights, SortHeightType
  <2>7. Clamp(t) \in Nat /\ Rec(c).confirmed_height <= Clamp(t)
    <3>1. height \in Nat
      BY <1>1 DEF TypeOK
    <3>. QED
      BY <2>1, <2>4, <3>1
  <2>8. p \notin Del /\ p \notin Rev
    BY <2>1, <2>3, <2>4, <2>6, <2>7
  <2>9. Rec(c)'.confirmed_height = Rec(c).confirmed_height
    BY <2>2
  <2>. QED
    BY <2>2, <2>3, <2>8, <2>9
<1>. QED
  BY <1>1, <1>2, <1>3, <1>4, <1>5, DiskSteps

\* The coins a parent query returns are children of that parent.
LEMMA ChildrenElements ==
    ASSUME IInv, NEW p \in Coin, NEW from, NEW to,
           NEW c \in Elements(GetCoinRecordsByParentIds(TRUE, <<p>>, from, to))
    PROVE  c \in Present /\ ParentOf[c] = p
<1> DEFINE scan == PrefixScan(coin_by_parent, p)
           S == Selected(TRUE, from, to)
           lists == [i \in DOMAIN <<p>> |->
                        Keep(PrefixScan(coin_by_parent, <<p>>[i]), S)]
<1>1. scan \in Seq(Coin) /\ Elements(scan) = {d \in Coin : <<p, d>> \in coin_by_parent}
  BY ScanElements
<1>2. coin_by_parent = ParentKeys(Present)
  BY DEF IInv, DiskInv, IndexesMatchRecords
<1>3. DOMAIN <<p>> = 1 .. 1 /\ 1 .. 1 = {1} /\ <<p>>[1] = p
  OBVIOUS
<1>4. lists \in Seq(Seq(Coin)) /\ DOMAIN lists = {1} /\ lists[1] = Keep(scan, S)
  <2>1. lists = [i \in 1 .. 1 |-> Keep(scan, S)]
    BY <1>3
  <2>2. Keep(scan, S) \in Seq(Coin)
    BY <1>1, KeptCoins
  <2> HIDE DEF lists, scan, S
  <2>. QED
    BY <1>3, <2>1, <2>2
<1>5. GetCoinRecordsByParentIds(TRUE, <<p>>, from, to) = FlattenSeq(lists)
  BY DEF GetCoinRecordsByParentIds
<1> HIDE DEF lists, scan
<1>6. c \in UNION {ToSet(lists[i]) : i \in DOMAIN lists}
  BY <1>4, <1>5, Flattened, ListElements
<1>7. c \in Elements(Keep(scan, S))
  BY <1>4, <1>6, ListElements
<1>8. c \in Elements(scan) /\ c \in S
  BY <1>1, <1>7, KeptCoins
<1>9. <<p, c>> \in ParentKeys(Present)
  BY <1>1, <1>2, <1>8
<1>. QED
  BY <1>9 DEF ParentKeys

LEMMA LineageInv == IInv /\ ParentsKnown => LineageSurvivesRollback
<1> SUFFICES ASSUME IInv, ParentsKnown PROVE LineageSurvivesRollback
  OBVIOUS
<1>1. TypeOK /\ Present \subseteq Coin
  BY DEF IInv, Present
<1>2. ASSUME NEW p \in Present,
             NEW c \in Elements(GetCoinRecordsByParentIds(TRUE, <<p>>, 0, U64Limit - 1))
      PROVE  Rec(p).spent_height = Rec(c).confirmed_height
  <2>1. c \in Present /\ ParentOf[c] = p
    BY <1>1, ChildrenElements
  <2>2. p # None
    BY <1>1, ConstantsAssumption
  <2>. QED
    BY <2>1, <2>2 DEF ParentsKnown
<1>3. ASSUME NEW ph, NEW info, info = GetUnspentLineageInfoForPuzzleHash(ph),
             info # None, info.parent_id # None
      PROVE  /\ info.parent_id \in Present \ Unspent
             /\ info.parent_parent_id = ParentOf[info.parent_id]
  <2> DEFINE found == PrefixScan(unspent_by_puzzle_hash, ph)
             c == found[1]
  <2>1. c \in Present /\ info = [coin_id |-> c, parent_id |-> ParentOf[c],
              parent_parent_id |-> IF ParentOf[c] \in Present THEN ParentOf[ParentOf[c]]
                                   ELSE None]
    <3> HIDE DEF found
    <3>. QED
      BY <1>3 DEF GetUnspentLineageInfoForPuzzleHash, found
  <2> HIDE DEF found, c
  <2>2. info.parent_id = ParentOf[c] /\ ParentOf[c] # None
    BY <1>3, <2>1
  <2>3. /\ ParentOf[c] \in Present
        /\ Rec(ParentOf[c]).spent_height = Rec(c).confirmed_height
    BY <2>1, <2>2 DEF ParentsKnown
  <2>4. Rec(c).confirmed_height # None
    BY <1>1, <2>1, SortHeightType, ConstantsAssumption
  <2>5. ParentOf[c] \notin Unspent
    BY <2>3, <2>4 DEF Unspent
  <2>. QED
    BY <2>1, <2>2, <2>3, <2>5
<1>. QED
  BY <1>2, <1>3 DEF LineageSurvivesRollback

\* For blocks that spend the parents of what they add, parent queries and the
\* singleton lineage stay true through rollbacks, which look up parents to
\* revive coins and delete children by height.
THEOREM LineageCorrect ==
    ASSUME HonestBlocks, BlocksSpendParents
    PROVE  Spec => []LineageSurvivesRollback
<1>1. Init => ParentsKnown
  BY DEF Init, ParentsKnown, Present
<1>2. IInv /\ ParentsKnown /\ [Next]_vars => ParentsKnown'
  BY ParentsStep
<1>. QED
  BY <1>1, <1>2, Invariance, LineageInv, PTL DEF Spec

-----------------------------------------------------------------------------
(* The four ways to ask for coins.                                         *)

TipFits == StoredTip < U64Limit

LEMMA TipFitsStep ==
    ASSUME HeightsFit, IInv, TipFits, [Next]_vars
    PROVE  TipFits'
<1>1. TypeOK /\ U64Limit \in Nat \ {0}
  BY QueriesAssumption DEF IInv
<1>2. CASE UNCHANGED disk
  BY <1>2 DEF disk, TipFits, StoredTip
<1>3. ASSUME NEW g \in Geneses, InitGenesisCommits(g) PROVE TipFits'
  <2>1. metadata'.height = 0
    BY <1>3 DEF InitGenesisCommits
  <2>. QED
    BY <1>1, <2>1 DEF TipFits, StoredTip, UnwrapOr
<1>4. ASSUME NEW b \in Blocks, ApplyBlockCommits(b) PROVE TipFits'
  <2>1. metadata'.height = b.height
    BY <1>1, <1>4 DEF ApplyBlockCommits, TypeOK
  <2>2. b.height < U64Limit
    BY DEF HeightsFit
  <2>. QED
    BY <1>1, <2>1, <2>2 DEF TipFits, StoredTip, UnwrapOr
<1>5. ASSUME NEW t \in Int, RollbackCommits(t) PROVE TipFits'
  <2>1. metadata'.height = Clamp(t)
    BY <1>1, <1>5 DEF RollbackCommits, TypeOK
  <2>2. Clamp(t) \in 0 .. height
    BY <1>5, UndoneCoins DEF RollbackCommits
  <2>3. height = StoredTip /\ StoredTip \in Nat
    BY <1>1, <1>5, StoredTipType
    DEF IInv, MemoryInv, MemoryMatchesDisk, StoredTip, RollbackCommits, Undoes
  <2>4. Clamp(t) < U64Limit
    BY <1>1, <2>2, <2>3 DEF TipFits
  <2>. QED
    BY <1>1, <2>1, <2>4 DEF TipFits, StoredTip, UnwrapOr
<1>. QED
  BY <1>1, <1>2, <1>3, <1>4, <1>5, DiskSteps

\* What a query by several keys of an index lists.
ByKeys(cf, keys, S) ==
    FlattenSeq([i \in DOMAIN keys |-> Keep(PrefixScan(cf, keys[i]), S)])

\* A query that scans an index below every key in turn and filters finds what
\* the filter lets through, each coin once: a coin lies below one key only.
LEMMA IndexedQuery ==
    ASSUME NEW key, NEW cf, cf = {<<key[c], c>> : c \in Present},
           NEW keys, IsInjective(keys),
           NEW K, keys \in Seq(K), \A c \in Present : key[c] \in ToSet(keys),
           NEW S \in SUBSET Present
    PROVE  /\ ByKeys(cf, keys, S) \in Seq(Coin) /\ Elements(ByKeys(cf, keys, S)) = S
           /\ IsInjective(ByKeys(cf, keys, S))
<1> DEFINE lists == [i \in DOMAIN keys |-> Keep(PrefixScan(cf, keys[i]), S)]
<1>1. Present \subseteq Coin
  BY DEF Present
<1>2. ASSUME NEW i \in DOMAIN keys
      PROVE  /\ lists[i] \in Seq(Coin) /\ IsInjective(lists[i])
             /\ ToSet(lists[i]) = {c \in S : key[c] = keys[i]}
  <2> DEFINE scan == PrefixScan(cf, keys[i])
  <2>1. /\ scan \in Seq(Coin) /\ IsInjective(scan)
        /\ Elements(scan) = {c \in Coin : <<keys[i], c>> \in cf}
    BY ScanElements
  <2>2. lists[i] = Keep(scan, S)
    OBVIOUS
  <2> HIDE DEF lists, scan
  <2>3. /\ lists[i] \in Seq(Coin) /\ IsInjective(lists[i])
        /\ Elements(lists[i]) = Elements(scan) \cap S
    BY <2>1, <2>2, KeptCoins
  <2>4. Elements(scan) = {c \in Present : key[c] = keys[i]}
    BY <1>1, <2>1
  <2>. QED
    BY <2>3, <2>4, ListElements
<1>3. lists \in Seq(Seq(Coin)) /\ DOMAIN lists = DOMAIN keys
  <2>1. DOMAIN keys = 1 .. Len(keys) /\ Len(keys) \in Nat
    OBVIOUS
  <2>2. DOMAIN lists = DOMAIN keys /\ lists = [i \in DOMAIN keys |-> lists[i]]
    OBVIOUS
  <2> HIDE DEF lists
  <2>3. \A i \in 1 .. Len(keys) : lists[i] \in Seq(Coin)
    BY <1>2, <2>1
  <2>4. lists \in [1 .. Len(keys) -> Seq(Coin)]
    BY <2>1, <2>2, <2>3
  <2>. QED
    BY <2>1, <2>2, <2>4
<1> HIDE DEF lists
<1>4. Separate(lists)
  <2>1. \A i, j \in DOMAIN keys : i # j => keys[i] # keys[j]
    BY DEF IsInjective
  <2>2. \A i, j \in DOMAIN keys : i # j => ToSet(lists[i]) \cap ToSet(lists[j]) = {}
    BY <1>2, <2>1, ZenonT(40)
  <2>. QED
    BY <1>2, <1>3, <2>2 DEF Separate
<1>5. UNION {ToSet(lists[i]) : i \in DOMAIN lists} = S
  <2>1. \A c \in S : \E i \in DOMAIN keys : c \in ToSet(lists[i])
    <3> SUFFICES ASSUME NEW c \in S PROVE \E i \in DOMAIN keys : c \in ToSet(lists[i])
      OBVIOUS
    <3>1. PICK i \in DOMAIN keys : keys[i] = key[c]
      BY DEF ToSet
    <3>. QED
      BY <1>2, <3>1
  <2>2. \A i \in DOMAIN keys : ToSet(lists[i]) \subseteq S
    BY <1>2
  <2>. QED
    BY <1>3, <2>1, <2>2
<1>6. /\ FlattenSeq(lists) \in Seq(Coin) /\ IsInjective(FlattenSeq(lists))
      /\ Elements(FlattenSeq(lists)) = S
  BY <1>3, <1>4, <1>5, Flattened, ListElements
<1>. QED
  BY <1>6 DEF lists, ByKeys

\* Each of three queries lists the selected coins once.
LEMMA ThreeQueries ==
    ASSUME IInv, NEW inc \in BOOLEAN, NEW from, NEW to
    PROVE  LET S == Selected(inc, from, to)
           IN  \A found \in {GetCoinRecordsByNames(inc, IdOrder, from, to),
                             GetCoinRecordsByPuzzleHashes(inc, AllPuzzles, from, to),
                             GetCoinRecordsByParentIds(inc, AllParents, from, to)} :
                   found \in Seq(Coin) /\ Elements(found) = S /\ IsInjective(found)
<1> DEFINE S == Selected(inc, from, to)
           Lists(found) == found \in Seq(Coin) /\ Elements(found) = S /\ IsInjective(found)
<1>1. S \in SUBSET Present /\ Present \subseteq Coin
  BY DEF Selected, Present
<1>2. /\ coin_by_puzzle_hash = {<<PuzzleOf[c], c>> : c \in Present}
      /\ coin_by_parent = {<<ParentOf[c], c>> : c \in Present}
  BY DEF IInv, DiskInv, IndexesMatchRecords, PuzzleKeys, ParentKeys
<1> DEFINE PH == {PuzzleOf[c] : c \in Coin}
           PA == {ParentOf[c] : c \in Coin}
<1>3. IsFiniteSet(PH) /\ IsFiniteSet(PA)
  <2>1. IsFiniteSet(PH)
    <3> DEFINE f == [c \in Coin |-> PuzzleOf[c]]
    <3>1. f \in Surjection(Coin, PH)
      BY DEF Surjection
    <3>. QED
      BY <3>1, ConstantsAssumption, FS_Surjection
  <2>2. IsFiniteSet(PA)
    <3> DEFINE f == [c \in Coin |-> ParentOf[c]]
    <3>1. f \in Surjection(Coin, PA)
      BY DEF Surjection
    <3>. QED
      BY <3>1, ConstantsAssumption, FS_Surjection
  <2>. QED
    BY <2>1, <2>2
<1> HIDE DEF S
<1>4. Lists(GetCoinRecordsByNames(inc, IdOrder, from, to))
  <2>1. Coin \cap S = S
    BY <1>1
  <2>. QED
    BY <2>1, IdOrderList, KeptCoins DEF GetCoinRecordsByNames, S
<1>5. Lists(GetCoinRecordsByPuzzleHashes(inc, AllPuzzles, from, to))
  <2>1. /\ AllPuzzles \in Seq(PH) /\ ToSet(AllPuzzles) = PH /\ IsInjective(AllPuzzles)
    <3> HIDE DEF PH
    <3>. QED
      BY <1>3, SetListed DEF AllPuzzles, PH
  <2>2. \A c \in Present : PuzzleOf[c] \in ToSet(AllPuzzles)
    BY <1>1, <2>1
  <2> DEFINE found == ByKeys(coin_by_puzzle_hash, AllPuzzles, S)
  <2>3. GetCoinRecordsByPuzzleHashes(inc, AllPuzzles, from, to) = found
    BY DEF GetCoinRecordsByPuzzleHashes, GetCoinRecordsByPuzzleHash, S, ByKeys
  <2>4. found \in Seq(Coin) /\ Elements(found) = S /\ IsInjective(found)
    <3> HIDE DEF PH
    <3>. QED
      BY <1>1, <1>2, <2>1, <2>2, IndexedQuery
  <2> HIDE DEF found
  <2>. QED
    BY <2>3, <2>4
<1>6. Lists(GetCoinRecordsByParentIds(inc, AllParents, from, to))
  <2>1. /\ AllParents \in Seq(PA) /\ ToSet(AllParents) = PA /\ IsInjective(AllParents)
    <3> HIDE DEF PA
    <3>. QED
      BY <1>3, SetListed DEF AllParents, PA
  <2>2. \A c \in Present : ParentOf[c] \in ToSet(AllParents)
    BY <1>1, <2>1
  <2> DEFINE found == ByKeys(coin_by_parent, AllParents, S)
  <2>3. GetCoinRecordsByParentIds(inc, AllParents, from, to) = found
    BY DEF GetCoinRecordsByParentIds, S, ByKeys
  <2>4. found \in Seq(Coin) /\ Elements(found) = S /\ IsInjective(found)
    <3> HIDE DEF PA
    <3>. QED
      BY <1>1, <1>2, <2>1, <2>2, IndexedQuery
  <2> HIDE DEF found
  <2>. QED
    BY <2>3, <2>4
<1>. QED
  BY <1>4, <1>5, <1>6 DEF S

LEMMA SelectedCount ==
    ASSUME NEW list \in Seq(Coin), IsInjective(list), Elements(list) \subseteq Present
    PROVE  /\ Len(list) = Cardinality(Elements(list))
           /\ FirstItems(list, NumTotal) = list
<1>1. /\ Len(list) \in Nat /\ IsFiniteSet(Elements(list))
      /\ Cardinality(Elements(list)) = Len(list)
  BY LengthCounts, ListElements
<1>2. IsFiniteSet(Present)
  BY ConstantsAssumption, FS_Subset DEF Present
<1>3. Cardinality(Elements(list)) <= Cardinality(Present)
  BY <1>2, FS_Subset
<1>4. Len(list) <= NumTotal
  BY <1>1, <1>3 DEF NumTotal
<1>5. SubSeq(list, 1, Len(list)) = list
  OBVIOUS
<1>. QED
  BY <1>1, <1>4, <1>5 DEF FirstItems

LEMMA AgreeInv == IInv /\ TipFits => QueriesAgree
<1> SUFFICES ASSUME IInv, TipFits, up,
                    NEW inc \in BOOLEAN, NEW from \in 0 .. height, NEW to \in 0 .. height
             PROVE  LET byNames == GetCoinRecordsByNames(inc, IdOrder, from, to)
                        byHashes == GetCoinRecordsByPuzzleHashes(inc, AllPuzzles, from, to)
                        byParents == GetCoinRecordsByParentIds(inc, AllParents, from, to)
                    IN  /\ Elements(byHashes) = Elements(byNames) /\ Len(byHashes) = Len(byNames)
                        /\ Elements(byParents) = Elements(byNames) /\ Len(byParents) = Len(byNames)
                        /\ inc =>
                               Elements(byNames) =
                                   UNION {Elements(GetCoinsAddedAtHeight(h)) : h \in from .. to}
                        /\ to = height =>
                               Elements(GetCoinStatesByPuzzleHashes(inc, AllPuzzles,
                                                                    from, NumTotal))
                                   = Elements(GetCoinStatesByIds(inc, IdOrder, from,
                                                                 to, NumTotal))
  BY DEF QueriesAgree
<1> DEFINE byNames == GetCoinRecordsByNames(inc, IdOrder, from, to)
           byHashes == GetCoinRecordsByPuzzleHashes(inc, AllPuzzles, from, to)
           byParents == GetCoinRecordsByParentIds(inc, AllParents, from, to)
           S == Selected(inc, from, to)
<1>1. height = StoredTip /\ StoredTip \in Nat /\ U64Limit \in Nat
  BY StoredTipType, QueriesAssumption DEF IInv, MemoryInv, MemoryMatchesDisk, StoredTip
<1>2. \A c \in Present : Rec(c).confirmed_height \in 0 .. StoredTip
  BY RowHeights
<1>3. S \subseteq Present
  BY DEF Selected
<1>4. /\ byNames \in Seq(Coin) /\ Elements(byNames) = S /\ IsInjective(byNames)
      /\ byHashes \in Seq(Coin) /\ Elements(byHashes) = S /\ IsInjective(byHashes)
      /\ byParents \in Seq(Coin) /\ Elements(byParents) = S /\ IsInjective(byParents)
  <2> HIDE DEF S
  <2>. QED
    BY ThreeQueries DEF S
<1>5. /\ Len(byHashes) = Len(byNames) /\ Len(byParents) = Len(byNames)
      /\ FirstItems(byNames, NumTotal) = byNames
  <2> HIDE DEF byNames, byHashes, byParents, S
  <2>. QED
    BY <1>3, <1>4, SelectedCount
<1>6. ASSUME inc
      PROVE  S = UNION {Elements(GetCoinsAddedAtHeight(h)) : h \in from .. to}
  <2>1. \A h \in from .. to : h \in Nat
    OBVIOUS
  <2>2. UNION {Elements(GetCoinsAddedAtHeight(h)) : h \in from .. to}
            = UNION {{c \in Present : Rec(c).confirmed_height = h} : h \in from .. to}
    BY <2>1, AddedElements
  <2>3. S = {c \in Present : Rec(c).confirmed_height \in from .. to}
    BY <1>6 DEF Selected
  <2> HIDE DEF S
  <2>. QED
    BY <2>2, <2>3
<1>7. ASSUME to = height
      PROVE  Elements(GetCoinStatesByPuzzleHashes(inc, AllPuzzles, from, NumTotal))
                 = Elements(GetCoinStatesByIds(inc, IdOrder, from, to, NumTotal))
  <2> DEFINE hashes == GetCoinRecordsByPuzzleHashes(inc, AllPuzzles, from, U64Limit - 1)
             R == Selected(inc, from, U64Limit - 1)
  <2>1. R = S
    <3>1. \A c \in Present : Rec(c).confirmed_height \in from .. to
                                 <=> Rec(c).confirmed_height \in from .. U64Limit - 1
      BY <1>1, <1>2, <1>7 DEF TipFits
    <3>. QED
      BY <3>1 DEF Selected
  <2>2. hashes \in Seq(Coin) /\ Elements(hashes) = R /\ IsInjective(hashes)
    <3> HIDE DEF R
    <3>. QED
      BY ThreeQueries DEF R
  <2>3. FirstItems(hashes, NumTotal) = hashes
    <3> HIDE DEF hashes, R, S
    <3>. QED
      BY <1>3, <2>1, <2>2, SelectedCount
  <2> HIDE DEF R, S
  <2>. QED
    BY <1>4, <1>5, <2>1, <2>2, <2>3 DEF GetCoinStatesByPuzzleHashes, GetCoinStatesByIds
<1> HIDE DEF S
<1>. QED
  BY <1>4, <1>5, <1>6, <1>7

\* Point lookups and the puzzle-hash, parent and height indices answer alike,
\* for every set of coins and every chain of honest blocks.
THEOREM QueriesCorrect ==
    ASSUME HonestBlocks, HeightsFit
    PROVE  Spec => []QueriesAgree
<1>1. Init => TipFits
  BY QueriesAssumption DEF Init, TipFits, StoredTip, UnwrapOr, EmptyMetadata
<1>2. IInv /\ TipFits /\ [Next]_vars => TipFits'
  BY TipFitsStep
<1>. QED
  BY <1>1, <1>2, Invariance, AgreeInv, PTL DEF Spec

-----------------------------------------------------------------------------
(* Balances and counts.                                                    *)

LEMMA StoredSets ==
    /\ IsFiniteSet(Coin) /\ IsFiniteSet(Present) /\ IsFiniteSet(Unspent)
    /\ Unspent \in SUBSET Present /\ Present \in SUBSET Coin
    /\ AmountOf \in [Coin -> Nat] /\ U64Limit \in Nat
<1>1. Unspent \in SUBSET Present /\ Present \in SUBSET Coin
  BY DEF Unspent, Present
<1>2. IsFiniteSet(Coin)
  BY ConstantsAssumption
<1>3. IsFiniteSet(Present) /\ IsFiniteSet(Unspent)
  BY <1>1, <1>2, FS_Subset
<1>4. AmountOf \in [Coin -> Nat] /\ U64Limit \in Nat
  BY QueriesAssumption
<1>. QED
  BY <1>1, <1>2, <1>3, <1>4

\* The balances by puzzle hash add up to the count and the value of the whole.
LEMMA BalanceSums ==
    LET balances == AggregateUnspentByPuzzleHash
        counts == [ph \in DOMAIN balances |-> balances[ph].count]
        totals == [ph \in DOMAIN balances |-> balances[ph].total]
    IN  /\ SumOver(counts, DOMAIN balances) = NumUnspent
        /\ TotalUnspentValue < U64Limit =>
               SumOver(totals, DOMAIN balances) = TotalUnspentValue
<1> DEFINE balances == AggregateUnspentByPuzzleHash
           counts == [ph \in DOMAIN balances |-> balances[ph].count]
           totals == [ph \in DOMAIN balances |-> balances[ph].total]
           D == Groups(Unspent, PuzzleOf)
           Of(ph) == GroupOf(Unspent, PuzzleOf, ph)
           one == [c \in Coin |-> 1]
<1>1. balances = [ph \in D |-> [total |-> SumOfAmounts(Of(ph)) % U64Limit,
                               count |-> Cardinality(Of(ph))]]
  BY DEF AggregateUnspentByPuzzleHash, Groups, GroupOf
<1>2. \A ph : Of(ph) \in SUBSET Unspent /\ Of(ph) \in SUBSET Coin
  BY StoredSets DEF GroupOf
<1> HIDE DEF balances, D, Of
<1>3. /\ DOMAIN balances = D
      /\ counts = [ph \in D |-> Cardinality(Of(ph))]
      /\ totals = [ph \in D |-> SumOfAmounts(Of(ph)) % U64Limit]
  BY <1>1
<1> HIDE DEF counts, totals
<1>4. SumOver(counts, D) = NumUnspent
  <2>1. one \in [Coin -> Nat] /\ \A c \in Coin : one[c] = 1
    OBVIOUS
  <2> HIDE DEF one
  <2>2. \A T \in SUBSET Coin : SumOver(one, T) = Cardinality(T)
    BY <2>1, StoredSets, SumCounts
  <2>3. \A T \in SUBSET Coin : SumOver(one, T) \in Nat
    BY <2>1, StoredSets, SumFacts
  <2>4. counts \in [D -> Nat] /\ \A ph \in D : counts[ph] = SumOver(one, Of(ph))
    BY <1>2, <1>3, <2>2, <2>3
  <2>5. Unspent \in SUBSET Coin
    BY StoredSets
  <2>6. SumOver(counts, D) = SumOver(one, Unspent)
    BY <2>1, <2>4, <2>5, StoredSets, SumOfGroups DEF D, Of
  <2>. QED
    BY <2>2, <2>5, <2>6 DEF NumUnspent
<1>5. ASSUME TotalUnspentValue < U64Limit
      PROVE  SumOver(totals, D) = TotalUnspentValue
  <2>1. Unspent \in SUBSET Coin
    BY StoredSets
  <2>2. ASSUME NEW ph \in D
        PROVE  totals[ph] = SumOver(AmountOf, Of(ph)) /\ totals[ph] \in Nat
    <3> DEFINE v == SumOver(AmountOf, Of(ph))
    <3>1. v \in Nat /\ SumOver(AmountOf, Unspent) \in Nat /\ v <= SumOver(AmountOf, Unspent)
      BY <1>2, <2>1, StoredSets, SumGrows
    <3>2. SumOver(AmountOf, Unspent) < U64Limit
      BY <1>5 DEF TotalUnspentValue, SumOfAmounts
    <3>3. totals[ph] = v % U64Limit
      BY <1>3 DEF SumOfAmounts
    <3> HIDE DEF v
    <3>4. v % U64Limit = v
      BY <3>1, <3>2, StoredSets
    <3>. QED
      BY <3>1, <3>3, <3>4 DEF v
  <2>3. totals \in [D -> Nat]
    BY <1>3, <2>2
  <2>4. SumOver(totals, D) = SumOver(AmountOf, Unspent)
    BY <2>1, <2>2, <2>3, StoredSets, SumOfGroups DEF D, Of
  <2>. QED
    BY <2>4 DEF TotalUnspentValue, SumOfAmounts
<1>. QED
  BY <1>3, <1>4, <1>5 DEF balances, counts, totals

LEMMA BalancesInv == IInv => BalancesAgree
<1> SUFFICES ASSUME IInv, up
             PROVE  /\ Stats.unspent_count = NumUnspent
                    /\ NumUnspent = Cardinality(unspent_ids)
                    /\ Stats.spent_count = NumTotal - NumUnspent
                    /\ TotalUnspentValue < U64Limit =>
                           Stats.total_unspent_value = TotalUnspentValue
  BY BalanceSums DEF BalancesAgree
<1> DEFINE rows == IF initialized THEN Present ELSE {}
<1>1. initialized = metadata.initialized /\ unspent_ids = Unspent
  BY DEF IInv, MemoryInv, MemoryMatchesDisk
<1>2. rows = Present
  BY <1>1 DEF IInv, DiskInv, GenesisFirst
<1>3. rows \cap Unspent = Unspent /\ rows \ Unspent = Present \ Unspent
  BY <1>2, StoredSets
<1>4. /\ Stats.unspent_count = Cardinality(Unspent)
      /\ Stats.spent_count = Cardinality(Present \ Unspent)
      /\ TotalUnspentValue < U64Limit => Stats.total_unspent_value = TotalUnspentValue
  BY <1>3 DEF Stats, TotalUnspentValue
<1>5. Cardinality(Present \ Unspent) = Cardinality(Present) - Cardinality(Unspent)
  <2>1. Unspent \cap Present = Unspent /\ Present \cap Unspent = Unspent
    BY StoredSets
  <2>2. Cardinality(Present \ Unspent) =
            Cardinality(Present) - Cardinality(Present \cap Unspent)
    BY StoredSets, FS_Difference
  <2>. QED
    BY <2>1, <2>2
<1>. QED
  BY <1>1, <1>4, <1>5 DEF NumUnspent, NumTotal

\* Stats, the totals, the balances by puzzle hash and the unspent set in memory
\* agree after any blocks, rollbacks, failures and restarts, and the values
\* while the supply fits in a u64.
THEOREM BalancesCorrect == ASSUME HonestBlocks PROVE Spec => []BalancesAgree
BY Invariance, BalancesInv, PTL

=============================================================================
