----------------------------- MODULE OrderProofs -----------------------------
(***************************************************************************)
(* Lists in order.  The models enumerate a finite set by rank: the n-th    *)
(* item is the one with n - 1 items before it.  For a strict total order   *)
(* this lists every item once.  The order is given by the set Below[x] of  *)
(* the items before x.                                                     *)
(***************************************************************************)
EXTENDS ByteKeys, Lists, FiniteSetTheorems, TLAPS

WF == INSTANCE WellFoundedInduction
SeqT == INSTANCE SequenceTheorems

\* Induction: a nonempty set of numbers has a least one.
LEMMA Least ==
    ASSUME NEW S \in SUBSET Nat, S # {}
    PROVE  \E n \in S : \A m \in S : n <= m
<1> DEFINE R == WF!OpToRel(<, Nat)
<1>1. WF!IsWellFoundedOn(R, Nat)
  BY WF!NatLessThanWellFounded
<1>2. \A x, y \in Nat : x < y => <<x, y>> \in R
  BY DEF WF!OpToRel
<1> HIDE DEF R
<1>3. PICK n \in S : \A m \in S : ~(<<m, n>> \in R)
  BY <1>1, WF!WFMin
<1>4. \A m \in S : n <= m
  <2> SUFFICES ASSUME NEW m \in S PROVE n <= m
    OBVIOUS
  <2>1. m \in Nat /\ n \in Nat /\ ~(m < n)
    BY <1>2, <1>3
  <2>. QED
    BY <2>1
<1>. QED
  BY <1>4

\* The induction step used below: what holds of 0 and passes from n to n + 1 up
\* to a limit leaves no counterexample.
LEMMA Induct ==
    ASSUME NEW Good \in SUBSET Nat, NEW limit \in Nat, 0 \in Good,
           \A n \in Nat : n < limit /\ n \in Good => n + 1 \in Good
    PROVE  0 .. limit \subseteq Good
<1> DEFINE Bad == {n \in Nat : n <= limit /\ n \notin Good}
<1>. SUFFICES ASSUME Bad # {} PROVE FALSE
  OBVIOUS
<1>1. PICK b \in Bad : \A n \in Bad : b <= n
  BY Least
<1>2. b \in Nat /\ b <= limit /\ b \notin Good /\ b # 0
  OBVIOUS
<1>3. b - 1 \in Nat /\ b - 1 < limit /\ ~(b <= b - 1) /\ (b - 1) + 1 = b
  BY <1>2
<1>4. b - 1 \in Good
  BY <1>1, <1>3
<1>. QED
  BY <1>2, <1>3, <1>4

-----------------------------------------------------------------------------
(* Ranks.                                                                  *)

TotalOrder(S, Below) ==
    /\ IsFiniteSet(S)
    /\ Below \in [S -> SUBSET S]
    /\ \A x \in S : x \notin Below[x]
    /\ \A x, y \in S : y \in Below[x] => Below[y] \subseteq Below[x]
    /\ \A x, y \in S : x = y \/ x \in Below[y] \/ y \in Below[x]

\* Ranks grow along the order and are all below the size of the set.
LEMMA RanksGrow ==
    ASSUME NEW S, NEW Below, TotalOrder(S, Below)
    PROVE  /\ Cardinality(S) \in Nat
           /\ \A x \in S : /\ Cardinality(Below[x]) \in Nat
                           /\ Cardinality(Below[x]) < Cardinality(S)
           /\ \A x, y \in S : y \in Below[x] =>
                  Cardinality(Below[y]) < Cardinality(Below[x])
<1>1. \A T \in SUBSET S, x \in S : \A U \in SUBSET T :
          (x \in T /\ x \notin U) =>
              /\ Cardinality(U) \in Nat /\ Cardinality(T) \in Nat
              /\ Cardinality(U) < Cardinality(T)
  <2> SUFFICES ASSUME NEW T \in SUBSET S, NEW x \in S, NEW U \in SUBSET T,
                      x \in T, x \notin U
               PROVE  /\ Cardinality(U) \in Nat /\ Cardinality(T) \in Nat
                      /\ Cardinality(U) < Cardinality(T)
    OBVIOUS
  <2>1. IsFiniteSet(T)
    BY FS_Subset DEF TotalOrder
  <2>2. IsFiniteSet(T \ {x}) /\ Cardinality(T \ {x}) = Cardinality(T) - 1
    BY <2>1, FS_RemoveElement
  <2>3. U \in SUBSET (T \ {x})
    OBVIOUS
  <2>4. IsFiniteSet(U) /\ Cardinality(U) <= Cardinality(T \ {x})
    BY <2>2, <2>3, FS_Subset
  <2>5. Cardinality(U) \in Nat /\ Cardinality(T) \in Nat
    BY <2>1, <2>4, FS_CardinalityType
  <2>. QED
    BY <2>2, <2>4, <2>5
<1>2. Cardinality(S) \in Nat
  BY FS_CardinalityType DEF TotalOrder
<1>3. \A x \in S : Below[x] \in SUBSET S /\ x \notin Below[x]
  BY DEF TotalOrder
<1>4. \A x \in S : /\ Cardinality(Below[x]) \in Nat
                   /\ Cardinality(Below[x]) < Cardinality(S)
  BY <1>1, <1>3
<1>5. \A x, y \in S : y \in Below[x] => Below[y] \in SUBSET Below[x]
  BY DEF TotalOrder
<1>6. \A x, y \in S : y \in Below[x] =>
          Cardinality(Below[y]) < Cardinality(Below[x])
  BY <1>1, <1>3, <1>5
<1>. QED
  BY <1>2, <1>4, <1>6

\* Every rank below the size of the set is taken.
LEMMA RanksCover ==
    ASSUME NEW S, NEW Below, TotalOrder(S, Below),
           NEW n \in 0 .. Cardinality(S) - 1
    PROVE  \E x \in S : Cardinality(Below[x]) = n
<1> DEFINE r == [x \in S |-> Cardinality(Below[x])]
           T == 0 .. Cardinality(S) - 1
<1>1. Cardinality(S) \in Nat
  BY RanksGrow
<1>2. r \in [S -> T]
  BY RanksGrow
<1>3. \A x, y \in S : x # y => r[x] # r[y]
  <2> SUFFICES ASSUME NEW x \in S, NEW y \in S, x # y
               PROVE  Cardinality(Below[x]) # Cardinality(Below[y])
    OBVIOUS
  <2>1. x \in Below[y] \/ y \in Below[x]
    BY DEF TotalOrder
  <2>. QED
    BY <2>1, RanksGrow
<1>4. r \in Injection(S, T)
  BY <1>2, <1>3 DEF Injection, IsInjective
<1>5. IsFiniteSet(T) /\ Cardinality(T) = Cardinality(S)
  <2>1. 0 \in Int /\ Cardinality(S) - 1 \in Int
    BY <1>1
  <2>2. IsFiniteSet(T) /\ Cardinality(T) =
            IF 0 > Cardinality(S) - 1 THEN 0 ELSE Cardinality(S) - 1 - 0 + 1
    BY <2>1, FS_Interval
  <2>. QED
    BY <1>1, <2>2
<1>6. r \in Surjection(S, T)
  <2> HIDE DEF r, T
  <2>. QED
    BY <1>4, <1>5, FS_Injection
<1>7. \E x \in S : r[x] = n
  BY <1>6 DEF Surjection
<1>. QED
  BY <1>7

ByRank(S, Below) ==
    [n \in 1 .. Cardinality(S) |->
        CHOOSE x \in S : Cardinality(Below[x]) = n - 1]

\* Listing a set by rank lists every item once, in the order.
LEMMA Listed ==
    ASSUME NEW S, NEW Below, TotalOrder(S, Below)
    PROVE  LET list == ByRank(S, Below)
           IN  /\ Cardinality(S) \in Nat
               /\ list \in [1 .. Cardinality(S) -> S]
               /\ \A n \in 1 .. Cardinality(S) : Cardinality(Below[list[n]]) = n - 1
               /\ \A x \in S : /\ Cardinality(Below[x]) + 1 \in 1 .. Cardinality(S)
                               /\ list[Cardinality(Below[x]) + 1] = x
               /\ \A m, n \in 1 .. Cardinality(S) : m < n => list[m] \in Below[list[n]]
<1> DEFINE list == ByRank(S, Below)
           P(n, x) == Cardinality(Below[x]) = n - 1
<1>1. Cardinality(S) \in Nat
  BY RanksGrow
<1>2. \A n \in 1 .. Cardinality(S) :
          /\ list[n] = CHOOSE x \in S : P(n, x)
          /\ \E x \in S : P(n, x)
  <2> TAKE n \in 1 .. Cardinality(S)
  <2>1. n - 1 \in 0 .. Cardinality(S) - 1
    BY <1>1
  <2>2. \E x \in S : P(n, x)
    BY <2>1, RanksCover
  <2>. QED
    BY <2>2 DEF ByRank
<1>3. \A n \in 1 .. Cardinality(S) : list[n] \in S /\ P(n, list[n])
  <2> HIDE DEF P, list
  <2>. QED
    BY <1>2
<1>4. list \in [1 .. Cardinality(S) -> S]
  <2>1. list = [n \in 1 .. Cardinality(S) |-> list[n]]
    BY DEF ByRank
  <2> HIDE DEF list
  <2>. QED
    BY <1>3, <2>1
<1>5. \A m, n \in 1 .. Cardinality(S) : m < n => list[m] \in Below[list[n]]
  <2> HIDE DEF list
  <2> SUFFICES ASSUME NEW m \in 1 .. Cardinality(S), NEW n \in 1 .. Cardinality(S),
                      m < n
               PROVE  list[m] \in Below[list[n]]
    OBVIOUS
  <2>1. /\ list[m] \in S /\ list[n] \in S
        /\ Cardinality(Below[list[m]]) = m - 1 /\ Cardinality(Below[list[n]]) = n - 1
    BY <1>3
  <2>2. list[m] # list[n]
    BY <2>1
  <2>3. list[n] \notin Below[list[m]]
    BY <2>1, RanksGrow
  <2>. QED
    BY <2>1, <2>2, <2>3 DEF TotalOrder
<1>6. \A x \in S : /\ Cardinality(Below[x]) + 1 \in 1 .. Cardinality(S)
                   /\ list[Cardinality(Below[x]) + 1] = x
  <2> HIDE DEF list
  <2> TAKE x \in S
  <2> DEFINE n == Cardinality(Below[x]) + 1
  <2>1. n \in 1 .. Cardinality(S) /\ Cardinality(Below[x]) \in Nat
    BY RanksGrow
  <2>2. list[n] \in S /\ Cardinality(Below[list[n]]) = Cardinality(Below[x])
    BY <1>3, <2>1
  <2>3. list[n] \notin Below[x] /\ x \notin Below[list[n]]
    BY <2>2, RanksGrow
  <2>4. list[n] = x
    BY <2>2, <2>3 DEF TotalOrder
  <2>. QED
    BY <2>1, <2>4
<1>. QED
  BY <1>1, <1>3, <1>4, <1>5, <1>6

\* A set of positions that has no gap from the first on is counted by its last.
LEMMA NoGap ==
    ASSUME NEW m \in Nat, NEW D \in SUBSET (1 .. m),
           \A x \in D, y \in 1 .. m : y <= x => y \in D
    PROVE  /\ Cardinality(D) \in 0 .. m
           /\ \A x \in 1 .. m : x \in D <=> x <= Cardinality(D)
<1>1. \A n \in Nat : IsFiniteSet(1 .. n) /\ Cardinality(1 .. n) = n
  <2> TAKE n \in Nat
  <2>1. IsFiniteSet(1 .. n) /\ Cardinality(1 .. n) = IF 1 > n THEN 0 ELSE n - 1 + 1
    BY FS_Interval
  <2>. QED
    BY <2>1
<1>2. IsFiniteSet(D) /\ Cardinality(D) <= m
  <2>1. IsFiniteSet(1 .. m) /\ Cardinality(1 .. m) = m
    BY <1>1
  <2>2. IsFiniteSet(D) /\ Cardinality(D) <= Cardinality(1 .. m)
    BY <2>1, FS_Subset
  <2>. QED
    BY <2>1, <2>2
<1>3. Cardinality(D) \in Nat
  BY <1>2, FS_CardinalityType
<1>4. ASSUME NEW x \in 1 .. m, x \in D PROVE x <= Cardinality(D)
  <2>1. 1 .. x \in SUBSET D /\ x \in Nat
    BY <1>4
  <2>2. Cardinality(1 .. x) <= Cardinality(D)
    BY <1>2, <2>1, FS_Subset
  <2>. QED
    BY <1>1, <2>1, <2>2
<1>5. ASSUME NEW x \in 1 .. m, x \notin D PROVE ~(x <= Cardinality(D))
  <2>1. D \in SUBSET (1 .. x - 1)
    <3> SUFFICES ASSUME NEW y \in D PROVE y \in 1 .. x - 1
      OBVIOUS
    <3>1. y \in 1 .. m /\ ~(x <= y)
      BY <1>5
    <3>. QED
      BY <3>1
  <2>2. x - 1 \in Nat
    OBVIOUS
  <2>3. IsFiniteSet(1 .. x - 1) /\ Cardinality(1 .. x - 1) = x - 1
    BY <1>1, <2>2
  <2>4. Cardinality(D) <= Cardinality(1 .. x - 1)
    BY <2>1, <2>3, FS_Subset
  <2>. QED
    BY <1>3, <2>3, <2>4
<1>. QED
  BY <1>2, <1>3, <1>4, <1>5

-----------------------------------------------------------------------------
(* Filtering a list.                                                       *)

KeepBody(list, S, f, n) ==
    IF n = 0 THEN <<>>
    ELSE IF list[n] \in S THEN Append(f[n - 1], list[n]) ELSE f[n - 1]

\* The function that the definition of Keep chooses exists.
LEMMA KeepSolution ==
    ASSUME NEW list, NEW S, NEW n \in Nat
    PROVE  \E f : f = [m \in 0 .. n |-> KeepBody(list, S, f, m)]
<1> DEFINE Solves(f, k) == f = [m \in 0 .. k |-> KeepBody(list, S, f, m)]
           Good == {k \in Nat : \E f : Solves(f, k)}
<1>1. 0 \in Good
  <2> DEFINE g == [m \in 0 .. 0 |-> <<>>]
  <2>1. \A m \in 0 .. 0 : m = 0
    OBVIOUS
  <2>2. Solves(g, 0)
    BY <2>1 DEF KeepBody
  <2> HIDE DEF Solves, g
  <2>. QED
    BY <2>2, 0 \in Nat, Zenon
<1>2. ASSUME NEW k \in Nat, k < n, k \in Good PROVE k + 1 \in Good
  <2>1. PICK f : Solves(f, k)
    BY <1>2
  <2> DEFINE g == [m \in 0 .. k + 1 |-> KeepBody(list, S, f, m)]
  <2>2. \A m \in 0 .. k : g[m] = f[m]
    <3>1. \A m \in 0 .. k : m \in 0 .. k + 1
      OBVIOUS
    <3>2. \A m \in 0 .. k : f[m] = KeepBody(list, S, f, m)
      BY <2>1
    <3>. QED
      BY <3>1, <3>2
  <2>3. \A m \in 0 .. k + 1 : m # 0 => m - 1 \in 0 .. k
    OBVIOUS
  <2>4. g = [m \in 0 .. k + 1 |-> KeepBody(list, S, f, m)]
    OBVIOUS
  <2> HIDE DEF g
  <2>5. \A m \in 0 .. k + 1 : KeepBody(list, S, f, m) = KeepBody(list, S, g, m)
    BY <2>2, <2>3 DEF KeepBody
  <2>6. Solves(g, k + 1)
    BY <2>4, <2>5
  <2>7. k + 1 \in Nat
    OBVIOUS
  <2> HIDE DEF Solves
  <2>. QED
    BY <2>6, <2>7, Zenon
<1>3. Good \in SUBSET Nat
  OBVIOUS
<1>4. n \in 0 .. n
  OBVIOUS
<1>5. n \in Good
  <2> HIDE DEF Good
  <2>. QED
    BY <1>1, <1>2, <1>3, <1>4, Induct
<1>. QED
  BY <1>5, Zenon

\* The loop behind Keep, item by item.
KeepLoop(list, S, g) ==
    /\ Keep(list, S) = g[Len(list)]
    /\ g[0] = <<>>
    /\ \A n \in 1 .. Len(list) :
           g[n] = IF list[n] \in S THEN Append(g[n - 1], list[n]) ELSE g[n - 1]

LEMMA KeepSteps ==
    ASSUME NEW list, NEW S, Len(list) \in Nat
    PROVE  \E g : KeepLoop(list, S, g)
<1> DEFINE N == Len(list)
<1>1. PICK g : g = CHOOSE f : f = [n \in 0 .. N |-> KeepBody(list, S, f, n)]
  OBVIOUS
<1>2. Keep(list, S) = g[N]
  BY <1>1, Zenon DEF Keep, KeepBody
<1>3. g = [n \in 0 .. N |-> KeepBody(list, S, g, n)]
  <2>1. \E f : f = [n \in 0 .. N |-> KeepBody(list, S, f, n)]
    BY KeepSolution, Zenon
  <2>. QED
    BY <1>1, <2>1, Zenon
<1>4. g[0] = <<>>
  BY <1>3 DEF KeepBody
<1>5. \A n \in 1 .. N :
          g[n] = IF list[n] \in S THEN Append(g[n - 1], list[n]) ELSE g[n - 1]
  <2> TAKE n \in 1 .. N
  <2>1. n \in 0 .. N /\ n # 0
    OBVIOUS
  <2>. QED
    BY <1>3, <2>1 DEF KeepBody
<1>. QED
  BY <1>2, <1>4, <1>5, Zenon DEF KeepLoop

\* Only which items of the list lie in the set matters.
LEMMA KeptSame ==
    ASSUME NEW T, NEW list \in Seq(T), NEW R, NEW S,
           \A x \in ToSet(list) : x \in R <=> x \in S
    PROVE  Keep(list, R) = Keep(list, S)
<1> DEFINE N == Len(list)
<1>1. N \in Nat /\ DOMAIN list = 1 .. N
  OBVIOUS
<1>2. PICK f : KeepLoop(list, R, f)
  BY <1>1, KeepSteps, Zenon
<1>3. PICK g : KeepLoop(list, S, g)
  BY <1>1, KeepSteps, Zenon
<1>4. \A n \in 1 .. N : list[n] \in R <=> list[n] \in S
  BY <1>1 DEF ToSet
<1> DEFINE Good == {n \in Nat : n <= N => f[n] = g[n]}
<1>5. 0 \in Good
  BY <1>2, <1>3 DEF KeepLoop
<1>6. ASSUME NEW n \in Nat, n < N, n \in Good PROVE n + 1 \in Good
  <2>1. n + 1 \in 1 .. N /\ (n + 1) - 1 = n /\ f[n] = g[n] /\ n + 1 \in Nat
    BY <1>1, <1>6
  <2>2. f[n + 1] = g[n + 1]
    BY <1>2, <1>3, <1>4, <2>1 DEF KeepLoop
  <2>. QED
    BY <2>1, <2>2
<1>7. N \in Good
  <2>1. Good \in SUBSET Nat
    OBVIOUS
  <2> HIDE DEF Good
  <2>2. 0 .. N \subseteq Good
    BY <1>1, <1>5, <1>6, <2>1, Induct
  <2>. QED
    BY <1>1, <2>2
<1>. QED
  BY <1>1, <1>2, <1>3, <1>7 DEF KeepLoop

\* Filtering keeps exactly the items in S, and none twice that was not there
\* twice.
LEMMA Kept ==
    ASSUME NEW T, NEW list \in Seq(T), NEW S
    PROVE  /\ Keep(list, S) \in Seq(T)
           /\ ToSet(Keep(list, S)) = ToSet(list) \cap S
           /\ IsInjective(list) => IsInjective(Keep(list, S))
<1> DEFINE N == Len(list)
<1>1. N \in Nat /\ DOMAIN list = 1 .. N /\ \A i \in 1 .. N : list[i] \in T
  OBVIOUS
<1>2. PICK g : KeepLoop(list, S, g)
  BY <1>1, KeepSteps, Zenon
<1>3. Keep(list, S) = g[N]
  BY <1>2 DEF KeepLoop
<1>5. g[0] = <<>>
  BY <1>2 DEF KeepLoop
<1>6. \A n \in 1 .. N :
          g[n] = IF list[n] \in S THEN Append(g[n - 1], list[n]) ELSE g[n - 1]
  BY <1>2 DEF KeepLoop
<1> DEFINE Holds(n) == \A x : x \in ToSet(g[n]) <=>
                           x \in S /\ \E i \in 1 .. n : list[i] = x
           Inv(n) == /\ g[n] \in Seq(T)
                     /\ Holds(n)
                     /\ IsInjective(list) => IsInjective(g[n])
           Good == {n \in Nat : n <= N => Inv(n)}
<1>7. 0 \in Good
  <2>1. <<>> \in Seq(T) /\ ToSet(<<>>) = {} /\ IsInjective(<<>>)
    BY DEF ToSet, IsInjective
  <2>2. Holds(0)
    <3>1. 1 .. 0 = {}
      OBVIOUS
    <3>. QED
      BY <1>5, <2>1, <3>1
  <2> HIDE DEF Holds
  <2>. QED
    BY <1>5, <2>1, <2>2
<1>8. ASSUME NEW n \in Nat, n < N, n \in Good PROVE n + 1 \in Good
  <2> DEFINE x == list[n + 1]
             s == g[n]
  <2>1. /\ s \in Seq(T) /\ Holds(n)
        /\ IsInjective(list) => IsInjective(s)
    BY <1>1, <1>8
  <2>2. n + 1 \in 1 .. N /\ x \in T /\ n + 1 \in Nat /\ (n + 1) - 1 = n
    BY <1>1, <1>8
  <2>3. \A y : (\E i \in 1 .. n + 1 : list[i] = y) <=>
                   (y = x \/ \E i \in 1 .. n : list[i] = y)
    <3>1. \A i : i \in 1 .. n + 1 <=> i = n + 1 \/ i \in 1 .. n
      OBVIOUS
    <3>. QED
      BY <3>1
  <2>4. CASE x \notin S
    <3>1. g[n + 1] = s
      BY <1>6, <2>2, <2>4
    <3>2. Holds(n + 1)
      BY <2>1, <2>3, <2>4, <3>1
    <3> HIDE DEF Holds
    <3>. QED
      BY <2>1, <2>2, <3>1, <3>2
  <2>5. CASE x \in S
    <3>1. g[n + 1] = Append(s, x)
      BY <1>6, <2>2, <2>5
    <3> HIDE DEF x, s
    <3>2. /\ Append(s, x) \in Seq(T) /\ Len(s) \in Nat /\ DOMAIN s = 1 .. Len(s)
          /\ DOMAIN Append(s, x) = 1 .. Len(s) + 1
          /\ \A i \in 1 .. Len(s) : Append(s, x)[i] = s[i]
          /\ Append(s, x)[Len(s) + 1] = x
      BY <2>1, <2>2
    <3>3. \A i : i \in 1 .. Len(s) + 1 <=> i = Len(s) + 1 \/ i \in 1 .. Len(s)
      BY <3>2
    <3>4. \A y : y \in ToSet(Append(s, x)) <=> y = x \/ y \in ToSet(s)
      BY <3>2, <3>3 DEF ToSet
    <3>5. Holds(n + 1)
      BY <2>1, <2>3, <2>5, <3>1, <3>4 DEF s
    <3>6. ASSUME IsInjective(list) PROVE IsInjective(Append(s, x))
      <4>1. x \notin ToSet(s)
        <5> SUFFICES ASSUME x \in ToSet(s) PROVE FALSE
          OBVIOUS
        <5>1. PICK i \in 1 .. n : list[i] = x
          BY <2>1 DEF s
        <5>2. i \in 1 .. N /\ i # n + 1
          BY <1>1, <1>8
        <5>. QED
          BY <1>1, <2>2, <3>6, <5>1, <5>2 DEF IsInjective, x
      <4>2. IsInjective(s)
        BY <2>1, <3>6
      <4>3. \A i \in 1 .. Len(s) : s[i] # x
        BY <3>2, <4>1 DEF ToSet
      <4> SUFFICES ASSUME NEW i \in 1 .. Len(s) + 1, NEW j \in 1 .. Len(s) + 1,
                          Append(s, x)[i] = Append(s, x)[j]
                   PROVE  i = j
        BY <3>2 DEF IsInjective
      <4>4. CASE i \in 1 .. Len(s) /\ j \in 1 .. Len(s)
        BY <3>2, <4>2, <4>4 DEF IsInjective
      <4>5. CASE i = Len(s) + 1 \/ j = Len(s) + 1
        BY <3>2, <3>3, <4>3, <4>5
      <4>. QED
        BY <3>3, <4>4, <4>5
    <3> HIDE DEF Holds
    <3>. QED
      BY <2>2, <3>1, <3>2, <3>5, <3>6
  <2>. QED
    BY <2>4, <2>5
<1>9. N \in Good
  <2>1. Good \in SUBSET Nat
    OBVIOUS
  <2> HIDE DEF Good
  <2>2. 0 .. N \subseteq Good
    BY <1>1, <1>7, <1>8, <2>1, Induct
  <2>. QED
    BY <1>1, <2>2
<1>10. Inv(N)
  BY <1>9
<1>11. ToSet(g[N]) = ToSet(list) \cap S
  BY <1>1, <1>10 DEF ToSet
<1>. QED
  BY <1>3, <1>10, <1>11

-----------------------------------------------------------------------------
(* Concatenating lists.                                                    *)

LEMMA Joined ==
    ASSUME NEW T, NEW s \in Seq(T), NEW t \in Seq(T)
    PROVE  /\ s \o t \in Seq(T)
           /\ ToSet(s \o t) = ToSet(s) \cup ToSet(t)
           /\ (IsInjective(s) /\ IsInjective(t) /\ ToSet(s) \cap ToSet(t) = {})
                  => IsInjective(s \o t)
<1> DEFINE m == Len(s)
           n == Len(t)
           u == s \o t
<1>1. /\ m \in Nat /\ n \in Nat /\ DOMAIN s = 1 .. m /\ DOMAIN t = 1 .. n
      /\ u \in Seq(T) /\ DOMAIN u = 1 .. m + n
  OBVIOUS
<1>2. \A i \in 1 .. m : u[i] = s[i] /\ i \in 1 .. m + n
  BY <1>1
<1>3. \A j \in 1 .. n : u[j + m] = t[j] /\ j + m \in 1 .. m + n
  BY <1>1
<1>4. \A i \in 1 .. m + n : i \in 1 .. m \/ \E j \in 1 .. n : i = j + m
  <2> SUFFICES ASSUME NEW i \in 1 .. m + n, i \notin 1 .. m
               PROVE  i - m \in 1 .. n /\ i = (i - m) + m
    OBVIOUS
  <2>. QED
    BY <1>1
<1> HIDE DEF u
<1>5. ToSet(u) = ToSet(s) \cup ToSet(t)
  <2>1. ASSUME NEW x \in ToSet(u) PROVE x \in ToSet(s) \/ x \in ToSet(t)
    <3>1. PICK i \in 1 .. m + n : x = u[i]
      BY <1>1 DEF ToSet
    <3>2. CASE i \in 1 .. m
      BY <1>1, <1>2, <3>1, <3>2 DEF ToSet
    <3>3. ASSUME NEW j \in 1 .. n, i = j + m PROVE x \in ToSet(t)
      BY <1>1, <1>3, <3>1, <3>3 DEF ToSet
    <3>. QED
      BY <1>4, <3>2, <3>3
  <2>2. ToSet(s) \subseteq ToSet(u)
    BY <1>1, <1>2 DEF ToSet
  <2>3. ToSet(t) \subseteq ToSet(u)
    BY <1>1, <1>3 DEF ToSet
  <2>. QED
    BY <2>1, <2>2, <2>3
<1>6. ASSUME IsInjective(s), IsInjective(t), ToSet(s) \cap ToSet(t) = {}
      PROVE  IsInjective(u)
  <2>1. \A i \in 1 .. m, j \in 1 .. n : s[i] # t[j]
    BY <1>1, <1>6 DEF ToSet
  <2> SUFFICES ASSUME NEW i \in 1 .. m + n, NEW j \in 1 .. m + n, u[i] = u[j]
               PROVE  i = j
    BY <1>1 DEF IsInjective
  <2>2. CASE i \in 1 .. m /\ j \in 1 .. m
    BY <1>1, <1>2, <1>6, <2>2 DEF IsInjective
  <2>3. CASE i \in 1 .. m /\ j \notin 1 .. m
    BY <1>2, <1>3, <1>4, <2>1, <2>3, SMTT(30)
  <2>4. CASE i \notin 1 .. m /\ j \in 1 .. m
    BY <1>2, <1>3, <1>4, <2>1, <2>4, SMTT(30)
  <2>5. CASE i \notin 1 .. m /\ j \notin 1 .. m
    <3>1. PICK a \in 1 .. n : i = a + m
      BY <1>4, <2>5
    <3>2. PICK b \in 1 .. n : j = b + m
      BY <1>4, <2>5
    <3>3. t[a] = t[b]
      BY <1>3, <3>1, <3>2
    <3>. QED
      BY <1>1, <1>6, <3>1, <3>2, <3>3 DEF IsInjective
  <2>. QED
    BY <2>2, <2>3, <2>4, <2>5
<1>. QED
  BY <1>1, <1>5, <1>6 DEF u

FlattenBody(lists, f, i) == IF i = 1 THEN lists[i] ELSE f[i - 1] \o lists[i]

\* The function that FlattenSeq chooses exists.
LEMMA FlattenSolution ==
    ASSUME NEW lists, NEW n \in Nat
    PROVE  \E f : f = [i \in 1 .. n |-> FlattenBody(lists, f, i)]
<1> DEFINE Solves(f, k) == f = [i \in 1 .. k |-> FlattenBody(lists, f, i)]
           Good == {k \in Nat : \E f : Solves(f, k)}
<1>1. 0 \in Good
  <2> DEFINE g == [i \in 1 .. 0 |-> <<>>]
  <2>1. 1 .. 0 = {}
    OBVIOUS
  <2>2. Solves(g, 0)
    BY <2>1
  <2> HIDE DEF Solves, g
  <2>. QED
    BY <2>2, 0 \in Nat, Zenon
<1>2. ASSUME NEW k \in Nat, k < n, k \in Good PROVE k + 1 \in Good
  <2>1. PICK f : Solves(f, k)
    BY <1>2
  <2> DEFINE g == [i \in 1 .. k + 1 |-> FlattenBody(lists, f, i)]
  <2>2. \A i \in 1 .. k : g[i] = f[i]
    <3>1. \A i \in 1 .. k : i \in 1 .. k + 1
      OBVIOUS
    <3>2. \A i \in 1 .. k : f[i] = FlattenBody(lists, f, i)
      BY <2>1
    <3>. QED
      BY <3>1, <3>2
  <2>3. \A i \in 1 .. k + 1 : i # 1 => i - 1 \in 1 .. k
    OBVIOUS
  <2>4. g = [i \in 1 .. k + 1 |-> FlattenBody(lists, f, i)]
    OBVIOUS
  <2> HIDE DEF g
  <2>5. \A i \in 1 .. k + 1 : FlattenBody(lists, f, i) = FlattenBody(lists, g, i)
    BY <2>2, <2>3 DEF FlattenBody
  <2>6. Solves(g, k + 1)
    BY <2>4, <2>5
  <2>7. k + 1 \in Nat
    OBVIOUS
  <2> HIDE DEF Solves
  <2>. QED
    BY <2>6, <2>7, Zenon
<1>3. Good \in SUBSET Nat
  OBVIOUS
<1>4. n \in 0 .. n
  OBVIOUS
<1>5. n \in Good
  <2> HIDE DEF Good
  <2>. QED
    BY <1>1, <1>2, <1>3, <1>4, Induct
<1>. QED
  BY <1>5, Zenon

\* The lists have no item twice and none in common.
Separate(lists) ==
    /\ \A i \in DOMAIN lists : IsInjective(lists[i])
    /\ \A i, j \in DOMAIN lists : i # j => ToSet(lists[i]) \cap ToSet(lists[j]) = {}

LEMMA Flattened ==
    ASSUME NEW T, NEW lists \in Seq(Seq(T))
    PROVE  /\ FlattenSeq(lists) \in Seq(T)
           /\ ToSet(FlattenSeq(lists)) = UNION {ToSet(lists[i]) : i \in DOMAIN lists}
           /\ Separate(lists) => IsInjective(FlattenSeq(lists))
<1> DEFINE N == Len(lists)
           flat == FlattenSeq(lists)
<1>1. N \in Nat /\ DOMAIN lists = 1 .. N /\ \A i \in 1 .. N : lists[i] \in Seq(T)
  OBVIOUS
<1>2. CASE N = 0
  <2>1. flat = lists /\ lists = <<>>
    BY <1>1, <1>2 DEF FlattenSeq
  <2>2. DOMAIN lists = {} /\ lists \in Seq(T)
    BY <2>1
  <2>3. ToSet(lists) = {} /\ IsInjective(lists)
    BY <2>2 DEF ToSet, IsInjective
  <2> HIDE DEF flat
  <2>4. UNION {ToSet(lists[i]) : i \in DOMAIN lists} = {}
    BY <2>2
  <2>. QED
    BY <2>1, <2>2, <2>3, <2>4 DEF flat
<1>3. CASE N # 0
  <2>1. PICK g : g = CHOOSE f : f = [i \in 1 .. N |-> FlattenBody(lists, f, i)]
    OBVIOUS
  <2>2. flat = g[N]
    BY <1>3, <2>1, Zenon DEF FlattenSeq, FlattenBody
  <2>3. g = [i \in 1 .. N |-> FlattenBody(lists, g, i)]
    <3>1. \E f : f = [i \in 1 .. N |-> FlattenBody(lists, f, i)]
      BY <1>1, FlattenSolution, Zenon
    <3>. QED
      BY <2>1, <3>1, Zenon
  <2>4. \A i \in 1 .. N : g[i] = IF i = 1 THEN lists[i] ELSE g[i - 1] \o lists[i]
    BY <2>3 DEF FlattenBody
  <2> DEFINE Holds(n) == \A x : x \in ToSet(g[n]) <=>
                             \E i \in 1 .. n : x \in ToSet(lists[i])
             Inv(n) == /\ g[n] \in Seq(T)
                       /\ Holds(n)
                       /\ Separate(lists) => IsInjective(g[n])
             Good == {n \in Nat : n + 1 <= N => Inv(n + 1)}
  <2>5. 0 \in Good
    <3>1. 1 \in 1 .. N /\ 1 .. 1 = {1} /\ 0 + 1 = 1
      BY <1>1, <1>3
    <3>2. g[1] = lists[1]
      BY <2>4, <3>1
    <3>3. Holds(1)
      BY <3>1, <3>2
    <3>4. Separate(lists) => IsInjective(g[1])
      BY <1>1, <3>1, <3>2 DEF Separate
    <3> HIDE DEF Holds
    <3>5. Inv(1)
      BY <1>1, <3>1, <3>2, <3>3, <3>4
    <3> HIDE DEF Inv
    <3>. QED
      BY <3>1, <3>5
  <2>6. ASSUME NEW n \in Nat, n < N - 1, n \in Good PROVE n + 1 \in Good
    <3> DEFINE k == n + 1
               s == g[k]
               t == lists[k + 1]
    <3>1. /\ k \in Nat /\ k \in 1 .. N /\ k + 1 \in 1 .. N /\ k + 1 # 1
          /\ (k + 1) - 1 = k
      BY <1>1, <2>6
    <3>2. Inv(k)
      BY <1>1, <2>6, <3>1
    <3>3. g[k + 1] = s \o t
      BY <2>4, <3>1
    <3>4. s \in Seq(T) /\ t \in Seq(T)
      BY <1>1, <3>1, <3>2
    <3> HIDE DEF k, s, t
    <3>5. /\ s \o t \in Seq(T)
          /\ ToSet(s \o t) = ToSet(s) \cup ToSet(t)
          /\ (IsInjective(s) /\ IsInjective(t) /\ ToSet(s) \cap ToSet(t) = {})
                 => IsInjective(s \o t)
      BY <3>4, Joined
    <3>6. \A i : i \in 1 .. k + 1 <=> i = k + 1 \/ i \in 1 .. k
      BY <3>1
    <3>7. Holds(k + 1)
      BY <3>2, <3>3, <3>5, <3>6 DEF s, t
    <3>8. ASSUME Separate(lists) PROVE IsInjective(s \o t)
      <4>1. IsInjective(s) /\ IsInjective(t)
        BY <1>1, <3>1, <3>2, <3>8 DEF Separate, s, t
      <4>2. \A i \in 1 .. k : i \in 1 .. N /\ i # k + 1
        BY <1>1, <3>1
      <4>3. \A i \in 1 .. k : ToSet(lists[i]) \cap ToSet(t) = {}
        BY <1>1, <3>1, <3>8, <4>2 DEF Separate, t
      <4>4. ToSet(s) \cap ToSet(t) = {}
        BY <3>2, <4>3 DEF s
      <4>. QED
        BY <3>5, <4>1, <4>4
    <3> HIDE DEF Holds
    <3>9. Inv(k + 1)
      BY <3>3, <3>5, <3>7, <3>8
    <3> HIDE DEF Inv
    <3>. QED
      BY <3>1, <3>9 DEF k
  <2>7. N - 1 \in Good
    <3>1. Good \in SUBSET Nat
      OBVIOUS
    <3>2. N - 1 \in Nat
      BY <1>1, <1>3
    <3> HIDE DEF Good
    <3>3. 0 .. N - 1 \subseteq Good
      BY <2>5, <2>6, <3>1, <3>2, Induct
    <3>4. N - 1 \in 0 .. N - 1
      BY <3>2
    <3>. QED
      BY <3>3, <3>4
  <2>8. Inv(N)
    <3> HIDE DEF Inv
    <3>. QED
      BY <1>1, <1>3, <2>7
  <2>9. ToSet(g[N]) = UNION {ToSet(lists[i]) : i \in DOMAIN lists}
    BY <1>1, <2>8
  <2>. QED
    BY <2>2, <2>8, <2>9
<1>. QED
  BY <1>2, <1>3

-----------------------------------------------------------------------------
(* Lists of sets, and their lengths.                                       *)

LEMMA SetListed ==
    ASSUME NEW S, IsFiniteSet(S)
    PROVE  /\ SetToSeq(S) \in Seq(S)
           /\ ToSet(SetToSeq(S)) = S
           /\ IsInjective(SetToSeq(S))
<1> DEFINE N == Cardinality(S)
           list == SetToSeq(S)
<1>1. N \in Nat /\ ExistsBijection(1 .. N, S)
  BY FS_CardinalityType
<1>2. PICK b : b \in Bijection(1 .. N, S)
  BY <1>1 DEF ExistsBijection
<1>3. b \in [1 .. N -> S] /\ IsInjective(b)
  BY <1>2 DEF Bijection, Injection
<1>4. list \in [1 .. N -> S] /\ IsInjective(list)
  BY <1>3, Zenon DEF SetToSeq
<1> HIDE DEF list
<1>5. IsFiniteSet(1 .. N) /\ Cardinality(1 .. N) = N
  <2>1. IsFiniteSet(1 .. N) /\ Cardinality(1 .. N) = IF 1 > N THEN 0 ELSE N - 1 + 1
    BY <1>1, FS_Interval
  <2>. QED
    BY <1>1, <2>1
<1>6. list \in Injection(1 .. N, S)
  BY <1>4 DEF Injection
<1>7. list \in Surjection(1 .. N, S)
  <2> HIDE DEF N
  <2>1. Cardinality(1 .. N) = Cardinality(S)
    BY <1>5 DEF N
  <2>. QED
    BY <1>6, <2>1, FS_Injection
<1>8. ToSet(list) = S
  BY <1>4, <1>7 DEF Surjection, ToSet
<1>9. list \in Seq(S)
  BY <1>1, <1>4
<1>. QED
  BY <1>4, <1>8, <1>9 DEF list

\* A list without repetition is as long as the set of its items is large.
LEMMA LengthCounts ==
    ASSUME NEW T, NEW list \in Seq(T), IsInjective(list)
    PROVE  Len(list) \in Nat /\ IsFiniteSet(ToSet(list)) /\ Cardinality(ToSet(list)) = Len(list)
<1>1. DOMAIN list = 1 .. Len(list) /\ Len(list) \in Nat
  OBVIOUS
<1>2. list \in [1 .. Len(list) -> ToSet(list)]
  BY <1>1 DEF ToSet
<1>3. list \in Injection(1 .. Len(list), ToSet(list))
  BY <1>1, <1>2 DEF Injection, IsInjective
<1>4. list \in Surjection(1 .. Len(list), ToSet(list))
  BY <1>1, <1>2, Zenon DEF Surjection, ToSet
<1>5. ExistsBijection(1 .. Len(list), ToSet(list))
  BY <1>3, <1>4 DEF ExistsBijection, Bijection
<1>6. IsFiniteSet(ToSet(list))
  BY <1>1, <1>5, FS_NatBijection
<1>. QED
  BY <1>1, <1>5, <1>6, FS_CountingElements

-----------------------------------------------------------------------------
(* The different items of a list.                                          *)

LEMMA Appended ==
    ASSUME NEW T, NEW s \in Seq(T), NEW x \in T, x \notin ToSet(s), IsInjective(s)
    PROVE  /\ Append(s, x) \in Seq(T) /\ Len(Append(s, x)) = Len(s) + 1
           /\ ToSet(Append(s, x)) = ToSet(s) \cup {x}
           /\ IsInjective(Append(s, x))
<1>1. /\ Append(s, x) \in Seq(T) /\ Len(s) \in Nat /\ DOMAIN s = 1 .. Len(s)
      /\ DOMAIN Append(s, x) = 1 .. Len(s) + 1 /\ Len(Append(s, x)) = Len(s) + 1
      /\ \A i \in 1 .. Len(s) : Append(s, x)[i] = s[i]
      /\ Append(s, x)[Len(s) + 1] = x
  OBVIOUS
<1>2. \A i : i \in 1 .. Len(s) + 1 <=> i = Len(s) + 1 \/ i \in 1 .. Len(s)
  BY <1>1
<1>3. ToSet(Append(s, x)) = ToSet(s) \cup {x}
  BY <1>1, <1>2 DEF ToSet
<1>4. \A i \in 1 .. Len(s) : s[i] # x
  BY <1>1 DEF ToSet
<1>5. IsInjective(Append(s, x))
  <2> SUFFICES ASSUME NEW i \in 1 .. Len(s) + 1, NEW j \in 1 .. Len(s) + 1,
                      Append(s, x)[i] = Append(s, x)[j]
               PROVE  i = j
    BY <1>1 DEF IsInjective
  <2>1. CASE i \in 1 .. Len(s) /\ j \in 1 .. Len(s)
    BY <1>1, <2>1 DEF IsInjective
  <2>2. CASE i = Len(s) + 1 \/ j = Len(s) + 1
    BY <1>1, <1>2, <1>4, <2>2
  <2>. QED
    BY <1>2, <2>1, <2>2
<1>. QED
  BY <1>1, <1>3, <1>5

FreshBody(list, max_items, f, n) ==
    IF n = 0 THEN <<>>
    ELSE IF Len(f[n - 1]) >= max_items \/ list[n] \in ToSet(f[n - 1]) THEN f[n - 1]
    ELSE Append(f[n - 1], list[n])

\* The function that the definition of Fresh chooses exists.
LEMMA FreshSolution ==
    ASSUME NEW list, NEW max_items, NEW n \in Nat
    PROVE  \E f : f = [m \in 0 .. n |-> FreshBody(list, max_items, f, m)]
<1> DEFINE Solves(f, k) == f = [m \in 0 .. k |-> FreshBody(list, max_items, f, m)]
           Good == {k \in Nat : \E f : Solves(f, k)}
<1>1. 0 \in Good
  <2> DEFINE g == [m \in 0 .. 0 |-> <<>>]
  <2>1. \A m \in 0 .. 0 : m = 0
    OBVIOUS
  <2>2. Solves(g, 0)
    BY <2>1 DEF FreshBody
  <2> HIDE DEF Solves, g
  <2>. QED
    BY <2>2, 0 \in Nat, Zenon
<1>2. ASSUME NEW k \in Nat, k < n, k \in Good PROVE k + 1 \in Good
  <2>1. PICK f : Solves(f, k)
    BY <1>2
  <2> DEFINE g == [m \in 0 .. k + 1 |-> FreshBody(list, max_items, f, m)]
  <2>2. \A m \in 0 .. k : g[m] = f[m]
    <3>1. \A m \in 0 .. k : m \in 0 .. k + 1
      OBVIOUS
    <3>2. \A m \in 0 .. k : f[m] = FreshBody(list, max_items, f, m)
      BY <2>1
    <3>. QED
      BY <3>1, <3>2
  <2>3. \A m \in 0 .. k + 1 : m # 0 => m - 1 \in 0 .. k
    OBVIOUS
  <2>4. g = [m \in 0 .. k + 1 |-> FreshBody(list, max_items, f, m)]
    OBVIOUS
  <2> HIDE DEF g
  <2>5. \A m \in 0 .. k + 1 :
            FreshBody(list, max_items, f, m) = FreshBody(list, max_items, g, m)
    BY <2>2, <2>3 DEF FreshBody
  <2>6. Solves(g, k + 1)
    BY <2>4, <2>5
  <2>7. k + 1 \in Nat
    OBVIOUS
  <2> HIDE DEF Solves
  <2>. QED
    BY <2>6, <2>7, Zenon
<1>3. Good \in SUBSET Nat
  OBVIOUS
<1>4. n \in 0 .. n
  OBVIOUS
<1>5. n \in Good
  <2> HIDE DEF Good
  <2>. QED
    BY <1>1, <1>2, <1>3, <1>4, Induct
<1>. QED
  BY <1>5, Zenon

\* Items that were seen before do not count: the list is as long as allowed or
\* complete.
LEMMA Freshened ==
    ASSUME NEW T, NEW list \in Seq(T), NEW max_items \in Nat
    PROVE  LET found == Fresh(list, max_items)
           IN  /\ found \in Seq(T) /\ IsInjective(found)
               /\ ToSet(found) \subseteq ToSet(list)
               /\ Len(found) \in Nat /\ Len(found) <= max_items
               /\ Len(found) < max_items => ToSet(found) = ToSet(list)
<1> DEFINE N == Len(list)
<1>1. N \in Nat /\ DOMAIN list = 1 .. N /\ \A i \in 1 .. N : list[i] \in T
  OBVIOUS
<1>2. PICK g : g = CHOOSE f : f = [n \in 0 .. N |-> FreshBody(list, max_items, f, n)]
  OBVIOUS
<1>3. Fresh(list, max_items) = g[N]
  BY <1>2, Zenon DEF Fresh, FreshBody
<1>4. g = [n \in 0 .. N |-> FreshBody(list, max_items, g, n)]
  <2>1. \E f : f = [n \in 0 .. N |-> FreshBody(list, max_items, f, n)]
    BY <1>1, FreshSolution, Zenon
  <2>. QED
    BY <1>2, <2>1, Zenon
<1>5. g[0] = <<>>
  BY <1>1, <1>4 DEF FreshBody
<1>6. \A n \in 1 .. N :
          g[n] = IF Len(g[n - 1]) >= max_items \/ list[n] \in ToSet(g[n - 1]) THEN g[n - 1]
                 ELSE Append(g[n - 1], list[n])
  <2> TAKE n \in 1 .. N
  <2>1. n \in 0 .. N /\ n # 0
    OBVIOUS
  <2>. QED
    BY <1>4, <2>1 DEF FreshBody
<1> DEFINE First(n) == {list[i] : i \in 1 .. n}
           Inv(n) == /\ g[n] \in Seq(T) /\ IsInjective(g[n])
                     /\ ToSet(g[n]) \subseteq First(n)
                     /\ Len(g[n]) <= max_items
                     /\ Len(g[n]) < max_items => ToSet(g[n]) = First(n)
           Good == {n \in Nat : n <= N => Inv(n)}
<1>7. 0 \in Good
  <2>1. <<>> \in Seq(T) /\ ToSet(<<>>) = {} /\ IsInjective(<<>>) /\ Len(<<>>) = 0
    BY DEF ToSet, IsInjective
  <2>2. First(0) = {}
    <3>1. 1 .. 0 = {}
      OBVIOUS
    <3>. QED
      BY <3>1
  <2> HIDE DEF First
  <2>3. PICK s : s = g[0]
    OBVIOUS
  <2>4. /\ s \in Seq(T) /\ IsInjective(s) /\ ToSet(s) = {} /\ Len(s) = 0
    BY <1>5, <2>1, <2>3
  <2>5. 0 <= max_items
    OBVIOUS
  <2>6. /\ s \in Seq(T) /\ IsInjective(s) /\ ToSet(s) \subseteq First(0)
        /\ Len(s) <= max_items /\ (Len(s) < max_items => ToSet(s) = First(0))
    BY <2>2, <2>4, <2>5
  <2>7. Inv(0)
    BY <2>3, <2>6, Zenon
  <2> HIDE DEF Inv
  <2>. QED
    BY <2>7
<1>8. ASSUME NEW n \in Nat, n < N, n \in Good PROVE n + 1 \in Good
  <2> DEFINE x == list[n + 1]
             s == g[n]
  <2>1. /\ s \in Seq(T) /\ IsInjective(s) /\ ToSet(s) \subseteq First(n)
        /\ Len(s) \in Nat /\ Len(s) <= max_items
        /\ Len(s) < max_items => ToSet(s) = First(n)
    BY <1>1, <1>8
  <2>2. n + 1 \in 1 .. N /\ x \in T /\ n + 1 \in Nat /\ (n + 1) - 1 = n
    BY <1>1, <1>8
  <2>3. First(n + 1) = First(n) \cup {x}
    <3>1. \A i : i \in 1 .. n + 1 <=> i = n + 1 \/ i \in 1 .. n
      OBVIOUS
    <3>. QED
      BY <3>1
  <2>4. g[n + 1] = IF Len(s) >= max_items \/ x \in ToSet(s) THEN s ELSE Append(s, x)
    BY <1>6, <2>2
  <2> HIDE DEF x, s, First
  <2>5. Inv(n + 1)
    <3>1. CASE Len(s) >= max_items \/ x \in ToSet(s)
      <4>1. g[n + 1] = s
        BY <2>4, <3>1
      <4>2. ToSet(s) \subseteq First(n + 1)
        BY <2>1, <2>3
      <4>3. Len(s) < max_items => ToSet(s) = First(n + 1)
        <5> SUFFICES ASSUME Len(s) < max_items PROVE ToSet(s) = First(n + 1)
          OBVIOUS
        <5>1. ~(Len(s) >= max_items)
          BY <2>1
        <5>. QED
          BY <2>1, <2>3, <3>1, <5>1
      <4>. QED
        BY <2>1, <4>1, <4>2, <4>3
    <3>2. CASE ~(Len(s) >= max_items) /\ x \notin ToSet(s)
      <4>1. g[n + 1] = Append(s, x)
        BY <2>4, <3>2
      <4>2. /\ Append(s, x) \in Seq(T) /\ Len(Append(s, x)) = Len(s) + 1
            /\ ToSet(Append(s, x)) = ToSet(s) \cup {x}
            /\ IsInjective(Append(s, x))
        BY <2>1, <2>2, <3>2, Appended
      <4>3. Len(s) < max_items
        BY <2>1, <3>2
      <4>. QED
        BY <2>1, <2>3, <4>1, <4>2, <4>3
    <3>. QED
      BY <3>1, <3>2
  <2> HIDE DEF Inv
  <2>. QED
    BY <2>2, <2>5
<1>9. 0 .. N \subseteq Good
  <2>1. Good \in SUBSET Nat
    OBVIOUS
  <2> HIDE DEF Good
  <2>. QED
    BY <1>1, <1>7, <1>8, <2>1, Induct
<1>10. Inv(N)
  <2>1. N \in 0 .. N /\ N <= N
    BY <1>1
  <2> HIDE DEF Inv, N
  <2>. QED
    BY <1>9, <2>1
<1>11. First(N) = ToSet(list)
  BY <1>1 DEF ToSet
<1> HIDE DEF First, N
<1>. QED
  BY <1>3, <1>10, <1>11

-----------------------------------------------------------------------------
(* Keys in the order of their bytes.                                       *)

\* Key s comes before t: t goes on, or has the larger byte, at position i, up
\* to which the two are the same.
LexAt(s, t, i) ==
    /\ i \in 1 .. Len(t) /\ i <= Len(s) + 1
    /\ \A j \in 1 .. i - 1 : s[j] = t[j]
    /\ i <= Len(s) => s[i] < t[i]

\* A beginning of a sequence, item by item.
LEMMA Beginning ==
    ASSUME NEW s \in Seq(Nat), NEW t \in Seq(Nat), NEW n \in Nat,
           n <= Len(s), n <= Len(t)
    PROVE  SubSeq(s, 1, n) = SubSeq(t, 1, n) <=> \A j \in 1 .. n : s[j] = t[j]
<1> DEFINE u == SubSeq(s, 1, n)
           v == SubSeq(t, 1, n)
<1>1. /\ u \in Seq(Nat) /\ Len(u) = n /\ v \in Seq(Nat) /\ Len(v) = n
      /\ \A j \in 1 .. n : u[j] = s[j] /\ v[j] = t[j]
  BY SMTT(30)
<1> HIDE DEF u, v
<1>2. (\A j \in 1 .. n : u[j] = v[j]) => u = v
  BY <1>1
<1>3. u = v <=> \A j \in 1 .. n : s[j] = t[j]
  BY <1>1, <1>2
<1>. QED
  BY <1>3 DEF u, v

LEMMA PrefixItems ==
    ASSUME NEW s \in Seq(Nat), NEW t \in Seq(Nat)
    PROVE  StartsWith(t, s) <=> Len(s) <= Len(t) /\ \A j \in 1 .. Len(s) : s[j] = t[j]
<1>1. Len(s) \in Nat /\ Len(s) <= Len(s)
  OBVIOUS
<1>2. CASE Len(s) <= Len(t)
  <2>1. SubSeq(s, 1, Len(s)) = SubSeq(t, 1, Len(s)) <=> \A j \in 1 .. Len(s) : s[j] = t[j]
    BY <1>1, <1>2, Beginning
  <2>. QED
    BY <1>2, <2>1 DEF StartsWith, IsPrefix
<1>3. CASE ~(Len(s) <= Len(t))
  BY <1>3 DEF StartsWith, IsPrefix
<1>. QED
  BY <1>2, <1>3

LEMMA LexItems ==
    ASSUME NEW s \in Seq(Nat), NEW t \in Seq(Nat)
    PROVE  LexLess(s, t) <=> \E i \in Nat : LexAt(s, t, i)
<1>1. ASSUME IsStrictPrefix(s, t) PROVE LexAt(s, t, Len(s) + 1)
  <2>1. Len(s) <= Len(t) /\ \A j \in 1 .. Len(s) : s[j] = t[j]
    BY <1>1, PrefixItems DEF IsStrictPrefix, StartsWith
  <2>2. Len(s) # Len(t)
    BY <1>1, <2>1 DEF IsStrictPrefix
  <2>. QED
    BY <2>1, <2>2 DEF LexAt
<1>2. ASSUME NEW i \in DOMAIN s \cap DOMAIN t
      PROVE  /\ i \in Nat /\ i \in 1 .. Len(s) /\ i \in 1 .. Len(t)
             /\ SubSeq(s, 1, i - 1) = SubSeq(t, 1, i - 1)
                    <=> \A j \in 1 .. i - 1 : s[j] = t[j]
  <2>1. i \in Nat /\ i \in 1 .. Len(s) /\ i \in 1 .. Len(t)
    OBVIOUS
  <2>2. i - 1 \in Nat /\ i - 1 <= Len(s) /\ i - 1 <= Len(t)
    BY <2>1
  <2>. QED
    BY <2>1, <2>2, Beginning
<1>3. ASSUME NEW i \in DOMAIN s \cap DOMAIN t, s[i] < t[i],
             SubSeq(s, 1, i - 1) = SubSeq(t, 1, i - 1)
      PROVE  i \in Nat /\ LexAt(s, t, i)
  BY <1>2, <1>3, SMTT(30) DEF LexAt
<1>4. ASSUME NEW i \in Nat, LexAt(s, t, i) PROVE LexLess(s, t)
  <2>1. CASE i <= Len(s)
    <3>1. i \in DOMAIN s \cap DOMAIN t /\ s[i] < t[i]
      BY <1>4, <2>1 DEF LexAt
    <3>. QED
      BY <1>2, <1>4, <3>1 DEF LexLess, LexAt
  <2>2. CASE i = Len(s) + 1
    <3>1. Len(s) < Len(t) /\ \A j \in 1 .. Len(s) : s[j] = t[j]
      BY <1>4, <2>2 DEF LexAt
    <3>2. StartsWith(t, s)
      BY <3>1, PrefixItems
    <3>. QED
      BY <3>1, <3>2 DEF LexLess, IsStrictPrefix, StartsWith
  <2>3. i <= Len(s) \/ i = Len(s) + 1
    BY <1>4, SMTT(30) DEF LexAt
  <2>. QED
    BY <2>1, <2>2, <2>3
<1>5. Len(s) + 1 \in Nat
  OBVIOUS
<1>. QED
  BY <1>1, <1>3, <1>4, <1>5 DEF LexLess

LEMMA LexIrreflexive ==
    ASSUME NEW s \in Seq(Nat)
    PROVE  ~LexLess(s, s)
<1> SUFFICES ASSUME NEW i \in Nat, LexAt(s, s, i) PROVE FALSE
  BY LexItems
<1>. QED
  BY DEF LexAt

LEMMA LexTransitive ==
    ASSUME NEW s \in Seq(Nat), NEW t \in Seq(Nat), NEW u \in Seq(Nat),
           LexLess(s, t), LexLess(t, u)
    PROVE  LexLess(s, u)
<1>1. PICK i \in Nat : LexAt(s, t, i)
  BY LexItems
<1>2. PICK k \in Nat : LexAt(t, u, k)
  BY LexItems
<1>3. CASE i < k
  <2>1. LexAt(s, u, i)
    <3>1. t[i] = u[i] /\ i \in 1 .. Len(u) /\ i <= Len(s) + 1
      BY <1>1, <1>2, <1>3 DEF LexAt
    <3>2. \A j \in 1 .. i - 1 : s[j] = u[j]
      BY <1>1, <1>2, <1>3 DEF LexAt
    <3>. QED
      BY <1>1, <3>1, <3>2 DEF LexAt
  <2>. QED
    BY <2>1, LexItems
<1>4. CASE ~(i < k)
  <2>1. LexAt(s, u, k)
    <3>1. \A j \in 1 .. k - 1 : s[j] = u[j]
      BY <1>1, <1>2, <1>4 DEF LexAt
    <3>2. k \in 1 .. Len(u) /\ k <= Len(s) + 1
      BY <1>1, <1>2, <1>4 DEF LexAt
    <3>3. k <= Len(s) => s[k] < u[k]
      <4> SUFFICES ASSUME k <= Len(s) PROVE s[k] < u[k]
        OBVIOUS
      <4>1. k \in 1 .. Len(s) /\ k \in 1 .. Len(t) /\ k \in 1 .. Len(u) /\ t[k] < u[k]
        BY <1>1, <1>2, <1>4, SMTT(30) DEF LexAt
      <4>2. s[k] = t[k] \/ s[k] < t[k]
        <5>1. CASE k = i
          BY <1>1, <5>1 DEF LexAt
        <5>2. CASE k < i
          BY <1>1, <4>1, <5>2 DEF LexAt
        <5>. QED
          BY <1>4, <5>1, <5>2
      <4>3. \A v \in Seq(Nat) : k \in 1 .. Len(v) => v[k] \in Nat
        OBVIOUS
      <4>. QED
        BY <4>1, <4>2, <4>3, SMTT(30)
    <3>. QED
      BY <3>1, <3>2, <3>3 DEF LexAt
  <2>. QED
    BY <2>1, LexItems
<1>. QED
  BY <1>3, <1>4

\* Two keys differ somewhere; the first such place decides.
LEMMA LexTotal ==
    ASSUME NEW s \in Seq(Nat), NEW t \in Seq(Nat), s # t
    PROVE  LexLess(s, t) \/ LexLess(t, s)
<1> DEFINE m == IF Len(s) <= Len(t) THEN Len(s) ELSE Len(t)
           D == {i \in Nat : i >= 1 /\ i <= m + 1 /\ (i <= m => s[i] # t[i])}
<1>1. m \in Nat /\ m <= Len(s) /\ m <= Len(t) /\ (m = Len(s) \/ m = Len(t))
  OBVIOUS
<1> HIDE DEF m
<1>2. m + 1 \in D
  BY <1>1
<1>3. PICK i \in D : \A k \in D : i <= k
  <2>1. D \in SUBSET Nat /\ D # {}
    BY <1>2
  <2> HIDE DEF D
  <2>. QED
    BY <2>1, Least
<1>4. \A j \in 1 .. i - 1 : s[j] = t[j]
  <2> SUFFICES ASSUME NEW j \in 1 .. i - 1, s[j] # t[j] PROVE FALSE
    OBVIOUS
  <2>1. j \in D /\ ~(i <= j)
    BY <1>1, <1>3
  <2>. QED
    BY <1>3, <2>1
<1>5. i \in Nat /\ i >= 1 /\ i <= m + 1 /\ (i <= m => s[i] # t[i])
  BY <1>3
<1> HIDE DEF D
<1>6. CASE i <= m
  <2>1. i \in 1 .. Len(s) /\ i \in 1 .. Len(t) /\ s[i] # t[i]
    BY <1>1, <1>5, <1>6
  <2>2. s[i] \in Nat /\ t[i] \in Nat
    BY <2>1
  <2>3. s[i] < t[i] \/ t[i] < s[i]
    BY <2>1, <2>2
  <2>4. \A j \in 1 .. i - 1 : t[j] = s[j]
    BY <1>4
  <2>5. i <= Len(s) + 1 /\ i <= Len(t) + 1
    BY <2>1
  <2>6. LexAt(s, t, i) \/ LexAt(t, s, i)
    BY <1>4, <2>1, <2>3, <2>4, <2>5 DEF LexAt
  <2>. QED
    BY <1>5, <2>6, LexItems
<1>7. CASE i = m + 1 /\ Len(s) < Len(t)
  <2>1. LexAt(s, t, i)
    BY <1>1, <1>4, <1>5, <1>7 DEF LexAt
  <2>. QED
    BY <1>5, <2>1, LexItems
<1>8. CASE i = m + 1 /\ Len(t) < Len(s)
  <2>1. LexAt(t, s, i)
    BY <1>1, <1>4, <1>5, <1>8 DEF LexAt
  <2>. QED
    BY <1>5, <2>1, LexItems
<1>9. CASE i = m + 1 /\ Len(s) = Len(t)
  <2>1. \A j \in 1 .. Len(s) : s[j] = t[j]
    BY <1>1, <1>4, <1>9, SMTT(30)
  <2>2. s = t
    BY <1>9, <2>1, SMTT(30)
  <2>. QED
    BY <2>2
<1>10. Len(s) < Len(t) \/ Len(t) < Len(s) \/ Len(s) = Len(t)
  OBVIOUS
<1>. QED
  BY <1>1, <1>5, <1>6, <1>7, <1>8, <1>9, <1>10

KeysBelow(K) == [key \in K |-> {k \in K : LexLess(k, key)}]

\* A scan lists every key once, in the order of the keys.
LEMMA KeysListed ==
    ASSUME NEW K \in SUBSET Seq(Nat), IsFiniteSet(K)
    PROVE  /\ TotalOrder(K, KeysBelow(K))
           /\ InKeyOrder(K) = ByRank(K, KeysBelow(K))
<1>1. TotalOrder(K, KeysBelow(K))
  <2>1. KeysBelow(K) \in [K -> SUBSET K] /\ \A x \in K : x \notin KeysBelow(K)[x]
    BY LexIrreflexive DEF KeysBelow
  <2>2. \A x, y \in K : y \in KeysBelow(K)[x] => KeysBelow(K)[y] \subseteq KeysBelow(K)[x]
    <3> SUFFICES ASSUME NEW x \in K, NEW y \in K, y \in KeysBelow(K)[x],
                        NEW z \in KeysBelow(K)[y]
                 PROVE  z \in KeysBelow(K)[x]
      OBVIOUS
    <3>. QED
      BY LexTransitive DEF KeysBelow
  <2>3. \A x, y \in K : x = y \/ x \in KeysBelow(K)[y] \/ y \in KeysBelow(K)[x]
    BY LexTotal DEF KeysBelow
  <2>. QED
    BY <2>1, <2>2, <2>3 DEF TotalOrder
<1>2. \A key \in K : KeysBelow(K)[key] = {k \in K : LexLess(k, key)}
  BY DEF KeysBelow
<1>3. InKeyOrder(K) = ByRank(K, KeysBelow(K))
  <2> DEFINE Below == KeysBelow(K)
             F(n) == CHOOSE key \in K : Cardinality({k \in K : LexLess(k, key)}) = n - 1
             G(n) == CHOOSE key \in K : Cardinality(Below[key]) = n - 1
  <2> HIDE DEF Below
  <2>1. \A n \in 1 .. Cardinality(K) : F(n) = G(n)
    <3> TAKE n \in 1 .. Cardinality(K)
    <3>1. \A key : (key \in K /\ Cardinality({k \in K : LexLess(k, key)}) = n - 1)
                       <=> (key \in K /\ Cardinality(Below[key]) = n - 1)
      BY <1>2 DEF Below
    <3>. QED
      BY <3>1, Zenon
  <2>2. /\ InKeyOrder(K) = [n \in 1 .. Cardinality(K) |-> F(n)]
        /\ ByRank(K, Below) = [n \in 1 .. Cardinality(K) |-> G(n)]
    BY Zenon DEF InKeyOrder, ByRank
  <2> HIDE DEF F, G
  <2>. QED
    BY <2>1, <2>2 DEF Below
<1>. QED
  BY <1>1, <1>3

\* The rank of a key, and the key of a rank.
LEMMA KeyAt ==
    ASSUME NEW K \in SUBSET Seq(Nat), IsFiniteSet(K)
    PROVE  /\ Cardinality(K) \in Nat
           /\ InKeyOrder(K) \in [1 .. Cardinality(K) -> K]
           /\ \A n \in 1 .. Cardinality(K) :
                  Cardinality({k \in K : LexLess(k, InKeyOrder(K)[n])}) = n - 1
           /\ \A x \in K : LET n == Cardinality({k \in K : LexLess(k, x)}) + 1
                         IN  n \in 1 .. Cardinality(K) /\ InKeyOrder(K)[n] = x
<1> DEFINE Below == KeysBelow(K)
           list == InKeyOrder(K)
<1>1. /\ Cardinality(K) \in Nat
      /\ list \in [1 .. Cardinality(K) -> K]
      /\ \A n \in 1 .. Cardinality(K) : Cardinality(Below[list[n]]) = n - 1
      /\ \A x \in K : /\ Cardinality(Below[x]) + 1 \in 1 .. Cardinality(K)
                      /\ list[Cardinality(Below[x]) + 1] = x
  BY KeysListed, Listed
<1>2. \A x \in K : Below[x] = {k \in K : LexLess(k, x)}
  BY DEF KeysBelow
<1> HIDE DEF Below, list
<1>3. /\ \A n \in 1 .. Cardinality(K) :
             Cardinality({k \in K : LexLess(k, list[n])}) = n - 1
      /\ \A x \in K : LET n == Cardinality({k \in K : LexLess(k, x)}) + 1
                    IN  n \in 1 .. Cardinality(K) /\ list[n] = x
  BY <1>1, <1>2
<1>. QED
  BY <1>1, <1>3 DEF list

LEMMA KeysOnce ==
    ASSUME NEW K \in SUBSET Seq(Nat), IsFiniteSet(K)
    PROVE  /\ InKeyOrder(K) \in Seq(K) /\ Len(InKeyOrder(K)) = Cardinality(K)
           /\ ToSet(InKeyOrder(K)) = K
           /\ IsInjective(InKeyOrder(K))
<1> DEFINE list == InKeyOrder(K)
           N == Cardinality(K)
<1>1. /\ N \in Nat /\ list \in [1 .. N -> K]
      /\ \A n \in 1 .. N : Cardinality({k \in K : LexLess(k, list[n])}) = n - 1
      /\ \A x \in K : \E n \in 1 .. N : list[n] = x
  BY KeyAt
<1> HIDE DEF list, N
<1>2. list \in Seq(K) /\ Len(list) = N /\ DOMAIN list = 1 .. N
  BY <1>1
<1>3. ToSet(list) = K
  BY <1>1, <1>2 DEF ToSet
<1>4. \A m, n \in 1 .. N : list[m] = list[n] => m = n
  <2> SUFFICES ASSUME NEW m \in 1 .. N, NEW n \in 1 .. N, list[m] = list[n] PROVE m = n
    OBVIOUS
  <2>1. m - 1 = n - 1
    BY <1>1
  <2>. QED
    BY <1>1, <2>1
<1>5. IsInjective(list)
  BY <1>2, <1>4 DEF IsInjective
<1>. QED
  BY <1>2, <1>3, <1>5 DEF list, N

\* Keys with nothing in between and nothing before them come first.
LEMMA KeysFirst ==
    ASSUME NEW K \in SUBSET Seq(Nat), IsFiniteSet(K), NEW P \in SUBSET K,
           \A x \in P, y \in K : LexLess(y, x) => y \in P
    PROVE  /\ Cardinality(P) \in Nat /\ Cardinality(K) \in Nat
           /\ Cardinality(P) <= Cardinality(K)
           /\ \A n \in 1 .. Cardinality(P) : InKeyOrder(K)[n] = InKeyOrder(P)[n]
           /\ \A n \in 1 .. Cardinality(K) :
                  InKeyOrder(K)[n] \in P <=> n <= Cardinality(P)
<1>1. IsFiniteSet(P) /\ Cardinality(P) <= Cardinality(K)
  BY FS_Subset
<1>2. P \in SUBSET Seq(Nat)
  OBVIOUS
<1>3. \A x \in P : {k \in K : LexLess(k, x)} = {k \in P : LexLess(k, x)}
  OBVIOUS
<1>4. Cardinality(P) \in Nat /\ Cardinality(K) \in Nat
  BY <1>1, FS_CardinalityType
<1>5. ASSUME NEW n \in 1 .. Cardinality(P)
      PROVE  /\ InKeyOrder(K)[n] = InKeyOrder(P)[n]
             /\ InKeyOrder(K)[n] \in P
  <2>1. PICK x \in P : x = InKeyOrder(P)[n]
    BY <1>1, <1>2, KeyAt
  <2>2. Cardinality({k \in P : LexLess(k, x)}) = n - 1
    BY <1>1, <1>2, <2>1, KeyAt
  <2>3. Cardinality({k \in K : LexLess(k, x)}) = n - 1
    BY <1>3, <2>2
  <2>4. (n - 1) + 1 = n
    BY <1>4
  <2>5. InKeyOrder(K)[n] = x
    BY <2>3, <2>4, KeyAt
  <2>. QED
    BY <2>1, <2>5
<1>6. ASSUME NEW n \in 1 .. Cardinality(K), InKeyOrder(K)[n] \in P
      PROVE  n <= Cardinality(P)
  <2>1. PICK x \in P : x = InKeyOrder(K)[n]
    BY <1>6
  <2>2. Cardinality({k \in K : LexLess(k, x)}) = n - 1
    BY <2>1, KeyAt
  <2>3. Cardinality({k \in P : LexLess(k, x)}) = n - 1
    BY <1>3, <2>2
  <2>4. Cardinality({k \in P : LexLess(k, x)}) + 1 \in 1 .. Cardinality(P)
    BY <1>1, <1>2, KeyAt
  <2>. QED
    BY <1>4, <2>3, <2>4
<1>7. \A n \in 1 .. Cardinality(K) : n <= Cardinality(P) => n \in 1 .. Cardinality(P)
  BY <1>4
<1>. QED
  BY <1>1, <1>4, <1>5, <1>6, <1>7

\* An iterator that starts at a prefix meets the keys with the prefix first.
LEMMA PrefixFirst ==
    ASSUME NEW p \in Seq(Nat), NEW x \in Seq(Nat), NEW y \in Seq(Nat), StartsWith(x, p)
    PROVE  /\ ~LexLess(x, p)
           /\ (~LexLess(y, p) /\ LexLess(y, x)) => StartsWith(y, p)
<1>1. Len(p) <= Len(x) /\ \A j \in 1 .. Len(p) : p[j] = x[j]
  BY PrefixItems
<1>2. ~LexLess(x, p)
  <2> SUFFICES ASSUME NEW i \in Nat, LexAt(x, p, i) PROVE FALSE
    BY LexItems
  <2>1. i \in 1 .. Len(p) /\ i <= Len(x) /\ x[i] < p[i] /\ p[i] \in Nat
    BY <1>1 DEF LexAt
  <2>. QED
    BY <1>1, <2>1
<1>3. ASSUME ~LexLess(y, p), LexLess(y, x), ~StartsWith(y, p) PROVE FALSE
  <2>1. y # p
    BY <1>3, PrefixItems
  <2>2. LexLess(p, y)
    BY <1>3, <2>1, LexTotal
  <2>3. PICK i \in Nat : LexAt(p, y, i)
    BY <2>2, LexItems
  <2>4. i <= Len(p)
    <3> SUFFICES ASSUME i = Len(p) + 1 PROVE FALSE
      BY <2>3 DEF LexAt
    <3>1. Len(p) <= Len(y) /\ \A j \in 1 .. Len(p) : p[j] = y[j]
      BY <2>3 DEF LexAt
    <3>. QED
      BY <1>3, <3>1, PrefixItems
  <2>5. LexAt(x, y, i)
    <3>1. i \in 1 .. Len(p) /\ p[i] = x[i] /\ p[i] < y[i] /\ i \in 1 .. Len(y)
      BY <1>1, <2>3, <2>4 DEF LexAt
    <3>2. i <= Len(x) + 1
      BY <1>1, <2>4
    <3>3. \A j \in 1 .. i - 1 : x[j] = y[j]
      BY <1>1, <2>3, <2>4 DEF LexAt
    <3>. QED
      BY <3>1, <3>2, <3>3 DEF LexAt
  <2>6. LexLess(x, y)
    BY <2>5, LexItems
  <2>. QED
    BY <1>3, <2>6, LexTransitive, LexIrreflexive
<1>. QED
  BY <1>2, <1>3

\* Bytes in front of all keys leave their order alone.
LEMMA TaggedLess ==
    ASSUME NEW t \in Seq(Nat), NEW x \in Seq(Nat), NEW y \in Seq(Nat)
    PROVE  /\ LexLess(t \o x, t \o y) <=> LexLess(x, y)
           /\ t \o x = t \o y => x = y
<1>1. \A u \in Seq(Nat) :
          /\ t \o u \in Seq(Nat) /\ Len(t \o u) = Len(t) + Len(u)
          /\ \A j \in 1 .. Len(t) : (t \o u)[j] = t[j]
          /\ \A j \in 1 .. Len(u) : (t \o u)[Len(t) + j] = u[j]
  BY SMTT(30)
<1>2. t \o x = t \o y => x = y
  <2> SUFFICES ASSUME t \o x = t \o y PROVE x = y
    OBVIOUS
  <2>1. Len(x) = Len(y)
    BY <1>1
  <2>2. ASSUME NEW j \in 1 .. Len(x) PROVE x[j] = y[j]
    <3> DEFINE tx == t \o x
    <3>1. tx[Len(t) + j] = x[j]
      BY <1>1
    <3>2. tx = t \o y /\ j \in 1 .. Len(y)
      BY <2>1
    <3>3. tx[Len(t) + j] = y[j]
      <4> HIDE DEF tx
      <4>. QED
        BY <1>1, <3>2
    <3> HIDE DEF tx
    <3>. QED
      BY <3>1, <3>3
  <2>. QED
    BY <2>1, <2>2, SeqT!SeqEqual
<1>3. ASSUME NEW u \in Seq(Nat), NEW v \in Seq(Nat), LexLess(u, v)
      PROVE  LexLess(t \o u, t \o v)
  <2>1. PICK i \in Nat : LexAt(u, v, i)
    BY <1>3, LexItems
  <2> DEFINE tu == t \o u
             tv == t \o v
             n == Len(t)
  <2>2. /\ tu \in Seq(Nat) /\ Len(tu) = n + Len(u) /\ n \in Nat
        /\ tv \in Seq(Nat) /\ Len(tv) = n + Len(v)
        /\ \A j \in 1 .. n : tu[j] = t[j] /\ tv[j] = t[j]
        /\ \A j \in 1 .. Len(u) : tu[n + j] = u[j]
        /\ \A j \in 1 .. Len(v) : tv[n + j] = v[j]
    BY <1>1
  <2> HIDE DEF tu, tv, n
  <2>3. /\ i \in 1 .. Len(v) /\ i <= Len(u) + 1
        /\ \A j \in 1 .. i - 1 : u[j] = v[j]
        /\ i <= Len(u) => u[i] < v[i]
    BY <2>1 DEF LexAt
  <2>n. n \in Nat /\ i <= Len(v) /\ i <= Len(u) + 1
    BY <2>2, <2>3
  <2>4. n + i \in 1 .. Len(tv) /\ n + i <= Len(tu) + 1 /\ n + i \in Nat
    BY <2>2, <2>3
  <2>5. ASSUME NEW j \in 1 .. (n + i) - 1 PROVE tu[j] = tv[j]
    <3>1. CASE j <= n
      BY <2>2, <3>1
    <3>2. CASE ~(j <= n)
      <4>1. /\ j - n \in 1 .. i - 1 /\ j - n \in 1 .. Len(u) /\ j - n \in 1 .. Len(v)
            /\ n + (j - n) = j
        <5>1. /\ n \in Nat /\ Len(u) \in Nat /\ Len(v) \in Nat /\ i <= Len(v)
              /\ i <= Len(u) + 1 /\ j \in Nat /\ j <= (n + i) - 1 /\ n < j
          BY <2>n, <3>2
        <5>. QED
          BY <5>1
      <4>2. tu[n + (j - n)] = u[j - n] /\ tv[n + (j - n)] = v[j - n] /\ u[j - n] = v[j - n]
        BY <2>2, <2>3, <4>1
      <4>. QED
        BY <4>1, <4>2
    <3>. QED
      BY <3>1, <3>2
  <2>6. n + i <= Len(tu) => tu[n + i] < tv[n + i]
    <3> SUFFICES ASSUME n + i <= Len(tu) PROVE tu[n + i] < tv[n + i]
      OBVIOUS
    <3>1. i <= Len(u) /\ i \in 1 .. Len(u)
      BY <2>2, <2>3
    <3>. QED
      BY <2>2, <2>3, <3>1
  <2>7. LexAt(tu, tv, n + i)
    BY <2>4, <2>5, <2>6 DEF LexAt
  <2>8. LexLess(tu, tv)
    BY <2>2, <2>4, <2>7, LexItems
  <2>. QED
    BY <2>8 DEF tu, tv
<1>4. ASSUME LexLess(t \o x, t \o y) PROVE LexLess(x, y)
  <2>1. t \o x \in Seq(Nat) /\ t \o y \in Seq(Nat)
    BY <1>1
  <2>2. x # y
    BY <1>4, <2>1, LexIrreflexive
  <2>3. ~LexLess(y, x)
    BY <1>3, <1>4, <2>1, LexTransitive, LexIrreflexive
  <2>. QED
    BY <2>2, <2>3, LexTotal
<1>. QED
  BY <1>2, <1>3, <1>4

LEMMA TaggedKeys ==
    ASSUME NEW t \in Seq(Nat), NEW K \in SUBSET Seq(Nat), IsFiniteSet(K)
    PROVE  LET tagged == {t \o k : k \in K}
           IN  /\ Cardinality(tagged) = Cardinality(K)
               /\ \A n \in 1 .. Cardinality(K) :
                      InKeyOrder(tagged)[n] = t \o InKeyOrder(K)[n]
<1> DEFINE tagged == {t \o k : k \in K}
<1>1. tagged \in SUBSET Seq(Nat)
  <2>1. \A k \in Seq(Nat) : t \o k \in Seq(Nat)
    OBVIOUS
  <2>. QED
    BY <2>1, Zenon
<1>2. ASSUME NEW P \in SUBSET K
      PROVE  /\ IsFiniteSet({t \o k : k \in P})
             /\ Cardinality({t \o k : k \in P}) = Cardinality(P)
  <2> DEFINE f == [k \in P |-> t \o k]
             Q == {t \o k : k \in P}
  <2>1. \A x, y \in P : t \o x = t \o y => x = y
    BY TaggedLess
  <2>2. f \in Bijection(P, Q)
    <3>1. f \in Injection(P, Q)
      BY <2>1 DEF Injection, IsInjective
    <3>2. f \in Surjection(P, Q)
      BY DEF Surjection
    <3>. QED
      BY <3>1, <3>2 DEF Bijection
  <2>3. IsFiniteSet(P)
    BY FS_Subset
  <2> HIDE DEF f, Q
  <2>4. IsFiniteSet(Q) /\ Cardinality(Q) = Cardinality(P)
    BY <2>2, <2>3, FS_Bijection DEF ExistsBijection
  <2>. QED
    BY <2>4 DEF Q
<1>3. IsFiniteSet(tagged) /\ Cardinality(tagged) = Cardinality(K)
  BY <1>2
<1>4. ASSUME NEW n \in 1 .. Cardinality(K)
      PROVE  InKeyOrder(tagged)[n] = t \o InKeyOrder(K)[n]
  <2>1. PICK x \in K : x = InKeyOrder(K)[n]
    BY KeyAt
  <2>2. Cardinality({k \in K : LexLess(k, x)}) = n - 1
    BY <2>1, KeyAt
  <2>3. {k \in tagged : LexLess(k, t \o x)} = {t \o k : k \in {k \in K : LexLess(k, x)}}
    <3>1. \A k \in K : LexLess(t \o k, t \o x) <=> LexLess(k, x)
      BY TaggedLess
    <3>. QED
      BY <3>1, Zenon
  <2>4. Cardinality({k \in tagged : LexLess(k, t \o x)}) = n - 1
    BY <1>2, <2>2, <2>3
  <2>5. t \o x \in tagged
    OBVIOUS
  <2>6. (n - 1) + 1 = n
    BY KeyAt
  <2> HIDE DEF tagged
  <2>7. InKeyOrder(tagged)[n] = t \o x
    BY <1>1, <1>3, <2>4, <2>5, <2>6, KeyAt, ZenonT(40)
  <2>. QED
    BY <2>1, <2>7
<1>. QED
  BY <1>3, <1>4

-----------------------------------------------------------------------------
(* Sums over a finite set.                                                 *)

SumBody(f, g, s) ==
    IF s = {} THEN 0 ELSE f[CHOOSE x \in s : TRUE] + g[s \ {CHOOSE x \in s : TRUE}]

LEMMA SumUnfold ==
    ASSUME NEW f, NEW S
    PROVE  \E g : /\ g = CHOOSE h : h = [s \in SUBSET S |-> SumBody(f, h, s)]
                  /\ SumOver(f, S) = g[S]
<1>1. PICK g : g = CHOOSE h : h = [s \in SUBSET S |-> SumBody(f, h, s)]
  OBVIOUS
<1>2. SumOver(f, S) = g[S]
  BY <1>1, Zenon DEF SumOver, SumBody, MapThenSumSet, MapThenFoldSet
<1>. QED
  BY <1>1, <1>2, Zenon

\* A property that passes from the sets with one element less to every set.
LEMMA SetInduct ==
    ASSUME NEW S, IsFiniteSet(S), NEW Good,
           \A T \in SUBSET S : (\A x \in T : T \ {x} \in Good) => T \in Good
    PROVE  SUBSET S \subseteq Good
<1> DEFINE G == {n \in Nat : \A T \in SUBSET S : Cardinality(T) <= n => T \in Good}
           N == Cardinality(S)
<1>1. N \in Nat
  BY FS_CardinalityType
<1>2. \A T \in SUBSET S : IsFiniteSet(T) /\ Cardinality(T) \in Nat /\ Cardinality(T) <= N
  BY FS_Subset, FS_CardinalityType
<1>3. 0 \in G
  <2> SUFFICES ASSUME NEW T \in SUBSET S, Cardinality(T) <= 0 PROVE T \in Good
    OBVIOUS
  <2>1. Cardinality(T) = 0
    BY <1>2
  <2>2. T = {}
    BY <1>2, <2>1, FS_EmptySet
  <2>. QED
    BY <2>2
<1>4. ASSUME NEW n \in Nat, n < N, n \in G PROVE n + 1 \in G
  <2> SUFFICES ASSUME NEW T \in SUBSET S, Cardinality(T) <= n + 1 PROVE T \in Good
    OBVIOUS
  <2>1. \A x \in T : T \ {x} \in SUBSET S /\ Cardinality(T \ {x}) = Cardinality(T) - 1
    BY <1>2, FS_RemoveElement
  <2>2. \A x \in T : Cardinality(T \ {x}) <= n
    BY <1>2, <2>1
  <2>. QED
    BY <1>4, <2>1, <2>2
<1>5. N \in G
  <2>1. G \in SUBSET Nat
    OBVIOUS
  <2> HIDE DEF G, N
  <2>2. 0 .. N \subseteq G
    BY <1>1, <1>3, <1>4, <2>1, Induct
  <2>. QED
    BY <1>1, <2>2
<1>. QED
  BY <1>2, <1>5

SumLoop(f, S, g) == g = [s \in SUBSET S |-> SumBody(f, g, s)]

\* The function that the definition of a sum chooses exists.
LEMMA SumSolution ==
    ASSUME NEW f, NEW S, IsFiniteSet(S)
    PROVE  \E g : SumLoop(f, S, g)
<1> DEFINE Level(n) == {s \in SUBSET S : Cardinality(s) <= n}
           Solves(g, n) == g = [s \in Level(n) |-> SumBody(f, g, s)]
           Good == {n \in Nat : \E g : Solves(g, n)}
           N == Cardinality(S)
<1>1. N \in Nat
  BY FS_CardinalityType
<1>2. \A T \in SUBSET S : IsFiniteSet(T) /\ Cardinality(T) \in Nat /\ Cardinality(T) <= N
  BY FS_Subset, FS_CardinalityType
<1>3. 0 \in Good
  <2> DEFINE g == [s \in Level(0) |-> 0]
  <2>1. \A s \in Level(0) : s = {}
    <3> SUFFICES ASSUME NEW s \in Level(0) PROVE s = {}
      OBVIOUS
    <3>1. IsFiniteSet(s) /\ Cardinality(s) = 0
      BY <1>2
    <3>. QED
      BY <3>1, FS_EmptySet
  <2>2. \A s \in Level(0) : SumBody(f, g, s) = 0
    BY <2>1 DEF SumBody
  <2>3. Solves(g, 0)
    BY <2>2
  <2> HIDE DEF Solves, g
  <2>. QED
    BY <2>3, 0 \in Nat, Zenon
<1>4. ASSUME NEW n \in Nat, n < N, n \in Good PROVE n + 1 \in Good
  <2>1. PICK g : Solves(g, n)
    BY <1>4
  <2> DEFINE h == [s \in Level(n + 1) |-> SumBody(f, g, s)]
  <2>2. \A s \in Level(n) : s \in Level(n + 1)
    BY <1>2
  <2>3. \A s \in Level(n + 1) : \A x \in s : s \ {x} \in Level(n)
    <3> SUFFICES ASSUME NEW s \in Level(n + 1), NEW x \in s PROVE s \ {x} \in Level(n)
      OBVIOUS
    <3>1. Cardinality(s \ {x}) = Cardinality(s) - 1
      BY <1>2, FS_RemoveElement
    <3>2. Cardinality(s) \in Nat /\ Cardinality(s) <= n + 1
      BY <1>2
    <3>. QED
      BY <3>1, <3>2
  <2>4. h = [s \in Level(n + 1) |-> SumBody(f, g, s)]
    OBVIOUS
  <2> HIDE DEF h, Level
  <2>5. \A s \in Level(n) : h[s] = g[s]
    BY <2>1, <2>2, <2>4
  <2>6. \A s \in Level(n + 1) : SumBody(f, g, s) = SumBody(f, h, s)
    <3> SUFFICES ASSUME NEW s \in Level(n + 1), s # {}
                 PROVE  SumBody(f, g, s) = SumBody(f, h, s)
      BY DEF SumBody
    <3>1. PICK x \in s : x = CHOOSE y \in s : TRUE
      OBVIOUS
    <3>2. g[s \ {x}] = h[s \ {x}]
      BY <2>3, <2>5
    <3>. QED
      BY <3>1, <3>2 DEF SumBody
  <2>7. Solves(h, n + 1)
    BY <2>4, <2>6
  <2>8. n + 1 \in Nat
    OBVIOUS
  <2> HIDE DEF Solves
  <2>. QED
    BY <2>7, <2>8, Zenon
<1>5. N \in Good
  <2>1. Good \in SUBSET Nat
    OBVIOUS
  <2> HIDE DEF Good, N
  <2>2. 0 .. N \subseteq Good
    BY <1>1, <1>3, <1>4, <2>1, Induct
  <2>. QED
    BY <1>1, <2>2
<1>6. Level(N) = SUBSET S
  BY <1>2
<1>7. PICK g : Solves(g, N)
  BY <1>5, Zenon
<1>8. SumLoop(f, S, g)
  <2> HIDE DEF Level
  <2>. QED
    BY <1>6, <1>7 DEF SumLoop
<1>. QED
  BY <1>8, Zenon

\* One element more.
LEMMA SumOneStep ==
    ASSUME NEW f, NEW S, NEW g, SumLoop(f, S, g), NEW s \in SUBSET S, s # {}
    PROVE  \E x \in s : x = (CHOOSE y \in s : TRUE) /\ g[s] = f[x] + g[s \ {x}]
<1>1. PICK x \in s : x = CHOOSE y \in s : TRUE
  OBVIOUS
<1>2. g[s] = SumBody(f, g, s)
  BY DEF SumLoop
<1>. QED
  BY <1>1, <1>2 DEF SumBody

\* A sum does not depend on which element is added last.
LEMMA SumAnyOrder ==
    ASSUME NEW S, IsFiniteSet(S), NEW f \in [S -> Nat], NEW g, SumLoop(f, S, g)
    PROVE  /\ g[{}] = 0
           /\ \A s \in SUBSET S : g[s] \in Nat /\ \A x \in s : g[s] = f[x] + g[s \ {x}]
<1> DEFINE Fine(s) == g[s] \in Nat /\ \A x \in s : g[s] = f[x] + g[s \ {x}]
           Good == {s \in SUBSET S : Fine(s)}
<1>1. g[{}] = 0
  <2>1. {} \in SUBSET S
    OBVIOUS
  <2>. QED
    BY <2>1 DEF SumLoop, SumBody
<1>4. \A s \in SUBSET S : g[s] \in Nat
  <2> DEFINE Number == {s \in SUBSET S : g[s] \in Nat}
  <2>1. ASSUME NEW s \in SUBSET S, \A x \in s : s \ {x} \in Number PROVE s \in Number
    <3>1. CASE s = {}
      BY <1>1, <3>1
    <3>2. CASE s # {}
      <4>1. PICK y \in s : g[s] = f[y] + g[s \ {y}]
        BY <3>2, SumOneStep
      <4>2. g[s \ {y}] \in Nat /\ f[y] \in Nat
        BY <2>1
      <4>. QED
        BY <4>1, <4>2
    <3>. QED
      BY <3>1, <3>2
  <2>2. SUBSET S \subseteq Number
    <3> HIDE DEF Number
    <3>. QED
      BY <2>1, SetInduct
  <2>. QED
    BY <2>2
<1>2. ASSUME NEW s \in SUBSET S, \A x \in s : s \ {x} \in Good PROVE s \in Good
  <2>1. CASE s = {}
    BY <1>1, <2>1
  <2>2. CASE s # {}
    <3>1. PICK y \in s : g[s] = f[y] + g[s \ {y}]
      BY <2>2, SumOneStep
    <3>2. \A x \in s : Fine(s \ {x})
      BY <1>2
    <3>3. g[s] \in Nat
      BY <3>1, <3>2
    <3>4. ASSUME NEW x \in s PROVE g[s] = f[x] + g[s \ {x}]
      <4>1. CASE x = y
        BY <3>1, <4>1
      <4>2. CASE x # y
        <5>1. x \in s \ {y} /\ y \in s \ {x}
          BY <4>2
        <5>2. (s \ {y}) \ {x} = (s \ {x}) \ {y}
          OBVIOUS
        <5> DEFINE r == (s \ {x}) \ {y}
        <5>3. g[s \ {y}] = f[x] + g[r] /\ g[s \ {x}] = f[y] + g[r]
          BY <3>2, <5>1, <5>2
        <5>4. g[r] \in Nat
          BY <1>4
        <5>5. f[x] \in Nat /\ f[y] \in Nat
          OBVIOUS
        <5> HIDE DEF r
        <5>. QED
          BY <3>1, <5>3, <5>4, <5>5
      <4>. QED
        BY <4>1, <4>2
    <3>. QED
      BY <3>3, <3>4
  <2>. QED
    BY <2>1, <2>2
<1>3. SUBSET S \subseteq Good
  <2> HIDE DEF Good
  <2>. QED
    BY <1>2, SetInduct
<1>. QED
  BY <1>1, <1>3

\* The sum over a subset is found on the way to the sum over the set.
LEMMA SumBelow ==
    ASSUME NEW S, NEW f, NEW g, SumLoop(f, S, g), NEW T \in SUBSET S, IsFiniteSet(T),
           NEW h, SumLoop(f, T, h)
    PROVE  h[T] = g[T]
<1> DEFINE Good == {s \in SUBSET T : h[s] = g[s]}
<1>1. ASSUME NEW s \in SUBSET T, \A x \in s : s \ {x} \in Good PROVE s \in Good
  <2>1. g[s] = SumBody(f, g, s) /\ h[s] = SumBody(f, h, s)
    BY DEF SumLoop
  <2>2. CASE s = {}
    BY <2>1, <2>2 DEF SumBody
  <2>3. CASE s # {}
    <3>1. PICK x \in s : x = CHOOSE y \in s : TRUE
      BY <2>3
    <3>2. h[s \ {x}] = g[s \ {x}]
      BY <1>1
    <3>. QED
      BY <2>1, <3>1, <3>2 DEF SumBody
  <2>. QED
    BY <2>2, <2>3
<1>2. SUBSET T \subseteq Good
  <2> HIDE DEF Good
  <2>. QED
    BY <1>1, SetInduct
<1>. QED
  BY <1>2

\* What a sum over a finite set is.
LEMMA SumFacts ==
    ASSUME NEW S, IsFiniteSet(S), NEW f \in [S -> Nat]
    PROVE  /\ SumOver(f, {}) = 0
           /\ \A T \in SUBSET S :
                  /\ SumOver(f, T) \in Nat
                  /\ \A x \in T : SumOver(f, T) = f[x] + SumOver(f, T \ {x})
<1>1. PICK g : SumLoop(f, S, g)
  BY SumSolution
<1>2. ASSUME NEW T \in SUBSET S PROVE SumOver(f, T) = g[T]
  <2>1. IsFiniteSet(T)
    BY FS_Subset
  <2>2. PICK h : /\ h = CHOOSE k : k = [s \in SUBSET T |-> SumBody(f, k, s)]
                 /\ SumOver(f, T) = h[T]
    BY SumUnfold, Zenon
  <2>3. \E k : SumLoop(f, T, k)
    BY <2>1, SumSolution
  <2>4. SumLoop(f, T, h)
    BY <2>2, <2>3, Zenon DEF SumLoop
  <2>. QED
    BY <1>1, <2>1, <2>2, <2>4, SumBelow
<1>3. /\ g[{}] = 0
      /\ \A s \in SUBSET S : g[s] \in Nat /\ \A x \in s : g[s] = f[x] + g[s \ {x}]
  BY <1>1, SumAnyOrder
<1>4. {} \in SUBSET S /\ \A T \in SUBSET S : \A x : T \ {x} \in SUBSET S
  OBVIOUS
<1>. QED
  BY <1>2, <1>3, <1>4

\* The sum over two sets without a common element.
LEMMA SumSplit ==
    ASSUME NEW S, IsFiniteSet(S), NEW f \in [S -> Nat],
           NEW T \in SUBSET S, NEW U \in SUBSET S, T \cap U = {}
    PROVE  SumOver(f, T \cup U) = SumOver(f, T) + SumOver(f, U)
<1> DEFINE Good == {V \in SUBSET U : SumOver(f, T \cup V) = SumOver(f, T) + SumOver(f, V)}
<1>1. IsFiniteSet(U)
  BY FS_Subset
<1>2. ASSUME NEW V \in SUBSET U, \A x \in V : V \ {x} \in Good PROVE V \in Good
  <2>1. CASE V = {}
    <3>1. T \cup V = T
      BY <2>1
    <3>. QED
      BY <2>1, <3>1, SumFacts
  <2>2. CASE V # {}
    <3>1. PICK x \in V : TRUE
      BY <2>2
    <3>2. (T \cup V) \ {x} = T \cup (V \ {x}) /\ x \in T \cup V /\ x \in S
      OBVIOUS
    <3>3. T \cup V \in SUBSET S /\ V \in SUBSET S /\ V \ {x} \in SUBSET S
      OBVIOUS
    <3>4. /\ SumOver(f, T \cup V) = f[x] + SumOver(f, T \cup (V \ {x}))
          /\ SumOver(f, V) = f[x] + SumOver(f, V \ {x})
          /\ SumOver(f, T) \in Nat /\ SumOver(f, V \ {x}) \in Nat
      <4>1. \A W \in SUBSET S :
                /\ SumOver(f, W) \in Nat
                /\ \A y \in W : SumOver(f, W) = f[y] + SumOver(f, W \ {y})
        BY SumFacts
      <4>2. SumOver(f, T \cup V) = f[x] + SumOver(f, (T \cup V) \ {x})
        BY <3>2, <3>3, <4>1
      <4>3. SumOver(f, V) = f[x] + SumOver(f, V \ {x})
        BY <3>3, <4>1
      <4>. QED
        BY <3>2, <3>3, <4>1, <4>2, <4>3
    <3>5. SumOver(f, T \cup (V \ {x})) = SumOver(f, T) + SumOver(f, V \ {x})
      BY <1>2
    <3>6. f[x] \in Nat
      BY <3>2
    <3>7. SumOver(f, T \cup V) = SumOver(f, T) + SumOver(f, V)
      BY <3>4, <3>5, <3>6
    <3>. QED
      BY <3>7
  <2>. QED
    BY <2>1, <2>2
<1>3. SUBSET U \subseteq Good
  <2> HIDE DEF Good
  <2>. QED
    BY <1>1, <1>2, SetInduct
<1>. QED
  BY <1>3

LEMMA SumGrows ==
    ASSUME NEW S, IsFiniteSet(S), NEW f \in [S -> Nat], NEW T \in SUBSET S, NEW U \in SUBSET T
    PROVE  SumOver(f, U) \in Nat /\ SumOver(f, T) \in Nat /\ SumOver(f, U) <= SumOver(f, T)
<1>1. U \in SUBSET S /\ T \ U \in SUBSET S /\ U \cap (T \ U) = {} /\ U \cup (T \ U) = T
  OBVIOUS
<1>2. SumOver(f, U) \in Nat /\ SumOver(f, T \ U) \in Nat /\ SumOver(f, T) \in Nat
  BY <1>1, SumFacts
<1>3. SumOver(f, U \cup (T \ U)) = SumOver(f, U) + SumOver(f, T \ U)
  BY <1>1, SumSplit
<1>4. SumOver(f, T) = SumOver(f, U) + SumOver(f, T \ U)
  BY <1>1, <1>3
<1>. QED
  BY <1>2, <1>4

\* Adding up ones counts.
LEMMA SumCounts ==
    ASSUME NEW S, IsFiniteSet(S), NEW one \in [S -> Nat], \A x \in S : one[x] = 1,
           NEW T \in SUBSET S
    PROVE  SumOver(one, T) = Cardinality(T)
<1> DEFINE Good == {V \in SUBSET S : SumOver(one, V) = Cardinality(V)}
<1>1. ASSUME NEW V \in SUBSET S, \A x \in V : V \ {x} \in Good PROVE V \in Good
  <2>1. CASE V = {}
    BY <2>1, SumFacts, FS_EmptySet
  <2>2. CASE V # {}
    <3>1. PICK x \in V : TRUE
      BY <2>2
    <3>2. SumOver(one, V) = one[x] + SumOver(one, V \ {x})
      BY SumFacts
    <3>3. IsFiniteSet(V)
      BY FS_Subset
    <3>4. Cardinality(V) \in Nat /\ Cardinality(V \ {x}) = Cardinality(V) - 1
      BY <3>3, FS_CardinalityType, FS_RemoveElement
    <3>5. SumOver(one, V \ {x}) = Cardinality(V \ {x}) /\ one[x] = 1
      BY <1>1
    <3>6. SumOver(one, V) = Cardinality(V)
      BY <3>2, <3>4, <3>5
    <3>. QED
      BY <3>6
  <2>. QED
    BY <2>1, <2>2
<1>2. SUBSET S \subseteq Good
  <2> HIDE DEF Good
  <2>. QED
    BY <1>1, SetInduct
<1>. QED
  BY <1>2

\* Adding up group by group.
GroupOf(T, key, k) == {x \in T : key[x] = k}
Groups(T, key) == {key[x] : x \in T}

LEMMA SumOfGroups ==
    ASSUME NEW S, IsFiniteSet(S), NEW f \in [S -> Nat], NEW T \in SUBSET S, NEW key,
           NEW total \in [Groups(T, key) -> Nat],
           \A k \in Groups(T, key) : total[k] = SumOver(f, GroupOf(T, key, k))
    PROVE  SumOver(total, Groups(T, key)) = SumOver(f, T)
<1> DEFINE D == Groups(T, key)
           In(P) == {x \in T : key[x] \in P}
           Good == {P \in SUBSET D : SumOver(total, P) = SumOver(f, In(P))}
<1>1. IsFiniteSet(D)
  <2> DEFINE g == [x \in T |-> key[x]]
  <2>1. IsFiniteSet(T)
    BY FS_Subset
  <2>2. g \in Surjection(T, D)
    BY DEF Surjection, Groups
  <2> HIDE DEF g, D
  <2>. QED
    BY <2>1, <2>2, FS_Surjection
<1>2. total \in [D -> Nat] /\ \A k \in D : total[k] = SumOver(f, GroupOf(T, key, k))
  OBVIOUS
<1>3. \A x \in T : key[x] \in D
  BY DEF Groups
<1> HIDE DEF D
<1>4. ASSUME NEW P \in SUBSET D, \A k \in P : P \ {k} \in Good PROVE P \in Good
  <2>1. CASE P = {}
    <3>1. In(P) = {}
      BY <2>1
    <3>2. SumOver(total, {}) = 0 /\ SumOver(f, {}) = 0
      BY <1>1, <1>2, SumFacts
    <3> HIDE DEF In
    <3>. QED
      BY <2>1, <3>1, <3>2
  <2>2. CASE P # {}
    <3>1. PICK k \in P : TRUE
      BY <2>2
    <3> DEFINE A == In(P \ {k})
               B == GroupOf(T, key, k)
    <3>2. A \cup B = In(P) /\ A \cap B = {} /\ A \in SUBSET S /\ B \in SUBSET S
      BY DEF GroupOf
    <3>3. SumOver(total, P) = total[k] + SumOver(total, P \ {k})
      BY <1>1, <1>2, SumFacts
    <3>4. total[k] = SumOver(f, B)
      BY <1>2
    <3>5. SumOver(total, P \ {k}) = SumOver(f, A)
      BY <1>4
    <3> HIDE DEF A, B, In
    <3>6. SumOver(f, A \cup B) = SumOver(f, A) + SumOver(f, B)
      BY <3>2, SumSplit
    <3>7. SumOver(f, A) \in Nat /\ SumOver(f, B) \in Nat
      BY <3>2, SumFacts
    <3>8. SumOver(total, P) = SumOver(f, In(P))
      BY <3>2, <3>3, <3>4, <3>5, <3>6, <3>7, SMTT(30)
    <3>. QED
      BY <3>8
  <2>. QED
    BY <2>1, <2>2
<1>5. SUBSET D \subseteq Good
  <2> HIDE DEF Good
  <2>. QED
    BY <1>1, <1>4, SetInduct
<1>6. In(D) = T
  BY <1>3
<1>7. SumOver(total, D) = SumOver(f, In(D))
  BY <1>5
<1>. QED
  BY <1>6, <1>7 DEF D

=============================================================================
