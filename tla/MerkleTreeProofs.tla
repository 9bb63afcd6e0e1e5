-------------------------- MODULE MerkleTreeProofs ---------------------------
(***************************************************************************)
(* The sparse Merkle tree, for trees of every height.  TLC checks a height *)
(* of 3; the code has 256.  The library's induction theorems cannot be     *)
(* instantiated here, so each induction is over the least counterexample.  *)
(***************************************************************************)
EXTENDS MerkleTree, WellFoundedInduction, TLAPS

LEMMA Least ==
    ASSUME NEW S \in SUBSET Nat, S # {}
    PROVE  \E n \in S : \A m \in S : n <= m
<1> DEFINE R == OpToRel(<, Nat)
<1>1. IsWellFoundedOn(R, Nat)
  BY NatLessThanWellFounded
<1>2. \A x, y \in Nat : x < y => <<x, y>> \in R
  BY DEF OpToRel
<1> HIDE DEF R
<1>3. PICK n \in S : \A m \in S : ~(<<m, n>> \in R)
  BY <1>1, WFMin
<1>4. \A m \in S : n <= m
  <2> SUFFICES ASSUME NEW m \in S PROVE n <= m
    OBVIOUS
  <2>1. m \in Nat /\ n \in Nat /\ ~(m < n)
    BY <1>2, <1>3
  <2>. QED
    BY <2>1
<1>. QED
  BY <1>4

-----------------------------------------------------------------------------
(* Paths.                                                                  *)

LEMMA PathForm ==
    ASSUME NEW p \in Path
    PROVE  /\ p \in Seq(Bit) /\ Len(p) \in 0 .. Height
           /\ DOMAIN p = 1 .. Len(p)
           /\ \A i \in 1 .. Len(p) : p[i] \in Bit
           /\ Len(p) = Height => p \in Key
  BY MerkleAssumption DEF Path, Key, Bit

LEMMA KeyForm ==
    ASSUME NEW k \in Key
    PROVE  /\ k \in Path /\ Len(k) = Height
           /\ \A i \in 1 .. Height : k[i] \in Bit
  BY MerkleAssumption DEF Path, Key, Bit

LEMMA EmptyPath == <<>> \in Path /\ Len(<<>>) = 0
  BY MerkleAssumption DEF Path

LEMMA ChildForm ==
    ASSUME NEW p \in Path, Len(p) < Height, NEW bit \in Bit
    PROVE  /\ child_path(p, bit) \in Path
           /\ Len(child_path(p, bit)) = Len(p) + 1
           /\ child_path(p, bit)[Len(p) + 1] = bit
           /\ \A i \in 1 .. Len(p) : child_path(p, bit)[i] = p[i]
<1>1. /\ p \in Seq(Bit) /\ Len(p) \in 0 .. Height
  BY PathForm
<1>2. Len(p) + 1 \in 0 .. Height
  BY <1>1, MerkleAssumption
<1>3. /\ child_path(p, bit) \in Seq(Bit)
      /\ Len(child_path(p, bit)) = Len(p) + 1
      /\ child_path(p, bit)[Len(p) + 1] = bit
      /\ \A i \in 1 .. Len(p) : child_path(p, bit)[i] = p[i]
  BY <1>1 DEF child_path
<1>4. child_path(p, bit) \in [1 .. Len(p) + 1 -> Bit]
  BY <1>3
<1>. QED
  BY <1>2, <1>3, <1>4 DEF Path

LEMMA PrefixForm ==
    ASSUME NEW p \in Path, NEW k \in Key
    PROVE  IsPrefix(p, k) <=> \A i \in 1 .. Len(p) : p[i] = k[i]
  BY PathForm, KeyForm DEF IsPrefix

\* A key below p lies below one child of p, and a key below a child below p.
LEMMA PrefixStep ==
    ASSUME NEW p \in Path, Len(p) < Height, NEW k \in Key
    PROVE  /\ IsPrefix(p, k) => IsPrefix(child_path(p, k[Len(p) + 1]), k)
           /\ \A bit \in Bit : IsPrefix(child_path(p, bit), k) =>
                  IsPrefix(p, k) /\ bit = k[Len(p) + 1]
<1>1. Len(p) \in Nat /\ Height \in Nat /\ k[Len(p) + 1] \in Bit
  BY PathForm, KeyForm, MerkleAssumption
<1>2. \A i \in 1 .. Len(p) + 1 : i \in 1 .. Len(p) \/ i = Len(p) + 1
  BY <1>1
<1>3. IsPrefix(p, k) => IsPrefix(child_path(p, k[Len(p) + 1]), k)
  <2>. SUFFICES ASSUME IsPrefix(p, k)
                PROVE  \A i \in 1 .. Len(p) + 1 :
                           child_path(p, k[Len(p) + 1])[i] = k[i]
    BY <1>1, ChildForm, PrefixForm
  <2>. QED
    BY <1>1, <1>2, ChildForm, PrefixForm
<1>4. ASSUME NEW bit \in Bit, IsPrefix(child_path(p, bit), k)
      PROVE  IsPrefix(p, k) /\ bit = k[Len(p) + 1]
  <2>1. \A i \in 1 .. Len(p) + 1 : child_path(p, bit)[i] = k[i]
    BY <1>1, <1>4, ChildForm, PrefixForm
  <2>2. \A i \in 1 .. Len(p) : i \in 1 .. Len(p) + 1
    BY <1>1
  <2>3. Len(p) + 1 \in 1 .. Len(p) + 1
    BY <1>1
  <2>4. \A i \in 1 .. Len(p) : p[i] = k[i]
    BY <2>1, <2>2, ChildForm
  <2>. QED
    BY <1>1, <2>1, <2>3, <2>4, ChildForm, PrefixForm
<1>. QED
  BY <1>3, <1>4

LEMMA RootPrefix == \A k \in Key : IsPrefix(<<>>, k)
<1>. SUFFICES ASSUME NEW k \in Key PROVE IsPrefix(<<>>, k)
  OBVIOUS
<1>1. 1 .. 0 = {}
  OBVIOUS
<1>. QED
  BY <1>1, EmptyPath, PrefixForm

LEMMA FullPrefix ==
    ASSUME NEW p \in Path, Len(p) = Height, NEW k \in Key, IsPrefix(p, k)
    PROVE  p = k
<1>1. p \in [1 .. Height -> Bit] /\ k \in [1 .. Height -> Bit]
  BY PathForm DEF Key
<1>2. \A i \in 1 .. Height : p[i] = k[i]
  BY PrefixForm
<1>. QED
  BY <1>1, <1>2

-----------------------------------------------------------------------------
(* The recursive definitions have solutions, so they hold as equations.    *)

LEMMA EmptyHashSolution ==
    ASSUME NEW n \in Nat
    PROVE  \E f : f = [level \in 0 .. n |->
                          IF level = 0 THEN EmptyLeaf
                          ELSE merkle_node_hash(f[level - 1], f[level - 1])]
<1> DEFINE Solves(f, k) ==
               f = [level \in 0 .. k |->
                       IF level = 0 THEN EmptyLeaf
                       ELSE merkle_node_hash(f[level - 1], f[level - 1])]
           Bad == {k \in Nat : ~\E f : Solves(f, k)}
<1>1. Bad = {}
  <2>. SUFFICES ASSUME Bad # {} PROVE FALSE
    OBVIOUS
  <2>1. PICK b \in Bad : \A k \in Bad : b <= k
    BY Least
  <2>2. b \in Nat
    OBVIOUS
  <2>3. CASE b = 0
    <3> DEFINE g == [level \in 0 .. 0 |-> EmptyLeaf]
    <3>1. Solves(g, 0)
      OBVIOUS
    <3>. QED
      BY <2>3, <3>1
  <2>4. CASE b # 0
    <3>1. b - 1 \in Nat /\ ~(b <= b - 1)
      BY <2>2, <2>4
    <3>2. PICK f : Solves(f, b - 1)
      BY <2>1, <3>1
    <3> DEFINE g == [level \in 0 .. b |->
                        IF level = b THEN merkle_node_hash(f[b - 1], f[b - 1])
                        ELSE f[level]]
    <3>3. \A level \in 0 .. b : level # 0 =>
              level - 1 \in 0 .. b /\ level - 1 # b /\ level - 1 \in 0 .. b - 1
      BY <2>2
    <3>4. \A level \in 0 .. b : level # b => level \in 0 .. b - 1
      BY <2>2
    <3>5. \A level \in 0 .. b :
              g[level] = IF level = 0 THEN EmptyLeaf
                         ELSE merkle_node_hash(g[level - 1], g[level - 1])
      <4>. SUFFICES ASSUME NEW level \in 0 .. b
                    PROVE  g[level] = IF level = 0 THEN EmptyLeaf
                               ELSE merkle_node_hash(g[level - 1], g[level - 1])
        OBVIOUS
      <4>1. level # 0 => g[level - 1] = f[level - 1]
        BY <3>3
      <4>2. CASE level = b
        BY <4>1, <4>2, <2>4
      <4>3. CASE level # b
        <5>1. level \in 0 .. b - 1
          BY <3>4, <4>3
        <5>2. f[level] = IF level = 0 THEN EmptyLeaf
                         ELSE merkle_node_hash(f[level - 1], f[level - 1])
          BY <3>2, <5>1
        <5>. QED
          BY <4>1, <4>3, <5>2
      <4>. QED
        BY <4>2, <4>3
    <3>6. Solves(g, b)
      BY <3>5
    <3>. QED
      BY <3>6
  <2>. QED
    BY <2>3, <2>4
<1>2. n \notin Bad
  BY <1>1
<1>. QED
  BY <1>2

LEMMA EmptyHash ==
    /\ empty_hash[0] = EmptyLeaf
    /\ \A level \in 1 .. Height :
           empty_hash[level] = merkle_node_hash(empty_hash[level - 1],
                                                empty_hash[level - 1])
<1>1. Height \in Nat
  BY MerkleAssumption
<1>2. empty_hash = [level \in 0 .. Height |->
                       IF level = 0 THEN EmptyLeaf
                       ELSE merkle_node_hash(empty_hash[level - 1],
                                             empty_hash[level - 1])]
  BY <1>1, EmptyHashSolution DEF empty_hash
<1>. QED
  BY <1>1, <1>2

\* The nodes at most d levels above the leaves.
Deep(d) == {p \in Path : Len(p) + d >= Height}

LEMMA DeepForm ==
    /\ Deep(Height) = Path
    /\ \A p \in Deep(0) : Len(p) = Height
    /\ \A d \in Nat : \A p \in Deep(d + 1) :
           /\ p \in Deep(d) \/ Len(p) + d + 1 = Height
           /\ Len(p) # Height => child_path(p, 0) \in Deep(d)
                                 /\ child_path(p, 1) \in Deep(d)
<1>1. \A p \in Path : Len(p) \in Nat /\ Len(p) <= Height
  BY PathForm, MerkleAssumption
<1>2. Height \in Nat
  BY MerkleAssumption
<1>3. Deep(Height) = Path /\ \A p \in Deep(0) : Len(p) = Height
  BY <1>1, <1>2 DEF Deep
<1>4. ASSUME NEW d \in Nat, NEW p \in Deep(d + 1)
      PROVE  /\ p \in Deep(d) \/ Len(p) + d + 1 = Height
             /\ Len(p) # Height => child_path(p, 0) \in Deep(d)
                                   /\ child_path(p, 1) \in Deep(d)
  <2>1. p \in Path /\ Len(p) + (d + 1) >= Height
    BY DEF Deep
  <2>2. p \in Deep(d) \/ Len(p) + d + 1 = Height
    BY <1>1, <1>2, <2>1 DEF Deep
  <2>3. ASSUME Len(p) # Height, NEW bit \in Bit
        PROVE  child_path(p, bit) \in Deep(d)
    <3>1. Len(p) < Height
      BY <1>1, <1>2, <2>1, <2>3
    <3>2. child_path(p, bit) \in Path /\ Len(child_path(p, bit)) = Len(p) + 1
      BY <2>1, <3>1, ChildForm
    <3>. QED
      BY <1>1, <1>2, <2>1, <3>2 DEF Deep
  <2>. QED
    BY <2>2, <2>3 DEF Bit
<1>. QED
  BY <1>3, <1>4

LEMMA SubtreeSolution ==
    ASSUME NEW m, NEW n \in Nat
    PROVE  \E f : f = [p \in Deep(n) |->
                          IF ~Occupied(m, p) THEN empty_hash[Height - Len(p)]
                          ELSE IF Len(p) = Height THEN m[p]
                          ELSE merkle_node_hash(f[child_path(p, 0)],
                                                f[child_path(p, 1)])]
<1> DEFINE Body(f, p) ==
               IF ~Occupied(m, p) THEN empty_hash[Height - Len(p)]
               ELSE IF Len(p) = Height THEN m[p]
               ELSE merkle_node_hash(f[child_path(p, 0)], f[child_path(p, 1)])
           Solves(f, d) == f = [p \in Deep(d) |-> Body(f, p)]
           Bad == {d \in Nat : ~\E f : Solves(f, d)}
<1>1. Bad = {}
  <2>. SUFFICES ASSUME Bad # {} PROVE FALSE
    OBVIOUS
  <2>1. PICK b \in Bad : \A d \in Bad : b <= d
    BY Least
  <2>2. b \in Nat
    OBVIOUS
  <2>3. CASE b = 0
    <3> DEFINE g == [p \in Deep(0) |-> Body(<<>>, p)]
    <3>1. \A p \in Deep(0) : g[p] = Body(g, p)
      BY DeepForm
    <3>2. Solves(g, 0)
      BY <3>1
    <3>. QED
      BY <2>3, <3>2
  <2>4. CASE b # 0
    <3>1. PICK d \in Nat : b = d + 1 /\ ~(b <= d)
      <4>1. b - 1 \in Nat /\ b = (b - 1) + 1 /\ ~(b <= b - 1)
        BY <2>2, <2>4
      <4>. QED
        BY <4>1
    <3>2. PICK f : Solves(f, d)
      BY <2>1, <3>1
    <3> DEFINE g == [p \in Deep(d + 1) |-> IF p \in Deep(d) THEN f[p] ELSE Body(f, p)]
    <3>3. \A p \in Deep(d + 1) : g[p] = Body(f, p)
      BY <3>2
    <3>4. \A p \in Deep(d) : p \in Deep(d + 1)
      <4>1. \A p \in Path : Len(p) \in Nat
        BY PathForm
      <4>. QED
        BY <4>1, MerkleAssumption DEF Deep
    <3>5. \A p \in Deep(d) : g[p] = f[p]
      BY <3>4
    <3> HIDE DEF g
    <3>6. \A p \in Deep(d + 1) : Body(f, p) = Body(g, p)
      BY <3>5, DeepForm
    <3>7. Solves(g, d + 1)
      BY <3>3, <3>6 DEF g
    <3>. QED
      BY <3>1, <3>7
  <2>. QED
    BY <2>3, <2>4
<1>2. n \notin Bad
  BY <1>1
<1>. QED
  BY <1>2

LEMMA SubtreeEquation ==
    ASSUME NEW m, NEW p \in Path
    PROVE  SubtreeHash(m)[p] =
               IF ~Occupied(m, p) THEN empty_hash[Height - Len(p)]
               ELSE IF Len(p) = Height THEN m[p]
               ELSE merkle_node_hash(SubtreeHash(m)[child_path(p, 0)],
                                     SubtreeHash(m)[child_path(p, 1)])
<1> DEFINE Body(f, q) ==
               IF ~Occupied(m, q) THEN empty_hash[Height - Len(q)]
               ELSE IF Len(q) = Height THEN m[q]
               ELSE merkle_node_hash(f[child_path(q, 0)], f[child_path(q, 1)])
<1>1. Height \in Nat /\ Deep(Height) = Path
  BY MerkleAssumption, DeepForm
<1>2. \E f : f = [q \in Path |-> Body(f, q)]
  <2>1. \E f : f = [q \in Deep(Height) |-> Body(f, q)]
    BY <1>1, SubtreeSolution, Zenon
  <2> HIDE DEF Body
  <2>. QED
    BY <1>1, <2>1, Zenon
<1>3. SubtreeHash(m) = CHOOSE f : f = [q \in Path |-> Body(f, q)]
  BY DEF SubtreeHash
<1>4. SubtreeHash(m) = [q \in Path |-> Body(SubtreeHash(m), q)]
  BY <1>2, <1>3
<1>. QED
  BY <1>4

-----------------------------------------------------------------------------
(* Hashes identify leaf maps.                                              *)

LEMMA MapForm ==
    ASSUME NEW m \in LeafMap
    PROVE  /\ DOMAIN m \subseteq Key
           /\ \A k \in DOMAIN m : m[k] \in LeafHash
           /\ m = [k \in DOMAIN m |-> m[k]]
  BY DEF LeafMap, PartialMap

LEMMA HashForm ==
    ASSUME NEW m \in LeafMap, NEW p \in Path
    PROVE  SubtreeHash(m)[p] \in NodeHash /\ SubtreeHash(m)[p] # None
<1>1. SubtreeHash(m)[p] \in NodeHash
  BY DEF NodeHash
<1>. QED
  BY <1>1, NoneAssumption

LEMMA EmptyMap == Nothing \in LeafMap /\ DOMAIN Nothing = {}
<1>1. Nothing \in [{} -> LeafHash] /\ DOMAIN Nothing = {}
  BY DEF Nothing
<1>2. {} \in SUBSET Key
  OBVIOUS
<1>. QED
  BY <1>1, <1>2 DEF LeafMap, PartialMap

LEMMA OccupiedLeaf ==
    ASSUME NEW m \in LeafMap, NEW p \in Path, Len(p) = Height
    PROVE  Occupied(m, p) <=> p \in DOMAIN m
<1>1. p \in Key
  BY PathForm
<1>2. IsPrefix(p, p)
  BY <1>1, PrefixForm
<1>. QED
  BY <1>2, FullPrefix, MapForm DEF Occupied

LEMMA OccupiedInner ==
    ASSUME NEW m \in LeafMap, NEW p \in Path, Len(p) < Height
    PROVE  Occupied(m, p) <=> \E bit \in Bit : Occupied(m, child_path(p, bit))
<1>1. \A k \in Key : k[Len(p) + 1] \in Bit
  <2>1. Len(p) + 1 \in 1 .. Height
    BY PathForm, MerkleAssumption
  <2>. QED
    BY <2>1, KeyForm
<1>2. \A k \in DOMAIN m : k \in Key
  BY MapForm
<1>3. ASSUME Occupied(m, p)
      PROVE  \E bit \in Bit : Occupied(m, child_path(p, bit))
  <2>1. PICK k \in DOMAIN m : IsPrefix(p, k)
    BY <1>3 DEF Occupied
  <2>2. k \in Key /\ k[Len(p) + 1] \in Bit
    BY <1>1, <1>2
  <2>3. IsPrefix(child_path(p, k[Len(p) + 1]), k)
    BY <2>1, <2>2, PrefixStep
  <2>. QED
    BY <2>2, <2>3, Zenon DEF Occupied
<1>4. ASSUME NEW bit \in Bit, Occupied(m, child_path(p, bit))
      PROVE  Occupied(m, p)
  <2>1. PICK k \in DOMAIN m : IsPrefix(child_path(p, bit), k)
    BY <1>4 DEF Occupied
  <2>2. k \in Key
    BY <1>2
  <2>. QED
    BY <2>1, <2>2, PrefixStep DEF Occupied
<1>. QED
  BY <1>3, <1>4, Zenon

LEMMA HashAtLeaf ==
    ASSUME NEW m \in LeafMap, NEW p \in Path, Len(p) = Height
    PROVE  SubtreeHash(m)[p] = IF p \in DOMAIN m THEN m[p] ELSE EmptyLeaf
<1>1. Height - Len(p) = 0
  BY MerkleAssumption
<1>. QED
  BY <1>1, SubtreeEquation, OccupiedLeaf, EmptyHash

LEMMA HashAtInner ==
    ASSUME NEW m \in LeafMap, NEW p \in Path, Len(p) < Height
    PROVE  SubtreeHash(m)[p] =
               merkle_node_hash(SubtreeHash(m)[child_path(p, 0)],
                                SubtreeHash(m)[child_path(p, 1)])
<1>1. Len(p) # Height
  BY PathForm, MerkleAssumption
<1>2. CASE Occupied(m, p)
  BY <1>1, <1>2, SubtreeEquation
<1>3. CASE ~Occupied(m, p)
  <2>1. Height - Len(p) \in 1 .. Height
    BY PathForm, MerkleAssumption
  <2>2. ASSUME NEW bit \in Bit
        PROVE  SubtreeHash(m)[child_path(p, bit)] = empty_hash[Height - Len(p) - 1]
    <3>1. child_path(p, bit) \in Path /\ Len(child_path(p, bit)) = Len(p) + 1
      BY ChildForm
    <3>2. ~Occupied(m, child_path(p, bit))
      BY <1>3, OccupiedInner
    <3>3. Height - (Len(p) + 1) = Height - Len(p) - 1
      BY PathForm, MerkleAssumption
    <3>. QED
      BY <3>1, <3>2, <3>3, SubtreeEquation
  <2>3. 0 \in Bit /\ 1 \in Bit
    BY DEF Bit
  <2>4. SubtreeHash(m)[p] = empty_hash[Height - Len(p)]
    BY <1>3, SubtreeEquation
  <2>. QED
    BY <2>1, <2>2, <2>3, <2>4, EmptyHash
<1>. QED
  BY <1>2, <1>3

Agree(m1, m2, k) ==
    /\ k \in DOMAIN m1 <=> k \in DOMAIN m2
    /\ k \in DOMAIN m1 => m1[k] = m2[k]

\* Two maps whose nodes at p have one hash agree on the keys below p.
LEMMA HashIsInjective ==
    ASSUME NEW m1 \in LeafMap, NEW m2 \in LeafMap, NEW p \in Path,
           SubtreeHash(m1)[p] = SubtreeHash(m2)[p], NEW k \in Key, IsPrefix(p, k)
    PROVE  Agree(m1, m2, k)
<1> DEFINE Injective(q) == SubtreeHash(m1)[q] = SubtreeHash(m2)[q] =>
               \A j \in Key : IsPrefix(q, j) => Agree(m1, m2, j)
           Bad == {d \in Nat : \E q \in Path : Len(q) + d = Height /\ ~Injective(q)}
<1>1. Bad = {}
  <2>. SUFFICES ASSUME Bad # {} PROVE FALSE
    OBVIOUS
  <2>1. PICK b \in Bad : \A d \in Bad : b <= d
    BY Least
  <2>2. b \in Nat
    OBVIOUS
  <2>3. PICK q \in Path : Len(q) + b = Height /\ ~Injective(q)
    OBVIOUS
  <2>4. Len(q) \in Nat /\ Height \in Nat
    BY PathForm, MerkleAssumption
  <2>5. PICK j \in Key : IsPrefix(q, j) /\ ~Agree(m1, m2, j)
    BY <2>3
  <2>6. SubtreeHash(m1)[q] = SubtreeHash(m2)[q]
    BY <2>3
  <2>7. CASE b = 0
    <3>1. Len(q) = Height
      BY <2>3, <2>4, <2>7
    <3>2. q = j
      BY <2>5, <3>1, FullPrefix
    <3>3. /\ SubtreeHash(m1)[q] = IF j \in DOMAIN m1 THEN m1[j] ELSE EmptyLeaf
          /\ SubtreeHash(m2)[q] = IF j \in DOMAIN m2 THEN m2[j] ELSE EmptyLeaf
      BY <3>1, <3>2, HashAtLeaf
    <3>4. /\ j \in DOMAIN m1 => m1[j] # EmptyLeaf
          /\ j \in DOMAIN m2 => m2[j] # EmptyLeaf
      BY MapForm, MerkleAssumption
    <3>5. Agree(m1, m2, j)
      BY <2>6, <3>3, <3>4 DEF Agree
    <3>. QED
      BY <2>5, <3>5
  <2>8. CASE b # 0
    <3>1. Len(q) < Height /\ Len(q) + 1 \in 1 .. Height
      BY <2>2, <2>3, <2>4, <2>8
    <3>2. j[Len(q) + 1] \in Bit
      BY <3>1, KeyForm
    <3>3. PICK bit \in Bit : bit = j[Len(q) + 1]
      BY <3>2
    <3>4. SubtreeHash(m1)[child_path(q, bit)] = SubtreeHash(m2)[child_path(q, bit)]
      BY <2>6, <3>1, HashAtInner DEF merkle_node_hash, Bit
    <3>5. IsPrefix(child_path(q, bit), j)
      BY <2>5, <3>1, <3>3, PrefixStep
    <3>6. /\ child_path(q, bit) \in Path
          /\ Len(child_path(q, bit)) = Len(q) + 1
      BY <3>1, ChildForm
    <3>7. ~Injective(child_path(q, bit))
      BY <2>5, <3>4, <3>5
    <3>8. b - 1 \in Nat /\ (Len(q) + 1) + (b - 1) = Height /\ ~(b <= b - 1)
      BY <2>2, <2>3, <2>4, <2>8
    <3> HIDE DEF Injective
    <3>9. b - 1 \in Bad
      BY <3>6, <3>7, <3>8
    <3>. QED
      BY <2>1, <3>8, <3>9
  <2>. QED
    BY <2>7, <2>8
<1>2. Height - Len(p) \in Nat /\ Len(p) + (Height - Len(p)) = Height
  BY PathForm, MerkleAssumption
<1>3. Injective(p)
  <2> HIDE DEF Injective
  <2>. QED
    BY <1>1, <1>2
<1>. QED
  BY <1>3

\* Trees with one root (compute_subtree_hash_core) have one leaf map.
THEOREM RootIsInjective ==
    ASSUME NEW m1 \in LeafMap, NEW m2 \in LeafMap,
           SubtreeHash(m1)[<<>>] = SubtreeHash(m2)[<<>>]
    PROVE  m1 = m2
<1>1. \A k \in Key : Agree(m1, m2, k)
  BY EmptyPath, RootPrefix, HashIsInjective
<1>2. DOMAIN m1 = DOMAIN m2
  BY <1>1, MapForm DEF Agree
<1>3. \A k \in DOMAIN m1 : m1[k] = m2[k]
  BY <1>1, MapForm DEF Agree
<1>. QED
  BY <1>2, <1>3, MapForm

\* The hash of an empty subtree is that of no other: what PersistOps tests.
LEMMA EmptyNodes ==
    ASSUME NEW m \in LeafMap, NEW p \in Path
    PROVE  SubtreeHash(m)[p] = empty_hash[Height - Len(p)] <=> ~Occupied(m, p)
<1>1. ~Occupied(Nothing, p)
  BY EmptyMap DEF Occupied
<1>2. SubtreeHash(Nothing)[p] = empty_hash[Height - Len(p)]
  BY <1>1, SubtreeEquation
<1>3. ASSUME SubtreeHash(m)[p] = empty_hash[Height - Len(p)]
      PROVE  ~Occupied(m, p)
  <2>1. \A k \in Key : IsPrefix(p, k) => Agree(m, Nothing, k)
    BY <1>2, <1>3, EmptyMap, HashIsInjective
  <2>. QED
    BY <2>1, EmptyMap, MapForm DEF Agree, Occupied
<1>. QED
  BY <1>3, SubtreeEquation

LEMMA EmptyRoot == SubtreeHash(Nothing)[<<>>] = empty_hash[Height]
<1>1. ~Occupied(Nothing, <<>>)
  BY EmptyMap DEF Occupied
<1>2. Height - Len(<<>>) = Height
  BY EmptyPath, MerkleAssumption
<1>. QED
  BY <1>1, <1>2, EmptyPath, SubtreeEquation

-----------------------------------------------------------------------------
(* Verification of proofs.                                                 *)

\* One step of verify, from depth + 1 to depth.
Fold(proof, f, depth) ==
    IF depth = Height
    THEN IF proof.value = None THEN empty_hash[0] ELSE proof.value
    ELSE IF get_bit(proof.key, depth) = 1
    THEN merkle_node_hash(proof.siblings[depth + 1], f[depth + 1])
    ELSE merkle_node_hash(f[depth + 1], proof.siblings[depth + 1])

LEMMA FoldSolution ==
    ASSUME NEW proof
    PROVE  \E f : f = [depth \in 0 .. Height |-> Fold(proof, f, depth)]
<1> DEFINE Dom(n) == {depth \in 0 .. Height : depth + n >= Height}
           Solves(f, n) == f = [depth \in Dom(n) |-> Fold(proof, f, depth)]
           Bad == {n \in Nat : ~\E f : Solves(f, n)}
<1>1. Height \in Nat
  BY MerkleAssumption
<1>2. Bad = {}
  <2>. SUFFICES ASSUME Bad # {} PROVE FALSE
    OBVIOUS
  <2>1. PICK b \in Bad : \A n \in Bad : b <= n
    BY Least
  <2>2. b \in Nat
    OBVIOUS
  <2>3. CASE b = 0
    <3> DEFINE g == [depth \in Dom(0) |-> Fold(proof, <<>>, depth)]
    <3>1. \A depth \in Dom(0) : depth = Height
      BY <1>1
    <3>2. \A depth \in Dom(0) : g[depth] = Fold(proof, g, depth)
      BY <3>1 DEF Fold
    <3>3. Solves(g, 0)
      BY <3>2
    <3>. QED
      BY <2>3, <3>3
  <2>4. CASE b # 0
    <3>1. PICK n \in Nat : b = n + 1 /\ ~(b <= n)
      <4>1. b - 1 \in Nat /\ b = (b - 1) + 1 /\ ~(b <= b - 1)
        BY <2>2, <2>4
      <4>. QED
        BY <4>1
    <3>2. PICK f : Solves(f, n)
      BY <2>1, <3>1
    <3> DEFINE g == [depth \in Dom(n + 1) |-> Fold(proof, f, depth)]
    <3>3. \A depth \in Dom(n) : depth \in Dom(n + 1)
      BY <1>1
    <3>4. \A depth \in Dom(n + 1) : depth # Height => depth + 1 \in Dom(n)
      BY <1>1
    <3>5. \A depth \in Dom(n) : g[depth] = f[depth]
      <4> HIDE DEF Dom
      <4>. QED
        BY <3>2, <3>3
    <3> HIDE DEF g, Dom
    <3>6. \A depth \in Dom(n + 1) : Fold(proof, f, depth) = Fold(proof, g, depth)
      BY <3>4, <3>5 DEF Fold
    <3>7. Solves(g, n + 1)
      BY <3>6 DEF g
    <3>. QED
      BY <3>1, <3>7
  <2>. QED
    BY <2>3, <2>4
<1>3. PICK f : Solves(f, Height)
  <2> HIDE DEF Solves
  <2>. QED
    BY <1>1, <1>2
<1>4. Dom(Height) = 0 .. Height
  BY <1>1
<1>. QED
  BY <1>3, <1>4

\* verify folds the siblings into the leaf and compares the result.
LEMMA VerifyFolds ==
    ASSUME NEW proof
    PROVE  \E current :
               /\ \A depth \in 0 .. Height :
                      current[depth] = Fold(proof, current, depth)
               /\ \A r : verify(proof, r) <=>
                      Len(proof.siblings) = Height /\ current[0] = r
<1> DEFINE current == CHOOSE f : f = [depth \in 0 .. Height |-> Fold(proof, f, depth)]
<1>1. current = [depth \in 0 .. Height |-> Fold(proof, current, depth)]
  BY FoldSolution
<1>2. \A r : verify(proof, r) <=> Len(proof.siblings) = Height /\ current[0] = r
  BY DEF verify, Fold
<1> HIDE DEF current
<1>3. \A depth \in 0 .. Height : current[depth] = Fold(proof, current, depth)
  BY <1>1
<1>. QED
  BY <1>2, <1>3

LEMMA PrefixesOfKey ==
    ASSUME NEW key \in Key
    PROVE  /\ SubSeq(key, 1, 0) = <<>>
           /\ SubSeq(key, 1, Height) = key
           /\ \A d \in 0 .. Height - 1 :
                  /\ SubSeq(key, 1, d) \in Path
                  /\ Len(SubSeq(key, 1, d)) = d
                  /\ key[d + 1] \in Bit
                  /\ child_path(SubSeq(key, 1, d), key[d + 1]) = SubSeq(key, 1, d + 1)
<1>1. Height \in Nat \ {0} /\ key \in Seq(Bit) /\ Len(key) = Height
  BY MerkleAssumption, KeyForm, PathForm
<1>2. SubSeq(key, 1, 0) = <<>> /\ SubSeq(key, 1, Height) = key
  BY <1>1
<1>3. ASSUME NEW d \in 0 .. Height - 1
      PROVE  /\ SubSeq(key, 1, d) \in Path
             /\ Len(SubSeq(key, 1, d)) = d
             /\ key[d + 1] \in Bit
             /\ child_path(SubSeq(key, 1, d), key[d + 1]) = SubSeq(key, 1, d + 1)
  <2>1. /\ SubSeq(key, 1, d) \in Seq(Bit) /\ Len(SubSeq(key, 1, d)) = d
        /\ d \in 0 .. Height /\ d + 1 \in 1 .. Height
    BY <1>1
  <2>2. SubSeq(key, 1, d) \in [1 .. d -> Bit]
    <3>1. \A s \in Seq(Bit) : s \in [1 .. Len(s) -> Bit]
      OBVIOUS
    <3>. QED
      BY <2>1, <3>1, Zenon
  <2>3. key[d + 1] \in Bit
    BY <2>1, KeyForm
  <2>4. child_path(SubSeq(key, 1, d), key[d + 1]) = SubSeq(key, 1, d + 1)
    BY <1>1, <2>1 DEF child_path
  <2>. QED
    BY <2>1, <2>2, <2>3, <2>4 DEF Path
<1>. QED
  BY <1>2, <1>3

ValueOf(m, key) == IF key \in DOMAIN m THEN m[key] ELSE None

LEMMA KeyHash ==
    ASSUME NEW m \in LeafMap, NEW key \in Key, NEW v \in LeafHash \cup {None}
    PROVE  (IF v = None THEN empty_hash[0] ELSE v) = SubtreeHash(m)[key]
               <=> v = ValueOf(m, key)
<1>1. SubtreeHash(m)[key] = IF key \in DOMAIN m THEN m[key] ELSE EmptyLeaf
  BY KeyForm, HashAtLeaf
<1>2. key \in DOMAIN m => m[key] \in LeafHash
  BY MapForm
<1>3. EmptyLeaf \notin LeafHash /\ None \notin LeafHash
  BY MerkleAssumption
<1>. QED
  BY <1>1, <1>2, <1>3, EmptyHash DEF ValueOf

\* No proof, honest or forged, verifies under the root of a map for a value
\* the map does not hold at the proof's key.
THEOREM ProofsAreSound ==
    ASSUME NEW m \in LeafMap, NEW proof, proof.key \in Key,
           proof.value \in LeafHash \cup {None},
           verify(proof, SubtreeHash(m)[<<>>])
    PROVE  proof.value = ValueOf(m, proof.key)
<1> DEFINE key == proof.key
<1>1. PICK current :
          /\ \A depth \in 0 .. Height : current[depth] = Fold(proof, current, depth)
          /\ \A r : verify(proof, r) <=>
                 Len(proof.siblings) = Height /\ current[0] = r
  BY VerifyFolds, Zenon
<1> HIDE DEF key
<1>2. Height \in Nat
  BY MerkleAssumption
<1> DEFINE Right(d) == current[d] = SubtreeHash(m)[SubSeq(key, 1, d)]
           Bad == {d \in Nat : d <= Height /\ ~Right(d)}
<1>3. Right(0)
  BY <1>1, PrefixesOfKey DEF key
<1>4. ASSUME NEW d \in 0 .. Height - 1, Right(d)
      PROVE  Right(d + 1)
  <2>1. d \in 0 .. Height /\ d # Height
    BY <1>2
  <2>2. /\ SubSeq(key, 1, d) \in Path
        /\ Len(SubSeq(key, 1, d)) = d
        /\ key[d + 1] \in Bit
        /\ child_path(SubSeq(key, 1, d), key[d + 1]) = SubSeq(key, 1, d + 1)
    BY PrefixesOfKey DEF key
  <2>3. PICK p \in Path : p = SubSeq(key, 1, d) /\ Len(p) < Height
    <3>1. d < Height
      BY <1>2
    <3>2. SubSeq(key, 1, d) \in Path /\ Len(SubSeq(key, 1, d)) < Height
      BY <2>2, <3>1, Zenon
    <3>. QED
      BY <3>2, Zenon
  <2>4. SubtreeHash(m)[p] = <<SubtreeHash(m)[child_path(p, 0)],
                             SubtreeHash(m)[child_path(p, 1)]>>
    BY <2>3, HashAtInner DEF merkle_node_hash
  <2>5. current[d] = IF key[d + 1] = 1
                     THEN <<proof.siblings[d + 1], current[d + 1]>>
                     ELSE <<current[d + 1], proof.siblings[d + 1]>>
    BY <1>1, <2>1 DEF Fold, get_bit, merkle_node_hash, key
  <2>6. current[d] = SubtreeHash(m)[p]
    BY <1>4, <2>3
  <2>7. current[d + 1] = SubtreeHash(m)[child_path(p, key[d + 1])]
    <3>1. CASE key[d + 1] = 1
      BY <2>4, <2>5, <2>6, <3>1
    <3>2. CASE key[d + 1] = 0
      BY <2>4, <2>5, <2>6, <3>2
    <3>. QED
      BY <2>2, <3>1, <3>2 DEF Bit
  <2>. QED
    BY <2>2, <2>3, <2>7
<1>5. Bad = {}
  <2>. SUFFICES ASSUME Bad # {} PROVE FALSE
    OBVIOUS
  <2>1. PICK b \in Bad : \A d \in Bad : b <= d
    BY Least
  <2>2. b \in Nat /\ b <= Height /\ ~Right(b)
    OBVIOUS
  <2> HIDE DEF Right
  <2>3. PICK d \in 0 .. Height - 1 : b = d + 1 /\ ~(b <= d)
    <3>1. b # 0
      BY <1>3, <2>2
    <3>2. b - 1 \in 0 .. Height - 1 /\ b = (b - 1) + 1 /\ ~(b <= b - 1)
      BY <1>2, <2>2, <3>1
    <3>. QED
      BY <3>2
  <2>4. d \in Nat /\ d <= Height
    BY <1>2
  <2>5. Right(d)
    BY <2>1, <2>3, <2>4
  <2>. QED
    BY <1>4, <2>2, <2>3, <2>5
<1>6. Right(Height)
  <2> HIDE DEF Right
  <2>. QED
    BY <1>2, <1>5
<1>7. current[Height] = IF proof.value = None THEN empty_hash[0] ELSE proof.value
  BY <1>1, <1>2 DEF Fold
<1>8. SubSeq(key, 1, Height) = key
  BY PrefixesOfKey DEF key
<1>. QED
  BY <1>6, <1>7, <1>8, KeyHash, ZenonT(40) DEF key

\* The siblings that build_sparse_proof_for_key takes from a map lead from the
\* map's value at the key to the map's root.
THEOREM ProofsAreComplete ==
    ASSUME NEW m \in LeafMap, NEW proof, proof.key \in Key,
           proof.value = ValueOf(m, proof.key),
           proof.siblings = build_sparse_proof_for_key(m, proof.key).siblings
    PROVE  verify(proof, SubtreeHash(m)[<<>>])
<1> DEFINE key == proof.key
<1>1. PICK current :
          /\ \A depth \in 0 .. Height : current[depth] = Fold(proof, current, depth)
          /\ \A r : verify(proof, r) <=>
                 Len(proof.siblings) = Height /\ current[0] = r
  BY VerifyFolds, Zenon
<1>2. Height \in Nat
  BY MerkleAssumption
<1>3. proof.siblings = [i \in 1 .. Height |->
          SubtreeHash(m)[child_path(SubSeq(key, 1, i - 1), 1 - key[i - 1 + 1])]]
  BY DEF build_sparse_proof_for_key, get_bit
<1> HIDE DEF key
<1>4. Len(proof.siblings) = Height
  BY <1>2, <1>3
<1>5. \A d \in 0 .. Height - 1 :
          proof.siblings[d + 1] =
              SubtreeHash(m)[child_path(SubSeq(key, 1, d), 1 - key[d + 1])]
  <2>1. \A d \in 0 .. Height - 1 : d + 1 \in 1 .. Height /\ d + 1 - 1 = d
    BY <1>2
  <2>. QED
    BY <1>3, <2>1
<1> DEFINE Right(d) == current[d] = SubtreeHash(m)[SubSeq(key, 1, d)]
           Bad == {n \in Nat : n <= Height /\ ~Right(Height - n)}
<1>6. Right(Height)
  <2>1. current[Height] = IF proof.value = None THEN empty_hash[0] ELSE proof.value
    BY <1>1, <1>2 DEF Fold
  <2>2. SubSeq(key, 1, Height) = key
    BY PrefixesOfKey DEF key
  <2>3. proof.value \in LeafHash \cup {None} /\ key \in Key
    BY MapForm DEF ValueOf, key
  <2>4. proof.value = ValueOf(m, key)
    BY DEF key
  <2>5. (IF proof.value = None THEN empty_hash[0] ELSE proof.value)
            = SubtreeHash(m)[key]
    BY <2>3, <2>4, KeyHash
  <2>. QED
    BY <2>1, <2>2, <2>5
<1>7. ASSUME NEW d \in 0 .. Height - 1, Right(d + 1)
      PROVE  Right(d)
  <2>1. d \in 0 .. Height /\ d # Height
    BY <1>2
  <2>2. /\ SubSeq(key, 1, d) \in Path
        /\ Len(SubSeq(key, 1, d)) = d
        /\ key[d + 1] \in Bit
        /\ child_path(SubSeq(key, 1, d), key[d + 1]) = SubSeq(key, 1, d + 1)
    BY PrefixesOfKey DEF key
  <2>3. PICK p \in Path : p = SubSeq(key, 1, d) /\ Len(p) < Height
    <3>1. d < Height
      BY <1>2
    <3>2. SubSeq(key, 1, d) \in Path /\ Len(SubSeq(key, 1, d)) < Height
      BY <2>2, <3>1, Zenon
    <3>. QED
      BY <3>2, Zenon
  <2>4. SubtreeHash(m)[p] = <<SubtreeHash(m)[child_path(p, 0)],
                             SubtreeHash(m)[child_path(p, 1)]>>
    BY <2>3, HashAtInner DEF merkle_node_hash
  <2>5. current[d] = IF key[d + 1] = 1
                     THEN <<proof.siblings[d + 1], current[d + 1]>>
                     ELSE <<current[d + 1], proof.siblings[d + 1]>>
    BY <1>1, <2>1 DEF Fold, get_bit, merkle_node_hash, key
  <2>6. /\ proof.siblings[d + 1] = SubtreeHash(m)[child_path(p, 1 - key[d + 1])]
        /\ current[d + 1] = SubtreeHash(m)[child_path(p, key[d + 1])]
    BY <1>5, <1>7, <2>2, <2>3
  <2>7. current[d] = SubtreeHash(m)[p]
    <3>1. CASE key[d + 1] = 1
      BY <2>4, <2>5, <2>6, <3>1
    <3>2. CASE key[d + 1] = 0
      BY <2>4, <2>5, <2>6, <3>2
    <3>. QED
      BY <2>2, <3>1, <3>2 DEF Bit
  <2>. QED
    BY <2>3, <2>7
<1>8. Bad = {}
  <2>. SUFFICES ASSUME Bad # {} PROVE FALSE
    OBVIOUS
  <2>1. PICK b \in Bad : \A n \in Bad : b <= n
    BY Least
  <2>2. b \in Nat /\ b <= Height /\ ~Right(Height - b)
    OBVIOUS
  <2> HIDE DEF Right
  <2>3. b # 0
    <3>1. Height - 0 = Height
      BY <1>2
    <3>. QED
      BY <1>6, <2>2, <3>1
  <2>4. PICK n \in Nat : n <= Height /\ ~(b <= n) /\ n + 1 = b
    <3>1. b - 1 \in Nat /\ b - 1 <= Height /\ ~(b <= b - 1) /\ (b - 1) + 1 = b
      BY <1>2, <2>2, <2>3
    <3>. QED
      BY <3>1
  <2>5. Right(Height - n)
    BY <2>1, <2>4
  <2>6. Height - b \in 0 .. Height - 1 /\ (Height - b) + 1 = Height - n
    BY <1>2, <2>2, <2>4
  <2>. QED
    BY <1>7, <2>2, <2>5, <2>6
<1>9. Right(0)
  <2> HIDE DEF Right
  <2>1. Height \notin Bad /\ Height - Height = 0 /\ Height <= Height
    BY <1>2, <1>8
  <2>. QED
    BY <1>2, <2>1
<1>. QED
  BY <1>1, <1>4, <1>9, PrefixesOfKey DEF key

-----------------------------------------------------------------------------
(* Node rows.                                                              *)

\* Descending through rows, where a row None or no row is a stop, meets the
\* nodes of the tree over m, each with its hash.
Reads(rows, m) ==
    \A p \in Visited(m) \cap InnerPath :
        IF Occupied(m, p)
        THEN p \in DOMAIN rows /\ rows[p] = SubtreeHash(m)[p]
        ELSE p \in DOMAIN rows => rows[p] = None

LEMMA OverrideForm ==
    ASSUME NEW f, NEW g
    PROVE  /\ DOMAIN Override(f, g) = DOMAIN f \cup DOMAIN g
           /\ \A k \in DOMAIN f \cup DOMAIN g :
                  Override(f, g)[k] = IF k \in DOMAIN g THEN g[k] ELSE f[k]
  BY DEF Override

\* The rows of a walk read the tree, whatever rows they are laid over.
LEMMA WalkReads ==
    ASSUME NEW m \in LeafMap
    PROVE  /\ NodeRows(PersistOps(m), NodeHash \cup {None})
           /\ \A rows : Reads(Override(rows, PersistOps(m)), m)
<1>1. PersistOps(m) = [p \in Visited(m) \cap InnerPath |->
          IF SubtreeHash(m)[p] = empty_hash[Height - Len(p)] THEN None
          ELSE SubtreeHash(m)[p]]
  BY DEF PersistOps
<1>2. DOMAIN PersistOps(m) = Visited(m) \cap InnerPath
  BY <1>1
<1>3. \A p \in Visited(m) \cap InnerPath :
          PersistOps(m)[p] = IF Occupied(m, p) THEN SubtreeHash(m)[p] ELSE None
  <2>. SUFFICES ASSUME NEW p \in Visited(m) \cap InnerPath
                PROVE  PersistOps(m)[p] =
                           IF Occupied(m, p) THEN SubtreeHash(m)[p] ELSE None
    OBVIOUS
  <2>1. p \in Path
    BY DEF InnerPath
  <2>. QED
    BY <1>1, <2>1, EmptyNodes
<1>4. ASSUME NEW rows PROVE Reads(Override(rows, PersistOps(m)), m)
  <2>1. \A p \in Visited(m) \cap InnerPath :
            /\ p \in DOMAIN Override(rows, PersistOps(m))
            /\ Override(rows, PersistOps(m))[p] = PersistOps(m)[p]
    BY <1>2, OverrideForm, ZenonT(40)
  <2>. QED
    BY <1>3, <2>1 DEF Reads
<1>5. NodeRows(PersistOps(m), NodeHash \cup {None})
  <2>1. \A p \in InnerPath : SubtreeHash(m)[p] \in NodeHash
    BY HashForm DEF InnerPath
  <2>. QED
    BY <1>1, <1>2, <1>3, <2>1 DEF NodeRows
<1>. QED
  BY <1>4, <1>5

LEMMA EmptyRows == \A T : NodeRows(Nothing, T)
  BY DEF NodeRows, Nothing

LEMMA OverrideRows ==
    ASSUME NEW T, NEW f, NEW g, NodeRows(f, T), NodeRows(g, T)
    PROVE  NodeRows(Override(f, g), T)
<1>1. /\ DOMAIN f \subseteq InnerPath /\ DOMAIN g \subseteq InnerPath
      /\ \A p \in DOMAIN f : f[p] \in T
      /\ \A p \in DOMAIN g : g[p] \in T
  BY DEF NodeRows
<1>2. Override(f, g) = [p \in DOMAIN Override(f, g) |-> Override(f, g)[p]]
  BY DEF Override
<1>3. /\ DOMAIN Override(f, g) \subseteq InnerPath
      /\ \A p \in DOMAIN Override(f, g) : Override(f, g)[p] \in T
  BY <1>1 DEF Override
<1>. QED
  BY <1>2, <1>3 DEF NodeRows

\* A flush moves the pending rows into the batch: in which order three sets of
\* rows are laid over each other does not matter.
LEMMA MovedRows ==
    ASSUME NEW m, NEW stored0, NEW queued, NEW pending
    PROVE  Reads(Override(Override(stored0, queued), pending), m) <=>
               Reads(Override(stored0, Override(queued, pending)), m)
<1> DEFINE old == Override(Override(stored0, queued), pending)
           new0 == Override(stored0, Override(queued, pending))
<1>1. DOMAIN old = DOMAIN new0 /\ \A p \in DOMAIN old : old[p] = new0[p]
  BY DEF Override
<1> HIDE DEF old, new0
<1>2. Reads(old, m) <=> Reads(new0, m)
  BY <1>1 DEF Reads
<1>. QED
  BY <1>2 DEF old, new0

\* Laying nothing over rows leaves them readable, in both directions.
LEMMA NothingOver ==
    ASSUME NEW m, NEW rows
    PROVE  Reads(Override(rows, Nothing), m) <=> Reads(rows, m)
<1>1. DOMAIN Nothing = {}
  BY EmptyMap
<1>2. /\ DOMAIN Override(rows, Nothing) = DOMAIN rows
      /\ \A p \in DOMAIN rows : Override(rows, Nothing)[p] = rows[p]
  BY <1>1 DEF Override
<1>. QED
  BY <1>2 DEF Reads

\* What Commit leaves of the rows it applies.
Kept(all) == [p \in {p \in DOMAIN all : all[p] # None} |-> all[p]]

LEMMA KeptRows ==
    ASSUME NEW all, NodeRows(all, NodeHash \cup {None})
    PROVE  NodeRows(Kept(all), NodeHash)
  BY DEF NodeRows, Kept

LEMMA KeptReads ==
    ASSUME NEW m \in LeafMap, NEW all
    PROVE  Reads(all, m) =>
               \A p \in Visited(m) \cap InnerPath :
                   IF Occupied(m, p)
                   THEN p \in DOMAIN Kept(all) /\ Kept(all)[p] = SubtreeHash(m)[p]
                   ELSE p \notin DOMAIN Kept(all)
<1>1. \A p \in InnerPath : SubtreeHash(m)[p] # None
  BY HashForm DEF InnerPath
<1>. QED
  BY <1>1 DEF Kept, Reads

\* Rows laid over the kept ones read as they do over all.
LEMMA KeptOver ==
    ASSUME NEW m \in LeafMap, NEW all, NEW pending
    PROVE  Reads(Override(all, pending), m) => Reads(Override(Kept(all), pending), m)
<1>1. \A p \in InnerPath : SubtreeHash(m)[p] # None
  BY HashForm DEF InnerPath
<1>2. /\ DOMAIN Kept(all) = {p \in DOMAIN all : all[p] # None}
      /\ \A p \in DOMAIN Kept(all) : Kept(all)[p] = all[p]
  BY DEF Kept
<1>3. ASSUME NEW p, p \in DOMAIN Override(all, pending)
      PROVE  \/ p \in DOMAIN Override(Kept(all), pending)
                /\ Override(Kept(all), pending)[p] = Override(all, pending)[p]
             \/ Override(all, pending)[p] = None
  BY <1>2, <1>3 DEF Override
<1>4. ASSUME NEW p, p \in DOMAIN Override(Kept(all), pending)
      PROVE  p \in DOMAIN Override(all, pending)
             /\ Override(Kept(all), pending)[p] = Override(all, pending)[p]
  BY <1>2, <1>4 DEF Override
<1>. QED
  BY <1>1, <1>3, <1>4 DEF Reads

-----------------------------------------------------------------------------
(* Changes of the leaves.                                                  *)

LEMMA InsertForm ==
    ASSUME NEW m \in LeafMap, NEW entries \in Seq(Entry)
    PROVE  /\ Insert(m, entries) \in LeafMap
           /\ entries = <<>> => Insert(m, entries) = m
<1> DEFINE Latest(k, i) ==
               /\ entries[i].key = k
               /\ \A j \in DOMAIN entries : entries[j].key = k => j <= i
           LastOf(k) == CHOOSE i \in DOMAIN entries : Latest(k, i)
           g == [k \in KeysOf(entries) |-> entries[LastOf(k)].value]
<1>1. Insert(m, entries) = Override(m, g)
  BY DEF Insert
<1>2. DOMAIN entries = 1 .. Len(entries) /\ Len(entries) \in Nat
  OBVIOUS
<1>3. \A i \in DOMAIN entries : entries[i].key \in Key /\ entries[i].value \in LeafHash
  <2>1. \A e \in Entry : e.key \in Key /\ e.value \in LeafHash
    BY DEF Entry
  <2>2. \A i \in DOMAIN entries : entries[i] \in Entry
    BY <1>2
  <2>. QED
    BY <2>1, <2>2
<1>4. KeysOf(entries) \subseteq Key
  BY <1>3 DEF KeysOf
<1>5. ASSUME NEW k \in KeysOf(entries)
      PROVE  \E i \in DOMAIN entries : Latest(k, i)
  <2> DEFINE Back == {n \in Nat : \E i \in DOMAIN entries :
                                      entries[i].key = k /\ n = Len(entries) - i}
  <2>1. PICK j \in DOMAIN entries : entries[j].key = k
    BY DEF KeysOf
  <2>2. Len(entries) - j \in Back
    BY <1>2, <2>1
  <2>3. Back \in SUBSET Nat /\ Back # {}
    BY <2>2
  <2>4. PICK n \in Back : \A n2 \in Back : n <= n2
    BY <2>3, Least
  <2>5. PICK i \in DOMAIN entries : entries[i].key = k /\ n = Len(entries) - i
    OBVIOUS
  <2>6. ASSUME NEW j2 \in DOMAIN entries, entries[j2].key = k PROVE j2 <= i
    <3>1. Len(entries) - j2 \in Back
      BY <1>2, <2>6
    <3>2. Len(entries) - i <= Len(entries) - j2
      BY <2>4, <2>5, <3>1
    <3>. QED
      BY <1>2, <3>2
  <2>. QED
    BY <2>5, <2>6
<1>6. \A k \in KeysOf(entries) : LastOf(k) \in DOMAIN entries
  BY <1>5
<1> HIDE DEF LastOf
<1>7. \A k \in KeysOf(entries) : g[k] \in LeafHash
  BY <1>3, <1>6
<1>8. DOMAIN g = KeysOf(entries)
  OBVIOUS
<1> HIDE DEF g
<1>9. /\ DOMAIN Override(m, g) \in SUBSET Key
      /\ \A k \in DOMAIN Override(m, g) : Override(m, g)[k] \in LeafHash
  BY <1>4, <1>7, <1>8, MapForm DEF Override
<1>10. Override(m, g) \in [DOMAIN Override(m, g) -> LeafHash]
  BY <1>9 DEF Override
<1>11. entries = <<>> => KeysOf(entries) = {}
  BY DEF KeysOf
<1>12. DOMAIN g = {} => Override(m, g) = m
  BY MapForm DEF Override
<1>. QED
  BY <1>1, <1>8, <1>9, <1>10, <1>11, <1>12 DEF LeafMap, PartialMap

LEMMA RemoveForm ==
    ASSUME NEW m \in LeafMap, NEW keys \in Seq(Key),
           NEW rest, rest = [k \in DOMAIN m \ ToSet(keys) |-> m[k]]
    PROVE  rest \in LeafMap /\ (keys = <<>> => rest = m)
<1>1. [k \in DOMAIN m \ ToSet(keys) |-> m[k]] \in [DOMAIN m \ ToSet(keys) -> LeafHash]
  BY MapForm
<1>2. DOMAIN m \ ToSet(keys) \in SUBSET Key
  BY MapForm
<1>3. keys = <<>> => ToSet(keys) = {}
  BY DEF ToSet
<1>4. [k \in DOMAIN m |-> m[k]] = m
  BY MapForm
<1>5. ToSet(keys) = {} => DOMAIN m \ ToSet(keys) = DOMAIN m
  OBVIOUS
<1>. QED
  BY <1>1, <1>2, <1>3, <1>4, <1>5 DEF LeafMap, PartialMap

-----------------------------------------------------------------------------
(* The inductive invariant.                                                *)

Root(m) == SubtreeHash(m)[<<>>]
Queued == IF batch = None THEN Nothing ELSE batch.nodes

CachedRoot == running => root_hash \in {None, Root(leaves)}

\* What a commit would write is one tree: leaves, root and rows agree.
BatchSound ==
    batch # None =>
        /\ running
        /\ batch.state_root = Root(batch.leaves)
        /\ dirty_merkle_nodes = Nothing
        /\ root_hash # None
        /\ ~batch.incomplete =>
               Reads(Override(merkle_nodes, batch.nodes), batch.leaves)

StoredRoot ==
    IF merkle_state_root = None THEN merkle_nodes = Nothing
    ELSE merkle_state_root = Root(coin_records)

\* Stored, queued and pending rows together read the tree of the cached root.
RowsReadable ==
    running /\ root_hash # None /\ ~dropped =>
        Reads(Override(Override(merkle_nodes, Queued), dirty_merkle_nodes), leaves)

MerkleInv ==
    /\ TypeOK
    /\ CachedRoot
    /\ BatchSound
    /\ StoredRoot
    /\ StoredNodesAreReadable
    /\ RowsReadable

LEMMA RootIsAHash ==
    ASSUME NEW m \in LeafMap
    PROVE  Root(m) \in NodeHash /\ Root(m) # None
  BY EmptyPath, HashForm DEF Root

\* No rows read the empty tree.
LEMMA EmptyReads == Reads(Nothing, Nothing)
<1>1. \A p : ~Occupied(Nothing, p)
  BY EmptyMap DEF Occupied
<1>. QED
  BY <1>1, EmptyMap DEF Reads

LEMMA MerkleInit == Init => MerkleInv
<1>. SUFFICES ASSUME Init PROVE MerkleInv
  OBVIOUS
<1>1. empty_hash[Height] = Root(Nothing)
  BY EmptyRoot DEF Root
<1>2. TypeOK
  BY <1>1, EmptyMap, EmptyRows, RootIsAHash DEF Init, TypeOK
<1>3. CachedRoot
  BY <1>1 DEF Init, CachedRoot
<1>4. RowsReadable
  <2>1. Reads(Override(Override(Nothing, Nothing), Nothing), Nothing)
    BY EmptyReads, NothingOver
  <2>. QED
    BY <2>1 DEF Init, RowsReadable, Queued
<1>. QED
  BY <1>2, <1>3, <1>4 DEF Init, MerkleInv, BatchSound, StoredRoot,
     StoredNodesAreReadable, RowsLeadToTheLeaves

LEMMA ChangeStep ==
    ASSUME MerkleInv, running, batch = None, NEW m \in LeafMap, NEW list,
           list = <<>> => m = leaves, SetLeaves(m, list)
    PROVE  MerkleInv'
<1>1. TypeOK'
  BY DEF MerkleInv, TypeOK, SetLeaves, stored
<1>2. CASE list = <<>>
  <2>1. /\ leaves' = leaves /\ root_hash' = root_hash
        /\ UNCHANGED <<dirty_merkle_nodes, batch, stored, running, dropped, partial>>
    BY <1>2 DEF SetLeaves
  <2>. QED
    BY <1>1, <2>1 DEF MerkleInv, CachedRoot, BatchSound, StoredRoot,
       StoredNodesAreReadable, RowsLeadToTheLeaves, RowsReadable, Queued, stored
<1>3. CASE list # <<>>
  <2>1. root_hash' = None
    BY <1>3 DEF SetLeaves
  <2>. QED
    BY <1>1, <2>1 DEF MerkleInv, CachedRoot, BatchSound, StoredRoot,
       StoredNodesAreReadable, RowsLeadToTheLeaves, RowsReadable, SetLeaves, stored
<1>. QED
  BY <1>2, <1>3

LEMMA RootStep ==
    ASSUME MerkleInv, root
    PROVE  MerkleInv'
<1>1. leaves \in LeafMap /\ root_hash = None /\ running /\ batch = None
  BY DEF MerkleInv, TypeOK, BatchSound, root
<1>2. /\ root_hash' = Root(leaves)
      /\ dirty_merkle_nodes' = PersistOps(leaves)
      /\ UNCHANGED <<leaves, batch, stored, running, partial>>
      /\ dropped' = FALSE
  BY <1>1 DEF root, RootAndRows, Root
<1>3. TypeOK'
  BY <1>1, <1>2, WalkReads, RootIsAHash DEF MerkleInv, TypeOK, stored
<1>4. RowsReadable'
  BY <1>1, <1>2, WalkReads DEF RowsReadable
<1>. QED
  BY <1>1, <1>2, <1>3, <1>4 DEF MerkleInv, CachedRoot, BatchSound, StoredRoot,
     StoredNodesAreReadable, RowsLeadToTheLeaves, stored

LEMMA FlushStep ==
    ASSUME MerkleInv, flush_to_batch
    PROVE  MerkleInv'
<1>1. leaves \in LeafMap /\ running
  BY DEF MerkleInv, TypeOK, flush_to_batch
<1>2. PICK rows : rows = RootAndRows.rows
  OBVIOUS
<1>3. /\ batch' = [leaves |-> leaves, nodes |-> Override(Queued, rows),
                   state_root |-> root_hash', incomplete |-> dropped']
      /\ dropped' = (dropped /\ root_hash # None)
      /\ dirty_merkle_nodes' = Nothing
      /\ UNCHANGED <<leaves, stored, running, partial>>
  BY <1>2 DEF flush_to_batch, Enqueue, Queued
<1>4. root_hash' = Root(leaves) /\ root_hash' # None /\ root_hash' \in NodeHash
  BY <1>1, RootIsAHash DEF MerkleInv, CachedRoot, flush_to_batch, RootAndRows, Root
<1>5. dropped \in BOOLEAN /\ dropped' \in BOOLEAN
  BY <1>3 DEF MerkleInv, TypeOK
<1>6. NodeRows(rows, NodeHash \cup {None})
  BY <1>1, <1>2, WalkReads DEF MerkleInv, TypeOK, RootAndRows
<1>7. NodeRows(Override(Queued, rows), NodeHash \cup {None})
  <2>1. NodeRows(Queued, NodeHash \cup {None})
    BY EmptyRows DEF MerkleInv, TypeOK, Queued
  <2>. QED
    BY <1>6, <2>1, OverrideRows
<1>8. ~dropped' => Reads(Override(merkle_nodes, Override(Queued, rows)), leaves)
  <2>. SUFFICES ASSUME ~dropped'
                PROVE  Reads(Override(Override(merkle_nodes, Queued), rows), leaves)
    BY MovedRows
  <2>1. CASE root_hash # None
    <3>1. ~dropped /\ rows = dirty_merkle_nodes
      BY <1>2, <1>3, <2>1 DEF RootAndRows
    <3>. QED
      BY <1>1, <2>1, <3>1 DEF MerkleInv, RowsReadable
  <2>2. CASE root_hash = None
    <3>1. rows = PersistOps(leaves)
      BY <1>2, <2>2 DEF RootAndRows
    <3>. QED
      BY <1>1, <3>1, WalkReads
  <2>. QED
    BY <2>1, <2>2
<1>9. /\ batch'.nodes = Override(Queued, rows)
      /\ batch'.leaves = leaves /\ batch'.state_root = Root(leaves)
      /\ batch'.incomplete = dropped'
  BY <1>3, <1>4
<1>10. TypeOK'
  <2>1. leaves' = leaves /\ coin_records' = coin_records
        /\ merkle_nodes' = merkle_nodes /\ merkle_state_root' = merkle_state_root
        /\ running' /\ partial' = partial
    BY <1>1, <1>3 DEF stored
  <2>. QED
    BY <1>1, <1>3, <1>4, <1>5, <1>7, <1>9, <2>1, EmptyRows DEF MerkleInv, TypeOK
<1>11. BatchSound'
  BY <1>1, <1>3, <1>4, <1>8, <1>9 DEF BatchSound, stored
<1>12. batch' # None
  <2>1. Override(Queued, rows) \in PartialMap(InnerPath, NodeHash \cup {None})
    <3> DEFINE f == Override(Queued, rows)
    <3>1. f \in [DOMAIN f -> NodeHash \cup {None}] /\ DOMAIN f \in SUBSET InnerPath
      <4> HIDE DEF f
      <4>. QED
        BY <1>7 DEF NodeRows, f
    <3>. QED
      BY <3>1, Zenon DEF PartialMap
  <2>2. batch' \in Batch
    BY <1>1, <1>3, <1>4, <1>5, <2>1 DEF Batch
  <2>. QED
    BY <2>2, NoneAssumption
<1>13. RowsReadable'
  <2>1. Queued' = Override(Queued, rows)
    BY <1>9, <1>12 DEF Queued
  <2>. QED
    BY <1>3, <1>8, <2>1, NothingOver DEF RowsReadable, stored
<1>. QED
  BY <1>3, <1>4, <1>10, <1>11, <1>13 DEF MerkleInv, CachedRoot, StoredRoot,
     StoredNodesAreReadable, RowsLeadToTheLeaves, stored

LEMMA ClearStep ==
    ASSUME MerkleInv, clear_dirty
    PROVE  MerkleInv'
<1>1. /\ dirty_merkle_nodes' = Nothing
      /\ dropped' = (dropped \/ dirty_merkle_nodes # Nothing)
      /\ UNCHANGED <<leaves, root_hash, batch, stored, running, partial>>
      /\ running
  BY DEF clear_dirty
<1>2. TypeOK'
  BY <1>1, EmptyRows DEF MerkleInv, TypeOK, stored
<1>3. RowsReadable'
  BY <1>1 DEF MerkleInv, RowsReadable, Queued, stored
<1>. QED
  BY <1>1, <1>2, <1>3 DEF MerkleInv, CachedRoot, BatchSound, StoredRoot,
     StoredNodesAreReadable, RowsLeadToTheLeaves, stored

LEMMA CommitStep ==
    ASSUME MerkleInv, Commit
    PROVE  MerkleInv'
<1> DEFINE all == Override(merkle_nodes, batch.nodes)
<1>1. /\ running /\ batch # None
      /\ coin_records' = batch.leaves /\ merkle_nodes' = Kept(all)
      /\ merkle_state_root' = batch.state_root /\ partial' = batch.incomplete
      /\ batch' = None
      /\ UNCHANGED <<tree, running, dropped>>
  BY DEF Commit, Kept
<1>2. /\ batch.leaves \in LeafMap /\ batch.state_root = Root(batch.leaves)
      /\ batch.incomplete \in BOOLEAN /\ dirty_merkle_nodes = Nothing
      /\ ~batch.incomplete => Reads(all, batch.leaves)
      /\ leaves \in LeafMap
  BY <1>1 DEF MerkleInv, TypeOK, BatchSound
<1>3. NodeRows(merkle_nodes', NodeHash)
  <2>1. NodeRows(merkle_nodes, NodeHash \cup {None})
    BY DEF MerkleInv, TypeOK, NodeRows
  <2>2. NodeRows(batch.nodes, NodeHash \cup {None})
    BY <1>1 DEF MerkleInv, TypeOK
  <2>. QED
    BY <1>1, <2>1, <2>2, OverrideRows, KeptRows
<1>4. merkle_state_root' = Root(coin_records') /\ merkle_state_root' # None
      /\ merkle_state_root' \in NodeHash
  BY <1>1, <1>2, RootIsAHash
<1>5. TypeOK'
  BY <1>1, <1>2, <1>3, <1>4 DEF MerkleInv, TypeOK, tree
<1>6. StoredNodesAreReadable'
  <2> HIDE DEF all
  <2>1. ~partial' =>
            \A p \in Visited(batch.leaves) \cap InnerPath :
                IF Occupied(batch.leaves, p)
                THEN p \in DOMAIN Kept(all)
                     /\ Kept(all)[p] = SubtreeHash(batch.leaves)[p]
                ELSE p \notin DOMAIN Kept(all)
    BY <1>1, <1>2, KeptReads
  <2>. QED
    BY <1>1, <2>1 DEF StoredNodesAreReadable, RowsLeadToTheLeaves
<1>7. RowsReadable'
  <2>. SUFFICES ASSUME root_hash # None, ~dropped
                PROVE  Reads(Override(Override(Kept(all), Nothing), Nothing), leaves)
    BY <1>1, <1>2 DEF RowsReadable, Queued, tree
  <2>1. Reads(Override(all, Nothing), leaves)
    BY <1>1, <1>2 DEF MerkleInv, RowsReadable, Queued
  <2>2. Reads(Override(Kept(all), Nothing), leaves)
    <3> HIDE DEF all
    <3>. QED
      BY <1>2, <2>1, KeptOver
  <2>. QED
    BY <2>2, NothingOver
<1>. QED
  BY <1>1, <1>4, <1>5, <1>6, <1>7 DEF MerkleInv, CachedRoot, BatchSound, StoredRoot, tree

LEMMA CommitFailsStep ==
    ASSUME MerkleInv, CommitFails
    PROVE  MerkleInv'
<1>1. /\ running /\ batch # None /\ batch' = None
      /\ dropped' = (dropped \/ batch.nodes # Nothing)
      /\ UNCHANGED <<tree, stored, running, partial>>
  BY DEF CommitFails
<1>2. TypeOK'
  BY <1>1 DEF MerkleInv, TypeOK, tree, stored
<1>3. RowsReadable'
  <2>. SUFFICES ASSUME ~dropped, batch.nodes = Nothing
                PROVE  RowsReadable'
    BY <1>1 DEF RowsReadable
  <2>. QED
    BY <1>1 DEF MerkleInv, RowsReadable, Queued, tree, stored
<1>. QED
  BY <1>1, <1>2, <1>3 DEF MerkleInv, CachedRoot, BatchSound, StoredRoot,
     StoredNodesAreReadable, RowsLeadToTheLeaves, tree, stored

LEMMA CrashStep ==
    ASSUME MerkleInv, Crash
    PROVE  MerkleInv'
<1>1. TypeOK'
  BY EmptyMap, EmptyRows DEF Crash, MerkleInv, TypeOK, stored, tree
<1>. QED
  BY <1>1 DEF Crash, MerkleInv, CachedRoot, BatchSound, StoredRoot,
     StoredNodesAreReadable, RowsLeadToTheLeaves, RowsReadable, stored

LEMMA LoadStep ==
    ASSUME MerkleInv, load_from_store
    PROVE  MerkleInv'
<1>1. /\ merkle_state_root # None /\ merkle_state_root = Root(coin_records)
      /\ leaves' = coin_records /\ root_hash' = merkle_state_root
      /\ running' = TRUE /\ dropped' = partial
      /\ UNCHANGED <<dirty_merkle_nodes, batch, stored, partial>>
      /\ ~running
  BY DEF load_from_store, LoadResult, Root
<1>2. batch = None /\ dirty_merkle_nodes = Nothing
  BY <1>1 DEF MerkleInv, TypeOK, tree
<1>3. TypeOK'
  BY <1>1, <1>2 DEF MerkleInv, TypeOK, stored
<1>4. RowsReadable'
  <2>. SUFFICES ASSUME ~partial
                PROVE  Reads(Override(Override(merkle_nodes, Nothing), Nothing),
                             coin_records)
    BY <1>1, <1>2 DEF RowsReadable, Queued, stored
  <2>1. Reads(merkle_nodes, coin_records)
    BY <1>1 DEF MerkleInv, StoredNodesAreReadable, RowsLeadToTheLeaves, Reads
  <2>. QED
    BY <2>1, NothingOver
<1>. QED
  BY <1>1, <1>2, <1>3, <1>4 DEF MerkleInv, CachedRoot, BatchSound, StoredRoot,
     StoredNodesAreReadable, RowsLeadToTheLeaves, stored

LEMMA NewStep ==
    ASSUME MerkleInv, new
    PROVE  MerkleInv'
<1>1. /\ merkle_state_root = None
      /\ leaves' = Nothing /\ root_hash' = Root(Nothing) /\ running' = TRUE
      /\ UNCHANGED <<dirty_merkle_nodes, batch, stored, dropped, partial>>
      /\ ~running
  BY EmptyRoot DEF new, LoadResult, Root
<1>2. batch = None /\ dirty_merkle_nodes = Nothing /\ merkle_nodes = Nothing
  BY <1>1 DEF MerkleInv, TypeOK, StoredRoot, tree
<1>3. TypeOK'
  BY <1>1, <1>2, EmptyMap, RootIsAHash DEF MerkleInv, TypeOK, stored
<1>4. RowsReadable'
  <2>1. Reads(Override(Override(Nothing, Nothing), Nothing), Nothing)
    BY EmptyReads, NothingOver
  <2>. QED
    BY <1>1, <1>2, <2>1 DEF RowsReadable, Queued, stored
<1>. QED
  BY <1>1, <1>2, <1>3, <1>4 DEF MerkleInv, CachedRoot, BatchSound, StoredRoot,
     StoredNodesAreReadable, RowsLeadToTheLeaves, stored

LEMMA MerkleStep == MerkleInv /\ [Next]_vars => MerkleInv'
<1>. SUFFICES ASSUME MerkleInv, [Next]_vars PROVE MerkleInv'
  OBVIOUS
<1>1. leaves \in LeafMap
  BY DEF MerkleInv, TypeOK
<1>2. ASSUME NEW entries \in EntryLists, batch = None,
             batch_insert(entries) \/ batch_update(entries)
      PROVE  MerkleInv'
  <2>1. entries \in Seq(Entry)
    BY MerkleAssumption
  <2>2. /\ Insert(leaves, entries) \in LeafMap
        /\ entries = <<>> => Insert(leaves, entries) = leaves
    BY <1>1, <2>1, InsertForm
  <2>3. running /\ SetLeaves(Insert(leaves, entries), entries)
    BY <1>2 DEF batch_insert, batch_update
  <2>4. ASSUME NEW m, m = Insert(leaves, entries) PROVE MerkleInv'
    BY <1>2, <2>2, <2>3, <2>4, ChangeStep
  <2>. QED
    BY <2>4
<1>3. ASSUME NEW keys \in KeyLists, batch = None, batch_remove(keys)
      PROVE  MerkleInv'
  <2>1. keys \in Seq(Key)
    BY MerkleAssumption
  <2>2. ASSUME NEW m, m = [k \in DOMAIN leaves \ ToSet(keys) |-> leaves[k]]
        PROVE  MerkleInv'
    <3>1. m \in LeafMap /\ (keys = <<>> => m = leaves)
      BY <1>1, <2>1, <2>2, RemoveForm
    <3>2. running /\ SetLeaves(m, keys)
      BY <1>3, <2>2 DEF batch_remove
    <3>. QED
      BY <1>3, <3>1, <3>2, ChangeStep
  <2>. QED
    BY <2>2
<1>4. CASE UNCHANGED vars
  BY <1>4 DEF vars, tree, stored, MerkleInv, TypeOK, CachedRoot, BatchSound,
     StoredRoot, StoredNodesAreReadable, RowsLeadToTheLeaves, RowsReadable, Queued
<1>5. CASE Change
  BY <1>2, <1>3, <1>5 DEF Change
<1>. QED
  BY <1>4, <1>5, RootStep, FlushStep, ClearStep, CommitStep, CommitFailsStep,
     CrashStep, LoadStep, NewStep DEF Next

\* The tree, the batch under construction and the storage stay consistent.
THEOREM MerkleInvariance == Spec => []MerkleInv
  BY MerkleInit, MerkleStep, PTL DEF Spec

-----------------------------------------------------------------------------
(* What follows.                                                           *)

\* Every hash, leaf map, row and batch keeps its type (merkle/mod.rs).
THEOREM MerkleTypesCorrect == Spec => []TypeOK
<1>1. MerkleInv => TypeOK
  BY DEF MerkleInv
<1>. QED
  BY <1>1, MerkleInvariance, PTL

LEMMA RootFacts ==
    ASSUME MerkleInv, running
    PROVE  /\ leaves \in LeafMap
           /\ root_hash \in {None, Root(leaves)}
           /\ root_observed = Root(leaves)
<1>1. leaves \in LeafMap /\ root_hash \in {None, Root(leaves)}
  BY DEF MerkleInv, TypeOK, CachedRoot
<1>2. DOMAIN leaves = {} => leaves = Nothing
  <2>1. leaves = [k \in DOMAIN leaves |-> leaves[k]]
    BY <1>1, MapForm
  <2>. QED
    BY <2>1 DEF Nothing
<1>3. root_observed = Root(leaves)
  BY <1>1, <1>2, EmptyRoot DEF root_observed, Root
<1>. QED
  BY <1>1, <1>3

\* MRK-001: the cached root and the observed root are those of the present
\* leaves, after any batches, recomputations, flushes, failures and reloads.
THEOREM RootCorrect == Spec => []RootIsOfTheLeaves
<1>1. MerkleInv => RootIsOfTheLeaves
  BY RootFacts DEF RootIsOfTheLeaves, Root
<1>. QED
  BY <1>1, MerkleInvariance, PTL

\* MRK-003: the stored rows, read from the root down, are the stored tree.
THEOREM StoredNodesCorrect == Spec => []StoredNodesAreReadable
<1>1. MerkleInv => StoredNodesAreReadable
  BY DEF MerkleInv
<1>. QED
  BY <1>1, MerkleInvariance, PTL

\* load_from_store accepts the committed leaves and no others.
THEOREM RestartCorrect == Spec => []RestartFindsItsRoot
<1>1. MerkleInv => RestartFindsItsRoot
  <2>. SUFFICES ASSUME MerkleInv, merkle_state_root # None
                PROVE  /\ LoadResult(coin_records) = "Ok"
                       /\ leaves # coin_records =>
                              LoadResult(leaves) = "PersistedRootMismatch"
    BY DEF RestartFindsItsRoot
  <2>1. merkle_state_root = Root(coin_records)
    BY DEF MerkleInv, StoredRoot
  <2>2. leaves \in LeafMap /\ coin_records \in LeafMap
    BY DEF MerkleInv, TypeOK
  <2>3. leaves # coin_records => Root(leaves) # Root(coin_records)
    BY <2>2, RootIsInjective DEF Root
  <2>. QED
    BY <2>1, <2>3 DEF LoadResult, Root
<1>. QED
  BY <1>1, MerkleInvariance, PTL

LEMMA ProofForm ==
    ASSUME NEW m, NEW key
    PROVE  /\ build_sparse_proof_for_key(m, key).key = key
           /\ build_sparse_proof_for_key(m, key).value = ValueOf(m, key)
           /\ \A v : LET p == [build_sparse_proof_for_key(m, key) EXCEPT !.value = v]
                     IN  /\ p.key = key /\ p.value = v
                         /\ p.siblings = build_sparse_proof_for_key(m, key).siblings
  BY DEF build_sparse_proof_for_key, ValueOf

\* MRK-004 and MRK-005: a proof given out verifies under the observed root for
\* the present value and no other, and an old proof only while it is true.
THEOREM ProofsCorrect == Spec => []ProofsTellTheTruth
<1>1. MerkleInv => ProofsTellTheTruth
  <2>. SUFFICES ASSUME MerkleInv, running, NEW key \in Key
                PROVE  LET proof == get_coin_proof(key)
                           old == build_sparse_proof_for_key(coin_records, key)
                           value == ValueOf(leaves, key)
                       IN  /\ ~is_dirty =>
                                  \A v \in LeafHash \cup {None} :
                                      verify([proof EXCEPT !.value = v], root_observed)
                                          <=> v = value
                           /\ verify(old, root_observed) => old.value = value
    BY DEF ProofsTellTheTruth, ValueOf
  <2>1. leaves \in LeafMap /\ root_observed = SubtreeHash(leaves)[<<>>]
    BY RootFacts DEF Root
  <2>2. ASSUME ~is_dirty, NEW v \in LeafHash \cup {None}
        PROVE  verify([get_coin_proof(key) EXCEPT !.value = v], root_observed)
                   <=> v = ValueOf(leaves, key)
    <3>1. PICK p : p = [build_sparse_proof_for_key(leaves, key) EXCEPT !.value = v]
      OBVIOUS
    <3>2. /\ p.key = key /\ p.value = v
          /\ p.siblings = build_sparse_proof_for_key(leaves, key).siblings
      BY <3>1, ProofForm
    <3>3. verify(p, SubtreeHash(leaves)[<<>>]) => v = ValueOf(leaves, key)
      BY <2>1, <3>2, ProofsAreSound
    <3>4. v = ValueOf(leaves, key) => verify(p, SubtreeHash(leaves)[<<>>])
      BY <2>1, <3>2, ProofsAreComplete
    <3>5. [get_coin_proof(key) EXCEPT !.value = v] = p
      BY <2>2, <3>1 DEF get_coin_proof
    <3>. QED
      BY <2>1, <3>3, <3>4, <3>5
  <2>3. ASSUME verify(build_sparse_proof_for_key(coin_records, key), root_observed)
        PROVE  build_sparse_proof_for_key(coin_records, key).value = ValueOf(leaves, key)
    <3>1. PICK p : p = build_sparse_proof_for_key(coin_records, key)
      OBVIOUS
    <3>2. p.key = key /\ p.value = ValueOf(coin_records, key)
      BY <3>1, ProofForm
    <3>3. ValueOf(coin_records, key) \in LeafHash \cup {None}
      BY MapForm DEF MerkleInv, TypeOK, ValueOf
    <3>4. p.value = ValueOf(leaves, p.key)
      BY <2>1, <2>3, <3>1, <3>2, <3>3, ProofsAreSound
    <3>. QED
      BY <3>1, <3>2, <3>4
  <2>. QED
    BY <2>2, <2>3
<1>. QED
  BY <1>1, MerkleInvariance, PTL

=============================================================================
