------------------------- MODULE StorageEnginesProofs -------------------------
(***************************************************************************)
(* Both storage engines implement KvStore, for any number of threads, any  *)
(* requests and logs of any length, and read from the right family.        *)
(***************************************************************************)
EXTENDS StorageEngines, OrderProofs

-----------------------------------------------------------------------------
(* The three copies of the operations on rows are one.                     *)

LEMMA SameOps ==
    ASSUME NEW rows, NEW ops
    PROVE  Rocks!ApplyOps(rows, ops) = Kv!ApplyOps(rows, ops)
  BY Zenon DEF Kv!ApplyOps, Kv!FoldLeft, Kv!MapThenFoldSet, Kv!ApplyOp, Kv!Max,
     Rocks!ApplyOps, Rocks!FoldLeft, Rocks!MapThenFoldSet, Rocks!ApplyOp, Rocks!Max

LEMMA SameOp ==
    ASSUME NEW rows, NEW op
    PROVE  Lmdb!ApplyOp(rows, op) = Kv!ApplyOp(rows, op)
  BY DEF Lmdb!ApplyOp, Kv!ApplyOp

-----------------------------------------------------------------------------
(* A batch is applied operation by operation.                              *)

LEMMA Greatest ==
    ASSUME NEW n \in Nat, NEW s \in SUBSET (1 .. n), s # {}
    PROVE  Kv!Max(s) \in s /\ \A x \in s : x <= Kv!Max(s)
<1> DEFINE Back == {k \in Nat : \E x \in s : k = n - x}
<1>1. PICK y \in s : TRUE
  OBVIOUS
<1>2. n - y \in Back
  BY <1>1
<1>3. PICK k \in Back : \A k2 \in Back : k <= k2
  BY <1>2, Least
<1>4. PICK x \in s : k = n - x
  OBVIOUS
<1>5. \A z \in s : x >= z
  <2>. SUFFICES ASSUME NEW z \in s PROVE x >= z
    OBVIOUS
  <2>1. n - z \in Back
    OBVIOUS
  <2>2. n - x <= n - z
    BY <1>3, <1>4, <2>1
  <2>. QED
    BY <2>2
<1>6. \E w \in s : \A z \in s : w >= z
  BY <1>5
<1>7. Kv!Max(s) \in s /\ \A z \in s : Kv!Max(s) >= z
  BY <1>6 DEF Kv!Max
<1>. QED
  BY <1>7

FoldBody(rows, ops, f, s) ==
    IF s = {} THEN rows ELSE Kv!ApplyOp(f[s \ {Kv!Max(s)}], ops[Kv!Max(s)])

\* The function that FoldLeft chooses exists.
LEMMA FoldSolution ==
    ASSUME NEW rows, NEW ops, NEW n \in Nat
    PROVE  \E f : f = [s \in SUBSET (1 .. n) |-> FoldBody(rows, ops, f, s)]
<1> USE DEF FoldBody
<1> DEFINE Body(f, s) == FoldBody(rows, ops, f, s)
           Solves(f, k) == f = [s \in SUBSET (1 .. k) |-> Body(f, s)]
           Good == {k \in Nat : \E f : Solves(f, k)}
<1>1. 0 \in Good
  <2> DEFINE g == [s \in SUBSET (1 .. 0) |-> rows]
  <2>1. 1 .. 0 = {}
    OBVIOUS
  <2>2. Solves(g, 0)
    BY <2>1
  <2>. QED
    BY <2>2
<1>2. ASSUME NEW k \in Nat, k < n, k \in Good PROVE k + 1 \in Good
  <2>1. PICK f : Solves(f, k)
    BY <1>2
  <2> DEFINE g == [s \in SUBSET (1 .. k + 1) |->
                      IF s \in SUBSET (1 .. k) THEN f[s] ELSE Body(f, s)]
  <2>2. \A s \in SUBSET (1 .. k) : s \in SUBSET (1 .. k + 1)
    OBVIOUS
  <2>3. \A s \in SUBSET (1 .. k + 1) : s # {} =>
            s \ {Kv!Max(s)} \in SUBSET (1 .. k)
    <3>. SUFFICES ASSUME NEW s \in SUBSET (1 .. k + 1), s # {}, NEW x \in s,
                         x # Kv!Max(s)
                  PROVE  x \in 1 .. k
      OBVIOUS
    <3>1. k + 1 \in Nat
      OBVIOUS
    <3>2. Kv!Max(s) \in s /\ x <= Kv!Max(s)
      BY <3>1, Greatest
    <3>3. x \in 1 .. k + 1 /\ Kv!Max(s) \in 1 .. k + 1
      BY <3>2
    <3>. QED
      BY <3>2, <3>3
  <2>4. \A s \in SUBSET (1 .. k + 1) : g[s] = Body(f, s)
    BY <2>1
  <2>5. \A s \in SUBSET (1 .. k) : g[s] = f[s]
    BY <2>2
  <2> HIDE DEF g
  <2>6. \A s \in SUBSET (1 .. k + 1) : Body(f, s) = Body(g, s)
    BY <2>3, <2>5
  <2>7. g = [s \in SUBSET (1 .. k + 1) |-> Body(f, s)]
    BY <2>4 DEF g
  <2>8. Solves(g, k + 1)
    <3> HIDE DEF Body
    <3>. QED
      BY <2>6, <2>7
  <2>9. k + 1 \in Nat
    OBVIOUS
  <2> HIDE DEF Solves
  <2>. QED
    BY <2>8, <2>9, Zenon
<1>3. 0 .. n \subseteq Good
  <2>1. Good \in SUBSET Nat
    OBVIOUS
  <2> HIDE DEF Good
  <2>. QED
    BY <1>1, <1>2, <2>1, Induct
<1>4. n \in Good
  <2>1. n \in 0 .. n
    OBVIOUS
  <2> HIDE DEF Good
  <2>. QED
    BY <1>3, <2>1
<1>. QED
  BY <1>4

\* The contents after each of the operations of a batch.
Steps(f, rows, ops) ==
    /\ f[0] = rows
    /\ \A k \in 1 .. Len(ops) : f[k] = Kv!ApplyOp(f[k - 1], ops[k])

LEMMA FoldSteps ==
    ASSUME NEW rows, NEW S, NEW ops \in Seq(S)
    PROVE  \E f : Steps(f, rows, ops) /\ f[Len(ops)] = Kv!ApplyOps(rows, ops)
<1> DEFINE n == Len(ops)
           iter == CHOOSE f : f = [s \in SUBSET (1 .. n) |-> FoldBody(rows, ops, f, s)]
<1>1. n \in Nat /\ DOMAIN ops = 1 .. n
  OBVIOUS
<1>2. Kv!ApplyOps(rows, ops) = iter[1 .. n]
  <2>1. Kv!ApplyOps(rows, ops) =
            (CHOOSE f : f = [s \in SUBSET DOMAIN ops |-> FoldBody(rows, ops, f, s)])[DOMAIN ops]
    BY Zenon DEF FoldBody, Kv!ApplyOps, Kv!FoldLeft, Kv!MapThenFoldSet
  <2>. QED
    BY <1>1, <2>1, Zenon
<1>3. iter = [s \in SUBSET (1 .. n) |-> FoldBody(rows, ops, iter, s)]
  <2>1. \E f : f = [s \in SUBSET (1 .. n) |-> FoldBody(rows, ops, f, s)]
    BY <1>1, FoldSolution, Zenon
  <2>. QED
    BY <2>1, Zenon
<1> HIDE DEF iter, n
<1> DEFINE f == [k \in 0 .. n |-> iter[1 .. k]]
<1>4. f[0] = rows
  <2>1. 1 .. 0 = {} /\ 0 \in 0 .. n
    BY <1>1
  <2>2. iter[{}] = rows
    BY <1>3 DEF FoldBody
  <2>. QED
    BY <2>1, <2>2
<1>5. ASSUME NEW k \in 1 .. n PROVE f[k] = Kv!ApplyOp(f[k - 1], ops[k])
  <2>1. 1 .. k \in SUBSET (1 .. n) /\ 1 .. k # {} /\ k \in 1 .. k
    BY <1>1
  <2>2. Kv!Max(1 .. k) = k
    <3>1. Kv!Max(1 .. k) \in 1 .. k /\ k <= Kv!Max(1 .. k)
      BY <1>1, <2>1, Greatest
    <3>. QED
      BY <1>1, <3>1
  <2>3. (1 .. k) \ {k} = 1 .. k - 1
    BY <1>1
  <2>4. iter[1 .. k] = Kv!ApplyOp(iter[1 .. k - 1], ops[k])
    BY <1>3, <2>1, <2>2, <2>3 DEF FoldBody
  <2>5. k \in 0 .. n /\ k - 1 \in 0 .. n
    BY <1>1
  <2>. QED
    BY <2>4, <2>5
<1>6. f[n] = Kv!ApplyOps(rows, ops)
  BY <1>1, <1>2
<1> HIDE DEF f
<1>7. Steps(f, rows, ops)
  BY <1>4, <1>5 DEF Steps, n
<1>. QED
  BY <1>6, <1>7 DEF n

\* Applying operations one after the other is applying them as a batch.
LEMMA StepsApply ==
    ASSUME NEW rows, NEW S, NEW ops \in Seq(S), NEW f, Steps(f, rows, ops)
    PROVE  f[Len(ops)] = Kv!ApplyOps(rows, ops)
<1>1. PICK g : Steps(g, rows, ops) /\ g[Len(ops)] = Kv!ApplyOps(rows, ops)
  BY FoldSteps
<1>2. Len(ops) \in Nat
  OBVIOUS
<1> DEFINE Good == {k \in Nat : k <= Len(ops) => f[k] = g[k]}
<1>3. 0 \in Good
  BY <1>1 DEF Steps
<1>4. ASSUME NEW k \in Nat, k < Len(ops), k \in Good PROVE k + 1 \in Good
  <2>1. k + 1 \in 1 .. Len(ops) /\ (k + 1) - 1 = k /\ k + 1 \in Nat
    BY <1>2, <1>4
  <2>2. f[k] = g[k]
    BY <1>2, <1>4
  <2>3. f[k + 1] = g[k + 1]
    BY <1>1, <2>1, <2>2 DEF Steps
  <2>. QED
    BY <2>1, <2>3
<1>5. Good \in SUBSET Nat
  OBVIOUS
<1>6. 0 .. Len(ops) \subseteq Good
  <2> HIDE DEF Good
  <2>. QED
    BY <1>2, <1>3, <1>4, <1>5, Induct
<1>7. f[Len(ops)] = g[Len(ops)]
  <2>1. Len(ops) \in Good
    BY <1>2, <1>6
  <2>. QED
    BY <1>2, <2>1
<1>. QED
  BY <1>1, <1>7

-----------------------------------------------------------------------------
(* LMDB keeps the families apart by their tags.                            *)

\* The routing table knows exactly the families of the schema.
LEMMA Families == DOMAIN Lmdb!RouteTable = ColumnFamily
  BY DEF Lmdb!RouteTable, ColumnFamily

LEMMA Routes ==
    ASSUME NEW cf \in ColumnFamily
    PROVE Lmdb!Tag(cf) \in Seq(Nat)
<1>1. Lmdb!Tag(cf) \in {<<>>, <<1>>, <<2>>, <<3>>, <<4>>, <<5>>, <<6>>}
  BY DEF Lmdb!RouteTable, Lmdb!Tag, ColumnFamily
<1>2. <<>> \in Seq(Nat) /\ \A t \in Nat : <<t>> \in Seq(Nat)
  OBVIOUS
<1>3. {<<1>>, <<2>>, <<3>>, <<4>>, <<5>>, <<6>>} \subseteq Seq(Nat)
  BY <1>2, 1 \in Nat, 2 \in Nat, 3 \in Nat, 4 \in Nat, 5 \in Nat, 6 \in Nat, Zenon
<1>. QED
  BY <1>1, <1>2, <1>3, Zenon

\* A stored key begins with its tag, and taking the tag off gives the key back.
LEMMA TagThere ==
    ASSUME NEW t \in Seq(Nat), NEW k \in Seq(Nat)
    PROVE /\ Lmdb!StartsWith(Lmdb!encode_storage_key(t, k), t)
          /\ Lmdb!decode_user_key(t, Lmdb!encode_storage_key(t, k)) = k
<1>1. t \o k \in Seq(Nat) /\ Len(t \o k) = Len(t) + Len(k)
  OBVIOUS
<1>2. SubSeq(t \o k, 1, Len(t)) = SubSeq(t, 1, Len(t))
  OBVIOUS
<1>3. SubSeq(t \o k, Len(t) + 1, Len(t) + Len(k)) = k
  <2> DEFINE s == SubSeq(t \o k, Len(t) + 1, Len(t) + Len(k))
  <2>1. s \in Seq(Nat) /\ Len(s) = Len(k)
    BY <1>1
  <2>2. \A i \in 1 .. Len(k) : s[i] = k[i]
    BY <1>1
  <2>. QED
    BY <2>1, <2>2
<1>. QED
  BY <1>1, <1>2, <1>3 DEF Lmdb!StartsWith, Lmdb!IsPrefix, Lmdb!encode_storage_key, Lmdb!decode_user_key

\* A stored key is its tag and the key that decode_user_key finds.
LEMMA TagBack ==
    ASSUME NEW t \in Seq(Nat), NEW k \in Seq(Nat), Lmdb!StartsWith(k, t)
    PROVE /\ Lmdb!decode_user_key(t, k) \in Seq(Nat)
          /\ Lmdb!encode_storage_key(t, Lmdb!decode_user_key(t, k)) = k
<1>1. Len(t) <= Len(k) /\ SubSeq(t, 1, Len(t)) = SubSeq(k, 1, Len(t))
  BY DEF Lmdb!StartsWith, Lmdb!IsPrefix
<1>2. \A i \in 1 .. Len(t) : t[i] = k[i]
  <2>. SUFFICES ASSUME NEW i \in 1 .. Len(t) PROVE t[i] = k[i]
    OBVIOUS
  <2>1. SubSeq(t, 1, Len(t))[i] = t[i] /\ SubSeq(k, 1, Len(t))[i] = k[i]
    BY <1>1
  <2>. QED
  BY <1>1, <2>1
<1>3. PICK u \in Seq(Nat) : /\ u = SubSeq(k, Len(t) + 1, Len(k))
                            /\ Len(u) = Len(k) - Len(t)
                            /\ \A i \in 1 .. Len(u) : u[i] = k[Len(t) + i]
  <2> DEFINE v == SubSeq(k, Len(t) + 1, Len(k))
  <2>1. v \in Seq(Nat) /\ Len(v) = Len(k) - Len(t) /\ \A i \in 1 .. Len(v) : v[i] = k[Len(t) + i]
    BY <1>1
  <2>. QED
    BY <2>1, Zenon
<1>4. t \o u \in Seq(Nat) /\ Len(t \o u) = Len(k)
  BY <1>1, <1>3
<1>5. ASSUME NEW i \in 1 .. Len(k) PROVE (t \o u)[i] = k[i]
  <2>1. CASE i <= Len(t)
    BY <1>2, <1>3, <2>1
  <2>2. CASE i > Len(t)
    <3>1. (t \o u)[i] = u[i - Len(t)] /\ i - Len(t) \in 1 .. Len(u)
      BY <1>3, <2>2
    <3>2. u[i - Len(t)] = k[Len(t) + (i - Len(t))] /\ Len(t) + (i - Len(t)) = i
      BY <1>3, <3>1
    <3>. QED
      BY <3>1, <3>2
  <2>3. i <= Len(t) \/ i > Len(t)
    OBVIOUS
  <2>. QED
    BY <2>1, <2>2, <2>3
<1>6. t \o u = k
  BY <1>4, <1>5, SeqT!SeqEqual
<1>. QED
  BY <1>3, <1>6 DEF Lmdb!encode_storage_key, Lmdb!decode_user_key

\* Families of one database have tags of one byte, and no two the same.
LEMMA Apart ==
    ASSUME NEW cf \in ColumnFamily, NEW cf2 \in ColumnFamily, Lmdb!Database(cf) = Lmdb!Database(cf2),
    cf # cf2
    PROVE Len(Lmdb!Tag(cf)) = 1 /\ Len(Lmdb!Tag(cf2)) = 1 /\ Lmdb!Tag(cf)[1] # Lmdb!Tag(cf2)[1]
  BY DEF Lmdb!RouteTable, ColumnFamily, Lmdb!Database, Lmdb!Tag

\* A stored key belongs to one family.
LEMMA OneFamily ==
    ASSUME NEW cf \in ColumnFamily, NEW cf2 \in ColumnFamily, NEW k \in Seq(Nat),
           Lmdb!Database(cf) = Lmdb!Database(cf2),
           Lmdb!StartsWith(k, Lmdb!Tag(cf)), Lmdb!StartsWith(k, Lmdb!Tag(cf2))
    PROVE  cf = cf2
<1>. SUFFICES ASSUME cf # cf2 PROVE FALSE
  OBVIOUS
<1>1. Len(Lmdb!Tag(cf)) = 1 /\ Len(Lmdb!Tag(cf2)) = 1 /\ Lmdb!Tag(cf)[1] # Lmdb!Tag(cf2)[1]
  BY Apart
<1>2. Lmdb!Tag(cf) \in Seq(Nat) /\ Lmdb!Tag(cf2) \in Seq(Nat)
  BY Routes
<1>3. SubSeq(Lmdb!Tag(cf), 1, 1) = SubSeq(Lmdb!Tag(cf2), 1, 1)
  BY <1>1 DEF Lmdb!StartsWith, Lmdb!IsPrefix
<1>4. SubSeq(Lmdb!Tag(cf), 1, 1)[1] = Lmdb!Tag(cf)[1] /\ SubSeq(Lmdb!Tag(cf2), 1, 1)[1] = Lmdb!Tag(cf2)[1]
  BY <1>1, <1>2
<1>. QED
  BY <1>1, <1>3, <1>4

IsRow(r) == r = <<r[1], r[2], r[3]>> /\ r[2] \in Seq(Nat)

\* LMDB keeps row r for family cf; what it stands for there.
Stores(cf, r) == r[1] = Lmdb!Database(cf) /\ Lmdb!StartsWith(r[2], Lmdb!Tag(cf))
RowOf(cf, r) == <<cf, Lmdb!decode_user_key(Lmdb!Tag(cf), r[2]), r[3]>>

\* The rows of the families, and the rows after an operation.
LEMMA InContents ==
    ASSUME NEW rows, NEW x
    PROVE  x \in Lmdb!ContentsOf(rows) <=>
               \E cf \in ColumnFamily : \E r \in rows : Stores(cf, r) /\ x = RowOf(cf, r)
  BY Families DEF Lmdb!ContentsOf, Stores, RowOf

LEMMA InApplied ==
    ASSUME NEW rows, NEW op, NEW x
    PROVE  x \in Kv!ApplyOp(rows, op) <=>
               \/ x \in rows /\ <<x[1], x[2]>> # <<op.cf, op.key>>
               \/ op.op = "put" /\ x = <<op.cf, op.key, op.value>>
  BY Zenon DEF Kv!ApplyOp

LEMMA RoutedFields ==
    ASSUME NEW op \in WriteOp
    PROVE  LET o == Lmdb!Routed(op)
           IN  /\ o.op = op.op
               /\ o.cf = Lmdb!Database(op.cf)
               /\ o.key = Lmdb!encode_storage_key(Lmdb!Tag(op.cf), op.key)
               /\ op.op = "put" => o.value = op.value
  BY StorageAssumption DEF Lmdb!Routed

\* An operation reaches the stored row of its own family and key, and no other.
LEMMA Hit ==
    ASSUME NEW cf \in ColumnFamily, NEW r, IsRow(r), Stores(cf, r),
           NEW op \in WriteOp, op.cf \in ColumnFamily
    PROVE  <<r[1], r[2]>> = <<Lmdb!Database(op.cf), Lmdb!encode_storage_key(Lmdb!Tag(op.cf), op.key)>>
               <=> <<RowOf(cf, r)[1], RowOf(cf, r)[2]>> = <<op.cf, op.key>>
<1>1. op.key \in Seq(Nat) /\ r[2] \in Seq(Nat)
  BY StorageAssumption DEF IsRow
<1>2. Lmdb!Tag(cf) \in Seq(Nat) /\ Lmdb!Tag(op.cf) \in Seq(Nat)
  BY Routes
<1>3. ASSUME r[1] = Lmdb!Database(op.cf), r[2] = Lmdb!encode_storage_key(Lmdb!Tag(op.cf), op.key)
      PROVE  cf = op.cf /\ Lmdb!decode_user_key(Lmdb!Tag(cf), r[2]) = op.key
  <2>1. /\ Lmdb!StartsWith(r[2], Lmdb!Tag(op.cf))
        /\ Lmdb!decode_user_key(Lmdb!Tag(op.cf), r[2]) = op.key
    BY <1>1, <1>2, <1>3, TagThere
  <2>2. cf = op.cf
    BY <1>1, <1>3, <2>1, OneFamily DEF Stores
  <2>. QED
    BY <2>1, <2>2
<1>4. ASSUME cf = op.cf, Lmdb!decode_user_key(Lmdb!Tag(cf), r[2]) = op.key
      PROVE  /\ r[1] = Lmdb!Database(op.cf)
             /\ r[2] = Lmdb!encode_storage_key(Lmdb!Tag(op.cf), op.key)
  BY <1>1, <1>2, <1>4, TagBack DEF Stores
<1>. QED
  BY <1>3, <1>4 DEF RowOf

\* LMDB's operation on the stored rows is the operation on the families.
LEMMA ApplyRouted ==
    ASSUME NEW rows, \A r \in rows : IsRow(r), NEW op \in WriteOp, ~Lmdb!Unknown(op)
    PROVE  Lmdb!ContentsOf(Kv!ApplyOp(rows, Lmdb!Routed(op))) =
               Kv!ApplyOp(Lmdb!ContentsOf(rows), op)
<1>1. op.cf \in ColumnFamily
  BY Families DEF Lmdb!Unknown
<1>2. PICK o : /\ o = Lmdb!Routed(op)
               /\ o.op = op.op
               /\ o.cf = Lmdb!Database(op.cf)
               /\ o.key = Lmdb!encode_storage_key(Lmdb!Tag(op.cf), op.key)
               /\ op.op = "put" => o.value = op.value
  BY RoutedFields
<1>3. PICK new : new = <<o.cf, o.key, o.value>>
  OBVIOUS
<1>4. /\ IsRow(new)
      /\ Stores(op.cf, new)
      /\ op.op = "put" => RowOf(op.cf, new) = <<op.cf, op.key, op.value>>
  <2>1. Lmdb!Tag(op.cf) \in Seq(Nat) /\ op.key \in Seq(Nat)
    BY <1>1, Routes, StorageAssumption
  <2>2. /\ o.key \in Seq(Nat)
        /\ Lmdb!StartsWith(o.key, Lmdb!Tag(op.cf))
        /\ Lmdb!decode_user_key(Lmdb!Tag(op.cf), o.key) = op.key
    BY <1>2, <2>1, TagThere DEF Lmdb!encode_storage_key
  <2>. QED
    BY <1>2, <1>3, <2>2 DEF IsRow, Stores, RowOf
<1>5. ASSUME NEW x, x \in Lmdb!ContentsOf(Kv!ApplyOp(rows, o))
      PROVE  x \in Kv!ApplyOp(Lmdb!ContentsOf(rows), op)
  <2>1. PICK cf \in ColumnFamily, r \in Kv!ApplyOp(rows, o) : Stores(cf, r) /\ x = RowOf(cf, r)
    BY <1>5, InContents
  <2>2. \/ r \in rows /\ <<r[1], r[2]>> # <<o.cf, o.key>>
        \/ o.op = "put" /\ r = new
    BY <1>3, <2>1, InApplied
  <2>3. CASE r \in rows /\ <<r[1], r[2]>> # <<o.cf, o.key>>
    <3>1. x \in Lmdb!ContentsOf(rows)
      BY <2>1, <2>3, InContents
    <3>2. <<x[1], x[2]>> # <<op.cf, op.key>>
      BY <1>1, <1>2, <2>1, <2>3, Hit
    <3>. QED
      BY <3>1, <3>2, InApplied
  <2>4. CASE o.op = "put" /\ r = new
    <3>1. cf = op.cf
      BY <1>1, <1>2, <1>3, <1>4, <2>1, <2>4, Hit DEF RowOf
    <3>. QED
      BY <1>2, <1>4, <2>1, <2>4, <3>1, InApplied
  <2>. QED
    BY <2>2, <2>3, <2>4
<1>6. ASSUME NEW x, x \in Kv!ApplyOp(Lmdb!ContentsOf(rows), op)
      PROVE  x \in Lmdb!ContentsOf(Kv!ApplyOp(rows, o))
  <2>1. \/ x \in Lmdb!ContentsOf(rows) /\ <<x[1], x[2]>> # <<op.cf, op.key>>
        \/ op.op = "put" /\ x = <<op.cf, op.key, op.value>>
    BY <1>6, InApplied
  <2>2. CASE x \in Lmdb!ContentsOf(rows) /\ <<x[1], x[2]>> # <<op.cf, op.key>>
    <3>1. PICK cf \in ColumnFamily, r \in rows : Stores(cf, r) /\ x = RowOf(cf, r)
      BY <2>2, InContents
    <3>2. <<r[1], r[2]>> # <<o.cf, o.key>>
      BY <1>1, <1>2, <2>2, <3>1, Hit
    <3>3. r \in Kv!ApplyOp(rows, o)
      BY <3>1, <3>2, InApplied
    <3>. QED
      BY <3>1, <3>3, InContents
  <2>3. CASE op.op = "put" /\ x = <<op.cf, op.key, op.value>>
    <3>1. new \in Kv!ApplyOp(rows, o)
      BY <1>2, <1>3, <2>3, InApplied
    <3>. QED
      BY <1>1, <1>4, <2>3, <3>1, InContents
  <2>. QED
    BY <2>1, <2>2, <2>3
<1>7. Lmdb!ContentsOf(Kv!ApplyOp(rows, o)) = Kv!ApplyOp(Lmdb!ContentsOf(rows), op)
  BY <1>5, <1>6, Zenon
<1>. QED
  BY <1>2, <1>7, Zenon

-----------------------------------------------------------------------------
(* RocksDB's log is applied write by write.                                *)

ReplayBody(rows, log, f, n) == IF n = 0 THEN rows ELSE Rocks!ApplyOps(f[n - 1], log[n])

LEMMA ReplaySolution ==
    ASSUME NEW rows, NEW log, NEW n \in Nat
    PROVE  \E f : f = [m \in 0 .. n |-> ReplayBody(rows, log, f, m)]
<1> DEFINE Solves(f, k) == f = [m \in 0 .. k |-> ReplayBody(rows, log, f, m)]
           Good == {k \in Nat : \E f : Solves(f, k)}
<1>1. 0 \in Good
  <2> DEFINE g == [m \in 0 .. 0 |-> rows]
  <2>1. \A m \in 0 .. 0 : m = 0
    OBVIOUS
  <2>2. Solves(g, 0)
    BY <2>1 DEF ReplayBody
  <2> HIDE DEF Solves, g
  <2>. QED
    BY <2>2, 0 \in Nat, Zenon
<1>2. ASSUME NEW k \in Nat, k < n, k \in Good PROVE k + 1 \in Good
  <2>1. PICK f : Solves(f, k)
    BY <1>2
  <2> DEFINE g == [m \in 0 .. k + 1 |-> ReplayBody(rows, log, f, m)]
  <2>2. \A m \in 0 .. k : g[m] = f[m]
    <3>1. \A m \in 0 .. k : m \in 0 .. k + 1
      OBVIOUS
    <3>2. \A m \in 0 .. k : f[m] = ReplayBody(rows, log, f, m)
      BY <2>1
    <3>. QED
      BY <3>1, <3>2
  <2>3. \A m \in 0 .. k + 1 : m # 0 => m - 1 \in 0 .. k
    OBVIOUS
  <2>4. g = [m \in 0 .. k + 1 |-> ReplayBody(rows, log, f, m)]
    OBVIOUS
  <2> HIDE DEF g
  <2>5. \A m \in 0 .. k + 1 : ReplayBody(rows, log, f, m) = ReplayBody(rows, log, g, m)
    BY <2>2, <2>3 DEF ReplayBody
  <2>6. Solves(g, k + 1)
    BY <2>4, <2>5
  <2>7. k + 1 \in Nat
    OBVIOUS
  <2> HIDE DEF Solves
  <2>. QED
    BY <2>6, <2>7, Zenon
<1>3. Good \in SUBSET Nat
  OBVIOUS
<1>4. n \in 0 .. n
  OBVIOUS
<1>5. n \in Good
  <2> HIDE DEF Good
  <2>. QED
    BY <1>1, <1>2, <1>3, <1>4, Induct
<1>. QED
  BY <1>5, Zenon

\* The contents after each write of a log.
LEMMA ReplaySteps ==
    ASSUME NEW rows, NEW log \in Seq(Seq(WriteOp))
    PROVE  /\ Rocks!Replay(rows, log)[0] = rows
           /\ \A n \in 1 .. Len(log) :
                  Rocks!Replay(rows, log)[n] = Kv!ApplyOps(Rocks!Replay(rows, log)[n - 1], log[n])
<1>1. Len(log) \in Nat
  OBVIOUS
<1>2. PICK g : g = CHOOSE f : f = [n \in 0 .. Len(log) |-> ReplayBody(rows, log, f, n)]
  OBVIOUS
<1>3. Rocks!Replay(rows, log) = g
  BY <1>2, Zenon DEF Rocks!Replay, ReplayBody
<1>4. g = [n \in 0 .. Len(log) |-> ReplayBody(rows, log, g, n)]
  <2>1. \E f : f = [n \in 0 .. Len(log) |-> ReplayBody(rows, log, f, n)]
    BY <1>1, ReplaySolution, Zenon
  <2>. QED
    BY <1>2, <2>1, Zenon
<1>5. g[0] = rows
  BY <1>1, <1>4 DEF ReplayBody
<1>6. ASSUME NEW n \in 1 .. Len(log) PROVE g[n] = Kv!ApplyOps(g[n - 1], log[n])
  <2>1. n \in 0 .. Len(log) /\ n # 0
    OBVIOUS
  <2>2. g[n] = Rocks!ApplyOps(g[n - 1], log[n])
    BY <1>4, <2>1 DEF ReplayBody
  <2>. QED
    BY <2>2, SameOps
<1>. QED
  BY <1>3, <1>5, <1>6

\* The contents after some writes depend on these writes only.
LEMMA ReplayPrefix ==
    ASSUME NEW rows, NEW log \in Seq(Seq(WriteOp)), NEW log2 \in Seq(Seq(WriteOp)),
           NEW n \in Nat, n <= Len(log), n <= Len(log2),
           \A i \in 1 .. n : log[i] = log2[i]
    PROVE  \A m \in 0 .. n : Rocks!Replay(rows, log)[m] = Rocks!Replay(rows, log2)[m]
<1>1. PICK f : f = Rocks!Replay(rows, log)
  OBVIOUS
<1>2. PICK g : g = Rocks!Replay(rows, log2)
  OBVIOUS
<1>3. /\ f[0] = rows
      /\ \A i \in 1 .. Len(log) : f[i] = Kv!ApplyOps(f[i - 1], log[i])
  BY <1>1, ReplaySteps
<1>4. /\ g[0] = rows
      /\ \A i \in 1 .. Len(log2) : g[i] = Kv!ApplyOps(g[i - 1], log2[i])
  BY <1>2, ReplaySteps
<1> DEFINE Good == {k \in Nat : f[k] = g[k]}
<1>5. 0 \in Good
  BY <1>3, <1>4
<1>6. ASSUME NEW k \in Nat, k < n, k \in Good PROVE k + 1 \in Good
  <2>1. k + 1 \in 1 .. n /\ k + 1 \in 1 .. Len(log) /\ k + 1 \in 1 .. Len(log2) /\ (k + 1) - 1 = k
    BY <1>6
  <2>2. f[k + 1] = g[k + 1]
    BY <1>3, <1>4, <1>6, <2>1
  <2>. QED
    BY <2>2
<1>7. Good \in SUBSET Nat
  OBVIOUS
<1>8. 0 .. n \subseteq Good
  <2> HIDE DEF Good
  <2>. QED
    BY <1>5, <1>6, <1>7, Induct
<1>. QED
  BY <1>1, <1>2, <1>8

-----------------------------------------------------------------------------
Unique(rows) == \A r, s \in rows : <<r[1], r[2]>> = <<s[1], s[2]>> => r = s

\* Operations, batches and logs keep one row for a key.
LEMMA UniqueOp ==
    ASSUME NEW rows, Unique(rows), NEW op
    PROVE  Unique(Kv!ApplyOp(rows, op))
<1>. SUFFICES ASSUME NEW r \in Kv!ApplyOp(rows, op), NEW s \in Kv!ApplyOp(rows, op),
                     <<r[1], r[2]>> = <<s[1], s[2]>>
              PROVE  r = s
  BY DEF Unique
<1>. QED
  BY InApplied DEF Unique

LEMMA UniqueOps ==
    ASSUME NEW rows, Unique(rows), NEW S, NEW ops \in Seq(S)
    PROVE  Unique(Kv!ApplyOps(rows, ops))
<1>1. PICK f : Steps(f, rows, ops) /\ f[Len(ops)] = Kv!ApplyOps(rows, ops)
  BY FoldSteps
<1>2. PICK n \in Nat : n = Len(ops)
  OBVIOUS
<1> DEFINE Good == {k \in Nat : Unique(f[k])}
<1>3. 0 \in Good
  BY <1>1 DEF Steps
<1>4. ASSUME NEW k \in Nat, k < n, k \in Good PROVE k + 1 \in Good
  <2>1. k + 1 \in 1 .. Len(ops) /\ (k + 1) - 1 = k
    BY <1>2, <1>4
  <2>2. f[k + 1] = Kv!ApplyOp(f[k], ops[k + 1])
    BY <1>1, <2>1 DEF Steps
  <2>. QED
    BY <1>4, <2>2, UniqueOp
<1>5. Good \in SUBSET Nat
  OBVIOUS
<1>6. n \in 0 .. n
  OBVIOUS
<1>7. n \in Good
  <2> HIDE DEF Good
  <2>. QED
    BY <1>3, <1>4, <1>5, <1>6, Induct
<1>. QED
  BY <1>1, <1>2, <1>7

LEMMA UniqueReplay ==
    ASSUME NEW rows, Unique(rows), NEW log \in Seq(Seq(WriteOp))
    PROVE  \A n \in 0 .. Len(log) : Unique(Rocks!Replay(rows, log)[n])
<1>1. PICK f : f = Rocks!Replay(rows, log)
  OBVIOUS
<1>2. /\ f[0] = rows
      /\ \A i \in 1 .. Len(log) : f[i] = Kv!ApplyOps(f[i - 1], log[i])
  BY <1>1, ReplaySteps
<1>3. PICK n \in Nat : n = Len(log)
  OBVIOUS
<1> DEFINE Good == {k \in Nat : Unique(f[k])}
<1>4. 0 \in Good
  BY <1>2
<1>5. ASSUME NEW k \in Nat, k < n, k \in Good PROVE k + 1 \in Good
  <2>1. k + 1 \in 1 .. Len(log) /\ (k + 1) - 1 = k /\ log[k + 1] \in Seq(WriteOp)
    BY <1>3, <1>5
  <2>2. f[k + 1] = Kv!ApplyOps(f[k], log[k + 1])
    BY <1>2, <2>1
  <2>. QED
    BY <1>5, <2>1, <2>2, UniqueOps
<1>6. Good \in SUBSET Nat
  OBVIOUS
<1>7. 0 .. n \subseteq Good
  <2> HIDE DEF Good
  <2>. QED
    BY <1>4, <1>5, <1>6, Induct
<1>. QED
  BY <1>1, <1>3, <1>7

-----------------------------------------------------------------------------

\* Writing the same rows after some were dropped.
LEMMA AgedOp ==
    ASSUME NEW s, NEW t, Kv!Aged(s, t), NEW op
    PROVE  Kv!Aged(Kv!ApplyOp(s, op), Kv!ApplyOp(t, op))
<1>1. ASSUME NEW x \in Kv!ApplyOp(t, op) PROVE x \in Kv!ApplyOp(s, op)
  BY <1>1, InApplied DEF Kv!Aged
<1>2. ASSUME NEW x \in Kv!ApplyOp(s, op), x \notin Kv!ApplyOp(t, op)
      PROVE  x \in s \ t
  BY <1>2, InApplied
<1>. QED
  BY <1>1, <1>2 DEF Kv!Aged

LEMMA AgedOps ==
    ASSUME NEW s, NEW t, Kv!Aged(s, t), NEW S, NEW ops \in Seq(S)
    PROVE  Kv!Aged(Kv!ApplyOps(s, ops), Kv!ApplyOps(t, ops))
<1>1. PICK f : Steps(f, s, ops) /\ f[Len(ops)] = Kv!ApplyOps(s, ops)
  BY FoldSteps
<1>2. PICK g : Steps(g, t, ops) /\ g[Len(ops)] = Kv!ApplyOps(t, ops)
  BY FoldSteps
<1>3. PICK n \in Nat : n = Len(ops)
  OBVIOUS
<1> DEFINE Good == {k \in Nat : Kv!Aged(f[k], g[k])}
<1>4. 0 \in Good
  BY <1>1, <1>2 DEF Steps
<1>5. ASSUME NEW k \in Nat, k < n, k \in Good PROVE k + 1 \in Good
  <2>1. k + 1 \in 1 .. Len(ops) /\ (k + 1) - 1 = k
    BY <1>3, <1>5
  <2>2. f[k + 1] = Kv!ApplyOp(f[k], ops[k + 1]) /\ g[k + 1] = Kv!ApplyOp(g[k], ops[k + 1])
    BY <1>1, <1>2, <2>1 DEF Steps
  <2>. QED
    BY <1>5, <2>2, AgedOp
<1>6. Good \in SUBSET Nat
  OBVIOUS
<1>7. n \in 0 .. n
  OBVIOUS
<1>8. n \in Good
  <2> HIDE DEF Good
  <2>. QED
    BY <1>4, <1>5, <1>6, <1>7, Induct
<1>. QED
  BY <1>1, <1>2, <1>3, <1>8

LEMMA AgedReplay ==
    ASSUME NEW s, NEW t, Kv!Aged(s, t), NEW log \in Seq(Seq(WriteOp))
    PROVE  \A n \in 0 .. Len(log) :
               Kv!Aged(Rocks!Replay(s, log)[n], Rocks!Replay(t, log)[n])
<1>1. PICK f : f = Rocks!Replay(s, log)
  OBVIOUS
<1>2. PICK g : g = Rocks!Replay(t, log)
  OBVIOUS
<1>3. /\ f[0] = s
      /\ \A i \in 1 .. Len(log) : f[i] = Kv!ApplyOps(f[i - 1], log[i])
  BY <1>1, ReplaySteps
<1>4. /\ g[0] = t
      /\ \A i \in 1 .. Len(log) : g[i] = Kv!ApplyOps(g[i - 1], log[i])
  BY <1>2, ReplaySteps
<1>5. PICK n \in Nat : n = Len(log)
  OBVIOUS
<1> DEFINE Good == {k \in Nat : Kv!Aged(f[k], g[k])}
<1>6. 0 \in Good
  BY <1>3, <1>4
<1>7. ASSUME NEW k \in Nat, k < n, k \in Good PROVE k + 1 \in Good
  <2>1. k + 1 \in 1 .. Len(log) /\ (k + 1) - 1 = k /\ log[k + 1] \in Seq(WriteOp)
    BY <1>5, <1>7
  <2>2. /\ f[k + 1] = Kv!ApplyOps(f[k], log[k + 1])
        /\ g[k + 1] = Kv!ApplyOps(g[k], log[k + 1])
    BY <1>3, <1>4, <2>1
  <2>. QED
    BY <1>7, <2>1, <2>2, AgedOps
<1>8. Good \in SUBSET Nat
  OBVIOUS
<1>9. 0 .. n \subseteq Good
  <2> HIDE DEF Good
  <2>. QED
    BY <1>6, <1>7, <1>8, Induct
<1>. QED
  BY <1>1, <1>2, <1>5, <1>9

-----------------------------------------------------------------------------
(* The inductive invariant.                                                *)

Rows(rows) == Unique(rows) /\ \A r \in rows : IsRow(r)

LmdbCall == {[kind |-> r.kind, ops |-> r.ops, done |-> n] : r \in Request, n \in Nat}

\* The transaction of thread p holds what its first operations make of the
\* committed rows.
Writing(p) ==
    /\ call[p] # None
    /\ call[p].ops # <<>>
    /\ call[p].done <= Len(call[p].ops)
    /\ \A i \in 1 .. call[p].done : call[p].ops[i].cf \in ColumnFamily
    /\ \E f : /\ Steps(f, Lmdb!ContentsOf(env), call[p].ops)
              /\ f[call[p].done] = Lmdb!ContentsOf(wtxn)

LmdbInv ==
    /\ sst = {} /\ wal = <<>> /\ synced = 0
    /\ Rows(env) /\ Rows(wtxn)
    /\ call \in [Thread -> LmdbCall \cup {None}]
    /\ writer \in Thread \cup {None}
    /\ writer = None => wtxn = {}
    /\ writer # None => Writing(writer)
    /\ \A p \in Thread : call[p] # None /\ p # writer => call[p].done = 0

RocksInv ==
    /\ env = {} /\ wtxn = {} /\ writer = None
    /\ Unique(sst)
    /\ wal \in Seq(Seq(WriteOp)) /\ Len(wal) <= MaxLog
    /\ synced \in 0 .. Len(wal)
    /\ call \in [Thread -> Request \cup {None}]

StorageInv ==
    /\ engine \in {"Lmdb", "RocksDb"}
    /\ engine = "Lmdb" => LmdbInv
    /\ engine = "RocksDb" => RocksInv

\* Requests and the calls made of them.
LEMMA RequestForm ==
    ASSUME NEW r \in Request
    PROVE  /\ r = [kind |-> r.kind, ops |-> r.ops]
           /\ r.kind \in {"single", "batch"}
           /\ r.ops \in Seq(WriteOp)
           /\ r.kind = "single" => Len(r.ops) = 1
           /\ r # None
  BY StorageAssumption

LEMMA CallForm ==
    ASSUME NEW c \in LmdbCall
    PROVE  /\ [kind |-> c.kind, ops |-> c.ops] \in Request
           /\ c.kind \in {"single", "batch"}
           /\ c.ops \in Seq(WriteOp)
           /\ c.done \in Nat
           /\ c.kind = "single" => Len(c.ops) = 1
           /\ c # None
           /\ c = [kind |-> c.kind, ops |-> c.ops, done |-> c.done]
<1>1. PICK r \in Request, n \in Nat : c = [kind |-> r.kind, ops |-> r.ops, done |-> n]
  BY DEF LmdbCall
<1>2. /\ r.kind \in {"single", "batch"} /\ r.ops \in Seq(WriteOp)
      /\ r.kind = "single" => Len(r.ops) = 1
      /\ r = [kind |-> r.kind, ops |-> r.ops]
  BY RequestForm
<1>3. c \in [kind : {"single", "batch"}, ops : Seq(WriteOp), done : Nat]
  BY <1>1, <1>2
<1>4. c # None
  BY <1>3, StorageAssumption
<1>. QED
  BY <1>1, <1>2, <1>4

LEMMA NextCall ==
    ASSUME NEW c \in LmdbCall
    PROVE  /\ [c EXCEPT !.done = @ + 1] \in LmdbCall
           /\ [c EXCEPT !.done = @ + 1].kind = c.kind
           /\ [c EXCEPT !.done = @ + 1].ops = c.ops
           /\ [c EXCEPT !.done = @ + 1].done = c.done + 1
<1>1. PICK r \in Request, n \in Nat : c = [kind |-> r.kind, ops |-> r.ops, done |-> n]
  BY DEF LmdbCall
<1>2. [c EXCEPT !.done = @ + 1] = [kind |-> r.kind, ops |-> r.ops, done |-> n + 1]
  BY <1>1
<1>3. PICK m \in Nat : m = n + 1
  OBVIOUS
<1>4. [kind |-> r.kind, ops |-> r.ops, done |-> m] \in LmdbCall
  BY DEF LmdbCall
<1>. QED
  BY <1>1, <1>2, <1>3, <1>4

LEMMA RowsRouted ==
    ASSUME NEW rows, Rows(rows), NEW op \in WriteOp, op.cf \in ColumnFamily
    PROVE  Rows(Kv!ApplyOp(rows, Lmdb!Routed(op)))
<1>1. Unique(Kv!ApplyOp(rows, Lmdb!Routed(op)))
  BY UniqueOp DEF Rows
<1>2. PICK o : /\ o = Lmdb!Routed(op)
               /\ o.key = Lmdb!encode_storage_key(Lmdb!Tag(op.cf), op.key)
  BY RoutedFields
<1>3. o.key \in Seq(Nat)
  <2>1. Lmdb!Tag(op.cf) \in Seq(Nat) /\ op.key \in Seq(Nat)
    BY Routes, StorageAssumption
  <2>. QED
    BY <1>2, <2>1 DEF Lmdb!encode_storage_key
<1>4. ASSUME NEW r \in Kv!ApplyOp(rows, o) PROVE IsRow(r)
  <2>1. r \in rows \/ r = <<o.cf, o.key, o.value>>
    BY InApplied
  <2>. QED
    BY <1>3, <2>1 DEF Rows, IsRow
<1>. QED
  BY <1>1, <1>2, <1>4 DEF Rows

LEMMA StorageInit == ASSUME Init PROVE StorageInv
<1>1. Rows({}) /\ Unique({})
  BY DEF Rows, Unique
<1>2. call \in [Thread -> LmdbCall \cup {None}] /\ call \in [Thread -> Request \cup {None}]
  BY DEF Init, Lmdb!Init
<1>3. \A p \in Thread : call[p] = None
  BY DEF Init, Lmdb!Init
<1>4. MaxLog \in Nat /\ <<>> \in Seq(Seq(WriteOp)) /\ Len(<<>>) = 0
  BY StorageAssumption
<1>5. LmdbInv
  BY <1>1, <1>2, <1>3 DEF Init, Lmdb!Init, Rocks!Init, LmdbInv
<1>6. RocksInv
  BY <1>1, <1>2, <1>4 DEF Init, Lmdb!Init, Rocks!Init, RocksInv
<1>. QED
  BY <1>5, <1>6 DEF StorageInv, Init

LEMMA WritingKept ==
    ASSUME NEW p, Writing(p), call'[p] = call[p], env' = env, wtxn' = wtxn
    PROVE  Writing(p)'
  BY DEF Writing

LEMMA ReturnCalls ==
    ASSUME LmdbInv, NEW p \in Thread, NEW outcome, Lmdb!Return(p, outcome)
    PROVE  /\ call' \in [Thread -> LmdbCall \cup {None}]
           /\ call'[p] = None
           /\ \A q \in Thread : q # p => call'[q] = call[q]
  BY DEF LmdbInv, Lmdb!Return

\* A call that has no transaction returns.
LEMMA ReturnOutside ==
    ASSUME LmdbInv, UNCHANGED <<sst, wal, synced, env, writer, wtxn>>,
           NEW p \in Thread, NEW outcome, Lmdb!Return(p, outcome), p # writer
    PROVE  LmdbInv'
<1>1. /\ call' \in [Thread -> LmdbCall \cup {None}]
      /\ call'[p] = None
      /\ \A q \in Thread : q # p => call'[q] = call[q]
  BY ReturnCalls
<1>2. (writer # None => Writing(writer))'
  <2>. SUFFICES ASSUME NEW q, q = writer, writer' # None PROVE Writing(q)'
    OBVIOUS
  <2>. QED
    BY <1>1, WritingKept DEF LmdbInv
<1>3. (\A q \in Thread : call[q] # None /\ q # writer => call[q].done = 0)'
  BY <1>1 DEF LmdbInv
<1>. QED
  BY <1>1, <1>2, <1>3 DEF LmdbInv

\* The transaction ends, and env is what it was or what the transaction made.
LEMMA ReturnInside ==
    ASSUME LmdbInv, UNCHANGED <<sst, wal, synced>>, env' = env \/ env' = wtxn,
           NEW p \in Thread, NEW outcome, Lmdb!Return(p, outcome), writer = p,
           writer' = None, wtxn' = {}
    PROVE  LmdbInv'
<1>1. /\ call' \in [Thread -> LmdbCall \cup {None}]
      /\ call'[p] = None
      /\ \A q \in Thread : q # p => call'[q] = call[q]
  BY ReturnCalls
<1>2. (\A q \in Thread : call[q] # None /\ q # writer => call[q].done = 0)'
  BY <1>1 DEF LmdbInv
<1>3. Rows(env)' /\ Rows(wtxn)'
  BY DEF LmdbInv, Rows, Unique
<1>. QED
  BY <1>1, <1>2, <1>3 DEF LmdbInv

LEMMA InvokeInv ==
    ASSUME LmdbInv, UNCHANGED <<sst, wal, synced>>,
           NEW p \in Thread, NEW r \in Request, Lmdb!Invoke(p, r)
    PROVE  LmdbInv'
<1>1. PICK c : c = [kind |-> r.kind, ops |-> r.ops, done |-> 0]
  OBVIOUS
<1>2. c \in LmdbCall /\ c.done = 0
  BY <1>1, 0 \in Nat DEF LmdbCall
<1>3. /\ call' \in [Thread -> LmdbCall \cup {None}]
      /\ call'[p] = c
      /\ \A q \in Thread : q # p => call'[q] = call[q]
  BY <1>1, <1>2 DEF LmdbInv, Lmdb!Invoke
<1>4. UNCHANGED <<env, writer, wtxn>> /\ call[p] = None
  BY DEF Lmdb!Invoke, Lmdb!lmdb
<1>5. (writer # None => Writing(writer))'
  <2>. SUFFICES ASSUME NEW q, q = writer, writer' # None PROVE Writing(q)'
    BY <1>4
  <2>1. q # p /\ q \in Thread /\ Writing(q)
    BY <1>4 DEF LmdbInv, Writing
  <2>. QED
    BY <1>3, <1>4, <2>1, WritingKept
<1>6. (\A q \in Thread : call[q] # None /\ q # writer => call[q].done = 0)'
  BY <1>2, <1>3, <1>4 DEF LmdbInv
<1>. QED
  BY <1>3, <1>4, <1>5, <1>6 DEF LmdbInv

\* A transaction starts from the committed rows.
LEMMA WriteTxnInv ==
    ASSUME LmdbInv, UNCHANGED <<sst, wal, synced>>, NEW p \in Thread, Lmdb!WriteTxn(p)
    PROVE  LmdbInv'
<1>1. /\ call[p] # None /\ call[p].ops # <<>> /\ call[p].done = 0 /\ call[p] \in LmdbCall
      /\ writer = None /\ writer' = p /\ wtxn' = env
      /\ UNCHANGED <<env, call>>
  BY StorageAssumption DEF Lmdb!WriteTxn, Lmdb!CanBegin, LmdbInv
<1>2. PICK ops \in Seq(WriteOp) : ops = call[p].ops
  BY <1>1, CallForm
<1>3. PICK f : Steps(f, Lmdb!ContentsOf(env), ops)
  BY FoldSteps
<1>4. Writing(p)'
  <2>1. f[0] = Lmdb!ContentsOf(env)
    BY <1>3 DEF Steps
  <2>2. call'[p].done = 0 /\ 0 <= Len(ops) /\ call'[p].ops = ops /\ call'[p] # None
    BY <1>1, <1>2
  <2>3. \A i \in 1 .. 0 : call'[p].ops[i].cf \in ColumnFamily
    OBVIOUS
  <2>4. \E g : /\ Steps(g, Lmdb!ContentsOf(env'), call'[p].ops)
              /\ g[call'[p].done] = Lmdb!ContentsOf(wtxn')
    BY <1>1, <1>3, <2>1, <2>2
  <2>. QED
    BY <1>1, <1>2, <2>2, <2>3, <2>4 DEF Writing
<1>5. (\A q \in Thread : call[q] # None /\ q # writer => call[q].done = 0)'
  BY <1>1, StorageAssumption DEF LmdbInv
<1>6. p # None
  BY StorageAssumption
<1>7. Rows(env)' /\ Rows(wtxn)'
  BY <1>1 DEF LmdbInv
<1>. QED
  BY <1>1, <1>4, <1>5, <1>6, <1>7 DEF LmdbInv

\* It goes on with the next operation.
LEMMA WriteRowInv ==
    ASSUME LmdbInv, UNCHANGED <<sst, wal, synced>>, NEW p \in Thread, Lmdb!WriteRow(p)
    PROVE  LmdbInv'
<1>1. /\ writer = p /\ call[p] # None /\ call[p] \in LmdbCall /\ p # None
      /\ call[p].done < Len(call[p].ops)
      /\ ~Lmdb!Unknown(Lmdb!NextOp(p))
      /\ UNCHANGED <<env, writer>>
      /\ Writing(p)
  BY StorageAssumption DEF Lmdb!WriteRow, Lmdb!InTxn, LmdbInv
<1>2. PICK c \in LmdbCall : /\ c = call[p]
                            /\ c.ops \in Seq(WriteOp) /\ c.done \in Nat
                            /\ c.done < Len(c.ops)
  BY <1>1, CallForm
<1>3. PICK op : op = c.ops[c.done + 1]
  OBVIOUS
<1>4. op \in WriteOp /\ c.done + 1 \in 1 .. Len(c.ops)
  BY <1>2, <1>3
<1>5. op = Lmdb!NextOp(p) /\ op.cf \in ColumnFamily /\ ~Lmdb!Unknown(op)
  BY <1>1, <1>2, <1>3, Families DEF Lmdb!NextOp, Lmdb!Unknown
<1>6. wtxn' = Kv!ApplyOp(wtxn, Lmdb!Routed(op))
  BY <1>5, SameOp DEF Lmdb!WriteRow
<1>7. PICK d \in LmdbCall : /\ d = [c EXCEPT !.done = @ + 1] /\ d # None
                            /\ d.ops = c.ops /\ d.done = c.done + 1
  BY NextCall, CallForm
<1>8. /\ call' \in [Thread -> LmdbCall \cup {None}]
      /\ call'[p] = d
      /\ \A q \in Thread : q # p => call'[q] = call[q]
  BY <1>2, <1>7 DEF LmdbInv, Lmdb!WriteRow
<1>9. Rows(wtxn)'
  BY <1>4, <1>5, <1>6, RowsRouted DEF LmdbInv
<1>10. Writing(p)'
  <2>1. PICK f : Steps(f, Lmdb!ContentsOf(env), c.ops) /\ f[c.done] = Lmdb!ContentsOf(wtxn)
    BY <1>1, <1>2 DEF Writing
  <2>2. Lmdb!ContentsOf(wtxn') = Kv!ApplyOp(f[c.done], op)
    BY <1>4, <1>5, <1>6, <2>1, ApplyRouted DEF LmdbInv, Rows
  <2>3. f[c.done + 1] = Kv!ApplyOp(f[c.done], op)
    <3>1. (c.done + 1) - 1 = c.done
      BY <1>2
    <3>. QED
      BY <1>3, <1>4, <2>1, <3>1 DEF Steps
  <2>4. d.ops # <<>> /\ d.done <= Len(d.ops)
    BY <1>1, <1>2, <1>4, <1>7
  <2>5. \A i \in 1 .. d.done : d.ops[i].cf \in ColumnFamily
    <3>. SUFFICES ASSUME NEW i \in 1 .. c.done + 1 PROVE c.ops[i].cf \in ColumnFamily
      BY <1>7
    <3>1. i \in 1 .. c.done \/ i = c.done + 1
      BY <1>2
    <3>. QED
      BY <1>1, <1>2, <1>3, <1>5, <3>1 DEF Writing
  <2>6. Steps(f, Lmdb!ContentsOf(env'), d.ops) /\ f[d.done] = Lmdb!ContentsOf(wtxn')
    BY <1>1, <1>7, <2>1, <2>2, <2>3
  <2>. QED
    BY <1>7, <1>8, <2>4, <2>5, <2>6 DEF Writing
<1>11. (\A q \in Thread : call[q] # None /\ q # writer => call[q].done = 0)'
  BY <1>1, <1>8 DEF LmdbInv
<1>. QED
  BY <1>1, <1>8, <1>9, <1>10, <1>11 DEF LmdbInv

LEMMA LmdbNextInv ==
    ASSUME LmdbInv, UNCHANGED <<sst, wal, synced>>, Lmdb!Next
    PROVE  LmdbInv'
<1>1. ASSUME NEW p \in Thread, NEW r \in Request, Lmdb!Invoke(p, r) PROVE LmdbInv'
  BY <1>1, InvokeInv
<1>2. ASSUME NEW p \in Thread, Lmdb!Step(p) PROVE LmdbInv'
  <2>1. CASE Lmdb!RefusedEarly(p)
    BY <2>1, ReturnOutside DEF Lmdb!RefusedEarly, Lmdb!lmdb
  <2>2. CASE Lmdb!EmptyBatch(p)
    <3>1. p # writer
      BY <2>2, StorageAssumption DEF LmdbInv, Writing, Lmdb!EmptyBatch
    <3>. QED
      BY <2>2, <3>1, ReturnOutside DEF Lmdb!EmptyBatch, Lmdb!lmdb
  <2>3. CASE Lmdb!WriteTxn(p)
    BY <2>3, WriteTxnInv
  <2>4. CASE Lmdb!WriteTxnFails(p)
    <3>1. p # writer
      BY <2>4, StorageAssumption DEF Lmdb!WriteTxnFails, Lmdb!CanBegin
    <3>. QED
      BY <2>4, <3>1, ReturnOutside DEF Lmdb!WriteTxnFails, Lmdb!lmdb
  <2>5. CASE Lmdb!WriteRow(p)
    BY <2>5, WriteRowInv
  <2>6. CASE Lmdb!UnknownInBatch(p)
    BY <2>6, ReturnInside DEF Lmdb!UnknownInBatch, Lmdb!InTxn, Lmdb!Abort
  <2>7. CASE Lmdb!RowFails(p)
    BY <2>7, ReturnInside DEF Lmdb!RowFails, Lmdb!InTxn, Lmdb!Abort
  <2>8. CASE Lmdb!Commit(p)
    BY <2>8, ReturnInside DEF Lmdb!Commit, Lmdb!Complete
  <2>9. CASE Lmdb!CommitFails(p)
    BY <2>9, ReturnInside DEF Lmdb!CommitFails, Lmdb!Complete, Lmdb!Abort
  <2>. QED
    BY <1>2, <2>1, <2>2, <2>3, <2>4, <2>5, <2>6, <2>7, <2>8, <2>9 DEF Lmdb!Step
<1>3. CASE Lmdb!Stop
  <2>1. /\ call' \in [Thread -> LmdbCall \cup {None}]
        /\ \A q \in Thread : call'[q] = None
        /\ writer' = None /\ wtxn' = {} /\ env' = env
    BY <1>3 DEF Lmdb!Stop
  <2>2. Rows(wtxn)' /\ Rows(env)'
    BY <2>1 DEF LmdbInv, Rows, Unique
  <2>. QED
    BY <2>1, <2>2 DEF LmdbInv
<1>. QED
  BY <1>1, <1>2, <1>3 DEF Lmdb!Next

LEMMA RocksReturn ==
    ASSUME RocksInv, NEW p \in Thread, NEW outcome, Rocks!Return(p, outcome)
    PROVE  /\ call[p] \in Request
           /\ call' \in [Thread -> Request \cup {None}]
           /\ call'[p] = None
           /\ \A q \in Thread : q # p => call'[q] = call[q]
  BY DEF RocksInv, Rocks!Return

LEMMA LoggedForm ==
    ASSUME RocksInv, NEW p \in Thread, Rocks!Logged(p)
    PROVE  /\ call[p] \in Request /\ call[p].ops \in Seq(WriteOp)
           /\ wal' \in Seq(Seq(WriteOp))
           /\ Len(wal') = Len(wal) + 1 /\ Len(wal') <= MaxLog
           /\ wal'[Len(wal) + 1] = call[p].ops
           /\ \A i \in 1 .. Len(wal) : wal'[i] = wal[i]
<1>1. call[p] \in Request
  BY RocksReturn DEF Rocks!Logged
<1>2. PICK ops \in Seq(WriteOp) : ops = call[p].ops
  BY <1>1, RequestForm
<1>3. wal \in Seq(Seq(WriteOp)) /\ wal' = Append(wal, ops) /\ Len(wal) < MaxLog /\ MaxLog \in Nat
  BY <1>2, StorageAssumption DEF RocksInv, Rocks!Logged
<1>4. wal' \in Seq(Seq(WriteOp)) /\ Len(wal') = Len(wal) + 1
  BY <1>3
<1>5. wal'[Len(wal) + 1] = ops /\ \A i \in 1 .. Len(wal) : wal'[i] = wal[i]
  BY <1>3
<1>6. Len(wal') <= MaxLog
  BY <1>3, <1>4
<1>. QED
  BY <1>1, <1>2, <1>4, <1>5, <1>6

LEMMA RocksNextInv ==
    ASSUME RocksInv, UNCHANGED <<env, writer, wtxn>>, Rocks!Next
    PROVE  RocksInv'
<1>1. /\ wal \in Seq(Seq(WriteOp)) /\ Len(wal) \in Nat /\ synced \in 0 .. Len(wal)
      /\ call \in [Thread -> Request \cup {None}] /\ Unique(sst)
  BY DEF RocksInv
<1>2. ASSUME NEW p \in Thread, NEW r \in Request, Rocks!Invoke(p, r) PROVE RocksInv'
  BY <1>2 DEF RocksInv, Rocks!Invoke, Rocks!rocks
<1>3. ASSUME NEW p \in Thread, Rocks!Step(p) PROVE RocksInv'
  <2>1. ASSUME NEW outcome, Rocks!Return(p, outcome), UNCHANGED <<sst, wal, synced>>
        PROVE  RocksInv'
    BY <2>1, RocksReturn DEF RocksInv
  <2>2. CASE Rocks!Refused(p)
    BY <2>1, <2>2 DEF Rocks!Refused, Rocks!rocks
  <2>3. CASE Rocks!EmptyBatch(p)
    BY <2>1, <2>3 DEF Rocks!EmptyBatch, Rocks!rocks
  <2>4. CASE Rocks!WriteFails(p)
    BY <2>1, <2>4 DEF Rocks!WriteFails, Rocks!rocks
  <2>5. ASSUME Rocks!Logged(p), synced' \in {synced, Len(wal')} PROVE RocksInv'
    <3>1. call' \in [Thread -> Request \cup {None}] /\ sst' = sst
      BY <2>5, RocksReturn DEF Rocks!Logged
    <3>2. wal' \in Seq(Seq(WriteOp)) /\ Len(wal') = Len(wal) + 1 /\ Len(wal') <= MaxLog
      BY <2>5, LoggedForm
    <3>3. synced' \in 0 .. Len(wal')
      BY <1>1, <2>5, <3>2
    <3>. QED
      BY <3>1, <3>2, <3>3 DEF RocksInv
  <2>6. CASE Rocks!Write(p)
    BY <2>5, <2>6 DEF Rocks!Write
  <2>7. CASE Rocks!BatchWrite(p)
    BY <2>5, <2>7 DEF Rocks!BatchWrite
  <2>. QED
    BY <1>3, <2>2, <2>3, <2>4, <2>6, <2>7 DEF Rocks!Step
<1>4. CASE Rocks!SyncLog
  <2>1. synced' \in 0 .. Len(wal) /\ UNCHANGED <<sst, wal, call>>
    BY <1>1, <1>4 DEF Rocks!SyncLog
  <2>. QED
    BY <2>1 DEF RocksInv
<1>5. CASE Rocks!WriteTables
  <2>1. sst' = Rocks!Replay(sst, wal)[Len(wal)] /\ Len(wal) \in 0 .. Len(wal)
    BY <1>1, <1>5 DEF Rocks!WriteTables, Rocks!Contents, Rocks!After
  <2>2. Unique(sst)'
    BY <1>1, <2>1, UniqueReplay
  <2>3. wal' = <<>> /\ synced' = 0 /\ call' = call
    BY <1>5 DEF Rocks!WriteTables
  <2>4. wal' \in Seq(Seq(WriteOp)) /\ Len(wal') = 0 /\ 0 <= MaxLog /\ synced' \in 0 .. Len(wal')
    BY <2>3, StorageAssumption
  <2>. QED
    BY <2>2, <2>3, <2>4 DEF RocksInv
<1>6. CASE Rocks!DropOldest
  <2>1. sst' \subseteq sst /\ UNCHANGED <<wal, synced, call>>
    BY <1>6 DEF Rocks!DropOldest
  <2>2. Unique(sst)'
    BY <1>1, <2>1 DEF Unique
  <2>. QED
    BY <2>1, <2>2 DEF RocksInv
<1>7. CASE Rocks!Stop
  <2>1. PICK n \in synced .. Len(wal) : wal' = SubSeq(wal, 1, n) /\ synced' = n
    BY <1>7 DEF Rocks!Stop
  <2>2. wal' \in Seq(Seq(WriteOp)) /\ Len(wal') = n
    BY <1>1, <2>1
  <2>3. Len(wal') <= MaxLog /\ synced' \in 0 .. Len(wal')
    BY <1>1, <2>1, <2>2, StorageAssumption DEF RocksInv
  <2>4. call' \in [Thread -> Request \cup {None}] /\ sst' = sst
    BY <1>7 DEF Rocks!Stop
  <2>. QED
    BY <2>2, <2>3, <2>4 DEF RocksInv
<1>. QED
  BY <1>2, <1>3, <1>4, <1>5, <1>6, <1>7 DEF Rocks!Next

\* The inductive invariant: with LMDB the transaction of a thread holds what the
\* operations done so far make of the committed rows, and with RocksDB the log
\* is a list of batches of which a beginning is on disk.
THEOREM StorageInvariant == Spec => []StorageInv
<1>1. Init => StorageInv
  BY StorageInit
<1>2. StorageInv /\ [Next]_vars => StorageInv'
  <2>. SUFFICES ASSUME StorageInv, [Next]_vars PROVE StorageInv'
    OBVIOUS
  <2>1. CASE LmdbNext
    BY <2>1, LmdbNextInv DEF LmdbNext, StorageInv
  <2>2. CASE RocksNext
    BY <2>2, RocksNextInv DEF RocksNext, StorageInv
  <2>3. CASE UNCHANGED vars
    BY <2>3 DEF vars, StorageInv, LmdbInv, RocksInv, Writing
  <2>. QED
    BY <2>1, <2>2, <2>3 DEF Next
<1>. QED
  BY <1>1, <1>2, PTL DEF Spec

\* Either engine keeps one row for a key of a database or family, at every
\* moment of a transaction and after every compaction and recovery; the write
\* transaction of LMDB belongs to a thread inside a call; and no more of
\* RocksDB's log is on disk than there is.
THEOREM StorageTypesCorrect == Spec => []TypeOK
<1>1. StorageInv => TypeOK
  <2>. SUFFICES ASSUME StorageInv PROVE TypeOK
    OBVIOUS
  <2>1. CASE engine = "Lmdb"
    <3>1. Unique(env) /\ Unique(wtxn) /\ Unique(sst)
      BY <2>1 DEF StorageInv, LmdbInv, Rows, Unique
    <3>2. /\ writer \in Thread \cup {None}
          /\ writer # None => call[writer] # None
          /\ writer = None => wtxn = {}
      BY <2>1 DEF StorageInv, LmdbInv, Writing
    <3>3. synced \in 0 .. Len(wal) /\ Len(wal) <= MaxLog
      BY <2>1, StorageAssumption DEF StorageInv, LmdbInv
    <3>. QED
      BY <2>1, <3>1, <3>2, <3>3 DEF TypeOK, Unique
  <2>2. CASE engine = "RocksDb"
    <3>1. Unique(env) /\ Unique(wtxn) /\ Unique(sst)
      BY <2>2 DEF StorageInv, RocksInv, Unique
    <3>. QED
      BY <2>2, <3>1 DEF StorageInv, RocksInv, TypeOK, Unique
  <2>. QED
    BY <2>1, <2>2 DEF StorageInv
<1>. QED
  BY <1>1, StorageInvariant, PTL

-----------------------------------------------------------------------------
(* Every step is a step of KvStore.                                        *)

\* The calls in progress as KvStore sees them.
LEMMA RequestsAt ==
    ASSUME StorageInv, NEW p \in Thread
    PROVE  /\ call[p] = None => Requests[p] = None
           /\ call[p] # None => /\ Requests[p] \in Request
                                /\ Requests[p] # None
                                /\ Requests[p].kind = call[p].kind
                                /\ Requests[p].ops = call[p].ops
                                /\ call[p].ops \in Seq(WriteOp)
<1>1. CASE call[p] = None
  BY <1>1 DEF Requests
<1>2. CASE call[p] # None
  <2>1. Requests[p] = [kind |-> call[p].kind, ops |-> call[p].ops]
    BY <1>2 DEF Requests
  <2>2. Requests[p] \in Request /\ call[p].ops \in Seq(WriteOp)
    <3>1. CASE engine = "Lmdb"
      <4>1. call[p] \in LmdbCall
        BY <1>2, <3>1 DEF StorageInv, LmdbInv
      <4>. QED
        BY <2>1, <4>1, CallForm
    <3>2. CASE engine = "RocksDb"
      <4>1. call[p] \in Request
        BY <1>2, <3>2 DEF StorageInv, RocksInv
      <4>. QED
        BY <2>1, <4>1, RequestForm
    <3>. QED
      BY <3>1, <3>2 DEF StorageInv
  <2>. QED
    BY <1>2, <2>1, <2>2, RequestForm
<1>. QED
  BY <1>1, <1>2

LEMMA RequestsAfter ==
    ASSUME NEW p \in Thread, NEW c, NEW r,
           r = IF c = None THEN None ELSE [kind |-> c.kind, ops |-> c.ops],
           call'[p] = c, \A q \in Thread : q # p => call'[q] = call[q]
    PROVE  Requests' = [Requests EXCEPT ![p] = r]
<1>1. Requests' = [q \in Thread |-> IF call'[q] = None THEN None
                         ELSE [kind |-> call'[q].kind, ops |-> call'[q].ops]]
  BY DEF Requests
<1>2. ASSUME NEW q \in Thread PROVE Requests'[q] = IF q = p THEN r ELSE Requests[q]
  BY <1>1 DEF Requests
<1>3. Requests' = [q \in Thread |-> IF q = p THEN r ELSE Requests[q]]
  <2>1. Requests' = [q \in Thread |-> Requests'[q]]
    BY <1>1
  <2>. QED
    BY <1>2, <2>1
<1>4. [Requests EXCEPT ![p] = r] = [q \in Thread |-> IF q = p THEN r ELSE Requests[q]]
  BY DEF Requests
<1>. QED
  BY <1>3, <1>4

LEMMA RequestsStop ==
    ASSUME call' = [p \in Thread |-> None]
    PROVE  Requests' = [p \in Thread |-> None]
  BY DEF Requests

\* What the abstract store sees of LMDB.
LEMMA LmdbView ==
    /\ engine = "Lmdb" => Contents = Lmdb!ContentsOf(env) /\ Survivors = {Contents}
    /\ engine' = "Lmdb" => Contents' = Lmdb!ContentsOf(env') /\ Survivors' = {Contents'}
  BY DEF Contents, Survivors, Lmdb!Contents

LEMMA ApplyNone ==
    ASSUME NEW rows PROVE Kv!ApplyOps(rows, <<>>) = rows
<1>1. <<>> \in Seq(WriteOp) /\ Len(<<>>) = 0
  OBVIOUS
<1>2. PICK f : Steps(f, rows, <<>>) /\ f[Len(<<>>)] = Kv!ApplyOps(rows, <<>>)
  BY <1>1, FoldSteps
<1>. QED
  BY <1>1, <1>2 DEF Steps

LEMMA KvInvoke ==
    ASSUME StorageInv, NEW p \in Thread, NEW r \in Request, call[p] = None,
           ret' = [ret EXCEPT ![p] = None], NEW c, c # None,
           c.kind = r.kind, c.ops = r.ops, call'[p] = c,
           \A q \in Thread : q # p => call'[q] = call[q],
           Contents' = Contents, Survivors' = Survivors
    PROVE  Kv!Next
<1>1. Requests' = [Requests EXCEPT ![p] = r]
  BY RequestForm, RequestsAfter
<1>2. Kv!Invoke(p, r)
  BY <1>1, RequestsAt DEF Kv!Invoke
<1>. QED
  BY <1>2 DEF Kv!Next

LEMMA KvReturn ==
    ASSUME StorageInv, NEW p \in Thread, call[p] # None, NEW outcome,
           ret' = [ret EXCEPT ![p] = outcome], call'[p] = None,
           \A q \in Thread : q # p => call'[q] = call[q]
    PROVE  Kv!Return(p, outcome) /\ Requests[p].ops = call[p].ops /\ Requests[p].kind = call[p].kind
<1>1. Requests' = [Requests EXCEPT ![p] = None]
  BY RequestsAfter
<1>. QED
  BY <1>1, RequestsAt DEF Kv!Return

LEMMA KvRefuse ==
    ASSUME StorageInv, NEW p \in Thread, Kv!Return(p, "UnknownColumnFamily"),
           Requests[p].ops = call[p].ops,
           NEW i \in DOMAIN call[p].ops, call[p].ops[i].cf \notin ColumnFamily,
           Contents' = Contents, Survivors' = Survivors
    PROVE  Kv!Next
<1>1. Kv!Refuse(p)
  BY DEF Kv!Refuse, Kv!Known
<1>. QED
  BY <1>1 DEF Kv!Next

LEMMA KvFail ==
    ASSUME StorageInv, NEW p \in Thread, NEW error \in {"MapFull", "BackendError"},
           Kv!Return(p, error), Requests[p].ops = call[p].ops, call[p].ops # <<>>,
           Contents' = Contents, Survivors' = Survivors
    PROVE  Kv!Next
<1>1. Kv!Fail(p)
  BY DEF Kv!Fail
<1>. QED
  BY <1>1 DEF Kv!Next

LEMMA KvEmpty ==
    ASSUME StorageInv, NEW p \in Thread, Kv!Return(p, "Ok"),
           Requests[p].ops = call[p].ops, call[p].ops = <<>>,
           Contents' = Contents, Survivors' = Survivors
    PROVE  Kv!Next
<1>1. Kv!Known(<<>>)
  BY DEF Kv!Known
<1>2. Kv!Succeed(p)
  BY <1>1, ApplyNone DEF Kv!Succeed
<1>. QED
  BY <1>2 DEF Kv!Next

\* The thread that holds the transaction commits: the committed rows become
\* what the whole batch makes of them.
LEMMA CommitApplies ==
    ASSUME LmdbInv, NEW p \in Thread, Lmdb!Complete(p)
    PROVE  /\ Kv!Known(call[p].ops) /\ call[p].ops # <<>>
           /\ Lmdb!ContentsOf(wtxn) = Kv!ApplyOps(Lmdb!ContentsOf(env), call[p].ops)
<1>1. Writing(p) /\ call[p].done = Len(call[p].ops) /\ call[p] \in LmdbCall
  BY StorageAssumption DEF LmdbInv, Lmdb!Complete
<1>2. PICK ops \in Seq(WriteOp) : ops = call[p].ops
  BY <1>1, CallForm
<1>3. DOMAIN ops = 1 .. Len(ops)
  OBVIOUS
<1>4. Kv!Known(ops)
  BY <1>1, <1>2, <1>3 DEF Writing, Kv!Known
<1>5. PICK f : Steps(f, Lmdb!ContentsOf(env), ops) /\ f[Len(ops)] = Lmdb!ContentsOf(wtxn)
  BY <1>1, <1>2 DEF Writing
<1>6. Lmdb!ContentsOf(wtxn) = Kv!ApplyOps(Lmdb!ContentsOf(env), ops)
  BY <1>5, StepsApply
<1>. QED
  BY <1>1, <1>2, <1>4, <1>6 DEF Writing

LEMMA LmdbRefines ==
    ASSUME StorageInv, LmdbNext
    PROVE  Kv!Next \/ UNCHANGED Kv!vars
<1>1. /\ engine = "Lmdb" /\ engine' = "Lmdb" /\ LmdbInv
      /\ Contents = Lmdb!ContentsOf(env) /\ Survivors = {Contents}
      /\ Contents' = Lmdb!ContentsOf(env') /\ Survivors' = {Contents'}
  BY LmdbView DEF LmdbNext, StorageInv
<1>2. env' = env => Contents' = Contents /\ Survivors' = Survivors
  BY <1>1
<1>3. ASSUME NEW p \in Thread, NEW outcome, Lmdb!Return(p, outcome), call[p] # None
      PROVE  /\ Kv!Return(p, outcome)
             /\ Requests[p].ops = call[p].ops /\ Requests[p].kind = call[p].kind
  <2>1. call'[p] = None /\ \A q \in Thread : q # p => call'[q] = call[q]
    BY <1>1, <1>3, ReturnCalls
  <2>2. ret' = [ret EXCEPT ![p] = outcome]
    BY <1>3 DEF Lmdb!Return
  <2>. QED
    BY <1>3, <2>1, <2>2, KvReturn
<1>4. ASSUME NEW p \in Thread, NEW error \in {"MapFull", "BackendError"},
             Lmdb!Return(p, error), call[p] # None, call[p].ops # <<>>, env' = env
      PROVE  Kv!Next
  BY <1>2, <1>3, <1>4, KvFail
<1>5. ASSUME NEW p \in Thread, NEW r \in Request, Lmdb!Invoke(p, r) PROVE Kv!Next
  <2>1. PICK c : c = [kind |-> r.kind, ops |-> r.ops, done |-> 0]
    OBVIOUS
  <2>2. c \in LmdbCall /\ c.kind = r.kind /\ c.ops = r.ops
    BY <2>1, 0 \in Nat DEF LmdbCall
  <2>3. c # None
    BY <2>2, CallForm
  <2>4. /\ call'[p] = c /\ \A q \in Thread : q # p => call'[q] = call[q]
        /\ call[p] = None /\ ret' = [ret EXCEPT ![p] = None] /\ env' = env
    BY <1>1, <1>5, <2>1 DEF LmdbInv, Lmdb!Invoke, Lmdb!lmdb
  <2>. QED
    BY <1>2, <2>2, <2>3, <2>4, KvInvoke
<1>6. ASSUME NEW p \in Thread, Lmdb!Step(p) PROVE Kv!Next \/ UNCHANGED Kv!vars
  <2>1. CASE Lmdb!RefusedEarly(p)
    <3>1. call[p] \in LmdbCall
      BY <1>1, <2>1 DEF LmdbInv, Lmdb!RefusedEarly
    <3>2. 1 \in DOMAIN call[p].ops /\ call[p].ops[1].cf \notin ColumnFamily
      <4>1. call[p].kind = "single" /\ call[p].ops[1].cf \notin ColumnFamily
        BY <2>1, Families DEF Lmdb!RefusedEarly, Lmdb!Unknown
      <4>2. PICK ops \in Seq(WriteOp) : ops = call[p].ops /\ Len(ops) = 1
        BY <3>1, <4>1, CallForm
      <4>. QED
        BY <4>1, <4>2
    <3>3. /\ Lmdb!Return(p, "UnknownColumnFamily") /\ call[p] # None
          /\ Contents' = Contents /\ Survivors' = Survivors
      BY <1>2, <2>1 DEF Lmdb!RefusedEarly, Lmdb!lmdb
    <3>. QED
      BY <1>3, <3>2, <3>3, KvRefuse
  <2>2. CASE Lmdb!EmptyBatch(p)
    <3>1. /\ Lmdb!Return(p, "Ok") /\ call[p] # None /\ call[p].ops = <<>>
          /\ Contents' = Contents /\ Survivors' = Survivors
      BY <1>2, <2>2 DEF Lmdb!EmptyBatch, Lmdb!lmdb
    <3>. QED
      BY <1>3, <3>1, KvEmpty
  <2>3. CASE Lmdb!WriteTxn(p)
    <3>1. UNCHANGED <<env, call, ret>>
      BY <2>3 DEF Lmdb!WriteTxn
    <3>. QED
      BY <1>2, <3>1 DEF Kv!vars, Requests
  <2>4. CASE Lmdb!WriteTxnFails(p)
    BY <1>4, <2>4 DEF Lmdb!WriteTxnFails, Lmdb!CanBegin, Lmdb!lmdb
  <2>5. CASE Lmdb!WriteRow(p)
    <3>1. call[p] # None /\ call[p] \in LmdbCall /\ env' = env /\ ret' = ret
      BY <1>1, <2>5 DEF Lmdb!WriteRow, Lmdb!InTxn, LmdbInv
    <3>2. PICK c \in LmdbCall : c = call[p]
      BY <3>1
    <3>3. PICK d \in LmdbCall : /\ d = [c EXCEPT !.done = @ + 1] /\ d # None
                                /\ d.ops = c.ops /\ d.kind = c.kind
      BY NextCall, CallForm
    <3>4. call'[p] = d /\ \A q \in Thread : q # p => call'[q] = call[q]
      BY <1>1, <2>5, <3>2, <3>3 DEF LmdbInv, Lmdb!WriteRow
    <3>5. PICK r : r = Requests[p]
      OBVIOUS
    <3>6. r = IF d = None THEN None ELSE [kind |-> d.kind, ops |-> d.ops]
      BY <3>1, <3>2, <3>3, <3>5 DEF Requests
    <3>7. Requests' = [Requests EXCEPT ![p] = r]
      BY <3>4, <3>6, RequestsAfter
    <3>8. Requests' = Requests
      BY <3>5, <3>7 DEF Requests
    <3>. QED
      BY <1>2, <3>1, <3>8 DEF Kv!vars
  <2>6. CASE Lmdb!UnknownInBatch(p)
    <3>1. /\ Lmdb!Return(p, "UnknownColumnFamily") /\ call[p] # None
          /\ call[p].done < Len(call[p].ops)
          /\ call[p].ops[call[p].done + 1].cf \notin ColumnFamily
          /\ env' = env
      BY <2>6, Families DEF Lmdb!UnknownInBatch, Lmdb!InTxn, Lmdb!Abort, Lmdb!Unknown, Lmdb!NextOp
    <3>2. call[p] \in LmdbCall
      BY <1>1, <3>1 DEF LmdbInv
    <3>3. call[p].done + 1 \in DOMAIN call[p].ops
      <4>1. PICK ops \in Seq(WriteOp), n \in Nat : ops = call[p].ops /\ n = call[p].done
        BY <3>2, CallForm
      <4>. QED
        BY <3>1, <4>1
    <3>. QED
      BY <1>2, <1>3, <3>1, <3>3, KvRefuse
  <2>7. ASSUME Lmdb!InTxn(p) \/ Lmdb!Complete(p) PROVE call[p] # None /\ call[p].ops # <<>>
    BY <1>1, <2>7, StorageAssumption DEF LmdbInv, Writing, Lmdb!InTxn, Lmdb!Complete
  <2>8. CASE Lmdb!RowFails(p)
    BY <1>4, <2>7, <2>8 DEF Lmdb!RowFails, Lmdb!Abort, Lmdb!EngineErrors
  <2>9. CASE Lmdb!CommitFails(p)
    BY <1>4, <2>7, <2>9 DEF Lmdb!CommitFails, Lmdb!Abort, Lmdb!EngineErrors
  <2>10. CASE Lmdb!Commit(p)
    <3>1. Lmdb!Complete(p) /\ env' = wtxn /\ Lmdb!Return(p, "Ok")
      BY <2>10 DEF Lmdb!Commit
    <3>2. /\ Kv!Known(call[p].ops) /\ call[p].ops # <<>>
          /\ Contents' = Kv!ApplyOps(Contents, call[p].ops)
      BY <1>1, <3>1, CommitApplies
    <3>3. /\ Kv!Return(p, "Ok")
          /\ Requests[p].ops = call[p].ops
      BY <1>3, <2>7, <3>1
    <3>4. Kv!Succeed(p)
      BY <1>1, <3>2, <3>3 DEF Kv!Succeed
    <3>. QED
      BY <3>4 DEF Kv!Next
  <2>. QED
    BY <1>6, <2>1, <2>2, <2>3, <2>4, <2>5, <2>6, <2>8, <2>9, <2>10 DEF Lmdb!Step
<1>7. CASE Lmdb!Stop
  <2>1. call' = [p \in Thread |-> None] /\ ret' = [p \in Thread |-> None] /\ env' = env
    BY <1>7 DEF Lmdb!Stop
  <2>2. Kv!Stop
    BY <1>1, <1>2, <2>1, RequestsStop DEF Kv!Stop
  <2>. QED
    BY <2>2 DEF Kv!Next
<1>. QED
  BY <1>5, <1>6, <1>7 DEF LmdbNext, Lmdb!Next

-----------------------------------------------------------------------------

\* What the abstract store sees of RocksDB.
LEMMA RocksView ==
    /\ engine = "RocksDb" =>
           /\ Contents = Rocks!Replay(sst, wal)[Len(wal)]
           /\ Survivors = {Rocks!Replay(sst, wal)[n] : n \in synced .. Len(wal)}
    /\ engine' = "RocksDb" =>
           /\ Contents' = Rocks!Replay(sst', wal')[Len(wal')]
           /\ Survivors' = {Rocks!Replay(sst', wal')[n] : n \in synced' .. Len(wal')}
<1>1. engine = "RocksDb" => /\ Contents = Rocks!Contents /\ Survivors = Rocks!Survivors
  BY DEF Contents, Survivors
<1>2. engine' = "RocksDb" => /\ Contents' = Rocks!Contents' /\ Survivors' = Rocks!Survivors'
  BY DEF Contents, Survivors
<1>. QED
  BY <1>1, <1>2 DEF Rocks!Contents, Rocks!Survivors, Rocks!After

\* A write is appended to the log and becomes visible as a whole.
LEMMA LoggedApplies ==
    ASSUME RocksInv, NEW p \in Thread, Rocks!Logged(p)
    PROVE  /\ Kv!Known(call[p].ops) /\ call[p].ops # <<>>
           /\ Rocks!Replay(sst', wal')[Len(wal')] =
                  Kv!ApplyOps(Rocks!Replay(sst, wal)[Len(wal)], call[p].ops)
           /\ \A n \in 0 .. Len(wal) :
                  Rocks!Replay(sst', wal')[n] = Rocks!Replay(sst, wal)[n]
<1>1. /\ wal' \in Seq(Seq(WriteOp)) /\ Len(wal') = Len(wal) + 1
      /\ wal'[Len(wal) + 1] = call[p].ops
      /\ \A i \in 1 .. Len(wal) : wal'[i] = wal[i]
  BY LoggedForm
<1>2. wal \in Seq(Seq(WriteOp)) /\ sst' = sst
  BY DEF RocksInv, Rocks!Logged
<1>3. PICK log \in Seq(Seq(WriteOp)) : log = wal
  BY <1>2
<1>4. PICK log2 \in Seq(Seq(WriteOp)) : log2 = wal'
  BY <1>1
<1>5. PICK n \in Nat : n = Len(log)
  OBVIOUS
<1>6. n <= Len(log) /\ n <= Len(log2) /\ \A i \in 1 .. n : log2[i] = log[i]
  BY <1>1, <1>3, <1>4, <1>5
<1>7. \A m \in 0 .. n : Rocks!Replay(sst, log2)[m] = Rocks!Replay(sst, log)[m]
  BY <1>6, ReplayPrefix
<1>8. Rocks!Replay(sst, log2)[n + 1] = Kv!ApplyOps(Rocks!Replay(sst, log)[n], log2[n + 1])
  <2>1. n + 1 \in 1 .. Len(log2) /\ (n + 1) - 1 = n /\ n \in 0 .. n
    BY <1>1, <1>3, <1>4, <1>5
  <2>2. Rocks!Replay(sst, log2)[n + 1] = Kv!ApplyOps(Rocks!Replay(sst, log2)[(n + 1) - 1], log2[n + 1])
    BY <2>1, ReplaySteps
  <2>. QED
    BY <1>7, <2>1, <2>2
<1>9. Kv!Known(call[p].ops) /\ call[p].ops # <<>>
  BY DEF Rocks!Logged, Rocks!Known, Kv!Known
<1>. QED
  BY <1>1, <1>2, <1>3, <1>4, <1>5, <1>7, <1>8, <1>9

LEMMA RocksRefines ==
    ASSUME StorageInv, RocksNext
    PROVE  Kv!Next \/ UNCHANGED Kv!vars
<1>1. /\ engine = "RocksDb" /\ engine' = "RocksDb" /\ RocksInv
      /\ Contents = Rocks!Replay(sst, wal)[Len(wal)]
      /\ Survivors = {Rocks!Replay(sst, wal)[n] : n \in synced .. Len(wal)}
      /\ Contents' = Rocks!Replay(sst', wal')[Len(wal')]
      /\ Survivors' = {Rocks!Replay(sst', wal')[n] : n \in synced' .. Len(wal')}
  BY RocksView DEF RocksNext, StorageInv
<1>2. UNCHANGED <<sst, wal, synced>> => Contents' = Contents /\ Survivors' = Survivors
  BY <1>1
<1>3. wal \in Seq(Seq(WriteOp)) /\ Len(wal) \in Nat /\ synced \in 0 .. Len(wal)
  BY <1>1 DEF RocksInv
<1>4. ASSUME NEW p \in Thread, NEW outcome, Rocks!Return(p, outcome)
      PROVE  /\ Kv!Return(p, outcome) /\ call[p] \in Request
             /\ Requests[p].ops = call[p].ops /\ Requests[p].kind = call[p].kind
  <2>1. /\ call[p] \in Request /\ call'[p] = None
        /\ \A q \in Thread : q # p => call'[q] = call[q]
    BY <1>1, <1>4, RocksReturn
  <2>2. ret' = [ret EXCEPT ![p] = outcome] /\ call[p] # None
    BY <1>4 DEF Rocks!Return
  <2>. QED
    BY <2>1, <2>2, KvReturn
<1>5. ASSUME NEW p \in Thread, NEW r \in Request, Rocks!Invoke(p, r) PROVE Kv!Next
  <2>1. /\ call'[p] = r /\ \A q \in Thread : q # p => call'[q] = call[q]
        /\ call[p] = None /\ ret' = [ret EXCEPT ![p] = None]
        /\ UNCHANGED <<sst, wal, synced>>
    BY <1>1, <1>5 DEF RocksInv, Rocks!Invoke, Rocks!rocks
  <2>2. r # None
    BY RequestForm
  <2>. QED
    BY <1>2, <2>1, <2>2, KvInvoke
<1>6. ASSUME NEW p \in Thread, Rocks!Step(p) PROVE Kv!Next
  <2>1. CASE Rocks!Refused(p)
    <3>1. PICK i \in DOMAIN call[p].ops : call[p].ops[i].cf \notin ColumnFamily
      BY <2>1 DEF Rocks!Refused, Rocks!Known
    <3>2. Rocks!Return(p, "UnknownColumnFamily") /\ UNCHANGED <<sst, wal, synced>>
      BY <2>1 DEF Rocks!Refused, Rocks!rocks
    <3>. QED
      BY <1>2, <1>4, <3>1, <3>2, KvRefuse
  <2>2. CASE Rocks!EmptyBatch(p)
    <3>1. /\ Rocks!Return(p, "Ok") /\ UNCHANGED <<sst, wal, synced>> /\ call[p].ops = <<>>
      BY <2>2 DEF Rocks!EmptyBatch, Rocks!rocks
    <3>. QED
      BY <1>2, <1>4, <3>1, KvEmpty
  <2>3. CASE Rocks!WriteFails(p)
    <3>1. /\ Rocks!Return(p, "BackendError") /\ UNCHANGED <<sst, wal, synced>>
          /\ call[p].ops # <<>>
      BY <2>3 DEF Rocks!WriteFails, Rocks!rocks
    <3>. QED
      BY <1>2, <1>4, <3>1, KvFail
  <2>4. ASSUME Rocks!Logged(p)
        PROVE  /\ Kv!Return(p, "Ok") /\ Kv!Known(Requests[p].ops)
               /\ Requests[p].kind = call[p].kind /\ Requests[p].ops # <<>>
               /\ Contents' = Kv!ApplyOps(Contents, Requests[p].ops)
    <3>1. Rocks!Return(p, "Ok")
      BY <2>4 DEF Rocks!Logged
    <3>. QED
      BY <1>1, <1>4, <2>4, <3>1, LoggedApplies
  <2>5. CASE Rocks!Write(p)
    <3>1. Rocks!Logged(p) /\ call[p].kind = "single" /\ synced' = synced
      BY <2>5 DEF Rocks!Write
    <3>2. Len(wal') = Len(wal) + 1
      BY <1>1, <3>1, LoggedForm
    <3>3. \A n \in 0 .. Len(wal) : Rocks!Replay(sst', wal')[n] = Rocks!Replay(sst, wal)[n]
      BY <1>1, <3>1, LoggedApplies
    <3>4. synced .. Len(wal') = (synced .. Len(wal)) \cup {Len(wal')}
      BY <1>3, <3>2
    <3>5. synced .. Len(wal) \subseteq 0 .. Len(wal)
      BY <1>3
    <3>6. Survivors' = Survivors \cup {Contents'}
      BY <1>1, <3>1, <3>3, <3>4, <3>5
    <3>7. Kv!Succeed(p)
      BY <2>4, <3>1, <3>6 DEF Kv!Succeed
    <3>. QED
      BY <3>7 DEF Kv!Next
  <2>6. CASE Rocks!BatchWrite(p)
    <3>1. Rocks!Logged(p) /\ synced' = Len(wal')
      BY <2>6 DEF Rocks!BatchWrite
    <3>2. Len(wal') = Len(wal) + 1
      BY <1>1, <3>1, LoggedForm
    <3>3. synced' .. Len(wal') = {Len(wal')}
      BY <1>3, <3>1, <3>2
    <3>4. Survivors' = {Contents'}
      BY <1>1, <3>3
    <3>5. Kv!Succeed(p)
      BY <2>4, <3>1, <3>4 DEF Kv!Succeed
    <3>. QED
      BY <3>5 DEF Kv!Next
  <2>. QED
    BY <1>6, <2>1, <2>2, <2>3, <2>5, <2>6 DEF Rocks!Step
<1>7. Contents \in Survivors
  BY <1>1, <1>3
<1>8. CASE Rocks!SyncLog
  <2>1. /\ synced' = synced + 1 /\ synced < Len(wal)
        /\ UNCHANGED <<sst, wal, call, ret>>
    BY <1>8 DEF Rocks!SyncLog
  <2>2. synced' .. Len(wal) \subseteq synced .. Len(wal) /\ Len(wal) \in synced' .. Len(wal)
    BY <1>3, <2>1
  <2>3. Contents' = Contents /\ Survivors' \subseteq Survivors /\ Contents \in Survivors'
    BY <1>1, <2>1, <2>2
  <2>4. Kv!Sync
    BY <2>1, <2>3 DEF Kv!Sync, Requests
  <2>. QED
    BY <2>4 DEF Kv!Next
<1>9. CASE Rocks!WriteTables
  <2>1. /\ sst' = Contents /\ wal' = <<>> /\ synced' = 0 /\ UNCHANGED <<call, ret>>
    BY <1>1, <1>9 DEF Rocks!WriteTables, Rocks!Contents, Rocks!After
  <2>2. wal' \in Seq(Seq(WriteOp)) /\ Len(wal') = 0
    BY <2>1
  <2>3. Rocks!Replay(sst', wal')[0] = sst'
    BY <2>2, ReplaySteps
  <2>4. 0 .. 0 = {0}
    OBVIOUS
  <2>5. Contents' = Contents /\ Survivors' = {Contents}
    BY <1>1, <2>1, <2>2, <2>3, <2>4
  <2>6. Kv!Sync
    BY <1>7, <2>1, <2>5 DEF Kv!Sync, Requests
  <2>. QED
    BY <2>6 DEF Kv!Next
<1>10. CASE Rocks!DropOldest
  <2>1. Kv!Aged(sst, sst') /\ UNCHANGED <<wal, synced, call, ret>>
    BY <1>10 DEF Rocks!DropOldest, Rocks!FifoFamilies, Kv!Aged
  <2>2. \A n \in 0 .. Len(wal) : Kv!Aged(Rocks!Replay(sst, wal)[n], Rocks!Replay(sst', wal)[n])
    BY <1>3, <2>1, AgedReplay
  <2>3. Len(wal) \in 0 .. Len(wal) /\ synced .. Len(wal) \subseteq 0 .. Len(wal)
    BY <1>3
  <2>4. Kv!Aged(Contents, Contents')
    BY <1>1, <2>1, <2>2, <2>3
  <2>5. Contents' \in Survivors'
    BY <1>1, <1>3, <2>1
  <2>6. \A t \in Survivors' : \E s \in Survivors : Kv!Aged(s, t)
    BY <1>1, <2>1, <2>2, <2>3
  <2>7. Kv!Expire
    BY <2>1, <2>4, <2>5, <2>6 DEF Kv!Expire, Requests
  <2>. QED
    BY <2>7 DEF Kv!Next
<1>11. CASE Rocks!Stop
  <2>1. PICK n \in synced .. Len(wal) : wal' = SubSeq(wal, 1, n) /\ synced' = n
    BY <1>11 DEF Rocks!Stop
  <2>2. PICK log \in Seq(Seq(WriteOp)) : log = wal
    BY <1>3
  <2>3. n \in Nat /\ n <= Len(log)
    BY <1>3, <2>1, <2>2
  <2>4. PICK log2 \in Seq(Seq(WriteOp)) : log2 = SubSeq(log, 1, n)
    <3>1. SubSeq(log, 1, n) \in Seq(Seq(WriteOp))
      BY <2>3
    <3>. QED
      BY <3>1, Zenon
  <2>5. Len(log2) = n /\ \A i \in 1 .. n : log[i] = log2[i]
    BY <2>3, <2>4
  <2>6. n \in 0 .. n /\ n <= Len(log2)
    BY <2>3, <2>5
  <2>7. Rocks!Replay(sst, log)[n] = Rocks!Replay(sst, log2)[n]
    <3>1. \A m \in 0 .. n : Rocks!Replay(sst, log)[m] = Rocks!Replay(sst, log2)[m]
      BY <2>3, <2>5, <2>6, ReplayPrefix, Zenon
    <3>. QED
      BY <2>6, <3>1, Zenon
  <2>8. sst' = sst /\ call' = [p \in Thread |-> None] /\ ret' = [p \in Thread |-> None]
    BY <1>11 DEF Rocks!Stop
  <2>9. n .. n = {n}
    BY <2>3
  <2>10. Contents' = Rocks!Replay(sst, wal)[n] /\ Survivors' = {Contents'}
    BY <1>1, <2>1, <2>2, <2>4, <2>5, <2>7, <2>8, <2>9, SMTT(30)
  <2>11. Contents' \in Survivors
    BY <1>1, <2>1, <2>10
  <2>12. Kv!Stop
    BY <2>8, <2>10, <2>11, RequestsStop DEF Kv!Stop
  <2>. QED
    BY <2>12 DEF Kv!Next
<1>. QED
  BY <1>5, <1>6, <1>8, <1>9, <1>10, <1>11 DEF RocksNext, Rocks!Next

\* STO-001 and STO-005: LmdbBackend and RocksDbBackend implement what the trait
\* StorageBackend promises.  Writes take effect whole when the call returns Ok
\* and not at all when it returns an error, in the order of the batch; a batch,
\* once acknowledged, survives a stop of the machine with all before it; and
\* compaction drops rows of the expiring families only.
THEOREM StorageRefinement == Spec => KvSpec
<1>1. Init => Kv!Init
  <2>. SUFFICES ASSUME Init PROVE Kv!Init
    OBVIOUS
  <2>1. /\ env = {} /\ sst = {} /\ wal = <<>> /\ synced = 0
        /\ call = [p \in Thread |-> None] /\ ret = [p \in Thread |-> None]
        /\ engine \in {"Lmdb", "RocksDb"}
    BY DEF Init, Lmdb!Init, Rocks!Init
  <2>2. Requests = [p \in Thread |-> None]
    BY <2>1 DEF Requests
  <2>3. Contents = {} /\ Survivors = {{}}
    <3>1. CASE engine = "Lmdb"
      <4>1. Lmdb!ContentsOf({}) = {}
        BY InContents
      <4>. QED
        BY <2>1, <3>1, <4>1, LmdbView
    <3>2. CASE engine = "RocksDb"
      <4>1. wal \in Seq(Seq(WriteOp)) /\ Len(wal) = 0
        BY <2>1
      <4>2. Rocks!Replay(sst, wal)[0] = {}
        BY <2>1, <4>1, ReplaySteps
      <4>3. 0 .. 0 = {0}
        OBVIOUS
      <4>4. /\ Contents = Rocks!Replay(sst, wal)[Len(wal)]
            /\ Survivors = {Rocks!Replay(sst, wal)[n] : n \in synced .. Len(wal)}
        BY <3>2, RocksView
      <4>. QED
        BY <2>1, <4>1, <4>2, <4>3, <4>4
    <3>. QED
      BY <2>1, <3>1, <3>2
  <2>. QED
    BY <2>1, <2>2, <2>3 DEF Kv!Init
<1>2. StorageInv /\ [Next]_vars => [Kv!Next]_(Kv!vars)
  <2>. SUFFICES ASSUME StorageInv, [Next]_vars PROVE Kv!Next \/ UNCHANGED Kv!vars
    OBVIOUS
  <2>1. CASE UNCHANGED vars
    BY <2>1 DEF vars, Kv!vars, Requests, Contents, Survivors, Lmdb!Contents, Rocks!Contents,
                Rocks!Survivors, Rocks!After
  <2>. QED
    BY <2>1, LmdbRefines, RocksRefines DEF Next
<1>. QED
  BY <1>1, <1>2, StorageInvariant, PTL DEF Spec, KvSpec, Kv!Spec

-----------------------------------------------------------------------------
(* Reads.  What a store with KvStore's steps can come to hold.             *)

\* Finitely many rows, one for a key, none of which get would take for absent.
Sound(rows) ==
    /\ IsFiniteSet(rows) /\ Unique(rows)
    /\ \A r \in rows : IsRow(r) /\ r[3] # None

SoundInv ==
    /\ Requests \in [Thread -> Request \cup {None}]
    /\ \A rows \in Survivors \cup {Contents} : Sound(rows)

LEMMA SoundPart ==
    ASSUME NEW rows, Sound(rows), NEW part \in SUBSET rows
    PROVE  Sound(part)
<1>1. IsFiniteSet(part)
  BY FS_Subset DEF Sound
<1>. QED
  BY <1>1 DEF Sound, Unique

LEMMA SoundOp ==
    ASSUME NEW rows, Sound(rows), NEW op \in WriteOp
    PROVE  Sound(Kv!ApplyOp(rows, op))
<1> DEFINE new == <<op.cf, op.key, op.value>>
<1>1. \A x \in Kv!ApplyOp(rows, op) : x \in rows \/ (op.op = "put" /\ x = new)
  BY InApplied
<1>2. IsFiniteSet(rows \cup {new})
  BY FS_AddElement DEF Sound
<1>3. IsFiniteSet(Kv!ApplyOp(rows, op))
  <2>1. Kv!ApplyOp(rows, op) \in SUBSET (rows \cup {new})
    BY <1>1
  <2>. QED
    BY <1>2, <2>1, FS_Subset
<1>4. Unique(Kv!ApplyOp(rows, op))
  BY UniqueOp DEF Sound
<1>5. op.op = "put" => IsRow(new) /\ new[3] # None
  BY StorageAssumption DEF IsRow
<1>6. \A x \in Kv!ApplyOp(rows, op) : IsRow(x) /\ x[3] # None
  <2> HIDE DEF new
  <2>. QED
    BY <1>1, <1>5 DEF Sound
<1>. QED
  BY <1>3, <1>4, <1>6 DEF Sound

LEMMA SoundOps ==
    ASSUME NEW rows, Sound(rows), NEW ops \in Seq(WriteOp)
    PROVE  Sound(Kv!ApplyOps(rows, ops))
<1>1. PICK f : Steps(f, rows, ops) /\ f[Len(ops)] = Kv!ApplyOps(rows, ops)
  BY FoldSteps
<1>2. PICK n \in Nat : n = Len(ops)
  OBVIOUS
<1> DEFINE Good == {k \in Nat : Sound(f[k])}
<1>3. 0 \in Good
  BY <1>1 DEF Steps
<1>4. ASSUME NEW k \in Nat, k < n, k \in Good PROVE k + 1 \in Good
  <2>1. k + 1 \in 1 .. Len(ops) /\ (k + 1) - 1 = k
    BY <1>2, <1>4
  <2>2. f[k + 1] = Kv!ApplyOp(f[k], ops[k + 1]) /\ ops[k + 1] \in WriteOp
    BY <1>1, <2>1 DEF Steps
  <2>. QED
    BY <1>4, <2>2, SoundOp
<1>5. Good \in SUBSET Nat
  OBVIOUS
<1>6. n \in 0 .. n
  OBVIOUS
<1>7. n \in Good
  <2> HIDE DEF Good
  <2>. QED
    BY <1>3, <1>4, <1>5, <1>6, Induct
<1>. QED
  BY <1>1, <1>2, <1>7

LEMMA SoundStep ==
    ASSUME SoundInv, [Kv!Next]_(Kv!vars)
    PROVE  SoundInv'
<1>1. ASSUME NEW p \in Thread, NEW r \in Request, Kv!Invoke(p, r) PROVE SoundInv'
  BY <1>1 DEF SoundInv, Kv!Invoke
<1>2. ASSUME NEW p \in Thread, NEW outcome, Kv!Return(p, outcome)
      PROVE  /\ Requests' \in [Thread -> Request \cup {None}]
             /\ Requests[p].ops \in Seq(WriteOp)
  <2>1. Requests[p] \in Request
    BY <1>2 DEF SoundInv, Kv!Return
  <2>. QED
    BY <1>2, <2>1, RequestForm DEF SoundInv, Kv!Return
<1>3. ASSUME NEW p \in Thread, Kv!Succeed(p) PROVE SoundInv'
  <2>1. /\ Requests' \in [Thread -> Request \cup {None}]
        /\ Requests[p].ops \in Seq(WriteOp)
    BY <1>2, <1>3 DEF Kv!Succeed
  <2>2. Contents' = Kv!ApplyOps(Contents, Requests[p].ops)
    BY <1>3 DEF Kv!Succeed
  <2>3. Sound(Contents')
    BY <2>1, <2>2, SoundOps DEF SoundInv
  <2>4. Survivors' \subseteq Survivors \cup {Contents'}
    BY <1>3 DEF Kv!Succeed
  <2>. QED
    BY <2>1, <2>3, <2>4 DEF SoundInv
<1>4. ASSUME NEW p \in Thread, Kv!Refuse(p) \/ Kv!Fail(p) PROVE SoundInv'
  <2>1. Requests' \in [Thread -> Request \cup {None}]
    BY <1>2, <1>4 DEF Kv!Refuse, Kv!Fail
  <2>2. Contents' = Contents /\ Survivors' = Survivors
    BY <1>4 DEF Kv!Refuse, Kv!Fail
  <2>. QED
    BY <2>1, <2>2 DEF SoundInv
<1>5. CASE Kv!Stop
  BY <1>5 DEF SoundInv, Kv!Stop
<1>6. CASE Kv!Sync
  BY <1>6 DEF SoundInv, Kv!Sync
<1>7. CASE Kv!Expire
  <2>1. ASSUME NEW t \in Survivors' PROVE Sound(t)
    <3>1. PICK s \in Survivors : t \in SUBSET s
      BY <1>7 DEF Kv!Expire, Kv!Aged
    <3>. QED
      BY <3>1, SoundPart DEF SoundInv
  <2>2. Contents' \in Survivors' /\ Requests' = Requests
    BY <1>7 DEF Kv!Expire
  <2>. QED
    BY <2>1, <2>2 DEF SoundInv
<1>8. CASE UNCHANGED Kv!vars
  BY <1>8 DEF SoundInv, Kv!vars
<1>. QED
  BY <1>1, <1>3, <1>4, <1>5, <1>6, <1>7, <1>8 DEF Kv!Next

LEMMA SoundStart == ASSUME Kv!Init PROVE SoundInv
<1>1. Sound({})
  BY FS_EmptySet DEF Sound, Unique
<1>. QED
  BY <1>1 DEF SoundInv, Kv!Init

-----------------------------------------------------------------------------
(* Scans and lookups.                                                      *)

\* The two engines and the property order keys alike.
LEMMA SamePrefixes ==
    ASSUME NEW s, NEW t
    PROVE  /\ Lmdb!StartsWith(s, t) = StartsWith(s, t)
           /\ Rocks!StartsWith(s, t) = StartsWith(s, t)
           /\ Rocks!LexLess(s, t) = LexLess(s, t)
  BY DEF Lmdb!StartsWith, Rocks!StartsWith, StartsWith, Lmdb!IsPrefix, Rocks!IsPrefix,
         IsPrefix, Rocks!LexLess, LexLess, Rocks!IsStrictPrefix, IsStrictPrefix

LEMMA LmdbOrder == ASSUME NEW K PROVE Lmdb!InKeyOrder(K) = InKeyOrder(K)
  BY Zenon DEF Lmdb!InKeyOrder, InKeyOrder, Lmdb!LexLess, LexLess, Lmdb!IsStrictPrefix,
               IsStrictPrefix, Lmdb!IsPrefix, IsPrefix, Lmdb!Cardinality, Cardinality

LEMMA RocksOrder == ASSUME NEW K PROVE Rocks!InKeyOrder(K) = InKeyOrder(K)
  BY Zenon DEF Rocks!InKeyOrder, InKeyOrder, Rocks!LexLess, LexLess, Rocks!IsStrictPrefix,
               IsStrictPrefix, Rocks!IsPrefix, IsPrefix, Rocks!Cardinality, Cardinality

LEMMA FiniteKeys ==
    ASSUME NEW rows, IsFiniteSet(rows)
    PROVE  IsFiniteSet({row[2] : row \in rows})
<1> DEFINE K == {row[2] : row \in rows}
           f == [row \in rows |-> row[2]]
<1>1. f \in Surjection(rows, K)
  BY DEF Surjection
<1> HIDE DEF f, K
<1>2. IsFiniteSet(K)
  BY <1>1, FS_Surjection
<1>. QED
  BY <1>2 DEF K

\* Looking up a key among rows of one family finds the row.
LEMMA Found ==
    ASSUME NEW rows, Unique(rows), NEW part \in SUBSET rows, NEW cf,
           \A r \in part : r[1] = cf, NEW r \in part
    PROVE  (CHOOSE row \in part : row[2] = r[2]) = r
<1> DEFINE c == CHOOSE row \in part : row[2] = r[2]
<1>1. c \in part /\ c[2] = r[2]
  BY Zenon
<1> HIDE DEF c
<1>2. c = r
  BY <1>1 DEF Unique
<1>. QED
  BY <1>2 DEF c

\* What a scan has to return.
InRange(rows, cf, s) == {row \in rows : row[1] = cf /\ StartsWith(row[2], s)}
KeysIn(rows, cf, s) == {row[2] : row \in InRange(rows, cf, s)}
ValueIn(rows, cf, s, key) == (CHOOSE row \in InRange(rows, cf, s) : row[2] = key)[3]

LEMMA ScanIs ==
    ASSUME NEW cf, NEW s, Sound(Contents)
    PROVE  LET K == KeysIn(Contents, cf, s)
               keys == InKeyOrder(K)
           IN  /\ K \in SUBSET Seq(Nat) /\ IsFiniteSet(K)
               /\ Cardinality(K) \in Nat
               /\ keys \in [1 .. Cardinality(K) -> K]
               /\ Scan(cf, s) = [i \in 1 .. Cardinality(K) |->
                                    <<keys[i], ValueIn(Contents, cf, s, keys[i])>>]
               /\ \A r \in InRange(Contents, cf, s) :
                      ValueIn(Contents, cf, s, r[2]) = r[3]
<1> DEFINE R == InRange(Contents, cf, s)
           K == KeysIn(Contents, cf, s)
           keys == InKeyOrder(K)
<1>1. R \in SUBSET Contents /\ \A r \in R : r[1] = cf
  BY DEF InRange
<1>2. IsFiniteSet(K)
  <2>1. IsFiniteSet(R)
    BY <1>1, FS_Subset DEF Sound
  <2> HIDE DEF R
  <2>. QED
    BY <2>1, FiniteKeys DEF KeysIn, R
<1>3. K \in SUBSET Seq(Nat)
  BY <1>1 DEF KeysIn, Sound, IsRow
<1>4. Cardinality(K) \in Nat /\ keys \in [1 .. Cardinality(K) -> K]
  <2> HIDE DEF K
  <2>. QED
    BY <1>2, <1>3, KeyAt
<1>5. DOMAIN keys = 1 .. Cardinality(K)
  BY <1>4
<1>6. Scan(cf, s) = [i \in DOMAIN keys |-> <<keys[i], ValueIn(Contents, cf, s, keys[i])>>]
  BY Zenon DEF Scan, KeysIn, ValueIn, InRange
<1>7. ASSUME NEW r \in R PROVE ValueIn(Contents, cf, s, r[2]) = r[3]
  <2>1. (CHOOSE row \in R : row[2] = r[2]) = r
    <3> HIDE DEF R
    <3>. QED
      BY <1>1, Found DEF Sound
  <2>. QED
    BY <2>1, Zenon DEF ValueIn
<1> HIDE DEF keys
<1>. QED
  BY <1>2, <1>3, <1>4, <1>5, <1>6, <1>7 DEF keys

\* RocksDB: the keys with the prefix are the first that the iterator meets.
LEMMA RocksScan ==
    ASSUME engine = "RocksDb", Sound(Contents), NEW cf, NEW s \in Seq(Nat)
    PROVE  Rocks!prefix_scan(cf, s) = Scan(cf, s)
<1> DEFINE K == KeysIn(Contents, cf, s)
           keys == InKeyOrder(K)
           N == Cardinality(K)
           rows == {row \in Rocks!Contents : row[1] = cf}
           after == {r \in rows : ~LexLess(r[2], s)}
           F == {row[2] : row \in after}
           from == InKeyOrder(F)
           met == {i \in DOMAIN from : \A j \in 1 .. i : StartsWith(from[j], s)}
           V(key) == (CHOOSE row \in rows : row[2] = key)[3]
<1>0. rows = {row \in Contents : row[1] = cf}
  BY DEF Contents
<1>1. /\ K \in SUBSET Seq(Nat) /\ IsFiniteSet(K) /\ N \in Nat
      /\ keys \in [1 .. N -> K]
      /\ Scan(cf, s) = [i \in 1 .. N |-> <<keys[i], ValueIn(Contents, cf, s, keys[i])>>]
      /\ \A r \in InRange(Contents, cf, s) : ValueIn(Contents, cf, s, r[2]) = r[3]
  BY ScanIs
<1>2. Rocks!prefix_scan(cf, s) = [i \in met |-> <<from[i], V(from[i])>>]
  <2> DEFINE rocksAfter == {r \in rows : ~Rocks!LexLess(r[2], s)}
             rocksFrom == Rocks!InKeyOrder({row[2] : row \in rocksAfter})
             rocksMet == {i \in DOMAIN rocksFrom :
                             \A j \in 1 .. i : Rocks!StartsWith(rocksFrom[j], s)}
  <2>1. Rocks!prefix_scan(cf, s) = [i \in rocksMet |-> <<rocksFrom[i], V(rocksFrom[i])>>]
    BY Zenon DEF Rocks!prefix_scan
  <2>2. rocksAfter = after
    <3> HIDE DEF rows
    <3>. QED
      BY SamePrefixes
  <2>3. rocksFrom = from
    <3> HIDE DEF rocksAfter, after
    <3>. QED
      BY <2>2, RocksOrder
  <2>4. rocksMet = met
    <3> HIDE DEF rocksFrom, from
    <3>. QED
      BY <2>3, SamePrefixes
  <2> HIDE DEF rocksFrom, from, rocksMet, met
  <2>. QED
    BY <2>1, <2>3, <2>4
<1>3. IsFiniteSet(F) /\ F \in SUBSET Seq(Nat)
  <2>1. after \in SUBSET Contents
    BY <1>0
  <2>2. IsFiniteSet(after)
    BY <2>1, FS_Subset DEF Sound
  <2>3. \A r \in after : r[2] \in Seq(Nat)
    BY <2>1 DEF Sound, IsRow
  <2> HIDE DEF after
  <2>. QED
    BY <2>2, <2>3, FiniteKeys
<1>4. \A x \in F : x \in K <=> StartsWith(x, s)
  BY <1>0 DEF KeysIn, InRange
<1>5. K \in SUBSET F
  <2> SUFFICES ASSUME NEW r \in InRange(Contents, cf, s) PROVE r[2] \in F
    BY DEF KeysIn
  <2>1. r \in rows /\ StartsWith(r[2], s) /\ r[2] \in Seq(Nat)
    BY <1>0 DEF InRange, Sound, IsRow
  <2>2. ~LexLess(r[2], s)
    BY <2>1, PrefixFirst
  <2>. QED
    BY <2>1, <2>2
<1>6. \A x \in K, y \in F : LexLess(y, x) => y \in K
  <2> SUFFICES ASSUME NEW x \in K, NEW y \in F, LexLess(y, x) PROVE y \in K
    OBVIOUS
  <2>1. StartsWith(x, s) /\ x \in Seq(Nat) /\ y \in Seq(Nat)
    BY <1>1, <1>3, <1>4, <1>5
  <2>2. ~LexLess(y, s)
    OBVIOUS
  <2>3. StartsWith(y, s)
    BY <2>1, <2>2, PrefixFirst
  <2>. QED
    BY <1>4, <2>3
<1>7. \A k \in K : V(k) = ValueIn(Contents, cf, s, k)
  <2> SUFFICES ASSUME NEW r \in InRange(Contents, cf, s)
               PROVE  V(r[2]) = ValueIn(Contents, cf, s, r[2])
    BY DEF KeysIn
  <2>1. rows \in SUBSET Contents /\ (\A x \in rows : x[1] = cf) /\ r \in rows
    BY <1>0 DEF InRange
  <2>2. (CHOOSE row \in rows : row[2] = r[2]) = r
    <3> HIDE DEF rows
    <3>. QED
      BY <2>1, Found DEF Sound
  <2>. QED
    BY <1>1, <2>2
<1> HIDE DEF K, F, V
<1>8. /\ Cardinality(F) \in Nat /\ N <= Cardinality(F)
      /\ \A n \in 1 .. N : from[n] = keys[n]
      /\ \A n \in 1 .. Cardinality(F) : from[n] \in K <=> n <= N
  BY <1>3, <1>5, <1>6, KeysFirst
<1>9. DOMAIN from = 1 .. Cardinality(F) /\ from \in [1 .. Cardinality(F) -> F]
  BY <1>3, KeyAt
<1> HIDE DEF from, keys, N
<1>10. met = 1 .. N
  <2>1. \A n \in 1 .. Cardinality(F) : StartsWith(from[n], s) <=> n <= N
    BY <1>4, <1>8, <1>9
  <2>2. ASSUME NEW i \in met PROVE i \in 1 .. N
    <3>1. i \in 1 .. Cardinality(F) /\ i \in 1 .. i /\ StartsWith(from[i], s)
      BY <1>8, <1>9
    <3>. QED
      BY <1>1, <2>1, <3>1
  <2>3. ASSUME NEW i \in 1 .. N PROVE i \in met
    <3>1. \A j \in 1 .. i : j \in 1 .. Cardinality(F) /\ j <= N
      BY <1>1, <1>8
    <3>2. i \in DOMAIN from
      BY <1>1, <1>8, <1>9
    <3>. QED
      BY <2>1, <3>1, <3>2
  <2>. QED
    BY <2>2, <2>3
<1>11. \A i \in 1 .. N : /\ from[i] = keys[i]
                         /\ V(from[i]) = ValueIn(Contents, cf, s, keys[i])
  BY <1>1, <1>7, <1>8
<1> HIDE DEF met
<1>. QED
  BY <1>1, <1>2, <1>10, <1>11

\* Prefixes behind a tag.
LEMMA TaggedPrefix ==
    ASSUME NEW t \in Seq(Nat), NEW p \in Seq(Nat), NEW k \in Seq(Nat)
    PROVE  /\ StartsWith(t \o k, t \o p) <=> StartsWith(k, p)
           /\ StartsWith(k, t \o p) => StartsWith(k, t)
<1>1. \A u \in Seq(Nat) :
          /\ t \o u \in Seq(Nat) /\ Len(t \o u) = Len(t) + Len(u)
          /\ \A j \in 1 .. Len(t) : (t \o u)[j] = t[j]
          /\ \A j \in 1 .. Len(u) : (t \o u)[Len(t) + j] = u[j]
  OBVIOUS
<1>2. PICK tk, tp, n : tk = t \o k /\ tp = t \o p /\ n = Len(t)
  OBVIOUS
<1>3. /\ n \in Nat /\ tk \in Seq(Nat) /\ Len(tk) = n + Len(k)
      /\ tp \in Seq(Nat) /\ Len(tp) = n + Len(p)
      /\ \A j \in 1 .. n : tk[j] = t[j] /\ tp[j] = t[j]
      /\ \A j \in 1 .. Len(k) : tk[n + j] = k[j]
      /\ \A j \in 1 .. Len(p) : tp[n + j] = p[j]
  <2>1. Len(t) \in Nat
    OBVIOUS
  <2>2. /\ t \o k \in Seq(Nat) /\ Len(t \o k) = Len(t) + Len(k)
        /\ \A j \in 1 .. Len(t) : (t \o k)[j] = t[j]
        /\ \A j \in 1 .. Len(k) : (t \o k)[Len(t) + j] = k[j]
    BY <1>1, Zenon
  <2>3. /\ t \o p \in Seq(Nat) /\ Len(t \o p) = Len(t) + Len(p)
        /\ \A j \in 1 .. Len(t) : (t \o p)[j] = t[j]
        /\ \A j \in 1 .. Len(p) : (t \o p)[Len(t) + j] = p[j]
    BY <1>1, Zenon
  <2>. QED
    BY <1>2, <2>1, <2>2, <2>3, Zenon
<1>4. ASSUME StartsWith(tk, tp) PROVE StartsWith(k, p)
  <2>1. Len(tp) <= Len(tk) /\ \A j \in 1 .. Len(tp) : tp[j] = tk[j]
    BY <1>3, <1>4, PrefixItems
  <2>2. Len(p) <= Len(k)
    BY <1>3, <2>1
  <2>3. ASSUME NEW j \in 1 .. Len(p) PROVE p[j] = k[j]
    <3>1. n + j \in 1 .. Len(tp) /\ j \in 1 .. Len(k)
      BY <1>3, <2>2
    <3>. QED
      BY <1>3, <2>1, <3>1
  <2>. QED
    BY <2>2, <2>3, PrefixItems
<1>5. ASSUME StartsWith(k, p) PROVE StartsWith(tk, tp)
  <2>1. Len(p) <= Len(k) /\ \A j \in 1 .. Len(p) : p[j] = k[j]
    BY <1>5, PrefixItems
  <2>2. Len(tp) <= Len(tk)
    BY <1>3, <2>1
  <2>3. ASSUME NEW j \in 1 .. Len(tp) PROVE tp[j] = tk[j]
    <3>1. CASE j <= n
      BY <1>3, <3>1
    <3>2. CASE ~(j <= n)
      <4>1. j \in Nat /\ j <= n + Len(p) /\ n < j /\ n \in Nat /\ Len(p) <= Len(k)
        BY <1>3, <2>1, <3>2
      <4>2. j - n \in 1 .. Len(p) /\ j - n \in 1 .. Len(k) /\ n + (j - n) = j
        BY <4>1
      <4>3. tp[n + (j - n)] = p[j - n] /\ tk[n + (j - n)] = k[j - n] /\ p[j - n] = k[j - n]
        BY <1>3, <2>1, <4>2
      <4>. QED
        BY <4>2, <4>3
    <3>. QED
      BY <3>1, <3>2
  <2>. QED
    BY <1>3, <2>2, <2>3, PrefixItems
<1>6. ASSUME StartsWith(k, tp) PROVE StartsWith(k, t)
  <2>1. Len(tp) <= Len(k) /\ \A j \in 1 .. Len(tp) : tp[j] = k[j]
    BY <1>3, <1>6, PrefixItems
  <2>2. Len(t) <= Len(k)
    BY <1>2, <1>3, <2>1
  <2>3. \A j \in 1 .. Len(t) : j \in 1 .. Len(tp)
    BY <1>2, <1>3
  <2>4. \A j \in 1 .. Len(t) : t[j] = k[j]
    BY <1>2, <1>3, <2>1, <2>3
  <2>. QED
    BY <2>2, <2>4, PrefixItems
<1>. QED
  BY <1>2, <1>4, <1>5, <1>6

\* A row of a family and the stored row behind it.
LEMMA StoredRow ==
    ASSUME engine = "Lmdb", Rows(env), NEW cf \in ColumnFamily
    PROVE  /\ \A x \in Contents : x[1] = cf =>
                  \E r \in env : /\ Stores(cf, r) /\ IsRow(r) /\ x = RowOf(cf, r)
                                /\ r[2] = Lmdb!Tag(cf) \o x[2] /\ r[3] = x[3]
           /\ \A r \in env : Stores(cf, r) =>
                  /\ RowOf(cf, r) \in Contents
                  /\ RowOf(cf, r)[1] = cf /\ RowOf(cf, r)[3] = r[3]
                  /\ RowOf(cf, r)[2] \in Seq(Nat)
                  /\ r[2] = Lmdb!Tag(cf) \o RowOf(cf, r)[2]
<1>1. Contents = Lmdb!ContentsOf(env)
  BY LmdbView
<1>2. Lmdb!Tag(cf) \in Seq(Nat)
  BY Routes
<1>3. ASSUME NEW r \in env, Stores(cf, r)
      PROVE  /\ RowOf(cf, r) \in Contents /\ IsRow(r)
             /\ RowOf(cf, r)[1] = cf /\ RowOf(cf, r)[3] = r[3]
             /\ RowOf(cf, r)[2] \in Seq(Nat)
             /\ r[2] = Lmdb!Tag(cf) \o RowOf(cf, r)[2]
  <2>1. IsRow(r) /\ r[2] \in Seq(Nat)
    BY DEF Rows, IsRow
  <2>2. /\ Lmdb!decode_user_key(Lmdb!Tag(cf), r[2]) \in Seq(Nat)
        /\ Lmdb!Tag(cf) \o Lmdb!decode_user_key(Lmdb!Tag(cf), r[2]) = r[2]
    BY <1>2, <1>3, <2>1, TagBack DEF Stores, Lmdb!encode_storage_key
  <2>3. RowOf(cf, r) \in Contents
    BY <1>1, <1>3, InContents
  <2>. QED
    BY <2>1, <2>2, <2>3 DEF RowOf
<1>4. ASSUME NEW x \in Contents, x[1] = cf
      PROVE  \E r \in env : /\ Stores(cf, r) /\ IsRow(r) /\ x = RowOf(cf, r)
                            /\ r[2] = Lmdb!Tag(cf) \o x[2] /\ r[3] = x[3]
  <2>1. PICK c \in ColumnFamily, r \in env : Stores(c, r) /\ x = RowOf(c, r)
    BY <1>1, InContents
  <2>2. c = cf
    BY <1>4, <2>1 DEF RowOf
  <2>. QED
    BY <1>3, <2>1, <2>2
<1>. QED
  BY <1>3, <1>4

\* LMDB: the tag keeps the families of a database apart, and leaves the order
\* of the keys behind it alone.
LEMMA LmdbScan ==
    ASSUME engine = "Lmdb", Rows(env), Sound(Contents),
           NEW cf \in ColumnFamily, NEW s \in Seq(Nat)
    PROVE  Lmdb!prefix_scan(cf, s) = Scan(cf, s)
<1> DEFINE K == KeysIn(Contents, cf, s)
           keys == InKeyOrder(K)
           N == Cardinality(K)
           tag == Lmdb!Tag(cf)
           met == {row \in env : /\ row[1] = Lmdb!Database(cf)
                                 /\ Lmdb!StartsWith(row[2], tag \o s)}
           stored == {row[2] : row \in met}
           list == Lmdb!InKeyOrder(stored)
           V(key) == (CHOOSE row \in met : row[2] = key)[3]
<1>1. /\ K \in SUBSET Seq(Nat) /\ IsFiniteSet(K) /\ N \in Nat
      /\ keys \in [1 .. N -> K]
      /\ Scan(cf, s) = [i \in 1 .. N |-> <<keys[i], ValueIn(Contents, cf, s, keys[i])>>]
      /\ \A r \in InRange(Contents, cf, s) : ValueIn(Contents, cf, s, r[2]) = r[3]
  BY ScanIs
<1>2. Lmdb!prefix_scan(cf, s) =
          [i \in DOMAIN list |-> <<Lmdb!decode_user_key(tag, list[i]), V(list[i])>>]
  BY Zenon DEF Lmdb!prefix_scan
<1>3. tag \in Seq(Nat)
  BY Routes
<1> HIDE DEF tag
<1>4. ASSUME NEW r \in met
      PROVE  \E x \in InRange(Contents, cf, s) : r[2] = tag \o x[2] /\ r[3] = x[3]
  <2>1. r \in env /\ StartsWith(r[2], tag \o s) /\ r[2] \in Seq(Nat)
    BY SamePrefixes DEF Rows, IsRow
  <2>2. Stores(cf, r)
    BY <1>3, <2>1, TaggedPrefix, SamePrefixes DEF Stores, tag
  <2> DEFINE x == RowOf(cf, r)
  <2>3. /\ x \in Contents /\ x[1] = cf /\ x[3] = r[3] /\ x[2] \in Seq(Nat)
        /\ r[2] = tag \o x[2]
    BY <2>1, <2>2, StoredRow DEF tag
  <2> HIDE DEF x
  <2>4. StartsWith(x[2], s)
    BY <1>3, <2>1, <2>3, TaggedPrefix
  <2>. QED
    BY <2>3, <2>4 DEF InRange
<1>5. ASSUME NEW x \in InRange(Contents, cf, s)
      PROVE  \E r \in met : r[2] = tag \o x[2] /\ r[3] = x[3]
  <2>1. x \in Contents /\ x[1] = cf /\ StartsWith(x[2], s) /\ x[2] \in Seq(Nat)
    BY DEF InRange, Sound, IsRow
  <2>2. PICK r \in env : Stores(cf, r) /\ r[2] = tag \o x[2] /\ r[3] = x[3]
    BY <2>1, StoredRow, ZenonT(40) DEF tag
  <2>3. StartsWith(r[2], tag \o s)
    BY <1>3, <2>1, <2>2, TaggedPrefix
  <2>4. r \in met
    BY <2>2, <2>3, SamePrefixes DEF Stores
  <2>. QED
    BY <2>2, <2>4
<1>6. stored = {tag \o k : k \in K}
  <2>1. \A y \in stored : \E k \in K : y = tag \o k
    <3> HIDE DEF met
    <3>. QED
      BY <1>4 DEF KeysIn
  <2>2. \A k \in K : tag \o k \in stored
    <3> HIDE DEF met
    <3>. QED
      BY <1>5 DEF KeysIn
  <2> HIDE DEF stored, K
  <2>. QED
    BY <2>1, <2>2
<1>7. ASSUME NEW k \in K PROVE V(tag \o k) = ValueIn(Contents, cf, s, k)
  <2>1. PICK x \in InRange(Contents, cf, s) : x[2] = k
    BY DEF KeysIn
  <2>2. PICK r \in met : r[2] = tag \o k /\ r[3] = x[3]
    BY <1>5, <2>1
  <2>3. met \in SUBSET env /\ \A row \in met : row[1] = Lmdb!Database(cf)
    OBVIOUS
  <2>4. (CHOOSE row \in met : row[2] = r[2]) = r
    <3> HIDE DEF met
    <3>. QED
      BY <2>3, Found DEF Rows
  <2>. QED
    BY <1>1, <2>1, <2>2, <2>4
<1>8. list = InKeyOrder({tag \o k : k \in K})
  <2> HIDE DEF stored
  <2>. QED
    BY <1>6, LmdbOrder
<1> HIDE DEF K, V, list
<1>9. \A n \in 1 .. N : list[n] = tag \o keys[n]
  BY <1>1, <1>3, <1>8, TaggedKeys
<1>10. DOMAIN list = 1 .. N
  <2> DEFINE tagged == {tag \o k : k \in K}
  <2>1. Cardinality(tagged) = N
    BY <1>1, <1>3, TaggedKeys
  <2>2. list = InKeyOrder(tagged)
    BY <1>8
  <2> HIDE DEF tagged
  <2>. QED
    BY <2>1, <2>2 DEF InKeyOrder
<1>11. \A n \in 1 .. N : /\ Lmdb!decode_user_key(tag, list[n]) = keys[n]
                         /\ V(list[n]) = ValueIn(Contents, cf, s, keys[n])
  <2> SUFFICES ASSUME NEW n \in 1 .. N
               PROVE  /\ Lmdb!decode_user_key(tag, list[n]) = keys[n]
                      /\ V(list[n]) = ValueIn(Contents, cf, s, keys[n])
    OBVIOUS
  <2>1. keys[n] \in K /\ keys[n] \in Seq(Nat)
    BY <1>1
  <2>2. Lmdb!decode_user_key(tag, tag \o keys[n]) = keys[n]
    BY <1>3, <2>1, TagThere DEF Lmdb!encode_storage_key
  <2>. QED
    BY <1>7, <1>9, <2>1, <2>2
<1> HIDE DEF keys, N
<1>. QED
  BY <1>1, <1>2, <1>10, <1>11

\* get finds a key exactly if it is there.
LEMMA RocksGet ==
    ASSUME engine = "RocksDb", Sound(Contents), NEW cf, NEW s
    PROVE  IF Rocks!get(cf, s) = None
           THEN \A row \in Contents : <<row[1], row[2]>> # <<cf, s>>
           ELSE <<cf, s, Rocks!get(cf, s)>> \in Contents
<1> DEFINE found == {row \in Rocks!Contents : row[1] = cf /\ row[2] = s}
           r == CHOOSE row \in found : TRUE
<1>1. Rocks!get(cf, s) = IF found = {} THEN None ELSE r[3]
  BY Zenon DEF Rocks!get
<1>2. found = {row \in Contents : row[1] = cf /\ row[2] = s}
  BY DEF Contents
<1>3. found # {} => r \in found
  BY Zenon
<1> HIDE DEF found, r
<1>4. CASE found = {}
  BY <1>1, <1>2, <1>4
<1>5. CASE found # {}
  <2>1. r \in Contents /\ r[1] = cf /\ r[2] = s
    BY <1>2, <1>3, <1>5
  <2>2. r = <<r[1], r[2], r[3]>> /\ r[3] # None
    BY <2>1 DEF Sound, IsRow
  <2>. QED
    BY <1>1, <1>5, <2>1, <2>2
<1>. QED
  BY <1>4, <1>5

LEMMA LmdbGet ==
    ASSUME engine = "Lmdb", Rows(env), Sound(Contents),
           NEW cf \in ColumnFamily, NEW s \in Seq(Nat)
    PROVE  IF Lmdb!get(cf, s) = None
           THEN \A row \in Contents : <<row[1], row[2]>> # <<cf, s>>
           ELSE <<cf, s, Lmdb!get(cf, s)>> \in Contents
<1> DEFINE tag == Lmdb!Tag(cf)
           found == {row \in env : /\ row[1] = Lmdb!Database(cf)
                                   /\ row[2] = Lmdb!encode_storage_key(tag, s)}
           r == CHOOSE row \in found : TRUE
<1>1. Lmdb!get(cf, s) = IF found = {} THEN None ELSE r[3]
  BY Zenon DEF Lmdb!get
<1>2. found # {} => r \in found
  BY Zenon
<1>3. tag \in Seq(Nat)
  BY Routes
<1>4. ASSUME NEW row \in Contents, <<row[1], row[2]>> = <<cf, s>> PROVE found # {}
  <2>1. row[1] = cf /\ row[2] = s
    BY <1>4
  <2>2. PICK x \in env : Stores(cf, x) /\ x[2] = tag \o s
    BY <2>1, StoredRow, ZenonT(40)
  <2>. QED
    BY <2>2 DEF Stores, Lmdb!encode_storage_key
<1>5. CASE found = {}
  BY <1>1, <1>4, <1>5
<1>6. CASE found # {}
  <2>1. /\ r \in env /\ r[1] = Lmdb!Database(cf)
        /\ r[2] = Lmdb!encode_storage_key(tag, s)
    BY <1>2, <1>6
  <2> HIDE DEF r, found
  <2>2. /\ Lmdb!StartsWith(r[2], tag)
        /\ Lmdb!decode_user_key(tag, r[2]) = s
    BY <1>3, <2>1, TagThere
  <2>3. Stores(cf, r) /\ RowOf(cf, r) = <<cf, s, r[3]>>
    BY <2>1, <2>2 DEF Stores, RowOf
  <2>4. <<cf, s, r[3]>> \in Contents
    BY <2>1, <2>3, StoredRow
  <2>5. r[3] # None
    <3> DEFINE x == <<cf, s, r[3]>>
    <3>1. x \in Contents /\ x[3] = r[3]
      BY <2>4
    <3> HIDE DEF x
    <3>. QED
      BY <3>1 DEF Sound
  <2>. QED
    BY <1>1, <1>6, <2>4, <2>5
<1>. QED
  BY <1>5, <1>6

LEMMA ReadsInv == StorageInv /\ SoundInv => ReadsStayInTheirFamily
<1> SUFFICES ASSUME StorageInv, SoundInv, NEW read \in Read
             PROVE  LET cf == read[1]
                        s == read[2]
                        found == IF engine = "Lmdb" THEN Lmdb!get(cf, s) ELSE Rocks!get(cf, s)
                    IN  /\ Scan(cf, s) = IF engine = "Lmdb" THEN Lmdb!prefix_scan(cf, s)
                                         ELSE Rocks!prefix_scan(cf, s)
                        /\ IF found = None THEN \A row \in Contents : <<row[1], row[2]>> # read
                           ELSE <<cf, s, found>> \in Contents
  BY DEF ReadsStayInTheirFamily
<1>1. PICK cf \in ColumnFamily, s \in Seq(Nat) : read = <<cf, s>>
  BY StorageAssumption
<1>2. Sound(Contents)
  BY DEF SoundInv
<1>3. CASE engine = "Lmdb"
  <2>1. Rows(env)
    BY <1>3 DEF StorageInv, LmdbInv
  <2>. QED
    BY <1>1, <1>2, <1>3, <2>1, LmdbScan, LmdbGet
<1>4. CASE engine = "RocksDb"
  BY <1>1, <1>2, <1>4, RocksScan, RocksGet
<1>. QED
  BY <1>3, <1>4 DEF StorageInv

\* prefix_scan returns exactly the rows of its own family that have the prefix,
\* in the order of their keys, and get exactly the row of its key, with either
\* engine: the tags of LMDB keep families of one database apart, and the
\* iterator of RocksDB meets all keys with the prefix before it stops.
THEOREM ReadsCorrect == Spec => []ReadsStayInTheirFamily
<1>1. SoundInv /\ [Kv!Next]_(Kv!vars) => SoundInv'
  BY SoundStep
<1>2. Kv!Init => SoundInv
  BY SoundStart
<1>3. KvSpec => []SoundInv
  BY <1>1, <1>2, PTL DEF KvSpec, Kv!Spec
<1>. QED
  BY <1>3, StorageRefinement, StorageInvariant, ReadsInv, PTL

=============================================================================
