--------------------------- MODULE KvStoreProofs ---------------------------
(***************************************************************************)
(* Proofs about KvStore, for every pool: what is stored is read back as    *)
(* near as its format allows, whoever had the slot before, and a gather    *)
(* brings attention the positions it selected.                             *)
(***************************************************************************)
EXTENDS KvStore, PrefixLemmas

-----------------------------------------------------------------------------
(* Numbers.                                                                *)

LEMMA AbsType == \A x \in Int : Abs(x) \in Nat /\ (Abs(x) = x \/ Abs(x) = -x) /\ x <= Abs(x) /\ -x <= Abs(x)
BY DEF Abs

(* What is rounded is at most half a unit away.                            *)
LEMMA RintNear ==
  ASSUME NEW n \in Int, NEW d \in Nat \ {0}
  PROVE  /\ Rint(n, d) \in Int
         /\ 2 * (d * Rint(n, d)) - 2 * n <= d
         /\ 2 * n - 2 * (d * Rint(n, d)) <= d
<1> DEFINE f == n \div d
           r == n % d
<1>1. f \in Int /\ r \in 0 .. d - 1 /\ n = d * f + r
  OBVIOUS
<1>2. d * (f + 1) = d * f + d
  BY <1>1
<1>3. Rint(n, d) = IF 2 * r < d \/ (2 * r = d /\ f % 2 = 0) THEN f ELSE f + 1
  BY DEF Rint
<1>4. (Rint(n, d) = f /\ 2 * r <= d) \/ (Rint(n, d) = f + 1 /\ 2 * r >= d)
  <2> HIDE DEF f, r
  <2> QED BY <1>1, <1>3
<1> HIDE DEF f, r
<1>5. PICK p \in Int : p = d * f
  BY <1>1
<1> QED BY <1>1, <1>2, <1>4, <1>5

LEMMA MulLe == \A k \in Nat, p, q \in Int : p <= q => k * p <= k * q
<1> SUFFICES ASSUME NEW k \in Nat, NEW p \in Int, NEW q \in Int, p <= q PROVE k * p <= k * q
  OBVIOUS
<1>1. PICK e \in Nat : q = p + e
  <2>1. q - p \in Nat
    OBVIOUS
  <2> QED BY <2>1
<1>2. k * q = k * p + k * e /\ k * e \in Nat /\ k * p \in Int
  BY <1>1
<1> QED BY <1>2

LEMMA MulApart ==
  \A k \in Nat, v, e, p \in Int :
    2 * (v - e) <= p /\ 2 * (e - v) <= p => k * (2 * (v - e)) <= k * p /\ k * (2 * (e - v)) <= k * p
<1> SUFFICES ASSUME NEW k \in Nat, NEW v \in Int, NEW e \in Int, NEW p \in Int,
                    2 * (v - e) <= p, 2 * (e - v) <= p
             PROVE  k * (2 * (v - e)) <= k * p /\ k * (2 * (e - v)) <= k * p
  OBVIOUS
<1>1. PICK x \in Int, y \in Int : x = 2 * (v - e) /\ y = 2 * (e - v) /\ x <= p /\ y <= p
  OBVIOUS
<1>2. k * x <= k * p /\ k * y <= k * p
  BY <1>1, MulLe
<1> QED BY <1>1, <1>2

LEMMA PositiveProduct ==
  \A p, q \in Int : (p > 0 /\ q > 0) \/ (p < 0 /\ q < 0) => p * q > 0
<1> SUFFICES ASSUME NEW p \in Int, NEW q \in Int, (p > 0 /\ q > 0) \/ (p < 0 /\ q < 0)
             PROVE  p * q > 0
  OBVIOUS
<1>1. CASE p > 0 /\ q > 0
  <2>1. PICK k \in Nat, l \in Nat : p = k + 1 /\ q = l + 1
    <3>1. p - 1 \in Nat /\ q - 1 \in Nat
      BY <1>1
    <3> QED BY <3>1
  <2>2. p * q = k * l + k + l + 1 /\ k * l \in Nat
    BY <2>1
  <2> QED BY <2>2
<1>2. CASE p < 0 /\ q < 0
  <2>1. PICK k \in Nat, l \in Nat : p = -k - 1 /\ q = -l - 1
    <3>1. -p - 1 \in Nat /\ -q - 1 \in Nat
      BY <1>2
    <3> QED BY <3>1
  <2>2. p * q = k * l + k + l + 1 /\ k * l \in Nat
    BY <2>1
  <2> QED BY <2>2
<1> QED BY <1>1, <1>2

(* An address of a row of n of b columns tells row and column.             *)
LEMMA AddressUnique ==
  ASSUME NEW b \in Nat, NEW m \in Nat, NEW n \in Nat, NEW i \in 0 .. b - 1, NEW j \in 0 .. b - 1,
         m * b + i = n * b + j
  PROVE  m = n /\ i = j
<1>1. ASSUME NEW k \in Nat, NEW l \in Nat, k < l PROVE k * b + b <= l * b
  <2>1. PICK e \in Nat : l = (k + 1) + e
    BY <1>1
  <2>2. l * b = (k + 1) * b + e * b /\ (k + 1) * b = k * b + b /\ e * b \in Nat
    BY <2>1
  <2> QED BY <2>2
<1>2. m * b \in Nat /\ n * b \in Nat
  OBVIOUS
<1>3. ~(m < n)
  BY <1>1, <1>2
<1>4. ~(n < m)
  BY <1>1, <1>2
<1> QED BY <1>2, <1>3, <1>4

(* Rows of an array of m rows of b columns end where it ends.              *)
LEMMA AddressBound ==
  ASSUME NEW b \in Nat, NEW m \in Nat, NEW n \in 0 .. m - 1, NEW i \in 0 .. b - 1
  PROVE  n * b + i \in 0 .. m * b - 1
<1>1. PICK e \in Nat : m = (n + 1) + e
  <2>1. m - (n + 1) \in Nat
    OBVIOUS
  <2> QED BY <2>1
<1>2. m * b = (n + 1) * b + e * b /\ (n + 1) * b = n * b + b /\ e * b \in Nat /\ n * b \in Nat
  BY <1>1
<1> QED BY <1>2

(* d divided by 2 and then by g is d divided by 2 * g.                     *)
LEMMA DivTwice ==
  ASSUME NEW d \in Nat, NEW g \in Nat \ {0}
  PROVE  (d \div 2) \div g = d \div (2 * g)
<1> DEFINE q == d \div (2 * g)
           e == d \div 2
<1>1. q \in Nat /\ q * (2 * g) <= d /\ d < q * (2 * g) + 2 * g
  <2>1. 2 * g \in Nat \ {0}
    OBVIOUS
  <2> QED BY <2>1, DivBounds
<1>2. e \in Nat /\ 2 * e <= d /\ d <= 2 * e + 1
  OBVIOUS
<1>3. (e \div g) \in Nat /\ (e \div g) * g <= e /\ e < (e \div g) * g + g
  BY <1>2, DivBounds
<1> HIDE DEF q, e
<1>4. q * (2 * g) = 2 * (q * g) /\ q * g \in Nat
  BY <1>1
<1>5. q * g <= e /\ e < q * g + g
  BY <1>1, <1>2, <1>4
<1>6. PICK i \in 0 .. g - 1 : e = q * g + i
  <2>1. e - q * g \in 0 .. g - 1
    BY <1>2, <1>4, <1>5
  <2> QED BY <2>1, <1>2, <1>4
<1>7. PICK j \in 0 .. g - 1 : e = (e \div g) * g + j
  <2>1. (e \div g) * g \in Nat
    BY <1>3
  <2>2. e - (e \div g) * g \in 0 .. g - 1
    BY <1>2, <1>3, <2>1
  <2> QED BY <2>1, <2>2, <1>2
<1>8. q = e \div g
  BY <1>1, <1>3, <1>6, <1>7, AddressUnique
<1> QED BY <1>8 DEF q, e

-----------------------------------------------------------------------------
(* The pool.                                                               *)

LEMMA PoolFacts ==
  ASSUME pool \in Pools
  PROVE  /\ pool.bits \in {4, 8} /\ QMax \in 1 .. 127 /\ (pool.bits = 4 => QMax <= 7)
         /\ pool.scaleMax \in Nat \ {0} /\ pool.one \in Nat \ {0}
         /\ pool.nanCode \in -QMax .. QMax
         /\ Heads \in Nat \ {0} /\ Dim \in Nat \ {0} /\ Group \in Nat \ {0}
         /\ pool.rows \in Nat \ {0} /\ pool.reqs \in Nat \ {0}
         /\ TopK \in Nat \ {0} /\ pool.page \in Nat /\ Block \in Nat \ {0} /\ TopK <= pool.page
         /\ Dim % Group = 0 /\ (pool.bits = 4 => Group % 2 = 0)
         /\ Texts \in Seq([Sides -> [0 .. Heads - 1 -> [0 .. Dim - 1 -> Int]]])
<1>1. PoolOK(pool)
  BY PoolsAssumption
<1>2. /\ pool.bits \in {4, 8} /\ pool.qMax \in 1 .. 127 /\ (pool.bits = 4 => pool.qMax <= 7)
      /\ pool.scaleMax \in Nat \ {0} /\ pool.one \in 1 .. pool.scaleMax
      /\ pool.nanCode \in -pool.qMax .. pool.qMax
  BY <1>1 DEF PoolOK
<1>3. {pool.heads, pool.dim, pool.group, pool.rows, pool.reqs, pool.topK, pool.page, pool.block}
        \subseteq Nat \ {0}
  BY <1>1 DEF PoolOK
<1>4. pool.group % (8 \div pool.bits) = 0 /\ pool.dim % pool.group = 0 /\ pool.topK <= pool.page
  BY <1>1 DEF PoolOK
<1>5. pool.texts \in Seq([Sides -> [0 .. pool.heads - 1 -> [0 .. pool.dim - 1 -> Int]]])
  BY <1>1 DEF PoolOK
<1>6. ASSUME pool.bits = 4 PROVE pool.group % 2 = 0
  <2>1. 8 \div pool.bits = 2
    BY <1>6
  <2> QED BY <1>4, <2>1
<1> USE DEF QMax, Heads, Dim, Group, TopK, Block, Texts
<1>7. /\ pool.bits \in {4, 8} /\ QMax \in 1 .. 127 /\ (pool.bits = 4 => QMax <= 7)
      /\ pool.scaleMax \in Nat \ {0} /\ pool.one \in Nat \ {0}
      /\ pool.nanCode \in -QMax .. QMax
  BY <1>2
<1>8. /\ Heads \in Nat \ {0} /\ Dim \in Nat \ {0} /\ Group \in Nat \ {0}
      /\ pool.rows \in Nat \ {0} /\ pool.reqs \in Nat \ {0}
      /\ TopK \in Nat \ {0} /\ pool.page \in Nat /\ Block \in Nat \ {0}
  BY <1>3
<1> QED BY <1>4, <1>5, <1>6, <1>7, <1>8

LEMMA SizeFacts ==
  ASSUME pool \in Pools
  PROVE  /\ Heads \in Nat \ {0} /\ Dim \in Nat \ {0} /\ Group \in Nat \ {0}
         /\ TopK \in Nat \ {0} /\ Block \in Nat \ {0}
<1>1. {pool.heads, pool.dim, pool.group, pool.rows, pool.reqs, pool.topK, pool.page, pool.block}
        \subseteq Nat \ {0}
  BY PoolsAssumption DEF PoolOK
<1> QED BY <1>1 DEF Heads, Dim, Group, TopK, Block

LEMMA NumberFacts ==
  ASSUME pool \in Pools
  PROVE  /\ QMax \in Nat \ {0} /\ QMax \in 1 .. 127
         /\ pool.scaleMax \in Nat \ {0} /\ pool.one \in Nat \ {0}
         /\ pool.nanCode \in -QMax .. QMax
<1>1. QMax \in 1 .. 127
  BY PoolFacts
<1>2. pool.scaleMax \in Nat \ {0} /\ pool.one \in Nat \ {0} /\ pool.nanCode \in -QMax .. QMax
  BY PoolFacts
<1> QED BY <1>1, <1>2

(* A head has whole groups, and a group of the int4 pool has whole bytes.  *)
LEMMA GroupFacts ==
  ASSUME pool \in Pools
  PROVE  /\ NumGroups \in Nat \ {0} /\ Dim = NumGroups * Group
         /\ Bytes \in Nat \ {0}
         /\ pool.bits = 8 => Bytes = Dim
         /\ pool.bits = 4 => /\ Dim = 2 * Bytes /\ (Group \div 2) \in Nat \ {0}
                             /\ Group = 2 * (Group \div 2)
         /\ \A d \in 0 .. Dim - 1 : /\ d \div Group \in 0 .. NumGroups - 1
                                    /\ d \in (d \div Group) * Group .. ((d \div Group) + 1) * Group - 1
         /\ \A g \in 0 .. NumGroups - 1 : /\ g * Group .. (g + 1) * Group - 1 \subseteq 0 .. Dim - 1
                                          /\ g * Group \in g * Group .. (g + 1) * Group - 1
<1>1. /\ Dim \in Nat \ {0} /\ Group \in Nat \ {0} /\ Dim % Group = 0
      /\ pool.bits \in {4, 8} /\ (pool.bits = 4 => Group % 2 = 0)
  BY PoolFacts
<1>2. \A a, b \in Nat \ {0} : a % b = 0 => a \div b \in Nat /\ a = (a \div b) * b
  OBVIOUS
<1>3. NumGroups \in Nat /\ Dim = NumGroups * Group
  BY <1>1, <1>2 DEF NumGroups
<1>4. NumGroups # 0
  BY <1>1, <1>3
<1>5. pool.bits = 8 => Bytes = Dim
  BY <1>1 DEF Bytes
<1>6. ASSUME pool.bits = 4
      PROVE  Dim = 2 * Bytes /\ Bytes \in Nat \ {0} /\ (Group \div 2) \in Nat \ {0} /\ Group = 2 * (Group \div 2)
  <2>1. (Group \div 2) \in Nat \ {0} /\ Group = 2 * (Group \div 2)
    BY <1>1, <1>6
  <2>2. PICK h \in Nat \ {0} : Group = 2 * h
    BY <2>1
  <2>3. NumGroups * Group = 2 * (NumGroups * h) /\ NumGroups * h \in Nat
    BY <1>3, <2>2
  <2>4. Bytes = Dim \div 2
    <3>1. 8 \div pool.bits = 2
      BY <1>6
    <3> QED BY <3>1 DEF Bytes
  <2>5. PICK m \in Nat : m = NumGroups * h /\ Dim = 2 * m
    BY <1>3, <2>2, <2>3
  <2>6. Bytes = m
    BY <2>4, <2>5
  <2> QED BY <1>1, <2>1, <2>5, <2>6
<1>7. ASSUME NEW d \in 0 .. Dim - 1
      PROVE  /\ d \div Group \in 0 .. NumGroups - 1
             /\ d \in (d \div Group) * Group .. ((d \div Group) + 1) * Group - 1
  <2>1. PICK q \in Nat : q = d \div Group /\ q * Group <= d /\ d < q * Group + Group
    BY <1>1, DivBounds
  <2>2. (q + 1) * Group = q * Group + Group /\ q * Group \in Nat
    BY <1>1
  <2>3. q < NumGroups
    <3> SUFFICES ASSUME NumGroups <= q PROVE FALSE
      BY <1>3, <2>1
    <3>1. PICK e \in Nat : q = NumGroups + e
      BY <1>3
    <3>2. q * Group = NumGroups * Group + e * Group /\ e * Group \in Nat
      BY <1>1, <1>3, <3>1
    <3> QED BY <1>1, <1>3, <2>1, <3>2
  <2> QED BY <1>1, <1>3, <2>1, <2>2, <2>3
<1>8. ASSUME NEW g \in 0 .. NumGroups - 1
      PROVE  /\ g * Group .. (g + 1) * Group - 1 \subseteq 0 .. Dim - 1
             /\ g * Group \in g * Group .. (g + 1) * Group - 1
  <2>1. PICK e \in Nat : NumGroups = (g + 1) + e
    <3>1. NumGroups - (g + 1) \in Nat
      BY <1>3
    <3> QED BY <1>3, <3>1
  <2>2. /\ NumGroups * Group = (g + 1) * Group + e * Group /\ e * Group \in Nat
        /\ (g + 1) * Group = g * Group + Group /\ g * Group \in Nat
    BY <1>1, <2>1
  <2> QED BY <1>1, <1>3, <2>2
<1> QED BY <1>1, <1>3, <1>4, <1>5, <1>6, <1>7, <1>8

LEMMA AbsMaxIs ==
  ASSUME pool \in Pools, NEW x \in [0 .. Dim - 1 -> Int], NEW g \in 0 .. NumGroups - 1
  PROVE  /\ AbsMax(x, g) \in Nat
         /\ \A d \in g * Group .. (g + 1) * Group - 1 : Abs(x[d]) <= AbsMax(x, g)
<1> DEFINE D == g * Group .. (g + 1) * Group - 1
           S == {Abs(x[d]) : d \in D}
<1>1. D \subseteq 0 .. Dim - 1 /\ g * Group \in D /\ Dim - 1 \in Nat
  <2>1. Dim - 1 \in Nat
    BY SizeFacts
  <2>2. \A i \in 0 .. NumGroups - 1 : /\ i * Group .. (i + 1) * Group - 1 \subseteq 0 .. Dim - 1
                                      /\ i * Group \in i * Group .. (i + 1) * Group - 1
    BY GroupFacts
  <2>3. D \subseteq 0 .. Dim - 1 /\ g * Group \in D
    BY <2>2, Zenon
  <2> QED BY <2>1, <2>3
<1> HIDE DEF D
<1>2. \A d \in 0 .. Dim - 1 : Abs(x[d]) \in Nat
  BY AbsType
<1>3. PICK b \in Nat : \A d \in 0 .. Dim - 1 : Abs(x[d]) <= b
  <2> DEFINE f == [d \in 0 .. Dim - 1 |-> Abs(x[d])]
  <2>1. f \in [0 .. Dim - 1 -> Nat] /\ \A d \in 0 .. Dim - 1 : f[d] = Abs(x[d])
    BY <1>2
  <2>2. PICK b \in Nat : \A d \in 0 .. Dim - 1 : f[d] <= b
    <3> HIDE DEF f
    <3> QED BY <1>1, <2>1, BoundExists
  <2> QED BY <2>1, <2>2
<1>4. S \subseteq 0 .. b /\ S # {}
  <2>1. \A d \in D : Abs(x[d]) \in 0 .. b
    BY <1>1, <1>2, <1>3
  <2>2. S \subseteq 0 .. b
    BY <2>1
  <2> QED BY <1>1, <2>2
<1>5. PICK m \in S : \A y \in S : y <= m
  <2> HIDE DEF S
  <2> QED BY <1>4, GreatestExists
<1>6. Max(S) \in S /\ \A y \in S : Max(S) >= y
  <2>1. \E k \in S : \A y \in S : k >= y
    <3>1. \A y \in S : m >= y
      BY <1>4, <1>5
    <3> QED BY <3>1
  <2> HIDE DEF S
  <2> QED BY <2>1 DEF Max
<1>7. AbsMax(x, g) = Max(S)
  BY DEF AbsMax, D
<1>8. \A d \in D : Abs(x[d]) \in S
  OBVIOUS
<1> HIDE DEF S
<1>9. AbsMax(x, g) \in Nat /\ \A d \in D : Abs(x[d]) <= AbsMax(x, g)
  <2>1. Max(S) \in Nat
    <3>1. \A y \in 0 .. b : y \in Nat
      BY <1>3
    <3> QED BY <1>4, <1>6, <3>1
  <2>2. \A d \in D : Max(S) >= Abs(x[d]) /\ Abs(x[d]) \in Nat
    BY <1>1, <1>2, <1>6, <1>8
  <2>3. \A p, q \in Nat : p >= q => q <= p
    OBVIOUS
  <2> QED BY <1>7, <2>1, <2>2, <2>3
<1> QED BY <1>9 DEF D

-----------------------------------------------------------------------------
(* A channel that is quantized and read back.                              *)

LEMMA MaxOfTwo == \A p, q \in Int : Max({p, q}) = IF p >= q THEN p ELSE q
<1> SUFFICES ASSUME NEW p \in Int, NEW q \in Int PROVE Max({p, q}) = IF p >= q THEN p ELSE q
  OBVIOUS
<1> DEFINE m == IF p >= q THEN p ELSE q
<1>1. m \in {p, q} /\ \A y \in {p, q} : m >= y
  OBVIOUS
<1>2. \A x \in {p, q} : (\A y \in {p, q} : x >= y) => x = m
  OBVIOUS
<1> HIDE DEF m
<1>3. (CHOOSE x \in {p, q} : \A y \in {p, q} : x >= y) = m
  BY <1>1, <1>2
<1> QED BY <1>3 DEF Max, m

LEMMA MinOfTwo == \A p, q \in Int : Min({p, q}) = IF p <= q THEN p ELSE q
<1> SUFFICES ASSUME NEW p \in Int, NEW q \in Int PROVE Min({p, q}) = IF p <= q THEN p ELSE q
  OBVIOUS
<1> DEFINE m == IF p <= q THEN p ELSE q
<1>1. m \in {p, q} /\ \A y \in {p, q} : m <= y
  OBVIOUS
<1>2. \A x \in {p, q} : (\A y \in {p, q} : x <= y) => x = m
  OBVIOUS
<1> HIDE DEF m
<1>3. (CHOOSE x \in {p, q} : \A y \in {p, q} : x <= y) = m
  BY <1>1, <1>2
<1> QED BY <1>3 DEF Min, m

(* The scale of a group that is not all zeros.                             *)
LEMMA ScaleIs ==
  ASSUME pool \in Pools, NEW x \in [0 .. Dim - 1 -> Int], NEW g \in 0 .. NumGroups - 1
  PROVE  /\ ScaleOf(x, g) \in Nat
         /\ AbsMax(x, g) = 0 => ScaleOf(x, g) = pool.one
         /\ AbsMax(x, g) # 0 =>
              \E R \in Nat : /\ 2 * (QMax * R) - 2 * AbsMax(x, g) <= QMax
                             /\ 2 * AbsMax(x, g) - 2 * (QMax * R) <= QMax
                             /\ ScaleOf(x, g) = IF R <= pool.scaleMax THEN R ELSE pool.scaleMax
<1> DEFINE a == AbsMax(x, g)
           R == Rint(a, QMax)
<1>1. a \in Nat /\ QMax \in Nat \ {0} /\ pool.scaleMax \in Nat \ {0} /\ pool.one \in Nat
  <2>1. AbsMax(x, g) \in Nat
    BY AbsMaxIs
  <2> QED BY <2>1, NumberFacts
<1> HIDE DEF a
<1>2. R \in Int /\ 2 * (QMax * R) - 2 * a <= QMax /\ 2 * a - 2 * (QMax * R) <= QMax
  <2>1. a \in Int /\ QMax \in Nat \ {0}
    BY <1>1
  <2>2. /\ Rint(a, QMax) \in Int
        /\ 2 * (QMax * Rint(a, QMax)) - 2 * a <= QMax
        /\ 2 * a - 2 * (QMax * Rint(a, QMax)) <= QMax
    BY <2>1, RintNear, Zenon
  <2> QED BY <2>2
<1> HIDE DEF R
<1>3. R \in Nat
  <2> SUFFICES ASSUME R < 0 PROVE FALSE
    BY <1>2
  <2>1. PICK e \in Nat : R = -1 - e
    <3>1. -1 - R \in Nat
      BY <1>2
    <3> QED BY <3>1, <1>2
  <2>2. QMax * R = -QMax - QMax * e /\ QMax * e \in Nat
    BY <1>1, <2>1
  <2> QED BY <1>1, <1>2, <2>2
<1>4. Min({R, pool.scaleMax}) = IF R <= pool.scaleMax THEN R ELSE pool.scaleMax
  BY <1>1, <1>3, MinOfTwo
<1>5. ScaleOf(x, g) = IF a = 0 THEN pool.one ELSE Min({R, pool.scaleMax})
  BY DEF ScaleOf, a, R
<1>6. ScaleOf(x, g) \in Nat
  BY <1>1, <1>3, <1>4, <1>5
<1> QED BY <1>2, <1>3, <1>4, <1>5, <1>6 DEF a

LEMMA CodeType ==
  ASSUME pool \in Pools, NEW x \in Int, NEW s \in Nat
  PROVE  Code(x, s) \in -QMax .. QMax
<1>1. QMax \in Nat \ {0} /\ pool.nanCode \in -QMax .. QMax
  BY NumberFacts
<1>2. s # 0 => Rint(x, s) \in Int
  BY RintNear
<1>3. \A q \in Int : Clamp(q) \in -QMax .. QMax
  BY <1>1 DEF Clamp
<1>4. s # 0 => Clamp(Rint(x, s)) \in -QMax .. QMax
  BY <1>2, <1>3
<1> QED BY <1>1, <1>4 DEF Code

(* With a scale s # 0, code and number: near, or clamped.                  *)
LEMMA CodeIs ==
  ASSUME pool \in Pools, NEW x \in Int, NEW s \in Nat \ {0}
  PROVE  \/ /\ 2 * (Code(x, s) * s) - 2 * x <= s
            /\ 2 * x - 2 * (Code(x, s) * s) <= s
         \/ Code(x, s) = QMax /\ 2 * x >= 2 * (QMax * s) + s
         \/ Code(x, s) = -QMax /\ -2 * x >= 2 * (QMax * s) + s
<1> DEFINE r == Rint(x, s)
           Q == QMax
<1>1. Q \in Nat \ {0}
  BY NumberFacts
<1>2. r \in Int /\ 2 * (s * r) - 2 * x <= s /\ 2 * x - 2 * (s * r) <= s
  BY RintNear
<1>3. Code(x, s) = IF r > Q THEN Q ELSE IF r < -Q THEN -Q ELSE r
  BY DEF Code, Clamp
<1> HIDE DEF r, Q
<1>4. s * r = r * s
  BY <1>2
<1>5. CASE r > Q
  <2>1. PICK e \in Nat : r = Q + 1 + e
    <3>1. r - (Q + 1) \in Nat
      BY <1>1, <1>2, <1>5
    <3> QED BY <3>1, <1>1, <1>2
  <2>2. s * r = Q * s + s + s * e /\ s * e \in Nat /\ Q * s \in Nat
    BY <1>1, <2>1
  <2>3. 2 * x >= 2 * (Q * s) + s
    BY <1>2, <2>2
  <2> QED BY <1>3, <1>5, <2>3 DEF Q
<1>6. CASE r < -Q
  <2>1. PICK e \in Nat : r = -Q - 1 - e
    <3>1. -Q - 1 - r \in Nat
      BY <1>1, <1>2, <1>6
    <3> QED BY <3>1, <1>1, <1>2
  <2>2. s * r = -(Q * s) - s - s * e /\ s * e \in Nat /\ Q * s \in Nat
    BY <1>1, <2>1
  <2>3. -2 * x >= 2 * (Q * s) + s
    BY <1>2, <2>2
  <2>4. Code(x, s) = -Q
    BY <1>1, <1>2, <1>3, <1>6
  <2> QED BY <2>3, <2>4 DEF Q
<1>7. CASE ~(r > Q) /\ ~(r < -Q)
  BY <1>2, <1>3, <1>4, <1>7
<1> QED BY <1>5, <1>6, <1>7

(* What comes back of a channel is near it.                                *)
LEMMA ReadsBackNear ==
  ASSUME pool \in Pools, NEW x \in [0 .. Dim - 1 -> Int], NEW g \in 0 .. NumGroups - 1,
         NEW d \in g * Group .. (g + 1) * Group - 1
  PROVE  Near(x[d], Code(x[d], ScaleOf(x, g)) * ScaleOf(x, g), AbsMax(x, g))
<1> DEFINE a == AbsMax(x, g)
           s == ScaleOf(x, g)
           c == Code(x[d], s)
           v == x[d]
           M == pool.scaleMax
           Q == QMax
<1>1. a \in Nat /\ s \in Nat /\ Q \in Nat \ {0} /\ M \in Nat \ {0} /\ pool.one \in Nat \ {0}
  <2>1. a \in Nat
    BY AbsMaxIs
  <2>2. s \in Nat
    BY ScaleIs
  <2> QED BY <2>1, <2>2, NumberFacts
<1>2. v \in Int /\ v <= a /\ -v <= a
  <2>1. d \in 0 .. Dim - 1
    BY GroupFacts
  <2>2. x[d] \in Int
    BY <2>1
  <2>3. Abs(x[d]) <= AbsMax(x, g)
    BY AbsMaxIs
  <2>4. Abs(x[d]) \in Nat /\ x[d] <= Abs(x[d]) /\ -x[d] <= Abs(x[d])
    BY <2>2, AbsType
  <2> HIDE DEF s, c, M, Q
  <2> QED BY <1>1, <2>2, <2>3, <2>4
<1>3. c \in Int
  <2>1. c \in -QMax .. QMax
    BY <1>1, <1>2, CodeType
  <2> QED BY <1>1, <2>1
<1>4. c * s \in Int /\ v - c * s \in Int
  BY <1>1, <1>2, <1>3
<1>5. ASSUME NEW e \in Int, e = c * s,
             2 * (Q * (2 * (v - e))) <= 2 * a + Q \/ Q * (2 * (v - e)) <= Q * Q,
             2 * (Q * (2 * (e - v))) <= 2 * a + Q \/ Q * (2 * (e - v)) <= Q * Q
      PROVE  Near(v, c * s, a)
  <2> HIDE DEF a, s, c, v, Q, M
  <2>1. Max({2 * a + Q, 2 * Q * Q}) = IF 2 * a + Q >= 2 * Q * Q THEN 2 * a + Q ELSE 2 * Q * Q
    BY <1>1, MaxOfTwo
  <2>2. 2 * Q * Q = 2 * (Q * Q) /\ Q * Q \in Nat
    BY <1>1
  <2>3. Max({2 * a + Q, 2 * Q * Q}) \in Int /\ Max({2 * a + Q, 2 * Q * Q}) >= 2 * a + Q
        /\ Max({2 * a + Q, 2 * Q * Q}) >= 2 * (Q * Q)
    BY <1>1, <2>1, <2>2
  <2>4. \A z \in Int : 4 * Q * z = 2 * (Q * (2 * z)) /\ Q * (2 * z) \in Int
    BY <1>1
  <2>5. ASSUME NEW z \in Int,
               2 * (Q * (2 * z)) <= 2 * a + Q \/ Q * (2 * z) <= Q * Q
        PROVE  4 * Q * z <= Max({2 * a + Q, 2 * Q * Q})
    <3>1. PICK t \in Int : t = Q * (2 * z) /\ 4 * Q * z = 2 * t
      BY <2>4
    <3>2. PICK q \in Nat : q = Q * Q
      BY <2>2
    <3>3. 2 * t <= 2 * a + Q \/ 2 * t <= 2 * q
      BY <2>5, <3>1, <3>2
    <3> QED BY <1>1, <2>3, <3>1, <3>2, <3>3
  <2>6. v - e \in Int /\ e - v \in Int /\ (Abs(v - e) = v - e \/ Abs(v - e) = e - v)
    BY <1>2, <1>5 DEF Abs
  <2>7. 4 * Q * (v - e) <= Max({2 * a + Q, 2 * Q * Q}) /\ 4 * Q * (e - v) <= Max({2 * a + Q, 2 * Q * Q})
    BY <1>5, <2>5, <2>6
  <2>8. 4 * Q * Abs(v - e) <= Max({2 * a + Q, 2 * Q * Q})
    BY <2>6, <2>7
  <2> QED BY <1>5, <2>8 DEF Near, Q
<1>6. PICK e \in Int : e = c * s
  BY <1>4
<1> SUFFICES Near(v, c * s, a)
  OBVIOUS
<1> HIDE DEF a, s, c, v, M, Q
<1>7. /\ Q * (2 * (v - e)) \in Int /\ Q * (2 * (e - v)) \in Int
      /\ Q * Q \in Nat /\ Q * s \in Nat
  BY <1>1, <1>2, <1>6
<1>11. Q \in Nat /\ Q \in Int /\ v \in Int /\ e \in Int /\ s \in Int
  BY <1>1, <1>2, <1>6
<1>8. CASE a = 0
  <2>1. s \in Nat \ {0} /\ v = 0
    BY <1>1, <1>2, <1>8, ScaleIs DEF a, s
  <2>2. \/ 2 * e - 2 * v <= s /\ 2 * v - 2 * e <= s
        \/ 2 * v >= 2 * (Q * s) + s
        \/ -2 * v >= 2 * (Q * s) + s
    BY <1>2, <1>6, <2>1, CodeIs DEF v, c, s, Q
  <2>3. 2 * e <= s /\ -2 * e <= s
    <3>1. PICK w \in Nat : w = Q * s
      BY <1>7
    <3>2. ~(0 >= 2 * w + s)
      BY <2>1, <3>1
    <3> QED BY <1>6, <2>1, <2>2, <3>1, <3>2
  <2>4. c = 0
    <3>1. ASSUME c > 0 PROVE FALSE
      <4>1. PICK k \in Nat : c = 1 + k
        <5>1. c - 1 \in Nat
          BY <1>3, <3>1
        <5> QED BY <5>1, <1>3
      <4>2. c * s = s + k * s /\ k * s \in Nat
        BY <2>1, <4>1
      <4> QED BY <1>6, <2>1, <2>3, <4>2
    <3>2. ASSUME c < 0 PROVE FALSE
      <4>1. PICK k \in Nat : c = -1 - k
        <5>1. -1 - c \in Nat
          BY <1>3, <3>2
        <5> QED BY <5>1, <1>3
      <4>2. c * s = -s - k * s /\ k * s \in Nat
        BY <2>1, <4>1
      <4> QED BY <1>6, <2>1, <2>3, <4>2
    <3> QED BY <1>3, <3>1, <3>2
  <2>5. e = 0
    BY <1>1, <1>6, <2>4
  <2>6. v - e = 0 /\ e - v = 0
    BY <2>1, <2>5
  <2>7. Q * (2 * 0) = 0
    BY <1>1
  <2>8. Q * (2 * (v - e)) <= Q * Q /\ Q * (2 * (e - v)) <= Q * Q
    BY <1>7, <2>6, <2>7
  <2> QED BY <1>5, <1>6, <2>8
<1>9. CASE a # 0
  <2>1. PICK R \in Nat : /\ 2 * (Q * R) - 2 * a <= Q /\ 2 * a - 2 * (Q * R) <= Q
                         /\ s = IF R <= M THEN R ELSE M
    BY <1>9, ScaleIs DEF a, s, Q, M
  <2>2. Q * R \in Nat
    BY <1>1
  <2>3. CASE s = 0
    <3>1. R = 0
      BY <1>1, <2>1, <2>3
    <3>2. Q * R = 0 /\ e = 0
      BY <1>1, <1>3, <1>6, <2>3, <3>1
    <3>3. 2 * a <= Q
      BY <1>1, <2>1, <3>2
    <3>4. Q * (2 * (v - e)) <= Q * Q /\ Q * (2 * (e - v)) <= Q * Q
      <4>1. 2 * (v - e) <= Q /\ 2 * (e - v) <= Q
        BY <1>1, <1>2, <3>2, <3>3
      <4> QED BY <1>11, <4>1, MulApart, Zenon
    <3> QED BY <1>5, <1>6, <3>4
  <2>4. ASSUME s # 0, 2 * e - 2 * v <= s, 2 * v - 2 * e <= s
        PROVE  Near(v, c * s, a)
    <3>1. Q * (2 * (e - v)) <= Q * s /\ Q * (2 * (v - e)) <= Q * s
      <4>1. 2 * (e - v) <= s /\ 2 * (v - e) <= s
        BY <1>2, <1>6, <2>4
      <4> QED BY <1>11, <4>1, MulApart, Zenon
    <3>2. Q * s <= Q * R
      <4>1. s <= R
        BY <1>1, <2>1
      <4> QED BY <1>1, <4>1, MulLe
    <3>3. 2 * (Q * (2 * (v - e))) <= 2 * a + Q /\ 2 * (Q * (2 * (e - v))) <= 2 * a + Q
      <4>1. PICK t \in Int, u \in Int, r \in Nat, w \in Nat :
               t = Q * (2 * (v - e)) /\ u = Q * (2 * (e - v)) /\ r = Q * R /\ w = Q * s
        BY <1>7, <2>2
      <4>2. t <= w /\ u <= w /\ w <= r /\ 2 * r - 2 * a <= Q
        BY <2>1, <3>1, <3>2, <4>1
      <4>3. 2 * t <= 2 * a + Q /\ 2 * u <= 2 * a + Q
        BY <1>1, <4>2
      <4> QED BY <4>1, <4>3
    <3> QED BY <1>5, <1>6, <3>3
  <2>5. ASSUME s # 0, c = Q, 2 * v >= 2 * (Q * s) + s
        PROVE  Near(v, c * s, a)
    <3>1. e = Q * s /\ v > e
      BY <1>1, <1>2, <1>6, <1>7, <2>5
    <3>2. CASE s = R
      <4>1. 2 * (v - e) <= Q /\ 2 * (e - v) <= Q
        <5>1. PICK w \in Nat : w = Q * s /\ w = Q * R
          BY <1>7, <3>2
        <5>2. (e = w \/ e = -w) /\ 2 * w - 2 * a <= Q /\ 2 * a - 2 * w <= Q
          BY <2>1, <3>1, <5>1
        <5> QED BY <1>1, <1>2, <3>1, <5>1, <5>2
      <4>2. Q * (2 * (v - e)) <= Q * Q /\ Q * (2 * (e - v)) <= Q * Q
        BY <1>11, <4>1, MulApart, Zenon
      <4> QED BY <1>5, <1>6, <4>2
    <3>3. CASE s = M
      <4>1. a > Q * M /\ Abs(e) = Q * M /\ Abs(v) > Abs(e)
        BY <1>1, <1>2, <1>7, <3>1, <3>3 DEF Abs
      <4>2. v * e > 0
        BY <1>1, <1>2, <1>7, <3>1, <3>3, <2>5, PositiveProduct
      <4> QED BY <1>6, <4>1, <4>2 DEF Near, Q, M
    <3> QED BY <2>1, <3>2, <3>3
  <2>6. ASSUME s # 0, c = -Q, -2 * v >= 2 * (Q * s) + s
        PROVE  Near(v, c * s, a)
    <3>1. e = -(Q * s) /\ v < e
      BY <1>1, <1>2, <1>6, <1>7, <2>6
    <3>2. CASE s = R
      <4>1. 2 * (v - e) <= Q /\ 2 * (e - v) <= Q
        <5>1. PICK w \in Nat : w = Q * s /\ w = Q * R
          BY <1>7, <3>2
        <5>2. (e = w \/ e = -w) /\ 2 * w - 2 * a <= Q /\ 2 * a - 2 * w <= Q
          BY <2>1, <3>1, <5>1
        <5> QED BY <1>1, <1>2, <3>1, <5>1, <5>2
      <4>2. Q * (2 * (v - e)) <= Q * Q /\ Q * (2 * (e - v)) <= Q * Q
        BY <1>11, <4>1, MulApart, Zenon
      <4> QED BY <1>5, <1>6, <4>2
    <3>3. CASE s = M
      <4>1. a > Q * M /\ Abs(e) = Q * M /\ Abs(v) > Abs(e)
        BY <1>1, <1>2, <1>7, <3>1, <3>3 DEF Abs
      <4>2. v * e > 0
        BY <1>1, <1>2, <1>7, <3>1, <3>3, <2>6, PositiveProduct
      <4> QED BY <1>6, <4>1, <4>2 DEF Near, Q, M
    <3> QED BY <2>1, <3>2, <3>3
  <2>7. CASE s # 0
    <3>1. \/ 2 * e - 2 * v <= s /\ 2 * v - 2 * e <= s
          \/ c = Q /\ 2 * v >= 2 * (Q * s) + s
          \/ c = -Q /\ -2 * v >= 2 * (Q * s) + s
      <4>1. s \in Nat \ {0}
        BY <1>1, <2>7
      <4> QED BY <1>2, <1>6, <4>1, CodeIs DEF v, c, s, Q
    <3> QED BY <2>4, <2>5, <2>6, <2>7, <3>1
  <2> QED BY <2>3, <2>7
<1>10. Near(v, c * s, a)
  BY <1>8, <1>9
<1> QED BY <1>10 DEF v, c, s, a

-----------------------------------------------------------------------------
(* What memory holds.                                                      *)

HoldsRow(s, slot, h, x) ==
  /\ \A i \in 0 .. Bytes - 1 : payload[s][Row(slot, h) + i] = Quantized(x)[i]
  /\ \A g \in 0 .. NumGroups - 1 : scales[s][ScaleRow(slot, h) + g] = ScaleOf(x, g)

(* A row that holds the channels x is read as x, channel by channel.       *)
LEMMA LoadedIs ==
  ASSUME pool \in Pools, NEW x \in [0 .. Dim - 1 -> Int], NEW s, NEW slot, NEW h,
         HoldsRow(s, slot, h, x), NEW d \in 0 .. Dim - 1
  PROVE  LET g == d \div Group
         IN  Loaded(s, slot, h, d) = Code(x[d], ScaleOf(x, g)) * ScaleOf(x, g)
<1> DEFINE g == d \div Group
<1>1. g \in 0 .. NumGroups - 1 /\ pool.bits \in {4, 8}
  BY GroupFacts, PoolFacts
<1>2. scales[s][ScaleRow(slot, h) + g] = ScaleOf(x, g)
  BY <1>1 DEF HoldsRow
<1>3. Codes(x)[d] = Code(x[d], ScaleOf(x, g))
  BY DEF Codes
<1>4. CASE pool.bits = 8
  <2>1. d \in 0 .. Bytes - 1
    BY <1>4, GroupFacts
  <2>2. payload[s][Row(slot, h) + d] = Codes(x)[d]
    BY <1>4, <2>1 DEF HoldsRow, Quantized, Bytes8
  <2> QED BY <1>2, <1>3, <1>4, <2>2 DEF Loaded, Channel8
<1>5. CASE pool.bits = 4
  <2> DEFINE pair == d \div 2
             half == Group \div 2
  <2>1. Dim = 2 * Bytes /\ half \in Nat \ {0} /\ Group = 2 * half /\ Bytes \in Nat
    BY <1>5, GroupFacts
  <2>2. pair \in 0 .. Bytes - 1 /\ 2 * pair \in 0 .. Dim - 1 /\ 2 * pair + 1 \in 0 .. Dim - 1
    <3> HIDE DEF half
    <3> QED BY <2>1
  <2>3. pair \div half = g
    <3>1. d \in Nat
      OBVIOUS
    <3>2. (d \div 2) \div half = d \div (2 * half)
      BY <2>1, <3>1, DivTwice
    <3> QED BY <2>1, <3>2
  <2>4. \A i \in 0 .. Dim - 1 : Codes(x)[i] \in -7 .. 7
    <3> SUFFICES ASSUME NEW i \in 0 .. Dim - 1 PROVE Codes(x)[i] \in -7 .. 7
      OBVIOUS
    <3>1. i \div Group \in 0 .. NumGroups - 1
      BY GroupFacts
    <3>2. ScaleOf(x, i \div Group) \in Nat
      BY <3>1, ScaleIs
    <3>3. Code(x[i], ScaleOf(x, i \div Group)) \in -QMax .. QMax
      BY <3>2, CodeType
    <3>4. QMax \in 1 .. 7
      <4>1. QMax <= 7
        BY <1>5, PoolFacts
      <4>2. QMax \in 1 .. 127
        BY NumberFacts
      <4> QED BY <4>1, <4>2
    <3>5. Codes(x)[i] = Code(x[i], ScaleOf(x, i \div Group))
      BY DEF Codes
    <3>6. \A q \in 1 .. 7 : \A z \in -q .. q : z \in -7 .. 7
      OBVIOUS
    <3>7. Code(x[i], ScaleOf(x, i \div Group)) \in -7 .. 7
      BY <3>3, <3>4, <3>6, Zenon
    <3> QED BY <3>5, <3>7, Zenon
  <2> DEFINE byte == payload[s][Row(slot, h) + pair]
             lo == Codes(x)[2 * pair]
             hi == Codes(x)[2 * pair + 1]
  <2>5. byte = (lo + 8) + 16 * (hi + 8)
    BY <1>5, <2>2 DEF HoldsRow, Quantized, Bytes4
  <2>6. lo \in -7 .. 7 /\ hi \in -7 .. 7
    BY <2>2, <2>4
  <2>7. byte % 16 = lo + 8 /\ byte \div 16 = hi + 8
    <3> HIDE DEF byte, lo, hi
    <3> QED BY <2>5, <2>6
  <2>8. (IF d % 2 = 0 THEN byte % 16 ELSE byte \div 16) - 8 = Codes(x)[d]
    <3>1. CASE d % 2 = 0
      <4>1. 2 * pair = d
        BY <3>1
      <4>2. (byte % 16) - 8 = lo
        <5> HIDE DEF byte, lo, pair
        <5> QED BY <2>6, <2>7
      <4> QED BY <3>1, <4>1, <4>2
    <3>2. CASE d % 2 # 0
      <4>1. 2 * pair + 1 = d
        BY <3>2
      <4>2. (byte \div 16) - 8 = hi
        <5> HIDE DEF byte, hi, pair
        <5> QED BY <2>6, <2>7
      <4> QED BY <3>2, <4>1, <4>2
    <3> QED BY <3>1, <3>2
  <2>9. Loaded(s, slot, h, d) = ((IF d % 2 = 0 THEN byte % 16 ELSE byte \div 16) - 8)
                                 * scales[s][ScaleRow(slot, h) + pair \div half]
    BY <1>5 DEF Loaded, Channel4
  <2> HIDE DEF byte, pair, half, lo, hi
  <2> QED BY <1>2, <1>3, <2>3, <2>8, <2>9
<1> QED BY <1>1, <1>4, <1>5

(* So it comes back near the channels that were stored.                    *)
LEMMA LoadedNear ==
  ASSUME pool \in Pools, NEW x \in [0 .. Dim - 1 -> Int], NEW s, NEW slot, NEW h,
         HoldsRow(s, slot, h, x), NEW d \in 0 .. Dim - 1
  PROVE  Near(x[d], Loaded(s, slot, h, d), AbsMax(x, d \div Group))
<1> DEFINE g == d \div Group
<1>1. g \in 0 .. NumGroups - 1 /\ d \in g * Group .. (g + 1) * Group - 1
  BY GroupFacts
<1>2. Loaded(s, slot, h, d) = Code(x[d], ScaleOf(x, g)) * ScaleOf(x, g)
  BY LoadedIs
<1> HIDE DEF g
<1>3. Near(x[d], Code(x[d], ScaleOf(x, g)) * ScaleOf(x, g), AbsMax(x, g))
  BY <1>1, ReadsBackNear
<1> QED BY <1>2, <1>3 DEF g

(* The pool does not change, nor what is made of its fields.               *)
LEMMA SamePool ==
  ASSUME pool' = pool
  PROVE  /\ \A x : Quantized(x)' = Quantized(x)
         /\ \A x, g : ScaleOf(x, g)' = ScaleOf(x, g)
         /\ \A a, h : Row(a, h)' = Row(a, h) /\ ScaleRow(a, h)' = ScaleRow(a, h)
         /\ Bytes' = Bytes /\ NumGroups' = NumGroups /\ Heads' = Heads /\ Texts' = Texts
         /\ Slots' = Slots /\ Reqs' = Reqs /\ Dim' = Dim /\ TopK' = TopK /\ Block' = Block
<1> USE DEF Heads, Dim, Group, Bytes, NumGroups, QMax
<1>1. \A x, g : AbsMax(x, g)' = AbsMax(x, g)
  BY DEF AbsMax
<1>2. \A x, g : ScaleOf(x, g)' = ScaleOf(x, g)
  BY <1>1 DEF ScaleOf
<1>3. \A q : Clamp(q)' = Clamp(q)
  BY DEF Clamp
<1>4. \A x, s : Code(x, s)' = Code(x, s)
  BY <1>3 DEF Code
<1>5. \A x : Codes(x)' = Codes(x)
  BY <1>2, <1>4 DEF Codes
<1>6. \A x : Quantized(x)' = Quantized(x)
  BY <1>5 DEF Quantized, Bytes8, Bytes4
<1> QED BY <1>2, <1>6 DEF Row, ScaleRow, Texts, Slots, Reqs, TopK, Block

HeadSet == 0 .. Heads - 1

(* A program of the store kernel that has not run will write head h of the *)
(* slot.                                                                   *)
Pending(slot, h) == launch.kind = "store" /\ \E p \in todo : launch.loc[p[1]] = slot /\ p[2] = h

Content(slot, h) == \A s \in Sides : HoldsRow(s, slot, h, Texts[held[slot]][s][h])

MemoryOK ==
  \A s \in Sides : /\ DOMAIN payload[s] = 0 .. pool.rows * Heads * Bytes - 1
                   /\ DOMAIN scales[s] = 0 .. pool.rows * Heads * NumGroups - 1

(* A store launch writes to slots of its own, each for the token that was  *)
(* given the slot, and to slot 0.                                          *)
StoreOK(l) ==
  /\ todo \subseteq (DOMAIN l.loc) \X HeadSet
  /\ \A t \in DOMAIN l.loc :
       /\ l.ids[t] \in 1 .. Len(Texts)
       /\ l.loc[t] = 0 \/ (l.loc[t] \in Slots /\ held[l.loc[t]] = l.ids[t])
  /\ \A t, u \in DOMAIN l.loc : l.loc[t] = l.loc[u] => t = u \/ l.loc[t] = 0

HeldOK == \A slot \in Slots : held[slot] # None => held[slot] \in 1 .. Len(Texts)

(* Every position of a request has a slot of its own, which was given.     *)
TableOK ==
  /\ table \in [Reqs -> Seq(Slots)]
  /\ \A r \in Reqs : \A i \in 1 .. Len(table[r]) : held[table[r][i]] # None
  /\ \A r, q \in Reqs : \A i \in 1 .. Len(table[r]), j \in 1 .. Len(table[q]) :
       table[r][i] = table[q][j] => r = q /\ i = j

StoreInv ==
  /\ pool \in Pools
  /\ arrived \in 0 .. Len(Texts)
  /\ MemoryOK /\ HeldOK /\ TableOK
  /\ launch.kind = "store" => StoreOK(launch)
  /\ \A slot \in Slots, h \in HeadSet :
       held[slot] # None /\ ~Pending(slot, h) => Content(slot, h)

(* The content of a slot stays while its rows and its token do.            *)
LEMMA ContentKept ==
  ASSUME pool' = pool, NEW slot, NEW h, held'[slot] = held[slot], Content(slot, h),
         \A s \in Sides : /\ \A i \in 0 .. Bytes - 1 :
                              payload'[s][Row(slot, h) + i] = payload[s][Row(slot, h) + i]
                          /\ \A g \in 0 .. NumGroups - 1 :
                              scales'[s][ScaleRow(slot, h) + g] = scales[s][ScaleRow(slot, h) + g]
  PROVE  Content(slot, h)'
<1> SUFFICES ASSUME NEW s \in Sides PROVE HoldsRow(s, slot, h, Texts[held[slot]][s][h])'
  BY DEF Content, Sides
<1>1. HoldsRow(s, slot, h, Texts[held[slot]][s][h])
  BY DEF Content
<1>2. Texts' = Texts /\ Bytes' = Bytes /\ NumGroups' = NumGroups
  BY SamePool
<1>3. Row(slot, h)' = Row(slot, h) /\ ScaleRow(slot, h)' = ScaleRow(slot, h)
  BY SamePool
<1> DEFINE x == Texts[held[slot]][s][h]
<1>4. x' = x
  BY <1>2
<1>5. Quantized(x)' = Quantized(x) /\ \A g : ScaleOf(x, g)' = ScaleOf(x, g)
  BY <1>4, SamePool
<1> QED BY <1>1, <1>2, <1>3, <1>4, <1>5 DEF HoldsRow

(* No two rows of the pool overlap, and all are inside it.                 *)
LEMMA RowsApart ==
  ASSUME NEW H \in Nat \ {0}, NEW B \in Nat, NEW a \in Nat, NEW b \in Nat,
         NEW h \in 0 .. H - 1, NEW g \in 0 .. H - 1, NEW i \in 0 .. B - 1, NEW j \in 0 .. B - 1,
         (a * H + h) * B + i = (b * H + g) * B + j
  PROVE  a = b /\ h = g /\ i = j
<1>1. a * H + h \in Nat /\ b * H + g \in Nat
  OBVIOUS
<1>2. a * H + h = b * H + g /\ i = j
  BY <1>1, AddressUnique
<1> QED BY <1>2, AddressUnique

LEMMA RowsInside ==
  ASSUME NEW H \in Nat \ {0}, NEW B \in Nat, NEW rows \in Nat, NEW a \in 0 .. rows - 1,
         NEW h \in 0 .. H - 1, NEW i \in 0 .. B - 1
  PROVE  (a * H + h) * B + i \in 0 .. rows * H * B - 1
<1>1. a * H + h \in 0 .. rows * H - 1 /\ rows * H \in Nat
  BY AddressBound
<1> QED BY <1>1, AddressBound

-----------------------------------------------------------------------------
(* The steps.                                                              *)

(* What a step that writes no memory keeps.                                *)
LEMMA MemoryKept ==
  ASSUME MemoryOK, UNCHANGED <<pool, payload, scales>>
  PROVE  MemoryOK'
BY SamePool DEF MemoryOK, Sides

(* Program (t, h): after it its slot holds the text in head h, and every   *)
(* other row what it held.                                                 *)
LEMMA StoreStep ==
  ASSUME StoreInv, NEW t, NEW h, <<t, h>> \in todo, Store(t, h)
  PROVE  StoreInv'
<1> DEFINE slot == launch.loc[t]
           x(s) == Texts[launch.ids[t]][s][h]
<1>1. StoreOK(launch) /\ t \in DOMAIN launch.loc /\ h \in HeadSet /\ pool \in Pools
  <2>1. StoreOK(launch) /\ pool \in Pools
    BY DEF StoreInv, Store
  <2>2. <<t, h>> \in (DOMAIN launch.loc) \X HeadSet
    BY <2>1 DEF StoreOK
  <2> QED BY <2>1, <2>2
<1>2. /\ launch.kind = "store" /\ todo' = todo \ {<<t, h>>}
      /\ UNCHANGED <<pool, table, held, arrived, launch, out>>
  BY DEF Store
<1>3. slot \in 0 .. pool.rows - 1
  <2>1. slot = 0 \/ slot \in 1 .. pool.rows - 1
    BY <1>1 DEF StoreOK, Slots
  <2>2. pool.rows \in Nat \ {0}
    BY <1>1, PoolFacts
  <2> QED BY <2>1, <2>2
<1>4. MemoryOK /\ HeldOK /\ TableOK /\ arrived \in 0 .. Len(Texts)
  BY DEF StoreInv
<1>5. \A s \in Sides :
        /\ DOMAIN payload'[s] = DOMAIN payload[s] /\ DOMAIN scales'[s] = DOMAIN scales[s]
        /\ \A i \in DOMAIN payload[s] : payload'[s][i] =
             IF i \in Row(slot, h) .. Row(slot, h) + Bytes - 1
             THEN Quantized(x(s))[i - Row(slot, h)] ELSE payload[s][i]
        /\ \A i \in DOMAIN scales[s] : scales'[s][i] =
             IF i \in ScaleRow(slot, h) .. ScaleRow(slot, h) + NumGroups - 1
             THEN ScaleOf(x(s), i - ScaleRow(slot, h)) ELSE scales[s][i]
  BY DEF Store
<1>6. MemoryOK'
  BY <1>2, <1>4, <1>5, SamePool DEF MemoryOK, Sides
<1>7. HeldOK' /\ TableOK' /\ pool' \in Pools /\ (arrived \in 0 .. Len(Texts))'
  <2>1. Texts' = Texts /\ Slots' = Slots /\ Reqs' = Reqs
    BY <1>2, SamePool
  <2>2. HeldOK'
    BY <1>2, <1>4, <2>1 DEF HeldOK
  <2>3. TableOK'
    BY <1>2, <1>4, <2>1 DEF TableOK
  <2> QED BY <1>1, <1>2, <1>4, <2>1, <2>2, <2>3
<1>8. StoreOK(launch)'
  BY <1>1, <1>2, SamePool DEF StoreOK, HeadSet
<1> USE DEF HeadSet
<1>9. /\ Heads \in Nat \ {0} /\ Bytes \in Nat /\ NumGroups \in Nat
       /\ pool.rows \in Nat
  BY <1>1, PoolFacts, GroupFacts
<1>10. \A a \in 0 .. pool.rows - 1, g \in HeadSet : a # slot \/ g # h =>
        \A s \in Sides : /\ \A i \in 0 .. Bytes - 1 :
                             payload'[s][Row(a, g) + i] = payload[s][Row(a, g) + i]
                         /\ \A i \in 0 .. NumGroups - 1 :
                             scales'[s][ScaleRow(a, g) + i] = scales[s][ScaleRow(a, g) + i]
  <2> SUFFICES ASSUME NEW a \in 0 .. pool.rows - 1, NEW g \in HeadSet, a # slot \/ g # h,
                      NEW s \in Sides
               PROVE  /\ \A i \in 0 .. Bytes - 1 :
                           payload'[s][Row(a, g) + i] = payload[s][Row(a, g) + i]
                      /\ \A i \in 0 .. NumGroups - 1 :
                           scales'[s][ScaleRow(a, g) + i] = scales[s][ScaleRow(a, g) + i]
    OBVIOUS
  <2>1. ASSUME NEW B \in Nat, NEW i \in 0 .. B - 1
        PROVE  /\ (a * Heads + g) * B + i \in 0 .. pool.rows * Heads * B - 1
               /\ (a * Heads + g) * B + i \notin
                    (slot * Heads + h) * B .. (slot * Heads + h) * B + B - 1
    <3>1. (a * Heads + g) * B + i \in 0 .. pool.rows * Heads * B - 1
      BY <1>9, <1>1, RowsInside
    <3>2. slot * Heads + h \in Nat /\ a * Heads + g \in Nat
      BY <1>1, <1>3, <1>9
    <3>3. (slot * Heads + h) * B \in Nat /\ (a * Heads + g) * B \in Nat
      BY <3>2
    <3>4. ASSUME NEW k \in (slot * Heads + h) * B .. (slot * Heads + h) * B + B - 1,
                 k = (a * Heads + g) * B + i
          PROVE  FALSE
      <4>1. PICK j \in 0 .. B - 1 : k = (slot * Heads + h) * B + j
        <5>1. k - (slot * Heads + h) * B \in 0 .. B - 1
          BY <3>3
        <5> QED BY <3>3, <5>1
      <4>2. a \in Nat /\ slot \in Nat
        BY <1>3, <1>9
      <4>3. (slot * Heads + h) * B + j = (a * Heads + g) * B + i
        BY <3>4, <4>1
      <4>4. a = slot /\ g = h
        <5> HIDE DEF slot
        <5> QED BY <1>1, <1>9, <4>2, <4>3, RowsApart
      <4> QED BY <4>4
    <3> QED BY <3>1, <3>4
  <2>2. ASSUME NEW i \in 0 .. Bytes - 1
        PROVE  payload'[s][Row(a, g) + i] = payload[s][Row(a, g) + i]
    <3>1. /\ Row(a, g) + i \in DOMAIN payload[s]
          /\ Row(a, g) + i \notin Row(slot, h) .. Row(slot, h) + Bytes - 1
      BY <1>4, <1>9, <2>1 DEF Row, MemoryOK
    <3> QED BY <1>5, <3>1
  <2>3. ASSUME NEW i \in 0 .. NumGroups - 1
        PROVE  scales'[s][ScaleRow(a, g) + i] = scales[s][ScaleRow(a, g) + i]
    <3>1. /\ ScaleRow(a, g) + i \in DOMAIN scales[s]
          /\ ScaleRow(a, g) + i \notin ScaleRow(slot, h) .. ScaleRow(slot, h) + NumGroups - 1
      BY <1>4, <1>9, <2>1 DEF ScaleRow, MemoryOK
    <3> QED BY <1>5, <3>1
  <2> QED BY <2>2, <2>3
<1>11. \A s \in Sides :
         /\ \A i \in 0 .. Bytes - 1 : payload'[s][Row(slot, h) + i] = Quantized(x(s))[i]
         /\ \A i \in 0 .. NumGroups - 1 : scales'[s][ScaleRow(slot, h) + i] = ScaleOf(x(s), i)
  <2> SUFFICES ASSUME NEW s \in Sides
               PROVE  /\ \A i \in 0 .. Bytes - 1 :
                            payload'[s][Row(slot, h) + i] = Quantized(x(s))[i]
                      /\ \A i \in 0 .. NumGroups - 1 :
                            scales'[s][ScaleRow(slot, h) + i] = ScaleOf(x(s), i)
    OBVIOUS
  <2>1. slot * Heads + h \in Nat
    BY <1>1, <1>3, <1>9
  <2>2. Row(slot, h) \in Nat /\ ScaleRow(slot, h) \in Nat
    BY <1>9, <2>1 DEF Row, ScaleRow
  <2>3. ASSUME NEW i \in 0 .. Bytes - 1
        PROVE  payload'[s][Row(slot, h) + i] = Quantized(x(s))[i]
    <3>1. Row(slot, h) + i \in DOMAIN payload[s]
      BY <1>1, <1>3, <1>4, <1>9, RowsInside DEF Row, MemoryOK
    <3>2. PICK k : k = Row(slot, h) + i
      OBVIOUS
    <3>3. k \in Row(slot, h) .. Row(slot, h) + Bytes - 1 /\ k - Row(slot, h) = i
      BY <1>9, <2>2, <3>2
    <3>4. payload'[s][k] = IF k \in Row(slot, h) .. Row(slot, h) + Bytes - 1
                       THEN Quantized(x(s))[k - Row(slot, h)] ELSE payload[s][k]
      BY <1>5, <3>1, <3>2
    <3>5. payload'[s][k] = Quantized(x(s))[i]
      BY <3>3, <3>4
    <3> QED BY <3>2, <3>5
  <2>4. ASSUME NEW i \in 0 .. NumGroups - 1
        PROVE  scales'[s][ScaleRow(slot, h) + i] = ScaleOf(x(s), i)
    <3>1. ScaleRow(slot, h) + i \in DOMAIN scales[s]
      BY <1>1, <1>3, <1>4, <1>9, RowsInside DEF ScaleRow, MemoryOK
    <3>2. PICK k : k = ScaleRow(slot, h) + i
      OBVIOUS
    <3>3. k \in ScaleRow(slot, h) .. ScaleRow(slot, h) + NumGroups - 1 /\ k - ScaleRow(slot, h) = i
      BY <1>9, <2>2, <3>2
    <3>4. scales'[s][k] = IF k \in ScaleRow(slot, h) .. ScaleRow(slot, h) + NumGroups - 1
                       THEN ScaleOf(x(s), k - ScaleRow(slot, h)) ELSE scales[s][k]
      BY <1>5, <3>1, <3>2
    <3>5. scales'[s][k] = ScaleOf(x(s), i)
      BY <3>3, <3>4
    <3> QED BY <3>2, <3>5
  <2> QED BY <2>3, <2>4
<1>12. ASSUME NEW a \in Slots, NEW g \in HeadSet, held'[a] # None, ~Pending(a, g)'
       PROVE  Content(a, g)'
  <2>1. a \in 0 .. pool.rows - 1 /\ a # 0
    BY <1>9 DEF Slots
  <2>2. CASE a = slot /\ g = h
    <3>1. held'[a] = launch.ids[t]
      BY <1>1, <1>2, <2>1, <2>2 DEF StoreOK
    <3>2. ASSUME NEW s \in Sides PROVE HoldsRow(s, a, g, Texts[held[a]][s][g])'
      <4> DEFINE y == Texts[held[a]][s][g]
      <4>1. y' = x(s)
        BY <1>2, <2>2, <3>1, SamePool
      <4>2. Quantized(y)' = Quantized(x(s)) /\ \A i : ScaleOf(y, i)' = ScaleOf(x(s), i)
        BY <1>2, <4>1, SamePool
      <4>3. Row(a, g)' = Row(slot, h) /\ ScaleRow(a, g)' = ScaleRow(slot, h)
        BY <1>2, <2>2, SamePool
      <4>4. Bytes' = Bytes /\ NumGroups' = NumGroups
        BY <1>2, SamePool
      <4> HIDE DEF slot, x, y
      <4> QED BY <1>11, <4>2, <4>3, <4>4 DEF HoldsRow, y
    <3> QED BY <3>2 DEF Content, Sides
  <2>3. CASE a # slot \/ g # h
    <3>1. ~Pending(a, g)
      <4> SUFFICES ASSUME NEW p \in todo, launch.loc[p[1]] = a, p[2] = g PROVE FALSE
        BY DEF Pending
      <4>1. p # <<t, h>>
        BY <2>3
      <4>2. p \in todo' /\ launch' = launch
        BY <1>2, <4>1
      <4> QED BY <1>2, <1>12, <4>2 DEF Pending
    <3>2. Content(a, g)
      BY <1>2, <1>12, <3>1 DEF StoreInv
    <3> QED BY <1>2, <1>10, <2>1, <2>3, <3>2, ContentKept
  <2> QED BY <2>2, <2>3
<1>13. Slots' = Slots /\ HeadSet' = HeadSet
  BY <1>2, SamePool
<1> QED BY <1>2, <1>6, <1>7, <1>8, <1>12, <1>13 DEF StoreInv

LEMMA StoreInit == Init => StoreInv
<1> SUFFICES ASSUME Init PROVE StoreInv
  OBVIOUS
<1>1. pool \in Pools /\ arrived = 0 /\ launch.kind # "store"
  BY DEF Init, Idle
<1>2. Len(Texts) \in Nat
  <2>1. Texts \in Seq([Sides -> [0 .. Heads - 1 -> [0 .. Dim - 1 -> Int]]])
    BY <1>1, PoolFacts
  <2> QED BY <2>1
<1>3. MemoryOK
  BY DEF Init, MemoryOK
<1>4. HeldOK
  BY DEF Init, HeldOK
<1>5. TableOK
  <2>1. table = [r \in Reqs |-> <<>>]
    BY DEF Init
  <2>2. <<>> \in Seq(Slots) /\ Len(<<>>) = 0
    OBVIOUS
  <2>3. table \in [Reqs -> Seq(Slots)] /\ \A r \in Reqs : Len(table[r]) = 0
    BY <2>1, <2>2
  <2> QED BY <2>3 DEF TableOK
<1>6. \A slot \in Slots : held[slot] = None
  BY DEF Init
<1> QED BY <1>1, <1>2, <1>3, <1>4, <1>5, <1>6 DEF StoreInv

(* A launch that stores nothing keeps the pool; it follows one whose       *)
(* programs have all run.                                                  *)
LEMMA ReadStep ==
  ASSUME StoreInv, UNCHANGED <<pool, payload, scales, table, held, arrived>>,
         launch'.kind # "store", launch.kind = "store" => todo = {}
  PROVE  StoreInv'
<1>1. Texts' = Texts /\ Slots' = Slots /\ Reqs' = Reqs /\ HeadSet' = HeadSet
  BY SamePool DEF HeadSet
<1>2. MemoryOK'
  BY MemoryKept DEF StoreInv
<1>3. HeldOK' /\ TableOK'
  <2>1. HeldOK'
    BY <1>1 DEF HeldOK, StoreInv
  <2>2. TableOK'
    BY <1>1 DEF TableOK, StoreInv
  <2> QED BY <2>1, <2>2
<1>4. ASSUME NEW a \in Slots, NEW g \in HeadSet, held'[a] # None PROVE Content(a, g)'
  <2>1. ~Pending(a, g)
    BY DEF Pending
  <2>2. Content(a, g)
    BY <1>4, <2>1 DEF StoreInv
  <2> QED BY <2>2, ContentKept
<1> QED BY <1>1, <1>2, <1>3, <1>4 DEF StoreInv

LEMMA StoreStutters ==
  ASSUME StoreInv, UNCHANGED vars
  PROVE  StoreInv'
<1> USE DEF vars
<1>1. Texts' = Texts /\ Slots' = Slots /\ Reqs' = Reqs /\ HeadSet' = HeadSet
  BY SamePool DEF HeadSet
<1>2. MemoryOK'
  BY MemoryKept DEF StoreInv
<1>3. HeldOK' /\ TableOK'
  <2>1. HeldOK'
    BY <1>1 DEF HeldOK, StoreInv
  <2>2. TableOK'
    BY <1>1 DEF TableOK, StoreInv
  <2> QED BY <2>1, <2>2
<1>4. ASSUME NEW a \in Slots, NEW g \in HeadSet, held'[a] # None, ~Pending(a, g)'
      PROVE  Content(a, g)'
  <2>1. ~Pending(a, g)
    BY <1>4 DEF Pending
  <2>2. Content(a, g)
    BY <1>4, <2>1 DEF StoreInv
  <2> QED BY <2>2, ContentKept
<1>5. launch.kind = "store" => StoreOK(launch)'
  BY <1>1 DEF StoreOK, StoreInv
<1> QED BY <1>1, <1>2, <1>3, <1>4, <1>5 DEF StoreInv

(* A request ends: no other request has a slot of its own.                 *)
LEMMA EndStep ==
  ASSUME StoreInv, NEW r \in Reqs, End(r)
  PROVE  StoreInv'
<1>1. /\ launch = Idle /\ table' = [table EXCEPT ![r] = <<>>]
      /\ held' = [s \in Slots |-> IF s \in ToSet(table[r]) THEN None ELSE held[s]]
      /\ UNCHANGED <<pool, payload, scales, arrived, launch, todo, out>>
  BY DEF End
<1>2. Texts' = Texts /\ Slots' = Slots /\ Reqs' = Reqs /\ HeadSet' = HeadSet
  BY <1>1, SamePool DEF HeadSet
<1>3. launch.kind # "store" /\ launch'.kind # "store"
  BY <1>1 DEF Idle
<1>4. TableOK /\ HeldOK /\ MemoryOK
  BY DEF StoreInv
<1>5. MemoryOK'
  BY <1>1, <1>4, MemoryKept
<1>6. HeldOK'
  BY <1>1, <1>2, <1>4 DEF HeldOK
<1>7. /\ table' \in [Reqs -> Seq(Slots)] /\ Len(table'[r]) = 0
      /\ \A q \in Reqs : q # r => table'[q] = table[q]
  <2>1. <<>> \in Seq(Slots) /\ Len(<<>>) = 0
    OBVIOUS
  <2> QED BY <1>1, <1>4, <2>1 DEF TableOK
<1>8. ASSUME NEW q \in Reqs, NEW i \in 1 .. Len(table'[q])
      PROVE  q # r /\ held'[table'[q][i]] # None
  <2>1. q # r /\ table'[q] = table[q]
    <3>1. \A k : k \notin 1 .. 0
      OBVIOUS
    <3> QED BY <1>7, <3>1
  <2>2. table[q][i] \in Slots /\ held[table[q][i]] # None
    <3>1. table[q] \in Seq(Slots)
      BY <1>4 DEF TableOK
    <3>2. table[q][i] \in Slots
      BY <2>1, <3>1
    <3> QED BY <1>4, <2>1, <3>2 DEF TableOK
  <2>3. table[q][i] \notin ToSet(table[r])
    <3>1. table[r] \in Seq(Slots)
      BY <1>4 DEF TableOK
    <3>2. DOMAIN table[r] = 1 .. Len(table[r])
      BY <3>1
    <3>3. \A j \in 1 .. Len(table[r]) : table[r][j] # table[q][i]
      BY <1>4, <2>1 DEF TableOK
    <3> QED BY <3>2, <3>3 DEF ToSet
  <2> QED BY <1>1, <2>1, <2>2, <2>3
<1>9. TableOK'
  <2>1. \A q \in Reqs : \A i \in 1 .. Len(table'[q]) : held'[table'[q][i]] # None
    BY <1>8
  <2>2. ASSUME NEW q \in Reqs, NEW p \in Reqs,
               NEW i \in 1 .. Len(table'[q]), NEW j \in 1 .. Len(table'[p]), table'[q][i] = table'[p][j]
        PROVE  q = p /\ i = j
    <3>1. table'[q] = table[q] /\ table'[p] = table[p]
      BY <1>7, <1>8
    <3> QED BY <1>4, <2>2, <3>1 DEF TableOK
  <2> QED BY <1>2, <1>7, <2>1, <2>2 DEF TableOK
<1>10. ASSUME NEW a \in Slots, NEW g \in HeadSet, held'[a] # None PROVE Content(a, g)'
  <2>1. held'[a] = held[a]
    BY <1>1, <1>10
  <2>2. ~Pending(a, g)
    BY <1>3 DEF Pending
  <2>3. Content(a, g)
    BY <1>10, <2>1, <2>2 DEF StoreInv
  <2> QED BY <1>1, <2>1, <2>3, ContentKept
<1> QED BY <1>1, <1>2, <1>3, <1>5, <1>6, <1>9, <1>10 DEF StoreInv

(* Where the new tokens of a request are among those of the forward.       *)
LEMMA BeforeFacts ==
  ASSUME NEW n \in Nat, NEW count, \A r \in 1 .. n : count[r] \in Nat
  PROVE  LET before == PrefixSums(count, n)
         IN  /\ before[n] \in Nat
             /\ \A r \in 1 .. n : before[r - 1] \in Nat /\ before[r] = before[r - 1] + count[r]
             /\ \A r \in 1 .. n : \A i \in 1 .. count[r] : before[r - 1] + i \in 1 .. before[n]
             /\ \A r, q \in 1 .. n : \A i \in 1 .. count[r], j \in 1 .. count[q] :
                  before[r - 1] + i = before[q - 1] + j => r = q /\ i = j
<1> DEFINE before == PrefixSums(count, n)
<1>1. before \in [0 .. n -> Nat] /\ \A r \in 1 .. n : before[r] = before[r - 1] + count[r]
  BY SumsDef
<1>2. \A m \in 0 .. n : \A i \in m .. n : before[m] <= before[i]
  BY SumsGrow
<1> HIDE DEF before
<1>3. \A r \in 1 .. n : before[r - 1] \in Nat /\ before[r] \in Nat /\ r - 1 \in 0 .. n /\ r \in 0 .. n
  BY <1>1
<1>4. before[n] \in Nat
  BY <1>1
<1>5. ASSUME NEW r \in 1 .. n, NEW i \in 1 .. count[r] PROVE before[r - 1] + i \in 1 .. before[n]
  <2>1. before[r] <= before[n]
    BY <1>2, <1>3
  <2>2. before[r] = before[r - 1] + count[r] /\ count[r] \in Nat
    BY <1>1
  <2>3. PICK x \in Nat, y \in Nat, z \in Nat : x = before[r - 1] /\ y = count[r] /\ z = before[n]
    BY <1>3, <1>4, <2>2
  <2>4. x + y <= z /\ i \in 1 .. y
    BY <2>1, <2>2, <2>3
  <2>5. x + i \in 1 .. z
    BY <2>3, <2>4
  <2> QED BY <2>3, <2>5
<1>6. ASSUME NEW r \in 1 .. n, NEW q \in 1 .. n, NEW i \in 1 .. count[r], NEW j \in 1 .. count[q], r < q
      PROVE  before[r - 1] + i < before[q - 1] + j
  <2>1. before[r] <= before[q - 1]
    <3>1. q - 1 \in r .. n
      BY <1>6
    <3> QED BY <1>2, <1>3, <3>1
  <2>2. before[r] = before[r - 1] + count[r] /\ count[r] \in Nat /\ count[q] \in Nat
    BY <1>1
  <2> QED BY <1>3, <2>1, <2>2
<1>7. ASSUME NEW r \in 1 .. n, NEW q \in 1 .. n, NEW i \in 1 .. count[r], NEW j \in 1 .. count[q],
             before[r - 1] + i = before[q - 1] + j
      PROVE  r = q /\ i = j
  <2>1. before[r - 1] \in Nat /\ before[q - 1] \in Nat /\ count[r] \in Nat /\ count[q] \in Nat
    BY <1>3
  <2>2. ~(r < q) /\ ~(q < r)
    BY <1>6, <1>7, <2>1
  <2>3. r = q
    BY <2>2
  <2> QED BY <1>7, <2>1, <2>3
<1> QED BY <1>1, <1>3, <1>4, <1>5, <1>7 DEF before

(* q is s followed by t.                                                   *)
Concatenates(q, s, t, S) ==
  /\ q \in Seq(S) /\ Len(q) = Len(s) + Len(t) /\ Len(s) \in Nat /\ Len(t) \in Nat
  /\ \A i \in 1 .. Len(s) : q[i] = s[i]
  /\ \A i \in 1 .. Len(t) : q[Len(s) + i] = t[i]

LEMMA Concatenated ==
  ASSUME NEW S, NEW s \in Seq(S), NEW t \in Seq(S)
  PROVE  Concatenates(s \o t, s, t, S)
BY DEF Concatenates

(* The tokens of a forward get slots of their own, and the token of a slot *)
(* is the one that is stored there.                                        *)
LEMMA ForwardStep ==
  ASSUME StoreInv, NEW count \in [Reqs -> 0 .. pool.maxNew], NEW pad \in 0 .. pool.maxPad,
         Forward(count, pad)
  PROVE  StoreInv'
<1> DEFINE before == PrefixSums(count, pool.reqs)
           total == before[pool.reqs]
<1>1. pool \in Pools /\ TableOK /\ HeldOK /\ MemoryOK /\ arrived \in 0 .. Len(Texts)
  BY DEF StoreInv
<1>2. PICK given \in [1 .. total -> Free] :
        /\ Lowest(given)
        /\ launch = Idle /\ total > 0
        /\ arrived + total <= Len(Texts)
        /\ arrived' = arrived + total
        /\ held' = [s \in Slots |->
                      IF \E i \in 1 .. total : given[i] = s
                      THEN arrived + (CHOOSE i \in 1 .. total : given[i] = s) ELSE held[s]]
        /\ table' = [r \in Reqs |->
                       table[r] \o [i \in 1 .. count[r] |-> given[before[r - 1] + i]]]
        /\ launch' = [kind |-> "store", count |-> count,
                      loc |-> given \o [i \in 1 .. pad |-> 0],
                      ids |-> [i \in 1 .. total |-> arrived + i] \o [i \in 1 .. pad |-> 1]]
        /\ todo' = StoreGrid(total + pad)
        /\ UNCHANGED <<pool, payload, scales>>
  BY DEF Forward
<1>3. Texts' = Texts /\ Slots' = Slots /\ Reqs' = Reqs /\ HeadSet' = HeadSet
  BY <1>2, SamePool DEF HeadSet
<1>4. pool.reqs \in Nat /\ pool.rows \in Nat /\ pool.maxPad \in Nat /\ pool.maxNew \in Nat /\ Len(Texts) \in Nat
  <2>1. pool.reqs \in Nat /\ pool.rows \in Nat
    BY <1>1, PoolFacts
  <2>2. {pool.maxNew, pool.maxPad} \subseteq Nat
    BY <1>1, PoolsAssumption DEF PoolOK
  <2>3. Texts \in Seq([Sides -> [0 .. Heads - 1 -> [0 .. Dim - 1 -> Int]]])
    BY <1>1, PoolFacts
  <2> QED BY <2>1, <2>2, <2>3
<1>5. pad \in Nat /\ \A r \in 1 .. pool.reqs : count[r] \in Nat
  BY <1>4 DEF Reqs
<1>6. /\ total \in Nat
      /\ \A r \in Reqs : \A i \in 1 .. count[r] : before[r - 1] + i \in 1 .. total
      /\ \A r, q \in Reqs : \A i \in 1 .. count[r], j \in 1 .. count[q] :
           before[r - 1] + i = before[q - 1] + j => r = q /\ i = j
  <2>1. Reqs = 1 .. pool.reqs
    BY DEF Reqs
  <2>2. /\ before[pool.reqs] \in Nat
        /\ \A r \in 1 .. pool.reqs : \A i \in 1 .. count[r] : before[r - 1] + i \in 1 .. before[pool.reqs]
        /\ \A r, q \in 1 .. pool.reqs : \A i \in 1 .. count[r], j \in 1 .. count[q] :
             before[r - 1] + i = before[q - 1] + j => r = q /\ i = j
    BY <1>4, <1>5, BeforeFacts, Zenon
  <2> HIDE DEF before
  <2> QED BY <2>1, <2>2, Zenon
<1> HIDE DEF before, total
<1>7. \A i \in 1 .. total : given[i] \in Slots /\ given[i] # 0 /\ held[given[i]] = None
  BY <1>2, <1>4 DEF Free, Slots
<1>8. ASSUME NEW i \in 1 .. total, NEW j \in 1 .. total, given[i] = given[j] PROVE i = j
  <2>1. \A k, l \in 1 .. total : k < l => given[k] < given[l]
    BY <1>2 DEF Lowest
  <2>2. given[i] \in Int /\ given[j] \in Int
    BY <1>4, <1>7 DEF Slots
  <2>3. ~(i < j) /\ ~(j < i)
    BY <1>8, <2>1, <2>2
  <2> QED BY <1>6, <2>3
<1>9. \A i \in 1 .. total : held'[given[i]] = arrived + i
  <2> TAKE i \in 1 .. total
  <2>1. held'[given[i]] = arrived + (CHOOSE j \in 1 .. total : given[j] = given[i])
    BY <1>2, <1>7
  <2>2. (CHOOSE j \in 1 .. total : given[j] = given[i]) = i
    BY <1>8
  <2> QED BY <2>1, <2>2
<1>10. \A s \in Slots : (\A i \in 1 .. total : given[i] # s) => held'[s] = held[s]
  BY <1>2
<1>11. arrived' \in 0 .. Len(Texts)' /\ \A i \in 1 .. total : arrived + i \in 1 .. Len(Texts)
  <2>1. PICK n \in Nat, a \in Nat, m \in Nat : n = Len(Texts) /\ a = arrived /\ m = total /\ a + m <= n
    <3>1. arrived \in Nat /\ arrived + total <= Len(Texts)
      BY <1>1, <1>2
    <3> QED BY <1>4, <1>6, <3>1
  <2>2. a + m \in 0 .. n /\ \A i \in 1 .. m : a + i \in 1 .. n
    BY <2>1
  <2>3. Len(Texts)' = Len(Texts) /\ arrived' = arrived + total
    BY <1>2, <1>3
  <2> QED BY <2>1, <2>2, <2>3
<1>12. HeldOK'
  <2> SUFFICES ASSUME NEW s \in Slots, held'[s] # None PROVE held'[s] \in 1 .. Len(Texts)
    BY <1>3 DEF HeldOK
  <2>1. CASE \E i \in 1 .. total : given[i] = s
    BY <1>9, <1>11, <2>1
  <2>2. CASE \A i \in 1 .. total : given[i] # s
    BY <1>1, <1>10, <2>2 DEF HeldOK
  <2> QED BY <2>1, <2>2
<1>13. /\ \A r \in Reqs : table[r] \in Seq(Slots)
       /\ \A r \in Reqs : \A i \in 1 .. Len(table[r]) : table[r][i] \in Slots /\ held[table[r][i]] # None
  <2>1. \A r \in Reqs : table[r] \in Seq(Slots)
    BY <1>1 DEF TableOK
  <2> QED BY <1>1, <2>1 DEF TableOK
<1>14. ASSUME NEW r \in Reqs
       PROVE  /\ table'[r] \in Seq(Slots) /\ Len(table'[r]) = Len(table[r]) + count[r]
              /\ \A i \in 1 .. Len(table[r]) : table'[r][i] = table[r][i]
              /\ \A i \in 1 .. count[r] : table'[r][Len(table[r]) + i] = given[before[r - 1] + i]
  <2> DEFINE new == [i \in 1 .. count[r] |-> given[before[r - 1] + i]]
  <2>1. count[r] \in Nat /\ \A i \in 1 .. count[r] : given[before[r - 1] + i] \in Slots
    BY <1>5, <1>6, <1>7 DEF Reqs
  <2>2. new \in Seq(Slots) /\ Len(new) = count[r] /\ \A i \in 1 .. count[r] : new[i] = given[before[r - 1] + i]
    BY <2>1
  <2>3. table'[r] = table[r] \o new /\ table[r] \in Seq(Slots)
    BY <1>2, <1>13
  <2> HIDE DEF new
  <2>4. Concatenates(table'[r], table[r], new, Slots)
    BY <2>2, <2>3, Concatenated, Zenon
  <2> QED BY <2>2, <2>3, <2>4 DEF Concatenates
<1>15. ASSUME NEW r \in Reqs, NEW i \in 1 .. Len(table'[r])
       PROVE  \/ i \in 1 .. Len(table[r])
              \/ \E k \in 1 .. count[r] : i = Len(table[r]) + k
  <2>1. Len(table[r]) \in Nat /\ count[r] \in Nat /\ Len(table'[r]) = Len(table[r]) + count[r]
    <3>1. Len(table[r]) \in Nat
      BY <1>13
    <3> QED BY <1>5, <1>14, <3>1 DEF Reqs
  <2>2. i \in 1 .. Len(table[r]) \/ i - Len(table[r]) \in 1 .. count[r]
    BY <2>1
  <2>3. i = Len(table[r]) + (i - Len(table[r]))
    BY <2>1
  <2> QED BY <2>2, <2>3
<1>16. \A r \in Reqs : \A i \in 1 .. Len(table[r]) : \A k \in 1 .. total : given[k] # table[r][i]
  BY <1>7, <1>13
<1>17. ASSUME NEW r \in Reqs, NEW i \in 1 .. Len(table'[r]) PROVE held'[table'[r][i]] # None
  <2>1. CASE i \in 1 .. Len(table[r])
    <3>1. table'[r][i] = table[r][i]
      BY <1>14, <2>1
    <3> QED BY <1>10, <1>13, <1>16, <2>1, <3>1
  <2>2. CASE \E k \in 1 .. count[r] : i = Len(table[r]) + k
    <3>1. PICK k \in 1 .. count[r] : i = Len(table[r]) + k
      BY <2>2
    <3>2. table'[r][i] = given[before[r - 1] + k] /\ before[r - 1] + k \in 1 .. total
      BY <1>6, <1>14, <3>1
    <3>3. held'[table'[r][i]] \in 1 .. Len(Texts)
      BY <1>9, <1>11, <3>2
    <3>4. None \notin 1 .. Len(Texts)
      BY NoneAssumption, <1>4
    <3> QED BY <3>3, <3>4
  <2> QED BY <1>15, <2>1, <2>2
<1>18. ASSUME NEW r \in Reqs, NEW q \in Reqs, NEW i \in 1 .. Len(table'[r]), NEW j \in 1 .. Len(table'[q]),
              table'[r][i] = table'[q][j]
       PROVE  r = q /\ i = j
  <2>1. CASE i \in 1 .. Len(table[r]) /\ j \in 1 .. Len(table[q])
    <3>1. table[r][i] = table[q][j]
      BY <1>14, <1>18, <2>1
    <3> QED BY <1>1, <2>1, <3>1 DEF TableOK
  <2>2. ASSUME i \in 1 .. Len(table[r]), NEW l \in 1 .. count[q], j = Len(table[q]) + l PROVE FALSE
    <3>1. table[r][i] = given[before[q - 1] + l] /\ before[q - 1] + l \in 1 .. total
      BY <1>6, <1>14, <1>18, <2>2
    <3> QED BY <1>16, <2>2, <3>1
  <2>3. ASSUME j \in 1 .. Len(table[q]), NEW k \in 1 .. count[r], i = Len(table[r]) + k PROVE FALSE
    <3>1. table[q][j] = given[before[r - 1] + k] /\ before[r - 1] + k \in 1 .. total
      BY <1>6, <1>14, <1>18, <2>3
    <3> QED BY <1>16, <2>3, <3>1
  <2>4. ASSUME NEW k \in 1 .. count[r], i = Len(table[r]) + k, NEW l \in 1 .. count[q], j = Len(table[q]) + l
        PROVE  r = q /\ i = j
    <3>1. /\ given[before[r - 1] + k] = given[before[q - 1] + l]
          /\ before[r - 1] + k \in 1 .. total /\ before[q - 1] + l \in 1 .. total
      BY <1>6, <1>14, <1>18, <2>4
    <3>2. before[r - 1] + k = before[q - 1] + l
      BY <1>8, <3>1
    <3>3. r = q /\ k = l
      BY <1>6, <3>2
    <3> QED BY <2>4, <3>3
  <2>5. i \in 1 .. Len(table[r]) \/ \E k \in 1 .. count[r] : i = Len(table[r]) + k
    BY <1>15, Zenon
  <2>6. j \in 1 .. Len(table[q]) \/ \E l \in 1 .. count[q] : j = Len(table[q]) + l
    BY <1>15, Zenon
  <2> QED BY <2>1, <2>2, <2>3, <2>4, <2>5, <2>6, Zenon
<1>19. TableOK'
  <2>1. table' \in [Reqs -> Seq(Slots)]
    BY <1>2, <1>14
  <2> QED BY <1>3, <1>17, <1>18, <2>1 DEF TableOK
<1>20. /\ DOMAIN launch'.loc = 1 .. total + pad /\ launch'.kind = "store"
       /\ \A t \in 1 .. total : launch'.loc[t] = given[t] /\ launch'.ids[t] = arrived + t
       /\ \A t \in 1 .. total + pad : t > total => launch'.loc[t] = 0 /\ launch'.ids[t] = 1
  <2> DEFINE zeros == [i \in 1 .. pad |-> 0]
             ones == [i \in 1 .. pad |-> 1]
             new == [i \in 1 .. total |-> arrived + i]
  <2>1. /\ given \in Seq(Int) /\ Len(given) = total
        /\ zeros \in Seq(Int) /\ Len(zeros) = pad /\ ones \in Seq(Int) /\ Len(ones) = pad
        /\ new \in Seq(Int) /\ Len(new) = total
    <3>1. given \in [1 .. total -> Int]
      BY <1>2, <1>4, <1>7 DEF Slots
    <3> QED BY <1>1, <1>5, <1>6, <3>1
  <2> HIDE DEF zeros, ones, new
  <2>2. /\ given \o zeros \in Seq(Int) /\ Len(given \o zeros) = total + pad
        /\ \A t \in 1 .. total : (given \o zeros)[t] = given[t] /\ (new \o ones)[t] = new[t]
        /\ \A i \in 1 .. pad : (given \o zeros)[total + i] = zeros[i] /\ (new \o ones)[total + i] = ones[i]
    <3>1. Concatenates(given \o zeros, given, zeros, Int) /\ Concatenates(new \o ones, new, ones, Int)
      BY <2>1, Concatenated, Zenon
    <3> QED BY <2>1, <3>1 DEF Concatenates
  <2>3. DOMAIN launch'.loc = 1 .. total + pad
    <3>1. launch'.loc = given \o zeros
      BY <1>2 DEF zeros
    <3>2. \A s \in Seq(Int) : DOMAIN s = 1 .. Len(s)
      OBVIOUS
    <3> QED BY <2>2, <3>1, <3>2
  <2>4. launch'.kind = "store" /\ launch'.loc = given \o zeros /\ launch'.ids = new \o ones
    BY <1>2 DEF zeros, ones, new
  <2>5. \A t \in 1 .. total : new[t] = arrived + t
    BY DEF new
  <2>6. \A i \in 1 .. pad : zeros[i] = 0 /\ ones[i] = 1
    BY DEF zeros, ones
  <2>7. \A t \in 1 .. total : launch'.loc[t] = given[t] /\ launch'.ids[t] = arrived + t
    BY <2>2, <2>4, <2>5
  <2>8. ASSUME NEW t \in 1 .. total + pad, t > total PROVE launch'.loc[t] = 0 /\ launch'.ids[t] = 1
    <3>1. PICK i \in 1 .. pad : t = total + i
      <4>1. t - total \in 1 .. pad /\ t = total + (t - total)
        BY <1>5, <1>6, <2>8
      <4> QED BY <4>1
    <3> QED BY <2>2, <2>4, <2>6, <3>1
  <2> QED BY <2>3, <2>4, <2>7, <2>8
<1>21. StoreOK(launch)'
  <2>1. todo' \subseteq (DOMAIN launch'.loc) \X HeadSet
    BY <1>2, <1>20 DEF StoreGrid, HeadSet
  <2>2. ASSUME NEW t \in 1 .. total + pad
        PROVE  /\ launch'.ids[t] \in 1 .. Len(Texts)
               /\ launch'.loc[t] = 0 \/ (launch'.loc[t] \in Slots /\ held'[launch'.loc[t]] = launch'.ids[t])
    <3>1. CASE t \in 1 .. total
      BY <1>7, <1>9, <1>11, <1>20, <3>1
    <3>2. CASE t > total
      <4>1. 1 \in 1 .. Len(Texts)
        BY <1>1, <1>2, <1>4, <1>6
      <4> QED BY <1>20, <3>2, <4>1
    <3>3. t \in 1 .. total \/ t > total
      BY <1>5, <1>6
    <3> QED BY <3>1, <3>2, <3>3
  <2>3. ASSUME NEW t \in 1 .. total + pad, NEW u \in 1 .. total + pad, launch'.loc[t] = launch'.loc[u],
               launch'.loc[t] # 0
        PROVE  t = u
    <3>1. t \in 1 .. total /\ u \in 1 .. total
      BY <1>5, <1>6, <1>20, <2>3
    <3> QED BY <1>8, <1>20, <2>3, <3>1
  <2> QED BY <1>3, <1>20, <2>1, <2>2, <2>3 DEF StoreOK
<1>22. ASSUME NEW a \in Slots, NEW g \in HeadSet, held'[a] # None, ~Pending(a, g)' PROVE Content(a, g)'
  <2>1. \A i \in 1 .. total : given[i] # a
    <3> SUFFICES ASSUME NEW i \in 1 .. total, given[i] = a PROVE FALSE
      OBVIOUS
    <3>1. <<i, g>> \in todo' /\ launch'.loc[i] = a
      BY <1>2, <1>5, <1>6, <1>20 DEF StoreGrid, HeadSet
    <3>2. <<i, g>>[1] = i /\ <<i, g>>[2] = g
      OBVIOUS
    <3> QED BY <1>20, <1>22, <3>1, <3>2 DEF Pending
  <2>2. held'[a] = held[a]
    BY <1>10, <2>1
  <2>3. ~Pending(a, g)
    BY <1>2 DEF Pending, Idle
  <2>4. Content(a, g)
    BY <1>22, <2>2, <2>3 DEF StoreInv
  <2> QED BY <1>2, <2>2, <2>4, ContentKept
<1>23. MemoryOK'
  BY <1>1, <1>2, MemoryKept
<1> QED BY <1>1, <1>2, <1>3, <1>11, <1>12, <1>19, <1>21, <1>22, <1>23 DEF StoreInv

LEMMA StoreNext == StoreInv /\ [Next]_vars => StoreInv'
<1> SUFFICES ASSUME StoreInv, [Next]_vars PROVE StoreInv'
  OBVIOUS
<1>1. CASE UNCHANGED vars
  BY <1>1, StoreStutters
<1>2. ASSUME NEW count \in [Reqs -> 0 .. pool.maxNew], NEW pad \in 0 .. pool.maxPad, Forward(count, pad)
      PROVE  StoreInv'
  BY <1>2, ForwardStep
<1>3. ASSUME NEW p \in todo, Store(p[1], p[2]) PROVE StoreInv'
  <2>1. p = <<p[1], p[2]>>
    <3>1. StoreOK(launch)
      BY <1>3 DEF StoreInv, Store
    <3>2. p \in (DOMAIN launch.loc) \X HeadSet
      BY <3>1 DEF StoreOK
    <3> QED BY <3>2
  <2>2. PICK t, h : t = p[1] /\ h = p[2]
    OBVIOUS
  <2> QED BY <1>3, <2>1, <2>2, StoreStep
<1>4. ASSUME NEW l, NEW programs, Launch(l, programs), l.kind # "store" PROVE StoreInv'
  BY <1>4, ReadStep DEF Launch, Stored
<1>5. ASSUME NEW packed \in BOOLEAN, LaunchCompact(packed) PROVE StoreInv'
  BY <1>4, <1>5 DEF LaunchCompact
<1>6. CASE LaunchPrefix
  BY <1>4, <1>6 DEF LaunchPrefix
<1>7. CASE LaunchPaged
  BY <1>4, <1>7 DEF LaunchPaged
<1>8. ASSUME NEW b, NEW h, NEW pos, Gather(b, h, pos), launch.kind # "store" PROVE StoreInv'
  BY <1>8, ReadStep DEF Gather
<1>9. ASSUME NEW p \in todo, Compact(p[1], p[2], p[3]) PROVE StoreInv'
  BY <1>8, <1>9 DEF Compact
<1>10. ASSUME NEW p \in todo, Prefix(p[1], p[2], p[3]) PROVE StoreInv'
  BY <1>8, <1>10 DEF Prefix
<1>11. ASSUME NEW p \in todo, Paged(p[1], p[2]) PROVE StoreInv'
  BY <1>8, <1>11 DEF Paged
<1>12. CASE Return
  BY <1>12, ReadStep DEF Return, Gathered, Idle
<1>13. ASSUME NEW r \in Reqs, End(r) PROVE StoreInv'
  BY <1>13, EndStep
<1> QED BY <1>1, <1>2, <1>3, <1>5, <1>6, <1>7, <1>9, <1>10, <1>11, <1>12, <1>13 DEF Next

(* What a slot holds reads back as its token.                              *)
LEMMA StoredReturns ==
  ASSUME pool \in Pools, HeldOK, NEW slot \in Slots, held[slot] # None, NEW h \in HeadSet,
         Content(slot, h), NEW s \in Sides, NEW d \in 0 .. Dim - 1
  PROVE  Returns(s, slot, h, d, Loaded(s, slot, h, d))
<1> DEFINE x == Texts[held[slot]][s][h]
<1>1. Texts \in Seq([Sides -> [0 .. Heads - 1 -> [0 .. Dim - 1 -> Int]]])
  BY PoolFacts
<1>2. Texts[held[slot]] \in [Sides -> [0 .. Heads - 1 -> [0 .. Dim - 1 -> Int]]]
  BY <1>1 DEF HeldOK
<1>3. x \in [0 .. Dim - 1 -> Int]
  BY <1>2 DEF HeadSet
<1>4. HoldsRow(s, slot, h, x)
  BY DEF Content
<1>5. Near(x[d], Loaded(s, slot, h, d), AbsMax(x, d \div Group))
  <2> HIDE DEF x
  <2> QED BY <1>3, <1>4, LoadedNear
<1> QED BY <1>5 DEF Returns

LEMMA StoreHolds == StoreInv => PoolHolds
<1> SUFFICES ASSUME StoreInv, NEW slot \in Slots, held[slot] # None, ~Writing(slot),
                    NEW s \in Sides, NEW h \in 0 .. Heads - 1, NEW d \in 0 .. Dim - 1
             PROVE  Returns(s, slot, h, d, Loaded(s, slot, h, d))
  BY DEF PoolHolds
<1>1. ~Pending(slot, h)
  BY DEF Pending, Writing
<1>2. Content(slot, h) /\ h \in HeadSet
  BY <1>1 DEF StoreInv, HeadSet
<1>3. pool \in Pools /\ HeldOK
  BY DEF StoreInv
<1> QED BY <1>2, <1>3, StoredReturns

THEOREM StoreInvariant == Spec => []StoreInv
BY StoreInit, StoreNext, PTL DEF Spec

(* In every pool, of any numbers of heads, channels, groups, slots and     *)
(* requests and with any tokens, a token that was stored reads back within *)
(* the accuracy of its format as long as its slot is its own (kv_int8.py,  *)
(* kv_int4.py: the store kernels).                                         *)
THEOREM PoolAlwaysHolds == Spec => []PoolHolds
BY StoreInvariant, StoreHolds, PTL

-----------------------------------------------------------------------------
(* The gathers.                                                            *)

(* A row of selected positions among n: those come first, then only -1.    *)
RowOK(row, n) ==
  \E k \in Nat :
    /\ DOMAIN row = 1 .. k /\ Count(row) \in 0 .. k
    /\ \A i \in 1 .. k : IF i <= Count(row) THEN row[i] \in 0 .. n - 1 ELSE row[i] = -1

LEMMA CountIs ==
  ASSUME NEW k \in Nat, NEW m \in 0 .. k, NEW row, DOMAIN row = 1 .. k,
         \A i \in 1 .. k : row[i] >= 0 <=> i <= m
  PROVE  Count(row) = m
<1>1. {i \in DOMAIN row : row[i] >= 0} = 1 .. m
  OBVIOUS
<1>2. Cardinality(1 .. m) = m
  BY FS_Interval
<1> QED BY <1>1, <1>2 DEF Count

(* Positions in ascending order are no fewer than their number.            *)
LEMMA AscendingBound ==
  ASSUME NEW n \in Nat, NEW m \in Nat, NEW row, \A i \in 1 .. m : row[i] \in 0 .. n - 1,
         \A i, j \in 1 .. m : i < j => row[i] < row[j]
  PROVE  m <= n
<1> DEFINE T == {i \in 0 .. m : i > 0 => i - 1 <= row[i]}
<1>1. 0 \in T
  OBVIOUS
<1>2. ASSUME NEW i \in 1 .. m, i - 1 \in T PROVE i \in T
  <2>1. row[i] \in 0 .. n - 1
    OBVIOUS
  <2>2. CASE i = 1
    BY <2>1, <2>2
  <2>3. CASE i > 1
    <3>1. i - 1 \in 1 .. m /\ i - 1 < i
      BY <2>3
    <3>2. row[i - 1] < row[i] /\ row[i - 1] \in 0 .. n - 1
      BY <3>1
    <3>3. i - 2 <= row[i - 1]
      BY <1>2, <2>3
    <3> QED BY <2>1, <3>2, <3>3
  <2> QED BY <2>2, <2>3
<1>3. 0 .. m \subseteq T
  <2> HIDE DEF T
  <2> QED BY <1>1, <1>2, Induction
<1>4. CASE m = 0
  BY <1>4
<1>5. CASE m > 0
  <2>1. m - 1 <= row[m] /\ row[m] \in 0 .. n - 1
    BY <1>3, <1>5
  <2> QED BY <2>1
<1> QED BY <1>4, <1>5

LEMMA PositionRowIs ==
  ASSUME pool \in Pools, NEW n \in Nat, NEW row \in PositionRows(n)
  PROVE  /\ RowOK(row, n) /\ DOMAIN row = 1 .. TopK
         /\ Count(row) \in 0 .. TopK /\ Count(row) <= n
<1>1. TopK \in Nat
  BY PoolFacts
<1>2. row \in [1 .. TopK -> -1 .. n - 1]
  BY DEF PositionRows
<1>3. PICK m \in 1 .. TopK : /\ \A i \in 1 .. TopK : row[i] >= 0 <=> i <= m
                             /\ \A i, j \in 1 .. m : i < j => row[i] < row[j]
  BY DEF PositionRows
<1>4. Count(row) = m
  BY <1>1, <1>2, <1>3, CountIs
<1>5. \A i \in 1 .. TopK : IF i <= m THEN row[i] \in 0 .. n - 1 ELSE row[i] = -1
  <2> TAKE i \in 1 .. TopK
  <2>1. row[i] \in -1 .. n - 1 /\ (row[i] >= 0 <=> i <= m)
    BY <1>2, <1>3
  <2> QED BY <2>1
<1>6. m <= n
  <2>1. \A i \in 1 .. m : row[i] \in 0 .. n - 1
    BY <1>1, <1>5
  <2>2. m \in Nat
    BY <1>1
  <2> QED BY <1>3, <2>1, <2>2, AscendingBound
<1>7. DOMAIN row = 1 .. TopK /\ m \in 0 .. TopK
  BY <1>1, <1>2
<1>8. RowOK(row, n)
  BY <1>1, <1>4, <1>5, <1>7 DEF RowOK
<1> QED BY <1>4, <1>6, <1>7, <1>8

(* The column of a tile.                                                   *)
LEMMA TileOf ==
  ASSUME pool \in Pools, NEW cols \in Nat, NEW c \in 0 .. cols - 1
  PROVE  /\ c \div Block \in 0 .. ((cols + Block - 1) \div Block) - 1
         /\ c \in Tile(c \div Block)
<1>1. PICK B \in Nat \ {0} : B = Block
  BY PoolFacts
<1>2. PICK q \in Nat : q = c \div B /\ q * B <= c /\ c < q * B + B
  BY <1>1, DivBounds
<1>3. PICK u \in Nat : u = (cols + B - 1) \div B /\ u * B <= cols + B - 1 /\ cols + B - 1 < u * B + B
  <2>1. cols + B - 1 \in Nat
    BY <1>1
  <2> QED BY <1>1, <2>1, DivBounds
<1>4. (q + 1) * B = q * B + B /\ q * B \in Nat /\ u * B \in Nat
  OBVIOUS
<1>5. q < u
  <2> SUFFICES ASSUME u <= q PROVE FALSE
    OBVIOUS
  <2>1. PICK e \in Nat : q = u + e
    <3>1. q - u \in Nat
      OBVIOUS
    <3> QED BY <3>1
  <2>2. q * B = u * B + e * B /\ e * B \in Nat
    BY <2>1
  <2> QED BY <1>2, <1>3, <1>4, <2>2
<1> QED BY <1>1, <1>2, <1>3, <1>4, <1>5 DEF Tile

(* The paged loop goes past every selected position of its row.            *)
LEMMA LimitEnough ==
  ASSUME pool \in Pools, NEW row, row.visible \in Nat, NEW m \in 0 .. TopK, m <= row.visible
  PROVE  RowLimit(row) \in Nat /\ m <= RowLimit(row)
<1>1. PICK B \in Nat \ {0}, K \in Nat, w \in Nat : B = Block /\ K = TopK /\ w = row.visible
  BY PoolFacts
<1>2. PICK n \in Nat : n = Min({K, w}) /\ m <= n
  BY <1>1, MinOfTwo
<1>3. PICK u \in Nat : u = (n + B - 1) \div B /\ u * B <= n + B - 1 /\ n + B - 1 < u * B + B
  <2>1. n + B - 1 \in Nat
    BY <1>1
  <2> QED BY <1>1, <2>1, DivBounds
<1>4. u * B \in Nat
  OBVIOUS
<1>5. RowLimit(row) = Min({K, u * B})
  BY <1>1, <1>2, <1>3 DEF RowLimit
<1>6. RowLimit(row) = IF K <= u * B THEN K ELSE u * B
  BY <1>4, <1>5, MinOfTwo
<1> QED BY <1>1, <1>2, <1>3, <1>4, <1>6

(* Where a request's queries are in the rows of a chunk.                   *)
LEMMA QueryOf ==
  ASSUME NEW n \in Nat, NEW count, \A r \in 1 .. n : count[r] \in Nat,
         NEW i \in 1 .. PrefixSums(count, n)[n]
  PROVE  \E r \in 1 .. n : PrefixSums(count, n)[r - 1] < i /\ i <= PrefixSums(count, n)[r]
<1> DEFINE before == PrefixSums(count, n)
           T == {r \in 0 .. n : i <= before[r]}
<1>1. before \in [0 .. n -> Nat] /\ before[0] = 0
  BY SumsDef
<1> HIDE DEF before
<1>2. n \in T
  BY <1>1 DEF before
<1>3. PICK r \in T : \A q \in T : r <= q
  <2>1. T \subseteq Nat /\ T # {}
    BY <1>2
  <2> HIDE DEF T
  <2> QED BY <2>1, LeastExists
<1>4. i \in Nat /\ i > 0
  BY <1>1 DEF before
<1>5. r \in 1 .. n /\ r - 1 \in 0 .. n /\ ~(r <= r - 1)
  BY <1>1, <1>4
<1>6. ~(i <= before[r - 1])
  BY <1>3, <1>5
<1> QED BY <1>1, <1>4, <1>5, <1>6 DEF before

Gathering == launch.kind \in {"compact", "prefix", "paged"}

(* The rows of a launch are about requests, and their selections about     *)
(* positions of these.                                                     *)
RowsOK(l) ==
  /\ \E n \in Nat : DOMAIN l.rows = 1 .. n
  /\ \A b \in DOMAIN l.rows :
       /\ l.rows[b].req \in Reqs /\ l.rows[b].len = Len(table[l.rows[b].req])
       /\ RowOK(l.sel[b], l.rows[b].len)
       /\ l.kind = "prefix" => /\ Count(l.sel[b]) = l.rows[b].len
                               /\ \A c \in 0 .. l.rows[b].len - 1 : l.sel[b][c + 1] = c
       /\ l.kind # "prefix" => DOMAIN l.sel[b] = 1 .. TopK /\ Count(l.sel[b]) <= TopK
       /\ l.kind = "paged" => l.rows[b].visible \in Nat /\ Count(l.sel[b]) <= l.rows[b].visible

(* The region of a row has room for its selection and ends before the      *)
(* regions of the next rows begin.                                         *)
RegionsOK(l) ==
  /\ \A b \in DOMAIN l.rows : /\ l.cu[b] \in Nat /\ l.cu[b + 1] \in Nat
                              /\ l.cu[b] + Count(l.sel[b]) <= l.cu[b + 1]
  /\ \A b, q \in DOMAIN l.rows : b < q => l.cu[b + 1] <= l.cu[q]

Columns(b) == 0 .. Count(launch.sel[b]) - 1

(* The columns that program k of a row brings.                             *)
Valid(b, k) == {c \in Columns(b) : launch.kind = "paged" \/ c \in Tile(k)}

Awaited(b, h, c) == \E p \in todo : p[1] = b /\ p[2] = h /\ c \in Valid(b, p[3])

Wanted(s, b, h, c, d) ==
  Loaded(s, table[launch.rows[b].req][launch.sel[b][c + 1] + 1], h, d)

Brought(b, h, c) ==
  \A s \in Sides, d \in 0 .. Dim - 1 :
    /\ Address(b, c, h, d) \in DOMAIN out[s]
    /\ out[s][Address(b, c, h, d)] = Wanted(s, b, h, c, d)

CountsOK ==
  /\ launch.count \in [Reqs -> Nat]
  /\ \A r \in Reqs : launch.count[r] <= Len(table[r])

GatherOK ==
  /\ RowsOK(launch) /\ RegionsOK(launch)
  /\ todo \subseteq (DOMAIN launch.rows) \X HeadSet \X Nat
  /\ launch.kind = "paged" => \A p \in todo : p[3] = 0
  /\ \A b \in DOMAIN launch.rows : \A h \in HeadSet, c \in Columns(b) :
       Awaited(b, h, c) \/ Brought(b, h, c)
  /\ \A s \in Sides : \A a \in DOMAIN out[s] : \E b \in DOMAIN launch.rows : a \in Reads(b)

GatherInv ==
  /\ launch.kind = "store" => CountsOK
  /\ Gathering => GatherOK

LEMMA SameLoaded ==
  ASSUME UNCHANGED <<pool, payload, scales>>
  PROVE  \A s, slot, h, d : Loaded(s, slot, h, d)' = Loaded(s, slot, h, d)
BY SamePool DEF Loaded, Channel8, Channel4, Row, ScaleRow, Group, Heads, Dim, Bytes, NumGroups

(* No two selected positions have the same place in the scratch.           *)
LEMMA AddressApart ==
  ASSUME pool \in Pools, RowsOK(launch), RegionsOK(launch),
         NEW b \in DOMAIN launch.rows, NEW q \in DOMAIN launch.rows,
         NEW c \in Columns(b), NEW e \in Columns(q), NEW h \in HeadSet, NEW g \in HeadSet,
         NEW d \in 0 .. Dim - 1, NEW f \in 0 .. Dim - 1,
         Address(b, c, h, d) = Address(q, e, g, f)
  PROVE  b = q /\ c = e /\ h = g /\ d = f
<1>1. Heads \in Nat \ {0} /\ Dim \in Nat \ {0}
  BY PoolFacts
<1>2. /\ launch.cu[b] \in Nat /\ launch.cu[q] \in Nat
      /\ launch.cu[b] + Count(launch.sel[b]) <= launch.cu[b + 1] /\ launch.cu[b + 1] \in Nat
      /\ launch.cu[q] + Count(launch.sel[q]) <= launch.cu[q + 1] /\ launch.cu[q + 1] \in Nat
  BY DEF RegionsOK
<1>3. Count(launch.sel[b]) \in Nat /\ Count(launch.sel[q]) \in Nat
  BY DEF RowsOK, RowOK
<1>4. c \in Nat /\ c < Count(launch.sel[b]) /\ e \in Nat /\ e < Count(launch.sel[q])
  BY <1>3 DEF Columns
<1>5. launch.cu[b] + c = launch.cu[q] + e /\ h = g /\ d = f
  <2>1. launch.cu[b] + c \in Nat /\ launch.cu[q] + e \in Nat
    BY <1>2, <1>4
  <2>2. ((launch.cu[b] + c) * Heads + h) * Dim + d = ((launch.cu[q] + e) * Heads + g) * Dim + f
    BY DEF Address
  <2>3. PICK m \in Nat, n \in Nat : m = launch.cu[b] + c /\ n = launch.cu[q] + e
    BY <2>1
  <2>4. (m * Heads + h) * Dim + d = (n * Heads + g) * Dim + f
    BY <2>2, <2>3
  <2>5. m = n /\ h = g /\ d = f
    <3>1. PICK H \in Nat \ {0}, D \in Nat : H = Heads /\ D = Dim
      BY <1>1
    <3>2. /\ h \in 0 .. H - 1 /\ g \in 0 .. H - 1 /\ d \in 0 .. D - 1 /\ f \in 0 .. D - 1
          /\ (m * H + h) * D + d = (n * H + g) * D + f
      BY <2>4, <3>1 DEF HeadSet
    <3>3. m * H + h \in Nat /\ n * H + g \in Nat
      BY <3>2
    <3>4. m * H + h = n * H + g /\ d = f
      BY <3>2, <3>3, AddressUnique
    <3> QED BY <3>2, <3>4, AddressUnique
  <2> QED BY <2>3, <2>5
<1>6. b \in Nat /\ q \in Nat
  BY DEF RowsOK
<1>7. ~(b < q)
  <2> SUFFICES ASSUME b < q PROVE FALSE
    OBVIOUS
  <2>1. launch.cu[b + 1] <= launch.cu[q]
    BY DEF RegionsOK
  <2> QED BY <1>2, <1>3, <1>4, <1>5, <2>1
<1>8. ~(q < b)
  <2> SUFFICES ASSUME q < b PROVE FALSE
    OBVIOUS
  <2>1. launch.cu[q + 1] <= launch.cu[b]
    BY DEF RegionsOK
  <2> QED BY <1>2, <1>3, <1>4, <1>5, <2>1
<1>9. b = q
  BY <1>6, <1>7, <1>8
<1> QED BY <1>2, <1>4, <1>5, <1>9

(* A program brings its columns, and leaves those that were brought.       *)
LEMMA GatherStep ==
  ASSUME pool \in Pools, Gathering, GatherOK, NEW b, NEW h, NEW k, <<b, h, k>> \in todo,
         todo' = todo \ {<<b, h, k>>}, NEW pos, DOMAIN pos = Valid(b, k),
         \A c \in Valid(b, k) : pos[c] = launch.sel[b][c + 1], Gather(b, h, pos)
  PROVE  GatherInv'
<1> DEFINE written == Places(b, h, Valid(b, k))
           value(s, a) == Carried(s, b, h, pos, a)
           slot(c) == table[launch.rows[b].req][pos[c] + 1]
<1>1. /\ out' = [s \in Sides |-> [a \in written \cup DOMAIN out[s] |->
                   IF a \in written THEN value(s, a) ELSE out[s][a]]]
      /\ UNCHANGED <<pool, payload, scales, table, held, arrived, launch>>
  <2>1. /\ out' = [s \in Sides |-> [a \in Places(b, h, DOMAIN pos) \cup DOMAIN out[s] |->
                     IF a \in Places(b, h, DOMAIN pos) THEN Carried(s, b, h, pos, a) ELSE out[s][a]]]
        /\ UNCHANGED <<pool, payload, scales, table, held, arrived, launch>>
    BY Zenon DEF Gather
  <2> QED BY <2>1
<1>2. b \in DOMAIN launch.rows /\ h \in HeadSet /\ k \in Nat
  BY DEF GatherOK
<1>3. \A s \in Sides : /\ DOMAIN out'[s] = written \cup DOMAIN out[s]
                       /\ \A a \in written : out'[s][a] = value(s, a)
                       /\ \A a \in DOMAIN out[s] : a \notin written => out'[s][a] = out[s][a]
  <2> HIDE DEF written, value
  <2> TAKE s \in Sides
  <2>1. out'[s] = [a \in written \cup DOMAIN out[s] |-> IF a \in written THEN value(s, a) ELSE out[s][a]]
    BY <1>1
  <2> QED BY <2>1
<1>4. RowsOK(launch) /\ RegionsOK(launch)
  BY DEF GatherOK
<1>5. ASSUME NEW s \in Sides, NEW c \in Valid(b, k), NEW d \in 0 .. Dim - 1
      PROVE  /\ Address(b, c, h, d) \in written
             /\ value(s, Address(b, c, h, d)) = Wanted(s, b, h, c, d)
  <2>1. \A p \in Valid(b, k) \X (0 .. Dim - 1) : Address(b, p[1], h, p[2]) = Address(b, c, h, d) => p = <<c, d>>
    <3> SUFFICES ASSUME NEW e \in Valid(b, k), NEW f \in 0 .. Dim - 1,
                        Address(b, e, h, f) = Address(b, c, h, d)
                 PROVE  e = c /\ f = d
      OBVIOUS
    <3>1. e \in Columns(b) /\ c \in Columns(b)
      BY DEF Valid
    <3> QED BY <1>2, <1>4, <3>1, AddressApart
  <2>2. (CHOOSE p \in Valid(b, k) \X (0 .. Dim - 1) : Address(b, p[1], h, p[2]) = Address(b, c, h, d)) = <<c, d>>
    <3>1. <<c, d>> \in Valid(b, k) \X (0 .. Dim - 1) /\ <<c, d>>[1] = c /\ <<c, d>>[2] = d
      OBVIOUS
    <3> QED BY <2>1, <3>1
  <2>3. value(s, Address(b, c, h, d)) = Loaded(s, slot(c), h, d)
    <3>1. <<c, d>>[1] = c /\ <<c, d>>[2] = d
      OBVIOUS
    <3>2. value(s, Address(b, c, h, d))
            = LET p == CHOOSE p \in Valid(b, k) \X (0 .. Dim - 1) : Address(b, p[1], h, p[2]) = Address(b, c, h, d)
              IN Loaded(s, slot(p[1]), h, p[2])
      <4>1. DOMAIN pos = Valid(b, k)
        OBVIOUS
      <4> QED BY <4>1, Zenon DEF Carried
    <3> QED BY <2>2, <3>1, <3>2, Zenon
  <2>4. slot(c) = table[launch.rows[b].req][launch.sel[b][c + 1] + 1]
    OBVIOUS
  <2>5. value(s, Address(b, c, h, d)) = Wanted(s, b, h, c, d)
    BY <2>3, <2>4, Zenon DEF Wanted
  <2>6. Address(b, c, h, d) \in written
    BY DEF Places
  <2> HIDE DEF written, value
  <2> QED BY <2>5, <2>6, Zenon
<1>6. ASSUME NEW s \in Sides, NEW c \in Valid(b, k), NEW d \in 0 .. Dim - 1
      PROVE  /\ Address(b, c, h, d) \in DOMAIN out'[s]
             /\ out'[s][Address(b, c, h, d)] = Wanted(s, b, h, c, d)
  <2> HIDE DEF written, value
  <2> QED BY <1>3, <1>5
<1>7. /\ \A q, c, g, d : Address(q, c, g, d)' = Address(q, c, g, d)
      /\ \A s, q, g, c, d : Wanted(s, q, g, c, d)' = Wanted(s, q, g, c, d)
      /\ \A q : Columns(q)' = Columns(q) /\ Reads(q)' = Reads(q)
      /\ \A q, i : Valid(q, i)' = Valid(q, i)
      /\ HeadSet' = HeadSet /\ Dim' = Dim
  <2>1. /\ Heads' = Heads /\ Dim' = Dim /\ HeadSet' = HeadSet /\ Block' = Block
    BY <1>1, SamePool DEF HeadSet
  <2>2. \A q, c, g, d : Address(q, c, g, d)' = Address(q, c, g, d)
    BY <1>1, <2>1 DEF Address
  <2>3. \A s, q, g, c, d : Wanted(s, q, g, c, d)' = Wanted(s, q, g, c, d)
    BY <1>1, SameLoaded DEF Wanted
  <2>6. \A q : Columns(q)' = Columns(q)
    BY <1>1 DEF Columns
  <2>7. \A q : Reads(q)' = Reads(q)
    <3>1. launch' = launch /\ Heads' = Heads /\ Dim' = Dim
      BY <1>1, <2>1
    <3>2. \A q, g, cols : Places(q, g, cols)' = Places(q, g, cols)
      BY <3>1, <2>2 DEF Places
    <3> QED BY <3>1, <3>2, Zenon DEF Reads
  <2>4. \A q : Columns(q)' = Columns(q) /\ Reads(q)' = Reads(q)
    BY <2>6, <2>7
  <2>5. \A q, i : Valid(q, i)' = Valid(q, i)
    BY <1>1, <2>1, <2>4 DEF Valid, Tile
  <2> QED BY <2>1, <2>2, <2>3, <2>4, <2>5
<1>8. RowsOK(launch)' /\ RegionsOK(launch)'
  <2>1. RowsOK(launch)'
    BY <1>1, <1>4, SamePool DEF RowsOK
  <2>2. RegionsOK(launch)'
    BY <1>1, <1>4 DEF RegionsOK
  <2> QED BY <2>1, <2>2
<1>9. ASSUME NEW q \in DOMAIN launch.rows, NEW g \in HeadSet, NEW c \in Columns(q), ~Awaited(q, g, c)'
      PROVE  Brought(q, g, c)'
  <2> SUFFICES ASSUME NEW s \in Sides, NEW d \in 0 .. Dim - 1
               PROVE  /\ Address(q, c, g, d) \in DOMAIN out'[s]
                      /\ out'[s][Address(q, c, g, d)] = Wanted(s, q, g, c, d)
    BY <1>7 DEF Brought, Sides
  <2>1. CASE q = b /\ g = h /\ c \in Valid(b, k)
    BY <1>6, <2>1
  <2>2. CASE ~(q = b /\ g = h /\ c \in Valid(b, k))
    <3>1. ~Awaited(q, g, c)
      <4> SUFFICES ASSUME NEW p \in todo, p[1] = q, p[2] = g, c \in Valid(q, p[3]) PROVE FALSE
        BY DEF Awaited
      <4>1. p # <<b, h, k>>
        BY <2>2
      <4>2. p \in todo'
        BY <4>1
      <4> QED BY <1>7, <1>9, <4>2 DEF Awaited
    <3>2. /\ Address(q, c, g, d) \in DOMAIN out[s]
          /\ out[s][Address(q, c, g, d)] = Wanted(s, q, g, c, d)
      <4>1. Brought(q, g, c)
        BY <3>1 DEF GatherOK
      <4> QED BY <4>1 DEF Brought
    <3>3. Address(q, c, g, d) \notin written
      <4> SUFFICES ASSUME NEW e \in Valid(b, k), NEW f \in 0 .. Dim - 1,
                          Address(q, c, g, d) = Address(b, e, h, f)
                   PROVE  FALSE
        BY DEF Places
      <4>1. e \in Columns(b)
        BY DEF Valid
      <4>2. q = b /\ c = e /\ g = h
        BY <1>2, <1>4, <4>1, AddressApart
      <4> QED BY <2>2, <4>2
    <3> HIDE DEF written
    <3> QED BY <1>3, <3>2, <3>3
  <2> QED BY <2>1, <2>2
<1>10. ASSUME NEW s \in Sides, NEW a \in DOMAIN out'[s] PROVE \E q \in DOMAIN launch.rows : a \in Reads(q)
  <2>1. CASE a \in DOMAIN out[s]
    BY <2>1 DEF GatherOK
  <2>2. CASE a \in written
    <3>1. PICK c \in Valid(b, k), d \in 0 .. Dim - 1 : a = Address(b, c, h, d)
      BY <2>2 DEF Places
    <3>2. c \in Columns(b)
      BY DEF Valid
    <3>3. a \in Reads(b)
      <4>1. a \in Places(b, h, Columns(b))
        BY <3>1, <3>2 DEF Places
      <4> QED BY <1>2, <4>1 DEF Reads, Columns, HeadSet
    <3> QED BY <1>2, <3>3
  <2> HIDE DEF written
  <2> QED BY <1>3, <2>1, <2>2
<1>11. /\ todo' \subseteq (DOMAIN launch.rows) \X HeadSet \X Nat
       /\ launch.kind = "paged" => \A p \in todo' : p[3] = 0
  BY DEF GatherOK
<1>12. GatherOK'
  <2> HIDE DEF written, value
  <2> QED BY <1>1, <1>7, <1>8, <1>9, <1>10, <1>11 DEF GatherOK, Sides
<1>13. launch'.kind # "store"
  BY <1>1 DEF Gathering
<1> QED BY <1>12, <1>13 DEF GatherInv

(* A launch has a program for every selected column.                       *)
LEMMA LaunchStep ==
  ASSUME pool \in Pools, NEW l, NEW programs, Launch(l, programs),
         l.kind \in {"compact", "prefix", "paged"}, RowsOK(l), RegionsOK(l),
         programs \subseteq (DOMAIN l.rows) \X HeadSet \X Nat,
         l.kind = "paged" => \A p \in programs : p[3] = 0,
         \A b \in DOMAIN l.rows : \A h \in HeadSet, c \in 0 .. Count(l.sel[b]) - 1 :
           \E k \in Nat : <<b, h, k>> \in programs /\ (l.kind = "paged" \/ c \in Tile(k))
  PROVE  GatherInv'
<1>1. /\ launch' = l /\ todo' = programs /\ out' = [s \in Sides |-> <<>>]
      /\ UNCHANGED <<pool, payload, scales, table, held, arrived>>
  BY DEF Launch
<1>2. RowsOK(launch)' /\ RegionsOK(launch)'
  <2>1. RowsOK(launch)'
    BY <1>1, SamePool DEF RowsOK
  <2>2. RegionsOK(launch)'
    BY <1>1 DEF RegionsOK
  <2> QED BY <2>1, <2>2
<1>3. HeadSet' = HeadSet /\ \A k : Tile(k)' = Tile(k)
  BY <1>1, SamePool DEF HeadSet, Tile
<1>4. ASSUME NEW b \in DOMAIN l.rows, NEW h \in HeadSet, NEW c \in 0 .. Count(l.sel[b]) - 1
      PROVE  Awaited(b, h, c)'
  <2>1. PICK k \in Nat : <<b, h, k>> \in todo' /\ (l.kind = "paged" \/ c \in Tile(k))
    BY <1>1
  <2>2. c \in Valid(b, k)'
    BY <1>1, <1>3, <2>1 DEF Valid, Columns
  <2>3. <<b, h, k>>[1] = b /\ <<b, h, k>>[2] = h /\ <<b, h, k>>[3] = k
    OBVIOUS
  <2> QED BY <2>1, <2>2, <2>3 DEF Awaited
<1>5. \A b : Columns(b)' = 0 .. Count(l.sel[b]) - 1
  BY <1>1 DEF Columns
<1>6. \A s \in Sides : DOMAIN out'[s] = {}
  BY <1>1
<1>7. /\ todo' \subseteq (DOMAIN launch'.rows) \X HeadSet' \X Nat
      /\ launch'.kind = "paged" => \A p \in todo' : p[3] = 0
  BY <1>1, <1>3
<1>8. GatherOK'
  <2>1. \A b \in DOMAIN launch'.rows : \A h \in HeadSet', c \in Columns(b)' : Awaited(b, h, c)'
    BY <1>1, <1>3, <1>4, <1>5
  <2>2. \A s \in Sides' : \A a \in DOMAIN out'[s] : \E b \in DOMAIN launch'.rows : a \in Reads(b)'
    BY <1>6 DEF Sides
  <2> QED BY <1>2, <1>7, <2>1, <2>2 DEF GatherOK
<1> QED BY <1>1, <1>8 DEF GatherInv

LEMMA CumulativeIs ==
  ASSUME NEW n \in Nat, NEW sizes, sizes = [b \in 1 .. n |-> sizes[b]],
         \A b \in 1 .. n : sizes[b] \in Nat
  PROVE  /\ \A b \in 1 .. n : /\ Cumulative(sizes)[b] \in Nat /\ Cumulative(sizes)[b + 1] \in Nat
                              /\ Cumulative(sizes)[b + 1] = Cumulative(sizes)[b] + sizes[b]
         /\ \A b, q \in 1 .. n : b < q => Cumulative(sizes)[b + 1] <= Cumulative(sizes)[q]
<1>1. Len(sizes) = n
  <2>1. sizes \in Seq(Nat) /\ DOMAIN sizes = 1 .. n
    BY SeqDef
  <2> QED BY <2>1
<1> DEFINE sum == PrefixSums(sizes, n)
<1>2. sum \in [0 .. n -> Nat] /\ \A i \in 1 .. n : sum[i] = sum[i - 1] + sizes[i]
  BY SumsDef
<1>3. \A m \in 0 .. n : \A i \in m .. n : sum[m] <= sum[i]
  BY SumsGrow
<1>4. Cumulative(sizes) = [b \in 1 .. n + 1 |-> sum[b - 1]]
  BY <1>1 DEF Cumulative
<1> HIDE DEF sum
<1>5. \A b \in 1 .. n : /\ Cumulative(sizes)[b] = sum[b - 1] /\ Cumulative(sizes)[b + 1] = sum[b]
                        /\ b - 1 \in 0 .. n /\ b \in 0 .. n
  <2> TAKE b \in 1 .. n
  <2>1. b \in 1 .. n + 1 /\ b + 1 \in 1 .. n + 1 /\ (b + 1) - 1 = b
    OBVIOUS
  <2> QED BY <1>4, <2>1
<1>6. ASSUME NEW b \in 1 .. n, NEW q \in 1 .. n, b < q
      PROVE  Cumulative(sizes)[b + 1] <= Cumulative(sizes)[q]
  <2>1. q - 1 \in b .. n
    BY <1>6
  <2> QED BY <1>3, <1>5, <2>1
<1> QED BY <1>2, <1>5, <1>6

(* The rows of a batch are about requests of it.                           *)
LEMMA BatchIs ==
  ASSUME pool \in Pools, TableOK
  PROVE  /\ Len(Batch) \in Nat
         /\ RequestRows = [b \in 1 .. Len(Batch) |-> RequestRows[b]]
         /\ \A b \in 1 .. Len(Batch) :
              /\ RequestRows[b].req \in Reqs
              /\ RequestRows[b].len = Len(table[RequestRows[b].req])
              /\ RequestRows[b].len \in Nat
<1>1. Batch \in Seq(Reqs)
  <2> DEFINE all == [r \in Reqs |-> r]
  <2>1. all \in Seq(Reqs)
    <3>1. pool.reqs \in Nat
      BY PoolFacts
    <3>2. all = [r \in 1 .. pool.reqs |-> r]
      BY DEF Reqs
    <3> QED BY <3>1, <3>2, SeqDef DEF Reqs
  <2> HIDE DEF all
  <2>2. \A P : Select(all, P) \in Seq(Reqs)
    BY <2>1, SelectProperties
  <2> QED BY <2>2 DEF Batch, all
<1>2. Len(Batch) \in Nat /\ \A b \in 1 .. Len(Batch) : Batch[b] \in Reqs
  BY <1>1
<1>3. \A r \in Reqs : Len(table[r]) \in Nat
  <2>1. \A r \in Reqs : table[r] \in Seq(Slots)
    BY DEF TableOK
  <2> QED BY <2>1
<1>4. RequestRows = [b \in 1 .. Len(Batch) |-> [req |-> Batch[b], len |-> Len(table[Batch[b]])]]
  BY DEF RequestRows
<1> HIDE DEF RequestRows
<1>5. RequestRows = [b \in 1 .. Len(Batch) |-> RequestRows[b]]
  BY <1>4
<1>6. \A b \in 1 .. Len(Batch) : RequestRows[b] = [req |-> Batch[b], len |-> Len(table[Batch[b]])]
  BY <1>4
<1> QED BY <1>2, <1>3, <1>5, <1>6

LEMMA GridCovers ==
  ASSUME pool \in Pools, NEW n \in Nat, NEW cols \in Nat
  PROVE  /\ Grid(n, cols) \subseteq (1 .. n) \X HeadSet \X Nat
         /\ \A b \in 1 .. n, h \in HeadSet, c \in 0 .. cols - 1 :
              \E k \in Nat : <<b, h, k>> \in Grid(n, cols) /\ c \in Tile(k)
<1> DEFINE tiles == 0 .. ((cols + Block - 1) \div Block) - 1
<1>1. Grid(n, cols) = (1 .. n) \X HeadSet \X tiles
  BY DEF Grid, HeadSet
<1>2. tiles \subseteq Nat
  <2>1. (cols + Block - 1) \div Block \in Int
    <3>1. Block \in Nat \ {0}
      BY PoolFacts
    <3> QED BY <3>1
  <2> QED BY <2>1
<1>3. \A c \in 0 .. cols - 1 : \E k \in tiles : c \in Tile(k)
  BY TileOf
<1> HIDE DEF tiles
<1>4. Grid(n, cols) \subseteq (1 .. n) \X HeadSet \X Nat
  BY <1>1, <1>2
<1>5. ASSUME NEW b \in 1 .. n, NEW h \in HeadSet, NEW c \in 0 .. cols - 1
      PROVE  \E k \in Nat : <<b, h, k>> \in Grid(n, cols) /\ c \in Tile(k)
  <2>1. PICK k \in tiles : c \in Tile(k)
    BY <1>3
  <2>2. k \in Nat /\ <<b, h, k>> \in Grid(n, cols)
    BY <1>1, <1>2
  <2> QED BY <2>1, <2>2
<1> QED BY <1>4, <1>5

LEMMA CompactLaunchStep ==
  ASSUME StoreInv, NEW packed \in BOOLEAN, LaunchCompact(packed)
  PROVE  GatherInv'
<1> DEFINE n == Len(Batch)
<1>1. pool \in Pools /\ TableOK
  BY DEF StoreInv
<1>2. PICK sel \in Selected(RequestRows) :
        Launch([kind |-> "compact", rows |-> RequestRows, sel |-> sel,
                cu |-> Cumulative([b \in 1 .. n |-> IF packed THEN Count(sel[b]) ELSE pool.page])],
               Grid(n, TopK))
  BY DEF LaunchCompact
<1> DEFINE sizes == [b \in 1 .. n |-> IF packed THEN Count(sel[b]) ELSE pool.page]
           l == [kind |-> "compact", rows |-> RequestRows, sel |-> sel, cu |-> Cumulative(sizes)]
<1>3. TopK \in Nat /\ pool.page \in Nat /\ TopK <= pool.page
  BY <1>1, PoolFacts
<1>4. /\ n \in Nat /\ DOMAIN RequestRows = 1 .. n
      /\ \A b \in 1 .. n : /\ RequestRows[b].req \in Reqs
                           /\ RequestRows[b].len = Len(table[RequestRows[b].req])
                           /\ RequestRows[b].len \in Nat
  <2>1. RequestRows = [b \in 1 .. n |-> RequestRows[b]]
    BY <1>1, BatchIs
  <2>2. DOMAIN RequestRows = 1 .. n
    BY <2>1
  <2> QED BY <1>1, <2>2, BatchIs
<1> HIDE DEF n
<1>5. \A b \in 1 .. n : sel[b] \in PositionRows(RequestRows[b].len)
  BY <1>4 DEF Selected
<1>6. \A b \in 1 .. n : /\ RowOK(sel[b], RequestRows[b].len)
                        /\ DOMAIN sel[b] = 1 .. TopK /\ Count(sel[b]) \in 0 .. TopK
  BY <1>1, <1>4, <1>5, PositionRowIs
<1>7. \A b \in 1 .. n : sizes[b] \in Nat /\ Count(sel[b]) <= sizes[b]
  BY <1>3, <1>6
<1>8. sizes = [b \in 1 .. n |-> sizes[b]]
  OBVIOUS
<1>9. Launch(l, Grid(n, TopK))
  BY <1>2
<1> HIDE DEF sizes
<1>10. /\ l.kind = "compact" /\ l.rows = RequestRows /\ l.sel = sel /\ l.cu = Cumulative(sizes)
  OBVIOUS
<1> HIDE DEF l
<1>11. RowsOK(l)
  <2>1. l.kind # "prefix" /\ l.kind # "paged"
    BY <1>10
  <2>2. \A b \in 1 .. n :
          /\ l.rows[b].req \in Reqs /\ l.rows[b].len = Len(table[l.rows[b].req])
          /\ RowOK(l.sel[b], l.rows[b].len)
          /\ DOMAIN l.sel[b] = 1 .. TopK /\ Count(l.sel[b]) \in 0 .. TopK
    BY <1>4, <1>6, <1>10
  <2>3. \A b \in 1 .. n : Count(l.sel[b]) <= TopK
    BY <1>3, <2>2
  <2>4. DOMAIN l.rows = 1 .. n
    BY <1>4, <1>10
  <2> QED BY <1>4, <2>1, <2>2, <2>3, <2>4 DEF RowsOK
<1>12. RegionsOK(l)
  <2>1. \A b \in 1 .. n : /\ l.cu[b] \in Nat /\ l.cu[b + 1] \in Nat
                          /\ l.cu[b + 1] = l.cu[b] + sizes[b]
    BY <1>4, <1>7, <1>8, <1>10, CumulativeIs
  <2>2. \A b, q \in 1 .. n : b < q => l.cu[b + 1] <= l.cu[q]
    BY <1>4, <1>7, <1>8, <1>10, CumulativeIs
  <2>3. \A b \in 1 .. n : l.cu[b] + Count(l.sel[b]) <= l.cu[b + 1]
    BY <1>6, <1>7, <1>10, <2>1
  <2> QED BY <1>4, <1>10, <2>1, <2>2, <2>3 DEF RegionsOK
<1>13. \A b \in DOMAIN l.rows : \A h \in HeadSet, c \in 0 .. Count(l.sel[b]) - 1 :
         \E k \in Nat : <<b, h, k>> \in Grid(n, TopK) /\ (l.kind = "paged" \/ c \in Tile(k))
  <2> SUFFICES ASSUME NEW b \in 1 .. n, NEW h \in HeadSet, NEW c \in 0 .. Count(sel[b]) - 1
               PROVE  \E k \in Nat : <<b, h, k>> \in Grid(n, TopK) /\ c \in Tile(k)
    BY <1>4, <1>10
  <2>1. c \in 0 .. TopK - 1
    BY <1>3, <1>6
  <2> QED BY <1>1, <1>3, <1>4, <2>1, GridCovers
<1>14. Grid(n, TopK) \subseteq (DOMAIN l.rows) \X HeadSet \X Nat
  BY <1>1, <1>3, <1>4, <1>10, GridCovers
<1> QED BY <1>1, <1>9, <1>10, <1>11, <1>12, <1>13, <1>14, LaunchStep

LEMMA PrefixLaunchStep ==
  ASSUME StoreInv, LaunchPrefix
  PROVE  GatherInv'
<1> DEFINE n == Len(Batch)
           size == [b \in 1 .. n |-> RequestRows[b].len]
           sel == [b \in 1 .. n |-> [i \in 1 .. size[b] |-> i - 1]]
           l == [kind |-> "prefix", rows |-> RequestRows, sel |-> sel, cu |-> Cumulative(size)]
           cols == Max(ToSet(size))
<1>1. pool \in Pools /\ TableOK
  BY DEF StoreInv
<1>2. Launch(l, Grid(n, cols))
  BY DEF LaunchPrefix
<1>3. /\ n \in Nat /\ DOMAIN RequestRows = 1 .. n
      /\ \A b \in 1 .. n : /\ RequestRows[b].req \in Reqs
                           /\ RequestRows[b].len = Len(table[RequestRows[b].req])
                           /\ RequestRows[b].len \in Nat
  <2>1. RequestRows = [b \in 1 .. n |-> RequestRows[b]]
    BY <1>1, BatchIs
  <2>2. DOMAIN RequestRows = 1 .. n
    BY <2>1
  <2> QED BY <1>1, <2>2, BatchIs
<1> HIDE DEF n
<1>4. /\ \A b \in 1 .. n : size[b] = RequestRows[b].len /\ size[b] \in Nat
      /\ size = [b \in 1 .. n |-> size[b]] /\ DOMAIN size = 1 .. n
  BY <1>3
<1>5. \A b \in 1 .. n : /\ DOMAIN sel[b] = 1 .. size[b]
                        /\ \A i \in 1 .. size[b] : sel[b][i] = i - 1
  OBVIOUS
<1>6. l.kind = "prefix" /\ l.rows = RequestRows /\ l.sel = sel /\ l.cu = Cumulative(size)
  OBVIOUS
<1> HIDE DEF l, sel, size
<1>7. \A b \in 1 .. n : Count(sel[b]) = size[b]
  <2> TAKE b \in 1 .. n
  <2>1. PICK k \in Nat : k = size[b]
    BY <1>4
  <2>2. \A i \in 1 .. k : sel[b][i] >= 0 <=> i <= k
    BY <1>5, <2>1
  <2>3. k \in 0 .. k
    OBVIOUS
  <2> QED BY <1>5, <2>1, <2>2, <2>3, CountIs
<1>8. ASSUME NEW b \in 1 .. n PROVE RowOK(sel[b], RequestRows[b].len)
  <2>1. PICK k \in Nat : k = size[b] /\ k = RequestRows[b].len /\ k = Count(sel[b])
    BY <1>4, <1>7
  <2>2. DOMAIN sel[b] = 1 .. k /\ \A i \in 1 .. k : sel[b][i] = i - 1
    BY <1>5, <2>1
  <2>3. \A i \in 1 .. k : IF i <= k THEN sel[b][i] \in 0 .. k - 1 ELSE sel[b][i] = -1
    BY <2>2
  <2> QED BY <2>1, <2>2, <2>3 DEF RowOK
<1>9. RowsOK(l)
  <2>1. ASSUME NEW b \in 1 .. n
        PROVE  /\ Count(l.sel[b]) = l.rows[b].len
               /\ \A c \in 0 .. l.rows[b].len - 1 : l.sel[b][c + 1] = c
    <3>1. PICK k \in Nat : k = size[b] /\ k = RequestRows[b].len
      BY <1>4
    <3>2. \A i \in 1 .. k : sel[b][i] = i - 1
      BY <1>5, <3>1
    <3>3. \A c \in 0 .. k - 1 : sel[b][c + 1] = c
      <4> TAKE c \in 0 .. k - 1
      <4>1. c + 1 \in 1 .. k /\ (c + 1) - 1 = c
        OBVIOUS
      <4> QED BY <3>2, <4>1
    <3> QED BY <1>6, <1>7, <3>1, <3>3
  <2> QED BY <1>3, <1>6, <1>8, <2>1 DEF RowsOK
<1>10. RegionsOK(l)
  <2>0. size = [b \in 1 .. n |-> size[b]] /\ \A b \in 1 .. n : size[b] \in Nat
    BY <1>4
  <2>1. \A b \in 1 .. n : /\ l.cu[b] \in Nat /\ l.cu[b + 1] \in Nat
                          /\ l.cu[b + 1] = l.cu[b] + size[b]
    BY <1>3, <2>0, <1>6, CumulativeIs
  <2>2. \A b, q \in 1 .. n : b < q => l.cu[b + 1] <= l.cu[q]
    BY <1>3, <2>0, <1>6, CumulativeIs
  <2>3. \A b \in 1 .. n : l.cu[b] + Count(l.sel[b]) <= l.cu[b + 1]
    BY <1>4, <1>6, <1>7, <2>1
  <2> QED BY <1>3, <1>6, <2>1, <2>2, <2>3 DEF RegionsOK
<1>11. CASE n = 0
  <2>1. Grid(n, cols) = {} /\ DOMAIN l.rows = {}
    BY <1>3, <1>6, <1>11 DEF Grid
  <2> HIDE DEF cols
  <2> QED BY <1>1, <1>2, <1>6, <1>9, <1>10, <2>1, LaunchStep
<1>12. CASE n # 0
  <2>1. cols \in Nat /\ \A b \in 1 .. n : size[b] <= cols
    <3>1. \A b \in 1 .. n : size[b] \in ToSet(size)
      BY <1>4 DEF ToSet
    <3>2. ToSet(size) = {size[b] : b \in 1 .. n}
      BY <1>4 DEF ToSet
    <3>3. PICK u \in ToSet(size) : \A y \in ToSet(size) : y <= u
      <4>1. PICK m \in Nat : \A b \in 0 .. n - 1 : size[b + 1] <= m
        <5> DEFINE f == [b \in 0 .. n - 1 |-> size[b + 1]]
        <5>1. f \in [0 .. n - 1 -> Nat] /\ n - 1 \in Nat
          BY <1>3, <1>4, <1>12
        <5>2. \A b \in 0 .. n - 1 : f[b] = size[b + 1]
          OBVIOUS
        <5> HIDE DEF f
        <5> QED BY <5>1, <5>2, BoundExists
      <4>2. \A b \in 1 .. n : size[b] \in 0 .. m
        <5> TAKE b \in 1 .. n
        <5>1. b - 1 \in 0 .. n - 1 /\ (b - 1) + 1 = b
          BY <1>3
        <5>2. size[b] <= m
          BY <4>1, <5>1
        <5> QED BY <1>4, <4>1, <5>2
      <4>3. ToSet(size) \subseteq 0 .. m
        BY <3>2, <4>2
      <4>4. 1 \in 1 .. n
        BY <1>3, <1>12
      <4>5. ToSet(size) # {}
        BY <3>1, <4>4
      <4> QED BY <4>1, <4>3, <4>5, GreatestExists
    <3>4. ToSet(size) \subseteq Nat
      BY <1>4, <3>2
    <3>5. cols \in ToSet(size) /\ \A y \in ToSet(size) : cols >= y
      <4>1. \A y \in ToSet(size) : u >= y
        BY <3>3, <3>4
      <4> QED BY <3>3, <4>1, Zenon DEF Max
    <3> HIDE DEF cols
    <3> QED BY <1>4, <3>1, <3>4, <3>5
  <2> HIDE DEF cols
  <2>2. \A b \in DOMAIN l.rows : \A h \in HeadSet, c \in 0 .. Count(l.sel[b]) - 1 :
          \E k \in Nat : <<b, h, k>> \in Grid(n, cols) /\ (l.kind = "paged" \/ c \in Tile(k))
    <3> SUFFICES ASSUME NEW b \in 1 .. n, NEW h \in HeadSet, NEW c \in 0 .. size[b] - 1
                 PROVE  \E k \in Nat : <<b, h, k>> \in Grid(n, cols) /\ c \in Tile(k)
      BY <1>3, <1>6, <1>7
    <3>1. c \in 0 .. cols - 1
      BY <1>4, <2>1
    <3> QED BY <1>1, <1>3, <2>1, <3>1, GridCovers
  <2>3. Grid(n, cols) \subseteq (DOMAIN l.rows) \X HeadSet \X Nat
    BY <1>1, <1>3, <1>6, <2>1, GridCovers
  <2> QED BY <1>1, <1>2, <1>6, <1>9, <1>10, <2>2, <2>3, LaunchStep
<1> QED BY <1>11, <1>12

(* A query sees positions of its request only.                             *)
LEMMA QueryRowsAre ==
  ASSUME pool \in Pools, TableOK, CountsOK
  PROVE  /\ Len(QueryRows) \in Nat /\ DOMAIN QueryRows = 1 .. Len(QueryRows)
         /\ \A i \in 1 .. Len(QueryRows) :
              /\ QueryRows[i] = [req |-> QueryRows[i].req, len |-> QueryRows[i].len,
                                 visible |-> QueryRows[i].visible]
              /\ QueryRows[i].req \in Reqs
              /\ QueryRows[i].len = Len(table[QueryRows[i].req]) /\ QueryRows[i].len \in Nat
              /\ QueryRows[i].visible \in 1 .. QueryRows[i].len
<1> DEFINE before == PrefixSums(launch.count, pool.reqs)
           total == before[pool.reqs]
           req(i) == CHOOSE r \in Reqs : before[r - 1] < i /\ i <= before[r]
           row(i) == [req |-> req(i), len |-> Len(table[req(i)]),
                      visible |-> (i - before[req(i) - 1] - 1)
                                    + Len(table[req(i)]) - launch.count[req(i)] + 1]
<1>1. pool.reqs \in Nat /\ \A r \in 1 .. pool.reqs : launch.count[r] \in Nat
  <2>1. pool.reqs \in Nat
    BY PoolFacts
  <2> QED BY <2>1 DEF CountsOK, Reqs
<1>2. /\ before \in [0 .. pool.reqs -> Nat]
      /\ \A r \in 1 .. pool.reqs : before[r] = before[r - 1] + launch.count[r]
  BY <1>1, SumsDef
<1>3. total \in Nat
  BY <1>1, <1>2
<1>4. \A i \in 1 .. total : \E r \in Reqs : before[r - 1] < i /\ i <= before[r]
  BY <1>1, QueryOf DEF Reqs
<1>5. QueryRows = [i \in 1 .. total |-> row(i)]
  BY DEF QueryRows
<1> HIDE DEF before, total
<1>6. \A i \in 1 .. total : req(i) \in Reqs /\ before[req(i) - 1] < i /\ i <= before[req(i)]
  BY <1>4
<1> HIDE DEF req
<1>7. \A r \in Reqs : Len(table[r]) \in Nat /\ launch.count[r] <= Len(table[r])
  <2>1. \A r \in Reqs : table[r] \in Seq(Slots)
    BY DEF TableOK
  <2> QED BY <2>1 DEF CountsOK
<1>8. ASSUME NEW i \in 1 .. total PROVE row(i).visible \in 1 .. row(i).len
  <2>1. PICK r \in 1 .. pool.reqs : r = req(i)
    BY <1>6 DEF Reqs
  <2>2. /\ before[r - 1] < i /\ i <= before[r] /\ before[r] = before[r - 1] + launch.count[r]
        /\ before[r - 1] \in Nat /\ launch.count[r] \in Nat
        /\ Len(table[r]) \in Nat /\ launch.count[r] <= Len(table[r])
    BY <1>1, <1>2, <1>6, <1>7, <2>1 DEF Reqs
  <2>3. (i - before[r - 1] - 1) + Len(table[r]) - launch.count[r] + 1 \in 1 .. Len(table[r])
    <3>1. PICK x \in Nat, y \in Nat, z \in Nat : x = before[r - 1] /\ y = launch.count[r] /\ z = Len(table[r])
      BY <2>2
    <3>2. x < i /\ i <= x + y /\ y <= z /\ i \in Nat
      BY <1>3, <2>2, <3>1
    <3>3. (i - x - 1) + z - y + 1 \in 1 .. z
      BY <3>2
    <3> QED BY <3>1, <3>3
  <2> QED BY <2>1, <2>3
<1>9. \A i \in 1 .. total : /\ row(i) = [req |-> row(i).req, len |-> row(i).len, visible |-> row(i).visible]
                            /\ row(i).req \in Reqs
                            /\ row(i).len = Len(table[row(i).req]) /\ row(i).len \in Nat
  BY <1>6, <1>7
<1> HIDE DEF row
<1>10. DOMAIN QueryRows = 1 .. total /\ Len(QueryRows) = total
  <2> DEFINE V == {row(i) : i \in 1 .. total}
  <2>1. QueryRows \in [1 .. total -> V]
    BY <1>5
  <2>2. QueryRows \in Seq(V)
    BY <1>3, <2>1, SeqDef
  <2>3. DOMAIN QueryRows = 1 .. total
    BY <1>5
  <2> HIDE DEF V
  <2> QED BY <1>3, <2>2, <2>3
<1>11. \A i \in 1 .. total : QueryRows[i] = row(i)
  BY <1>5
<1> QED BY <1>3, <1>8, <1>9, <1>10, <1>11

LEMMA PagedLaunchStep ==
  ASSUME StoreInv, GatherInv, LaunchPaged
  PROVE  GatherInv'
<1> DEFINE n == Len(QueryRows)
           seen == [b \in 1 .. n |-> [QueryRows[b] EXCEPT !.len = QueryRows[b].visible]]
           sizes == [b \in 1 .. n |-> TopK]
           programs == (1 .. n) \X (0 .. Heads - 1) \X {0}
<1>1. pool \in Pools /\ TableOK /\ CountsOK
  BY DEF StoreInv, GatherInv, LaunchPaged, Stored
<1>2. PICK sel \in Selected(seen) :
        Launch([kind |-> "paged", rows |-> QueryRows, sel |-> sel, cu |-> Cumulative(sizes)], programs)
  BY DEF LaunchPaged
<1> DEFINE l == [kind |-> "paged", rows |-> QueryRows, sel |-> sel, cu |-> Cumulative(sizes)]
<1>3. TopK \in Nat
  BY <1>1, PoolFacts
<1>4. n \in Nat /\ DOMAIN QueryRows = 1 .. n
  BY <1>1, QueryRowsAre
<1>5. \A b \in 1 .. n : /\ QueryRows[b] = [req |-> QueryRows[b].req, len |-> QueryRows[b].len,
                                           visible |-> QueryRows[b].visible]
                        /\ QueryRows[b].req \in Reqs
                        /\ QueryRows[b].len = Len(table[QueryRows[b].req]) /\ QueryRows[b].len \in Nat
                        /\ QueryRows[b].visible \in 1 .. QueryRows[b].len
  BY <1>1, QueryRowsAre
<1> HIDE DEF n
<1>6. DOMAIN seen = 1 .. n /\ \A b \in 1 .. n : seen[b].len = QueryRows[b].visible
  <2>1. DOMAIN seen = 1 .. n
    OBVIOUS
  <2>2. ASSUME NEW b \in 1 .. n PROVE seen[b].len = QueryRows[b].visible
    <3>0. QueryRows[b] = [req |-> QueryRows[b].req, len |-> QueryRows[b].len,
                          visible |-> QueryRows[b].visible]
      BY <1>5
    <3>1. PICK q, m, v : QueryRows[b] = [req |-> q, len |-> m, visible |-> v]
      BY <3>0, Zenon
    <3>2. seen[b] = [QueryRows[b] EXCEPT !.len = QueryRows[b].visible]
      OBVIOUS
    <3> QED BY <3>1, <3>2
  <2> QED BY <2>1, <2>2
<1>7. \A b \in 1 .. n : sel[b] \in PositionRows(QueryRows[b].visible)
  <2> HIDE DEF seen
  <2> QED BY <1>6 DEF Selected
<1>8. ASSUME NEW b \in 1 .. n
      PROVE  /\ RowOK(sel[b], QueryRows[b].len)
             /\ DOMAIN sel[b] = 1 .. TopK /\ Count(sel[b]) \in 0 .. TopK
             /\ Count(sel[b]) <= QueryRows[b].visible
  <2>1. PICK v \in Nat, m \in Nat : v = QueryRows[b].visible /\ m = QueryRows[b].len /\ v <= m
    <3>1. QueryRows[b].len \in Nat /\ QueryRows[b].visible \in 1 .. QueryRows[b].len
      BY <1>5
    <3>2. QueryRows[b].visible \in Nat /\ QueryRows[b].visible <= QueryRows[b].len
      BY <3>1
    <3> QED BY <3>1, <3>2, Zenon
  <2>2. /\ RowOK(sel[b], v) /\ DOMAIN sel[b] = 1 .. TopK
        /\ Count(sel[b]) \in 0 .. TopK /\ Count(sel[b]) <= v
    BY <1>1, <1>7, <2>1, PositionRowIs
  <2>3. \A i \in 0 .. v - 1 : i \in 0 .. m - 1
    BY <2>1
  <2>4. RowOK(sel[b], m)
    BY <2>2, <2>3 DEF RowOK
  <2> QED BY <2>1, <2>2, <2>4
<1>9. \A b \in 1 .. n : sizes[b] = TopK /\ sizes[b] \in Nat
  BY <1>3
<1>17. \A b \in 1 .. n : sizes[b] \in Nat
  BY <1>9
<1>10. sizes = [b \in 1 .. n |-> sizes[b]]
  OBVIOUS
<1> HIDE DEF sizes
<1>11. l.kind = "paged" /\ l.rows = QueryRows /\ l.sel = sel /\ l.cu = Cumulative(sizes)
  OBVIOUS
<1>12. Launch(l, programs)
  BY <1>2
<1> HIDE DEF l
<1>13. RowsOK(l)
  <2>1. \A b \in 1 .. n : /\ l.rows[b].req \in Reqs /\ l.rows[b].len = Len(table[l.rows[b].req])
                          /\ l.rows[b].len \in Nat /\ l.rows[b].visible \in 1 .. l.rows[b].len
    BY <1>5, <1>11
  <2>2. \A b \in 1 .. n : l.rows[b].visible \in Nat
    BY <2>1
  <2>3. \A b \in 1 .. n : /\ RowOK(l.sel[b], l.rows[b].len) /\ DOMAIN l.sel[b] = 1 .. TopK
                          /\ Count(l.sel[b]) \in 0 .. TopK /\ Count(l.sel[b]) <= l.rows[b].visible
    BY <1>8, <1>11
  <2>4. \A b \in 1 .. n : Count(l.sel[b]) <= TopK
    BY <1>3, <2>3
  <2>5. DOMAIN l.rows = 1 .. n /\ l.kind = "paged" /\ l.kind # "prefix"
    BY <1>4, <1>11
  <2> QED BY <1>4, <2>1, <2>2, <2>3, <2>4, <2>5 DEF RowsOK
<1>14. RegionsOK(l)
  <2>1. \A b \in 1 .. n : /\ l.cu[b] \in Nat /\ l.cu[b + 1] \in Nat
                          /\ l.cu[b + 1] = l.cu[b] + sizes[b]
    BY <1>4, <1>10, <1>11, <1>17, CumulativeIs
  <2>2. \A b, q \in 1 .. n : b < q => l.cu[b + 1] <= l.cu[q]
    BY <1>4, <1>10, <1>11, <1>17, CumulativeIs
  <2>3. \A b \in 1 .. n : l.cu[b] + Count(l.sel[b]) <= l.cu[b + 1]
    BY <1>3, <1>8, <1>9, <1>11, <2>1
  <2> QED BY <1>4, <1>11, <2>1, <2>2, <2>3 DEF RegionsOK
<1>15. \A b \in DOMAIN l.rows : \A h \in HeadSet, c \in 0 .. Count(l.sel[b]) - 1 :
         \E k \in Nat : <<b, h, k>> \in programs /\ (l.kind = "paged" \/ c \in Tile(k))
  BY <1>4, <1>11 DEF HeadSet
<1>16. programs \subseteq (DOMAIN l.rows) \X HeadSet \X Nat /\ \A p \in programs : p[3] = 0
  BY <1>4, <1>11 DEF HeadSet
<1> HIDE DEF programs
<1> QED BY <1>1, <1>11, <1>12, <1>13, <1>14, <1>15, <1>16, LaunchStep

(* The selected position of a column is in its row exactly if it is one of *)
(* the selection.                                                          *)
LEMMA SelectedColumns ==
  ASSUME StoreInv, GatherOK, launch.kind \in {"compact", "paged"},
         NEW b \in DOMAIN launch.rows, NEW c \in Nat
  PROVE  /\ InRow(b, SelectedAt(b, c)) <=> c \in Columns(b)
         /\ c \in Columns(b) => SelectedAt(b, c) = launch.sel[b][c + 1]
<1>1. RowsOK(launch) /\ RegionsOK(launch) /\ pool \in Pools /\ launch.kind # "prefix"
  BY DEF GatherOK, StoreInv
<1>2. PICK w \in Nat :
        /\ w = TopK /\ Count(launch.sel[b]) \in 0 .. w
        /\ \A i \in 1 .. w : IF i <= Count(launch.sel[b])
                             THEN launch.sel[b][i] \in 0 .. launch.rows[b].len - 1
                             ELSE launch.sel[b][i] = -1
  <2>1. RowOK(launch.sel[b], launch.rows[b].len) /\ DOMAIN launch.sel[b] = 1 .. TopK
    BY <1>1 DEF RowsOK
  <2>2. PICK k \in Nat :
          /\ DOMAIN launch.sel[b] = 1 .. k /\ Count(launch.sel[b]) \in 0 .. k
          /\ \A i \in 1 .. k : IF i <= Count(launch.sel[b])
                               THEN launch.sel[b][i] \in 0 .. launch.rows[b].len - 1
                               ELSE launch.sel[b][i] = -1
    BY <2>1 DEF RowOK
  <2>3. TopK \in Nat
    BY <1>1, PoolFacts
  <2>4. k = TopK
    <3>1. 1 .. k = 1 .. TopK
      BY <2>1, <2>2
    <3> QED BY <2>3, <3>1
  <2> QED BY <2>2, <2>4
<1>3. launch.rows[b].len \in Nat
  <2>1. launch.rows[b].req \in Reqs /\ launch.rows[b].len = Len(table[launch.rows[b].req])
    BY <1>1 DEF RowsOK
  <2>2. \A r \in Reqs : table[r] \in Seq(Slots)
    BY DEF StoreInv, TableOK
  <2> QED BY <2>1, <2>2
<1>4. PICK m \in Nat : m = Count(launch.sel[b]) /\ m <= w
  BY <1>2
<1>5. Columns(b) = 0 .. m - 1
  BY <1>4 DEF Columns
<1>6. CASE c < m
  <2>1. c + 1 \in 1 .. w /\ c + 1 <= m /\ c < w
    BY <1>4, <1>6
  <2>2. launch.sel[b][c + 1] \in 0 .. launch.rows[b].len - 1
    BY <1>2, <1>4, <2>1
  <2>3. SelectedAt(b, c) = launch.sel[b][c + 1]
    BY <1>2, <2>1 DEF SelectedAt
  <2> QED BY <1>5, <1>6, <2>2, <2>3 DEF InRow
<1>7. CASE c >= m
  <2>1. SelectedAt(b, c) = -1
    <3>1. CASE c < w
      <4>1. c + 1 \in 1 .. w /\ ~(c + 1 <= m)
        BY <1>4, <1>7, <3>1
      <4> QED BY <1>2, <1>4, <3>1, <4>1 DEF SelectedAt
    <3>2. CASE ~(c < w)
      BY <1>2, <3>2 DEF SelectedAt
    <3> QED BY <3>1, <3>2
  <2> QED BY <1>3, <1>5, <1>7, <2>1 DEF InRow
<1> QED BY <1>4, <1>6, <1>7

LEMMA TileNat ==
  ASSUME pool \in Pools, NEW k \in Nat, NEW c \in Tile(k)
  PROVE  c \in Nat
<1>1. Block \in Nat
  BY PoolFacts
<1>2. k * Block \in Nat
  BY <1>1
<1> QED BY <1>2 DEF Tile

LEMMA CompactStep ==
  ASSUME StoreInv, GatherInv, NEW b, NEW h, NEW k, <<b, h, k>> \in todo, Compact(b, h, k)
  PROVE  GatherInv'
<1> DEFINE valid == {c \in Tile(k) : /\ c < launch.cu[b + 1] - launch.cu[b]
                                     /\ InRow(b, SelectedAt(b, c))}
           pos == [c \in valid |-> SelectedAt(b, c)]
<1>1. pool \in Pools /\ Gathering /\ GatherOK /\ launch.kind = "compact"
  BY DEF StoreInv, GatherInv, Gathering, Compact
<1>2. b \in DOMAIN launch.rows /\ h \in HeadSet /\ k \in Nat
  BY <1>1 DEF GatherOK
<1>3. RowsOK(launch) /\ RegionsOK(launch)
  BY <1>1 DEF GatherOK
<1>4. \A c \in Columns(b) : c < launch.cu[b + 1] - launch.cu[b]
  <2>1. /\ launch.cu[b] \in Nat /\ launch.cu[b + 1] \in Nat
        /\ launch.cu[b] + Count(launch.sel[b]) <= launch.cu[b + 1]
    BY <1>2, <1>3 DEF RegionsOK
  <2>2. Count(launch.sel[b]) \in Nat
    BY <1>2, <1>3 DEF RowsOK, RowOK
  <2> QED BY <2>1, <2>2 DEF Columns
<1>5. \A c \in Tile(k) : /\ InRow(b, SelectedAt(b, c)) <=> c \in Columns(b)
                         /\ c \in Columns(b) => SelectedAt(b, c) = launch.sel[b][c + 1]
  <2> TAKE c \in Tile(k)
  <2>1. c \in Nat
    BY <1>1, <1>2, TileNat
  <2> QED BY <1>1, <1>2, <2>1, SelectedColumns
<1>6. valid = Valid(b, k)
  BY <1>1, <1>4, <1>5 DEF Valid
<1>7. DOMAIN pos = Valid(b, k) /\ \A c \in Valid(b, k) : pos[c] = launch.sel[b][c + 1]
  <2>1. \A c \in Valid(b, k) : c \in Tile(k) /\ c \in Columns(b)
    BY <1>1 DEF Valid
  <2>2. pos = [c \in Valid(b, k) |-> SelectedAt(b, c)]
    BY <1>6
  <2> QED BY <1>5, <2>1, <2>2
<1>8. todo' = todo \ {<<b, h, k>>} /\ Gather(b, h, pos)
  BY DEF Compact
<1> HIDE DEF pos
<1> QED BY <1>1, <1>7, <1>8, GatherStep

LEMMA PrefixStep ==
  ASSUME StoreInv, GatherInv, NEW b, NEW h, NEW k, <<b, h, k>> \in todo, Prefix(b, h, k)
  PROVE  GatherInv'
<1> DEFINE valid == {c \in Tile(k) : InRow(b, c)}
           pos == [t \in valid |-> t]
<1>1. pool \in Pools /\ Gathering /\ GatherOK /\ launch.kind = "prefix"
  BY DEF StoreInv, GatherInv, Gathering, Prefix
<1>2. b \in DOMAIN launch.rows
  BY <1>1 DEF GatherOK
<1>3. /\ Count(launch.sel[b]) = launch.rows[b].len
      /\ \A c \in 0 .. launch.rows[b].len - 1 : launch.sel[b][c + 1] = c
  BY <1>1, <1>2 DEF GatherOK, RowsOK
<1>4. \A c : InRow(b, c) <=> c \in Columns(b)
  BY <1>3 DEF InRow, Columns
<1>5. valid = Valid(b, k)
  BY <1>1, <1>4 DEF Valid
<1>6. DOMAIN pos = Valid(b, k) /\ \A c \in Valid(b, k) : pos[c] = launch.sel[b][c + 1]
  <2>1. \A c \in Valid(b, k) : c \in 0 .. launch.rows[b].len - 1
    BY <1>3 DEF Valid, Columns
  <2>2. pos = [c \in Valid(b, k) |-> c]
    BY <1>5
  <2> QED BY <1>3, <2>1, <2>2
<1>7. todo' = todo \ {<<b, h, k>>} /\ Gather(b, h, pos)
  BY DEF Prefix
<1> HIDE DEF pos
<1> QED BY <1>1, <1>6, <1>7, GatherStep

LEMMA PagedStep ==
  ASSUME StoreInv, GatherInv, NEW b, NEW h, NEW k, <<b, h, k>> \in todo, Paged(b, h)
  PROVE  GatherInv'
<1> DEFINE limit == RowLimit(launch.rows[b])
           valid == {c \in 0 .. limit - 1 : InRow(b, SelectedAt(b, c))}
           pos == [c \in valid |-> SelectedAt(b, c)]
<1>1. pool \in Pools /\ Gathering /\ GatherOK /\ launch.kind = "paged"
  BY DEF StoreInv, GatherInv, Gathering, Paged
<1>2. b \in DOMAIN launch.rows /\ h \in HeadSet /\ k \in Nat
  BY <1>1 DEF GatherOK
<1>3. limit \in Nat /\ Count(launch.sel[b]) \in Nat /\ Count(launch.sel[b]) <= limit
  <2>1. /\ Count(launch.sel[b]) <= TopK /\ launch.rows[b].visible \in Nat
        /\ Count(launch.sel[b]) <= launch.rows[b].visible /\ Count(launch.sel[b]) \in Nat
    BY <1>1, <1>2 DEF GatherOK, RowsOK, RowOK
  <2>2. TopK \in Nat
    BY <1>1, PoolFacts
  <2>3. Count(launch.sel[b]) \in 0 .. TopK
    BY <2>1, <2>2
  <2> QED BY <1>1, <2>1, <2>3, LimitEnough
<1>4. \A c \in Nat : /\ InRow(b, SelectedAt(b, c)) <=> c \in Columns(b)
                     /\ c \in Columns(b) => SelectedAt(b, c) = launch.sel[b][c + 1]
  BY <1>1, <1>2, SelectedColumns
<1> HIDE DEF limit
<1>5. valid = Valid(b, k)
  <2>1. \A c \in Columns(b) : c \in Nat /\ c \in 0 .. limit - 1
    BY <1>3 DEF Columns
  <2>2. \A c \in 0 .. limit - 1 : c \in Nat
    BY <1>3
  <2> QED BY <1>1, <1>4, <2>1, <2>2 DEF Valid
<1>6. DOMAIN pos = Valid(b, k) /\ \A c \in Valid(b, k) : pos[c] = launch.sel[b][c + 1]
  <2>1. \A c \in Valid(b, k) : c \in Nat /\ c \in Columns(b)
    BY <1>3 DEF Valid, Columns
  <2>2. pos = [c \in Valid(b, k) |-> SelectedAt(b, c)]
    BY <1>5
  <2> QED BY <1>4, <2>1, <2>2
<1>7. todo' = todo \ {<<b, h, k>>} /\ Gather(b, h, pos)
  <2>1. k = 0
    <3>1. <<b, h, k>>[3] = k
      OBVIOUS
    <3> QED BY <1>1, <3>1 DEF GatherOK
  <2> QED BY <2>1 DEF Paged, limit
<1> HIDE DEF pos
<1> QED BY <1>1, <1>6, <1>7, GatherStep

(* The new tokens of a request are at the end of its positions.            *)
LEMMA ForwardCounts ==
  ASSUME StoreInv, NEW count \in [Reqs -> 0 .. pool.maxNew], NEW pad \in 0 .. pool.maxPad,
         Forward(count, pad)
  PROVE  GatherInv'
<1> DEFINE before == PrefixSums(count, pool.reqs)
           total == before[pool.reqs]
<1>1. pool \in Pools /\ TableOK
  BY DEF StoreInv
<1>2. PICK given \in [1 .. total -> Free] :
        /\ table' = [r \in Reqs |-> table[r] \o [i \in 1 .. count[r] |-> given[before[r - 1] + i]]]
        /\ launch' = [kind |-> "store", count |-> count,
                      loc |-> given \o [i \in 1 .. pad |-> 0],
                      ids |-> [i \in 1 .. total |-> arrived + i] \o [i \in 1 .. pad |-> 1]]
        /\ pool' = pool
  BY DEF Forward
<1>3. launch'.kind = "store" /\ launch'.count = count
  BY <1>2
<1>4. pool.reqs \in Nat /\ pool.maxNew \in Nat
  <2>1. pool.reqs \in Nat
    BY <1>1, PoolFacts
  <2>2. {pool.maxNew, pool.maxPad} \subseteq Nat
    BY <1>1, PoolsAssumption DEF PoolOK
  <2> QED BY <2>1, <2>2
<1>5. \A r \in Reqs : count[r] \in Nat
  BY <1>4
<1>6. /\ \A r \in Reqs : \A i \in 1 .. count[r] : before[r - 1] + i \in 1 .. total
  BY <1>4, <1>5, BeforeFacts DEF Reqs
<1> HIDE DEF before, total
<1>7. ASSUME NEW r \in Reqs PROVE count[r] <= Len(table'[r])
  <2> DEFINE new == [i \in 1 .. count[r] |-> given[before[r - 1] + i]]
  <2>1. \A i \in 1 .. count[r] : new[i] \in Slots
    BY <1>6 DEF Free
  <2>2. new \in Seq(Slots) /\ Len(new) = count[r]
    BY <1>5, <2>1
  <2>3. table'[r] = table[r] \o new /\ table[r] \in Seq(Slots)
    BY <1>1, <1>2 DEF TableOK
  <2> HIDE DEF new
  <2>4. Concatenates(table'[r], table[r], new, Slots)
    BY <2>2, <2>3, Concatenated, Zenon
  <2> QED BY <1>5, <2>2, <2>4 DEF Concatenates
<1>8. CountsOK'
  <2>1. Reqs' = Reqs
    BY <1>2, SamePool
  <2>2. count \in [Reqs -> Nat]
    BY <1>5
  <2> QED BY <1>3, <1>7, <2>1, <2>2 DEF CountsOK
<1> QED BY <1>3, <1>8 DEF GatherInv, Gathering

LEMMA CountsKept ==
  ASSUME GatherInv, UNCHANGED <<pool, table, launch>>, launch.kind = "store"
  PROVE  GatherInv'
<1>1. CountsOK
  BY DEF GatherInv
<1>2. CountsOK'
  BY <1>1, SamePool DEF CountsOK
<1> QED BY <1>2 DEF GatherInv, Gathering

LEMMA GatherStutters ==
  ASSUME GatherInv, UNCHANGED vars
  PROVE  GatherInv'
<1> USE DEF vars
<1>1. CASE launch.kind = "store"
  BY <1>1, CountsKept
<1>2. CASE Gathering
  <2>1. GatherOK
    BY <1>2 DEF GatherInv
  <2>2. Reqs' = Reqs /\ TopK' = TopK /\ Heads' = Heads /\ Dim' = Dim /\ Block' = Block /\ HeadSet' = HeadSet
    BY SamePool DEF HeadSet
  <2>3. RowsOK(launch)' /\ RegionsOK(launch)'
    <3>1. RowsOK(launch)'
      BY <2>1, <2>2 DEF GatherOK, RowsOK
    <3>2. RegionsOK(launch)'
      BY <2>1 DEF GatherOK, RegionsOK
    <3> QED BY <3>1, <3>2
  <2>4. /\ \A q, c, g, d : Address(q, c, g, d)' = Address(q, c, g, d)
        /\ \A q : Columns(q)' = Columns(q)
        /\ \A q, i : Valid(q, i)' = Valid(q, i)
    BY <2>2 DEF Address, Columns, Valid, Tile
  <2>5. \A q : Reads(q)' = Reads(q)
    <3>1. \A q, g, cols : Places(q, g, cols)' = Places(q, g, cols)
      BY <2>2, <2>4 DEF Places
    <3> QED BY <2>2, <3>1, Zenon DEF Reads
  <2>6. \A s, q, g, c, d : Wanted(s, q, g, c, d)' = Wanted(s, q, g, c, d)
    BY SameLoaded DEF Wanted
  <2>7. \A q, g, c : Awaited(q, g, c) => Awaited(q, g, c)'
    BY <2>4 DEF Awaited
  <2>8. \A q, g, c : Brought(q, g, c) => Brought(q, g, c)'
    BY <2>2, <2>4, <2>6 DEF Brought, Sides
  <2>9. \A b \in DOMAIN launch'.rows : \A h \in HeadSet', c \in Columns(b)' : Awaited(b, h, c)' \/ Brought(b, h, c)'
    BY <2>1, <2>2, <2>4, <2>7, <2>8 DEF GatherOK
  <2>10. \A s \in Sides' : \A a \in DOMAIN out'[s] : \E b \in DOMAIN launch'.rows : a \in Reads(b)'
    BY <2>1, <2>5 DEF GatherOK, Sides
  <2>11. /\ todo' \subseteq (DOMAIN launch'.rows) \X HeadSet' \X Nat
         /\ launch'.kind = "paged" => \A p \in todo' : p[3] = 0
    BY <2>1, <2>2 DEF GatherOK
  <2>12. GatherOK'
    BY <2>3, <2>9, <2>10, <2>11 DEF GatherOK
  <2> QED BY <1>2, <2>12 DEF GatherInv, Gathering
<1>3. CASE launch.kind # "store" /\ ~Gathering
  BY <1>3 DEF GatherInv, Gathering
<1> QED BY <1>1, <1>2, <1>3

LEMMA GatherNext == StoreInv /\ GatherInv /\ [Next]_vars => GatherInv'
<1> SUFFICES ASSUME StoreInv, GatherInv, [Next]_vars PROVE GatherInv'
  OBVIOUS
<1>1. CASE UNCHANGED vars
  BY <1>1, GatherStutters
<1>2. ASSUME NEW count \in [Reqs -> 0 .. pool.maxNew], NEW pad \in 0 .. pool.maxPad, Forward(count, pad)
      PROVE  GatherInv'
  BY <1>2, ForwardCounts
<1>3. ASSUME NEW p \in todo, Store(p[1], p[2]) PROVE GatherInv'
  BY <1>3, CountsKept DEF Store
<1>4. ASSUME NEW packed \in BOOLEAN, LaunchCompact(packed) PROVE GatherInv'
  BY <1>4, CompactLaunchStep
<1>5. CASE LaunchPrefix
  BY <1>5, PrefixLaunchStep
<1>6. CASE LaunchPaged
  BY <1>6, PagedLaunchStep
<1>7. ASSUME NEW p \in todo, launch.kind \in {"compact", "prefix", "paged"}
      PROVE  \E b, h, k : p = <<b, h, k>> /\ p[1] = b /\ p[2] = h /\ p[3] = k
  <2>1. p \in (DOMAIN launch.rows) \X HeadSet \X Nat
    BY <1>7 DEF GatherInv, Gathering, GatherOK
  <2> QED BY <2>1
<1>8. ASSUME NEW p \in todo, Compact(p[1], p[2], p[3]) PROVE GatherInv'
  <2>1. PICK b, h, k : p = <<b, h, k>> /\ p[1] = b /\ p[2] = h /\ p[3] = k
    BY <1>7, <1>8 DEF Compact
  <2> QED BY <1>8, <2>1, CompactStep
<1>9. ASSUME NEW p \in todo, Prefix(p[1], p[2], p[3]) PROVE GatherInv'
  <2>1. PICK b, h, k : p = <<b, h, k>> /\ p[1] = b /\ p[2] = h /\ p[3] = k
    BY <1>7, <1>9 DEF Prefix
  <2> QED BY <1>9, <2>1, PrefixStep
<1>10. ASSUME NEW p \in todo, Paged(p[1], p[2]) PROVE GatherInv'
  <2>1. PICK b, h, k : p = <<b, h, k>> /\ p[1] = b /\ p[2] = h /\ p[3] = k
    BY <1>7, <1>10 DEF Paged
  <2> QED BY <1>10, <2>1, PagedStep
<1>11. CASE Return
  BY <1>11 DEF Return, Idle, GatherInv, Gathering
<1>12. ASSUME NEW r \in Reqs, End(r) PROVE GatherInv'
  BY <1>12 DEF End, Idle, GatherInv, Gathering
<1> QED BY <1>1, <1>2, <1>3, <1>4, <1>5, <1>6, <1>8, <1>9, <1>10, <1>11, <1>12 DEF Next

(* When no program is left, every selected position was brought, and what  *)
(* was brought is what the pool held for it.                               *)
LEMMA GatherHolds == StoreInv /\ GatherInv => GatherReturns
<1> SUFFICES ASSUME StoreInv, GatherInv, Gathered PROVE GatherReturns
  BY DEF GatherReturns
<1>1. GatherOK /\ todo = {} /\ RowsOK(launch)
  BY DEF Gathered, GatherInv, Gathering, GatherOK
<1>2. \A b \in DOMAIN launch.rows : \A h \in HeadSet, c \in Columns(b) : Brought(b, h, c)
  BY <1>1 DEF GatherOK, Awaited
<1>3. \A b \in DOMAIN launch.rows : \A s \in Sides, c \in Columns(b), h \in HeadSet, d \in 0 .. Dim - 1 :
        /\ Address(b, c, h, d) \in DOMAIN out[s]
        /\ out[s][Address(b, c, h, d)] = Wanted(s, b, h, c, d)
  BY <1>2 DEF Brought
<1>4. ASSUME NEW s \in Sides PROVE DOMAIN out[s] = UNION {Reads(b) : b \in DOMAIN launch.rows}
  <2>1. ASSUME NEW a \in DOMAIN out[s] PROVE a \in UNION {Reads(b) : b \in DOMAIN launch.rows}
    <3>1. PICK b \in DOMAIN launch.rows : a \in Reads(b)
      BY <1>1 DEF GatherOK
    <3> QED BY <3>1
  <2>2. ASSUME NEW b \in DOMAIN launch.rows, NEW a \in Reads(b) PROVE a \in DOMAIN out[s]
    <3>1. PICK c \in Columns(b), h \in HeadSet, d \in 0 .. Dim - 1 : a = Address(b, c, h, d)
      <4>1. PICK h \in HeadSet : a \in Places(b, h, Columns(b))
        BY DEF Reads, Columns, HeadSet
      <4> QED BY <4>1 DEF Places
    <3> QED BY <1>3, <3>1
  <2> QED BY <2>1, <2>2
<1>5. ASSUME NEW b \in DOMAIN launch.rows, NEW c \in Columns(b)
      PROVE  LET slot == table[launch.rows[b].req][launch.sel[b][c + 1] + 1]
             IN  slot \in Slots /\ held[slot] # None
  <2> DEFINE r == launch.rows[b].req
             n == Len(table[r])
  <2>1. r \in Reqs /\ launch.rows[b].len = n /\ RowOK(launch.sel[b], n)
    BY <1>1 DEF RowsOK
  <2>2. table[r] \in Seq(Slots) /\ \A i \in 1 .. n : held[table[r][i]] # None
    BY <2>1 DEF StoreInv, TableOK
  <2>3. launch.sel[b][c + 1] \in 0 .. n - 1
    <3>1. PICK k \in Nat :
            /\ Count(launch.sel[b]) \in 0 .. k
            /\ \A i \in 1 .. k : i <= Count(launch.sel[b]) => launch.sel[b][i] \in 0 .. n - 1
      <4> HIDE DEF n, r
      <4> QED BY <2>1 DEF RowOK
    <3>2. c + 1 \in 1 .. k /\ c + 1 <= Count(launch.sel[b])
      BY <3>1 DEF Columns
    <3> QED BY <3>1, <3>2
  <2>4. launch.sel[b][c + 1] + 1 \in 1 .. n
    <3>1. n \in Nat
      BY <2>2
    <3> QED BY <2>3, <3>1
  <2> DEFINE i == launch.sel[b][c + 1] + 1
  <2>5. \A j \in 1 .. n : table[r][j] \in Slots /\ held[table[r][j]] # None
    BY <2>2
  <2>6. i \in 1 .. n
    BY <2>4
  <2>7. table[r][i] \in Slots /\ held[table[r][i]] # None
    <3> HIDE DEF i, n, r
    <3> QED BY <2>5, <2>6
  <2> QED BY <2>7
<1>6. ASSUME NEW b \in DOMAIN launch.rows, NEW c \in Columns(b), NEW s \in Sides, NEW h \in HeadSet,
             NEW d \in 0 .. Dim - 1
      PROVE  LET slot == table[launch.rows[b].req][launch.sel[b][c + 1] + 1]
             IN  Returns(s, slot, h, d, out[s][Address(b, c, h, d)])
  <2> DEFINE slot == table[launch.rows[b].req][launch.sel[b][c + 1] + 1]
  <2>1. slot \in Slots /\ held[slot] # None
    BY <1>5
  <2>2. out[s][Address(b, c, h, d)] = Loaded(s, slot, h, d)
    BY <1>3 DEF Wanted
  <2> HIDE DEF slot
  <2>3. ~Pending(slot, h)
    BY <1>1 DEF Pending
  <2>4. Content(slot, h) /\ pool \in Pools /\ HeldOK
    BY <2>1, <2>3 DEF StoreInv
  <2>5. Returns(s, slot, h, d, Loaded(s, slot, h, d))
    BY <2>1, <2>4, StoredReturns
  <2> QED BY <2>2, <2>5 DEF slot
<1> QED BY <1>4, <1>6 DEF GatherReturns, Columns, HeadSet

THEOREM GatherInvariant == Spec => []GatherInv
<1>1. Init => GatherInv
  BY DEF Init, Idle, GatherInv, Gathering
<1> QED BY <1>1, GatherNext, StoreInvariant, PTL DEF Spec

(* In every pool, attention finds in the scratch of a gather, of all three *)
(* kernels, its selected positions, each with the token that was stored    *)
(* for it, and nothing else (kv_int8.py, kv_int4.py, kv_paged_prefix.py).  *)
THEOREM GatherAlwaysReturns == Spec => []GatherReturns
BY StoreInvariant, GatherInvariant, GatherHolds, PTL
=============================================================================
