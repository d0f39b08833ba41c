----------------------------- MODULE PrefixLemmas --------------------------
(***************************************************************************)
(* Facts about natural numbers and sums that the proofs of several modules *)
(* cite: least and greatest elements, induction, division, PrefixSums, and *)
(* the sums over finite sets of the community modules.                     *)
(***************************************************************************)
EXTENDS Prefixes, FiniteSetTheorems, SequenceTheorems, TLAPS

-----------------------------------------------------------------------------
(* Least and greatest elements, induction.                                 *)

(* A non-empty set of natural numbers has a least element.                 *)
LEMMA LeastExists ==
  ASSUME NEW T, T \subseteq Nat, T # {}
  PROVE  \E x \in T : \A y \in T : x <= y
<1> DEFINE Below == {0 .. x : x \in T}
<1>1. Below \subseteq FiniteSubsetsOf(Nat)
  <2> SUFFICES ASSUME NEW x \in T PROVE 0 .. x \in FiniteSubsetsOf(Nat)
    OBVIOUS
  <2>1. IsFiniteSet(0 .. x)
    BY FS_Interval
  <2> QED BY <2>1 DEF FiniteSubsetsOf
<1>2. PICK b \in Below : \A c \in Below : <<c, b>> \notin StrictSubsetOrdering(Nat)
  <2>1. Below # {} /\ IsWellFoundedOn(StrictSubsetOrdering(Nat), FiniteSubsetsOf(Nat))
    BY FS_StrictSubsetOrderingWellFounded
  <2> HIDE DEF Below
  <2> QED BY <1>1, <2>1, WFMin
<1>3. PICK x \in T : b = 0 .. x
  BY <1>2
<1>4. ASSUME NEW y \in T, y < x PROVE FALSE
  <2>1. 0 .. y \subseteq 0 .. x /\ x \in 0 .. x /\ x \notin 0 .. y
    BY <1>4
  <2>2. <<0 .. y, 0 .. x>> \in StrictSubsetOrdering(Nat)
    BY <2>1 DEF StrictSubsetOrdering
  <2> QED BY <1>2, <1>3, <2>2
<1> QED BY <1>4

(* A non-empty set of numbers that has a bound has a greatest element.     *)
LEMMA GreatestExists ==
  ASSUME NEW n \in Nat, NEW T, T \subseteq 0 .. n, T # {}
  PROVE  \E x \in T : \A y \in T : y <= x
<1> DEFINE U == {i \in 0 .. n : n - i \in T}
<1>1. \A y \in T : n - y \in U
  OBVIOUS
<1>2. PICK u \in U : \A v \in U : u <= v
  <2>1. PICK y \in T : n - y \in U
    BY <1>1
  <2>2. U \subseteq Nat
    OBVIOUS
  <2> HIDE DEF U
  <2> QED BY <2>1, <2>2, LeastExists
<1>3. n - u \in T /\ u \in 0 .. n
  OBVIOUS
<1>4. ASSUME NEW y \in T PROVE y <= n - u
  <2>1. u <= n - y /\ y \in 0 .. n
    BY <1>1, <1>2
  <2> QED BY <1>3, <2>1
<1> QED BY <1>3, <1>4

(* Induction up to n, for the set of numbers that have a property.         *)
LEMMA Induction ==
  ASSUME NEW n \in Nat, NEW T, 0 \in T, \A i \in 1 .. n : i - 1 \in T => i \in T
  PROVE  0 .. n \subseteq T
<1> DEFINE U == (0 .. n) \ T
<1> SUFFICES ASSUME U # {} PROVE FALSE
  OBVIOUS
<1>1. PICK u \in U : \A v \in U : u <= v
  <2>1. U \subseteq Nat
    OBVIOUS
  <2> HIDE DEF U
  <2> QED BY <2>1, LeastExists
<1>2. u \in 1 .. n /\ u - 1 \in 0 .. n /\ ~(u <= u - 1)
  OBVIOUS
<1> QED BY <1>1, <1>2

(* The same from n down.                                                   *)
LEMMA DownwardInduction ==
  ASSUME NEW n \in Nat, NEW T,
         \A i \in 0 .. n : (\A k \in 0 .. n : i < k => k \in T) => i \in T
  PROVE  0 .. n \subseteq T
<1> DEFINE U == (0 .. n) \ T
<1> SUFFICES ASSUME U # {} PROVE FALSE
  OBVIOUS
<1>1. PICK u \in U : \A v \in U : v <= u
  <2>1. U \subseteq 0 .. n
    OBVIOUS
  <2> HIDE DEF U
  <2> QED BY <2>1, GreatestExists
<1>2. \A k \in 0 .. n : u < k => k \in T
  <2> SUFFICES ASSUME NEW k \in 0 .. n, u < k, k \notin T PROVE FALSE
    OBVIOUS
  <2>1. k <= u /\ u \in 0 .. n
    BY <1>1
  <2> QED BY <2>1
<1> QED BY <1>2

(* Finitely many numbers have a bound.                                     *)
LEMMA BoundExists ==
  ASSUME NEW n \in Nat, NEW f \in [0 .. n -> Nat]
  PROVE  \E b \in Nat : \A i \in 0 .. n : f[i] <= b
<1> DEFINE T == {m \in 0 .. n : \E b \in Nat : \A i \in 0 .. m : f[i] <= b}
<1>1. 0 \in T
  <2>1. f[0] \in Nat /\ \A i \in 0 .. 0 : f[i] <= f[0]
    OBVIOUS
  <2> QED BY <2>1
<1>2. ASSUME NEW m \in 1 .. n, m - 1 \in T PROVE m \in T
  <2>1. PICK b \in Nat : \A i \in 0 .. m - 1 : f[i] <= b
    BY <1>2
  <2>2. PICK c : c = IF b < f[m] THEN f[m] ELSE b
    OBVIOUS
  <2>3. c \in Nat /\ b <= c /\ f[m] <= c
    BY <2>2
  <2>4. ASSUME NEW i \in 0 .. m PROVE f[i] <= c
    <3>1. i = m \/ i \in 0 .. m - 1
      OBVIOUS
    <3>2. f[i] \in Nat
      OBVIOUS
    <3> QED BY <2>1, <2>3, <3>1, <3>2
  <2>5. m \in 0 .. n
    OBVIOUS
  <2> QED BY <2>3, <2>4, <2>5
<1>3. 0 .. n \subseteq T
  <2> HIDE DEF T
  <2> QED BY <1>1, <1>2, Induction
<1>4. n \in 0 .. n
  OBVIOUS
<1>5. n \in T
  BY <1>3, <1>4
<1> QED BY <1>5

LEMMA Distributes ==
  \A a, b, c \in Int : c * (a + b) = c * a + c * b
  OBVIOUS

(* a divided by b.                                                         *)
LEMMA DivBounds ==
  ASSUME NEW a \in Nat, NEW b \in Nat \ {0}
  PROVE  /\ a \div b \in Nat
         /\ (a \div b) * b <= a
         /\ a < (a \div b) * b + b
  OBVIOUS

-----------------------------------------------------------------------------
(* g starts with v, and step i gives g[i] from g[i - 1].                   *)
Follows(g, n, V, v, step) ==
  /\ g \in [0 .. n -> V] /\ g[0] = v
  /\ \A i \in 1 .. n : g[i] = step[i][g[i - 1]]

(* A function that is defined by recursion over 0 .. n exists.             *)
LEMMA RecursionExists ==
  ASSUME NEW n \in Nat, NEW V, NEW v \in V, NEW step \in [1 .. n -> [V -> V]]
  PROVE  \E g : Follows(g, n, V, v, step)
<1> USE DEF Follows
<1> DEFINE Good(g, m) == Follows(g, m, V, v, step)
           T == {m \in 0 .. n : \E g : Good(g, m)}
<1>1. 0 \in T
  <2>1. Good([i \in 0 .. 0 |-> v], 0)
    OBVIOUS
  <2>2. \E g : Good(g, 0)
    BY <2>1
  <2> QED BY <2>2
<1>2. ASSUME NEW m \in 1 .. n, m - 1 \in T PROVE m \in T
  <2>1. PICK g : Good(g, m - 1)
    BY <1>2
  <2> DEFINE h == [i \in 0 .. m |-> IF i = m THEN step[m][g[m - 1]] ELSE g[i]]
  <2>2. h \in [0 .. m -> V] /\ h[0] = v
    <3>1. m - 1 \in 0 .. m - 1 /\ m \in 1 .. n /\ 0 \in 0 .. m /\ 0 # m
      OBVIOUS
    <3>2. step[m][g[m - 1]] \in V
      BY <2>1, <3>1
    <3>3. \A i \in 0 .. m : i # m => i \in 0 .. m - 1
      OBVIOUS
    <3> QED BY <2>1, <3>1, <3>2, <3>3
  <2>3. ASSUME NEW i \in 1 .. m PROVE h[i] = step[i][h[i - 1]]
    <3>1. /\ i - 1 \in 0 .. m /\ i - 1 # m /\ i \in 0 .. m
          /\ i # m => i \in 1 .. m - 1
      OBVIOUS
    <3>2. h[i - 1] = g[i - 1]
      BY <3>1
    <3> QED BY <2>1, <3>1, <3>2
  <2>4. Good(h, m)
    <3> HIDE DEF h
    <3> QED BY <2>2, <2>3
  <2>5. m \in 0 .. n /\ \E x : Good(x, m)
    <3> HIDE DEF Good
    <3> QED BY <2>4
  <2> HIDE DEF Good
  <2> QED BY <2>5
<1>3. n \in T
  <2> HIDE DEF T
  <2>1. 0 .. n \subseteq T
    BY <1>1, <1>2, Induction
  <2> QED BY <2>1
<1> QED BY <1>3

(* Step i looks at the values above i only; f[i] is what step i gives.     *)
LooksAbove(step, n, V) ==
  /\ step \in [0 .. n -> [[0 .. n -> V] -> V]]
  /\ \A i \in 0 .. n : \A f, g \in [0 .. n -> V] :
       (\A k \in 0 .. n : i < k => f[k] = g[k]) => step[i][f] = step[i][g]

Descends(f, n, V, step) == f \in [0 .. n -> V] /\ \A i \in 0 .. n : f[i] = step[i][f]

(* A function that is defined by recursion from n down exists.             *)
LEMMA DownwardExists ==
  ASSUME NEW n \in Nat, NEW V, V # {}, NEW step, LooksAbove(step, n, V)
  PROVE  \E f : Descends(f, n, V, step)
<1> USE DEF LooksAbove
<1> DEFINE Good(f, m) == \A i \in 0 .. n : n - i < m => f[i] = step[i][f]
           T == {m \in 0 .. n + 1 : \E f \in [0 .. n -> V] : Good(f, m)}
<1>1. 0 \in T
  <2>1. PICK v \in V : TRUE
    OBVIOUS
  <2>2. [i \in 0 .. n |-> v] \in [0 .. n -> V]
    OBVIOUS
  <2>3. ASSUME NEW f PROVE Good(f, 0)
    <3>1. \A i \in 0 .. n : ~(n - i < 0)
      OBVIOUS
    <3> QED BY <3>1
  <2>4. 0 \in 0 .. n + 1
    OBVIOUS
  <2> HIDE DEF Good
  <2> QED BY <2>2, <2>3, <2>4
<1>2. ASSUME NEW m \in 1 .. n + 1, m - 1 \in T PROVE m \in T
  <2>1. PICK f \in [0 .. n -> V] : Good(f, m - 1)
    BY <1>2
  <2> DEFINE j == n - (m - 1)
             g == [f EXCEPT ![j] = step[j][f]]
  <2>2. j \in 0 .. n /\ step[j][f] \in V
    OBVIOUS
  <2>3. g \in [0 .. n -> V] /\ \A i \in 0 .. n : g[i] = IF i = j THEN step[j][f] ELSE f[i]
    BY <2>2
  <2>4. ASSUME NEW i \in 0 .. n, n - i < m PROVE g[i] = step[i][g]
    <3>1. j <= i /\ (i # j => n - i < m - 1)
      BY <2>2, <2>4
    <3>2. \A k \in 0 .. n : i < k => g[k] = f[k]
      BY <2>2, <2>3, <3>1
    <3>3. step[i][g] = step[i][f]
      <4> HIDE DEF g, j
      <4> QED BY <2>3, <3>2
    <3>4. i # j => f[i] = step[i][f]
      BY <2>1, <3>1
    <3> HIDE DEF g, j
    <3> QED BY <2>3, <3>3, <3>4
  <2>5. Good(g, m)
    <3> HIDE DEF g
    <3> QED BY <2>4
  <2>6. m \in 0 .. n + 1
    OBVIOUS
  <2> HIDE DEF g, Good
  <2> QED BY <2>3, <2>5, <2>6
<1>3. n + 1 \in T
  <2> HIDE DEF T
  <2>1. n + 1 \in Nat /\ n + 1 \in 0 .. n + 1
    OBVIOUS
  <2>2. \A i \in 1 .. n + 1 : i - 1 \in T => i \in T
    BY <1>2
  <2>3. 0 .. n + 1 \subseteq T
    BY <1>1, <2>1, <2>2, Induction
  <2> QED BY <2>1, <2>3
<1>4. PICK f \in [0 .. n -> V] : Good(f, n + 1)
  BY <1>3
<1>5. \A i \in 0 .. n : n - i < n + 1
  OBVIOUS
<1>6. Descends(f, n, V, step)
  BY <1>4, <1>5 DEF Descends
<1> QED BY <1>6

-----------------------------------------------------------------------------
(* Sums.                                                                   *)

(* What the recursive definition promises: there is such a function.       *)
LEMMA SumsExist ==
  ASSUME NEW n \in Nat, NEW f, \A i \in 1 .. n : f[i] \in Nat
  PROVE  \E g : g = [i \in 0 .. n |-> IF i = 0 THEN 0 ELSE g[i - 1] + f[i]]
<1> DEFINE step == [i \in 1 .. n |-> [w \in Nat |-> w + f[i]]]
<1>1. \A i \in 1 .. n : \A w \in Nat : step[i][w] = w + f[i] /\ step[i][w] \in Nat
  OBVIOUS
<1>2. PICK g : /\ g \in [0 .. n -> Nat] /\ g[0] = 0
               /\ \A i \in 1 .. n : g[i] = step[i][g[i - 1]]
  <2> DEFINE V == Nat
  <2>1. 0 \in V /\ step \in [1 .. n -> [V -> V]]
    OBVIOUS
  <2> HIDE DEF step, V
  <2>2. \E g : Follows(g, n, V, 0, step)
    BY <2>1, RecursionExists
  <2> QED BY <2>2 DEF Follows, V
<1>3. \A i \in 0 .. n : g[i] = IF i = 0 THEN 0 ELSE g[i - 1] + f[i]
  <2> TAKE i \in 0 .. n
  <2>1. i # 0 => i \in 1 .. n /\ g[i - 1] \in Nat
    BY <1>2
  <2> HIDE DEF step
  <2> QED BY <1>1, <1>2, <2>1
<1>4. g = [i \in 0 .. n |-> g[i]]
  BY <1>2
<1>5. g = [i \in 0 .. n |-> IF i = 0 THEN 0 ELSE g[i - 1] + f[i]]
  BY <1>3, <1>4
<1> QED BY <1>5

LEMMA SumsDef ==
  ASSUME NEW n \in Nat, NEW f, \A i \in 1 .. n : f[i] \in Nat
  PROVE  /\ PrefixSums(f, n) \in [0 .. n -> Nat]
         /\ PrefixSums(f, n)[0] = 0
         /\ \A i \in 1 .. n : PrefixSums(f, n)[i] = PrefixSums(f, n)[i - 1] + f[i]
<1>1. PICK s : s = PrefixSums(f, n)
  OBVIOUS
<1>2. s = [i \in 0 .. n |-> IF i = 0 THEN 0 ELSE s[i - 1] + f[i]]
  <2>1. \E g : g = [i \in 0 .. n |-> IF i = 0 THEN 0 ELSE g[i - 1] + f[i]]
    BY SumsExist
  <2> QED BY <1>1, <2>1 DEF PrefixSums
<1>3. \A i \in 0 .. n : s[i] = IF i = 0 THEN 0 ELSE s[i - 1] + f[i]
  BY <1>2
<1>4. s[0] = 0 /\ \A i \in 1 .. n : s[i] = s[i - 1] + f[i]
  BY <1>3
<1>5. DOMAIN s = 0 .. n /\ s = [i \in 0 .. n |-> s[i]]
  BY <1>2
<1> DEFINE T == {i \in 0 .. n : s[i] \in Nat}
<1>6. 0 .. n \subseteq T
  <2>1. 0 \in T
    BY <1>4
  <2>2. ASSUME NEW i \in 1 .. n, i - 1 \in T PROVE i \in T
    BY <1>4, <2>2
  <2> HIDE DEF T
  <2> QED BY <2>1, <2>2, Induction
<1>7. \A i \in 0 .. n : s[i] \in Nat
  BY <1>6
<1>8. s \in [0 .. n -> Nat]
  BY <1>5, <1>7
<1> QED BY <1>1, <1>4, <1>8

(* The sums never decrease.                                                *)
LEMMA SumsGrow ==
  ASSUME NEW n \in Nat, NEW f, \A i \in 1 .. n : f[i] \in Nat, NEW m \in 0 .. n
  PROVE  \A i \in m .. n : PrefixSums(f, n)[m] <= PrefixSums(f, n)[i]
<1> DEFINE F == PrefixSums(f, n)
           T == {i \in 0 .. n : m <= i => F[m] <= F[i]}
<1>1. F \in [0 .. n -> Nat] /\ \A i \in 1 .. n : F[i] = F[i - 1] + f[i]
  BY SumsDef
<1> HIDE DEF F
<1>2. 0 \in T
  BY <1>1
<1>3. ASSUME NEW i \in 1 .. n, i - 1 \in T PROVE i \in T
  <2>1. F[i - 1] \in Nat /\ F[i] = F[i - 1] + f[i] /\ F[i] \in Nat
    BY <1>1
  <2>2. m <= i - 1 => F[m] <= F[i - 1]
    BY <1>3
  <2>3. m <= i => m = i \/ m <= i - 1
    OBVIOUS
  <2>4. m <= i => F[m] <= F[i]
    BY <1>1, <2>1, <2>2, <2>3
  <2> QED BY <2>4
<1>4. 0 .. n \subseteq T
  <2> HIDE DEF T
  <2> QED BY <1>2, <1>3, Induction
<1> QED BY <1>4 DEF F

(* The sum of the sums.                                                    *)
LEMMA SumsAdd ==
  ASSUME NEW n \in Nat, NEW f, NEW g, NEW h,
         \A i \in 1 .. n : f[i] \in Nat /\ g[i] \in Nat /\ h[i] = f[i] + g[i]
  PROVE  \A i \in 0 .. n : PrefixSums(h, n)[i] = PrefixSums(f, n)[i] + PrefixSums(g, n)[i]
<1> DEFINE F == PrefixSums(f, n)
           G == PrefixSums(g, n)
           H == PrefixSums(h, n)
           T == {i \in 0 .. n : H[i] = F[i] + G[i]}
<1>1. \A i \in 1 .. n : h[i] \in Nat
  OBVIOUS
<1>2. /\ F \in [0 .. n -> Nat] /\ F[0] = 0 /\ \A i \in 1 .. n : F[i] = F[i - 1] + f[i]
      /\ G \in [0 .. n -> Nat] /\ G[0] = 0 /\ \A i \in 1 .. n : G[i] = G[i - 1] + g[i]
      /\ H \in [0 .. n -> Nat] /\ H[0] = 0 /\ \A i \in 1 .. n : H[i] = H[i - 1] + h[i]
  <2>1. F \in [0 .. n -> Nat] /\ F[0] = 0 /\ \A i \in 1 .. n : F[i] = F[i - 1] + f[i]
    BY SumsDef
  <2>2. G \in [0 .. n -> Nat] /\ G[0] = 0 /\ \A i \in 1 .. n : G[i] = G[i - 1] + g[i]
    BY SumsDef
  <2>3. H \in [0 .. n -> Nat] /\ H[0] = 0 /\ \A i \in 1 .. n : H[i] = H[i - 1] + h[i]
    BY <1>1, SumsDef
  <2> HIDE DEF F, G, H
  <2> QED BY <2>1, <2>2, <2>3
<1> HIDE DEF F, G, H
<1>3. 0 \in T
  BY <1>2
<1>4. ASSUME NEW i \in 1 .. n, i - 1 \in T PROVE i \in T
  <2>1. H[i - 1] = F[i - 1] + G[i - 1] /\ i - 1 \in 0 .. n
    BY <1>4
  <2>2. F[i - 1] \in Nat /\ G[i - 1] \in Nat
    BY <1>2, <2>1
  <2>3. /\ F[i] = F[i - 1] + f[i] /\ G[i] = G[i - 1] + g[i] /\ H[i] = H[i - 1] + h[i]
        /\ f[i] \in Nat /\ g[i] \in Nat /\ h[i] = f[i] + g[i]
    BY <1>2
  <2>4. H[i] = F[i] + G[i]
    BY <2>1, <2>2, <2>3
  <2> QED BY <2>4
<1>5. 0 .. n \subseteq T
  <2> HIDE DEF T
  <2> QED BY <1>3, <1>4, Induction
<1> QED BY <1>5 DEF F, G, H

(* A bound on each summand bounds the sums.                                *)
LEMMA SumsBound ==
  ASSUME NEW n \in Nat, NEW f, NEW g, NEW c \in Nat, NEW k \in Nat, NEW d \in Nat,
         \A i \in 1 .. n : f[i] \in Nat /\ g[i] \in Nat /\ c * f[i] <= k * g[i] + d
  PROVE  \A i \in 0 .. n : c * PrefixSums(f, n)[i] <= k * PrefixSums(g, n)[i] + i * d
<1> DEFINE F == PrefixSums(f, n)
           G == PrefixSums(g, n)
           T == {i \in 0 .. n : c * F[i] <= k * G[i] + i * d}
<1>1. F \in [0 .. n -> Nat] /\ F[0] = 0 /\ \A i \in 1 .. n : F[i] = F[i - 1] + f[i]
  BY SumsDef
<1>2. G \in [0 .. n -> Nat] /\ G[0] = 0 /\ \A i \in 1 .. n : G[i] = G[i - 1] + g[i]
  BY SumsDef
<1> HIDE DEF F, G
<1>3. 0 \in T
  BY <1>1, <1>2
<1>4. ASSUME NEW i \in 1 .. n, i - 1 \in T PROVE i \in T
  <2>1. F[i - 1] \in Nat /\ G[i - 1] \in Nat /\ f[i] \in Nat /\ g[i] \in Nat
    BY <1>1, <1>2
  <2>2. c * F[i] = c * F[i - 1] + c * f[i] /\ k * G[i] = k * G[i - 1] + k * g[i]
    <3>1. F[i] = F[i - 1] + f[i] /\ G[i] = G[i - 1] + g[i]
      BY <1>1, <1>2
    <3> QED BY <2>1, <3>1, Distributes
  <2>3. i * d = (i - 1) * d + d
    OBVIOUS
  <2>4. c * F[i - 1] <= k * G[i - 1] + (i - 1) * d /\ c * f[i] <= k * g[i] + d
    BY <1>4
  <2>5. /\ c * F[i - 1] \in Nat /\ c * f[i] \in Nat /\ k * G[i - 1] \in Nat
        /\ k * g[i] \in Nat /\ (i - 1) * d \in Nat
    BY <2>1
  <2>6. c * F[i] <= k * G[i] + i * d
    BY <2>2, <2>3, <2>4, <2>5
  <2> QED BY <2>6
<1>5. 0 .. n \subseteq T
  <2> HIDE DEF T
  <2> QED BY <1>3, <1>4, Induction
<1> QED BY <1>5 DEF F, G

(* g is f up to m, where it is cut off at p.                               *)
LEMMA SumsCut ==
  ASSUME NEW n \in Nat, NEW f, NEW g, NEW m \in 1 .. n, NEW p \in Nat,
         \A i \in 1 .. n : f[i] \in Nat /\ g[i] = IF i < m THEN f[i] ELSE IF i = m THEN p ELSE 0
  PROVE  PrefixSums(g, n)[n] = PrefixSums(f, n)[m - 1] + p
<1> DEFINE F == PrefixSums(f, n)
           G == PrefixSums(g, n)
           T == {i \in 0 .. n : G[i] = IF i < m THEN F[i] ELSE F[m - 1] + p}
<1>1. \A i \in 1 .. n : g[i] \in Nat
  OBVIOUS
<1>2. F \in [0 .. n -> Nat] /\ F[0] = 0 /\ \A i \in 1 .. n : F[i] = F[i - 1] + f[i]
  BY SumsDef
<1>3. G \in [0 .. n -> Nat] /\ G[0] = 0 /\ \A i \in 1 .. n : G[i] = G[i - 1] + g[i]
  BY <1>1, SumsDef
<1> HIDE DEF F, G
<1>4. 0 \in T
  BY <1>2, <1>3
<1>5. ASSUME NEW i \in 1 .. n, i - 1 \in T PROVE i \in T
  <2>1. CASE i < m
    BY <1>2, <1>3, <1>5, <2>1
  <2>2. CASE i = m
    BY <1>2, <1>3, <1>5, <2>2
  <2>3. CASE i > m
    <3>1. G[i - 1] = F[m - 1] + p /\ G[i] = G[i - 1] + 0
      BY <1>3, <1>5, <2>3
    <3>2. F[m - 1] \in Nat /\ ~(i < m)
      BY <1>2, <2>3
    <3> QED BY <3>1, <3>2
  <2> QED BY <2>1, <2>2, <2>3
<1>6. 0 .. n \subseteq T
  <2> HIDE DEF T
  <2> QED BY <1>4, <1>5, Induction
<1>7. n \in T /\ ~(n < m)
  BY <1>6
<1> QED BY <1>7 DEF F, G


-----------------------------------------------------------------------------
(* Selections.                                                             *)

LEMMA SelectionsDef ==
  ASSUME NEW S, NEW s \in Seq(S), NEW P
  PROVE  /\ Selections(s, P) \in [0 .. Len(s) -> Seq(S)]
         /\ Selections(s, P)[0] = <<>>
         /\ \A i \in 1 .. Len(s) :
              Selections(s, P)[i] = IF s[i] \in P THEN Append(Selections(s, P)[i - 1], s[i])
                                    ELSE Selections(s, P)[i - 1]
<1> DEFINE n == Len(s)
           step == [i \in 1 .. n |-> [q \in Seq(S) |-> IF s[i] \in P THEN Append(q, s[i]) ELSE q]]
<1>0. n \in Nat /\ \A i \in 1 .. n : s[i] \in S
  OBVIOUS
<1>1. \A i \in 1 .. n : \A q \in Seq(S) :
        step[i][q] = (IF s[i] \in P THEN Append(q, s[i]) ELSE q) /\ step[i][q] \in Seq(S)
  BY <1>0
<1>2. PICK g : /\ g \in [0 .. n -> Seq(S)] /\ g[0] = <<>>
               /\ \A i \in 1 .. n : g[i] = step[i][g[i - 1]]
  <2> DEFINE V == Seq(S)
  <2>1. <<>> \in V /\ step \in [1 .. n -> [V -> V]]
    BY <1>0
  <2> HIDE DEF step, n, V
  <2>2. \E g : Follows(g, n, V, <<>>, step)
    BY <1>0, <2>1, RecursionExists
  <2> QED BY <2>2 DEF Follows, V
<1>3. \A i \in 0 .. n : g[i] = IF i = 0 THEN <<>> ELSE IF s[i] \in P THEN Append(g[i - 1], s[i])
                               ELSE g[i - 1]
  <2> TAKE i \in 0 .. n
  <2> HIDE DEF step, n
  <2>1. i # 0 => i \in 1 .. n /\ i - 1 \in 0 .. n
    BY <1>0
  <2>2. g \in [0 .. n -> Seq(S)]
    BY <1>2
  <2>3. i # 0 => i \in 1 .. n /\ g[i - 1] \in Seq(S)
    BY <2>1, <2>2
  <2> QED BY <1>1, <1>2, <2>3
<1>4. g = [i \in 0 .. n |-> g[i]]
  BY <1>2
<1>5. g = [i \in 0 .. n |-> IF i = 0 THEN <<>> ELSE IF s[i] \in P THEN Append(g[i - 1], s[i])
                          ELSE g[i - 1]]
  BY <1>3, <1>4
<1>6. PICK t : t = Selections(s, P)
  OBVIOUS
<1>7. t = [i \in 0 .. n |-> IF i = 0 THEN <<>> ELSE IF s[i] \in P THEN Append(t[i - 1], s[i])
                          ELSE t[i - 1]]
  BY <1>5, <1>6 DEF Selections
<1>8. \A i \in 0 .. n : t[i] = IF i = 0 THEN <<>> ELSE IF s[i] \in P THEN Append(t[i - 1], s[i])
                               ELSE t[i - 1]
  BY <1>7
<1> DEFINE T == {i \in 0 .. n : t[i] \in Seq(S)}
<1>9. 0 .. n \subseteq T
  <2>1. 0 \in T
    <3>1. 0 \in 0 .. n /\ <<>> \in Seq(S)
      BY <1>0
    <3>2. t[0] = <<>>
      BY <1>8, <3>1
    <3> HIDE DEF n
    <3> QED BY <3>1, <3>2
  <2>2. ASSUME NEW i \in 1 .. n, i - 1 \in T PROVE i \in T
    <3>1. i \in 0 .. n /\ i # 0 /\ s[i] \in S /\ t[i - 1] \in Seq(S)
      BY <1>0, <2>2
    <3>2. t[i] = IF s[i] \in P THEN Append(t[i - 1], s[i]) ELSE t[i - 1]
      BY <1>8, <3>1
    <3>3. t[i] \in Seq(S)
      BY <3>1, <3>2
    <3> HIDE DEF n
    <3> QED BY <3>1, <3>3
  <2> HIDE DEF T, n
  <2> QED BY <1>0, <2>1, <2>2, Induction
<1>10. t \in [0 .. n -> Seq(S)]
  <2>1. t = [i \in 0 .. n |-> t[i]]
    BY <1>7
  <2>2. \A i \in 0 .. n : t[i] \in Seq(S)
    BY <1>9
  <2> QED BY <2>1, <2>2
<1>11. t[0] = <<>> /\ \A i \in 1 .. n : t[i] = IF s[i] \in P THEN Append(t[i - 1], s[i]) ELSE t[i - 1]
  BY <1>0, <1>8
<1> QED BY <1>6, <1>10, <1>11

(* A selection is no longer than the sequence, holds the elements that are *)
(* in P, none twice if none of them occurs twice, and all of them if all   *)
(* are in P.                                                               *)
LEMMA SelectProperties ==
  ASSUME NEW S, NEW s \in Seq(S), NEW P
  PROVE  /\ Select(s, P) \in Seq(S) /\ Len(Select(s, P)) <= Len(s)
         /\ \A x : (\E i \in 1 .. Len(Select(s, P)) : Select(s, P)[i] = x)
                  <=> x \in P /\ \E i \in 1 .. Len(s) : s[i] = x
         /\ (\A i, j \in 1 .. Len(s) : s[i] \in P /\ s[i] = s[j] => i = j) =>
              \A i, j \in 1 .. Len(Select(s, P)) : Select(s, P)[i] = Select(s, P)[j] => i = j
         /\ (\A i \in 1 .. Len(s) : s[i] \in P) => Select(s, P) = s
<1> DEFINE t == Selections(s, P)
           n == Len(s)
           Once == \A i, j \in 1 .. n : s[i] \in P /\ s[i] = s[j] => i = j
           All == \A i \in 1 .. n : s[i] \in P
           Good(q, m) ==
             /\ q \in Seq(S) /\ Len(q) <= m
             /\ \A i \in 1 .. Len(q) : q[i] \in P /\ \E j \in 1 .. m : s[j] = q[i]
             /\ \A j \in 1 .. m : s[j] \in P => \E i \in 1 .. Len(q) : q[i] = s[j]
             /\ Once => \A i, j \in 1 .. Len(q) : q[i] = q[j] => i = j
             /\ All => Len(q) = m /\ \A i \in 1 .. m : q[i] = s[i]
           T == {m \in 0 .. n : Good(t[m], m)}
<1>0. n \in Nat /\ \A i \in 1 .. n : s[i] \in S
  OBVIOUS
<1>1. /\ t[0] = <<>> /\ t \in [0 .. n -> Seq(S)]
      /\ \A i \in 1 .. n : t[i] = IF s[i] \in P THEN Append(t[i - 1], s[i]) ELSE t[i - 1]
  BY SelectionsDef
<1> HIDE DEF t, n
<1>2. 0 \in T
  <2>1. Good(<<>>, 0)
    OBVIOUS
  <2> QED BY <1>0, <1>1, <2>1
<1>3. ASSUME NEW m \in 1 .. n, m - 1 \in T PROVE m \in T
  <2>1. PICK q : q = t[m - 1]
    OBVIOUS
  <2>0. Good(q, m - 1)
    BY <1>3, <2>1
  <2>2. /\ Good(q, m - 1) /\ m \in Nat /\ m \in 0 .. n /\ s[m] \in S /\ m \in 1 .. m
        /\ Len(q) \in Nat /\ \A j \in 1 .. m : j = m \/ j \in 1 .. m - 1
        /\ \A j \in 1 .. m - 1 : j \in 1 .. n /\ j # m /\ j \in 1 .. m
    <3>1. m \in Nat /\ m \in 0 .. n /\ s[m] \in S /\ m \in 1 .. m
      BY <1>0
    <3>2. \A j \in 1 .. m : j = m \/ j \in 1 .. m - 1
      BY <3>1
    <3>3. \A j \in 1 .. m - 1 : j \in 1 .. n /\ j # m /\ j \in 1 .. m
      BY <1>0, <3>1
    <3>4. Len(q) \in Nat
      BY <2>0
    <3> HIDE DEF Good
    <3> QED BY <2>0, <3>1, <3>2, <3>3, <3>4
  <2>3. CASE s[m] \notin P
    <3>1. t[m] = q
      BY <1>1, <2>1, <2>3
    <3>2. Good(q, m)
      <4>1. ~All
        BY <2>3
      <4>2. Len(q) <= m
        BY <2>2
      <4>3. \A i \in 1 .. Len(q) : q[i] \in P /\ \E j \in 1 .. m : s[j] = q[i]
        BY <2>2
      <4>4. \A j \in 1 .. m : s[j] \in P => \E i \in 1 .. Len(q) : q[i] = s[j]
        BY <2>2, <2>3
      <4> HIDE DEF All, Once
      <4> QED BY <2>2, <4>1, <4>2, <4>3, <4>4
    <3> HIDE DEF Good
    <3> QED BY <2>2, <3>1, <3>2
  <2>4. CASE s[m] \in P
    <3> DEFINE p == Append(q, s[m])
    <3>1. t[m] = p
      BY <1>1, <2>1, <2>4
    <3>2. /\ p \in Seq(S) /\ Len(p) = Len(q) + 1 /\ p[Len(q) + 1] = s[m]
          /\ \A i \in 1 .. Len(q) : p[i] = q[i] /\ i # Len(q) + 1
          /\ \A i \in 1 .. Len(q) + 1 : i = Len(q) + 1 \/ i \in 1 .. Len(q)
      BY <2>2
    <3> HIDE DEF p
    <3>3. Len(p) <= m
      BY <2>2, <3>2
    <3>4. \A i \in 1 .. Len(p) : p[i] \in P /\ \E j \in 1 .. m : s[j] = p[i]
      <4> TAKE i \in 1 .. Len(p)
      <4>1. CASE i = Len(q) + 1
        BY <2>2, <2>4, <3>2, <4>1
      <4>2. CASE i \in 1 .. Len(q)
        <5>1. PICK j \in 1 .. m - 1 : s[j] = q[i]
          BY <2>2, <4>2
        <5>2. q[i] \in P /\ p[i] = q[i] /\ j \in 1 .. m
          BY <2>2, <3>2, <4>2
        <5> QED BY <5>1, <5>2
      <4> QED BY <3>2, <4>1, <4>2
    <3>5. \A j \in 1 .. m : s[j] \in P => \E i \in 1 .. Len(p) : p[i] = s[j]
      <4> TAKE j \in 1 .. m
      <4>1. CASE j = m
        <5>1. Len(q) + 1 \in 1 .. Len(p)
          BY <2>2, <3>2
        <5> QED BY <3>2, <4>1, <5>1
      <4>2. CASE j # m
        <5>1. ASSUME s[j] \in P PROVE \E i \in 1 .. Len(p) : p[i] = s[j]
          <6>1. PICK i \in 1 .. Len(q) : q[i] = s[j]
            BY <2>2, <4>2, <5>1
          <6>2. i \in 1 .. Len(p)
            BY <2>2, <3>2
          <6> QED BY <3>2, <6>1, <6>2
        <5> QED BY <5>1
      <4> QED BY <4>1, <4>2
    <3>6. Once => \A i, j \in 1 .. Len(p) : p[i] = p[j] => i = j
      <4> SUFFICES ASSUME Once PROVE \A i, j \in 1 .. Len(p) : p[i] = p[j] => i = j
        OBVIOUS
      <4>1. \A i \in 1 .. Len(q) : q[i] # s[m]
        BY <2>2
      <4>2. \A i, j \in 1 .. Len(q) : q[i] = q[j] => i = j
        BY <2>2
      <4> QED BY <3>2, <4>1, <4>2
    <3>7. All => Len(p) = m /\ \A i \in 1 .. m : p[i] = s[i]
      <4> SUFFICES ASSUME All PROVE Len(p) = m /\ \A i \in 1 .. m : p[i] = s[i]
        OBVIOUS
      <4>1. Len(q) = m - 1 /\ \A i \in 1 .. m - 1 : q[i] = s[i]
        BY <2>2
      <4>2. Len(q) + 1 = m
        BY <2>2, <4>1
      <4> QED BY <2>2, <3>2, <4>1, <4>2
    <3>8. Good(p, m)
      <4> HIDE DEF Once, All
      <4> QED BY <3>2, <3>3, <3>4, <3>5, <3>6, <3>7
    <3> HIDE DEF Good
    <3> QED BY <2>2, <3>1, <3>8
  <2> QED BY <2>3, <2>4
<1>4. n \in T
  <2> HIDE DEF T
  <2>1. 0 .. n \subseteq T
    BY <1>0, <1>2, <1>3, Induction
  <2> QED BY <1>0, <2>1
<1>5. PICK q : q = Select(s, P)
  OBVIOUS
<1>6. Good(q, n)
  BY <1>4, <1>5 DEF Select, t, n
<1>7. All => q = s
  <2>1. All => Len(q) = Len(s) /\ \A i \in 1 .. Len(s) : q[i] = s[i]
    BY <1>6 DEF n
  <2> HIDE DEF All
  <2>2. q \in Seq(S)
    BY <1>6
  <2> QED BY <2>1, <2>2, SeqEqual
<1>8. \A x : (\E i \in 1 .. Len(q) : q[i] = x) <=> x \in P /\ \E i \in 1 .. n : s[i] = x
  BY <1>6
<1> QED BY <1>5, <1>6, <1>7, <1>8 DEF n

-----------------------------------------------------------------------------
(* Sums over finite sets.                                                  *)

(* What holds for a set when it holds for the set less any of its elements *)
(* holds for all finite sets.                                              *)
LEMMA SetInduction ==
  ASSUME NEW U, IsFiniteSet(U), NEW P,
         \A T \in SUBSET U : (\A x \in T : T \ {x} \in P) => T \in P
  PROVE  SUBSET U \subseteq P
<1>1. PICK n \in Nat : n = Cardinality(U)
  BY FS_CardinalityType
<1>2. \A T \in SUBSET U : IsFiniteSet(T) /\ Cardinality(T) \in 0 .. n
  <2> TAKE T \in SUBSET U
  <2>1. IsFiniteSet(T) /\ Cardinality(T) <= n
    BY <1>1, FS_Subset
  <2> QED BY <1>1, <2>1, FS_CardinalityType
<1> DEFINE N == {i \in 0 .. n : \A T \in SUBSET U : Cardinality(T) = i => T \in P}
<1>3. 0 \in N
  <2>1. ASSUME NEW T \in SUBSET U, Cardinality(T) = 0 PROVE T \in P
    <3>1. T = {}
      BY <1>2, <2>1, FS_EmptySet
    <3> QED BY <3>1
  <2> QED BY <2>1
<1>4. ASSUME NEW i \in 1 .. n, i - 1 \in N PROVE i \in N
  <2>1. ASSUME NEW T \in SUBSET U, Cardinality(T) = i PROVE T \in P
    <3>1. ASSUME NEW x \in T PROVE T \ {x} \in P
      <4>1. Cardinality(T \ {x}) = i - 1
        BY <1>2, <2>1, FS_RemoveElement
      <4> QED BY <1>4, <4>1
    <3> QED BY <3>1
  <2> QED BY <2>1
<1>5. 0 .. n \subseteq N
  <2> HIDE DEF N
  <2> QED BY <1>3, <1>4, Induction
<1> QED BY <1>2, <1>5

(* g sums f over the subsets of U, as the fold of the community modules    *)
(* does: an element of the set at a time.                                  *)
First(T) == CHOOSE x \in T : TRUE

IsSum(g, f, U) ==
  /\ g \in [SUBSET U -> Int] /\ g[{}] = 0
  /\ \A T \in SUBSET U : T # {} => g[T] = f[First(T)] + g[T \ {First(T)}]

LEMMA FirstInSet ==
  ASSUME NEW T, T # {}
  PROVE  First(T) \in T
BY DEF First

LEMMA SumExists ==
  ASSUME NEW U, IsFiniteSet(U), NEW f \in [U -> Int]
  PROVE  \E g : IsSum(g, f, U)
<1>1. PICK n \in Nat : n = Cardinality(U)
  BY FS_CardinalityType
<1>2. \A T \in SUBSET U : IsFiniteSet(T) /\ Cardinality(T) \in 0 .. n
  <2> TAKE T \in SUBSET U
  <2>1. IsFiniteSet(T) /\ Cardinality(T) <= n
    BY <1>1, FS_Subset
  <2> QED BY <1>1, <2>1, FS_CardinalityType
<1> DEFINE V == [SUBSET U -> Int]
           v == [T \in SUBSET U |-> 0]
           next(w) == [T \in SUBSET U |->
                         IF T = {} THEN 0 ELSE f[First(T)] + w[T \ {First(T)}]]
           step == [i \in 1 .. n |-> [w \in V |-> next(w)]]
<1>3. v \in V /\ step \in [1 .. n -> [V -> V]]
  <2>1. ASSUME NEW w \in V PROVE next(w) \in V
    <3>1. ASSUME NEW T \in SUBSET U, T # {} PROVE f[First(T)] + w[T \ {First(T)}] \in Int
      BY <3>1, FirstInSet
    <3> QED BY <3>1
  <2>2. v \in V
    OBVIOUS
  <2> HIDE DEF V, v, next
  <2> QED BY <2>1, <2>2
<1>4. PICK h : Follows(h, n, V, v, step)
  <2> HIDE DEF V, v, step
  <2> QED BY <1>3, RecursionExists
<1>5. /\ h \in [0 .. n -> V] /\ h[0] = v
      /\ \A i \in 1 .. n : h[i] = next(h[i - 1])
  <2>1. h \in [0 .. n -> V] /\ h[0] = v /\ \A i \in 1 .. n : h[i] = step[i][h[i - 1]]
    BY <1>4 DEF Follows
  <2>2. ASSUME NEW i \in 1 .. n PROVE step[i][h[i - 1]] = next(h[i - 1])
    <3>1. h[i - 1] \in V
      <4>1. i - 1 \in 0 .. n
        OBVIOUS
      <4> HIDE DEF V
      <4> QED BY <2>1, <4>1
    <3> HIDE DEF V, next
    <3> QED BY <3>1
  <2> QED BY <2>1, <2>2
<1> DEFINE g == [T \in SUBSET U |-> h[Cardinality(T)][T]]
<1>6. g \in [SUBSET U -> Int]
  BY <1>2, <1>5
<1>7. g[{}] = 0
  <2>1. Cardinality({}) = 0 /\ {} \in SUBSET U
    BY FS_EmptySet
  <2> QED BY <1>5, <2>1
<1>8. ASSUME NEW T \in SUBSET U, T # {} PROVE g[T] = f[First(T)] + g[T \ {First(T)}]
  <2>1. PICK m : m = Cardinality(T)
    OBVIOUS
  <2>2. m \in 1 .. n
    BY <1>2, <1>8, <2>1, FS_EmptySet
  <2>3. Cardinality(T \ {First(T)}) = m - 1
    BY <1>2, <1>8, <2>1, FirstInSet, FS_RemoveElement
  <2>4. h[m] = next(h[m - 1])
    BY <1>5, <2>2
  <2>5. h[m][T] = f[First(T)] + h[m - 1][T \ {First(T)}]
    BY <1>8, <2>4
  <2> QED BY <2>1, <2>3, <2>5
<1> HIDE DEF g
<1> QED BY <1>6, <1>7, <1>8 DEF IsSum

(* It does not matter which element is taken first.                        *)
Removes(g, f, U) == \A T \in SUBSET U : \A x \in T : g[T] = f[x] + g[T \ {x}]

LEMMA SumRemoves ==
  ASSUME NEW U, IsFiniteSet(U), NEW f \in [U -> Int], NEW g, IsSum(g, f, U)
  PROVE  Removes(g, f, U)
<1> DEFINE P == {T \in SUBSET U : \A x \in T : g[T] = f[x] + g[T \ {x}]}
<1>1. ASSUME NEW T \in SUBSET U, \A y \in T : T \ {y} \in P PROVE T \in P
  <2>1. ASSUME NEW x \in T PROVE g[T] = f[x] + g[T \ {x}]
    <3>1. PICK y : y = First(T)
      OBVIOUS
    <3>2. y \in T /\ g[T] = f[y] + g[T \ {y}]
      BY <2>1, <3>1, FirstInSet DEF IsSum
    <3>3. CASE x = y
      BY <3>2, <3>3
    <3>4. CASE x # y
      <4>1. PICK W : W = (T \ {x}) \ {y}
        OBVIOUS
      <4>2. W = (T \ {y}) \ {x} /\ W \in SUBSET U /\ T \ {x} \in SUBSET U /\ T \ {y} \in SUBSET U
        BY <4>1
      <4>3. g[T \ {y}] = f[x] + g[W]
        BY <1>1, <3>2, <3>4, <4>2
      <4>4. g[T \ {x}] = f[y] + g[W]
        BY <1>1, <3>2, <3>4, <4>1
      <4>5. f[x] \in Int /\ f[y] \in Int /\ g[W] \in Int
        BY <3>2, <4>2 DEF IsSum
      <4> QED BY <3>2, <4>3, <4>4, <4>5
    <3> QED BY <3>3, <3>4
  <2> QED BY <2>1
<1>2. SUBSET U \subseteq P
  <2> HIDE DEF P
  <2> QED BY <1>1, SetInduction
<1> QED BY <1>2 DEF Removes

(* Two sums compare as their terms do.                                     *)
LEMMA SumMonotone ==
  ASSUME NEW U, IsFiniteSet(U), NEW e \in [U -> Int], NEW f \in [U -> Int],
         NEW g, NEW h, IsSum(g, e, U), IsSum(h, f, U)
  PROVE  \A T \in SUBSET U : (\A x \in T : e[x] <= f[x]) => g[T] <= h[T]
<1> DEFINE P == {T \in SUBSET U : (\A x \in T : e[x] <= f[x]) => g[T] <= h[T]}
<1>1. ASSUME NEW T \in SUBSET U, \A y \in T : T \ {y} \in P PROVE T \in P
  <2>1. CASE T = {}
    BY <2>1 DEF IsSum
  <2>2. CASE T # {}
    <3>1. PICK y : y = First(T)
      OBVIOUS
    <3>2. /\ y \in T /\ g[T] = e[y] + g[T \ {y}] /\ h[T] = f[y] + h[T \ {y}]
      BY <2>2, <3>1, FirstInSet DEF IsSum
    <3>3. /\ e[y] \in Int /\ f[y] \in Int /\ g[T \ {y}] \in Int /\ h[T \ {y}] \in Int
      BY <3>2 DEF IsSum
    <3> SUFFICES ASSUME \A x \in T : e[x] <= f[x] PROVE g[T] <= h[T]
      OBVIOUS
    <3>4. e[y] <= f[y] /\ g[T \ {y}] <= h[T \ {y}]
      BY <1>1, <3>2
    <3> QED BY <3>2, <3>3, <3>4
  <2> QED BY <2>1, <2>2
<1>2. SUBSET U \subseteq P
  <2> HIDE DEF P
  <2> QED BY <1>1, SetInduction
<1> QED BY <1>2

(* A term that changes changes the sum by as much.                         *)
LEMMA SumChanges ==
  ASSUME NEW U, IsFiniteSet(U), NEW e \in [U -> Int], NEW f \in [U -> Int],
         NEW g, NEW h, IsSum(g, e, U), IsSum(h, f, U),
         NEW x \in U, \A y \in U : y # x => f[y] = e[y]
  PROVE  h[U] = g[U] + (f[x] - e[x])
<1>1. PICK W : W = U \ {x}
  OBVIOUS
<1>2. W \in SUBSET U /\ \A y \in W : e[y] <= f[y] /\ f[y] <= e[y]
  BY <1>1
<1>3. g[W] <= h[W] /\ h[W] <= g[W]
  BY <1>2, SumMonotone
<1>4. g[U] = e[x] + g[W] /\ h[U] = f[x] + h[W]
  <2>1. Removes(g, e, U) /\ Removes(h, f, U)
    BY SumRemoves
  <2>2. U \in SUBSET U
    OBVIOUS
  <2> QED BY <1>1, <2>1, <2>2 DEF Removes
<1>5. g[W] \in Int /\ h[W] \in Int /\ e[x] \in Int /\ f[x] \in Int
  BY <1>2 DEF IsSum
<1> QED BY <1>3, <1>4, <1>5

(* The sum of the sums is the sum of the terms' sums.                      *)
TermsAdd(d, e, f, U) == \A x \in U : f[x] = d[x] + e[x]

SumIsSum(g, h, i, U) == i[U] = g[U] + h[U]

LEMMA SumAdds ==
  ASSUME NEW U, IsFiniteSet(U), NEW d \in [U -> Int], NEW e \in [U -> Int], NEW f \in [U -> Int],
         NEW g, NEW h, NEW i, IsSum(g, d, U), IsSum(h, e, U), IsSum(i, f, U),
         TermsAdd(d, e, f, U)
  PROVE  SumIsSum(g, h, i, U)
<1> DEFINE P == {T \in SUBSET U : i[T] = g[T] + h[T]}
<1>1. ASSUME NEW T \in SUBSET U, \A y \in T : T \ {y} \in P PROVE T \in P
  <2>1. CASE T = {}
    BY <2>1 DEF IsSum
  <2>2. CASE T # {}
    <3>1. PICK y : y = First(T)
      OBVIOUS
    <3>2. /\ y \in T /\ g[T] = d[y] + g[T \ {y}] /\ h[T] = e[y] + h[T \ {y}]
          /\ i[T] = f[y] + i[T \ {y}]
      BY <2>2, <3>1, FirstInSet DEF IsSum
    <3>3. /\ d[y] \in Int /\ e[y] \in Int /\ f[y] = d[y] + e[y]
          /\ g[T \ {y}] \in Int /\ h[T \ {y}] \in Int
      BY <3>2 DEF IsSum, TermsAdd
    <3>4. i[T \ {y}] = g[T \ {y}] + h[T \ {y}]
      BY <1>1, <3>2
    <3>5. i[T] = g[T] + h[T]
      BY <3>2, <3>3, <3>4
    <3> QED BY <3>5
  <2> QED BY <2>1, <2>2
<1>2. SUBSET U \subseteq P
  <2> HIDE DEF P
  <2> QED BY <1>1, SetInduction
<1> QED BY <1>2 DEF SumIsSum

(* The fold of the community modules is such a sum.                        *)
Folds(g, f, U) ==
  g = [T \in SUBSET U |-> IF T = {} THEN 0 ELSE f[First(T)] + g[T \ {First(T)}]]

LEMMA FoldIsSum ==
  ASSUME NEW U, IsFiniteSet(U), NEW f \in [U -> Int]
  PROVE  /\ \E g : Folds(g, f, U)
         /\ \A g : Folds(g, f, U) => IsSum(g, f, U)
<1>1. \E g : Folds(g, f, U)
  <2>1. PICK g : IsSum(g, f, U)
    BY SumExists
  <2>2. Folds(g, f, U)
    BY <2>1 DEF IsSum, Folds
  <2> QED BY <2>2
<1>2. ASSUME NEW g, Folds(g, f, U)
      PROVE  IsSum(g, f, U)
  <2>1. /\ g[{}] = 0
        /\ \A T \in SUBSET U : T # {} => g[T] = f[First(T)] + g[T \ {First(T)}]
    BY <1>2 DEF Folds
  <2> DEFINE P == {T \in SUBSET U : g[T] \in Int}
  <2>2. ASSUME NEW T \in SUBSET U, \A x \in T : T \ {x} \in P PROVE T \in P
    <3>1. CASE T = {}
      BY <2>1, <3>1
    <3>2. CASE T # {}
      <4>1. First(T) \in T /\ g[T] = f[First(T)] + g[T \ {First(T)}]
        BY <2>1, <3>2, FirstInSet
      <4> QED BY <2>2, <4>1
    <3> QED BY <3>1, <3>2
  <2>3. SUBSET U \subseteq P
    <3> HIDE DEF P
    <3> QED BY <2>2, SetInduction
  <2>4. g \in [SUBSET U -> Int]
    BY <1>2, <2>3 DEF Folds
  <2> QED BY <2>1, <2>4 DEF IsSum
<1> QED BY <1>1, <1>2
=============================================================================
