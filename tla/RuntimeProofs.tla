--------------------------- MODULE RuntimeProofs ---------------------------
(***************************************************************************)
(* Proofs about the three parts of Runtime.  Speculation is lossless, for  *)
(* every tree the corpus may propose, every answer of the model and both   *)
(* translations of slots; the longest chain is a recursive function, whose *)
(* values DownwardExists and DownwardInduction reach.  A sweep of the      *)
(* control file is answered after its command, or excused.  And the        *)
(* placement pass leaves every row where the tables say; its invariant     *)
(* PlaceInv keeps count of every host slot: it is awaited by a layer to    *)
(* come, free, or the place of one cold row.                               *)
(***************************************************************************)
EXTENDS Runtime, PrefixLemmas

-----------------------------------------------------------------------------
(* Speculation: the windows of a sequence.                                 *)

LEMMA Sizes ==
  /\ D \in Nat \ {0} /\ Interval \in Nat \ {0}
  /\ 0 \in Tokens /\ Wrong \notin Tokens /\ Prompt \in Seq(Tokens)
  /\ Own # Saved /\ Phys \in [{Own, Saved} -> {Own, Saved}]
  /\ Phys[Own] # Phys[Saved]
<1>1. Phys \in [{Own, Saved} -> {Own, Saved}] /\ Own # Saved
  BY TableAssumption DEF Ngram!TableOK
<1>2. Phys[Own] # Phys[Saved]
  BY <1>1, TableAssumption DEF Ngram!TableOK, Ngram!IsInjective
<1> QED BY <1>1, <1>2, TableAssumption DEF Ngram!TableOK

LEMMA MaxOfTwo ==
  ASSUME NEW x \in Int, NEW y \in Int
  PROVE  Ngram!Max({x, y}) = IF x >= y THEN x ELSE y
<1> DEFINE m == IF x >= y THEN x ELSE y
<1>1. m \in {x, y} /\ \A z \in {x, y} : m >= z
  OBVIOUS
<1>2. \A w \in {x, y} : (\A z \in {x, y} : w >= z) => w = m
  OBVIOUS
<1> QED BY <1>1, <1>2 DEF Ngram!Max

(* The last n elements, or all there are.                                  *)
LastLen(len, n) == IF len < n THEN len ELSE n

LEMMA LastOfFacts ==
  ASSUME NEW V, NEW s \in Seq(V), NEW n \in Nat \ {0}
  PROVE  /\ Ngram!LastOf(s, n) \in Seq(V)
         /\ Len(Ngram!LastOf(s, n)) = LastLen(Len(s), n)
         /\ \A i \in 1 .. LastLen(Len(s), n) :
              Ngram!LastOf(s, n)[i] = s[Len(s) - LastLen(Len(s), n) + i]
<1> DEFINE a == Ngram!Max({1, Len(s) - n + 1})
           w == SubSeq(s, a, Len(s))
<1>1. Len(s) \in Nat /\ LastLen(Len(s), n) \in 0 .. Len(s)
  BY DEF LastLen
<1>2. a = Len(s) - LastLen(Len(s), n) + 1 /\ a \in 1 .. Len(s) + 1
  <2>1. a = IF 1 >= Len(s) - n + 1 THEN 1 ELSE Len(s) - n + 1
    <3>1. 1 \in Int /\ Len(s) - n + 1 \in Int
      BY <1>1
    <3> QED BY <3>1, MaxOfTwo
  <2> HIDE DEF a, w
  <2>2. CASE Len(s) < n
    BY <1>1, <2>1, <2>2 DEF LastLen
  <2>3. CASE ~(Len(s) < n)
    BY <1>1, <2>1, <2>3 DEF LastLen
  <2> QED BY <2>2, <2>3
<1> HIDE DEF a
<1>3. /\ w \in Seq(V) /\ Len(w) = Len(s) - a + 1
      /\ \A i \in 1 .. Len(s) - a + 1 : w[i] = s[a + i - 1]
  <2>1. a \in 1 .. Len(s) + 1 /\ Len(s) \in Nat
    BY <1>1, <1>2
  <2> QED BY <2>1, SubSeqProperties
<1>4. Ngram!LastOf(s, n) = w
  BY DEF a, Ngram!LastOf
<1> DEFINE m == LastLen(Len(s), n)
<1>5. Len(s) - a + 1 = m /\ \A i \in 1 .. m : a + i - 1 = Len(s) - m + i
  <2> HIDE DEF m
  <2> QED BY <1>2, <1>1 DEF m
<1> HIDE DEF w, m
<1>6. w \in Seq(V) /\ Len(w) = m /\ \A i \in 1 .. m : w[i] = s[Len(s) - m + i]
  BY <1>3, <1>5
<1> QED BY <1>4, <1>6 DEF m

LEMMA LastOfSlides ==
  ASSUME NEW V, NEW s \in Seq(V), NEW t \in Seq(V), NEW n \in Nat \ {0}
  PROVE  Ngram!LastOf(Ngram!LastOf(s, n) \o t, n) = Ngram!LastOf(s \o t, n)
<1>1. PICK m : m = LastLen(Len(s), n)
  OBVIOUS
<1>2. PICK k : k = LastLen(Len(s) + Len(t), n)
  OBVIOUS
<1>3. PICK p : p = Len(s)
  OBVIOUS
<1>4. PICK q : q = Len(t)
  OBVIOUS
<1>5. p = Len(s) /\ q = Len(t) /\ p \in Nat /\ q \in Nat
  BY <1>3, <1>4
<1>6. m \in 0 .. p /\ k \in 0 .. m + q /\ LastLen(m + q, n) = k /\ LastLen(p + q, n) = k
  BY <1>1, <1>2, <1>5 DEF LastLen
<1>7. PICK w : w = Ngram!LastOf(s, n)
  OBVIOUS
<1>8. /\ w \in Seq(V) /\ Len(w) = m
      /\ \A i \in 1 .. m : w[i] = s[p - m + i]
  BY <1>1, <1>5, <1>7, LastOfFacts
<1>9. PICK u : u = w \o t
  OBVIOUS
<1>10. /\ u \in Seq(V) /\ Len(u) = m + q
      /\ \A i \in 1 .. m + q : u[i] = IF i <= m THEN w[i] ELSE t[i - m]
  BY <1>5, <1>8, <1>9, ConcatProperties
<1>11. PICK v : v = s \o t
  OBVIOUS
<1>12. /\ v \in Seq(V) /\ Len(v) = p + q
      /\ \A i \in 1 .. p + q : v[i] = IF i <= p THEN s[i] ELSE t[i - p]
  BY <1>5, <1>11, ConcatProperties
<1>13. PICK x : x = Ngram!LastOf(u, n)
  OBVIOUS
<1>14. /\ x \in Seq(V) /\ Len(x) = k
      /\ \A i \in 1 .. k : x[i] = u[m + q - k + i]
  <2>1. /\ x \in Seq(V) /\ Len(x) = LastLen(Len(u), n)
        /\ \A i \in 1 .. LastLen(Len(u), n) : x[i] = u[Len(u) - LastLen(Len(u), n) + i]
    BY <1>10, <1>13, LastOfFacts
  <2>2. LastLen(Len(u), n) = k /\ Len(u) = m + q
    BY <1>6, <1>10
  <2>3. PICK z : z = m + q - k
    OBVIOUS
  <2>4. z \in Int /\ Len(u) - LastLen(Len(u), n) = z
    BY <1>5, <1>6, <2>2, <2>3
  <2>5. \A i \in 1 .. k : x[i] = u[z + i]
    BY <2>1, <2>2, <2>4
  <2> QED BY <2>1, <2>2, <2>3, <2>5
<1>15. PICK y : y = Ngram!LastOf(v, n)
  OBVIOUS
<1>16. /\ y \in Seq(V) /\ Len(y) = k
      /\ \A i \in 1 .. k : y[i] = v[p + q - k + i]
  <2>1. /\ y \in Seq(V) /\ Len(y) = LastLen(Len(v), n)
        /\ \A i \in 1 .. LastLen(Len(v), n) : y[i] = v[Len(v) - LastLen(Len(v), n) + i]
    BY <1>12, <1>15, LastOfFacts
  <2>2. LastLen(Len(v), n) = k /\ Len(v) = p + q
    BY <1>6, <1>12
  <2>3. PICK z : z = p + q - k
    OBVIOUS
  <2>4. z \in Int /\ Len(v) - LastLen(Len(v), n) = z
    BY <1>5, <1>6, <2>2, <2>3
  <2>5. \A i \in 1 .. k : y[i] = v[z + i]
    BY <2>1, <2>2, <2>4
  <2> QED BY <2>1, <2>2, <2>3, <2>5
<1>17. ASSUME NEW i \in 1 .. k PROVE x[i] = y[i]
  <2>1. PICK a, b : a = m + q - k + i /\ b = p + q - k + i
    OBVIOUS
  <2>2. a \in 1 .. m + q /\ b \in 1 .. p + q /\ b = p - m + a
    BY <1>5, <1>6, <2>1
  <2>3. x[i] = u[a] /\ y[i] = v[b]
    BY <1>13, <1>14, <1>15, <1>16, <2>1
  <2>4. CASE a <= m
    <3>1. x[i] = w[a] /\ w[a] = s[b]
      BY <1>6, <1>7, <1>8, <1>9, <1>10, <2>2, <2>3, <2>4
    <3>2. b <= p
      BY <1>5, <1>6, <2>2, <2>4
    <3> QED BY <1>11, <1>12, <2>2, <2>3, <3>1, <3>2
  <2>5. CASE ~(a <= m)
    <3>1. ~(b <= p) /\ b - p = a - m
      BY <1>5, <1>6, <2>2, <2>5
    <3> QED BY <1>9, <1>10, <1>11, <1>12, <2>2, <2>3, <2>5, <3>1
  <2> QED BY <2>4, <2>5
<1>18. x = y
  BY <1>13, <1>14, <1>15, <1>16, <1>17, SeqEqual
<1> QED BY <1>7, <1>8, <1>9, <1>10, <1>11, <1>12, <1>13, <1>14, <1>15, <1>16, <1>18

(* Appending to the windows of s gives the windows of the longer sequence: *)
(* the PLE states need nothing but themselves and the accepted rows.       *)
LEMMA WindowSlides ==
  ASSUME NEW V, NEW s \in Seq(V), NEW t \in Seq(V)
  PROVE  Ngram!Slide(Ngram!Window(s), t) = Ngram!Window(s \o t)
<1>1. Ngram!LastOf(Ngram!LastOf(s, 2) \o t, 2) = Ngram!LastOf(s \o t, 2)
  BY LastOfSlides
<1>2. Ngram!LastOf(Ngram!LastOf(s, 3) \o t, 3) = Ngram!LastOf(s \o t, 3)
  BY LastOfSlides
<1> QED BY <1>1, <1>2 DEF Ngram!Slide, Ngram!Window

-----------------------------------------------------------------------------
(* _linearize_chain.                                                       *)
Rows == Ngram!RowIds

LEMMA RowFacts == D - 1 \in Nat /\ Rows = 0 .. D - 1 /\ 0 \in Rows
BY Sizes DEF Rows, Ngram!RowIds

(* The first child of row i with the longest chain, and the longest chain  *)
(* from row i, given those from the rows after it.                         *)
Deepest(d, f, i) ==
  LET kids == Ngram!Children(d, i)
      depth == Ngram!Max({0} \cup {Len(f[k]) : k \in kids})
  IN  Ngram!Min({k \in kids : Len(f[k]) = depth})

ChainFrom(d, f, i) ==
  IF Ngram!Children(d, i) = {} THEN <<i>> ELSE <<i>> \o f[Deepest(d, f, i)]

(* A chain: rows, of which the first is i.                                 *)
ChainAt(c, i) == c \in Seq(Rows) /\ Len(c) > 0 /\ c[1] = i

LEMMA Alone ==
  ASSUME NEW i \in Rows
  PROVE  ChainAt(<<i>>, i)
BY DEF ChainAt

LEMMA Prepend ==
  ASSUME NEW i \in Rows, NEW c \in Seq(Rows)
  PROVE  ChainAt(<<i>> \o c, i)
<1>1. PICK e : e = <<i>>
  OBVIOUS
<1>2. e \in Seq(Rows) /\ Len(e) = 1 /\ e[1] = i /\ Len(c) \in Nat
  BY <1>1
<1>3. /\ e \o c \in Seq(Rows) /\ Len(e \o c) = Len(e) + Len(c)
      /\ \A j \in 1 .. Len(e) + Len(c) :
           (e \o c)[j] = IF j <= Len(e) THEN e[j] ELSE c[j - Len(e)]
  BY <1>2, ConcatProperties
<1>4. (e \o c)[1] = i /\ Len(e \o c) > 0
  <2>1. 1 \in 1 .. Len(e) + Len(c) /\ 1 <= Len(e)
    BY <1>2
  <2> QED BY <1>2, <1>3, <2>1
<1> QED BY <1>1, <1>3, <1>4 DEF ChainAt

LEMMA ChildrenAfter ==
  ASSUME NEW d, NEW i \in Rows
  PROVE  Ngram!Children(d, i) \subseteq {k \in Rows : i < k}
BY RowFacts DEF Ngram!Children, Ngram!IsChild, Rows, Ngram!RowIds

(* There is a longest chain among those of the children.                   *)
LEMMA DeepestIsChild ==
  ASSUME NEW d, NEW f, NEW i \in Rows, Ngram!Children(d, i) # {},
         \A k \in Rows : i < k => f[k] \in Seq(Rows)
  PROVE  Deepest(d, f, i) \in Ngram!Children(d, i)
<1> DEFINE kids == Ngram!Children(d, i)
           depth == Ngram!Max({0} \cup {Len(f[k]) : k \in kids})
           best == {k \in kids : Len(f[k]) = depth}
<1>1. kids \subseteq Rows /\ \A k \in kids : i < k
  BY ChildrenAfter
<1>2. Ngram!Min(best) \in kids
  <2>1. \A k \in kids : Len(f[k]) \in Nat
    BY <1>1
  <2> DEFINE lens == {0} \cup {Len(f[k]) : k \in kids}
             h == [k \in Rows |-> IF k \in kids THEN Len(f[k]) ELSE 0]
  <2>2. PICK b \in Nat : \A k \in Rows : h[k] <= b
    <3>1. h \in [0 .. D - 1 -> Nat] /\ D - 1 \in Nat
      BY <1>1, <2>1, RowFacts
    <3> HIDE DEF h
    <3> QED BY <3>1, BoundExists, RowFacts
  <2>3. \A k \in kids : Len(f[k]) <= b
    BY <1>1, <2>2
  <2>4. lens \subseteq 0 .. b /\ lens # {}
    BY <2>1, <2>3
  <2>5. depth \in lens /\ \A x \in lens : depth >= x
    <3> HIDE DEF lens
    <3>1. \E x \in lens : \A y \in lens : x >= y
      <4>1. PICK x \in lens : \A y \in lens : y <= x
        BY <2>4, GreatestExists
      <4> QED BY <2>4, <4>1
    <3> QED BY <3>1 DEF Ngram!Max, lens
  <2>6. best # {}
    <3>1. CASE depth = 0
      <4>1. PICK k \in kids : TRUE
        OBVIOUS
      <4>2. Len(f[k]) \in lens /\ Len(f[k]) \in Nat
        BY <2>1
      <4>3. Len(f[k]) = 0
        <5> HIDE DEF lens, depth
        <5> QED BY <2>5, <3>1, <4>2
      <4> QED BY <3>1, <4>3
    <3>2. CASE depth # 0
      <4>1. depth \in {Len(f[k]) : k \in kids}
        BY <2>5, <3>2
      <4> QED BY <4>1
    <3> QED BY <3>1, <3>2
  <2>7. Ngram!Min(best) \in best
    <3>1. best \subseteq Nat
      BY <1>1, RowFacts
    <3>2. \E x \in best : \A y \in best : x <= y
      <4> HIDE DEF best
      <4> QED BY <2>6, <3>1, LeastExists
    <3> HIDE DEF best
    <3> QED BY <3>2 DEF Ngram!Min
  <2> QED BY <2>7
<1>3. Deepest(d, f, i) = Ngram!Min(best)
  BY DEF Deepest
<1> QED BY <1>2, <1>3

LEMMA ChainOfChild ==
  ASSUME NEW d, NEW f, NEW i \in Rows,
         \A k \in Rows : i < k => f[k] \in Seq(Rows)
  PROVE  ChainAt(ChainFrom(d, f, i), i)
<1>1. CASE Ngram!Children(d, i) = {}
  BY <1>1, Alone DEF ChainFrom
<1>2. CASE Ngram!Children(d, i) # {}
  <2>1. f[Deepest(d, f, i)] \in Seq(Rows)
    BY <1>2, DeepestIsChild, ChildrenAfter
  <2> QED BY <1>2, <2>1, Prepend DEF ChainFrom
<1> QED BY <1>1, <1>2

LEMMA LongestExists ==
  ASSUME NEW d
  PROVE  \E f : f = [i \in Rows |-> ChainFrom(d, f, i)]
<1> DEFINE V == Seq(Rows)
           step == [i \in 0 .. D - 1 |-> [f \in [0 .. D - 1 -> V] |-> ChainFrom(d, f, i)]]
<1>1. ASSUME NEW f \in [0 .. D - 1 -> V], NEW i \in 0 .. D - 1 PROVE ChainFrom(d, f, i) \in V
  BY RowFacts, ChainOfChild DEF ChainAt
<1>2. step \in [0 .. D - 1 -> [[0 .. D - 1 -> V] -> V]]
  BY <1>1
<1>3. ASSUME NEW i \in 0 .. D - 1, NEW f \in [0 .. D - 1 -> V], NEW g \in [0 .. D - 1 -> V],
             \A k \in 0 .. D - 1 : i < k => f[k] = g[k]
      PROVE  step[i][f] = step[i][g]
  <2> DEFINE kids == Ngram!Children(d, i)
  <2>1. \A k \in kids : f[k] = g[k]
    BY <1>3, ChildrenAfter, RowFacts
  <2>2. Deepest(d, f, i) = Deepest(d, g, i)
    <3>1. {Len(f[k]) : k \in kids} = {Len(g[k]) : k \in kids}
      BY <2>1
    <3>2. PICK depth : depth = Ngram!Max({0} \cup {Len(f[k]) : k \in kids})
      OBVIOUS
    <3>3. {k \in kids : Len(f[k]) = depth} = {k \in kids : Len(g[k]) = depth}
      BY <2>1
    <3> QED BY <3>1, <3>2, <3>3 DEF Deepest
  <2>3. kids # {} => Deepest(d, f, i) \in kids
    BY DeepestIsChild, RowFacts
  <2>4. ChainFrom(d, f, i) = ChainFrom(d, g, i)
    BY <2>1, <2>2, <2>3 DEF ChainFrom
  <2> QED BY <2>4
<1>4. PICK f \in [0 .. D - 1 -> V] : \A i \in 0 .. D - 1 : f[i] = step[i][f]
  <2>1. <<>> \in V
    OBVIOUS
  <2>2. PICK n : n = D - 1
    OBVIOUS
  <2> HIDE DEF step, V
  <2>3. n \in Nat /\ V # {}
    BY <2>1, <2>2, RowFacts
  <2>4. LooksAbove(step, n, V)
    <3>1. step \in [0 .. n -> [[0 .. n -> V] -> V]]
      BY <1>2, <2>2
    <3>2. ASSUME NEW i \in 0 .. n, NEW h \in [0 .. n -> V], NEW g \in [0 .. n -> V],
                 \A k \in 0 .. n : i < k => h[k] = g[k]
          PROVE  step[i][h] = step[i][g]
      BY <1>3, <2>2, <3>2
    <3> QED BY <3>1, <3>2 DEF LooksAbove
  <2>5. PICK h : Descends(h, n, V, step)
    BY <2>3, <2>4, DownwardExists
  <2> QED BY <2>2, <2>5 DEF Descends
<1>5. \A i \in 0 .. D - 1 : f[i] = ChainFrom(d, f, i)
  BY <1>4
<1>6. f = [i \in Rows |-> ChainFrom(d, f, i)]
  BY <1>4, <1>5, RowFacts
<1> QED BY <1>6

(* _linearize_chain keeps the root row, whatever tree it is given.         *)
LEMMA LongestFromRoot ==
  ASSUME NEW d
  PROVE  ChainAt(Ngram!Longest(d), 0)
<1>1. PICK f : f = CHOOSE g : g = [i \in Rows |-> ChainFrom(d, g, i)]
  OBVIOUS
<1>2. f = [i \in Rows |-> ChainFrom(d, f, i)]
  BY <1>1, LongestExists
<1>3. Ngram!Longest(d) = f[0]
  BY <1>1 DEF Ngram!Longest, ChainFrom, Deepest, Rows
<1> DEFINE T == {i \in Rows : ChainAt(f[i], i)}
<1>4. ASSUME NEW i \in 0 .. D - 1, \A k \in 0 .. D - 1 : i < k => k \in T
      PROVE  i \in T
  <2>1. f[i] = ChainFrom(d, f, i)
    BY <1>2, RowFacts
  <2>2. \A k \in Rows : i < k => f[k] \in Seq(Rows)
    BY <1>4, RowFacts DEF ChainAt
  <2> QED BY <2>1, <2>2, RowFacts, ChainOfChild
<1>5. 0 .. D - 1 \subseteq T
  <2> HIDE DEF T
  <2> QED BY <1>4, DownwardInduction, RowFacts
<1> QED BY <1>3, <1>5, RowFacts

(* What _linearize_chain hands to the verify forward: a triangular mask,   *)
(* and the last token in the root row.                                     *)
IsChain(c) ==
  /\ c.mask = [i \in Rows |-> 0 .. i]
  /\ c.tok \in [Rows -> Tokens] /\ c.tok[0] = toks[Len(toks)]

LEMMA Linearized ==
  ASSUME NEW t \in Ngram!Trees, toks \in Seq(Tokens), Len(toks) > 0
  PROVE  IsChain(Ngram!LinearizeChain(Ngram!FromCorpus(t)))
<1>1. PICK d : d = Ngram!FromCorpus(t)
  OBVIOUS
<1>2. PICK best : best = Ngram!Longest(d)
  OBVIOUS
<1>3. best \in Seq(Rows) /\ Len(best) \in Nat \ {0} /\ best[1] = 0
  BY <1>2, LongestFromRoot DEF ChainAt
<1>4. d.tok \in [Rows -> Tokens] /\ d.tok[0] = toks[Len(toks)]
  <2>1. d.tok = [i \in Rows |-> IF i = 0 THEN toks[Len(toks)] ELSE t.tok[i]]
    BY <1>1 DEF Ngram!FromCorpus, Ngram!Last, Rows
  <2>2. t.tok \in [1 .. D - 1 -> Tokens]
    BY DEF Ngram!Trees
  <2>3. toks[Len(toks)] \in Tokens
    OBVIOUS
  <2>4. \A i \in Rows : i # 0 => i \in 1 .. D - 1
    BY RowFacts
  <2> QED BY <2>1, <2>2, <2>3, <2>4, RowFacts
<1>5. PICK c : c = Ngram!LinearizeChain(d)
  OBVIOUS
<1>6. c = [tok |-> [i \in Rows |-> IF i < Len(best) /\ (i = 0 \/ ~reject)
                                   THEN d.tok[best[i + 1]] ELSE 0],
           mask |-> [i \in Rows |-> 0 .. i]]
  BY <1>2, <1>5 DEF Ngram!LinearizeChain, Rows
<1>7. \A i \in Rows : i < Len(best) => d.tok[best[i + 1]] \in Tokens
  <2> SUFFICES ASSUME NEW i \in Rows, i < Len(best) PROVE best[i + 1] \in Rows
    BY <1>4
  <2>1. i + 1 \in 1 .. Len(best)
    BY <1>3, RowFacts
  <2> QED BY <1>3, <2>1
<1>8. c.tok \in [Rows -> Tokens]
  BY <1>6, <1>7, Sizes
<1>9. c.tok[0] = d.tok[0]
  <2>1. 0 < Len(best) /\ best[0 + 1] = 0
    BY <1>3
  <2> QED BY <1>6, <2>1, RowFacts
<1> QED BY <1>1, <1>4, <1>5, <1>6, <1>8, <1>9 DEF IsChain

-----------------------------------------------------------------------------
(* The verify and the greedy walk over a chain.                            *)

LEMMA ChainChildren ==
  ASSUME IsChain(draft), NEW i \in Rows
  PROVE  Ngram!Children(draft, i) = {k \in Rows : k = i + 1}
<1>1. ASSUME NEW k \in Rows, k > i PROVE Ngram!Max(draft.mask[k] \ {k}) = k - 1
  <2>1. draft.mask[k] = 0 .. k
    BY DEF IsChain
  <2>2. k - 1 \in (0 .. k) \ {k} /\ \A x \in (0 .. k) \ {k} : k - 1 >= x
    BY <1>1, RowFacts
  <2>3. \A y \in (0 .. k) \ {k} : (\A x \in (0 .. k) \ {k} : y >= x) => y = k - 1
    BY <2>2, RowFacts
  <2> QED BY <2>1, <2>2, <2>3 DEF Ngram!Max
<1>2. \A k \in Rows : Ngram!IsChild(draft, k, i) <=> k = i + 1
  <2> TAKE k \in Rows
  <2>1. k > i => (k - 1 = i <=> k = i + 1)
    BY RowFacts
  <2>2. k = i + 1 => k > i
    BY RowFacts
  <2> QED BY <1>1, <2>1, <2>2 DEF Ngram!IsChild
<1> QED BY <1>2 DEF Ngram!Children, Rows

LEMMA SameCardinality ==
  \A S : Ngram!Cardinality(S) = Cardinality(S)
BY DEF Ngram!Cardinality, Cardinality

LEMMA NthInterval ==
  ASSUME NEW j \in Nat, NEW i \in 1 .. j + 1
  PROVE  Ngram!Nth(0 .. j, i) = i - 1
<1>1. ASSUME NEW r \in 0 .. j PROVE Cardinality({q \in 0 .. j : q < r}) = r
  <2>1. {q \in 0 .. j : q < r} = 0 .. r - 1
    OBVIOUS
  <2>2. Cardinality(0 .. r - 1) = r
    BY FS_Interval
  <2> QED BY <2>1, <2>2
<1>2. i - 1 \in 0 .. j
  OBVIOUS
<1> DEFINE P(r) == Cardinality({q \in 0 .. j : q < r}) = i - 1
<1>3. P(i - 1) /\ \A r \in 0 .. j : P(r) => r = i - 1
  BY <1>1, <1>2
<1>4. Ngram!Nth(0 .. j, i) = CHOOSE r \in 0 .. j : P(r)
  BY SameCardinality DEF Ngram!Nth
<1> HIDE DEF P
<1> QED BY <1>2, <1>3, <1>4

(* On a chain the rows a layer without a mask sees are those of the mask.  *)
LEMMA PathIsPrefix ==
  ASSUME IsChain(draft), NEW j \in Rows
  PROVE  Ngram!Path(j) = Ngram!UpTo(j) /\ Ngram!UpTo(j) \in Seq(Tokens)
<1>1. j \in Nat /\ draft.mask[j] = 0 .. j
  BY RowFacts DEF IsChain
<1>2. Cardinality(0 .. j) = j + 1
  <2>1. 0 \in Int /\ j \in Int /\ ~(0 > j) /\ j - 0 + 1 = j + 1
    BY <1>1
  <2>2. Cardinality(0 .. j) = IF 0 > j THEN 0 ELSE j - 0 + 1
    BY <2>1, FS_Interval
  <2> QED BY <2>1, <2>2
<1>3. \A i \in 1 .. j + 1 : Ngram!Nth(draft.mask[j], i) = i - 1
  BY <1>1, NthInterval
<1>4. Ngram!Path(j) = [i \in 1 .. j + 1 |-> draft.tok[i - 1]]
  <2>1. Ngram!Path(j) = [i \in 1 .. j + 1 |-> draft.tok[Ngram!Nth(draft.mask[j], i)]]
    BY <1>1, <1>2, SameCardinality DEF Ngram!Path
  <2> QED BY <1>3, <2>1
<1>5. PICK n \in Nat : n = j + 1
  BY <1>1
<1>6. \A i \in 1 .. n : draft.tok[i - 1] \in Tokens
  <2>1. \A i \in 1 .. n : i - 1 \in Rows
    BY <1>1, <1>5, RowFacts
  <2> QED BY <2>1 DEF IsChain
<1>7. [i \in 1 .. n |-> draft.tok[i - 1]] \in Seq(Tokens)
  BY <1>6
<1> QED BY <1>4, <1>5, <1>7 DEF Ngram!UpTo

(* The greedy walk from row i, given those from the rows after it.         *)
WalkFrom(f, i) ==
  IF Ngram!Right(i) = {} THEN <<i>> ELSE <<i>> \o f[Ngram!Min(Ngram!Right(i))]

LEMMA RightIsNext ==
  ASSUME IsChain(draft), NEW i \in Rows
  PROVE  /\ Ngram!Right(i) = {k \in Rows : k = i + 1 /\ draft.tok[k] = target[i]}
         /\ Ngram!Right(i) # {} =>
              /\ i + 1 \in Rows /\ draft.tok[i + 1] = target[i]
              /\ Ngram!Min(Ngram!Right(i)) = i + 1
<1>1. Ngram!Right(i) = {k \in Rows : k = i + 1 /\ draft.tok[k] = target[i]}
  BY ChainChildren DEF Ngram!Right
<1>2. ASSUME Ngram!Right(i) # {} PROVE Ngram!Right(i) = {i + 1}
  BY <1>1, <1>2
<1>3. i + 1 \in Nat
  BY RowFacts
<1>4. Ngram!Min({i + 1}) = i + 1
  BY <1>3 DEF Ngram!Min
<1> QED BY <1>1, <1>2, <1>4

(* A walk from row i: consecutive rows, each the last but one followed by  *)
(* what the target says after it.                                          *)
IsWalk(c, i) ==
  /\ c \in Seq(Rows) /\ Len(c) \in 1 .. D - i
  /\ \A j \in 1 .. Len(c) : c[j] = i + j - 1
  /\ \A j \in 1 .. Len(c) - 1 : draft.tok[i + j] = target[i + j - 1]

LEMMA WalkOn ==
  ASSUME IsChain(draft), NEW i \in Rows, NEW f,
         \A k \in Rows : i < k => IsWalk(f[k], k)
  PROVE  IsWalk(WalkFrom(f, i), i)
<1>1. PICK e : e = <<i>>
  OBVIOUS
<1>2. e \in Seq(Rows) /\ Len(e) = 1 /\ e[1] = i /\ i \in Nat /\ i <= D - 1 /\ D \in Nat
  <2>1. e \in Seq(Rows) /\ Len(e) = 1 /\ e[1] = i
    BY <1>1
  <2>2. i \in Nat /\ i <= D - 1 /\ D \in Nat
    BY RowFacts, Sizes
  <2> QED BY <2>1, <2>2
<1>3. CASE Ngram!Right(i) = {}
  <2>1. WalkFrom(f, i) = e
    BY <1>1, <1>3 DEF WalkFrom
  <2>2. Len(e) \in 1 .. D - i /\ \A j \in 1 .. Len(e) : e[j] = i + j - 1
    BY <1>2
  <2>3. \A j \in 1 .. Len(e) - 1 : FALSE
    BY <1>2
  <2> QED BY <1>2, <2>1, <2>2, <2>3 DEF IsWalk
<1>4. CASE Ngram!Right(i) # {}
  <2>1. i + 1 \in Rows /\ draft.tok[i + 1] = target[i] /\ Ngram!Min(Ngram!Right(i)) = i + 1
    BY <1>4, RightIsNext
  <2>2. PICK c : c = f[i + 1]
    OBVIOUS
  <2>3. IsWalk(c, i + 1)
    BY <1>2, <2>1, <2>2
  <2>4. PICK n : n = Len(c)
    OBVIOUS
  <2>5. c \in Seq(Rows) /\ n = Len(c) /\ n \in 1 .. D - (i + 1)
    BY <2>3, <2>4 DEF IsWalk
  <2>6. PICK w : w = e \o c
    OBVIOUS
  <2>7. WalkFrom(f, i) = w
    BY <1>1, <1>4, <2>1, <2>2, <2>6 DEF WalkFrom
  <2>8. /\ w \in Seq(Rows) /\ Len(w) = Len(e) + Len(c)
        /\ \A j \in 1 .. Len(e) + Len(c) : w[j] = IF j <= Len(e) THEN e[j] ELSE c[j - Len(e)]
    BY <1>2, <2>5, <2>6, ConcatProperties
  <2>9. Len(w) = n + 1 /\ Len(w) \in 1 .. D - i
    BY <1>2, <2>5, <2>8
  <2>10. ASSUME NEW j \in 1 .. n + 1 PROVE w[j] = IF j = 1 THEN i ELSE c[j - 1]
    BY <1>2, <2>5, <2>8
  <2>11. ASSUME NEW j \in 1 .. n PROVE c[j] = i + j
    <3>1. c[j] = i + 1 + j - 1
      BY <2>3, <2>5 DEF IsWalk
    <3> QED BY <1>2, <3>1
  <2>12. ASSUME NEW j \in 1 .. n + 1 PROVE w[j] = i + j - 1
    <3>1. j = 1 \/ j - 1 \in 1 .. n
      BY <2>5
    <3> QED BY <1>2, <2>10, <2>11, <3>1
  <2>13. ASSUME NEW j \in 1 .. n PROVE draft.tok[i + j] = target[i + j - 1]
    <3>1. CASE j = 1
      <4>1. i + j = i + 1 /\ i + j - 1 = i
        BY <1>2, <3>1
      <4> QED BY <2>1, <4>1
    <3>2. CASE j # 1
      <4>1. PICK h : h = j - 1
        OBVIOUS
      <4>2. h \in 1 .. n - 1 /\ i + 1 + h = i + j /\ i + 1 + h - 1 = i + j - 1
        BY <1>2, <2>5, <3>2, <4>1
      <4>3. draft.tok[i + 1 + h] = target[i + 1 + h - 1]
        BY <2>3, <2>5, <4>2 DEF IsWalk
      <4> QED BY <4>2, <4>3
    <3> QED BY <3>1, <3>2
  <2>14. \A j \in 1 .. Len(w) - 1 : j \in 1 .. n
    BY <2>5, <2>9
  <2> QED BY <2>7, <2>8, <2>9, <2>12, <2>13, <2>14 DEF IsWalk
<1> QED BY <1>3, <1>4

LEMMA WalkExists ==
  ASSUME IsChain(draft)
  PROVE  \E f : f = [i \in Rows |-> WalkFrom(f, i)]
<1> DEFINE V == Seq(Rows)
           step == [i \in 0 .. D - 1 |-> [f \in [0 .. D - 1 -> V] |-> WalkFrom(f, i)]]
<1>1. ASSUME NEW f \in [0 .. D - 1 -> V], NEW i \in 0 .. D - 1 PROVE WalkFrom(f, i) \in V
  <2>1. Ngram!Right(i) # {} => f[Ngram!Min(Ngram!Right(i))] \in V
    BY RightIsNext, RowFacts
  <2> QED BY <2>1, RowFacts, Alone, Prepend DEF WalkFrom, ChainAt
<1>2. step \in [0 .. D - 1 -> [[0 .. D - 1 -> V] -> V]]
  BY <1>1
<1>3. ASSUME NEW i \in 0 .. D - 1, NEW f \in [0 .. D - 1 -> V], NEW g \in [0 .. D - 1 -> V],
             \A k \in 0 .. D - 1 : i < k => f[k] = g[k]
      PROVE  step[i][f] = step[i][g]
  <2>1. Ngram!Right(i) # {} => f[Ngram!Min(Ngram!Right(i))] = g[Ngram!Min(Ngram!Right(i))]
    <3>1. i + 1 \in Rows => f[i + 1] = g[i + 1]
      BY <1>3, RowFacts
    <3> QED BY <3>1, RightIsNext, RowFacts
  <2>2. WalkFrom(f, i) = WalkFrom(g, i)
    BY <2>1 DEF WalkFrom
  <2> QED BY <2>2
<1>4. PICK f \in [0 .. D - 1 -> V] : \A i \in 0 .. D - 1 : f[i] = step[i][f]
  <2>1. <<>> \in V
    OBVIOUS
  <2>2. PICK n : n = D - 1
    OBVIOUS
  <2> HIDE DEF step, V
  <2>3. n \in Nat /\ V # {}
    BY <2>1, <2>2, RowFacts
  <2>4. LooksAbove(step, n, V)
    <3>1. step \in [0 .. n -> [[0 .. n -> V] -> V]]
      BY <1>2, <2>2
    <3>2. ASSUME NEW i \in 0 .. n, NEW h \in [0 .. n -> V], NEW g \in [0 .. n -> V],
                 \A k \in 0 .. n : i < k => h[k] = g[k]
          PROVE  step[i][h] = step[i][g]
      BY <1>3, <2>2, <3>2
    <3> QED BY <3>1, <3>2 DEF LooksAbove
  <2>5. PICK h : Descends(h, n, V, step)
    BY <2>3, <2>4, DownwardExists
  <2> QED BY <2>2, <2>5 DEF Descends
<1>5. \A i \in 0 .. D - 1 : f[i] = WalkFrom(f, i)
  BY <1>4
<1>6. f = [i \in Rows |-> WalkFrom(f, i)]
  BY <1>4, <1>5, RowFacts
<1> QED BY <1>6

(* What a verify accepts of a chain is a prefix of its rows.               *)
LEMMA AcceptedIsWalk ==
  ASSUME IsChain(draft)
  PROVE  IsWalk(Ngram!Accepted, 0)
<1>1. PICK f : f = CHOOSE g : g = [i \in Rows |-> WalkFrom(g, i)]
  OBVIOUS
<1>2. f = [i \in Rows |-> WalkFrom(f, i)]
  BY <1>1, WalkExists
<1>3. Ngram!Accepted = f[0]
  BY <1>1 DEF Ngram!Accepted, WalkFrom, Rows
<1> DEFINE T == {i \in Rows : IsWalk(f[i], i)}
<1>4. ASSUME NEW i \in 0 .. D - 1, \A k \in 0 .. D - 1 : i < k => k \in T
      PROVE  i \in T
  <2>1. f[i] = WalkFrom(f, i)
    BY <1>2, RowFacts
  <2>2. \A k \in Rows : i < k => IsWalk(f[k], k)
    BY <1>4, RowFacts
  <2> QED BY <2>1, <2>2, RowFacts, WalkOn
<1>5. 0 .. D - 1 \subseteq T
  <2> HIDE DEF T
  <2> QED BY <1>4, DownwardInduction, RowFacts
<1> QED BY <1>3, <1>5, RowFacts

-----------------------------------------------------------------------------
(* The inductive invariant of speculation.                                 *)

Prefix(s, n) == s \in Seq(Tokens) /\ Len(s) = n /\ \A i \in 1 .. n : s[i] = toks[i]

(* KV cache and GDN state stand after all tokens but the last, the         *)
(* checkpoint after the first tokens, and either slot's windows are those  *)
(* of its GDN state; drafts are chains; a verify that was passed had all   *)
(* its intermediates and saw the states of the sequence in every row.      *)
NgramInv ==
  /\ toks \in Seq(Tokens) /\ Len(toks) > 0
  /\ kv = Ngram!Done
  /\ gdn \in [{Own, Saved} -> Seq(Tokens)] /\ gdn[Phys[Own]] = Ngram!Done
  /\ ple = [p \in {Own, Saved} |-> Ngram!Window(gdn[p])]
  /\ saved \in 0 .. Len(toks) - 1
  /\ saved > 0 => Prefix(gdn[Phys[Saved]], saved)
  /\ allocated \subseteq {"ngram", "conv"}
  /\ pc \in {"verify", "commit"} => IsChain(draft)
  /\ pc = "commit" => target \in [Rows -> Tokens] /\ allocated = {"ngram", "conv"}

(* What holds all elements of t but the last is one sequence.              *)
LEMMA AllButLast ==
  ASSUME NEW t \in Seq(Tokens), Len(t) > 0
  PROVE  /\ SubSeq(t, 1, Len(t) - 1) \in Seq(Tokens)
         /\ Len(SubSeq(t, 1, Len(t) - 1)) = Len(t) - 1
         /\ \A i \in 1 .. Len(t) - 1 : SubSeq(t, 1, Len(t) - 1)[i] = t[i]
         /\ \A s \in Seq(Tokens) :
              Len(s) = Len(t) - 1 /\ (\A i \in 1 .. Len(t) - 1 : s[i] = t[i])
                => s = SubSeq(t, 1, Len(t) - 1)
<1>1. PICK n : n = Len(t) - 1
  OBVIOUS
<1>2. n \in Nat /\ \A i \in 1 .. n : t[i] \in Tokens
  BY <1>1
<1>3. PICK d : d = SubSeq(t, 1, n)
  OBVIOUS
<1>4. /\ d \in Seq(Tokens) /\ Len(d) = IF 1 <= n THEN n - 1 + 1 ELSE 0
      /\ \A i \in 1 .. n - 1 + 1 : d[i] = t[1 + i - 1]
  BY <1>2, <1>3, SubSeqProperties
<1>5. Len(d) = n
  BY <1>2, <1>4
<1>6. \A i \in 1 .. n : d[i] = t[i]
  BY <1>2, <1>4
<1>7. ASSUME NEW s \in Seq(Tokens), Len(s) = n, \A i \in 1 .. n : s[i] = t[i]
      PROVE  s = d
  BY <1>4, <1>5, <1>6, <1>7, SeqEqual
<1> QED BY <1>1, <1>3, <1>4, <1>5, <1>6, <1>7

LEMMA DoneFacts ==
  ASSUME toks \in Seq(Tokens), Len(toks) > 0
  PROVE  /\ Ngram!Done \in Seq(Tokens) /\ Len(Ngram!Done) = Len(toks) - 1
         /\ \A i \in 1 .. Len(toks) - 1 : Ngram!Done[i] = toks[i]
BY AllButLast DEF Ngram!Done

LEMMA Slots ==
  \A p \in {Own, Saved} : p = Phys[Own] \/ p = Phys[Saved]
BY Sizes

LEMMA NgramInit ==
  ASSUME Ngram!Init
  PROVE  NgramInv
<1>1. PICK t \in Tokens : toks = Append(Prompt, t)
  BY DEF Ngram!Init
<1>2. /\ toks \in Seq(Tokens) /\ Len(toks) = Len(Prompt) + 1 /\ Len(Prompt) \in Nat
      /\ \A i \in 1 .. Len(Prompt) : toks[i] = Prompt[i]
  BY <1>1, Sizes
<1>3. Len(toks) > 0 /\ Len(toks) - 1 = Len(Prompt)
  BY <1>2
<1>4. Ngram!Done \in Seq(Tokens)
  BY <1>2, <1>3, DoneFacts
<1>5. gdn \in [{Own, Saved} -> Seq(Tokens)] /\ gdn[Phys[Own]] = Ngram!Done
  <2>1. gdn = [p \in {Own, Saved} |-> IF p = Phys[Own] THEN Ngram!Done ELSE <<>>]
    BY DEF Ngram!Init
  <2>2. Phys[Own] \in {Own, Saved} /\ <<>> \in Seq(Tokens)
    BY Sizes
  <2> QED BY <1>4, <2>1, <2>2
<1>6. saved = 0 /\ pc = "draft" /\ kv = Ngram!Done /\ allocated \subseteq {"ngram", "conv"}
  BY DEF Ngram!Init
<1>7. ple = [p \in {Own, Saved} |-> Ngram!Window(gdn[p])]
  BY DEF Ngram!Init
<1>8. saved \in 0 .. Len(toks) - 1 /\ ~(saved > 0)
  BY <1>2, <1>3, <1>6
<1> QED BY <1>2, <1>3, <1>5, <1>6, <1>7, <1>8 DEF NgramInv

LEMMA DraftInv ==
  ASSUME NgramInv, Ngram!Draft
  PROVE  NgramInv'
<1>1. UNCHANGED <<toks, kv, gdn, ple, saved, allocated>> /\ pc' = "verify"
  BY DEF Ngram!Draft, Ngram!states, Ngram!rigid
<1>2. PICK t \in Ngram!Trees : draft' = Ngram!LinearizeChain(Ngram!FromCorpus(t))
  BY DEF Ngram!Draft
<1>3. IsChain(Ngram!LinearizeChain(Ngram!FromCorpus(t)))
  BY Linearized DEF NgramInv
<1>4. IsChain(draft)'
  BY <1>1, <1>2, <1>3 DEF IsChain, Rows, Ngram!RowIds
<1>5. UNCHANGED Ngram!Done
  BY <1>1 DEF Ngram!Done
<1> QED BY <1>1, <1>4, <1>5 DEF NgramInv, Prefix, Ngram!Window, Ngram!LastOf

(* While the states stand after the sequence, every row of a chain is      *)
(* computed from the states of its own path.                               *)
LEMMA RowsSeeTheirPath ==
  ASSUME NgramInv, IsChain(draft), NEW j \in Rows
  PROVE  /\ Ngram!SeesItsPath(j)
         /\ Ngram!Done \o Ngram!UpTo(j) \in Seq(Tokens)
         /\ Ngram!Intermediate(j) = Ngram!Window(Ngram!Done \o Ngram!UpTo(j))
<1>1. Ngram!Path(j) = Ngram!UpTo(j) /\ Ngram!UpTo(j) \in Seq(Tokens)
  BY PathIsPrefix
<1>2. Ngram!Done \in Seq(Tokens)
  BY DoneFacts DEF NgramInv
<1>3. ple[Phys[Own]] = Ngram!Window(Ngram!Done)
  BY Sizes DEF NgramInv
<1>4. Ngram!Intermediate(j) = Ngram!Window(Ngram!Done \o Ngram!UpTo(j))
  BY <1>1, <1>2, <1>3, WindowSlides DEF Ngram!Intermediate
<1>5. Ngram!Done \o Ngram!UpTo(j) \in Seq(Tokens)
  BY <1>1, <1>2, ConcatProperties
<1>6. Ngram!SeesItsPath(j)
  BY <1>1, <1>4 DEF NgramInv, Ngram!SeesItsPath
<1> QED BY <1>4, <1>5, <1>6

LEMMA VerifyInv ==
  ASSUME NgramInv, Ngram!Verify
  PROVE  NgramInv'
<1>1. UNCHANGED <<toks, kv, gdn, ple, saved, draft, allocated>> /\ pc' \in {"commit", "raised"}
  BY DEF Ngram!Verify, Ngram!states, Ngram!rigid
<1>2. UNCHANGED Ngram!Done /\ IsChain(draft) /\ UNCHANGED IsChain(draft)
  BY <1>1 DEF Ngram!Done, NgramInv, Ngram!Verify, IsChain, Rows, Ngram!RowIds
<1>3. ASSUME pc' = "commit"
      PROVE  target' \in [Rows -> Tokens] /\ allocated = {"ngram", "conv"}
  <2>1. Ngram!IntermediatesAllocated
    BY <1>3 DEF Ngram!Verify
  <2>2. allocated = {"ngram", "conv"}
    BY <2>1 DEF NgramInv, Ngram!IntermediatesAllocated
  <2>3. PICK says \in [Rows -> Tokens] :
          target' = [j \in Rows |-> IF Ngram!SeesItsPath(j) THEN says[j] ELSE Wrong]
    BY <2>1 DEF Ngram!Verify, Rows
  <2>4. \A j \in Rows : Ngram!SeesItsPath(j)
    BY <1>2, RowsSeeTheirPath
  <2> QED BY <2>2, <2>3, <2>4
<1> QED BY <1>1, <1>2, <1>3 DEF NgramInv, Prefix, Ngram!Window, Ngram!LastOf, Rows, Ngram!RowIds

(* The rows the greedy walk accepts over a chain are the first n.          *)
LEMMA AcceptedRows ==
  ASSUME NgramInv, pc = "commit", NEW n, n = Len(Ngram!Accepted)
  PROVE  /\ n \in 1 .. D /\ n - 1 \in Rows
         /\ \A i \in 1 .. n : Ngram!Accepted[i] = i - 1
         /\ \A i \in 1 .. n - 1 : draft.tok[i] = target[i - 1]
<1>1. PICK c : c = Ngram!Accepted
  OBVIOUS
<1>2. IsWalk(c, 0) /\ n = Len(c)
  BY <1>1, AcceptedIsWalk DEF NgramInv
<1>3. n \in 1 .. D /\ n - 1 \in Rows
  BY <1>2, RowFacts, Sizes DEF IsWalk
<1>4. ASSUME NEW i \in 1 .. n PROVE c[i] = i - 1
  <2>1. c[i] = 0 + i - 1 /\ i \in Int
    BY <1>2 DEF IsWalk
  <2> QED BY <2>1
<1>5. ASSUME NEW i \in 1 .. n - 1 PROVE draft.tok[i] = target[i - 1]
  <2>1. draft.tok[0 + i] = target[0 + i - 1] /\ i \in Int
    BY <1>2 DEF IsWalk
  <2>2. 0 + i = i /\ 0 + i - 1 = i - 1
    BY <2>1
  <2> QED BY <2>1, <2>2
<1> QED BY <1>1, <1>3, <1>4, <1>5

(* What a commit appends to the sequence: what the target says after each  *)
(* accepted row.                                                           *)
LEMMA CommitSays ==
  ASSUME NgramInv, Ngram!Commit, NEW n, n = Len(Ngram!Accepted)
  PROVE  /\ toks' \in Seq(Tokens) /\ Len(toks') = Len(toks) + n
         /\ \A i \in 1 .. Len(toks) : toks'[i] = toks[i]
         /\ \A i \in 1 .. n : toks'[Len(toks) + i] = target[i - 1]
<1>1. pc = "commit" /\ target \in [Rows -> Tokens]
  BY DEF Ngram!Commit, NgramInv
<1>2. /\ n \in 1 .. D /\ \A i \in 1 .. n : Ngram!Accepted[i] = i - 1
  BY <1>1, AcceptedRows
<1>3. PICK said : said = [i \in 1 .. n |-> target[i - 1]]
  OBVIOUS
<1>4. toks' = toks \o said
  <2>1. toks' = toks \o [i \in 1 .. n |-> target[Ngram!Accepted[i]]]
    BY DEF Ngram!Commit
  <2>2. [i \in 1 .. n |-> target[Ngram!Accepted[i]]] = said
    BY <1>2, <1>3
  <2> QED BY <2>1, <2>2
<1>5. said \in Seq(Tokens) /\ Len(said) = n /\ n \in Nat
  <2>1. n \in Nat /\ n <= D
    BY <1>2, Sizes
  <2>2. \A i \in 1 .. n : i - 1 \in Rows
    BY <2>1, RowFacts, Sizes
  <2>3. \A i \in 1 .. n : target[i - 1] \in Tokens
    BY <1>1, <2>2
  <2> QED BY <1>3, <2>1, <2>3
<1>6. PICK L : L = Len(toks)
  OBVIOUS
<1>7. toks \in Seq(Tokens) /\ L = Len(toks) /\ L \in Nat
  BY <1>6 DEF NgramInv
<1>8. PICK t : t = toks \o said
  OBVIOUS
<1>9. /\ t \in Seq(Tokens) /\ Len(t) = L + n
      /\ \A i \in 1 .. L + n : t[i] = IF i <= L THEN toks[i] ELSE said[i - L]
  <2>1. /\ t \in Seq(Tokens) /\ Len(t) = Len(toks) + Len(said)
        /\ \A i \in 1 .. Len(toks) + Len(said) :
             t[i] = IF i <= Len(toks) THEN toks[i] ELSE said[i - Len(toks)]
    BY <1>5, <1>7, <1>8, ConcatProperties
  <2> QED BY <1>5, <1>7, <2>1
<1>10. \A i \in 1 .. L : t[i] = toks[i]
  BY <1>5, <1>7, <1>9
<1>11. ASSUME NEW i \in 1 .. n PROVE t[L + i] = target[i - 1]
  <2>1. PICK k : k = L + i
    OBVIOUS
  <2>2. k \in 1 .. L + n /\ ~(k <= L) /\ k - L = i
    BY <1>5, <1>7, <2>1
  <2>3. t[k] = said[i]
    BY <1>9, <2>2
  <2> QED BY <1>3, <2>1, <2>3
<1> QED BY <1>4, <1>6, <1>8, <1>9, <1>10, <1>11

(* What the states have read after row j of the accepted ones is the start *)
(* of the new sequence.                                                    *)
LEMMA ReadIsPrefix ==
  ASSUME NgramInv, Ngram!Commit, NEW j \in 0 .. Len(Ngram!Accepted) - 1
  PROVE  /\ Ngram!Done \o Ngram!UpTo(j) \in Seq(Tokens)
         /\ Len(Ngram!Done \o Ngram!UpTo(j)) = Len(toks) + j
         /\ \A i \in 1 .. Len(toks) + j : (Ngram!Done \o Ngram!UpTo(j))[i] = toks'[i]
<1>1. PICK n : n = Len(Ngram!Accepted)
  OBVIOUS
<1>2. pc = "commit" /\ IsChain(draft)
  BY DEF Ngram!Commit, NgramInv
<1>3. /\ n \in 1 .. D /\ n \in Nat /\ j \in 0 .. n - 1 /\ j \in Rows
      /\ \A i \in 1 .. n - 1 : draft.tok[i] = target[i - 1]
  <2>1. n \in 1 .. D /\ \A i \in 1 .. n - 1 : draft.tok[i] = target[i - 1]
    BY <1>1, <1>2, AcceptedRows
  <2>2. n \in Nat /\ j \in 0 .. n - 1 /\ j \in Rows
    BY <1>1, <2>1, RowFacts, Sizes
  <2> QED BY <2>1, <2>2
<1>4. PICK L : L = Len(toks)
  OBVIOUS
<1>5. toks \in Seq(Tokens) /\ L = Len(toks) /\ L \in Nat \ {0}
  BY <1>4 DEF NgramInv
<1>6. PICK d : d = Ngram!Done
  OBVIOUS
<1>7. d \in Seq(Tokens) /\ Len(d) = L - 1 /\ \A i \in 1 .. L - 1 : d[i] = toks[i]
  BY <1>5, <1>6, DoneFacts
<1>8. PICK u : u = Ngram!UpTo(j)
  OBVIOUS
<1>9. u \in Seq(Tokens) /\ Len(u) = j + 1 /\ \A i \in 1 .. j + 1 : u[i] = draft.tok[i - 1]
  <2>1. u \in Seq(Tokens)
    BY <1>2, <1>3, <1>8, PathIsPrefix
  <2>2. u = [i \in 1 .. j + 1 |-> draft.tok[i - 1]]
    BY <1>8 DEF Ngram!UpTo
  <2> QED BY <1>3, <2>1, <2>2
<1>10. PICK s : s = d \o u
  OBVIOUS
<1>11. /\ s \in Seq(Tokens) /\ Len(s) = L + j
       /\ \A i \in 1 .. L + j : s[i] = IF i <= L - 1 THEN d[i] ELSE u[i - (L - 1)]
  <2>1. /\ s \in Seq(Tokens) /\ Len(s) = Len(d) + Len(u)
        /\ \A i \in 1 .. Len(d) + Len(u) : s[i] = IF i <= Len(d) THEN d[i] ELSE u[i - Len(d)]
    BY <1>7, <1>9, <1>10, ConcatProperties
  <2>2. Len(d) = L - 1 /\ Len(d) + Len(u) = L + j
    BY <1>3, <1>5, <1>7, <1>9
  <2> QED BY <2>1, <2>2
<1>12. ASSUME NEW i \in 1 .. L + j PROVE s[i] = toks'[i]
  <2>1. CASE i <= L - 1
    <3>1. i \in 1 .. L - 1 /\ i \in 1 .. L
      BY <1>5, <2>1
    <3>2. s[i] = toks[i]
      BY <1>7, <1>11, <2>1, <3>1
    <3>3. toks'[i] = toks[i]
      BY <1>1, <1>5, <3>1, CommitSays
    <3> QED BY <3>2, <3>3
  <2>2. CASE i = L
    <3>1. ~(i <= L - 1) /\ i - (L - 1) = 1 /\ 1 \in 1 .. j + 1 /\ i \in 1 .. L
      BY <1>3, <1>5, <2>2
    <3>2. s[i] = u[1] /\ u[1] = draft.tok[0]
      <4>1. s[i] = u[1]
        BY <1>11, <3>1
      <4>2. u[1] = draft.tok[1 - 1] /\ 1 - 1 = 0
        BY <1>9, <3>1
      <4> QED BY <4>1, <4>2
    <3>3. draft.tok[0] = toks[L]
      BY <1>2, <1>5 DEF IsChain
    <3>4. toks'[i] = toks[i]
      BY <1>1, <1>5, <3>1, CommitSays
    <3> QED BY <2>2, <3>2, <3>3, <3>4
  <2>3. CASE i > L
    <3>1. PICK h : h = i - L
      OBVIOUS
    <3>2. /\ h \in 1 .. j /\ h \in 1 .. n - 1 /\ h \in 1 .. n /\ i = L + h
          /\ ~(i <= L - 1) /\ i - (L - 1) = h + 1 /\ h + 1 \in 1 .. j + 1 /\ h + 1 - 1 = h
      BY <1>3, <1>5, <2>3, <3>1
    <3>3. s[i] = u[h + 1]
      BY <1>11, <3>2
    <3>4. u[h + 1] = draft.tok[h]
      BY <1>9, <3>2
    <3>5. draft.tok[h] = target[h - 1]
      BY <1>3, <3>2
    <3>6. toks'[L + h] = target[h - 1]
      BY <1>1, <1>5, <3>2, CommitSays
    <3> QED BY <3>2, <3>3, <3>4, <3>5, <3>6
  <2> QED BY <1>5, <2>1, <2>2, <2>3
<1> QED BY <1>5, <1>6, <1>8, <1>10, <1>11, <1>12

(* Every intermediate exists, so a scatter writes both.                    *)
LEMMA ScatterIsIntermediate ==
  ASSUME allocated = {"ngram", "conv"}, NEW w, NEW j
  PROVE  Ngram!Scatter(w, j) = Ngram!Intermediate(j)
<1>1. Ngram!Scatter(w, j) = [f \in {"ngram", "conv"} |-> Ngram!Intermediate(j)[f]]
  BY DEF Ngram!Scatter
<1>2. PICK a, b : Ngram!Intermediate(j) = [ngram |-> a, conv |-> b]
  BY DEF Ngram!Intermediate, Ngram!Slide
<1> QED BY <1>1, <1>2

(* What the branch tracks are accepted rows.                               *)
Track(n) == IF branch = "fold" THEN Ngram!StepsToTrack(n) ELSE {}

LEMMA TrackedIsAccepted ==
  ASSUME NEW n \in Nat \ {0}, Track(n) # {}
  PROVE  Ngram!Max(Track(n)) \in 0 .. n - 1
<1>1. Track(n) \subseteq 0 .. n - 1
  BY DEF Track, Ngram!StepsToTrack
<1>2. PICK T : T = Track(n)
  OBVIOUS
<1>3. \E x \in T : \A y \in T : x >= y
  <2>1. PICK x \in T : \A y \in T : y <= x
    BY <1>1, <1>2, GreatestExists
  <2>2. \A y \in T : x >= y
    BY <1>1, <1>2, <2>1
  <2> QED BY <2>2
<1>4. Ngram!Max(T) \in T
  BY <1>3 DEF Ngram!Max
<1> QED BY <1>1, <1>2, <1>4

(* A commit leaves all states after the new sequence but its last token.   *)
LEMMA CommitOwn ==
  ASSUME NgramInv, Ngram!Commit
  PROVE  /\ Ngram!Done' = Ngram!Done \o Ngram!UpTo(Len(Ngram!Accepted) - 1)
         /\ kv' = Ngram!Done' /\ gdn'[Phys[Own]] = Ngram!Done'
         /\ ple'[Phys[Own]] = Ngram!Window(Ngram!Done')
<1>1. PICK n : n = Len(Ngram!Accepted)
  OBVIOUS
<1>2. /\ pc = "commit" /\ IsChain(draft) /\ allocated = {"ngram", "conv"}
      /\ kv = Ngram!Done /\ gdn[Phys[Own]] = Ngram!Done
  BY DEF Ngram!Commit, NgramInv
<1>3. /\ n \in 1 .. D /\ n \in Nat \ {0} /\ n - 1 \in Rows /\ n - 1 \in 0 .. n - 1
      /\ \A i \in 1 .. n : Ngram!Accepted[i] = i - 1
  <2>1. n \in 1 .. D /\ n - 1 \in Rows /\ \A i \in 1 .. n : Ngram!Accepted[i] = i - 1
    BY <1>1, <1>2, AcceptedRows
  <2>2. n \in Nat \ {0} /\ n - 1 \in 0 .. n - 1
    BY <2>1, Sizes
  <2> QED BY <2>1, <2>2
<1>4. PICK s : s = Ngram!Done \o Ngram!UpTo(n - 1)
  OBVIOUS
<1>5. Ngram!Done' = s
  <2>1. /\ s \in Seq(Tokens) /\ Len(s) = Len(toks) + (n - 1)
        /\ \A i \in 1 .. Len(toks) + (n - 1) : s[i] = toks'[i]
    BY <1>1, <1>3, <1>4, ReadIsPrefix
  <2>2. PICK t : t = toks'
    OBVIOUS
  <2>3. t \in Seq(Tokens) /\ Len(t) = Len(toks) + n
    BY <1>1, <2>2, CommitSays
  <2>4. toks \in Seq(Tokens) /\ Len(toks) \in Nat
    BY DEF NgramInv
  <2>5. Len(t) > 0 /\ Len(t) - 1 = Len(toks) + (n - 1)
    BY <1>3, <2>3, <2>4
  <2>6. s = SubSeq(t, 1, Len(t) - 1)
    BY <2>1, <2>2, <2>3, <2>5, AllButLast
  <2> QED BY <2>2, <2>6 DEF Ngram!Done
<1>6. kv' = s
  <2>1. kv' = kv \o [i \in 1 .. n |-> IF Ngram!Accepted[i] = i - 1 THEN draft.tok[i - 1] ELSE Wrong]
    BY <1>1 DEF Ngram!Commit
  <2>2. [i \in 1 .. n |-> IF Ngram!Accepted[i] = i - 1 THEN draft.tok[i - 1] ELSE Wrong]
          = [i \in 1 .. n |-> draft.tok[i - 1]]
    BY <1>3
  <2>3. n - 1 + 1 = n
    BY <1>3
  <2> QED BY <1>2, <1>4, <2>1, <2>2, <2>3 DEF Ngram!UpTo
<1>7. gdn'[Phys[Own]] = s
  <2>1. Phys[Own] \in {Own, Saved}
    BY Sizes
  <2>2. gdn'[Phys[Own]] = gdn[Phys[Own]] \o Ngram!UpTo(n - 1)
    BY <1>1, <2>1 DEF Ngram!Commit
  <2> QED BY <1>2, <1>4, <2>2
<1>8. ple'[Phys[Own]] = Ngram!Window(s)
  <2>1. Phys[Own] \in {Own, Saved} /\ Ngram!Accepted[n] = n - 1
    BY <1>3, Sizes
  <2>2. ple' = Ngram!CommitPle(n - 1, Track(n))
    BY <1>1, <2>1 DEF Ngram!Commit, Track
  <2>3. ple'[Phys[Own]] = Ngram!Scatter(ple[Phys[Own]], n - 1)
    BY <2>1, <2>2 DEF Ngram!CommitPle, Ngram!OwnSlot
  <2>4. Ngram!Intermediate(n - 1) = Ngram!Window(s)
    BY <1>2, <1>3, <1>4, RowsSeeTheirPath
  <2> QED BY <1>2, <2>3, <2>4, ScatterIsIntermediate
<1> QED BY <1>1, <1>4, <1>5, <1>6, <1>7, <1>8

(* The checkpoint is the old one, or the start of the new sequence up to   *)
(* the row tracked.                                                        *)
LEMMA CommitSaved ==
  ASSUME NgramInv, Ngram!Commit
  PROVE  /\ gdn'[Phys[Saved]] \in Seq(Tokens)
         /\ ple'[Phys[Saved]] = Ngram!Window(gdn'[Phys[Saved]])
         /\ saved' \in 0 .. Len(toks') - 1
         /\ saved' > 0 => /\ Len(gdn'[Phys[Saved]]) = saved'
                          /\ \A i \in 1 .. saved' : gdn'[Phys[Saved]][i] = toks'[i]
<1>1. PICK n : n = Len(Ngram!Accepted)
  OBVIOUS
<1>2. /\ pc = "commit" /\ IsChain(draft) /\ allocated = {"ngram", "conv"}
      /\ gdn[Phys[Own]] = Ngram!Done /\ gdn[Phys[Saved]] \in Seq(Tokens)
      /\ ple[Phys[Saved]] = Ngram!Window(gdn[Phys[Saved]])
  BY Sizes DEF Ngram!Commit, NgramInv
<1>3. /\ n \in 1 .. D /\ n \in Nat \ {0} /\ n - 1 \in Rows
      /\ \A i \in 1 .. n : Ngram!Accepted[i] = i - 1
  <2>1. n \in 1 .. D /\ n - 1 \in Rows /\ \A i \in 1 .. n : Ngram!Accepted[i] = i - 1
    BY <1>1, <1>2, AcceptedRows
  <2>2. n \in Nat \ {0}
    BY <2>1, Sizes
  <2> QED BY <2>1, <2>2
<1>4. PICK L : L = Len(toks)
  OBVIOUS
<1>5. /\ toks \in Seq(Tokens) /\ L = Len(toks) /\ L \in Nat \ {0} /\ Len(toks') = L + n
      /\ saved \in 0 .. L - 1
  <2>1. Len(toks') = Len(toks) + n
    BY <1>1, CommitSays
  <2>2. toks \in Seq(Tokens) /\ Len(toks) > 0 /\ saved \in 0 .. Len(toks) - 1
    BY DEF NgramInv
  <2> QED BY <1>4, <2>1, <2>2
<1>6. /\ Phys[Saved] \in {Own, Saved} /\ Phys[Saved] # Phys[Own]
  BY Sizes
<1>7. ple' = Ngram!CommitPle(n - 1, Track(n))
  <2>1. Ngram!Accepted[n] = n - 1
    BY <1>3
  <2> QED BY <1>1, <2>1 DEF Ngram!Commit, Track
<1>8. CASE Track(n) = {}
  <2>1. gdn'[Phys[Saved]] = gdn[Phys[Saved]] /\ saved' = saved
    BY <1>1, <1>6, <1>8 DEF Ngram!Commit, Track
  <2>2. ple'[Phys[Saved]] = ple[Phys[Saved]]
    BY <1>6, <1>7, <1>8 DEF Ngram!CommitPle, Ngram!OwnSlot
  <2>3. saved' \in 0 .. Len(toks') - 1
    BY <1>3, <1>5, <2>1
  <2>4. ASSUME saved > 0
        PROVE  /\ Len(gdn[Phys[Saved]]) = saved
               /\ \A i \in 1 .. saved : gdn[Phys[Saved]][i] = toks'[i]
    <3>1. Len(gdn[Phys[Saved]]) = saved /\ \A i \in 1 .. saved : gdn[Phys[Saved]][i] = toks[i]
      BY <2>4 DEF NgramInv, Prefix
    <3>2. \A i \in 1 .. L : toks'[i] = toks[i]
      BY <1>1, <1>5, CommitSays
    <3>3. \A i \in 1 .. saved : i \in 1 .. L
      BY <1>5
    <3> QED BY <3>1, <3>2, <3>3
  <2> QED BY <1>2, <2>1, <2>2, <2>3, <2>4
<1>9. CASE Track(n) # {}
  <2>1. PICK j : j = Ngram!Max(Track(n))
    OBVIOUS
  <2>2. j \in 0 .. n - 1 /\ j \in Rows
    <3>1. j \in 0 .. n - 1
      BY <1>3, <1>9, <2>1, TrackedIsAccepted
    <3> QED BY <1>3, <3>1, RowFacts, Sizes
  <2>3. PICK s : s = Ngram!Done \o Ngram!UpTo(j)
    OBVIOUS
  <2>4. /\ s \in Seq(Tokens) /\ Len(s) = L + j
        /\ \A i \in 1 .. L + j : s[i] = toks'[i]
    BY <1>1, <1>5, <2>2, <2>3, ReadIsPrefix
  <2>5. gdn'[Phys[Saved]] = s
    BY <1>1, <1>2, <1>6, <1>9, <2>1, <2>3 DEF Ngram!Commit, Track
  <2>6. ple'[Phys[Saved]] = Ngram!Window(s)
    <3>1. ple'[Phys[Saved]] = Ngram!Scatter(ple[Phys[Saved]], j)
      BY <1>6, <1>7, <1>9, <2>1 DEF Ngram!CommitPle, Ngram!OwnSlot
    <3>2. Ngram!Intermediate(j) = Ngram!Window(s)
      BY <1>2, <2>2, <2>3, RowsSeeTheirPath
    <3> QED BY <1>2, <3>1, <3>2, ScatterIsIntermediate
  <2>7. saved' = L + j
    <3>1. saved' = Len(Ngram!Done) + j + 1
      BY <1>1, <1>9, <2>1 DEF Ngram!Commit, Track
    <3>2. Len(Ngram!Done) = L - 1
      BY <1>5, DoneFacts
    <3> QED BY <1>5, <2>2, <3>1, <3>2
  <2>8. saved' \in 0 .. Len(toks') - 1
    BY <1>3, <1>5, <2>2, <2>7
  <2> QED BY <2>4, <2>5, <2>6, <2>7, <2>8
<1> QED BY <1>8, <1>9

LEMMA CommitInv ==
  ASSUME NgramInv, Ngram!Commit
  PROVE  NgramInv'
<1>1. /\ toks' \in Seq(Tokens) /\ Len(toks') > 0
  <2>1. PICK n : n = Len(Ngram!Accepted)
    OBVIOUS
  <2>2. n \in 1 .. D
    BY <2>1, AcceptedRows DEF Ngram!Commit
  <2>3. toks' \in Seq(Tokens) /\ Len(toks') = Len(toks) + n /\ Len(toks) > 0
    BY <2>1, CommitSays DEF NgramInv
  <2>4. Len(toks) \in Nat
    BY DEF NgramInv
  <2> QED BY <2>2, <2>3, <2>4, Sizes
<1>2. UNCHANGED allocated /\ pc' = "draft"
  BY DEF Ngram!Commit, Ngram!rigid
<1>3. Ngram!Done' \in Seq(Tokens)
  <2>1. PICK t : t = toks'
    OBVIOUS
  <2>2. SubSeq(t, 1, Len(t) - 1) \in Seq(Tokens)
    BY <1>1, <2>1, AllButLast
  <2> QED BY <2>1, <2>2 DEF Ngram!Done
<1>4. kv' = Ngram!Done' /\ gdn'[Phys[Own]] = Ngram!Done'
      /\ ple'[Phys[Own]] = Ngram!Window(gdn'[Phys[Own]])
  BY CommitOwn
<1>5. /\ gdn'[Phys[Saved]] \in Seq(Tokens)
      /\ ple'[Phys[Saved]] = Ngram!Window(gdn'[Phys[Saved]])
      /\ saved' \in 0 .. Len(toks') - 1
      /\ saved' > 0 => /\ Len(gdn'[Phys[Saved]]) = saved'
                       /\ \A i \in 1 .. saved' : gdn'[Phys[Saved]][i] = toks'[i]
  BY CommitSaved
<1>6. /\ gdn' = [p \in {Own, Saved} |-> gdn'[p]]
      /\ ple' = [p \in {Own, Saved} |-> ple'[p]]
  BY DEF Ngram!Commit, Ngram!CommitPle
<1>7. gdn' \in [{Own, Saved} -> Seq(Tokens)]
  BY <1>3, <1>4, <1>5, <1>6, Slots
<1>8. ple' = [p \in {Own, Saved} |-> Ngram!Window(gdn'[p])]
  <2>1. \A p \in {Own, Saved} : ple'[p] = Ngram!Window(gdn'[p])
    BY <1>4, <1>5, Slots
  <2> QED BY <1>6, <2>1
<1> QED BY <1>1, <1>2, <1>4, <1>5, <1>7, <1>8 DEF NgramInv, Prefix, Ngram!Window, Ngram!LastOf

(* Another request starts where the checkpoint was taken.                  *)
LEMMA ResumeInv ==
  ASSUME NgramInv, NEW t \in Tokens, Ngram!Resume(t)
  PROVE  NgramInv'
<1>1. PICK T : T = toks'
  OBVIOUS
<1>2. PICK n : n = saved
  OBVIOUS
<1>3. /\ toks \in Seq(Tokens) /\ Len(toks) \in Nat \ {0}
      /\ n \in Nat \ {0} /\ n \in 0 .. Len(toks) - 1 /\ n = saved
  BY <1>2 DEF NgramInv, Ngram!Resume
<1>4. PICK s : s = SubSeq(toks, 1, n)
  OBVIOUS
<1>5. /\ s \in Seq(Tokens) /\ Len(s) = n /\ \A i \in 1 .. n : s[i] = toks[i]
  <2>1. \A i \in 1 .. n : toks[i] \in Tokens
    BY <1>3
  <2>2. /\ s \in Seq(Tokens) /\ Len(s) = IF 1 <= n THEN n - 1 + 1 ELSE 0
        /\ \A i \in 1 .. n - 1 + 1 : s[i] = toks[1 + i - 1]
    BY <1>3, <1>4, <2>1, SubSeqProperties
  <2>3. Len(s) = n /\ n - 1 + 1 = n
    BY <1>3, <2>2
  <2>4. \A i \in 1 .. n : s[i] = toks[i]
    BY <2>2, <2>3
  <2> QED BY <2>2, <2>3, <2>4
<1>6. T = Append(s, t)
  BY <1>1, <1>2, <1>4 DEF Ngram!Resume
<1>7. /\ T \in Seq(Tokens) /\ Len(T) = n + 1
      /\ \A i \in 1 .. n : T[i] = s[i]
  BY <1>3, <1>5, <1>6
<1>8. Len(T) > 0 /\ Len(T) - 1 = n
  BY <1>3, <1>7
<1>9. \A r \in Seq(Tokens) : Len(r) = n /\ (\A i \in 1 .. n : r[i] = T[i])
                               => r = Ngram!Done'
  <2>1. \A r \in Seq(Tokens) : Len(r) = n /\ (\A i \in 1 .. n : r[i] = T[i])
                                 => r = SubSeq(T, 1, Len(T) - 1)
    BY <1>7, <1>8, AllButLast
  <2> QED BY <1>1, <2>1 DEF Ngram!Done
<1>10. s = Ngram!Done'
  BY <1>5, <1>7, <1>9
<1>11. /\ gdn[Phys[Saved]] \in Seq(Tokens) /\ Len(gdn[Phys[Saved]]) = n
       /\ \A i \in 1 .. n : gdn[Phys[Saved]][i] = toks[i]
  BY <1>3, Sizes DEF NgramInv, Prefix
<1>12. gdn[Phys[Saved]] = s
  BY <1>5, <1>11, SeqEqual
<1>13. kv' = s
  <2>1. PICK k : k = kv
    OBVIOUS
  <2>2. k \in Seq(Tokens) /\ Len(k) = Len(toks) - 1 /\ \A i \in 1 .. Len(toks) - 1 : k[i] = toks[i]
    BY <1>3, <2>1, DoneFacts DEF NgramInv
  <2>3. \A i \in 1 .. n : i \in 1 .. Len(toks) - 1 /\ k[i] \in Tokens
    BY <1>3, <2>2
  <2>4. PICK r : r = SubSeq(k, 1, n)
    OBVIOUS
  <2>5. /\ r \in Seq(Tokens) /\ Len(r) = IF 1 <= n THEN n - 1 + 1 ELSE 0
        /\ \A i \in 1 .. n - 1 + 1 : r[i] = k[1 + i - 1]
    BY <1>3, <2>2, <2>3, <2>4, SubSeqProperties
  <2>6. Len(r) = n /\ n - 1 + 1 = n
    BY <1>3, <2>5
  <2>7. \A i \in 1 .. n : r[i] = k[i]
    BY <2>5, <2>6
  <2>8. \A i \in 1 .. n : r[i] = s[i]
    BY <1>5, <2>2, <2>3, <2>7
  <2>9. r = s
    BY <1>5, <2>5, <2>6, <2>8, SeqEqual
  <2> QED BY <1>2, <2>1, <2>4, <2>9 DEF Ngram!Resume
<1>14. /\ gdn \in [{Own, Saved} -> Seq(Tokens)]
       /\ ple = [p \in {Own, Saved} |-> Ngram!Window(gdn[p])]
       /\ gdn' = [gdn EXCEPT ![Phys[Own]] = gdn[Phys[Saved]]]
       /\ ple' = [ple EXCEPT ![Phys[Own]] = ple[Phys[Saved]]]
       /\ Phys[Own] \in {Own, Saved} /\ Phys[Saved] \in {Own, Saved} /\ Phys[Own] # Phys[Saved]
  BY Sizes DEF NgramInv, Ngram!Resume
<1>15. /\ gdn' \in [{Own, Saved} -> Seq(Tokens)] /\ gdn'[Phys[Own]] = s
       /\ gdn'[Phys[Saved]] = s
  BY <1>11, <1>12, <1>14
<1>16. ple' = [p \in {Own, Saved} |-> Ngram!Window(gdn'[p])]
  BY <1>14
<1>17. UNCHANGED <<saved, allocated, pc>> /\ pc = "draft"
  BY DEF Ngram!Resume, Ngram!rigid
<1>18. Prefix(gdn[Phys[Saved]], saved)'
  <2>1. s \in Seq(Tokens) /\ Len(s) = n /\ \A i \in 1 .. n : s[i] = T[i]
    BY <1>5, <1>7
  <2> QED BY <1>1, <1>2, <1>15, <1>17, <2>1 DEF Prefix
<1>19. saved' \in 0 .. Len(T) - 1
  BY <1>3, <1>8, <1>17
<1> QED
  BY <1>1, <1>7, <1>8, <1>10, <1>13, <1>15, <1>16, <1>17, <1>18, <1>19
     DEF NgramInv, Ngram!Window, Ngram!LastOf

LEMMA NgramStep ==
  ASSUME NgramInv, Ngram!Next
  PROVE  NgramInv'
<1>1. CASE Ngram!Draft
  BY <1>1, DraftInv
<1>2. CASE Ngram!Verify
  BY <1>2, VerifyInv
<1>3. CASE Ngram!Commit
  BY <1>3, CommitInv
<1>4. CASE \E t \in Tokens : Ngram!Resume(t)
  BY <1>4, ResumeInv
<1> QED BY <1>1, <1>2, <1>3, <1>4 DEF Ngram!Next

-----------------------------------------------------------------------------
(* The control file.                                                       *)
ControlTypes ==
  /\ now \in Nat /\ status \in Nat /\ seen \in Nat /\ before \in Nat
  /\ ctl \in [text : 0 .. Control!Stale, time : Nat]
  /\ command \in 0 .. Control!Stale /\ sent \in 0 .. Commands
  /\ runs \in [1 .. Control!Stale -> Nat]
  /\ poll \in {"idle", "stat", "read", "run"}
  /\ client \in {"idle", "open", "write", "wait", "over"}
  /\ client = "open" => sent < Commands
  /\ others \in BOOLEAN /\ autofill \in BOOLEAN

(* Something that AnsweredMeansDone makes an exception for has happened.   *)
Excused == others \/ \E c \in 1 .. Commands : runs[c] >= 2

(* The command left over from before the start is never read; a command    *)
(* that is read or run is the last one sent, or an earlier one whose       *)
(* answer was taken, so that running it would be the second time; and the  *)
(* client goes on to its next command only when the last one was run.      *)
ControlInv ==
  /\ ControlTypes
  /\ ctl.text = Control!Stale => ctl.time <= seen /\ poll # "read"
  /\ ctl.text \in {Control!Empty, sent, Control!Stale}
  /\ poll = "run" => command \in 1 .. Commands
  /\ \/ Excused
     \/ /\ poll = "run" => command = sent \/ runs[command] > 0
        /\ client \in {"idle", "open"} => sent = 0 \/ runs[sent] > 0
        /\ client = "open" => status <= before
        /\ client \in {"write", "wait"} /\ status > before => runs[sent] > 0
        /\ client \notin {"idle", "open"} => sent > 0

LEMMA ControlInit ==
  ASSUME Control!Init
  PROVE  ControlInv
<1> USE CommandsAssumption
<1>1. ControlTypes
  <2>1. ctl \in [text : 0 .. Control!Stale, time : Nat]
    BY DEF Control!Init, Control!Stale, Control!Empty
  <2>2. seen \in Nat /\ now \in Nat /\ status \in Nat /\ before \in Nat
    BY <2>1 DEF Control!Init
  <2>3. /\ runs \in [1 .. Control!Stale -> Nat]
        /\ command \in 0 .. Control!Stale /\ sent \in 0 .. Commands
    BY DEF Control!Init, Control!Stale, Control!Empty
  <2>4. others \in BOOLEAN /\ autofill \in BOOLEAN
    BY DEF Control!Init
  <2>5. poll = "idle" /\ client = "idle"
    BY DEF Control!Init
  <2> QED BY <2>1, <2>2, <2>3, <2>4, <2>5 DEF ControlTypes
<1>2. ctl.text \in {Control!Empty, Control!Stale} /\ seen = ctl.time /\ poll = "idle"
  BY DEF Control!Init
<1>3. sent = 0 /\ before = 0 /\ client = "idle"
  BY DEF Control!Init
<1> QED BY <1>1, <1>2, <1>3 DEF ControlInv, ControlTypes

LEMMA ClientInv ==
  ASSUME ControlInv,
         \/ Control!Tick \/ Control!Look \/ Control!Open \/ Control!Close
         \/ Control!TakeAnswer \/ Control!GiveUp
  PROVE  ControlInv'
<1> USE CommandsAssumption
<1>1. CASE Control!Tick
  BY <1>1 DEF Control!Tick, ControlInv, ControlTypes, Excused, Control!files,
              Control!server, Control!sweep
<1>2. CASE Control!Open
  BY <1>2 DEF Control!Open, ControlInv, ControlTypes, Excused, Control!server,
              Control!Stale, Control!Empty
<1>3. CASE Control!Close
  BY <1>3 DEF Control!Close, ControlInv, ControlTypes, Excused, Control!server,
              Control!Stale, Control!Empty
<1>4. CASE Control!TakeAnswer
  BY <1>4 DEF Control!TakeAnswer, Control!Answered, ControlInv, ControlTypes, Excused,
              Control!files, Control!server
<1>5. CASE Control!GiveUp
  BY <1>5 DEF Control!GiveUp, ControlInv, ControlTypes, Excused, Control!files,
              Control!server
<1>6. CASE Control!Look
  BY <1>6 DEF Control!Look, ControlInv, ControlTypes, Excused, Control!files,
              Control!server
<1> QED BY <1>1, <1>2, <1>3, <1>4, <1>5, <1>6

LEMMA ServerInv ==
  ASSUME ControlInv, Control!Serve \/ Control!Regrow
  PROVE  ControlInv'
<1> USE CommandsAssumption
<1>1. CASE Control!PollBegins
  BY <1>1 DEF Control!PollBegins, ControlInv, ControlTypes, Excused, Control!sweep
<1>2. CASE Control!PollStats
  BY <1>2 DEF Control!PollStats, ControlInv, ControlTypes, Excused, Control!files,
              Control!sweep
<1>3. CASE Control!PollReads
  BY <1>3 DEF Control!PollReads, ControlInv, ControlTypes, Excused, Control!files,
              Control!sweep, Control!Stale, Control!Empty
<1>4. CASE Control!PollRuns
  <2>1. /\ poll = "run" /\ poll' = "idle" /\ status' = now
        /\ runs' = [runs EXCEPT ![command] = IF @ < 2 THEN @ + 1 ELSE @]
        /\ UNCHANGED <<now, ctl, seen, autofill, command, others, sent, before, client>>
    BY <1>4 DEF Control!PollRuns, Control!sweep
  <2>2. runs \in [1 .. Control!Stale -> Nat] /\ command \in 1 .. Commands
    BY <2>1 DEF ControlInv, ControlTypes
  <2>3. runs' \in [1 .. Control!Stale -> Nat]
    <3> DEFINE more == IF runs[command] < 2 THEN runs[command] + 1 ELSE runs[command]
    <3>1. runs' = [runs EXCEPT ![command] = more]
      BY <2>1
    <3>2. command \in 1 .. Control!Stale
      BY <2>2 DEF Control!Stale
    <3>3. more \in Nat
      BY <2>2, <3>2
    <3> HIDE DEF more
    <3> QED BY <2>2, <3>1, <3>2, <3>3
  <2>4. ControlTypes'
    BY <2>1, <2>3 DEF ControlInv, ControlTypes
  <2>5. CASE Excused
    <3>1. ASSUME others PROVE Excused'
      BY <2>1, <3>1 DEF Excused
    <3>2. ASSUME NEW c \in 1 .. Commands, runs[c] >= 2 PROVE Excused'
      <4>1. runs'[c] >= 2
        BY <2>1, <2>2, <3>2 DEF Control!Stale
      <4>2. \E d \in 1 .. Commands : runs'[d] >= 2
        BY <4>1
      <4> QED BY <4>2 DEF Excused
    <3>3. Excused'
      BY <2>5, <3>1, <3>2 DEF Excused
    <3> QED BY <2>1, <2>4, <3>3 DEF ControlInv
  <2>6. CASE ~Excused /\ command # sent
    <3>1. runs[command] > 0
      BY <2>1, <2>6 DEF ControlInv
    <3>2. runs'[command] >= 2
      BY <2>1, <2>2, <3>1 DEF Control!Stale
    <3>3. Excused'
      BY <2>2, <3>2 DEF Excused
    <3> QED BY <2>1, <2>4, <3>3 DEF ControlInv
  <2>7. CASE ~Excused /\ command = sent /\ client # "open"
    <3>1. runs'[sent] > 0
      <4>1. runs'[command] > 0
        BY <2>1, <2>2 DEF Control!Stale
      <4> QED BY <4>1, <2>7
    <3>2. client # "idle" => sent > 0
      BY <2>7 DEF ControlInv
    <3> QED BY <2>1, <2>4, <2>7, <3>1, <3>2 DEF ControlInv
  <2>8. CASE ~Excused /\ command = sent /\ client = "open"
    <3>1. runs[command] > 0
      BY <2>2, <2>8 DEF ControlInv
    <3>2. runs'[command] >= 2
      BY <2>1, <2>2, <3>1 DEF Control!Stale
    <3>3. Excused'
      BY <2>2, <3>2 DEF Excused
    <3> QED BY <2>1, <2>4, <3>3 DEF ControlInv
  <2> QED BY <2>5, <2>6, <2>7, <2>8
<1>5. CASE Control!Regrow
  BY <1>5 DEF Control!Regrow, ControlInv, ControlTypes, Excused, Control!sweep
<1> QED BY <1>1, <1>2, <1>3, <1>4, <1>5 DEF Control!Serve

-----------------------------------------------------------------------------
(* Placement: the invariant.                                               *)

(* The layers to come.                                                     *)
Waiting == Place!Range(givers) \cup Place!Range(takers)

Placed == Place!Layers \ Waiting

(* The host slots of kind k there are, and those of them that are not yet  *)
(* given away.                                                             *)
SlotsWith(k, n) == (onHost[k] \X Place!Ranks) \cup ({NumLayers} \X (0 .. n - 1))
HostSlots(k) == SlotsWith(k, pinned[k])
Awaited(k) == {slot \in onHost[k] \X Place!Ranks : slot[1] \in Waiting}

Pooled(k) == Place!Range(pool[k])

(* Where the table says that a cold row is.                                *)
At(k, row) == tab[k][row][2]

ColdPlaced == {row \in Place!Rows : row[1] \in Placed /\ row[2] >= S0}
HotPlaced == {row \in Place!Rows : row[1] \in Placed /\ row[2] < S0}

PlaceTypes ==
  /\ mode \in {"elastic", "static"} /\ S0 \in 0 .. NumRows /\ onHost \in Place!Layouts
  /\ reserve \in Nat /\ (mode = "static" => reserve = 0)
  /\ pinned \in [Place!Kinds -> Nat]
  /\ \A k \in Place!Kinds : pool[k] \in Seq(HostSlots(k))
  /\ DOMAIN pool = Place!Kinds
  /\ host = [k \in Place!Kinds |-> [slot \in HostSlots(k) |-> host[k][slot]]]
  /\ arena = [k \in Place!Kinds |-> [row \in Place!Rows |-> arena[k][row]]]
  /\ tab = [k \in Place!Kinds |-> [row \in Place!Rows |-> tab[k][row]]]
  /\ home = [k \in Place!Kinds |-> [row \in Place!Rows |-> home[k][row]]]

Once(s) == \A i, j \in 1 .. Len(s) : s[i] = s[j] => i = j

(* No layer waits twice.                                                   *)
Lines ==
  /\ givers \in Seq(Place!Layers) /\ takers \in Seq(Place!Layers)
  /\ Once(givers) /\ \A l \in Place!Range(givers) : Place!Gives(l)
  /\ Once(takers) /\ \A l \in Place!Range(takers) : ~Place!Gives(l)

(* The free slots: each once, and none that a layer to come still uses.    *)
PoolIsFree(k) ==
  /\ Once(pool[k])
  /\ \A i \in 1 .. Len(pool[k]) : pool[k][i] \notin Awaited(k)

(* A placed cold row is in a slot of its own, and the table knows it.      *)
ColdIsHome(k, row) ==
  /\ tab[k][row] = <<"host", At(k, row)>>
  /\ At(k, row) \in HostSlots(k) /\ At(k, row) \notin Awaited(k) /\ At(k, row) \notin Pooled(k)
  /\ host[k][At(k, row)] = row
  /\ row[1] \in onHost[k] => At(k, row) = row
  /\ mode = "elastic" => home[k][row] = At(k, row)

HotIsHome(k, row) ==
  /\ tab[k][row] = <<"gpu", row>>
  /\ arena[k][row] = row \/ <<k, row[1]>> \in gathers

(* What has not been written to is as it was.                              *)
Untouched(k) ==
  /\ \A slot \in Awaited(k) : host[k][slot] = slot
  /\ \A row \in Place!Rows : row[2] < S0 => home[k][row] = NoSlot
  /\ \A row \in Place!Rows : row[2] >= S0 => arena[k][row] = Junk

(* No slot is lost.                                                        *)
Covered(k) ==
  \A slot \in HostSlots(k) :
    slot \in Pooled(k) \/ slot \in Awaited(k) \/ \E row \in ColdPlaced : At(k, row) = slot

(* What the pool has been given, and what has been taken from it.          *)
Givers(k) == Cardinality(Placed \cap onHost[k])
Takers(k) == Cardinality(Placed \ onHost[k])
Balance(k) ==
  Len(pool[k]) = S0 * Givers(k) + pinned[k] - (NumRows - S0) * Takers(k)

KindIsRight(k) ==
  /\ PoolIsFree(k) /\ Untouched(k) /\ Covered(k) /\ Balance(k)
  /\ \A row \in ColdPlaced : ColdIsHome(k, row)
  /\ \A row \in HotPlaced : HotIsHome(k, row)

(* A kernel that has not run finds the hot rows where they were.           *)
GathersFind ==
  \A g \in gathers :
    /\ g \in Place!Kinds \X Placed /\ g[2] \in onHost[g[1]]
    /\ \A row \in Place!Hot(g[2]) : host[g[1]][row] = row

Favourable == Place!Suffices /\ (mode = "elastic" \/ \A l \in Place!Layers : ~Place!SplitLayer(l))

Unit == IF S0 = 0 THEN 1 ELSE S0
Ratio == IF Unit >= NumRows - S0 THEN Unit ELSE NumRows - S0

Frugal ==
  /\ mode = "static" => credit = Unit * Givers(1) - Ratio * Takers(1)
  /\ Favourable => \A k \in Place!Kinds : pinned[k] = IF pc = "serving" THEN reserve ELSE 0

Phases ==
  /\ pc \in {"next", "synchronize", "serving", "failed"}
  /\ pc = "synchronize" => mode = "elastic"
  /\ pc \in {"next", "serving"} => gathers = {}
  /\ pc = "serving" => Waiting = {}

PlaceInv ==
  /\ PlaceTypes /\ Lines /\ GathersFind /\ Frugal /\ Phases
  /\ \A k \in Place!Kinds : KindIsRight(k)

LEMMA PlaceSizes ==
  /\ NumLayers \in Nat \ {0} /\ NumRows \in Nat \ {0} /\ NumKinds \in Nat \ {0}
  /\ StartSizes \subseteq 0 .. NumRows /\ Reserves \subseteq Nat
  /\ NoSlot \notin Nat \X Nat /\ NoSlot \notin {"gpu", "host"} \X (Nat \X Nat)
  /\ Junk \notin Place!Rows
BY PlacementAssumption DEF Place!SizesOK

LEMMA PlaceMax ==
  ASSUME NEW x \in Int, NEW y \in Int
  PROVE  Place!Max({x, y}) = IF x >= y THEN x ELSE y
<1> DEFINE m == IF x >= y THEN x ELSE y
<1>1. m \in {x, y} /\ \A z \in {x, y} : m >= z
  OBVIOUS
<1>2. \A w \in {x, y} : (\A z \in {x, y} : w >= z) => w = m
  OBVIOUS
<1> QED BY <1>1, <1>2 DEF Place!Max

LEMMA PlaceSelect ==
  ASSUME NEW V, NEW s \in Seq(V), NEW P
  PROVE  Place!Select(s, P) = Select(s, P)
BY DEF Place!Select, Place!Selections, Select, Selections

LEMMA RangeIs ==
  ASSUME NEW V, NEW s \in Seq(V)
  PROVE  /\ Place!Range(s) \subseteq V
         /\ \A x : x \in Place!Range(s) <=> \E i \in 1 .. Len(s) : s[i] = x
BY DEF Place!Range

(* Without one of its elements, in the same order.                         *)
LEMMA WithoutOne ==
  ASSUME NEW s \in Seq(Place!Layers), Once(s), NEW l
  PROVE  LET t == Place!Remove1(s, l)
         IN  /\ t \in Seq(Place!Layers) /\ Once(t)
             /\ Place!Range(t) = Place!Range(s) \ {l}
<1> DEFINE P == Place!Layers \ {l}
           t == Select(s, P)
<1>1. Place!Remove1(s, l) = t
  BY PlaceSelect DEF Place!Remove1
<1>2. /\ t \in Seq(Place!Layers)
      /\ \A x : (\E i \in 1 .. Len(t) : t[i] = x) <=> x \in P /\ \E i \in 1 .. Len(s) : s[i] = x
      /\ (\A i, j \in 1 .. Len(s) : s[i] \in P /\ s[i] = s[j] => i = j) =>
           \A i, j \in 1 .. Len(t) : t[i] = t[j] => i = j
  BY SelectProperties
<1> HIDE DEF t
<1>3. Once(t)
  BY <1>2 DEF Once
<1>4. Place!Range(t) = Place!Range(s) \ {l}
  <2>1. \A x : x \in Place!Range(t) <=> \E i \in 1 .. Len(t) : t[i] = x
    BY <1>2, RangeIs
  <2>2. \A x : x \in Place!Range(s) <=> \E i \in 1 .. Len(s) : s[i] = x
    BY RangeIs
  <2>3. Place!Range(s) \subseteq Place!Layers
    BY RangeIs
  <2> QED BY <1>2, <2>1, <2>2, <2>3
<1> QED BY <1>1, <1>2, <1>3, <1>4

LEMMA WithoutHead ==
  ASSUME NEW s \in Seq(Place!Layers), Once(s), s # <<>>
  PROVE  /\ Tail(s) \in Seq(Place!Layers) /\ Once(Tail(s))
         /\ Head(s) \in Place!Range(s) /\ Place!Range(Tail(s)) = Place!Range(s) \ {Head(s)}
<1>1. PICK t : t = Tail(s)
  OBVIOUS
<1>2. /\ t \in Seq(Place!Layers) /\ Len(t) = Len(s) - 1 /\ Len(s) \in Nat /\ Len(s) >= 1
      /\ \A i \in 1 .. Len(t) : t[i] = s[i + 1] /\ i + 1 \in 1 .. Len(s)
      /\ Head(s) = s[1]
  BY <1>1
<1>3. Once(t)
  BY <1>2 DEF Once
<1>4. \A i \in 1 .. Len(s) : i = 1 \/ (i - 1 \in 1 .. Len(t) /\ t[i - 1] = s[i])
  <2> TAKE i \in 1 .. Len(s)
  <2>1. i # 1 => i - 1 \in 1 .. Len(t)
    BY <1>2
  <2> QED BY <1>2, <2>1
<1>5. \A i \in 1 .. Len(t) : t[i] # s[1]
  BY <1>2 DEF Once
<1>6. \A x : x \in Place!Range(t) <=> x \in Place!Range(s) /\ x # s[1]
  <2> TAKE x
  <2>1. x \in Place!Range(t) <=> \E i \in 1 .. Len(t) : t[i] = x
    BY <1>2, RangeIs
  <2>2. x \in Place!Range(s) <=> \E i \in 1 .. Len(s) : s[i] = x
    BY RangeIs
  <2> QED BY <1>2, <1>4, <1>5, <2>1, <2>2
<1>7. s[1] \in Place!Range(s)
  BY <1>2, RangeIs
<1> QED BY <1>1, <1>2, <1>3, <1>6, <1>7

(* The layers of a set in their order.                                     *)
LEMMA InOrderIs ==
  ASSUME NEW ls
  PROVE  LET s == Place!InOrder(ls)
         IN  /\ s \in Seq(Place!Layers) /\ Once(s)
             /\ Place!Range(s) = Place!Layers \cap ls
<1> DEFINE all == [i \in 1 .. NumLayers |-> i - 1]
           s == Select(all, ls)
<1>1. NumLayers \in Nat
  BY PlaceSizes
<1>2. all \in Seq(Place!Layers) /\ Len(all) = NumLayers /\ \A i \in 1 .. NumLayers : all[i] = i - 1
  BY <1>1 DEF Place!Layers
<1>3. \A x : x \in Place!Layers <=> \E i \in 1 .. NumLayers : all[i] = x
  <2> SUFFICES ASSUME NEW x PROVE x \in Place!Layers <=> \E i \in 1 .. NumLayers : all[i] = x
    OBVIOUS
  <2>1. ASSUME x \in Place!Layers PROVE \E i \in 1 .. NumLayers : all[i] = x
    <3>1. x + 1 \in 1 .. NumLayers /\ (x + 1) - 1 = x
      BY <1>1, <2>1 DEF Place!Layers
    <3> QED BY <1>2, <3>1
  <2>2. ASSUME NEW i \in 1 .. NumLayers, all[i] = x PROVE x \in Place!Layers
    BY <1>1, <2>2, <1>2 DEF Place!Layers
  <2> QED BY <2>1, <2>2
<1>4. Place!InOrder(ls) = s
  BY <1>2, PlaceSelect DEF Place!InOrder
<1>5. \A i, j \in 1 .. Len(all) : all[i] \in ls /\ all[i] = all[j] => i = j
  BY <1>1, <1>2
<1> HIDE DEF all
<1>6. /\ s \in Seq(Place!Layers)
      /\ \A x : (\E i \in 1 .. Len(s) : s[i] = x) <=> x \in ls /\ \E i \in 1 .. Len(all) : all[i] = x
      /\ \A i, j \in 1 .. Len(s) : s[i] = s[j] => i = j
  BY <1>2, <1>5, SelectProperties
<1> HIDE DEF s
<1>7. Place!Range(s) = Place!Layers \cap ls
  <2>1. \A x : x \in Place!Range(s) <=> \E i \in 1 .. Len(s) : s[i] = x
    BY <1>6, RangeIs
  <2> QED BY <1>2, <1>3, <1>6, <2>1
<1> QED BY <1>4, <1>6, <1>7 DEF Once

Joined(V, s, t, u) ==
  /\ u \in Seq(V) /\ Len(u) = Len(s) + Len(t) /\ Once(u)
  /\ Place!Range(u) = Place!Range(s) \cup Place!Range(t)

LEMMA TwoParts ==
  ASSUME NEW V, NEW s \in Seq(V), NEW t \in Seq(V), Once(s), Once(t),
         Place!Range(s) \cap Place!Range(t) = {}
  PROVE  Joined(V, s, t, s \o t)
<1>1. PICK u : u = s \o t
  OBVIOUS
<1>2. /\ u \in Seq(V) /\ Len(u) = Len(s) + Len(t) /\ Len(s) \in Nat /\ Len(t) \in Nat
      /\ \A i \in 1 .. Len(u) : u[i] = IF i <= Len(s) THEN s[i] ELSE t[i - Len(s)]
  BY <1>1
<1>3. /\ \A x : x \in Place!Range(s) <=> \E i \in 1 .. Len(s) : s[i] = x
      /\ \A x : x \in Place!Range(t) <=> \E i \in 1 .. Len(t) : t[i] = x
      /\ \A x : x \in Place!Range(u) <=> \E i \in 1 .. Len(u) : u[i] = x
  <2>1. \A x : x \in Place!Range(u) <=> \E i \in 1 .. Len(u) : u[i] = x
    BY <1>2, RangeIs
  <2>2. \A x : x \in Place!Range(s) <=> \E i \in 1 .. Len(s) : s[i] = x
    BY RangeIs
  <2>3. \A x : x \in Place!Range(t) <=> \E i \in 1 .. Len(t) : t[i] = x
    BY RangeIs
  <2> QED BY <2>1, <2>2, <2>3
<1>4. \A i \in 1 .. Len(u) :
        \/ i \in 1 .. Len(s) /\ u[i] = s[i] /\ u[i] \in Place!Range(s)
        \/ i > Len(s) /\ i - Len(s) \in 1 .. Len(t) /\ u[i] = t[i - Len(s)] /\ u[i] \in Place!Range(t)
  <2> TAKE i \in 1 .. Len(u)
  <2>1. CASE i <= Len(s)
    <3>1. i \in 1 .. Len(s) /\ u[i] = s[i]
      BY <1>2, <2>1
    <3> QED BY <1>3, <3>1
  <2>2. CASE i > Len(s)
    <3>1. i - Len(s) \in 1 .. Len(t) /\ u[i] = t[i - Len(s)]
      BY <1>2, <2>2
    <3> QED BY <1>3, <2>2, <3>1
  <2> QED BY <1>2, <2>1, <2>2
<1>5. Once(u)
  <2> SUFFICES ASSUME NEW i \in 1 .. Len(u), NEW j \in 1 .. Len(u), u[i] = u[j] PROVE i = j
    BY DEF Once
  <2>1. CASE u[i] \in Place!Range(s)
    <3>1. i \in 1 .. Len(s) /\ u[i] = s[i] /\ j \in 1 .. Len(s) /\ u[j] = s[j]
      BY <1>4, <2>1
    <3> QED BY <3>1 DEF Once
  <2>2. CASE u[i] \in Place!Range(t)
    <3>1. /\ i - Len(s) \in 1 .. Len(t) /\ u[i] = t[i - Len(s)]
          /\ j - Len(s) \in 1 .. Len(t) /\ u[j] = t[j - Len(s)]
      BY <1>4, <2>2
    <3>2. i - Len(s) = j - Len(s)
      BY <3>1 DEF Once
    <3> QED BY <1>2, <3>2
  <2> QED BY <1>4, <2>1, <2>2
<1>6. Place!Range(u) = Place!Range(s) \cup Place!Range(t)
  <2>1. ASSUME NEW x \in Place!Range(s) PROVE x \in Place!Range(u)
    <3>1. PICK i \in 1 .. Len(s) : s[i] = x
      BY <1>3
    <3>2. i \in 1 .. Len(u) /\ u[i] = x
      BY <1>2, <3>1
    <3> QED BY <1>3, <3>2
  <2>2. ASSUME NEW x \in Place!Range(t) PROVE x \in Place!Range(u)
    <3>1. PICK i \in 1 .. Len(t) : t[i] = x
      BY <1>3
    <3>2. PICK j : j = Len(s) + i
      OBVIOUS
    <3>3. j \in 1 .. Len(u) /\ ~(j <= Len(s)) /\ j - Len(s) = i
      BY <1>2, <3>1, <3>2
    <3>4. u[j] = t[j - Len(s)]
      BY <1>2, <3>3
    <3> QED BY <1>3, <3>1, <3>3, <3>4
  <2>3. ASSUME NEW x \in Place!Range(u) PROVE x \in Place!Range(s) \cup Place!Range(t)
    BY <1>3, <1>4
  <2> QED BY <2>1, <2>2, <2>3
<1> QED BY <1>1, <1>2, <1>5, <1>6 DEF Joined

(* The last n elements taken off.                                          *)
Cut(V, s, n, t) ==
  /\ t \in Seq(V) /\ Len(t) = Len(s) - n /\ Once(t)
  /\ \A i \in 0 .. n - 1 : s[Len(s) - i] \in V /\ s[Len(s) - i] \notin Place!Range(t)
  /\ \A i, j \in 0 .. n - 1 : s[Len(s) - i] = s[Len(s) - j] => i = j
  /\ \A x : x \in Place!Range(s) <=>
              x \in Place!Range(t) \/ \E i \in 0 .. n - 1 : s[Len(s) - i] = x

LEMMA CutOff ==
  ASSUME NEW V, NEW s \in Seq(V), Once(s), NEW n \in 0 .. Len(s)
  PROVE  Cut(V, s, n, SubSeq(s, 1, Len(s) - n))
<1>1. PICK t, m : t = SubSeq(s, 1, Len(s) - n) /\ m = Len(s)
  OBVIOUS
<1>2. /\ m \in Nat /\ n \in Nat /\ n <= m /\ t \in Seq(V) /\ Len(t) = m - n
      /\ \A i \in 1 .. m - n : t[i] = s[i]
      /\ \A i \in 1 .. m : s[i] \in V
  <2>1. m \in Nat /\ n \in Nat /\ n <= m /\ m - n \in Nat /\ \A i \in 1 .. m : s[i] \in V
    BY <1>1
  <2>3. m - n \in 1 - 1 .. m /\ 1 \in 1 .. m + 1
    BY <2>1
  <2>4. /\ t \in Seq(V) /\ Len(t) = IF 1 <= m - n THEN m - n - 1 + 1 ELSE 0
        /\ \A i \in 1 .. m - n - 1 + 1 : t[i] = s[1 + i - 1]
    BY <1>1, <2>1, <2>3, SubSeqProperties
  <2>5. Len(t) = m - n
    BY <2>1, <2>4
  <2>6. \A i \in 1 .. m - n : t[i] = s[i]
    <3> TAKE i \in 1 .. m - n
    <3>1. i \in 1 .. m - n - 1 + 1 /\ 1 + i - 1 = i
      BY <2>1
    <3> QED BY <2>4, <3>1
  <2> QED BY <2>1, <2>4, <2>5, <2>6
<1>3. /\ \A x : x \in Place!Range(s) <=> \E i \in 1 .. m : s[i] = x
      /\ \A x : x \in Place!Range(t) <=> \E i \in 1 .. m - n : t[i] = x
  <2>1. \A x : x \in Place!Range(s) <=> \E i \in 1 .. Len(s) : s[i] = x
    BY RangeIs
  <2>2. \A x : x \in Place!Range(t) <=> \E i \in 1 .. Len(t) : t[i] = x
    BY <1>2, RangeIs
  <2> QED BY <1>1, <1>2, <2>1, <2>2
<1>4. Once(t)
  BY <1>1, <1>2 DEF Once
<1>5. \A i \in 0 .. n - 1 : m - i \in 1 .. m /\ m - i > m - n
  BY <1>2
<1>6. \A i, j \in 1 .. m : s[i] = s[j] => i = j
  BY <1>1 DEF Once
<1>7. \A i \in 0 .. n - 1 : s[m - i] \in V /\ s[m - i] \notin Place!Range(t)
  <2> TAKE i \in 0 .. n - 1
  <2>1. ASSUME NEW j \in 1 .. m - n, t[j] = s[m - i] PROVE FALSE
    <3>1. j \in 1 .. m /\ s[j] = s[m - i] /\ j <= m - n
      BY <1>2, <2>1
    <3>2. j = m - i
      BY <1>5, <1>6, <3>1
    <3>3. m - i > m - n
      BY <1>5
    <3> QED BY <1>2, <3>1, <3>2, <3>3
  <2> QED BY <1>2, <1>3, <1>5, <2>1
<1>8. \A i, j \in 0 .. n - 1 : s[m - i] = s[m - j] => i = j
  <2> TAKE i, j \in 0 .. n - 1
  <2>1. s[m - i] = s[m - j] => m - i = m - j
    BY <1>5, <1>6
  <2> QED BY <1>2, <2>1
<1>9. ASSUME NEW x
      PROVE  x \in Place!Range(s) <=> x \in Place!Range(t) \/ \E i \in 0 .. n - 1 : s[m - i] = x
  <2>1. ASSUME x \in Place!Range(s)
        PROVE  x \in Place!Range(t) \/ \E i \in 0 .. n - 1 : s[m - i] = x
    <3>1. PICK i \in 1 .. m : s[i] = x
      BY <1>3, <2>1
    <3>2. CASE i <= m - n
      <4>1. i \in 1 .. m - n /\ t[i] = x
        BY <1>2, <3>1, <3>2
      <4> QED BY <1>3, <4>1
    <3>3. CASE i > m - n
      <4>1. m - i \in 0 .. n - 1 /\ m - (m - i) = i
        BY <1>2, <3>3
      <4> QED BY <3>1, <4>1
    <3> QED BY <1>2, <3>2, <3>3
  <2>2. ASSUME x \in Place!Range(t) PROVE x \in Place!Range(s)
    <3>1. PICK i \in 1 .. m - n : t[i] = x
      BY <1>3, <2>2
    <3>2. i \in 1 .. m /\ s[i] = x
      BY <1>2, <3>1
    <3> QED BY <1>3, <3>2
  <2>3. ASSUME NEW i \in 0 .. n - 1, s[m - i] = x PROVE x \in Place!Range(s)
    BY <1>3, <1>5, <2>3
  <2> QED BY <2>1, <2>2, <2>3
<1>10. Cut(V, s, n, t)
  BY <1>1, <1>2, <1>4, <1>7, <1>8, <1>9 DEF Cut
<1> QED BY <1>1, <1>10

-----------------------------------------------------------------------------
(* A layer moves: kind k of it pins short rows, puts its cold rows at      *)
(* place, and leaves the pool after.                                       *)

Moved(k, l, short, place, after) ==
  LET slots == SlotsWith(k, pinned[k] + short)
  IN  /\ short \in Nat /\ (l \in onHost[k] => short = 0)
      /\ DOMAIN place = Place!Cold(l)
      /\ \A row \in Place!Cold(l) : place[row] \in slots /\ place[row] \notin Place!Range(after)
      /\ \A row, other \in Place!Cold(l) : place[row] = place[other] => row = other
      /\ l \in onHost[k] => \A row \in Place!Cold(l) : place[row] = row
      /\ after \in Seq(slots) /\ Once(after) /\ Place!Range(after) \subseteq HostSlots(k)
      /\ Len(after) = Len(pool[k]) + short + (IF l \in onHost[k] THEN S0 ELSE S0 - NumRows)
      /\ \A slot : (slot \in Place!Range(after) \/ \E row \in Place!Cold(l) : place[row] = slot) <=>
                     \/ slot \in Pooled(k) \/ slot \in slots \ HostSlots(k)
                     \/ l \in onHost[k] /\ slot \in {l} \X Place!Ranks

LEMMA HostKindMoves ==
  ASSUME PlaceTypes, NEW k \in Place!Kinds, KindIsRight(k), NEW l \in Waiting, l \in Place!Layers,
         l \in onHost[k]
  PROVE  Moved(k, l, Place!Shortfall(k, l), Place!Place(k, l), Place!PoolAfter(k, l))
<1> DEFINE d == [i \in 1 .. S0 |-> <<l, i - 1>>]
           slots == SlotsWith(k, pinned[k])
<1>1. Place!Shortfall(k, l) = 0 /\ pinned[k] + 0 = pinned[k]
  BY DEF Place!Shortfall, PlaceTypes
<1>2. S0 \in Nat /\ S0 <= NumRows /\ NumRows \in Nat
  BY PlaceSizes DEF PlaceTypes
<1>3. \A row \in Place!Cold(l) : row \in {l} \X Place!Ranks /\ row = <<row[1], row[2]>> /\ row[1] = l /\ row[2] >= S0
  BY DEF Place!Cold, Place!Rows
<1>4. Place!Place(k, l) = [row \in Place!Cold(l) |-> row]
  BY DEF Place!Place
<1>5. \A slot \in {l} \X Place!Ranks : slot \in slots /\ slot \in Awaited(k)
  BY DEF SlotsWith, Awaited
<1>6. d \in Seq(slots) /\ Len(d) = S0 /\ \A i \in 1 .. S0 : d[i] = <<l, i - 1>> /\ i - 1 \in Place!Ranks
  <2>1. \A i \in 1 .. S0 : <<l, i - 1>> \in {l} \X Place!Ranks /\ i - 1 \in Place!Ranks
    BY <1>2 DEF Place!Ranks
  <2>2. \A i \in 1 .. S0 : <<l, i - 1>> \in slots
    BY <1>5, <2>1
  <2> HIDE DEF slots
  <2> QED BY <1>2, <2>1, <2>2
<1> HIDE DEF d
<1>7. Once(d)
  BY <1>2, <1>6 DEF Once
<1>8. \A x : x \in Place!Range(d) <=> x \in {l} \X Place!Ranks /\ x[2] < S0
  <2> TAKE x
  <2>1. x \in Place!Range(d) <=> \E i \in 1 .. S0 : d[i] = x
    BY <1>6, RangeIs
  <2>2. ASSUME NEW i \in 1 .. S0, d[i] = x PROVE x \in {l} \X Place!Ranks /\ x[2] < S0
    <3>1. x = <<l, i - 1>> /\ i - 1 \in Place!Ranks
      BY <1>6, <2>2
    <3>2. i - 1 < S0
      BY <1>2
    <3> QED BY <3>1, <3>2
  <2>3. ASSUME x \in {l} \X Place!Ranks, x[2] < S0 PROVE \E i \in 1 .. S0 : d[i] = x
    <3>1. x = <<l, x[2]>> /\ x[2] \in Nat
      BY <2>3 DEF Place!Ranks
    <3>2. x[2] + 1 \in 1 .. S0 /\ (x[2] + 1) - 1 = x[2]
      BY <1>2, <2>3, <3>1
    <3> QED BY <1>6, <3>1, <3>2
  <2> QED BY <2>1, <2>2, <2>3
<1>9. pool[k] \in Seq(slots) /\ Once(pool[k])
  BY DEF PlaceTypes, KindIsRight, PoolIsFree, HostSlots, Once
<1>10. \A x \in Pooled(k) : x \notin Awaited(k)
  <2>1. \A x : x \in Place!Range(pool[k]) <=> \E i \in 1 .. Len(pool[k]) : pool[k][i] = x
    BY <1>9, RangeIs
  <2> QED BY <2>1 DEF KindIsRight, PoolIsFree, Pooled
<1>11. Place!Range(pool[k]) \cap Place!Range(d) = {}
  BY <1>5, <1>8, <1>10 DEF Pooled
<1>12. PICK after : after = pool[k] \o d
  OBVIOUS
<1>13. /\ after \in Seq(slots) /\ Len(after) = Len(pool[k]) + S0 /\ Once(after)
       /\ Place!Range(after) = Pooled(k) \cup Place!Range(d)
  <2> HIDE DEF slots
  <2>1. Joined(slots, pool[k], d, pool[k] \o d)
    <3>1. PICK p : p = pool[k]
      OBVIOUS
    <3>2. p \in Seq(slots) /\ Once(p) /\ d \in Seq(slots) /\ Once(d)
      BY <1>6, <1>7, <1>9, <3>1
    <3>3. Place!Range(p) \cap Place!Range(d) = {}
      BY <1>11, <3>1
    <3> QED BY <3>1, <3>2, <3>3, TwoParts
  <2> QED BY <1>6, <1>12, <2>1 DEF Pooled, Joined
<1>14. Place!PoolAfter(k, l) = after
  BY <1>12 DEF Place!PoolAfter, d
<1>15. \A row \in Place!Cold(l) : row \in slots /\ row \notin Place!Range(after)
  <2> TAKE row \in Place!Cold(l)
  <2>1. row \in {l} \X Place!Ranks /\ row[2] >= S0 /\ row[2] \in Nat
    BY <1>3 DEF Place!Ranks
  <2>2. ~(row[2] < S0)
    BY <1>2, <2>1
  <2>3. row \in slots /\ row \notin Pooled(k) /\ row \notin Place!Range(d)
    <3> HIDE DEF slots
    <3> QED BY <1>5, <1>8, <1>10, <2>1, <2>2
  <2> QED BY <1>13, <2>3
<1>16. Len(pool[k]) + 0 = Len(pool[k])
  BY <1>9
<1>17. ASSUME NEW x
       PROVE  (x \in Place!Range(after) \/ \E row \in Place!Cold(l) : row = x) <=>
                x \in Pooled(k) \/ x \in {l} \X Place!Ranks
  <2>1. ASSUME x \in {l} \X Place!Ranks, ~(x[2] < S0) PROVE x \in Place!Cold(l)
    <3>1. x[1] = l /\ x[2] \in Place!Ranks /\ x = <<x[1], x[2]>>
      BY <2>1
    <3>2. x[2] >= S0
      BY <1>2, <2>1, <3>1 DEF Place!Ranks
    <3> QED BY <3>1, <3>2 DEF Place!Cold, Place!Rows
  <2> QED BY <1>3, <1>8, <1>13, <2>1
<1>18. slots \ HostSlots(k) = {} /\ Place!Range(after) \subseteq HostSlots(k)
  <2>1. slots = HostSlots(k)
    BY DEF HostSlots
  <2> HIDE DEF slots
  <2> QED BY <1>13, <2>1, RangeIs
<1> HIDE DEF slots
<1> QED BY <1>1, <1>4, <1>13, <1>14, <1>15, <1>16, <1>17, <1>18 DEF Moved, slots

(* Rows pinned for kind k: the slots there are then, and the pool.         *)
Pinning(k, short, d, s) ==
  LET slots == SlotsWith(k, pinned[k] + short)
  IN  /\ HostSlots(k) \subseteq slots /\ Pooled(k) \subseteq HostSlots(k)
      /\ \A x : x \in Place!Range(d) <=> x \in slots \ HostSlots(k)
      /\ s \in Seq(slots) /\ Len(s) = Len(pool[k]) + short /\ Once(s)
      /\ \A x : x \in Place!Range(s) <=> x \in Pooled(k) \/ x \in slots \ HostSlots(k)
      /\ short = 0 => slots = HostSlots(k)

LEMMA RowsArePinned ==
  ASSUME PlaceTypes, NEW k \in Place!Kinds, Once(pool[k]), NEW short \in Nat
  PROVE  Pinning(k, short, Place!NewRows(k, short), pool[k] \o Place!NewRows(k, short))
<1>2. PICK p : p = pool[k]
  OBVIOUS
<1>3. Len(p) \in Nat /\ pinned[k] \in Nat /\ NumLayers \in Nat
  <2>1. p \in Seq(HostSlots(k)) /\ pinned[k] \in Nat
    BY <1>2 DEF PlaceTypes
  <2> QED BY <1>2, <2>1, PlaceSizes
<1> DEFINE slots == SlotsWith(k, pinned[k] + short)
           d == Place!NewRows(k, short)
           Fresh == {NumLayers} \X (pinned[k] .. pinned[k] + short - 1)
<1>5. HostSlots(k) \subseteq slots /\ slots \ HostSlots(k) = Fresh /\ Fresh \subseteq slots
  <2>1. 0 .. pinned[k] + short - 1 = (0 .. pinned[k] - 1) \cup (pinned[k] .. pinned[k] + short - 1)
    BY <1>3
  <2>2. (0 .. pinned[k] - 1) \cap (pinned[k] .. pinned[k] + short - 1) = {}
    BY <1>3
  <2>3. \A x \in onHost[k] \X Place!Ranks : x \notin Fresh
    <3>1. onHost[k] \subseteq Place!Layers
      BY DEF PlaceTypes, Place!Layouts
    <3>2. NumLayers \notin Place!Layers
      BY <1>3 DEF Place!Layers
    <3> QED BY <3>1, <3>2
  <2>4. \A x \in {NumLayers} \X (0 .. pinned[k] - 1) : x \notin Fresh
    BY <2>2
  <2>5. slots = HostSlots(k) \cup Fresh
    <3>1. slots = (onHost[k] \X Place!Ranks) \cup ({NumLayers} \X (0 .. pinned[k] + short - 1))
      <4>1. (pinned[k] + short) - 1 = pinned[k] + short - 1
        BY <1>3
      <4> QED BY <4>1 DEF SlotsWith
    <3>2. {NumLayers} \X (0 .. pinned[k] + short - 1) =
            ({NumLayers} \X (0 .. pinned[k] - 1)) \cup Fresh
      <4>1. PICK A, B : A = 0 .. pinned[k] - 1 /\ B = pinned[k] .. pinned[k] + short - 1
        OBVIOUS
      <4>2. {NumLayers} \X (A \cup B) = ({NumLayers} \X A) \cup ({NumLayers} \X B)
        OBVIOUS
      <4> QED BY <2>1, <4>1, <4>2
    <3> HIDE DEF slots, Fresh
    <3> QED BY <3>1, <3>2 DEF HostSlots, SlotsWith
  <2>6. HostSlots(k) \cap Fresh = {}
    <3> HIDE DEF Fresh
    <3> QED BY <2>3, <2>4 DEF HostSlots, SlotsWith
  <2> HIDE DEF slots, Fresh
  <2> QED BY <2>5, <2>6
<1>6. d \in Seq(slots) /\ Len(d) = short /\ Once(d)
      /\ \A x : x \in Place!Range(d) <=> x \in Fresh
  <2>1. d = [i \in 1 .. short |-> <<NumLayers, pinned[k] + i - 1>>]
    BY DEF Place!NewRows
  <2>2. \A i \in 1 .. short : <<NumLayers, pinned[k] + i - 1>> \in Fresh
    BY <1>3
  <2>3. d \in Seq(Fresh) /\ Len(d) = short
    <3>1. d \in [1 .. short -> Fresh] /\ DOMAIN d = 1 .. short
      <4> HIDE DEF Fresh
      <4> QED BY <2>1, <2>2
    <3>2. d \in Seq(Fresh)
      <4> HIDE DEF d, Fresh
      <4> QED BY <3>1
    <3> HIDE DEF d, Fresh
    <3> QED BY <3>1, <3>2
  <2>4. \A i \in 1 .. short : d[i] = <<NumLayers, pinned[k] + i - 1>>
    BY <2>1
  <2> HIDE DEF d
  <2>5. Once(d)
    <3> SUFFICES ASSUME NEW i \in 1 .. short, NEW j \in 1 .. short, d[i] = d[j] PROVE i = j
      BY <2>3 DEF Once
    <3>1. pinned[k] + i - 1 = pinned[k] + j - 1
      BY <2>4
    <3> QED BY <1>3, <3>1
  <2>6. \A x : x \in Place!Range(d) <=> \E i \in 1 .. Len(d) : d[i] = x
    BY <2>3, RangeIs
  <2>7. ASSUME NEW x \in Fresh PROVE \E i \in 1 .. short : d[i] = x
    <3>1. PICK m \in pinned[k] .. pinned[k] + short - 1 : x = <<NumLayers, m>>
      OBVIOUS
    <3>2. PICK n, i : n = pinned[k] /\ i = (m - n) + 1
      OBVIOUS
    <3>3. n \in Nat /\ m \in n .. n + (short - 1)
      BY <1>3, <3>2
    <3>4. i \in 1 .. short /\ n + i - 1 = m
      <4>1. short \in Nat /\ i = (m - n) + 1
        BY <3>2
      <4> QED BY <3>3, <4>1
    <3>5. d[i] = <<NumLayers, n + i - 1>>
      BY <2>4, <3>2, <3>4
    <3> QED BY <3>1, <3>4, <3>5
  <2> HIDE DEF Fresh
  <2>8. d \in Seq(slots)
    BY <1>5, <2>3
  <2>9. \A x : x \in Place!Range(d) <=> x \in Fresh
    <3>1. \A i \in 1 .. Len(d) : d[i] \in Fresh
      BY <2>3
    <3> QED BY <2>3, <2>6, <2>7, <3>1
  <2> QED BY <2>3, <2>5, <2>8, <2>9
<1> HIDE DEF d, Fresh, slots
<1>7. p \in Seq(slots) /\ Once(p) /\ Place!Range(p) = Pooled(k) /\ Pooled(k) \subseteq HostSlots(k)
  <2>1. p \in Seq(HostSlots(k)) /\ Once(p)
    BY <1>2 DEF PlaceTypes
  <2>2. Place!Range(p) \subseteq HostSlots(k)
    BY <2>1, RangeIs
  <2> QED BY <1>2, <1>5, <2>1, <2>2 DEF Pooled
<1>8. PICK s : s = p \o d
  OBVIOUS
<1>9. /\ s \in Seq(slots) /\ Len(s) = Len(p) + short /\ Once(s)
      /\ \A x : x \in Place!Range(s) <=> x \in Pooled(k) \/ x \in Fresh
  <2>1. Place!Range(p) \cap Place!Range(d) = {}
    BY <1>5, <1>6, <1>7
  <2>2. Joined(slots, p, d, p \o d)
    BY <1>6, <1>7, <2>1, TwoParts
  <2> QED BY <1>6, <1>7, <1>8, <2>2 DEF Joined
<1>10. short = 0 => slots = HostSlots(k)
  BY <1>3 DEF slots, HostSlots
<1> QED BY <1>2, <1>5, <1>6, <1>7, <1>8, <1>9, <1>10 DEF Pinning, slots, d

LEMMA GpuKindMoves ==
  ASSUME PlaceTypes, NEW k \in Place!Kinds, KindIsRight(k), NEW l \in Place!Layers,
         l \notin onHost[k]
  PROVE  Moved(k, l, Place!Shortfall(k, l), Place!Place(k, l), Place!PoolAfter(k, l))
<1>1. PICK short : short = Place!Shortfall(k, l)
  OBVIOUS
<1>2. PICK p, need : p = pool[k] /\ need = NumRows - S0
  OBVIOUS
<1>3. /\ S0 \in Nat /\ NumRows \in Nat /\ S0 <= NumRows /\ need \in Nat /\ Len(p) \in Nat
      /\ pinned[k] \in Nat /\ NumLayers \in Nat
  <2>1. p \in Seq(HostSlots(k)) /\ pinned[k] \in Nat /\ S0 \in 0 .. NumRows
    BY <1>2 DEF PlaceTypes
  <2> QED BY <1>2, <2>1, PlaceSizes
<1>4. short \in Nat /\ Len(p) + short >= need /\ (short # 0 => Len(p) + short = need)
  <2>1. short = Place!Max({0, NumRows - S0 - Len(p)})
    BY <1>1, <1>2 DEF Place!Shortfall
  <2>2. short = IF 0 >= need - Len(p) THEN 0 ELSE need - Len(p)
    <3>1. 0 \in Int /\ need - Len(p) \in Int
      BY <1>3
    <3>2. Place!Max({0, need - Len(p)}) = IF 0 >= need - Len(p) THEN 0 ELSE need - Len(p)
      BY <3>1, PlaceMax
    <3> QED BY <1>2, <2>1, <3>2
  <2> QED BY <1>3, <2>2
<1> DEFINE slots == SlotsWith(k, pinned[k] + short)
           Fresh == slots \ HostSlots(k)
<1>8. PICK s : s = p \o Place!NewRows(k, short)
  OBVIOUS
<1>9. /\ HostSlots(k) \subseteq slots /\ Pooled(k) \subseteq HostSlots(k)
      /\ s \in Seq(slots) /\ Len(s) = Len(p) + short /\ Once(s)
      /\ \A x : x \in Place!Range(s) <=> x \in Pooled(k) \/ x \in Fresh
      /\ short = 0 => Fresh = {}
  <2>1. Once(pool[k])
    BY DEF KindIsRight, PoolIsFree
  <2> QED BY <1>2, <1>4, <1>8, <2>1, RowsArePinned DEF Pinning
<1> HIDE DEF slots, Fresh
<1>10. PICK after : after = SubSeq(s, 1, Len(s) - need)
  OBVIOUS
<1>11. need \in 0 .. Len(s)
  BY <1>3, <1>4, <1>9
<1>12. /\ after \in Seq(slots) /\ Len(after) = Len(s) - need /\ Once(after)
       /\ \A i \in 0 .. need - 1 : s[Len(s) - i] \in slots /\ s[Len(s) - i] \notin Place!Range(after)
       /\ \A i, j \in 0 .. need - 1 : s[Len(s) - i] = s[Len(s) - j] => i = j
       /\ \A x : x \in Place!Range(s) <=>
                   x \in Place!Range(after) \/ \E i \in 0 .. need - 1 : s[Len(s) - i] = x
  <2>1. Cut(slots, s, need, SubSeq(s, 1, Len(s) - need))
    BY <1>9, <1>11, CutOff
  <2> QED BY <1>10, <2>1 DEF Cut
<1>13. Place!Filled(k, l) = s
  BY <1>1, <1>2, <1>8 DEF Place!Filled
<1>14. Place!PoolAfter(k, l) = after
  BY <1>2, <1>10, <1>13 DEF Place!PoolAfter
<1>15. PICK place : place = [row \in Place!Cold(l) |-> s[Len(s) - (row[2] - S0)]]
  OBVIOUS
<1>16. Place!Place(k, l) = place
  BY <1>13, <1>15 DEF Place!Place
<1>17. \A row \in Place!Cold(l) : /\ row[2] - S0 \in 0 .. need - 1 /\ row = <<l, row[2]>>
                                  /\ row[2] \in Nat /\ place[row] = s[Len(s) - (row[2] - S0)]
  <2> TAKE row \in Place!Cold(l)
  <2>1. row \in Place!Layers \X Place!Ranks /\ row[1] = l /\ row[2] >= S0
    BY DEF Place!Cold, Place!Rows
  <2>2. row[2] \in 0 .. NumRows - 1 /\ row = <<l, row[2]>>
    BY <2>1 DEF Place!Ranks
  <2>3. row[2] - S0 \in 0 .. need - 1
    BY <1>2, <1>3, <2>1, <2>2
  <2> QED BY <1>15, <2>2, <2>3
<1>18. \A i \in 0 .. need - 1 : \E row \in Place!Cold(l) : row[2] - S0 = i
  <2> TAKE i \in 0 .. need - 1
  <2>1. S0 + i \in Place!Ranks /\ S0 + i >= S0 /\ (S0 + i) - S0 = i
    BY <1>2, <1>3 DEF Place!Ranks
  <2>2. <<l, S0 + i>> \in Place!Cold(l)
    BY <2>1 DEF Place!Cold, Place!Rows
  <2> QED BY <2>1, <2>2
<1>19. \A row \in Place!Cold(l) : place[row] \in slots /\ place[row] \notin Place!Range(after)
  BY <1>12, <1>17
<1>20. \A row, other \in Place!Cold(l) : place[row] = place[other] => row = other
  <2> SUFFICES ASSUME NEW row \in Place!Cold(l), NEW other \in Place!Cold(l), place[row] = place[other]
               PROVE  row = other
    OBVIOUS
  <2>1. row[2] - S0 = other[2] - S0
    BY <1>12, <1>17
  <2>2. row[2] = other[2]
    BY <1>3, <1>17, <2>1
  <2> QED BY <1>17, <2>2
<1>21. ASSUME NEW x
       PROVE  (x \in Place!Range(after) \/ \E row \in Place!Cold(l) : place[row] = x) <=>
                x \in Pooled(k) \/ x \in Fresh
  <2>1. (\E row \in Place!Cold(l) : place[row] = x) <=> \E i \in 0 .. need - 1 : s[Len(s) - i] = x
    <3>1. ASSUME NEW row \in Place!Cold(l), place[row] = x
          PROVE  \E i \in 0 .. need - 1 : s[Len(s) - i] = x
      BY <1>17, <3>1
    <3>2. ASSUME NEW i \in 0 .. need - 1, s[Len(s) - i] = x
          PROVE  \E row \in Place!Cold(l) : place[row] = x
      BY <1>17, <1>18, <3>2
    <3> QED BY <3>1, <3>2
  <2> QED BY <1>9, <1>12, <2>1
<1>22. Len(after) = Len(pool[k]) + short + (S0 - NumRows)
  BY <1>2, <1>3, <1>4, <1>9, <1>12
<1>23. Place!Range(after) \subseteq HostSlots(k)
  <2>1. CASE short = 0
    <3>1. Fresh = {}
      BY <1>9, <2>1
    <3> QED BY <1>9, <1>21, <3>1
  <2>2. CASE short # 0
    <3>1. Len(after) = 0
      <4>1. Len(p) + short = need
        BY <1>4, <2>2
      <4> QED BY <1>3, <1>4, <1>9, <1>12, <4>1
    <3>2. \A x : x \in Place!Range(after) <=> \E i \in 1 .. Len(after) : after[i] = x
      BY <1>12, RangeIs
    <3> QED BY <3>1, <3>2
  <2> QED BY <2>1, <2>2
<1>24. Moved(k, l, short, place, after)
  <2>1. DOMAIN place = Place!Cold(l)
    BY <1>15
  <2> QED BY <1>4, <1>9, <1>12, <1>19, <1>20, <1>21, <1>22, <1>23, <2>1 DEF Moved, slots, Fresh
<1> QED BY <1>1, <1>14, <1>16, <1>24

LEMMA KindMoves ==
  ASSUME PlaceTypes, NEW k \in Place!Kinds, KindIsRight(k), NEW l \in Waiting, l \in Place!Layers
  PROVE  Moved(k, l, Place!Shortfall(k, l), Place!Place(k, l), Place!PoolAfter(k, l))
BY HostKindMoves, GpuKindMoves

-----------------------------------------------------------------------------
(* What add_layer leaves of a kind.                                        *)

Added(k, l, short, place, after) ==
  /\ pool'[k] = after /\ pinned'[k] = pinned[k] + short
  /\ host'[k] = [slot \in SlotsWith(k, pinned[k] + short) |-> host'[k][slot]]
  /\ \A row \in Place!Cold(l) : host'[k][place[row]] = row
  /\ \A slot \in HostSlots(k) :
       (\A row \in Place!Cold(l) : place[row] # slot) => host'[k][slot] = host[k][slot]
  /\ \A row \in Place!Rows \ (Place!Cold(l) \cup Place!Hot(l)) :
       /\ arena'[k][row] = arena[k][row] /\ tab'[k][row] = tab[k][row]
       /\ home'[k][row] = home[k][row]
  /\ \A row \in Place!Cold(l) :
       /\ tab'[k][row] = <<"host", place[row]>> /\ arena'[k][row] = arena[k][row]
       /\ home'[k][row] = IF mode = "elastic" THEN place[row] ELSE home[k][row]
  /\ \A row \in Place!Hot(l) :
       /\ tab'[k][row] = <<"gpu", row>> /\ home'[k][row] = home[k][row]
       /\ arena'[k][row] = IF l \in onHost[k] /\ mode # "static" THEN arena[k][row]
                           ELSE IF l \in onHost[k] THEN host[k][row] ELSE row
  /\ l \in onHost[k] /\ mode # "static" => <<k, l>> \in gathers'

LEMMA AntiIs ==
  ASSUME NEW f, NEW X, DOMAIN f = X, \A x, y \in X : f[x] = f[y] => x = y, NEW x \in X
  PROVE  f[x] \in Place!Range(f) /\ Place!AntiFunction(f)[f[x]] = x
<1>1. f[x] \in Place!Range(f)
  BY DEF Place!Range
<1>2. Place!AntiFunction(f)[f[x]] = CHOOSE s \in X : f[x] \in Place!Range(f) => f[s] = f[x]
  BY <1>1 DEF Place!AntiFunction, Place!Inverse
<1>3. \E s \in X : f[x] \in Place!Range(f) => f[s] = f[x]
  OBVIOUS
<1>4. PICK s : s = CHOOSE y \in X : f[x] \in Place!Range(f) => f[y] = f[x]
  OBVIOUS
<1>5. s \in X /\ f[s] = f[x]
  BY <1>1, <1>3, <1>4
<1> QED BY <1>1, <1>2, <1>4, <1>5

LEMMA HotOrCold ==
  ASSUME PlaceTypes, NEW l
  PROVE  /\ \A row \in Place!Rows : row[1] = l <=> row \in Place!Hot(l) \cup Place!Cold(l)
         /\ Place!Hot(l) \cap Place!Cold(l) = {}
         /\ \A row \in Place!Rows : row[2] < S0 \/ row[2] >= S0
<1>1. S0 \in Nat
  BY PlaceSizes DEF PlaceTypes
<1>2. \A row \in Place!Rows : row[2] \in Nat
  BY DEF Place!Rows, Place!Ranks
<1>3. \A row \in Place!Rows : (row[2] < S0 \/ row[2] >= S0) /\ ~(row[2] < S0 /\ row[2] >= S0)
  BY <1>1, <1>2
<1> QED BY <1>3 DEF Place!Hot, Place!Cold

LEMMA KindIsAdded ==
  ASSUME PlaceTypes, NEW k \in Place!Kinds, NEW l \in Place!Layers, Place!AddLayer(l),
         NEW short, NEW place, NEW after, Moved(k, l, short, place, after),
         short = Place!Shortfall(k, l), place = Place!Place(k, l), after = Place!PoolAfter(k, l)
  PROVE  Added(k, l, short, place, after)
<1>1. /\ pool'[k] = after /\ pinned'[k] = pinned[k] + short
      /\ host'[k] = Place!HostAfter(k, l)
  BY DEF Place!AddLayer
<1>2. /\ Place!Hot(l) \cap Place!Cold(l) = {} /\ Place!Hot(l) \subseteq Place!Rows
      /\ Place!Cold(l) \subseteq Place!Rows
  BY HotOrCold DEF Place!Hot, Place!Cold
<1> DEFINE moved == Place!Range(place)
           slots == SlotsWith(k, pinned[k] + short)
<1>3. DOMAIN host[k] = HostSlots(k)
  BY DEF PlaceTypes
<1>4. /\ host'[k] = [slot \in moved \cup HostSlots(k) |-> host'[k][slot]]
      /\ \A slot \in moved \cup HostSlots(k) :
           host'[k][slot] = IF slot \in moved THEN Place!AntiFunction(place)[slot] ELSE host[k][slot]
  BY <1>1, <1>3 DEF Place!HostAfter
<1>5. \A x : x \in moved <=> \E row \in Place!Cold(l) : place[row] = x
  BY DEF Place!Range, Moved
<1>6. host'[k] = [slot \in slots |-> host'[k][slot]]
  <2>1. slots \subseteq moved \cup HostSlots(k)
    BY <1>5 DEF Moved
  <2>2. moved \subseteq slots
    BY <1>5 DEF Moved
  <2>3. HostSlots(k) \subseteq slots
    <3>1. pinned[k] \in Nat /\ short \in Nat
      BY DEF PlaceTypes, Moved
    <3>2. 0 .. pinned[k] - 1 \subseteq 0 .. (pinned[k] + short) - 1
      BY <3>1
    <3> QED BY <3>2 DEF HostSlots, SlotsWith
  <2> HIDE DEF moved, slots
  <2> QED BY <1>4, <2>1, <2>2, <2>3
<1>7. \A row \in Place!Cold(l) : host'[k][place[row]] = row
  <2> TAKE row \in Place!Cold(l)
  <2>1. place[row] \in moved /\ Place!AntiFunction(place)[place[row]] = row
    BY AntiIs DEF Moved
  <2> HIDE DEF moved
  <2> QED BY <1>4, <2>1
<1>8. \A slot \in HostSlots(k) :
        (\A row \in Place!Cold(l) : place[row] # slot) => host'[k][slot] = host[k][slot]
  <2> HIDE DEF moved
  <2> QED BY <1>4, <1>5
<1>9. \A row \in Place!Rows :
        /\ tab'[k][row] = IF row \in Place!Hot(l) THEN <<"gpu", row>>
                          ELSE IF row \in Place!Cold(l) THEN <<"host", place[row]>> ELSE tab[k][row]
        /\ home'[k][row] = IF mode = "elastic" /\ row \in Place!Cold(l) THEN place[row] ELSE home[k][row]
        /\ arena'[k][row] = IF row \in Place!Hot(l) /\ (l \notin onHost[k] \/ mode = "static")
                            THEN IF l \in onHost[k] THEN host[k][row] ELSE row
                            ELSE arena[k][row]
  BY DEF Place!AddLayer
<1>10. l \in onHost[k] /\ mode # "static" => <<k, l>> \in gathers'
  BY DEF Place!AddLayer
<1>11. \A row \in Place!Rows \ (Place!Cold(l) \cup Place!Hot(l)) :
         /\ arena'[k][row] = arena[k][row] /\ tab'[k][row] = tab[k][row]
         /\ home'[k][row] = home[k][row]
  BY <1>9
<1>12. \A row \in Place!Cold(l) :
         /\ tab'[k][row] = <<"host", place[row]>> /\ arena'[k][row] = arena[k][row]
         /\ home'[k][row] = IF mode = "elastic" THEN place[row] ELSE home[k][row]
  BY <1>2, <1>9
<1>13. \A row \in Place!Hot(l) :
         /\ tab'[k][row] = <<"gpu", row>> /\ home'[k][row] = home[k][row]
         /\ arena'[k][row] = IF l \in onHost[k] /\ mode # "static" THEN arena[k][row]
                             ELSE IF l \in onHost[k] THEN host[k][row] ELSE row
  BY <1>2, <1>9
<1> QED BY <1>1, <1>6, <1>7, <1>8, <1>10, <1>11, <1>12, <1>13 DEF Added

KindBut(k) ==
  /\ PoolIsFree(k) /\ Untouched(k) /\ Covered(k)
  /\ \A row \in ColdPlaced : ColdIsHome(k, row)
  /\ \A row \in HotPlaced : HotIsHome(k, row)

LEMMA NewlyPlaced ==
  ASSUME PlaceTypes, NEW l \in Waiting, l \in Place!Layers, Waiting' = Waiting \ {l},
         UNCHANGED S0
  PROVE  /\ Placed' = Placed \cup {l} /\ l \notin Placed
         /\ ColdPlaced' = ColdPlaced \cup Place!Cold(l)
         /\ HotPlaced' = HotPlaced \cup Place!Hot(l)
         /\ \A row \in ColdPlaced \cup HotPlaced :
              row \in Place!Rows \ (Place!Cold(l) \cup Place!Hot(l))
<1>1. Placed' = Placed \cup {l} /\ l \notin Placed
  BY DEF Placed
<1>2. ColdPlaced' = {row \in Place!Rows : row[1] \in Placed' /\ row[2] >= S0}
  BY DEF ColdPlaced
<1>3. HotPlaced' = {row \in Place!Rows : row[1] \in Placed' /\ row[2] < S0}
  BY DEF HotPlaced
<1> QED BY <1>1, <1>2, <1>3 DEF ColdPlaced, HotPlaced, Place!Cold, Place!Hot

LEMMA KindStays ==
  ASSUME PlaceTypes, NEW k \in Place!Kinds, KindBut(k), NEW l \in Waiting, l \in Place!Layers,
         NEW short, NEW place, NEW after,
         Moved(k, l, short, place, after), Added(k, l, short, place, after),
         Waiting' = Waiting \ {l}, UNCHANGED <<mode, S0, onHost>>, gathers \subseteq gathers'
  PROVE  KindBut(k)'
<1> DEFINE slots == SlotsWith(k, pinned[k] + short)
           Touched(x) == x \in Place!Range(after) \/ \E row \in Place!Cold(l) : place[row] = x
<1>1. /\ HostSlots(k)' = slots /\ Pooled(k)' = Place!Range(after)
      /\ pool'[k] = after /\ after \in Seq(slots) /\ Once(after)
  <2>1. HostSlots(k)' = slots
    BY DEF HostSlots, SlotsWith, Added
  <2>2. Pooled(k)' = Place!Range(after)
    BY DEF Pooled, Added, Place!Range
  <2> QED BY <2>1, <2>2 DEF Added, Moved
<1>2. \A x : x \in Awaited(k)' <=> x \in Awaited(k) /\ x[1] # l
  BY DEF Awaited
<1>3. \A x \in Awaited(k) : x \in HostSlots(k) /\ x \notin Pooled(k)
  <2>1. \A x : x \in Pooled(k) <=> \E i \in 1 .. Len(pool[k]) : pool[k][i] = x
    BY RangeIs DEF PlaceTypes, Pooled
  <2>2. Awaited(k) \subseteq HostSlots(k)
    BY DEF Awaited, HostSlots, SlotsWith
  <2> QED BY <2>1, <2>2 DEF KindBut, PoolIsFree
<1>4. l \in onHost[k] => \A x \in {l} \X Place!Ranks : x \in Awaited(k) /\ x[1] = l
  BY DEF Awaited
<1>5. \A x : Touched(x) <=> \/ x \in Pooled(k) \/ x \in slots \ HostSlots(k)
                            \/ l \in onHost[k] /\ x \in {l} \X Place!Ranks
  BY DEF Moved
<1> HIDE DEF Touched, slots
<1>6. \A x : Touched(x) => x \notin Awaited(k)'
  BY <1>2, <1>3, <1>4, <1>5
<1>7. \A row \in ColdPlaced : ~Touched(At(k, row)) /\ At(k, row) \in HostSlots(k)
  BY <1>4, <1>5 DEF KindBut, ColdIsHome
<1>8. /\ ColdPlaced' = ColdPlaced \cup Place!Cold(l) /\ HotPlaced' = HotPlaced \cup Place!Hot(l)
      /\ \A row \in ColdPlaced \cup HotPlaced :
           row \in Place!Rows \ (Place!Cold(l) \cup Place!Hot(l))
  BY NewlyPlaced
<1>9. \A x \in HostSlots(k) : ~Touched(x) => host'[k][x] = host[k][x]
  BY DEF Touched, Added
<1>10. /\ \A row \in ColdPlaced : At(k, row)' = At(k, row) /\ tab'[k][row] = tab[k][row]
       /\ \A row \in Place!Cold(l) : At(k, row)' = place[row]
  <2>1. \A row \in ColdPlaced : tab'[k][row] = tab[k][row]
    BY <1>8 DEF Added
  <2>2. \A row \in Place!Cold(l) : tab'[k][row] = <<"host", place[row]>>
    BY DEF Added
  <2> QED BY <2>1, <2>2 DEF At
<1>11. PoolIsFree(k)'
  <2>1. \A i, j \in 1 .. Len(after) : after[i] = after[j] => i = j
    BY <1>1 DEF Once
  <2>2. \A i \in 1 .. Len(after) : after[i] \notin Awaited(k)'
    <3>1. \A i \in 1 .. Len(after) : after[i] \in Place!Range(after)
      BY <1>1, RangeIs
    <3> QED BY <1>6, <3>1 DEF Touched
  <2> QED BY <1>1, <2>1, <2>2 DEF PoolIsFree
<1>12. ASSUME NEW row \in ColdPlaced' PROVE ColdIsHome(k, row)'
  <2>1. CASE row \in Place!Cold(l)
    <3>1. /\ tab'[k][row] = <<"host", place[row]>> /\ At(k, row)' = place[row]
          /\ place[row] \in slots /\ place[row] \notin Place!Range(after)
          /\ host'[k][place[row]] = row
          /\ mode = "elastic" => home'[k][row] = place[row]
      BY <1>10, <2>1 DEF Added, Moved, slots
    <3>2. place[row] \notin Awaited(k)'
      BY <1>6, <2>1 DEF Touched
    <3>3. row[1] \in onHost[k] => place[row] = row
      BY <2>1 DEF Moved, Place!Cold
    <3> QED BY <1>1, <3>1, <3>2, <3>3 DEF ColdIsHome
  <2>2. CASE row \in ColdPlaced
    <3>1. ColdIsHome(k, row)
      BY <2>2 DEF KindBut
    <3>2. /\ At(k, row)' = At(k, row) /\ tab'[k][row] = tab[k][row] /\ home'[k][row] = home[k][row]
      BY <1>8, <1>10, <2>2 DEF Added
    <3>3. ~Touched(At(k, row)) /\ At(k, row) \in HostSlots(k) /\ At(k, row) \notin Awaited(k)
      BY <1>7, <2>2, <3>1 DEF ColdIsHome
    <3>4. host'[k][At(k, row)] = host[k][At(k, row)]
      BY <1>9, <3>3
    <3>5. At(k, row) \in slots
      <4>1. At(k, row) \in HostSlots(k)'
        <5>1. 0 .. pinned[k] - 1 \subseteq 0 .. (pinned[k] + short) - 1
          BY DEF Moved, PlaceTypes
        <5>2. HostSlots(k) \subseteq slots
          BY <5>1 DEF slots, HostSlots, SlotsWith
        <5> QED BY <1>1, <3>3, <5>2
      <4> QED BY <1>1, <4>1
    <3>6. At(k, row) \notin Awaited(k)' /\ At(k, row) \notin Place!Range(after)
      BY <1>2, <3>3 DEF Touched
    <3> QED BY <1>1, <3>1, <3>2, <3>4, <3>5, <3>6 DEF ColdIsHome
  <2> QED BY <1>8, <2>1, <2>2
<1>13. ASSUME NEW row \in HotPlaced' PROVE HotIsHome(k, row)'
  <2>1. CASE row \in Place!Hot(l)
    <3>1. tab'[k][row] = <<"gpu", row>> /\ row[1] = l
      BY <2>1 DEF Added, Place!Hot
    <3>2. CASE l \notin onHost[k]
      <4>1. arena'[k][row] = row
        BY <2>1, <3>2 DEF Added
      <4> QED BY <3>1, <4>1 DEF HotIsHome
    <3>3. CASE l \in onHost[k] /\ mode # "static"
      <4>1. <<k, row[1]>> \in gathers'
        BY <3>1, <3>3 DEF Added
      <4> QED BY <3>1, <4>1 DEF HotIsHome
    <3>4. CASE l \in onHost[k] /\ mode = "static"
      <4>1. arena'[k][row] = host[k][row]
        BY <2>1, <3>4 DEF Added
      <4>2. row \in Awaited(k)
        <5>1. row \in {l} \X Place!Ranks
          BY <2>1 DEF Place!Hot, Place!Rows
        <5> QED BY <1>4, <3>4, <5>1
      <4>3. host[k][row] = row
        BY <4>2 DEF KindBut, Untouched
      <4> QED BY <3>1, <4>1, <4>3 DEF HotIsHome
    <3> QED BY <3>2, <3>3, <3>4
  <2>2. CASE row \in HotPlaced
    <3>1. HotIsHome(k, row)
      BY <2>2 DEF KindBut
    <3>2. tab'[k][row] = tab[k][row] /\ arena'[k][row] = arena[k][row]
      BY <1>8, <2>2 DEF Added
    <3> QED BY <3>1, <3>2 DEF HotIsHome
  <2> QED BY <1>8, <2>1, <2>2
<1>14. Untouched(k)'
  <2>1. ASSUME NEW slot \in Awaited(k)' PROVE host'[k][slot] = slot
    <3>1. slot \in Awaited(k) /\ slot \in HostSlots(k) /\ ~Touched(slot)
      BY <1>2, <1>3, <1>6, <2>1
    <3> QED BY <1>9, <3>1 DEF KindBut, Untouched
  <2>2. ASSUME NEW row \in Place!Rows, row[2] < S0 PROVE home'[k][row] = NoSlot
    <3>1. row \in Place!Hot(l) \/ row \in Place!Rows \ (Place!Cold(l) \cup Place!Hot(l))
      BY <2>2, HotOrCold DEF Place!Hot, Place!Cold
    <3>2. home'[k][row] = home[k][row]
      BY <3>1 DEF Added
    <3> QED BY <2>2, <3>2 DEF KindBut, Untouched
  <2>3. ASSUME NEW row \in Place!Rows, row[2] >= S0 PROVE arena'[k][row] = Junk
    <3>1. row \in Place!Cold(l) \/ row \in Place!Rows \ (Place!Cold(l) \cup Place!Hot(l))
      BY <2>3, HotOrCold DEF Place!Hot, Place!Cold
    <3>2. arena'[k][row] = arena[k][row]
      BY <3>1 DEF Added
    <3> QED BY <2>3, <3>2 DEF KindBut, Untouched
  <2> QED BY <2>1, <2>2, <2>3 DEF Untouched
<1>15. Covered(k)'
  <2> SUFFICES ASSUME NEW slot \in slots
               PROVE  \/ slot \in Place!Range(after) \/ slot \in Awaited(k)'
                      \/ \E row \in ColdPlaced' : At(k, row)' = slot
    BY <1>1 DEF Covered
  <2>1. CASE Touched(slot)
    BY <1>8, <1>10, <2>1 DEF Touched
  <2>2. CASE ~Touched(slot)
    <3>1. slot \in HostSlots(k) /\ slot \notin Pooled(k)
      BY <1>5, <2>2
    <3>2. CASE slot \in Awaited(k)
      <4>1. slot[1] # l
        <5> SUFFICES ASSUME slot[1] = l PROVE FALSE
          OBVIOUS
        <5>1. l \in onHost[k] /\ slot \in {l} \X Place!Ranks
          BY <3>2 DEF Awaited
        <5> QED BY <1>5, <2>2, <5>1
      <4> QED BY <1>2, <3>2, <4>1
    <3>3. CASE slot \notin Awaited(k)
      <4>1. PICK row \in ColdPlaced : At(k, row) = slot
        BY <3>1, <3>3 DEF KindBut, Covered
      <4> QED BY <1>8, <1>10, <4>1
    <3> QED BY <3>2, <3>3
  <2> QED BY <2>1, <2>2
<1> QED BY <1>11, <1>12, <1>13, <1>14, <1>15 DEF KindBut

-----------------------------------------------------------------------------
(* Counting.                                                               *)

LEMMA PlaceCardinality ==
  /\ \A S : Place!Cardinality(S) = Cardinality(S)
  /\ \A S : Place!IsFiniteSet(S) <=> IsFiniteSet(S)
BY DEF Place!Cardinality, Cardinality, Place!IsFiniteSet, IsFiniteSet

LEMMA LayersFinite ==
  /\ IsFiniteSet(Place!Layers) /\ Cardinality(Place!Layers) = NumLayers
  /\ \A T \in SUBSET Place!Layers : IsFiniteSet(T) /\ Cardinality(T) \in Nat
<1>1. NumLayers \in Nat \ {0}
  BY PlaceSizes
<1>2. 0 \in Int /\ NumLayers - 1 \in Int /\ ~(0 > NumLayers - 1) /\ (NumLayers - 1) - 0 + 1 = NumLayers
  BY <1>1
<1>3. IsFiniteSet(Place!Layers) /\ Cardinality(Place!Layers) = NumLayers
  BY <1>2, FS_Interval DEF Place!Layers
<1>4. ASSUME NEW T \in SUBSET Place!Layers PROVE IsFiniteSet(T) /\ Cardinality(T) \in Nat
  BY <1>3, FS_Subset, FS_CardinalityType
<1> QED BY <1>3, <1>4

LEMMA Counted ==
  ASSUME PlaceTypes, NEW k \in Place!Kinds, NEW l \in Waiting, l \in Place!Layers,
         Waiting' = Waiting \ {l}, UNCHANGED <<S0, onHost>>
  PROVE  /\ Givers(k) \in Nat /\ Takers(k) \in Nat
         /\ Givers(k)' = IF l \in onHost[k] THEN Givers(k) + 1 ELSE Givers(k)
         /\ Takers(k)' = IF l \in onHost[k] THEN Takers(k) ELSE Takers(k) + 1
<1>1. PICK A, B : A = Placed \cap onHost[k] /\ B = Placed \ onHost[k]
  OBVIOUS
<1>2. Placed \subseteq Place!Layers
  BY DEF Placed
<1>3. IsFiniteSet(A) /\ Cardinality(A) \in Nat /\ IsFiniteSet(B) /\ Cardinality(B) \in Nat
  <2>1. A \in SUBSET Place!Layers /\ B \in SUBSET Place!Layers
    BY <1>1, <1>2
  <2> QED BY <2>1, LayersFinite
<1>4. Placed' = Placed \cup {l} /\ l \notin Placed
  BY NewlyPlaced
<1>5. l \notin A /\ l \notin B
  BY <1>1, <1>4
<1>6. Cardinality(A \cup {l}) = Cardinality(A) + 1 /\ Cardinality(B \cup {l}) = Cardinality(B) + 1
  BY <1>3, <1>5, FS_AddElement
<1>7. CASE l \in onHost[k]
  <2>1. Placed' \cap onHost'[k] = A \cup {l} /\ Placed' \ onHost'[k] = B
    BY <1>1, <1>4, <1>7
  <2> QED BY <1>1, <1>3, <1>6, <1>7, <2>1 DEF Givers, Takers
<1>8. CASE l \notin onHost[k]
  <2>1. Placed' \cap onHost'[k] = A /\ Placed' \ onHost'[k] = B \cup {l}
    BY <1>1, <1>4, <1>8
  <2> QED BY <1>1, <1>3, <1>6, <1>8, <2>1 DEF Givers, Takers
<1> QED BY <1>7, <1>8

LEMMA BalanceStays ==
  ASSUME PlaceTypes, NEW k \in Place!Kinds, Balance(k), NEW l \in Waiting, l \in Place!Layers,
         NEW short, NEW place, NEW after,
         Moved(k, l, short, place, after), Added(k, l, short, place, after),
         Waiting' = Waiting \ {l}, UNCHANGED <<mode, S0, onHost>>
  PROVE  Balance(k)'
<1>1. PICK g, t, p, n, m, e :
        /\ g = Givers(k) /\ t = Takers(k) /\ p = pinned[k] /\ n = Len(pool[k])
        /\ m = S0 /\ e = NumRows - S0
  OBVIOUS
<1>2. g \in Nat /\ t \in Nat /\ p \in Nat /\ m \in Nat /\ e \in Nat /\ short \in Nat
  <2>1. S0 \in 0 .. NumRows /\ NumRows \in Nat /\ pinned[k] \in Nat
    BY PlaceSizes DEF PlaceTypes
  <2> QED BY <1>1, <2>1, Counted DEF Moved
<1>3. n = m * g + p - e * t
  BY <1>1 DEF Balance
<1>4. pinned'[k] = p + short /\ Len(pool'[k]) = n + short + (IF l \in onHost[k] THEN m ELSE -e)
  <2>1. S0 - NumRows = -(NumRows - S0)
    BY PlaceSizes DEF PlaceTypes
  <2> QED BY <1>1, <2>1 DEF Added, Moved
<1>5. /\ Givers(k)' = IF l \in onHost[k] THEN g + 1 ELSE g
      /\ Takers(k)' = IF l \in onHost[k] THEN t ELSE t + 1
  BY <1>1, Counted
<1>6. m * (g + 1) = m * g + m /\ e * (t + 1) = e * t + e
  BY <1>2
<1>7. PICK mg, et : mg = m * g /\ et = e * t /\ mg \in Int /\ et \in Int
  BY <1>2
<1>8. PICK n2, p2, x, y :
        n2 = Len(pool'[k]) /\ p2 = pinned'[k] /\ x = m * Givers(k)' /\ y = e * Takers(k)'
  OBVIOUS
<1>9. n2 = x + p2 - y
  <2>1. CASE l \in onHost[k]
    <3>1. Len(pool'[k]) = (mg + p - et) + short + m /\ Givers(k)' = g + 1 /\ Takers(k)' = t
      BY <1>3, <1>4, <1>5, <1>7, <2>1
    <3>2. x = mg + m /\ y = et
      BY <1>6, <1>7, <1>8, <3>1
    <3>3. n2 = (mg + p - et) + short + m /\ p2 = p + short
      BY <1>4, <1>8, <3>1
    <3> QED BY <1>2, <1>7, <3>2, <3>3
  <2>2. CASE l \notin onHost[k]
    <3>1. Len(pool'[k]) = (mg + p - et) + short + -e /\ Givers(k)' = g /\ Takers(k)' = t + 1
      BY <1>3, <1>4, <1>5, <1>7, <2>2
    <3>2. x = mg /\ y = et + e
      BY <1>6, <1>7, <1>8, <3>1
    <3>3. n2 = (mg + p - et) + short + -e /\ p2 = p + short
      BY <1>4, <1>8, <3>1
    <3> QED BY <1>2, <1>7, <3>2, <3>3
  <2> QED BY <2>1, <2>2
<1> QED BY <1>1, <1>9, <1>8 DEF Balance

-----------------------------------------------------------------------------
(* When the donated slots suffice, nothing is pinned.                      *)

(* What a pool is short of, in numbers.                                    *)
LEMMA ShortOf ==
  ASSUME PlaceTypes, NEW k \in Place!Kinds, NEW l, l \notin onHost[k]
  PROVE  /\ Len(pool[k]) \in Nat /\ NumRows - S0 \in Nat
         /\ NumRows - S0 <= Len(pool[k]) <=> Place!Shortfall(k, l) = 0
<1>1. pool[k] \in Seq(HostSlots(k)) /\ S0 \in 0 .. NumRows /\ NumRows \in Nat
  BY PlaceSizes DEF PlaceTypes
<1>2. Len(pool[k]) \in Nat /\ NumRows - S0 \in Nat
  BY <1>1
<1>3. Place!Shortfall(k, l) = Place!Max({0, NumRows - S0 - Len(pool[k])})
  BY DEF Place!Shortfall
<1>4. PICK n : n = NumRows - S0 - Len(pool[k])
  OBVIOUS
<1>5. n \in Int /\ (NumRows - S0 <= Len(pool[k]) <=> n <= 0)
  BY <1>1, <1>2, <1>4
<1>6. Place!Max({0, n}) = IF 0 >= n THEN 0 ELSE n
  BY <1>5, PlaceMax
<1> QED BY <1>2, <1>3, <1>4, <1>5, <1>6

(* The last givers of kind k have come: there is enough for those who are  *)
(* still to come.                                                          *)
LEMMA EnoughForAll ==
  ASSUME PlaceTypes, NEW k \in Place!Kinds, Balance(k), pinned[k] = 0, Place!Suffices,
         NEW l \in Waiting, l \in Place!Layers, l \notin onHost[k], onHost[k] \subseteq Placed
  PROVE  Place!Shortfall(k, l) = 0
<1>1. PICK A, B : A = onHost[k] /\ B = Placed \ onHost[k]
  OBVIOUS
<1>2. Placed \subseteq Place!Layers /\ l \notin Placed
  BY DEF Placed
<1>3. A \in SUBSET Place!Layers /\ B \in SUBSET Place!Layers /\ A \cap B = {} /\ l \notin A \cup B
  BY <1>1, <1>2
<1>4. IsFiniteSet(A) /\ Cardinality(A) \in Nat /\ IsFiniteSet(B) /\ Cardinality(B) \in Nat
  BY <1>3, LayersFinite
<1>5. Cardinality(A) + Cardinality(B) + 1 <= NumLayers
  <2>1. IsFiniteSet(A \cup B) /\ Cardinality(A \cup B) = Cardinality(A) + Cardinality(B)
    <3>1. Cardinality(A \cap B) = 0
      BY <1>3, FS_EmptySet
    <3>2. IsFiniteSet(A \cup B)
          /\ Cardinality(A \cup B) = Cardinality(A) + Cardinality(B) - Cardinality(A \cap B)
      BY <1>4, FS_Union
    <3> QED BY <1>4, <3>1, <3>2
  <2>2. Cardinality((A \cup B) \cup {l}) = Cardinality(A \cup B) + 1
    BY <1>3, <2>1, FS_AddElement
  <2>3. (A \cup B) \cup {l} \in SUBSET Place!Layers
    BY <1>3
  <2>4. Cardinality((A \cup B) \cup {l}) <= Cardinality(Place!Layers)
    BY <2>3, LayersFinite, FS_Subset
  <2> QED BY <2>1, <2>2, <2>4, LayersFinite
<1>6. PICK g, t, m, e, n :
        g = Cardinality(A) /\ t = Cardinality(B) /\ m = S0 /\ e = NumRows - S0 /\ n = Len(pool[k])
  OBVIOUS
<1>7. g \in Nat /\ t \in Nat /\ m \in Nat /\ e \in Nat /\ n \in Nat /\ NumLayers \in Nat
  <2>1. S0 \in Nat /\ e \in Nat /\ n \in Nat
    BY <1>6, ShortOf DEF PlaceTypes
  <2> QED BY <1>4, <1>6, <2>1, PlaceSizes
<1>8. e * (NumLayers - g) <= m * g
  <2>1. (NumRows - S0) * (NumLayers - Cardinality(onHost[k])) <= S0 * Cardinality(onHost[k])
    BY PlaceCardinality DEF Place!Suffices
  <2> QED BY <1>1, <1>6, <2>1
<1>9. n = m * g - e * t
  <2>1. Placed \cap onHost[k] = A
    BY <1>1
  <2>2. n = m * g + 0 - e * t
    BY <1>1, <1>6, <2>1 DEF Balance, Givers, Takers
  <2>3. PICK x, y : x = m * g /\ y = e * t /\ x \in Int /\ y \in Int
    BY <1>7
  <2> QED BY <2>2, <2>3
<1>10. n >= e
  <2>1. PICK r \in Nat : NumLayers - g = t + 1 + r
    <3>1. (NumLayers - g) - (t + 1) \in Nat
      BY <1>5, <1>6, <1>7
    <3>2. NumLayers - g = t + 1 + ((NumLayers - g) - (t + 1))
      BY <1>7
    <3> QED BY <3>1, <3>2
  <2>2. e * (t + 1 + r) = e * t + e + e * r
    BY <1>7, <2>1
  <2>3. PICK x, y, z : x = m * g /\ y = e * t /\ z = e * r /\ x \in Int /\ y \in Int /\ z \in Nat
    BY <1>7
  <2>4. y + e + z <= x /\ n = x - y
    BY <1>8, <1>9, <2>1, <2>2, <2>3
  <2> QED BY <1>7, <2>3, <2>4
<1> QED BY <1>6, <1>10, ShortOf

(* Of the layers that wait, one with the most kinds on the host is served  *)
(* when no giver is left.                                                  *)
LEMMA OneIsServed ==
  ASSUME PlaceTypes, Lines, \A k \in Place!Kinds : Balance(k) /\ pinned[k] = 0, Place!Suffices,
         Waiting # {}, Waiting \subseteq Place!Layers
  PROVE  \E l \in Waiting : Place!Served(l)
<1>1. PICK f \in [Place!Layers -> 0 .. NumKinds] :
        onHost = [k \in Place!Kinds |-> {l \in Place!Layers : k <= f[l]}]
  BY DEF PlaceTypes, Place!Layouts
<1>2. NumKinds \in Nat
  BY PlaceSizes
<1> DEFINE T == {f[l] : l \in Waiting}
<1>3. T \subseteq 0 .. NumKinds /\ T # {}
  OBVIOUS
<1>4. PICK x \in T : \A y \in T : y <= x
  <2> HIDE DEF T
  <2> QED BY <1>2, <1>3, GreatestExists
<1>5. PICK l \in Waiting : f[l] = x
  OBVIOUS
<1>6. \A m \in Waiting : f[m] <= f[l]
  BY <1>4, <1>5
<1>7. ASSUME NEW k \in Place!Kinds PROVE Place!Shortfall(k, l) = 0
  <2>1. CASE l \in onHost[k]
    BY <2>1 DEF Place!Shortfall
  <2>2. CASE l \notin onHost[k]
    <3>1. ~(k <= f[l]) /\ k \in Nat /\ f[l] \in Nat
      BY <1>1, <2>2 DEF Place!Kinds
    <3>2. \A m \in Waiting : m \notin onHost[k]
      <4> TAKE m \in Waiting
      <4>1. f[m] <= f[l] /\ f[m] \in Nat
        BY <1>6
      <4>2. ~(k <= f[m])
        BY <3>1, <4>1
      <4> QED BY <1>1, <4>2
    <3>3. onHost[k] \subseteq Placed
      BY <1>1, <3>2 DEF Placed
    <3> QED BY <2>2, <3>3, EnoughForAll
  <2> QED BY <2>1, <2>2
<1> QED BY <1>7 DEF Place!Served

(* A GPU layer is placed only when the credit covers its cold rows.        *)
LEMMA CreditServes ==
  ASSUME PlaceTypes, NEW k \in Place!Kinds, Balance(k), pinned[k] = 0, Place!Suffices,
         NEW l \in Place!Layers, l \notin onHost[k],
         Unit * Givers(k) - Ratio * Takers(k) >= Ratio
  PROVE  Place!Shortfall(k, l) = 0
<1>1. PICK g, t, m, e, n :
        g = Givers(k) /\ t = Takers(k) /\ m = S0 /\ e = NumRows - S0 /\ n = Len(pool[k])
  OBVIOUS
<1>2. g \in Nat /\ t \in Nat /\ m \in Nat /\ e \in Nat /\ n \in Nat /\ NumRows \in Nat \ {0}
  <2>1. Placed \cap onHost[k] \in SUBSET Place!Layers /\ Placed \ onHost[k] \in SUBSET Place!Layers
    BY DEF Placed
  <2>2. g \in Nat /\ t \in Nat
    BY <1>1, <2>1, LayersFinite DEF Givers, Takers
  <2>3. m \in Nat /\ e \in Nat /\ n \in Nat
    BY <1>1, ShortOf DEF PlaceTypes
  <2> QED BY <2>2, <2>3, PlaceSizes
<1>3. n = m * g - e * t
  <2>1. n = m * g + 0 - e * t
    BY <1>1 DEF Balance
  <2>2. PICK x, y : x = m * g /\ y = e * t /\ x \in Int /\ y \in Int
    BY <1>2
  <2> QED BY <2>1, <2>2
<1>4. CASE m = 0
  <2>1. PICK A : A = onHost[k]
    OBVIOUS
  <2>2. A \in SUBSET Place!Layers /\ l \notin A
    <3>1. onHost[k] \subseteq Place!Layers
      BY DEF PlaceTypes, Place!Layouts
    <3> QED BY <2>1, <3>1
  <2>3. IsFiniteSet(A) /\ Cardinality(A) \in Nat
    BY <2>2, LayersFinite
  <2>4. Cardinality(A) + 1 <= NumLayers
    <3>1. Cardinality(A \cup {l}) = Cardinality(A) + 1
      BY <2>2, <2>3, FS_AddElement
    <3>2. A \cup {l} \in SUBSET Place!Layers
      BY <2>2
    <3>3. Cardinality(A \cup {l}) <= Cardinality(Place!Layers)
      BY <3>2, LayersFinite, FS_Subset
    <3> QED BY <3>1, <3>3, LayersFinite
  <2>5. e * (NumLayers - Cardinality(A)) <= m * Cardinality(A)
    <3>1. (NumRows - S0) * (NumLayers - Cardinality(onHost[k])) <= S0 * Cardinality(onHost[k])
      BY PlaceCardinality DEF Place!Suffices
    <3> QED BY <1>1, <2>1, <3>1
  <2>6. PICK c : c = NumLayers - Cardinality(A)
    OBVIOUS
  <2>7. c \in Nat \ {0} /\ e * c <= 0
    <3>1. m * Cardinality(A) = 0
      BY <1>4, <2>3
    <3> QED BY <2>3, <2>4, <2>5, <2>6, <3>1, PlaceSizes
  <2>8. e = 0
    BY <1>2, <2>7
  <2> QED BY <1>1, <1>2, <2>8, ShortOf
<1>5. CASE m # 0
  <2>1. PICK u, r : u = Unit /\ r = Ratio
    OBVIOUS
  <2>2. u = m /\ r \in Nat /\ r >= e
    BY <1>1, <1>2, <1>5, <2>1 DEF Unit, Ratio
  <2>3. u * g - r * t >= r
    BY <1>1, <2>1
  <2>4. PICK q \in Nat : r = e + q
    <3>1. r - e \in Nat /\ r = e + (r - e)
      BY <1>2, <2>2
    <3> QED BY <3>1
  <2>5. (e + q) * t = e * t + q * t
    BY <1>2
  <2>6. PICK x, y, z : x = m * g /\ y = e * t /\ z = q * t /\ x \in Int /\ y \in Int /\ z \in Nat
    BY <1>2, <2>4
  <2>7. x - (y + z) >= e + q /\ n = x - y
    BY <1>3, <2>2, <2>3, <2>4, <2>5, <2>6
  <2>8. n >= e
    BY <1>2, <2>4, <2>6, <2>7
  <2> QED BY <1>1, <2>8, ShortOf
<1> QED BY <1>4, <1>5

-----------------------------------------------------------------------------
(* One layer is placed.                                                    *)

LEMMA LayerIsPlaced ==
  ASSUME PlaceInv, pc = "next", NEW l \in Waiting, l \in Place!Layers, Place!AddLayer(l),
         Waiting' = Waiting \ {l}, UNCHANGED <<mode, S0, onHost, budget, reserve>>,
         Favourable => \A k \in Place!Kinds : Place!Shortfall(k, l) = 0
  PROVE  /\ PlaceTypes' /\ GathersFind'
         /\ \A k \in Place!Kinds : KindIsRight(k)'
         /\ mode = "static" => gathers' = {}
         /\ Favourable' => \A k \in Place!Kinds : pinned'[k] = 0
<1>1. PlaceTypes /\ gathers = {} /\ \A k \in Place!Kinds : KindIsRight(k)
  BY DEF PlaceInv, Phases
<1>2. \A k \in Place!Kinds :
        Moved(k, l, Place!Shortfall(k, l), Place!Place(k, l), Place!PoolAfter(k, l))
  BY <1>1, KindMoves
<1>3. \A k \in Place!Kinds :
        Added(k, l, Place!Shortfall(k, l), Place!Place(k, l), Place!PoolAfter(k, l))
  BY <1>1, <1>2, KindIsAdded
<1>4. /\ gathers' = {<<k, l>> : k \in {k \in Place!Kinds : ~(l \notin onHost[k] \/ mode = "static")}}
      /\ pool' = [k \in Place!Kinds |-> Place!PoolAfter(k, l)]
      /\ pinned' = [k \in Place!Kinds |-> pinned[k] + Place!Shortfall(k, l)]
      /\ host' = [k \in Place!Kinds |-> Place!HostAfter(k, l)]
      /\ arena' = [k \in Place!Kinds |-> [row \in Place!Rows |-> arena'[k][row]]]
      /\ tab' = [k \in Place!Kinds |-> [row \in Place!Rows |-> tab'[k][row]]]
      /\ home' = [k \in Place!Kinds |-> [row \in Place!Rows |-> home'[k][row]]]
  BY <1>1 DEF Place!AddLayer
<1>5. ASSUME NEW k \in Place!Kinds PROVE KindIsRight(k)'
  <2>1. KindBut(k) /\ Balance(k)
    BY <1>1 DEF KindIsRight, KindBut
  <2>2. gathers \subseteq gathers'
    BY <1>1
  <2>3. KindBut(k)'
    BY <1>1, <1>2, <1>3, <2>1, <2>2, KindStays
  <2>4. Balance(k)'
    BY <1>1, <1>2, <1>3, <2>1, BalanceStays
  <2> QED BY <2>3, <2>4 DEF KindIsRight, KindBut
<1>6. PlaceTypes'
  <2>1. ASSUME NEW k \in Place!Kinds
        PROVE  /\ pinned'[k] \in Nat /\ pool'[k] \in Seq(HostSlots(k)')
               /\ host'[k] = [slot \in HostSlots(k)' |-> host'[k][slot]]
    <3>1. HostSlots(k)' = SlotsWith(k, pinned[k] + Place!Shortfall(k, l))
      BY <1>3 DEF Added, HostSlots, SlotsWith
    <3>2. pinned[k] \in Nat /\ Place!Shortfall(k, l) \in Nat
      BY <1>1, <1>2 DEF Moved, PlaceTypes
    <3>3. pinned'[k] \in Nat
      BY <1>4, <3>2
    <3>4. pool'[k] \in Seq(SlotsWith(k, pinned[k] + Place!Shortfall(k, l)))
      <4>1. PICK short, place, after :
              /\ short = Place!Shortfall(k, l) /\ after = Place!PoolAfter(k, l)
              /\ Moved(k, l, short, place, after) /\ Added(k, l, short, place, after)
        BY <1>2, <1>3
      <4>2. pool'[k] = after
        BY <4>1 DEF Added
      <4>3. after \in Seq(SlotsWith(k, pinned[k] + short))
        BY <4>1 DEF Moved
      <4> QED BY <4>1, <4>2, <4>3
    <3>5. host'[k] = [slot \in SlotsWith(k, pinned[k] + Place!Shortfall(k, l)) |-> host'[k][slot]]
      BY <1>3 DEF Added
    <3>6. \A X : X = HostSlots(k)' /\ pool'[k] \in Seq(X) /\ host'[k] = [slot \in X |-> host'[k][slot]] =>
            pool'[k] \in Seq(HostSlots(k)') /\ host'[k] = [slot \in HostSlots(k)' |-> host'[k][slot]]
      OBVIOUS
    <3> QED BY <3>1, <3>3, <3>4, <3>5, <3>6
  <2>2. pinned' \in [Place!Kinds -> Nat]
    BY <1>4, <2>1
  <2>3. host' = [k \in Place!Kinds |-> [slot \in HostSlots(k)' |-> host'[k][slot]]]
    BY <1>4, <2>1
  <2>4. DOMAIN pool' = Place!Kinds
    BY <1>4
  <2>5. reserve' \in Nat /\ (mode' = "static" => reserve' = 0) /\ mode' \in {"elastic", "static"}
        /\ S0' \in 0 .. NumRows /\ onHost' \in Place!Layouts
    BY <1>1 DEF PlaceTypes
  <2> QED BY <1>4, <2>1, <2>2, <2>3, <2>4, <2>5 DEF PlaceTypes
<1>7. GathersFind'
  <2> SUFFICES ASSUME NEW g \in gathers'
               PROVE  /\ g \in Place!Kinds \X Placed' /\ g[2] \in onHost[g[1]]
                      /\ \A row \in Place!Hot(g[2])' : host'[g[1]][row] = row
    BY DEF GathersFind
  <2>1. PICK k \in Place!Kinds : g = <<k, l>> /\ l \in onHost[k]
    BY <1>4
  <2>2. l \in Placed'
    BY DEF Placed
  <2>3. \A row \in Place!Hot(l) : host'[k][row] = row
    <3> TAKE row \in Place!Hot(l)
    <3>1. row \in {l} \X Place!Ranks /\ row \in Awaited(k)
      BY <2>1 DEF Place!Hot, Place!Rows, Awaited
    <3>2. row \in HostSlots(k)
      BY <3>1 DEF Awaited, HostSlots, SlotsWith
    <3>3. host[k][row] = row
      BY <1>1, <3>1 DEF KindIsRight, Untouched
    <3>4. \A other \in Place!Cold(l) : Place!Place(k, l)[other] # row
      <4>1. Place!Hot(l) \cap Place!Cold(l) = {}
        BY <1>1, HotOrCold
      <4>2. \A other \in Place!Cold(l) : Place!Place(k, l)[other] = other
        BY <1>2, <2>1 DEF Moved
      <4> QED BY <4>1, <4>2
    <3> QED BY <1>3, <3>2, <3>3, <3>4 DEF Added
  <2>4. Place!Hot(l)' = Place!Hot(l)
    BY DEF Place!Hot
  <2> QED BY <2>1, <2>2, <2>3, <2>4
<1>8. mode = "static" => gathers' = {}
  BY <1>4
<1>9. ASSUME Favourable', NEW k \in Place!Kinds PROVE pinned'[k] = 0
  <2>1. Favourable
    BY <1>9 DEF Favourable, Place!Suffices, Place!SplitLayer
  <2>2. pinned[k] = 0
    BY <2>1 DEF PlaceInv, Frugal
  <2> QED BY <1>4, <2>1, <2>2
<1> QED BY <1>5, <1>6, <1>7, <1>8, <1>9

(* What PlaceInv says survives a step that touches none of it.             *)
LEMMA Unmoved ==
  ASSUME PlaceInv, Phases',
         UNCHANGED <<mode, S0, onHost, reserve, givers, takers, credit, pool, pinned, host,
                     arena, tab, home, gathers>>,
         (pc' = "serving" <=> pc = "serving") \/ reserve = 0
  PROVE  PlaceInv'
<1>1. /\ mode' = mode /\ S0' = S0 /\ onHost' = onHost /\ reserve' = reserve
      /\ givers' = givers /\ takers' = takers /\ credit' = credit /\ pool' = pool
      /\ pinned' = pinned /\ host' = host /\ arena' = arena /\ tab' = tab /\ home' = home
      /\ gathers' = gathers
  OBVIOUS
<1>2. Waiting' = Waiting /\ Placed' = Placed
  BY <1>1 DEF Waiting, Placed, Place!Range
<1>3. \A k : HostSlots(k)' = HostSlots(k) /\ Awaited(k)' = Awaited(k) /\ Pooled(k)' = Pooled(k)
  BY <1>1, <1>2 DEF HostSlots, SlotsWith, Awaited, Pooled, Place!Range
<1>4. PlaceTypes'
  BY <1>1, <1>3 DEF PlaceInv, PlaceTypes
<1>5. Lines'
  BY <1>1 DEF PlaceInv, Lines, Once, Place!Range, Place!Gives
<1>6. GathersFind'
  BY <1>1, <1>2 DEF PlaceInv, GathersFind, Place!Hot
<1>7. ColdPlaced' = ColdPlaced /\ HotPlaced' = HotPlaced
  BY <1>1, <1>2 DEF ColdPlaced, HotPlaced
<1>8. ASSUME NEW k \in Place!Kinds PROVE KindIsRight(k)'
  <2>1. KindIsRight(k)
    BY DEF PlaceInv
  <2>2. PoolIsFree(k)'
    BY <1>1, <1>3, <2>1 DEF KindIsRight, PoolIsFree, Once
  <2>3. Untouched(k)'
    BY <1>1, <1>3, <2>1 DEF KindIsRight, Untouched
  <2>4. Covered(k)'
    BY <1>1, <1>3, <1>7, <2>1 DEF KindIsRight, Covered, At
  <2>5. Balance(k)'
    BY <1>1, <1>2, <2>1 DEF KindIsRight, Balance, Givers, Takers
  <2>6. \A row \in ColdPlaced : ColdIsHome(k, row)'
    BY <1>1, <1>3, <2>1 DEF KindIsRight, ColdIsHome, At
  <2>7. \A row \in HotPlaced : HotIsHome(k, row)'
    BY <1>1, <2>1 DEF KindIsRight, HotIsHome
  <2> QED BY <1>7, <2>2, <2>3, <2>4, <2>5, <2>6, <2>7 DEF KindIsRight
<1>9. Frugal'
  <2>1. Favourable' <=> Favourable
    BY <1>1 DEF Favourable, Place!Suffices, Place!SplitLayer
  <2>2. Givers(1)' = Givers(1) /\ Takers(1)' = Takers(1) /\ Unit' = Unit /\ Ratio' = Ratio
    BY <1>1, <1>2 DEF Givers, Takers, Unit, Ratio
  <2>3. Favourable' => \A k \in Place!Kinds : pinned'[k] = IF pc' = "serving" THEN reserve' ELSE 0
    BY <1>1, <2>1 DEF PlaceInv, Frugal
  <2> QED BY <1>1, <2>2, <2>3 DEF PlaceInv, Frugal
<1> QED BY <1>4, <1>5, <1>6, <1>8, <1>9 DEF PlaceInv

LEMMA InLine ==
  ASSUME Lines
  PROVE  /\ Waiting \subseteq Place!Layers
         /\ Place!Range(givers) \cap Place!Range(takers) = {}
         /\ givers = <<>> <=> Place!Range(givers) = {}
         /\ takers = <<>> <=> Place!Range(takers) = {}
<1>1. /\ Place!Range(givers) \subseteq Place!Layers
      /\ \A x : x \in Place!Range(givers) <=> \E i \in 1 .. Len(givers) : givers[i] = x
  BY RangeIs DEF Lines
<1>2. /\ Place!Range(takers) \subseteq Place!Layers
      /\ \A x : x \in Place!Range(takers) <=> \E i \in 1 .. Len(takers) : takers[i] = x
  BY RangeIs DEF Lines
<1>3. givers = <<>> <=> Place!Range(givers) = {}
  <2>1. givers # <<>> => 1 \in 1 .. Len(givers)
    BY DEF Lines
  <2> QED BY <1>1, <2>1
<1>4. takers = <<>> <=> Place!Range(takers) = {}
  <2>1. takers # <<>> => 1 \in 1 .. Len(takers)
    BY DEF Lines
  <2> QED BY <1>2, <2>1
<1> QED BY <1>1, <1>2, <1>3, <1>4 DEF Waiting, Lines

LEMMA NextIsRight ==
  ASSUME PlaceInv, pc = "next", mode = "elastic", givers \o takers # <<>>
  PROVE  /\ Place!NextInLine \in Waiting
         /\ Favourable => \A k \in Place!Kinds : Place!Shortfall(k, Place!NextInLine) = 0
<1>1. PlaceTypes /\ Lines /\ givers \in Seq(Place!Layers) /\ takers \in Seq(Place!Layers)
  BY DEF PlaceInv, Lines
<1> DEFINE P == {l \in Place!Layers : Place!Served(l)}
<1>2. PICK s : s = Select(takers, P)
  OBVIOUS
<1>3. Place!ServedTakers = s
  BY <1>1, <1>2, PlaceSelect DEF Place!ServedTakers
<1>4. /\ s \in Seq(Place!Layers)
      /\ \A x : (\E i \in 1 .. Len(s) : s[i] = x) <=> x \in P /\ \E i \in 1 .. Len(takers) : takers[i] = x
  <2> HIDE DEF P
  <2>1. takers \in Seq(Place!Layers)
    BY <1>1
  <2> QED BY <1>2, <2>1, SelectProperties
<1>5. \A x : x \in Place!Range(takers) <=> \E i \in 1 .. Len(takers) : takers[i] = x
  BY <1>1, RangeIs
<1>6. CASE s # <<>>
  <2>1. 1 \in 1 .. Len(s) /\ Head(s) = s[1]
    BY <1>4, <1>6
  <2>2. Head(s) \in P /\ Head(s) \in Place!Range(takers)
    BY <1>4, <1>5, <2>1
  <2>3. Place!NextInLine = Head(s)
    BY <1>3, <1>6 DEF Place!NextInLine
  <2> QED BY <2>2, <2>3 DEF Waiting, Place!Served
<1>7. CASE s = <<>> /\ givers # <<>>
  <2>1. Head(givers) \in Place!Range(givers)
    BY <1>1, <1>7, WithoutHead DEF Lines
  <2>2. Place!NextInLine = Head(givers)
    BY <1>3, <1>7 DEF Place!NextInLine
  <2>3. PICK l : l = Head(givers)
    OBVIOUS
  <2>4. ASSUME NEW k \in Place!Kinds PROVE Place!Shortfall(k, l) = 0
    <3>1. l \in onHost[k] \/ S0 = NumRows
      BY <1>1, <2>1, <2>3 DEF Lines, Place!Gives
    <3>2. CASE l \in onHost[k]
      BY <3>2 DEF Place!Shortfall
    <3>3. CASE l \notin onHost[k]
      <4>1. NumRows - S0 <= Len(pool[k])
        <5>1. Len(pool[k]) \in Nat /\ NumRows \in Nat
          BY <1>1, <3>3, ShortOf, PlaceSizes
        <5> QED BY <3>1, <3>3, <5>1
      <4> QED BY <1>1, <3>3, <4>1, ShortOf
    <3> QED BY <3>2, <3>3
  <2> QED BY <2>1, <2>2, <2>3, <2>4 DEF Waiting
<1>8. CASE s = <<>> /\ givers = <<>>
  <2>1. takers # <<>>
    BY <1>8
  <2>2. Place!NextInLine = Head(takers) /\ Head(takers) \in Place!Range(takers)
    BY <1>1, <1>3, <1>8, <2>1, WithoutHead DEF Place!NextInLine, Lines
  <2>3. Waiting = Place!Range(takers) /\ Waiting \subseteq Place!Layers /\ Waiting # {}
    BY <1>1, <1>8, <2>1, InLine DEF Waiting
  <2>4. ~Favourable
    <3> SUFFICES ASSUME Favourable PROVE FALSE
      OBVIOUS
    <3>1. \A k \in Place!Kinds : Balance(k) /\ pinned[k] = 0
      BY DEF PlaceInv, KindIsRight, Frugal
    <3>2. PICK l \in Waiting : Place!Served(l)
      BY <1>1, <2>3, <3>1, OneIsServed DEF Favourable
    <3>3. l \in P /\ \E i \in 1 .. Len(takers) : takers[i] = l
      BY <1>5, <2>3, <3>2
    <3>4. \E i \in 1 .. Len(s) : s[i] = l
      BY <1>4, <3>3
    <3> QED BY <1>8, <3>4
  <2> QED BY <2>2, <2>3, <2>4
<1> QED BY <1>6, <1>7, <1>8

LEMMA PlaceElasticInv ==
  ASSUME PlaceInv, Place!PlaceElastic
  PROVE  PlaceInv'
<1>1. /\ PlaceTypes /\ Lines /\ mode = "elastic" /\ pc = "next" /\ givers \o takers # <<>>
      /\ UNCHANGED <<mode, S0, onHost, budget, reserve, credit>>
  BY DEF PlaceInv, Place!PlaceElastic, Place!rigid
<1>2. PICK l : l = Place!NextInLine
  OBVIOUS
<1>3. /\ l \in Waiting /\ l \in Place!Layers
      /\ Favourable => \A k \in Place!Kinds : Place!Shortfall(k, l) = 0
  BY <1>1, <1>2, NextIsRight, InLine
<1>4. CASE /\ Place!AddLayer(l) /\ pc' = "synchronize"
           /\ givers' = Place!Remove1(givers, l) /\ takers' = Place!Remove1(takers, l)
  <2>1. /\ givers' \in Seq(Place!Layers) /\ Once(givers')
        /\ Place!Range(givers') = Place!Range(givers) \ {l}
        /\ takers' \in Seq(Place!Layers) /\ Once(takers')
        /\ Place!Range(takers') = Place!Range(takers) \ {l}
    BY <1>1, <1>4, WithoutOne DEF Lines
  <2>2. Waiting' = Waiting \ {l}
    <3>1. Waiting' = Place!Range(givers') \cup Place!Range(takers')
      BY DEF Waiting, Place!Range
    <3> QED BY <2>1, <3>1 DEF Waiting
  <2>3. Lines'
    <3>1. \A x : Place!Gives(x)' <=> Place!Gives(x)
      BY <1>1 DEF Place!Gives
    <3>2. Place!Range(givers)' = Place!Range(givers') /\ Place!Range(takers)' = Place!Range(takers')
      BY DEF Place!Range
    <3>3. Once(givers)' /\ Once(takers)'
      BY <2>1 DEF Once
    <3> QED BY <1>1, <2>1, <3>1, <3>2, <3>3 DEF Lines
  <2>4. /\ PlaceTypes' /\ GathersFind'
        /\ \A k \in Place!Kinds : KindIsRight(k)'
        /\ Favourable' => \A k \in Place!Kinds : pinned'[k] = 0
    BY <1>1, <1>3, <1>4, <2>2, LayerIsPlaced
  <2>5. Phases' /\ Frugal'
    BY <1>1, <1>4, <2>4 DEF Phases, Frugal
  <2> QED BY <2>3, <2>4, <2>5 DEF PlaceInv
<1>5. CASE pc' = "failed" /\ UNCHANGED <<givers, takers, Place!memory>>
  <2>1. UNCHANGED <<pool, pinned, host, arena, tab, home, gathers>>
    BY <1>5 DEF Place!memory
  <2>2. Waiting' = Waiting /\ Phases'
    BY <1>1, <1>5, <2>1 DEF PlaceInv, Phases, Waiting, Place!Range
  <2> QED BY <1>1, <1>5, <2>1, <2>2, Unmoved
<1> QED BY <1>2, <1>4, <1>5 DEF Place!PlaceElastic

LEMMA SynchronizeInv ==
  ASSUME PlaceInv, Place!Synchronize
  PROVE  PlaceInv'
<1>1. pc = "synchronize" /\ gathers = {} /\ pc' = "next"
      /\ UNCHANGED <<mode, S0, onHost, reserve, givers, takers, credit, pool, pinned, host,
                     arena, tab, home, gathers>>
  BY DEF Place!Synchronize, Place!rigid, Place!memory
<1>2. Waiting' = Waiting /\ Phases'
  BY <1>1 DEF PlaceInv, Phases, Waiting, Place!Range
<1> QED BY <1>1, <1>2, Unmoved

(* The kernel copies the hot rows out of the slots they still are in.      *)
LEMMA GatherInv ==
  ASSUME PlaceInv, NEW k \in Place!Kinds, NEW l \in Place!Layers, Place!Gather(k, l)
  PROVE  PlaceInv'
<1>1. /\ <<k, l>> \in gathers /\ gathers' = gathers \ {<<k, l>>}
      /\ arena' = [arena EXCEPT ![k] =
           [row \in Place!Rows |-> IF row \in Place!Hot(l) THEN host[k][row] ELSE arena[k][row]]]
      /\ UNCHANGED <<mode, S0, onHost, reserve, givers, takers, credit, pool, pinned, host,
                     tab, home, pc>>
  BY DEF Place!Gather, Place!rigid
<1>2. PlaceTypes /\ Lines /\ GathersFind /\ Frugal /\ Phases
      /\ \A kk \in Place!Kinds : KindIsRight(kk)
  BY DEF PlaceInv
<1>3. /\ mode' = mode /\ S0' = S0 /\ onHost' = onHost /\ reserve' = reserve
      /\ givers' = givers /\ takers' = takers /\ credit' = credit /\ pool' = pool
      /\ pinned' = pinned /\ host' = host /\ tab' = tab /\ home' = home /\ pc' = pc
  BY <1>1
<1>4. Waiting' = Waiting /\ Placed' = Placed
  BY <1>3 DEF Waiting, Placed, Place!Range
<1>5. \A kk : HostSlots(kk)' = HostSlots(kk) /\ Awaited(kk)' = Awaited(kk) /\ Pooled(kk)' = Pooled(kk)
  BY <1>3, <1>4 DEF HostSlots, SlotsWith, Awaited, Pooled, Place!Range
<1>6. ColdPlaced' = ColdPlaced /\ HotPlaced' = HotPlaced
  BY <1>3, <1>4 DEF ColdPlaced, HotPlaced
<1>7. \A row \in Place!Hot(l) : host[k][row] = row /\ row[1] = l /\ row[2] < S0
  BY <1>1, <1>2 DEF GathersFind, Place!Hot
<1>8. ASSUME NEW kk \in Place!Kinds, NEW row \in Place!Rows
      PROVE  arena'[kk][row] = IF kk = k /\ row \in Place!Hot(l) THEN row ELSE arena[kk][row]
  <2>1. DOMAIN arena = Place!Kinds
    BY <1>2 DEF PlaceTypes
  <2> QED BY <1>1, <1>7, <2>1
<1>9. PlaceTypes'
  <2>1. DOMAIN arena' = Place!Kinds /\ \A kk \in Place!Kinds : arena'[kk] = [row \in Place!Rows |-> arena'[kk][row]]
    <3>1. arena = [kk \in Place!Kinds |-> [row \in Place!Rows |-> arena[kk][row]]]
      BY <1>2 DEF PlaceTypes
    <3>2. DOMAIN arena = Place!Kinds /\ \A kk \in Place!Kinds : arena[kk] = [row \in Place!Rows |-> arena[kk][row]]
      BY <3>1
    <3> QED BY <1>1, <3>2
  <2>2. arena' = [kk \in Place!Kinds |-> [row \in Place!Rows |-> arena'[kk][row]]]
    <3>1. arena' = [kk \in Place!Kinds |-> arena'[kk]]
      BY <1>1, <2>1
    <3> QED BY <2>1, <3>1
  <2> QED BY <1>2, <1>3, <1>5, <2>2 DEF PlaceTypes
<1>10. Lines'
  BY <1>2, <1>3 DEF Lines, Once, Place!Range, Place!Gives
<1>11. GathersFind'
  <2>1. \A m : Place!Hot(m)' = Place!Hot(m)
    BY <1>3 DEF Place!Hot
  <2> QED BY <1>1, <1>2, <1>3, <1>4, <2>1 DEF GathersFind
<1>12. ASSUME NEW kk \in Place!Kinds PROVE KindIsRight(kk)'
  <2>1. KindIsRight(kk)
    BY <1>2
  <2>2. PoolIsFree(kk)'
    BY <1>3, <1>5, <2>1 DEF KindIsRight, PoolIsFree, Once
  <2>3. Untouched(kk)'
    <3>1. Untouched(kk)
      BY <2>1 DEF KindIsRight
    <3>2. \A row \in Place!Rows : row[2] >= S0 => row \notin Place!Hot(l)
      BY <1>2, HotOrCold DEF Place!Cold, Place!Hot
    <3> QED BY <1>3, <1>5, <1>8, <3>1, <3>2 DEF Untouched
  <2>4. Covered(kk)'
    BY <1>3, <1>5, <1>6, <2>1 DEF KindIsRight, Covered, At
  <2>5. Balance(kk)'
    BY <1>3, <1>4, <2>1 DEF KindIsRight, Balance, Givers, Takers
  <2>6. \A row \in ColdPlaced : ColdIsHome(kk, row)'
    BY <1>3, <1>5, <2>1 DEF KindIsRight, ColdIsHome, At
  <2>7. ASSUME NEW row \in HotPlaced PROVE HotIsHome(kk, row)'
    <3>1. tab'[kk][row] = <<"gpu", row>> /\ (arena[kk][row] = row \/ <<kk, row[1]>> \in gathers)
      BY <1>3, <2>1 DEF KindIsRight, HotIsHome
    <3>2. row \in Place!Rows /\ row[2] < S0
      BY DEF HotPlaced
    <3>3. CASE kk = k /\ row[1] = l
      <4>1. row \in Place!Hot(l)
        BY <3>2, <3>3 DEF Place!Hot
      <4> QED BY <1>8, <3>1, <3>2, <3>3, <4>1 DEF HotIsHome
    <3>4. CASE ~(kk = k /\ row[1] = l)
      <4>1. <<kk, row[1]>> # <<k, l>> /\ ~(kk = k /\ row \in Place!Hot(l))
        BY <3>4 DEF Place!Hot
      <4> QED BY <1>1, <1>8, <3>1, <3>2, <4>1 DEF HotIsHome
    <3> QED BY <3>3, <3>4
  <2> QED BY <1>6, <2>2, <2>3, <2>4, <2>5, <2>6, <2>7 DEF KindIsRight
<1>13. Frugal'
  <2>1. Favourable' <=> Favourable
    BY <1>3 DEF Favourable, Place!Suffices, Place!SplitLayer
  <2>2. Givers(1)' = Givers(1) /\ Takers(1)' = Takers(1) /\ Unit' = Unit /\ Ratio' = Ratio
    BY <1>3, <1>4 DEF Givers, Takers, Unit, Ratio
  <2> QED BY <1>2, <1>3, <2>1, <2>2 DEF Frugal
<1>14. Phases'
  BY <1>1, <1>2, <1>3, <1>4 DEF Phases
<1> QED BY <1>9, <1>10, <1>11, <1>12, <1>13, <1>14 DEF PlaceInv

(* The static pass counts for one kind what holds for all of them.         *)
LEMMA Unsplit ==
  ASSUME PlaceTypes, Favourable, mode = "static", NEW k \in Place!Kinds
  PROVE  onHost[k] = onHost[1]
<1>1. 1 \in Place!Kinds
  BY PlaceSizes DEF Place!Kinds
<1>2. onHost[k] \subseteq Place!Layers /\ onHost[1] \subseteq Place!Layers
  BY <1>1 DEF PlaceTypes, Place!Layouts
<1> QED BY <1>1, <1>2 DEF Favourable, Place!SplitLayer

LEMMA GiverServed ==
  ASSUME PlaceInv, mode = "static", Favourable, NEW l \in Place!Range(givers), NEW k \in Place!Kinds
  PROVE  Place!Shortfall(k, l) = 0
<1>1. Place!Gives(l)
  BY DEF PlaceInv, Lines
<1>2. l \in onHost[1]
  BY <1>1 DEF Place!Gives
<1>3. l \in onHost[k]
  BY <1>2, Unsplit DEF PlaceInv
<1> QED BY <1>3 DEF Place!Shortfall

LEMMA TakerServed ==
  ASSUME PlaceInv, pc = "next", mode = "static", Favourable, NEW l \in Place!Range(takers),
         credit >= Ratio \/ givers = <<>>, NEW k \in Place!Kinds
  PROVE  Place!Shortfall(k, l) = 0
<1>1. PlaceTypes /\ Lines /\ Balance(k) /\ pinned[k] = 0 /\ Place!Suffices
  BY DEF PlaceInv, KindIsRight, Frugal, Favourable
<1>2. onHost[k] = onHost[1]
  BY <1>1, Unsplit
<1>3. ~Place!Gives(l) /\ l \in Waiting /\ l \in Place!Layers
  BY <1>1, InLine DEF Lines, Waiting
<1>4. l \notin onHost[k]
  BY <1>2, <1>3 DEF Place!Gives
<1>5. CASE credit >= Ratio
  <2>1. Givers(k) = Givers(1) /\ Takers(k) = Takers(1)
    BY <1>2 DEF Givers, Takers
  <2>2. credit = Unit * Givers(k) - Ratio * Takers(k)
    BY <2>1 DEF PlaceInv, Frugal
  <2>3. Unit * Givers(k) - Ratio * Takers(k) >= Ratio
    BY <1>5, <2>2
  <2> QED BY <1>1, <1>3, <1>4, <2>3, CreditServes
<1>6. CASE givers = <<>>
  <2>1. Waiting = Place!Range(takers)
    BY <1>1, <1>6, InLine DEF Waiting
  <2>2. \A m \in Waiting : m \notin onHost[1]
    BY <1>1, <2>1 DEF Lines, Place!Gives
  <2>3. onHost[k] \subseteq Place!Layers
    BY <1>1 DEF PlaceTypes, Place!Layouts
  <2>4. onHost[k] \subseteq Placed
    BY <1>2, <2>2, <2>3 DEF Placed
  <2> QED BY <1>1, <1>3, <1>4, <2>4, EnoughForAll
<1> QED BY <1>5, <1>6

(* The credit counts the layers of the first kind.                         *)
LEMMA CreditCounts ==
  ASSUME PlaceTypes, Frugal, mode = "static", NEW l \in Waiting, l \in Place!Layers,
         Waiting' = Waiting \ {l}, UNCHANGED <<S0, onHost>>,
         credit' = IF l \in onHost[1] THEN credit + Unit ELSE credit - Ratio
  PROVE  credit' = (Unit * Givers(1) - Ratio * Takers(1))'
<1>1. PICK u, r, g, t : u = Unit /\ r = Ratio /\ g = Givers(1) /\ t = Takers(1)
  OBVIOUS
<1>2. 1 \in Place!Kinds
  BY PlaceSizes DEF Place!Kinds
<1>3. /\ g \in Nat /\ t \in Nat
      /\ Givers(1)' = IF l \in onHost[1] THEN g + 1 ELSE g
      /\ Takers(1)' = IF l \in onHost[1] THEN t ELSE t + 1
  BY <1>1, <1>2, Counted
<1>4. u \in Nat /\ r \in Nat
  <2>1. S0 \in Nat /\ NumRows - S0 \in Nat
    BY PlaceSizes DEF PlaceTypes
  <2> QED BY <1>1, <2>1 DEF Unit, Ratio
<1>5. Unit' = u /\ Ratio' = r
  BY <1>1 DEF Unit, Ratio
<1>6. u * (g + 1) = u * g + u /\ r * (t + 1) = r * t + r
  BY <1>3, <1>4
<1>7. PICK ug, rt : ug = u * g /\ rt = r * t /\ ug \in Int /\ rt \in Int
  BY <1>3, <1>4
<1>8. credit = ug - rt
  BY <1>1, <1>7 DEF Frugal
<1>9. CASE l \in onHost[1]
  <2>1. u * Givers(1)' = ug + u /\ r * Takers(1)' = rt
    BY <1>3, <1>6, <1>7, <1>9
  <2>2. credit' = ug - rt + u
    BY <1>1, <1>8, <1>9
  <2>3. credit' = (ug + u) - rt
    BY <1>4, <1>7, <2>2
  <2> QED BY <1>5, <2>1, <2>3
<1>10. CASE l \notin onHost[1]
  <2>1. u * Givers(1)' = ug /\ r * Takers(1)' = rt + r
    BY <1>3, <1>6, <1>7, <1>10
  <2>2. credit' = ug - rt - r
    BY <1>1, <1>8, <1>10
  <2>3. credit' = ug - (rt + r)
    BY <1>4, <1>7, <2>2
  <2> QED BY <1>5, <2>1, <2>3
<1> QED BY <1>9, <1>10

LEMMA StaticMoves ==
  ASSUME PlaceInv, mode = "static", pc = "next", NEW l \in Waiting, l \in Place!Layers,
         Place!AddLayer(l), Lines', Waiting' = Waiting \ {l}, pc' = "next",
         UNCHANGED <<mode, S0, onHost, budget, reserve>>,
         Favourable => \A k \in Place!Kinds : Place!Shortfall(k, l) = 0,
         credit' = IF l \in onHost[1] THEN credit + Unit ELSE credit - Ratio
  PROVE  PlaceInv'
<1>1. /\ PlaceTypes' /\ GathersFind' /\ gathers' = {}
      /\ \A k \in Place!Kinds : KindIsRight(k)'
      /\ Favourable' => \A k \in Place!Kinds : pinned'[k] = 0
  BY LayerIsPlaced
<1>2. credit' = (Unit * Givers(1) - Ratio * Takers(1))'
  <2>1. PlaceTypes /\ Frugal
    BY DEF PlaceInv
  <2> QED BY <2>1, CreditCounts
<1>3. Frugal'
  BY <1>1, <1>2 DEF Frugal
<1>4. Phases'
  BY <1>1 DEF Phases
<1> QED BY <1>1, <1>3, <1>4 DEF PlaceInv

LEMMA PlaceStaticInv ==
  ASSUME PlaceInv, Place!PlaceStatic
  PROVE  PlaceInv'
<1> DEFINE unit == Place!Max({S0, 1})
           ratio == Place!Max({unit, NumRows - S0})
           host_next == givers # <<>> /\ (credit < ratio \/ takers = <<>>)
<1>1. /\ PlaceTypes /\ Lines /\ Frugal /\ Phases /\ mode = "static" /\ pc = "next"
      /\ UNCHANGED <<mode, S0, onHost, budget, reserve>>
  BY DEF PlaceInv, Place!PlaceStatic, Place!rigid
<1>2. \/ /\ host_next
         /\ Place!AddLayer(Head(givers)) /\ givers' = Tail(givers)
         /\ credit' = credit + unit /\ takers' = takers /\ pc' = pc
      \/ /\ ~host_next /\ takers # <<>>
         /\ Place!AddLayer(Head(takers)) /\ takers' = Tail(takers)
         /\ credit' = credit - ratio /\ givers' = givers /\ pc' = pc
      \/ /\ givers \o takers = <<>>
         /\ pc' = "serving" /\ UNCHANGED <<givers, takers, credit, Place!memory>>
  BY DEF Place!PlaceStatic
<1>3. unit = Unit /\ ratio = Ratio /\ ratio \in Nat /\ Unit \in Nat
  <2>1. S0 \in Nat /\ NumRows - S0 \in Nat
    BY <1>1, PlaceSizes DEF PlaceTypes
  <2>2. Place!Max({S0, 1}) = Unit /\ Unit \in Nat
    BY <2>1, PlaceMax DEF Unit
  <2>3. Place!Max({Unit, NumRows - S0}) = Ratio /\ Ratio \in Nat
    BY <2>1, <2>2, PlaceMax DEF Ratio
  <2> QED BY <2>2, <2>3
<1>4. credit \in Int
  <2>1. Givers(1) \in Nat /\ Takers(1) \in Nat
    <3>1. Placed \cap onHost[1] \in SUBSET Place!Layers /\ Placed \ onHost[1] \in SUBSET Place!Layers
      BY DEF Placed
    <3> QED BY <3>1, LayersFinite DEF Givers, Takers
  <2>2. PICK u, r, g, t : u = Unit /\ r = Ratio /\ g = Givers(1) /\ t = Takers(1)
    OBVIOUS
  <2>3. credit = u * g - r * t /\ u \in Nat /\ r \in Nat /\ g \in Nat /\ t \in Nat
    BY <1>1, <1>3, <2>1, <2>2 DEF Frugal
  <2> QED BY <2>3
<1> HIDE DEF unit, ratio
<1>5. \A x : Place!Gives(x)' <=> Place!Gives(x)
  BY <1>1 DEF Place!Gives
<1>6. Place!Range(givers)' = Place!Range(givers') /\ Place!Range(takers)' = Place!Range(takers')
      /\ (Once(givers)' <=> Once(givers')) /\ (Once(takers)' <=> Once(takers'))
  BY DEF Place!Range, Once
<1>7. CASE /\ host_next
           /\ Place!AddLayer(Head(givers)) /\ givers' = Tail(givers)
           /\ credit' = credit + unit /\ takers' = takers /\ pc' = pc
  <2>1. PICK l : l = Head(givers)
    OBVIOUS
  <2>2. /\ givers' \in Seq(Place!Layers) /\ Once(givers')
        /\ l \in Place!Range(givers) /\ Place!Range(givers') = Place!Range(givers) \ {l}
    BY <1>1, <1>7, <2>1, WithoutHead DEF Lines
  <2>3. l \in Waiting /\ l \in Place!Layers /\ l \notin Place!Range(takers)
    BY <1>1, <2>2, InLine DEF Waiting
  <2>4. Waiting' = Waiting \ {l}
    BY <1>6, <1>7, <2>2, <2>3 DEF Waiting
  <2>5. Lines'
    BY <1>1, <1>5, <1>6, <1>7, <2>2 DEF Lines
  <2>6. l \in onHost[1]
    BY <1>1, <2>2 DEF Lines, Place!Gives
  <2>7. Favourable => \A k \in Place!Kinds : Place!Shortfall(k, l) = 0
    BY <1>1, <2>2, GiverServed
  <2>8. credit' = IF l \in onHost[1] THEN credit + Unit ELSE credit - Ratio
    BY <1>3, <1>7, <2>6
  <2> QED BY <1>1, <1>7, <2>1, <2>3, <2>4, <2>5, <2>7, <2>8, StaticMoves
<1>8. CASE /\ ~host_next /\ takers # <<>>
           /\ Place!AddLayer(Head(takers)) /\ takers' = Tail(takers)
           /\ credit' = credit - ratio /\ givers' = givers /\ pc' = pc
  <2>1. PICK l : l = Head(takers)
    OBVIOUS
  <2>2. /\ takers' \in Seq(Place!Layers) /\ Once(takers')
        /\ l \in Place!Range(takers) /\ Place!Range(takers') = Place!Range(takers) \ {l}
    BY <1>1, <1>8, <2>1, WithoutHead DEF Lines
  <2>3. l \in Waiting /\ l \in Place!Layers /\ l \notin Place!Range(givers)
    BY <1>1, <2>2, InLine DEF Waiting
  <2>4. Waiting' = Waiting \ {l}
    BY <1>6, <1>8, <2>2, <2>3 DEF Waiting
  <2>5. Lines'
    BY <1>1, <1>5, <1>6, <1>8, <2>2 DEF Lines
  <2>6. l \notin onHost[1]
    BY <1>1, <2>2 DEF Lines, Place!Gives
  <2>7. credit >= Ratio \/ givers = <<>>
    <3>1. givers = <<>> \/ ~(credit < ratio)
      BY <1>8
    <3> QED BY <1>3, <1>4, <3>1
  <2>8. Favourable => \A k \in Place!Kinds : Place!Shortfall(k, l) = 0
    BY <1>1, <2>2, <2>7, TakerServed
  <2>9. credit' = IF l \in onHost[1] THEN credit + Unit ELSE credit - Ratio
    BY <1>3, <1>8, <2>6
  <2> QED BY <1>1, <1>8, <2>1, <2>3, <2>4, <2>5, <2>8, <2>9, StaticMoves
<1>9. CASE /\ givers \o takers = <<>>
           /\ pc' = "serving" /\ UNCHANGED <<givers, takers, credit, Place!memory>>
  <2>1. UNCHANGED <<givers, takers, credit, pool, pinned, host, arena, tab, home, gathers>>
    BY <1>9 DEF Place!memory
  <2>2. reserve = 0
    BY <1>1 DEF PlaceTypes
  <2>3. Waiting' = {}
    <3>1. givers = <<>> /\ takers = <<>>
      BY <1>1, <1>9 DEF Lines
    <3> QED BY <1>1, <1>6, <2>1, <3>1, InLine DEF Waiting
  <2>4. Phases'
    BY <1>1, <1>9, <2>1, <2>3 DEF Phases
  <2> QED BY <1>1, <2>1, <2>2, <2>4, Unmoved
<1> QED BY <1>2, <1>7, <1>8, <1>9

(* The reserve is pinned, and added to the pool.                           *)
LEMMA ReserveKind ==
  ASSUME PlaceTypes, NEW k \in Place!Kinds, KindIsRight(k),
         Waiting = {}, Waiting' = {}, UNCHANGED <<mode, S0, onHost, reserve, arena, tab, home, gathers>>,
         pool'[k] = pool[k] \o Place!NewRows(k, reserve), pinned'[k] = pinned[k] + reserve,
         host'[k] = [slot \in DOMAIN host[k] \cup Place!Range(Place!NewRows(k, reserve)) |->
                       IF slot \in DOMAIN host[k] THEN host[k][slot] ELSE Junk]
  PROVE  /\ KindIsRight(k)' /\ pool'[k] \in Seq(HostSlots(k)') /\ pinned'[k] \in Nat
         /\ host'[k] = [slot \in HostSlots(k)' |-> host'[k][slot]]
<1> DEFINE slots == SlotsWith(k, pinned[k] + reserve)
           d == Place!NewRows(k, reserve)
<1>1. PICK s : s = pool[k] \o d
  OBVIOUS
<1>2. reserve \in Nat /\ pinned[k] \in Nat /\ Once(pool[k]) /\ DOMAIN host[k] = HostSlots(k)
  BY DEF PlaceTypes, KindIsRight, PoolIsFree
<1>3. Pinning(k, reserve, d, s)
  BY <1>1, <1>2, RowsArePinned
<1> HIDE DEF d
<1>4. /\ HostSlots(k) \subseteq slots /\ Pooled(k) \subseteq HostSlots(k)
      /\ \A x : x \in Place!Range(d) <=> x \in slots \ HostSlots(k)
      /\ s \in Seq(slots) /\ Len(s) = Len(pool[k]) + reserve /\ Once(s)
      /\ \A x : x \in Place!Range(s) <=> x \in Pooled(k) \/ x \in slots \ HostSlots(k)
  BY <1>3 DEF Pinning
<1>5. HostSlots(k)' = slots /\ pool'[k] = s /\ Pooled(k)' = Place!Range(s)
  <2>1. HostSlots(k)' = slots
    BY DEF HostSlots, SlotsWith
  <2>2. pool'[k] = s
    BY <1>1 DEF d
  <2> QED BY <2>1, <2>2 DEF Pooled, Place!Range
<1> HIDE DEF slots
<1>6. host'[k] = [slot \in slots |-> IF slot \in HostSlots(k) THEN host[k][slot] ELSE Junk]
  <2>1. HostSlots(k) \cup Place!Range(d) = slots
    BY <1>4
  <2>2. host'[k] = [slot \in DOMAIN host[k] \cup Place!Range(d) |->
                       IF slot \in DOMAIN host[k] THEN host[k][slot] ELSE Junk]
    BY DEF d
  <2> QED BY <1>2, <2>1, <2>2
<1>7. Awaited(k) = {} /\ Awaited(k)' = {} /\ Placed' = Placed
  BY DEF Awaited, Placed
<1>8. ColdPlaced' = ColdPlaced /\ HotPlaced' = HotPlaced /\ \A row : At(k, row)' = At(k, row)
  BY <1>7 DEF ColdPlaced, HotPlaced, At
<1>9. PoolIsFree(k)'
  BY <1>4, <1>5, <1>7 DEF PoolIsFree, Once
<1>10. Untouched(k)'
  BY <1>7 DEF KindIsRight, Untouched
<1>11. Covered(k)'
  <2>1. \A slot \in HostSlots(k) : slot \in Pooled(k) \/ \E row \in ColdPlaced : At(k, row) = slot
    BY <1>7 DEF KindIsRight, Covered
  <2> QED BY <1>4, <1>5, <1>8, <2>1 DEF Covered
<1>12. Balance(k)'
  <2>1. PICK a, b, n, p : /\ a = S0 * Givers(k) /\ b = (NumRows - S0) * Takers(k)
                          /\ n = Len(pool[k]) /\ p = pinned[k]
    OBVIOUS
  <2>2. a \in Int /\ b \in Int /\ n = a + p - b
    <3>1. S0 \in Nat /\ NumRows - S0 \in Nat
      BY PlaceSizes DEF PlaceTypes
    <3>2. Givers(k) \in Nat /\ Takers(k) \in Nat
      <4>1. Placed \cap onHost[k] \in SUBSET Place!Layers /\ Placed \ onHost[k] \in SUBSET Place!Layers
        BY DEF Placed
      <4> QED BY <4>1, LayersFinite DEF Givers, Takers
    <3>3. PICK x, y, z, w : x = S0 /\ y = Givers(k) /\ z = NumRows - S0 /\ w = Takers(k)
      OBVIOUS
    <3>4. x * y \in Int /\ z * w \in Int
      BY <3>1, <3>2, <3>3
    <3> QED BY <2>1, <3>3, <3>4 DEF KindIsRight, Balance
  <2>3. n + reserve = a + (p + reserve) - b
    BY <1>2, <2>1, <2>2
  <2>4. Givers(k)' = Givers(k) /\ Takers(k)' = Takers(k)
    BY <1>7 DEF Givers, Takers
  <2>5. Len(pool'[k]) = n + reserve /\ pinned'[k] = p + reserve
    BY <1>4, <1>5, <2>1
  <2> QED BY <2>1, <2>3, <2>4, <2>5 DEF Balance
<1>13. ASSUME NEW row \in ColdPlaced PROVE ColdIsHome(k, row)'
  <2>1. ColdIsHome(k, row)
    BY DEF KindIsRight
  <2>2. At(k, row) \in HostSlots(k) /\ At(k, row) \notin Pooled(k)
    BY <2>1 DEF ColdIsHome
  <2>3. At(k, row) \in slots /\ At(k, row) \notin Place!Range(s)
    BY <1>4, <2>2
  <2>4. host'[k][At(k, row)] = row
    BY <1>6, <2>1, <2>2, <2>3 DEF ColdIsHome
  <2> QED BY <1>5, <1>7, <1>8, <2>1, <2>3, <2>4 DEF ColdIsHome
<1>14. ASSUME NEW row \in HotPlaced PROVE HotIsHome(k, row)'
  BY DEF KindIsRight, HotIsHome
<1>15. KindIsRight(k)'
  BY <1>8, <1>9, <1>10, <1>11, <1>12, <1>13, <1>14 DEF KindIsRight
<1>16. host'[k] = [slot \in slots |-> host'[k][slot]]
  BY <1>6
<1>17. \A X : X = HostSlots(k)' /\ pool'[k] \in Seq(X) /\ host'[k] = [slot \in X |-> host'[k][slot]] =>
         pool'[k] \in Seq(HostSlots(k)') /\ host'[k] = [slot \in HostSlots(k)' |-> host'[k][slot]]
  OBVIOUS
<1> QED BY <1>2, <1>4, <1>5, <1>15, <1>16, <1>17

LEMMA ReserveInv ==
  ASSUME PlaceInv, Place!Reserve
  PROVE  PlaceInv'
<1>1. /\ PlaceTypes /\ Lines /\ GathersFind /\ Frugal /\ Phases
      /\ \A k \in Place!Kinds : KindIsRight(k)
      /\ mode = "elastic" /\ pc = "next" /\ givers \o takers = <<>>
      /\ UNCHANGED <<mode, S0, onHost, reserve, givers, takers, credit, arena, tab, home, gathers>>
  BY DEF PlaceInv, Place!Reserve, Place!rigid
<1>2. Waiting = {} /\ Waiting' = {}
  <2>1. givers = <<>> /\ takers = <<>>
    BY <1>1 DEF Lines
  <2> QED BY <1>1, <2>1, InLine DEF Waiting, Place!Range
<1>3. CASE /\ pool' = [k \in Place!Kinds |-> pool[k] \o Place!NewRows(k, reserve)]
           /\ pinned' = [k \in Place!Kinds |-> pinned[k] + reserve]
           /\ host' = [k \in Place!Kinds |->
                [slot \in DOMAIN host[k] \cup Place!Range(Place!NewRows(k, reserve)) |->
                   IF slot \in DOMAIN host[k] THEN host[k][slot] ELSE Junk]]
           /\ pc' = "serving"
  <2>1. ASSUME NEW k \in Place!Kinds
        PROVE  /\ KindIsRight(k)' /\ pool'[k] \in Seq(HostSlots(k)') /\ pinned'[k] \in Nat
               /\ host'[k] = [slot \in HostSlots(k)' |-> host'[k][slot]]
    BY <1>1, <1>2, <1>3, ReserveKind
  <2>2. PlaceTypes'
    <3>1. DOMAIN pool' = Place!Kinds /\ pinned' \in [Place!Kinds -> Nat]
      BY <1>3, <2>1
    <3>2. host' = [k \in Place!Kinds |-> [slot \in HostSlots(k)' |-> host'[k][slot]]]
      BY <1>3, <2>1
    <3> QED BY <1>1, <2>1, <3>1, <3>2 DEF PlaceTypes
  <2>3. Lines'
    BY <1>1 DEF Lines, Once, Place!Range, Place!Gives
  <2>4. GathersFind' /\ Phases'
    BY <1>1, <1>2, <1>3 DEF GathersFind, Phases
  <2>5. Frugal'
    <3>1. Favourable' <=> Favourable
      BY <1>1 DEF Favourable, Place!Suffices, Place!SplitLayer
    <3>2. Favourable => \A k \in Place!Kinds : pinned'[k] = reserve
      BY <1>1, <1>3 DEF Frugal, PlaceTypes
    <3> QED BY <1>1, <1>3, <3>1, <3>2 DEF Frugal
  <2> QED BY <2>1, <2>2, <2>3, <2>4, <2>5 DEF PlaceInv
<1>4. CASE pc' = "failed" /\ UNCHANGED <<pool, pinned, host>>
  <2>1. Phases'
    BY <1>1, <1>2, <1>4 DEF Phases
  <2> QED BY <1>1, <1>4, <2>1, Unmoved
<1> QED BY <1>3, <1>4 DEF Place!Reserve

(* Before the first layer: every slot is awaited.                          *)
LEMMA PlaceInit ==
  ASSUME Place!Init
  PROVE  PlaceInv
<1>1. /\ mode \in {"elastic", "static"} /\ S0 \in 0 .. NumRows /\ onHost \in Place!Layouts
      /\ reserve \in Nat /\ (mode = "static" => reserve = 0)
      /\ credit = 0 /\ gathers = {} /\ pc = "next"
  BY PlaceSizes DEF Place!Init
<1>2. /\ pool = [k \in Place!Kinds |-> <<>>] /\ pinned = [k \in Place!Kinds |-> 0]
      /\ host = [k \in Place!Kinds |-> [slot \in onHost[k] \X Place!Ranks |-> slot]]
      /\ arena = [k \in Place!Kinds |-> [row \in Place!Rows |-> Junk]]
      /\ tab = [k \in Place!Kinds |-> [row \in Place!Rows |-> NoSlot]]
      /\ home = [k \in Place!Kinds |-> [row \in Place!Rows |-> NoSlot]]
  BY DEF Place!Init
<1>3. PICK G, T : G = {l \in Place!Layers : Place!Gives(l)} /\ T = {l \in Place!Layers : ~Place!Gives(l)}
  OBVIOUS
<1>4. givers = Place!InOrder(G) /\ takers = Place!InOrder(T)
  BY <1>3 DEF Place!Init
<1>5. /\ givers \in Seq(Place!Layers) /\ Once(givers)
      /\ Place!Range(givers) = Place!Layers \cap G
  BY <1>4, InOrderIs
<1>6. /\ takers \in Seq(Place!Layers) /\ Once(takers)
      /\ Place!Range(takers) = Place!Layers \cap T
  BY <1>4, InOrderIs
<1>7. Lines
  BY <1>3, <1>5, <1>6 DEF Lines
<1>8. Waiting = Place!Layers /\ Placed = {}
  BY <1>3, <1>5, <1>6 DEF Waiting, Placed
<1>9. ASSUME NEW k \in Place!Kinds
      PROVE  HostSlots(k) = onHost[k] \X Place!Ranks /\ Awaited(k) = onHost[k] \X Place!Ranks
  <2>1. pinned[k] = 0 /\ 0 .. 0 - 1 = {}
    BY <1>2
  <2>2. onHost[k] \subseteq Place!Layers
    BY <1>1 DEF Place!Layouts
  <2>3. HostSlots(k) = onHost[k] \X Place!Ranks
    BY <2>1 DEF HostSlots, SlotsWith
  <2> QED BY <1>8, <2>2, <2>3 DEF Awaited
<1>10. ColdPlaced = {} /\ HotPlaced = {}
  BY <1>8 DEF ColdPlaced, HotPlaced
<1>11. PlaceTypes
  <2>1. \A k \in Place!Kinds : pool[k] \in Seq(HostSlots(k)) /\ host[k] = [slot \in HostSlots(k) |-> host[k][slot]]
    BY <1>2, <1>9
  <2>2. host = [k \in Place!Kinds |-> [slot \in HostSlots(k) |-> host[k][slot]]]
    <3>1. host = [k \in Place!Kinds |-> host[k]]
      BY <1>2
    <3> QED BY <2>1, <3>1
  <2>3. arena = [k \in Place!Kinds |-> [row \in Place!Rows |-> arena[k][row]]]
    BY <1>2
  <2>4. tab = [k \in Place!Kinds |-> [row \in Place!Rows |-> tab[k][row]]]
    BY <1>2
  <2>5. home = [k \in Place!Kinds |-> [row \in Place!Rows |-> home[k][row]]]
    BY <1>2
  <2>6. DOMAIN pool = Place!Kinds /\ pinned \in [Place!Kinds -> Nat]
    BY <1>2
  <2> QED BY <1>1, <2>1, <2>2, <2>3, <2>4, <2>5, <2>6 DEF PlaceTypes
<1>12. Cardinality({}) = 0
  BY FS_EmptySet
<1>13. \A k : Givers(k) = 0 /\ Takers(k) = 0
  BY <1>8, <1>12 DEF Givers, Takers
<1>14. ASSUME NEW k \in Place!Kinds PROVE KindIsRight(k)
  <2>1. Len(pool[k]) = 0 /\ pinned[k] = 0
    BY <1>2
  <2>2. PoolIsFree(k)
    BY <2>1 DEF PoolIsFree, Once
  <2>3. Untouched(k)
    BY <1>2, <1>9 DEF Untouched
  <2>4. Covered(k)
    BY <1>9 DEF Covered
  <2>5. Balance(k)
    <3>1. S0 \in Nat /\ NumRows - S0 \in Nat
      BY <1>1, PlaceSizes
    <3>2. S0 * 0 = 0 /\ (NumRows - S0) * 0 = 0
      BY <3>1
    <3> QED BY <1>13, <2>1, <3>2 DEF Balance
  <2> QED BY <1>10, <2>2, <2>3, <2>4, <2>5 DEF KindIsRight
<1>15. Frugal
  <2>1. Unit \in Nat /\ Ratio \in Nat
    <3>1. S0 \in Nat /\ NumRows - S0 \in Nat
      BY <1>1, PlaceSizes
    <3> QED BY <3>1 DEF Unit, Ratio
  <2>2. Unit * 0 - Ratio * 0 = 0
    BY <2>1
  <2> QED BY <1>1, <1>2, <1>13, <2>2 DEF Frugal
<1>16. GathersFind /\ Phases
  BY <1>1 DEF GathersFind, Phases
<1> QED BY <1>7, <1>11, <1>14, <1>15, <1>16 DEF PlaceInv

-----------------------------------------------------------------------------
(* When the model is placed.                                               *)

(* Kind k is placed, and the cache knows it.                               *)
KindServes(k) ==
  /\ Place!Range(pool[k]) \subseteq HostSlots(k)
  /\ host[k] = [slot \in HostSlots(k) |-> host[k][slot]]
  /\ \A row \in Place!Rows : row[2] >= S0 =>
       /\ tab[k][row] = <<"host", At(k, row)>> /\ arena[k][row] = Junk
       /\ At(k, row) \in HostSlots(k) /\ At(k, row) \notin Place!Range(pool[k])
       /\ host[k][At(k, row)] = row
       /\ row[1] \in onHost[k] => At(k, row) = row
       /\ mode = "elastic" => home[k][row] = At(k, row)
  /\ \A row \in Place!Rows : row[2] < S0 =>
       tab[k][row] = <<"gpu", row>> /\ arena[k][row] = row /\ home[k][row] = NoSlot
  /\ \A slot \in HostSlots(k) :
       slot \in Place!Range(pool[k]) \/ \E row \in Place!Rows : row[2] >= S0 /\ At(k, row) = slot

LEMMA KindIsServed ==
  ASSUME PlaceInv, pc = "serving", NEW k \in Place!Kinds
  PROVE  KindServes(k)
<1>1. PlaceTypes /\ gathers = {} /\ Waiting = {} /\ KindIsRight(k)
  BY DEF PlaceInv, Phases
<1>2. Placed = Place!Layers /\ \A row \in Place!Rows : row[1] \in Placed
  BY <1>1 DEF Placed, Place!Rows
<1>3. /\ \A row \in Place!Rows : row[2] >= S0 => row \in ColdPlaced
      /\ \A row \in Place!Rows : row[2] < S0 => row \in HotPlaced
      /\ \A row \in ColdPlaced : row \in Place!Rows /\ row[2] >= S0
  BY <1>2 DEF ColdPlaced, HotPlaced
<1>4. Awaited(k) = {}
  BY <1>1 DEF Awaited
<1>5. Place!Range(pool[k]) \subseteq HostSlots(k)
  BY <1>1, RangeIs DEF PlaceTypes
<1>6. host[k] = [slot \in HostSlots(k) |-> host[k][slot]]
  BY <1>1 DEF PlaceTypes
<1>7. ASSUME NEW row \in Place!Rows, row[2] >= S0
      PROVE  /\ tab[k][row] = <<"host", At(k, row)>> /\ arena[k][row] = Junk
             /\ At(k, row) \in HostSlots(k) /\ At(k, row) \notin Place!Range(pool[k])
             /\ host[k][At(k, row)] = row
             /\ row[1] \in onHost[k] => At(k, row) = row
             /\ mode = "elastic" => home[k][row] = At(k, row)
  BY <1>1, <1>3, <1>7 DEF KindIsRight, ColdIsHome, Untouched, Pooled
<1>8. ASSUME NEW row \in Place!Rows, row[2] < S0
      PROVE  tab[k][row] = <<"gpu", row>> /\ arena[k][row] = row /\ home[k][row] = NoSlot
  BY <1>1, <1>3, <1>8 DEF KindIsRight, HotIsHome, Untouched
<1>9. ASSUME NEW slot \in HostSlots(k)
      PROVE  \/ slot \in Place!Range(pool[k])
             \/ \E row \in Place!Rows : row[2] >= S0 /\ At(k, row) = slot
  BY <1>1, <1>3, <1>4 DEF KindIsRight, Covered, Pooled
<1> QED BY <1>5, <1>6, <1>7, <1>8, <1>9 DEF KindServes

LEMMA ServedTablesLead ==
  ASSUME PlaceInv, pc = "serving"
  PROVE  Place!TablesLead
<1> SUFFICES ASSUME NEW k \in Place!Kinds, NEW row \in Place!Rows
             PROVE  tab[k][row] # NoSlot /\ Place!Deref(k, tab[k][row]) = row
  BY DEF Place!TablesLead
<1>1. KindServes(k) /\ PlaceTypes
  BY KindIsServed DEF PlaceInv
<1>2. row[2] < S0 \/ row[2] >= S0
  BY <1>1, HotOrCold
<1>3. NumLayers \in Nat /\ NumRows \in Nat /\ NoSlot \notin {"gpu", "host"} \X (Nat \X Nat)
  BY PlaceSizes
<1>4. CASE row[2] < S0
  <2>1. tab[k][row] = <<"gpu", row>> /\ arena[k][row] = row
    BY <1>1, <1>4 DEF KindServes
  <2>2. row \in Nat \X Nat
    BY <1>3 DEF Place!Rows, Place!Layers, Place!Ranks
  <2>3. tab[k][row] # NoSlot
    BY <1>3, <2>1, <2>2
  <2> QED BY <2>1, <2>3 DEF Place!Deref
<1>5. CASE row[2] >= S0
  <2>1. tab[k][row] = <<"host", At(k, row)>> /\ host[k][At(k, row)] = row
        /\ At(k, row) \in HostSlots(k)
    BY <1>1, <1>5 DEF KindServes
  <2>2. At(k, row) \in Nat \X Nat
    <3>1. onHost[k] \subseteq Place!Layers /\ pinned[k] \in Nat
      BY <1>1 DEF PlaceTypes, Place!Layouts
    <3>2. HostSlots(k) \subseteq Nat \X Nat
      BY <1>3, <3>1 DEF HostSlots, SlotsWith, Place!Layers, Place!Ranks
    <3> QED BY <2>1, <3>2
  <2>3. tab[k][row] # NoSlot
    <3>1. PICK a : a = At(k, row)
      OBVIOUS
    <3>2. tab[k][row] = <<"host", a>> /\ a \in Nat \X Nat
      BY <2>1, <2>2, <3>1
    <3> QED BY <1>3, <3>2
  <2>4. PICK a : a = At(k, row)
    OBVIOUS
  <2>5. tab[k][row] = <<"host", a>> /\ host[k][a] = row
    BY <2>1, <2>4
  <2> QED BY <2>3, <2>5 DEF Place!Deref
<1> QED BY <1>2, <1>4, <1>5

(* The elastic cache counts the slots as the placement does.               *)
LEMMA ElasticSets ==
  ASSUME NEW s, NEW h, NEW p, h = onHost, p = pinned
  PROVE  /\ Place!Elastic(s, h, p)!Layers = Place!Layers
         /\ Place!Elastic(s, h, p)!Ranks = Place!Ranks
         /\ Place!Elastic(s, h, p)!Kinds = Place!Kinds
         /\ Place!Elastic(s, h, p)!Rows = Place!Rows
         /\ \A k : Place!Elastic(s, h, p)!Slots(k) = HostSlots(k)
         /\ \A S : Place!Elastic(s, h, p)!Cardinality(S) = Cardinality(S)
<1>1. /\ Place!Elastic(s, h, p)!Layers = Place!Layers
      /\ Place!Elastic(s, h, p)!Ranks = Place!Ranks
      /\ Place!Elastic(s, h, p)!Kinds = Place!Kinds
  BY DEF Place!Elastic!Layers, Place!Elastic!Ranks, Place!Elastic!Kinds, Place!Layers,
         Place!Ranks, Place!Kinds
<1>2. Place!Elastic(s, h, p)!Rows = Place!Rows
  BY <1>1 DEF Place!Elastic!Rows, Place!Rows
<1>3. \A k : Place!Elastic(s, h, p)!Slots(k) = HostSlots(k)
  BY <1>1 DEF Place!Elastic!Slots, HostSlots, SlotsWith
<1>4. \A S : Place!Elastic(s, h, p)!Cardinality(S) = Cardinality(S)
  BY DEF Place!Elastic!Cardinality, Place!Elastic!IsFiniteSet, Cardinality, IsFiniteSet
<1> QED BY <1>1, <1>2, <1>3, <1>4

LEMMA ServedHostFits ==
  ASSUME PlaceInv, pc = "serving", NEW s, NEW h, NEW p, s = S0, h = onHost, p = pinned
  PROVE  Place!Elastic(s, h, p)!HostFits(s)
<1>1. PlaceTypes /\ NumLayers \in Nat /\ NumRows \in Nat /\ S0 \in 0 .. NumRows
  BY PlaceSizes DEF PlaceInv, PlaceTypes
<1>2. ASSUME NEW k \in Place!Kinds
      PROVE  NumLayers * (NumRows - S0) <= Cardinality(HostSlots(k))
  <2>1. KindServes(k)
    BY KindIsServed
  <2>2. PICK C : C = Place!Layers \X (S0 .. NumRows - 1)
    OBVIOUS
  <2>3. \A row \in C : row \in Place!Rows /\ row[2] >= S0
    BY <1>1, <2>2 DEF Place!Rows, Place!Ranks
  <2>4. PICK at : at = [row \in C |-> At(k, row)]
    OBVIOUS
  <2>5. at \in Injection(C, HostSlots(k))
    <3>1. \A row \in C : at[row] \in HostSlots(k) /\ host[k][at[row]] = row
      BY <2>1, <2>3, <2>4 DEF KindServes
    <3>2. at \in [C -> HostSlots(k)]
      BY <2>4, <3>1
    <3>3. \A row, other \in C : at[row] = at[other] => row = other
      BY <3>1
    <3> QED BY <3>2, <3>3 DEF Injection, IsInjective
  <2>6. IsFiniteSet(HostSlots(k))
    <3>1. onHost[k] \in SUBSET Place!Layers /\ pinned[k] \in Nat
      BY <1>1 DEF PlaceTypes, Place!Layouts
    <3>2. IsFiniteSet(onHost[k]) /\ IsFiniteSet({NumLayers})
      BY <3>1, LayersFinite, FS_Singleton
    <3>3. IsFiniteSet(Place!Ranks) /\ IsFiniteSet(0 .. pinned[k] - 1)
      BY <1>1, <3>1, FS_Interval DEF Place!Ranks
    <3>4. IsFiniteSet(onHost[k] \X Place!Ranks)
      BY <3>2, <3>3, FS_Product
    <3>5. IsFiniteSet({NumLayers} \X (0 .. pinned[k] - 1))
      BY <3>2, <3>3, FS_Product
    <3> QED BY <3>4, <3>5, FS_Union DEF HostSlots, SlotsWith
  <2>7. Cardinality(C) <= Cardinality(HostSlots(k))
    BY <2>5, <2>6, FS_Injection
  <2>8. Cardinality(C) = NumLayers * (NumRows - S0)
    <3>1. IsFiniteSet(S0 .. NumRows - 1) /\ Cardinality(S0 .. NumRows - 1) = NumRows - S0
      <4>1. S0 \in Int /\ NumRows - 1 \in Int
        BY <1>1
      <4>2. PICK a, b : a = S0 /\ b = NumRows - 1
        OBVIOUS
      <4>3. IsFiniteSet(a .. b) /\ Cardinality(a .. b) = IF a > b THEN 0 ELSE b - a + 1
        BY <4>1, <4>2, FS_Interval
      <4>4. (IF a > b THEN 0 ELSE b - a + 1) = NumRows - S0
        BY <1>1, <4>2
      <4> QED BY <4>2, <4>3, <4>4
    <3> QED BY <2>2, <3>1, LayersFinite, FS_Product
  <2> QED BY <2>7, <2>8
<1>3. ASSUME NEW k \in Place!Elastic(s, h, p)!Kinds
      PROVE  NumLayers * (NumRows - s) <=
               Place!Elastic(s, h, p)!Cardinality(Place!Elastic(s, h, p)!Slots(k))
  BY <1>2, <1>3, ElasticSets
<1> QED BY <1>3 DEF Place!Elastic!HostFits

(* The sum of equal terms.                                                 *)
LEMMA ConstantSum ==
  ASSUME NEW U, IsFiniteSet(U), NEW c \in Nat, NEW f \in [U -> Int], \A x \in U : f[x] = c,
         NEW g, IsSum(g, f, U)
  PROVE  g[U] = c * Cardinality(U)
<1>1. \A T \in SUBSET U : IsFiniteSet(T) /\ Cardinality(T) \in Nat
  BY FS_Subset, FS_CardinalityType
<1> DEFINE P == {T \in SUBSET U : g[T] = c * Cardinality(T)}
<1>2. ASSUME NEW T \in SUBSET U, \A x \in T : T \ {x} \in P PROVE T \in P
  <2>1. CASE T = {}
    <3>1. Cardinality(T) = 0 /\ g[T] = 0 /\ c * 0 = 0
      BY <2>1, FS_EmptySet DEF IsSum
    <3> QED BY <3>1
  <2>2. CASE T # {}
    <3>1. PICK x : x = First(T)
      OBVIOUS
    <3>2. x \in T /\ g[T] = c + g[T \ {x}]
      BY <2>2, <3>1, FirstInSet DEF IsSum
    <3>3. PICK n, m : n = Cardinality(T) /\ m = Cardinality(T \ {x})
      OBVIOUS
    <3>4. m = n - 1 /\ n \in Nat /\ m \in Nat
      <4>1. T \ {x} \in SUBSET U /\ IsFiniteSet(T)
        BY <1>1
      <4> QED BY <1>1, <3>2, <3>3, <4>1, FS_RemoveElement
    <3>5. g[T \ {x}] = c * m
      BY <1>2, <3>2, <3>3
    <3>6. n = m + 1 /\ c * (m + 1) = c * m + c
      BY <3>4
    <3>7. g[T] = c * n
      BY <3>2, <3>4, <3>5, <3>6
    <3> QED BY <3>3, <3>7
  <2> QED BY <2>1, <2>2
<1>3. SUBSET U \subseteq P
  <2> HIDE DEF P
  <2> QED BY <1>2, SetInduction
<1> QED BY <1>3

LEMMA ServedChunks ==
  ASSUME PlaceTypes, NEW s, NEW h, NEW p, s = S0
  PROVE  /\ \A k \in Place!Kinds : Place!Elastic(s, h, p)!ChunksForRows(k, s) = s
         /\ Place!Elastic(s, h, p)!MappedChunks <= NumKinds * NumLayers * NumRows
         /\ Place!Elastic(s, h, p)!MappedChunks \in Nat
<1>1. /\ S0 \in Nat /\ S0 <= NumRows /\ NumRows \in Nat /\ NumLayers \in Nat \ {0}
      /\ NumKinds \in Nat \ {0}
  BY PlaceSizes DEF PlaceTypes
<1>2. ASSUME NEW k \in Place!Kinds
      PROVE  Place!Elastic(s, h, p)!ChunksForRows(k, s) = s
  <2>1. (s * 1 + 1 - 1) \div 1 = s
    BY <1>1
  <2> QED BY <2>1 DEF Place!Elastic!ChunksForRows
<1> DEFINE C == Place!Kinds \X Place!Layers
           f == [kl \in C |-> S0]
<1>3. IsFiniteSet(C) /\ Cardinality(C) = NumKinds * NumLayers
  <2>1. IsFiniteSet(Place!Kinds) /\ Cardinality(Place!Kinds) = NumKinds
    <3>1. Cardinality(Place!Kinds) = IF 1 > NumKinds THEN 0 ELSE NumKinds - 1 + 1
      BY <1>1, FS_Interval DEF Place!Kinds
    <3> QED BY <1>1, <3>1, FS_Interval DEF Place!Kinds
  <2> QED BY <2>1, LayersFinite, FS_Product
<1> DEFINE m == [k \in Place!Kinds |-> [l \in Place!Layers |-> S0]]
           Q(g) == g = [T \in SUBSET C |->
                          IF T = {} THEN 0 ELSE m[First(T)[1]][First(T)[2]] + g[T \ {First(T)}]]
<1>4. f \in [C -> Int]
  BY <1>1
<1>5. ASSUME NEW g PROVE Q(g) <=> Folds(g, f, C)
  <2>1. \A T \in SUBSET C : T # {} => f[First(T)] = m[First(T)[1]][First(T)[2]]
    BY FirstInSet
  <2> HIDE DEF f, m
  <2> QED BY <2>1 DEF Folds
<1> HIDE DEF f
<1>6. PICK g : g = CHOOSE x : Q(x)
  OBVIOUS
<1>7. Q(g)
  <2>1. PICK x : Folds(x, f, C)
    BY <1>3, <1>4, FoldIsSum
  <2>2. Q(x)
    BY <1>5, <2>1
  <2> HIDE DEF Q
  <2> QED BY <1>6, <2>2
<1>8. IsSum(g, f, C)
  BY <1>3, <1>4, <1>5, <1>7, FoldIsSum
<1>9. g[C] = S0 * Cardinality(C)
  <2>1. \A x \in C : f[x] = S0
    BY DEF f
  <2>2. PICK c : c = S0 /\ c \in Nat
    BY <1>1
  <2>3. PICK U : U = C
    OBVIOUS
  <2>4. g[U] = c * Cardinality(U)
    BY <1>3, <1>4, <1>8, <2>1, <2>2, <2>3, ConstantSum
  <2> QED BY <2>2, <2>3, <2>4
<1>10. Place!Elastic(s, h, p)!MappedChunks = g[C]
  BY <1>6 DEF m, Place!Elastic!MappedChunks, Place!Elastic!Total, Place!Elastic!MapThenSumSet,
     Place!Elastic!MapThenFoldSet, Place!Elastic!Kinds, Place!Elastic!Layers, Place!Kinds,
     Place!Layers, First
<1>11. S0 * (NumKinds * NumLayers) <= NumKinds * NumLayers * NumRows
       /\ S0 * (NumKinds * NumLayers) \in Nat
  <2>1. PICK n : n = NumKinds * NumLayers
    OBVIOUS
  <2>2. n \in Nat
    BY <1>1, <2>1
  <2>3. PICK d \in Nat : NumRows = S0 + d
    <3>1. NumRows - S0 \in Nat /\ NumRows = S0 + (NumRows - S0)
      BY <1>1
    <3> QED BY <3>1
  <2>4. n * (S0 + d) = S0 * n + n * d /\ n * d \in Nat /\ S0 * n \in Nat
    BY <1>1, <2>2, <2>3
  <2>5. S0 * n <= n * NumRows
    BY <2>3, <2>4
  <2> QED BY <2>1, <2>4, <2>5
<1> QED BY <1>2, <1>3, <1>9, <1>10, <1>11

(* Where the cold rows of the GPU layers are.                              *)
LEMMA ServedPlacement ==
  ASSUME PlaceInv, pc = "serving", mode = "elastic", NEW k \in Place!Kinds,
         NEW s, NEW h, NEW p, s = S0, h = onHost, p = pinned
  PROVE  [row \in Place!Elastic(s, h, p)!ColdRows(FALSE, k) |-> home[k][row]]
           \in Place!Elastic(s, h, p)!Placements(k)
<1>1. KindServes(k)
  BY KindIsServed
<1>2. PICK A, B : /\ A = Place!Elastic(s, h, p)!ColdRows(FALSE, k)
                  /\ B = Place!Elastic(s, h, p)!ColdRows(TRUE, k)
  OBVIOUS
<1>3. A = {row \in Place!Rows : row[2] >= S0 /\ row[1] \notin onHost[k]}
  BY <1>2, ElasticSets DEF Place!Elastic!ColdRows
<1>4. B = {row \in Place!Rows : row[2] >= S0 /\ row[1] \in onHost[k]}
  BY <1>2, ElasticSets DEF Place!Elastic!ColdRows
<1>5. PICK at : at = [row \in A |-> home[k][row]]
  OBVIOUS
<1>6. \A row \in A : /\ at[row] = At(k, row) /\ At(k, row) \in HostSlots(k)
                     /\ host[k][at[row]] = row
  BY <1>1, <1>3, <1>5 DEF KindServes
<1>7. \A row \in B : host[k][row] = row
  BY <1>1, <1>4 DEF KindServes
<1>8. \A row \in A : at[row] \in HostSlots(k) \ B
  BY <1>3, <1>4, <1>6, <1>7
<1>9. at \in [A -> HostSlots(k) \ B] /\ \A row, other \in A : at[row] = at[other] => row = other
  BY <1>5, <1>6, <1>8
<1>10. Place!Elastic(s, h, p)!Slots(k) = HostSlots(k)
  BY ElasticSets
<1>11. at \in Place!Elastic(s, h, p)!Injection(A, HostSlots(k) \ B)
  BY <1>9 DEF Place!Elastic!Injection, Place!Elastic!IsInjective
<1>12. Place!Elastic(s, h, p)!Placements(k) =
         Place!Elastic(s, h, p)!Injection(A, HostSlots(k) \ B)
  BY <1>2, <1>10 DEF Place!Elastic!Placements
<1> QED BY <1>2, <1>5, <1>11, <1>12

(* The home of every row, and the slots without one.                       *)
LEMMA ServedHomes ==
  ASSUME PlaceInv, pc = "serving", mode = "elastic", NEW k \in Place!Kinds
  PROVE  /\ \A row \in Place!Rows : row[2] < S0 \/ row[2] >= S0
         /\ \A row \in Place!Rows : row[2] >= S0 => ~(row[2] < S0)
         /\ HostSlots(k) \subseteq Nat \X Nat /\ NoSlot \notin Nat \X Nat
         /\ Place!Range(pool[k]) = HostSlots(k) \ {home[k][row] : row \in Place!Rows}
         /\ DOMAIN host[k] = HostSlots(k)
         /\ \A slot \in Nat \X Nat :
              LET kept == slot \in HostSlots(k) \ Place!Range(pool[k])
              IN  /\ kept <=> \E row \in Place!Rows : home[k][row] = slot
                  /\ \A row \in Place!Rows : home[k][row] = slot => host[k][slot] = row
<1>1. KindServes(k) /\ PlaceTypes
  BY KindIsServed DEF PlaceInv
<1>2. \A row \in Place!Rows : (row[2] < S0 \/ row[2] >= S0) /\ ~(row[2] < S0 /\ row[2] >= S0)
  <2>1. S0 \in Nat
    BY <1>1, PlaceSizes DEF PlaceTypes
  <2>2. \A row \in Place!Rows : row[2] \in Nat
    BY PlaceSizes DEF Place!Rows, Place!Ranks
  <2> QED BY <2>1, <2>2
<1>3. HostSlots(k) \subseteq Nat \X Nat /\ NoSlot \notin Nat \X Nat
  <2>1. onHost[k] \subseteq Place!Layers /\ pinned[k] \in Nat
    BY <1>1 DEF PlaceTypes, Place!Layouts
  <2> QED BY <2>1, PlaceSizes DEF HostSlots, SlotsWith, Place!Layers, Place!Ranks
<1>4. \A row \in Place!Rows : row[2] < S0 => home[k][row] = NoSlot
  BY <1>1 DEF KindServes
<1>5. \A row \in Place!Rows : row[2] >= S0 =>
        /\ home[k][row] = At(k, row) /\ home[k][row] \in HostSlots(k) \ Place!Range(pool[k])
        /\ host[k][home[k][row]] = row
  BY <1>1 DEF KindServes
<1>6. \A slot \in HostSlots(k) \ Place!Range(pool[k]) : \E row \in Place!Rows : home[k][row] = slot
  BY <1>1, <1>5 DEF KindServes
<1>7. Place!Range(pool[k]) \subseteq HostSlots(k) /\ DOMAIN host[k] = HostSlots(k)
  BY <1>1 DEF KindServes
<1>8. Place!Range(pool[k]) = HostSlots(k) \ {home[k][row] : row \in Place!Rows}
  BY <1>2, <1>3, <1>4, <1>5, <1>6, <1>7
<1>9. ASSUME NEW slot \in Nat \X Nat
      PROVE  LET kept == slot \in HostSlots(k) \ Place!Range(pool[k])
             IN  /\ kept <=> \E row \in Place!Rows : home[k][row] = slot
                 /\ \A row \in Place!Rows : home[k][row] = slot => host[k][slot] = row
  <2>1. \A row \in Place!Rows : home[k][row] = slot => row[2] >= S0
    BY <1>2, <1>3, <1>4
  <2> QED BY <1>5, <1>6, <2>1
<1> QED BY <1>2, <1>3, <1>7, <1>8, <1>9

LEMMA ServedInit ==
  ASSUME PlaceInv, pc = "serving", mode = "elastic", NEW s, NEW h, NEW p,
         s = S0, h = onHost, p = pinned
  PROVE  Place!Elastic(s, h, p)!Init
<1>1. PlaceTypes
  BY DEF PlaceInv
<1>2. /\ Place!Elastic(s, h, p)!Layers = Place!Layers
      /\ Place!Elastic(s, h, p)!Kinds = Place!Kinds
      /\ Place!Elastic(s, h, p)!Rows = Place!Rows
      /\ \A k : Place!Elastic(s, h, p)!Slots(k) = HostSlots(k)
  BY ElasticSets
<1>3. [l \in Place!Layers |-> S0] = [l \in Place!Elastic(s, h, p)!Layers |-> s]
  BY <1>2
<1>4. [k \in Place!Kinds |-> [l \in Place!Layers |-> S0]] =
        [k \in Place!Elastic(s, h, p)!Kinds |->
           [l \in Place!Elastic(s, h, p)!Layers |-> Place!Elastic(s, h, p)!ChunksForRows(k, s)]]
  <2>1. \A k \in Place!Kinds : Place!Elastic(s, h, p)!ChunksForRows(k, s) = S0
    BY <1>1, ServedChunks
  <2> QED BY <1>2, <2>1
<1>5. \E place \in [Place!Elastic(s, h, p)!Kinds ->
                      UNION {Place!Elastic(s, h, p)!Placements(k) : k \in Place!Elastic(s, h, p)!Kinds}] :
        /\ \A k \in Place!Elastic(s, h, p)!Kinds : place[k] \in Place!Elastic(s, h, p)!Placements(k)
        /\ home = [k \in Place!Elastic(s, h, p)!Kinds |-> [row \in Place!Elastic(s, h, p)!Rows |->
                     IF row[2] < s THEN NoSlot
                     ELSE IF row[1] \in h[k] THEN row ELSE place[k][row]]]
  <2>1. PICK place : place = [k \in Place!Kinds |->
                       [row \in Place!Elastic(s, h, p)!ColdRows(FALSE, k) |-> home[k][row]]]
    OBVIOUS
  <2>2. \A k \in Place!Kinds : place[k] \in Place!Elastic(s, h, p)!Placements(k)
    <3> TAKE k \in Place!Kinds
    <3>1. PICK at : at = [row \in Place!Elastic(s, h, p)!ColdRows(FALSE, k) |-> home[k][row]]
      OBVIOUS
    <3>2. at \in Place!Elastic(s, h, p)!Placements(k)
      BY <3>1, ServedPlacement
    <3>3. place[k] = at
      BY <2>1, <3>1
    <3> QED BY <3>2, <3>3
  <2>3. place \in [Place!Kinds -> UNION {Place!Elastic(s, h, p)!Placements(k) : k \in Place!Kinds}]
    BY <2>1, <2>2
  <2>4. ASSUME NEW k \in Place!Kinds, NEW row \in Place!Rows
        PROVE  home[k][row] = IF row[2] < s THEN NoSlot
                              ELSE IF row[1] \in h[k] THEN row ELSE place[k][row]
    <3>1. KindServes(k)
      BY KindIsServed
    <3>2. CASE row[2] < S0
      BY <3>1, <3>2 DEF KindServes
    <3>3. CASE row[2] >= S0 /\ row[1] \in onHost[k]
      BY <3>1, <3>3, ServedHomes DEF KindServes
    <3>4. CASE row[2] >= S0 /\ row[1] \notin onHost[k]
      <4>1. row \in Place!Elastic(s, h, p)!ColdRows(FALSE, k)
        BY <1>2, <3>4 DEF Place!Elastic!ColdRows
      <4>2. place[k][row] = home[k][row]
        BY <2>1, <4>1
      <4>3. ~(row[2] < S0)
        BY <3>4, ServedHomes
      <4> QED BY <3>4, <4>2, <4>3
    <3>5. row[2] < S0 \/ row[2] >= S0
      BY ServedHomes
    <3> QED BY <3>2, <3>3, <3>4, <3>5
  <2>5. home = [k \in Place!Kinds |-> [row \in Place!Rows |->
                  IF row[2] < s THEN NoSlot ELSE IF row[1] \in h[k] THEN row ELSE place[k][row]]]
    <3>1. home = [k \in Place!Kinds |-> [row \in Place!Rows |-> home[k][row]]]
      BY <1>1 DEF PlaceTypes
    <3> QED BY <2>4, <3>1
  <2>6. place \in [Place!Elastic(s, h, p)!Kinds ->
                     UNION {Place!Elastic(s, h, p)!Placements(k) : k \in Place!Elastic(s, h, p)!Kinds}]
    BY <1>2, <2>3
  <2> QED BY <1>2, <2>2, <2>5, <2>6
<1>6. [k \in Place!Kinds |-> Place!Range(pool[k])] =
        [k \in Place!Elastic(s, h, p)!Kinds |->
           Place!Elastic(s, h, p)!Slots(k) \ {home[k][row] : row \in Place!Elastic(s, h, p)!Rows}]
  BY <1>2, ServedHomes
<1>7. tab = [k \in Place!Elastic(s, h, p)!Kinds |-> [row \in Place!Elastic(s, h, p)!Rows |->
               IF row[2] < s THEN <<"gpu", row>> ELSE <<"host", home[k][row]>>]]
  <2>1. ASSUME NEW k \in Place!Kinds, NEW row \in Place!Rows
        PROVE  tab[k][row] = IF row[2] < s THEN <<"gpu", row>> ELSE <<"host", home[k][row]>>
    <3>1. KindServes(k)
      BY KindIsServed
    <3>2. row[2] < S0 \/ (row[2] >= S0 /\ ~(row[2] < S0))
      BY ServedHomes
    <3>3. CASE row[2] < S0
      BY <3>1, <3>3 DEF KindServes
    <3>4. CASE row[2] >= S0 /\ ~(row[2] < S0)
      BY <3>1, <3>4 DEF KindServes
    <3> QED BY <3>2, <3>3, <3>4
  <2>2. tab = [k \in Place!Kinds |-> [row \in Place!Rows |-> tab[k][row]]]
    BY <1>1 DEF PlaceTypes
  <2> QED BY <1>2, <2>1, <2>2
<1>8. arena = [k \in Place!Elastic(s, h, p)!Kinds |-> [row \in Place!Elastic(s, h, p)!Rows |->
                 IF row[2] < s THEN row ELSE Junk]]
  <2>1. ASSUME NEW k \in Place!Kinds, NEW row \in Place!Rows
        PROVE  arena[k][row] = IF row[2] < s THEN row ELSE Junk
    <3>1. KindServes(k)
      BY KindIsServed
    <3>2. row[2] < S0 \/ (row[2] >= S0 /\ ~(row[2] < S0))
      BY ServedHomes
    <3> QED BY <3>1, <3>2 DEF KindServes
  <2>2. arena = [k \in Place!Kinds |-> [row \in Place!Rows |-> arena[k][row]]]
    BY <1>1 DEF PlaceTypes
  <2> QED BY <1>2, <2>1, <2>2
<1>9. [k \in Place!Kinds |-> [slot \in UNION {DOMAIN host[j] : j \in Place!Kinds} |->
         IF slot \in DOMAIN host[k] \ Place!Range(pool[k]) THEN host[k][slot] ELSE Junk]] =
      [k \in Place!Elastic(s, h, p)!Kinds |-> [slot \in Place!Elastic(s, h, p)!AllSlots |->
         IF \E row \in Place!Elastic(s, h, p)!Rows : home[k][row] = slot
         THEN CHOOSE row \in Place!Elastic(s, h, p)!Rows : home[k][row] = slot ELSE Junk]]
  <2>1. PICK all : all = UNION {DOMAIN host[j] : j \in Place!Kinds}
    OBVIOUS
  <2>2. \A j \in Place!Kinds : DOMAIN host[j] = HostSlots(j) /\ HostSlots(j) \subseteq Nat \X Nat
    BY ServedHomes
  <2>3. all = Place!Elastic(s, h, p)!AllSlots
    BY <1>2, <2>1, <2>2 DEF Place!Elastic!AllSlots
  <2>4. all \subseteq Nat \X Nat
    BY <2>1, <2>2
  <2>5. ASSUME NEW k \in Place!Kinds, NEW slot \in all
        PROVE  (IF slot \in DOMAIN host[k] \ Place!Range(pool[k]) THEN host[k][slot] ELSE Junk) =
                 IF \E row \in Place!Elastic(s, h, p)!Rows : home[k][row] = slot
                 THEN CHOOSE row \in Place!Elastic(s, h, p)!Rows : home[k][row] = slot ELSE Junk
    <3>1. /\ slot \in DOMAIN host[k] \ Place!Range(pool[k]) <=>
               \E row \in Place!Rows : home[k][row] = slot
          /\ \A row \in Place!Rows : home[k][row] = slot => host[k][slot] = row
      BY <2>2, <2>4, ServedHomes
    <3>2. CASE \E row \in Place!Rows : home[k][row] = slot
      <4>1. PICK r : r = CHOOSE row \in Place!Elastic(s, h, p)!Rows : home[k][row] = slot
        OBVIOUS
      <4>2. r \in Place!Rows /\ home[k][r] = slot
        BY <1>2, <3>2, <4>1
      <4>3. host[k][slot] = r
        BY <3>1, <4>2
      <4> QED BY <1>2, <3>1, <3>2, <4>1, <4>3
    <3>3. CASE ~\E row \in Place!Rows : home[k][row] = slot
      BY <1>2, <3>1, <3>3
    <3> QED BY <3>2, <3>3
  <2>6. ASSUME NEW k \in Place!Kinds
        PROVE  [slot \in all |->
                  IF slot \in DOMAIN host[k] \ Place!Range(pool[k]) THEN host[k][slot] ELSE Junk] =
               [slot \in Place!Elastic(s, h, p)!AllSlots |->
                  IF \E row \in Place!Elastic(s, h, p)!Rows : home[k][row] = slot
                  THEN CHOOSE row \in Place!Elastic(s, h, p)!Rows : home[k][row] = slot ELSE Junk]
    BY <2>3, <2>5, Zenon
  <2> QED BY <1>2, <2>1, <2>6, Zenon
<1>10. /\ 0 \in 0 .. NumKinds * NumLayers * NumRows
       /\ 0 + Place!Elastic(s, h, p)!MappedChunks <= NumKinds * NumLayers * NumRows
  <2>1. PICK m, n : m = Place!Elastic(s, h, p)!MappedChunks /\ n = NumKinds * NumLayers * NumRows
    OBVIOUS
  <2>2. m <= n /\ m \in Nat
    BY <1>1, <2>1, ServedChunks
  <2>3. n \in Nat
    BY <2>1, PlaceSizes
  <2> QED BY <2>1, <2>2, <2>3
<1>11. [cmd |-> "idle", pc |-> "idle", arg |-> 0, goal |-> 0, lid |-> 0, to |-> 0, kind |-> 1] =
         Place!Elastic(s, h, p)!IdleOp
  BY DEF Place!Elastic!IdleOp
<1> QED BY <1>3, <1>4, <1>5, <1>6, <1>7, <1>8, <1>9, <1>10, <1>11 DEF Place!Elastic!Init

(* The invariant says what the placement promises.                         *)
LEMMA PlacementServes ==
  ASSUME PlaceInv
  PROVE  Place!PlacedForServing
<1> SUFFICES ASSUME pc = "serving"
             PROVE  /\ Place!TablesLead
                    /\ mode = "elastic" => Place!TakenOver
                    /\ Favourable => \A k \in Place!Kinds : pinned[k] = reserve
  BY DEF Place!PlacedForServing, Favourable
<1>1. ASSUME mode = "elastic" PROVE Place!TakenOver
  <2> SUFFICES ASSUME NEW s \in {S0}, NEW h \in {onHost}, NEW p \in {pinned}
               PROVE  Place!Elastic(s, h, p)!HostFits(s) /\ Place!Elastic(s, h, p)!Init
    BY DEF Place!TakenOver
  <2> QED BY <1>1, ServedHostFits, ServedInit
<1>2. Favourable => \A k \in Place!Kinds : pinned[k] = reserve
  BY DEF PlaceInv, Frugal
<1> QED BY <1>1, <1>2, ServedTablesLead

LEMMA PlaceNext ==
  ASSUME PlaceInv, Place!Next
  PROVE  PlaceInv'
<1>1. \/ Place!PlaceElastic \/ Place!PlaceStatic \/ Place!Synchronize \/ Place!Reserve
      \/ \E k \in Place!Kinds, l \in Place!Layers : Place!Gather(k, l)
  BY DEF Place!Next
<1>2. CASE Place!PlaceElastic
  BY <1>2, PlaceElasticInv
<1>3. CASE Place!PlaceStatic
  BY <1>3, PlaceStaticInv
<1>4. CASE Place!Synchronize
  BY <1>4, SynchronizeInv
<1>5. CASE Place!Reserve
  BY <1>5, ReserveInv
<1>6. CASE \E k \in Place!Kinds, l \in Place!Layers : Place!Gather(k, l)
  BY <1>6, GatherInv
<1> QED BY <1>1, <1>2, <1>3, <1>4, <1>5, <1>6

LEMMA PlaceStutters ==
  ASSUME PlaceInv, UNCHANGED <<pc, placeVars>>
  PROVE  PlaceInv'
<1>1. UNCHANGED <<pc, mode, S0, onHost, reserve, givers, takers, credit, pool, pinned, host,
                  arena, tab, home, gathers>>
  BY DEF placeVars
<1>2. Waiting' = Waiting /\ Phases'
  BY <1>1 DEF PlaceInv, Phases, Waiting, Place!Range
<1> QED BY <1>1, <1>2, Unmoved

-----------------------------------------------------------------------------
(* The parts together: in each only its own invariant is kept.             *)
Inv ==
  /\ part \in {"place", "ngram", "control"}
  /\ part = "place" => PlaceInv
  /\ part = "ngram" => NgramInv
  /\ part = "control" => ControlInv

THEOREM Invariance == Spec => []Inv
<1>1. Init => Inv
  BY PlaceInit, NgramInit, ControlInit DEF Init, Inv
<1>2. ASSUME Inv, [Next]_vars
      PROVE  Inv'
  <2>1. CASE UNCHANGED vars
    <3>1. UNCHANGED part
      BY <2>1 DEF vars
    <3>2. ASSUME NgramInv PROVE NgramInv'
      <4>1. UNCHANGED <<pc, toks, kv, gdn, ple, saved, draft, target, allocated>>
        BY <2>1 DEF vars, ngramVars
      <4> QED BY <3>2, <4>1 DEF NgramInv, Prefix, IsChain, Rows, Ngram!RowIds,
                               Ngram!Done, Ngram!Window, Ngram!LastOf
    <3>3. ASSUME ControlInv PROVE ControlInv'
      BY <2>1, <3>3 DEF vars, controlVars, ControlInv, ControlTypes, Excused
    <3>4. ASSUME PlaceInv PROVE PlaceInv'
      <4>1. UNCHANGED <<pc, placeVars>>
        BY <2>1 DEF vars
      <4> QED BY <3>4, <4>1, PlaceStutters
    <3> QED BY <1>2, <3>1, <3>2, <3>3, <3>4 DEF Inv
  <2>2. CASE part = "place" /\ Place!Next /\ UNCHANGED <<part, ngramVars, controlVars>>
    BY <1>2, <2>2, PlaceNext DEF Inv
  <2>3. CASE part = "ngram" /\ Ngram!Next /\ UNCHANGED <<part, placeVars, controlVars>>
    BY <1>2, <2>3, NgramStep DEF Inv
  <2>4. CASE part = "control" /\ Control!Next /\ OnlyControl
    <3>1. ControlInv'
      BY <1>2, <2>4, ClientInv, ServerInv DEF Inv, Control!Next
    <3> QED BY <2>4, <3>1 DEF Inv, OnlyControl
  <2> QED BY <1>2, <2>1, <2>2, <2>3, <2>4 DEF Next
<1> QED BY <1>1, <1>2, PTL DEF Spec

(* When the model is placed every kernel finds its expert behind the       *)
(* address table, the elastic cache is in a state it starts to serve from, *)
(* and nothing but the reserve was pinned if the donated slots are enough; *)
(* for any number of layers, rows and kinds, any split of the layers by    *)
(* the offloader, any size and any budget (expert_elastic.py:169,          *)
(* placement.py:172).                                                      *)
THEOREM PlacementIsReady == Spec => []PlacedForServing
<1>1. Inv => PlacedForServing
  BY PlacementServes DEF Inv, PlacedForServing
<1> QED BY <1>1, Invariance, PTL

(* No answer of the target was computed from states that disagree with the *)
(* sequence, and between steps KV cache, GDN state, n-gram context and     *)
(* convolution stand after the same tokens, for every tree of the corpus,  *)
(* every answer of the target and every translation of the slots           *)
(* (ngram_ple.py:60, 142).                                                 *)
THEOREM SpeculationIsLossless == Spec => []Lossless
<1>1. ASSUME Inv PROVE Lossless
  <2>1. ASSUME part = "ngram" PROVE Ngram!Lossless
    <3>1. NgramInv
      BY <1>1, <2>1 DEF Inv
    <3>2. Wrong \notin Ngram!ToSet(toks)
      <4>1. toks \in Seq(Tokens)
        BY <3>1 DEF NgramInv
      <4>2. \A i \in DOMAIN toks : toks[i] \in Tokens
        BY <4>1
      <4> QED BY <4>2, Sizes DEF Ngram!ToSet
    <3>3. Ngram!InStep
      BY <3>1, Sizes DEF NgramInv, Ngram!InStep
    <3> QED BY <3>2, <3>3 DEF Ngram!Lossless
  <2> QED BY <2>1 DEF Lossless
<1> QED BY <1>1, Invariance, PTL

(* As long as no autofill and no regrow reports and the poll executes no   *)
(* command a second time, a sweep does not measure before its command was  *)
(* executed, for any number of commands and ticks (expert_elastic.py:364). *)
THEOREM AnswerComesAfter == Spec => [](part = "control" => Control!AnsweredMeansDone)
<1>1. Inv => (part = "control" => Control!AnsweredMeansDone)
  <2> SUFFICES ASSUME ControlInv, part = "control" PROVE Control!AnsweredMeansDone
    BY DEF Inv
  <2> QED BY CommandsAssumption DEF ControlInv, ControlTypes, Excused, Control!AnsweredMeansDone,
                                    Control!Answered, Control!Stale
<1> QED BY <1>1, Invariance, PTL
=============================================================================
