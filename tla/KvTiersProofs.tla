--------------------------- MODULE KvTiersProofs ---------------------------
(***************************************************************************)
(* Proofs about KvTiers, for every number of requests, slots, ring rows,   *)
(* layers and tokens: the allocator never hands out a slot twice; reads    *)
(* are current unless slots of one write share a ring row and there are    *)
(* several layers; a single request keeps its newest tokens in the ring.   *)
(***************************************************************************)
EXTENDS KvTiers, PrefixLemmas

-----------------------------------------------------------------------------
(* The inductive invariant.                                                *)

(* A slot is free, or stands for one token of one request.                 *)
Apart ==
  /\ \A p, q \in Reqs : \A i \in 1 .. Len(slotsOf[p]), j \in 1 .. Len(slotsOf[q]) :
       slotsOf[p][i] = slotsOf[q][j] => p = q /\ i = j
  /\ \A q \in Reqs : \A i \in 1 .. Len(slotsOf[q]), j \in 1 .. Len(freeList) :
       slotsOf[q][i] # freeList[j]

Progress ==
  /\ pc \in {"ready", "verify"} => layer = 0
  /\ pc = "ready" => \A q \in Reqs : fresh[q] = 0

(* A slot owns its own row only.                                           *)
Owners == \A r \in RingRows : owner[r] # Nobody => RingRow(owner[r]) = r

(* A layer of the forward has run the stamp launch: the rows it writes are *)
(* owned by slots it writes.                                               *)
Stamped ==
  pc = "read" \/ (pc = "store" /\ layer > 0) =>
    \A s \in Written : owner[RingRow(s)] \in Written

TiersInv == TypeOK /\ Apart /\ Progress /\ Owners /\ Stamped

(* Slot s reads as its own token in layer l, now and when its row is lost. *)
Stored(l, s) == int4[l][s] = s /\ (Hot(s) => ring[l][RingRow(s)] = s)

(* Layer l has stored the tokens of the running forward.                   *)
Passed(l) == pc \in {"ready", "verify"} \/ l < layer \/ (l = layer /\ pc = "read")

Memory ==
  \A q \in Reqs : \A i \in 1 .. Len(slotsOf[q]) : \A l \in Layers :
    i <= Len(slotsOf[q]) - fresh[q] \/ Passed(l) => Stored(l, slotsOf[q][i])

(* No slot of a write that is accepted shares its ring row with another.   *)
RowsApart == FitsRing => \A s, t \in Written : RingRow(s) = RingRow(t) => s = t

OneWinner == RowsApart \/ cache.layers = 1

-----------------------------------------------------------------------------
(* One request and the paged allocator: a stack of slots.                  *)
OneStack == cache.reqs = 1 /\ ~cache.freeAtTail

Stack ==
  LET last == Len(slotsOf[1])
  IN  /\ \A i \in 1 .. last : slotsOf[1][i] = i
      /\ Len(freeList) + last = cache.slots
      /\ \A j \in 1 .. Len(freeList) : freeList[j] = last + j

(* The forward has run a stamp launch.                                     *)
Launched == pc \in {"read", "verify"} \/ layer > 0

(* The slots of the forward are hot when they are stamped, those before    *)
(* the forward unless a stamped slot has taken the row.                    *)
Window ==
  LET last == Len(slotsOf[1])
      old == last - fresh[1]
  IN  \A i \in 1 .. last :
        \/ i > old /\ Launched
        \/ i <= old /\ (i = old \/ old - i <= R - cache.maxTokens) /\ (Launched => last - i < R)
        => Hot(i)

StackInv == OneStack => Stack /\ Window

-----------------------------------------------------------------------------

(* Sizes, numbers, sequences.                                              *)

LEMMA Sizes ==
  cache \in Caches =>
    /\ cache.reqs \in Nat \ {0} /\ cache.slots \in Nat \ {0} /\ cache.layers \in Nat \ {0}
    /\ cache.maxTokens \in Nat \ {0} /\ cache.freeAtTail \in BOOLEAN
    /\ R \in 1 .. cache.slots /\ R \in Nat \ {0}
    /\ Nobody \notin Slots /\ Junk \notin Slots
  BY SizesAssumption DEF SizesOK, R, Slots

(* What depends on the cache only does not change.                         *)
LEMMA Rigid ==
  UNCHANGED cache => UNCHANGED <<Reqs, Slots, R, RingRows, Layers>>
  BY DEF Reqs, Slots, R, RingRows, Layers

LEMMA RowBounds ==
  cache \in Caches => \A s \in Nat : RingRow(s) \in RingRows
<1> SUFFICES ASSUME cache \in Caches, NEW s \in Nat PROVE RingRow(s) \in RingRows
  OBVIOUS
<1>1. R \in Nat \ {0}
  BY Sizes
<1>2. \A r \in Nat \ {0} : s % r \in 0 .. r - 1
  OBVIOUS
<1> QED BY <1>1, <1>2 DEF RingRow, RingRows

(* Numbers with the same remainder are at least the divisor apart.         *)
LEMMA SameRowFarApart ==
  ASSUME NEW a \in Nat, NEW b \in Nat, NEW r \in Nat \ {0}, a % r = b % r, a < b
  PROVE  a + r <= b
<1>1. /\ a = r * (a \div r) + (a % r) /\ b = r * (b \div r) + (b % r)
      /\ a \div r \in Nat /\ b \div r \in Nat /\ a % r \in 0 .. r - 1
  OBVIOUS
<1>2. PICK x, y, m : x = a \div r /\ y = b \div r /\ m = a % r
  OBVIOUS
<1>3. a = r * x + m /\ b = r * y + m /\ x \in Nat /\ y \in Nat /\ m \in Nat
  BY <1>1, <1>2
<1>4. x < y
  <2>1. \A i, j \in Nat : j <= i => r * j <= r * i
    OBVIOUS
  <2>2. r * x \in Nat /\ r * y \in Nat
    BY <1>3
  <2>3. y <= x => r * y <= r * x
    BY <1>3, <2>1
  <2> QED BY <1>3, <2>2, <2>3
<1>5. r * (x + 1) = r * x + r
  BY <1>3, Distributes
<1>6. r * (x + 1) <= r * y
  <2>1. \A i, j \in Nat : j <= i => r * j <= r * i
    OBVIOUS
  <2>2. x + 1 \in Nat /\ x + 1 <= y
    BY <1>3, <1>4
  <2> QED BY <1>3, <2>1, <2>2
<1>7. r * x \in Nat /\ r * y \in Nat
  BY <1>3
<1> QED BY <1>3, <1>5, <1>6, <1>7

LEMMA LastOfFacts ==
  ASSUME NEW S, NEW seq \in Seq(S), NEW n \in 0 .. Len(seq)
  PROVE  /\ LastOf(seq, n) \in Seq(S) /\ Len(LastOf(seq, n)) = n
         /\ \A i \in 1 .. n : LastOf(seq, n)[i] = seq[Len(seq) - n + i]
<1> DEFINE a == Len(seq) - n + 1
           b == Len(seq)
<1>1. a \in Int /\ b \in Int /\ b - a + 1 = n /\ (IF a <= b THEN b - a + 1 ELSE 0) = n
  OBVIOUS
<1>2. \A i \in a .. b : seq[i] \in S
  OBVIOUS
<1>3. \A i \in 1 .. n : a + i - 1 = Len(seq) - n + i
  OBVIOUS
<1> HIDE DEF a, b
<1>4. /\ SubSeq(seq, a, b) \in Seq(S) /\ Len(SubSeq(seq, a, b)) = n
      /\ \A i \in 1 .. n : SubSeq(seq, a, b)[i] = seq[a + i - 1]
  BY <1>1, <1>2, SubSeqProperties
<1>5. LastOf(seq, n) = SubSeq(seq, a, b)
  BY DEF LastOf, a, b
<1> QED BY <1>3, <1>4, <1>5

LEMMA FirstOfFacts ==
  ASSUME NEW S, NEW seq \in Seq(S), NEW n \in 0 .. Len(seq)
  PROVE  /\ SubSeq(seq, 1, n) \in Seq(S) /\ Len(SubSeq(seq, 1, n)) = n
         /\ \A i \in 1 .. n : SubSeq(seq, 1, n)[i] = seq[i]
<1>1. \A i \in 1 .. n : seq[i] \in S
  OBVIOUS
<1>2. /\ SubSeq(seq, 1, n) \in Seq(S)
      /\ Len(SubSeq(seq, 1, n)) = IF 1 <= n THEN n - 1 + 1 ELSE 0
      /\ \A i \in 1 .. n - 1 + 1 : SubSeq(seq, 1, n)[i] = seq[1 + i - 1]
  BY <1>1, SubSeqProperties
<1>3. n - 1 + 1 = n /\ (IF 1 <= n THEN n - 1 + 1 ELSE 0) = n /\ \A i \in 1 .. n : 1 + i - 1 = i
  OBVIOUS
<1> QED BY <1>2, <1>3

(* An injection of 1 .. n into itself reaches every number.                *)
LEMMA Pigeonhole ==
  ASSUME NEW n \in Nat, NEW f \in [1 .. n -> 1 .. n],
         \A i, j \in 1 .. n : f[i] = f[j] => i = j
  PROVE  \A y \in 1 .. n : \E i \in 1 .. n : f[i] = y
<1>1. f \in Injection(1 .. n, 1 .. n)
  BY DEF Injection, IsInjective
<1>2. IsFiniteSet(1 .. n)
  BY FS_Interval
<1>3. f \in Surjection(1 .. n, 1 .. n)
  BY <1>1, <1>2, FS_Injection
<1> QED BY <1>3 DEF Surjection

-----------------------------------------------------------------------------
(* The slots of a forward, of a batch, of a release.                       *)

(* The slots of a request are slots; its last fresh ones are written.      *)
LEMMA SlotFacts ==
  TypeOK =>
    \A q \in Reqs :
      /\ slotsOf[q] \in Seq(Slots \ {0}) /\ Len(slotsOf[q]) \in Nat
      /\ fresh[q] \in 0 .. Len(slotsOf[q])
      /\ \A i \in 1 .. Len(slotsOf[q]) :
           slotsOf[q][i] \in Slots \ {0} /\ slotsOf[q][i] \in Nat
<1> SUFFICES ASSUME TypeOK, NEW q \in Reqs
             PROVE  /\ slotsOf[q] \in Seq(Slots \ {0}) /\ Len(slotsOf[q]) \in Nat
                    /\ fresh[q] \in 0 .. Len(slotsOf[q])
                    /\ \A i \in 1 .. Len(slotsOf[q]) :
                         slotsOf[q][i] \in Slots \ {0} /\ slotsOf[q][i] \in Nat
  OBVIOUS
<1>1. slotsOf[q] \in Seq(Slots \ {0}) /\ fresh[q] \in 0 .. Len(slotsOf[q])
  BY DEF TypeOK
<1>2. \A s \in Slots \ {0} : s \in Nat
  BY Sizes DEF TypeOK, Slots
<1>3. Len(slotsOf[q]) \in Nat /\ \A i \in 1 .. Len(slotsOf[q]) : slotsOf[q][i] \in Slots \ {0}
  BY <1>1
<1> QED BY <1>1, <1>2, <1>3

LEMMA WrittenFacts ==
  TypeOK =>
    \A s : s \in Written <=>
      \E q \in Reqs : \E i \in 1 .. Len(slotsOf[q]) :
        i > Len(slotsOf[q]) - fresh[q] /\ slotsOf[q][i] = s
<1> SUFFICES ASSUME TypeOK, NEW s
             PROVE  s \in Written <=>
                      \E q \in Reqs : \E i \in 1 .. Len(slotsOf[q]) :
                        i > Len(slotsOf[q]) - fresh[q] /\ slotsOf[q][i] = s
  OBVIOUS
<1>1. s \in Written <=> \E q \in Reqs : s \in ToSet(LastOf(slotsOf[q], fresh[q]))
  BY DEF Written
<1>2. ASSUME NEW q \in Reqs
      PROVE  s \in ToSet(LastOf(slotsOf[q], fresh[q])) <=>
               \E i \in 1 .. Len(slotsOf[q]) :
                 i > Len(slotsOf[q]) - fresh[q] /\ slotsOf[q][i] = s
  <2> DEFINE seq == slotsOf[q]
             n == fresh[q]
             last == LastOf(seq, n)
  <2>1. seq \in Seq(Slots \ {0}) /\ n \in 0 .. Len(seq) /\ Len(seq) \in Nat
    BY SlotFacts
  <2> HIDE DEF seq, n, last
  <2>2. /\ last \in Seq(Slots \ {0}) /\ Len(last) = n
        /\ \A i \in 1 .. n : last[i] = seq[Len(seq) - n + i]
    BY <2>1, LastOfFacts DEF last
  <2>3. s \in ToSet(last) <=> \E i \in 1 .. n : seq[Len(seq) - n + i] = s
    BY <2>2 DEF ToSet
  <2>4. ASSUME NEW i \in 1 .. n
        PROVE  Len(seq) - n + i \in 1 .. Len(seq) /\ Len(seq) - n + i > Len(seq) - n
    BY <2>1
  <2>5. ASSUME NEW i \in 1 .. Len(seq), i > Len(seq) - n
        PROVE  i - (Len(seq) - n) \in 1 .. n /\ Len(seq) - n + (i - (Len(seq) - n)) = i
    BY <2>1, <2>5
  <2>6. s \in ToSet(last) <=> \E i \in 1 .. Len(seq) : i > Len(seq) - n /\ seq[i] = s
    BY <2>3, <2>4, <2>5
  <2> QED BY <2>6 DEF seq, n, last
<1> QED BY <1>1, <1>2

(* The batch that takes n[q] slots for request q takes them one request    *)
(* after the other.                                                        *)
LEMMA Segments ==
  ASSUME cache \in Caches, NEW n \in [Reqs -> 0 .. cache.maxTokens]
  PROVE  /\ TokensBefore(n, cache.reqs + 1) \in Nat
         /\ \A q \in Reqs :
              /\ n[q] \in Nat /\ TokensBefore(n, q) \in Nat
              /\ TokensBefore(n, q) + n[q] <= TokensBefore(n, cache.reqs + 1)
              /\ \A p \in Reqs : p < q => TokensBefore(n, p) + n[p] <= TokensBefore(n, q)
<1> DEFINE m == cache.reqs
           sum == PrefixSums(n, m)
<1>1. m \in Nat /\ Reqs = 1 .. m /\ \A i \in 1 .. m : n[i] \in Nat
  BY Sizes DEF Reqs
<1>2. sum \in [0 .. m -> Nat] /\ \A i \in 1 .. m : sum[i] = sum[i - 1] + n[i]
  BY <1>1, SumsDef
<1>3. \A i, j \in 0 .. m : i <= j => sum[i] <= sum[j]
  <2> SUFFICES ASSUME NEW i \in 0 .. m, NEW j \in 0 .. m, i <= j PROVE sum[i] <= sum[j]
    OBVIOUS
  <2>1. j \in i .. m
    BY <1>1
  <2> HIDE DEF m
  <2> QED BY <1>1, <2>1, SumsGrow
<1>4. \A q : TokensBefore(n, q) = sum[q - 1]
  BY DEF TokensBefore
<1>5. m + 1 - 1 = m /\ m \in 0 .. m
  BY <1>1
<1> HIDE DEF m, sum
<1>6. TokensBefore(n, m + 1) = sum[m] /\ sum[m] \in Nat
  BY <1>2, <1>4, <1>5
<1>7. ASSUME NEW q \in Reqs
      PROVE  /\ n[q] \in Nat /\ TokensBefore(n, q) \in Nat
             /\ TokensBefore(n, q) + n[q] <= TokensBefore(n, m + 1)
             /\ \A p \in Reqs : p < q => TokensBefore(n, p) + n[p] <= TokensBefore(n, q)
  <2>1. q \in 1 .. m /\ q \in 0 .. m /\ q - 1 \in 0 .. m /\ q <= m
    BY <1>1
  <2>2. TokensBefore(n, q) \in Nat /\ TokensBefore(n, q) + n[q] = sum[q] /\ n[q] \in Nat
    BY <1>1, <1>2, <1>4, <2>1
  <2>3. sum[q] <= sum[m]
    BY <1>3, <1>5, <2>1
  <2>4. ASSUME NEW p \in Reqs, p < q PROVE TokensBefore(n, p) + n[p] <= TokensBefore(n, q)
    <3>1. p \in 1 .. m /\ p \in 0 .. m /\ p <= q - 1
      BY <1>1, <2>4
    <3>2. TokensBefore(n, p) + n[p] = sum[p]
      BY <1>2, <1>4, <3>1
    <3>3. sum[p] <= sum[q - 1]
      BY <1>3, <2>1, <3>1
    <3> QED BY <1>4, <3>2, <3>3
  <2> QED BY <1>6, <2>2, <2>3, <2>4
<1> QED BY <1>6, <1>7 DEF m

(* x occurs in seq.                                                        *)
In(x, seq) == \E i \in 1 .. Len(seq) : seq[i] = x

(* Released slots that are not free leave the free list without repetition *)
(* and with nothing but those slots and what was free before.              *)
LEMMA ReleaseFacts ==
  ASSUME TypeOK, UNCHANGED cache, NEW slots \in Seq(Slots \ {0}), Release(slots),
         \A i, j \in 1 .. Len(slots) : slots[i] = slots[j] => i = j,
         \A i \in 1 .. Len(slots) : ~In(slots[i], freeList)
  PROVE  /\ freeList' \in Seq(Slots \ {0}) /\ IsInjective(freeList')
         /\ \A x : In(x, freeList') => In(x, freeList) \/ In(x, slots)
         /\ owner' \in [RingRows -> Slots \cup {Nobody}]
         /\ \A r \in RingRows : owner'[r] = owner[r] \/ owner'[r] = Nobody
<1> DEFINE S == Slots \ {0}
           a == Len(freeList)
           b == Len(slots)
<1>1. /\ freeList \in Seq(S) /\ slots \in Seq(S) /\ a \in Nat /\ b \in Nat
      /\ \A i, j \in 1 .. a : freeList[i] = freeList[j] => i = j
      /\ owner \in [RingRows -> Slots \cup {Nobody}]
  BY DEF TypeOK, IsInjective
<1>2. S = 1 .. cache.slots /\ cache.slots \in Nat
  BY Sizes DEF Slots, TypeOK
<1>3. \A i \in 1 .. b, j \in 1 .. a : slots[i] # freeList[j]
  BY DEF In
<1>4. CASE a + b = cache.slots
  <2>1. freeList' = [i \in 1 .. cache.slots |-> i] /\ owner' = [r \in RingRows |-> Nobody]
    BY <1>4 DEF Release
  <2>2. freeList' \in Seq(S) /\ Len(freeList') = cache.slots /\ IsInjective(freeList')
    <3>1. freeList' \in [1 .. cache.slots -> S] /\ \A i \in 1 .. cache.slots : freeList'[i] = i
      BY <1>2, <2>1
    <3> HIDE DEF S
    <3>2. freeList' \in Seq(S) /\ Len(freeList') = cache.slots
      BY <1>2, <3>1
    <3> QED BY <3>1, <3>2 DEF IsInjective
  <2> DEFINE f == [i \in 1 .. cache.slots |-> IF i <= a THEN freeList[i] ELSE slots[i - a]]
  <2>3. \A i \in 1 .. cache.slots : /\ i <= a => i \in 1 .. a
                                    /\ ~(i <= a) => i - a \in 1 .. b
    BY <1>1, <1>2, <1>4
  <2>4. f \in [1 .. cache.slots -> 1 .. cache.slots]
    <3>1. \A i \in 1 .. a : freeList[i] \in S
      BY <1>1
    <3>2. \A i \in 1 .. b : slots[i] \in S
      BY <1>1
    <3> HIDE DEF S, a, b
    <3> QED BY <1>2, <2>3, <3>1, <3>2
  <2>5. \A i, j \in 1 .. cache.slots : f[i] = f[j] => i = j
    <3> SUFFICES ASSUME NEW i \in 1 .. cache.slots, NEW j \in 1 .. cache.slots, f[i] = f[j]
                 PROVE  i = j
      OBVIOUS
    <3> HIDE DEF a, b, S
    <3>1. CASE i <= a /\ j <= a
      BY <1>1, <2>3, <3>1
    <3>2. CASE ~(i <= a) /\ ~(j <= a)
      <4>1. i - a = j - a
        BY <2>3, <3>2 DEF b
      <4> QED BY <1>1, <1>2, <4>1
    <3>3. CASE (i <= a /\ ~(j <= a)) \/ (~(i <= a) /\ j <= a)
      BY <1>3, <2>3, <3>3
    <3> QED BY <3>1, <3>2, <3>3
  <2>6. ASSUME NEW x \in 1 .. cache.slots PROVE In(x, freeList) \/ In(x, slots)
    <3> HIDE DEF f
    <3>0. PICK n \in Nat : n = cache.slots
      BY <1>2
    <3>3. f \in [1 .. n -> 1 .. n] /\ \A i, j \in 1 .. n : f[i] = f[j] => i = j
      BY <2>4, <2>5, <3>0
    <3>4. \A y \in 1 .. n : \E i \in 1 .. n : f[i] = y
      BY <3>3, Pigeonhole
    <3>1. PICK i \in 1 .. cache.slots : f[i] = x
      BY <3>0, <3>4
    <3>2. f[i] = IF i <= a THEN freeList[i] ELSE slots[i - a]
      BY DEF f
    <3> QED BY <2>3, <3>1, <3>2 DEF In
  <2>7. \A x : In(x, freeList') => x \in 1 .. cache.slots
    BY <2>1, <2>2 DEF In
  <2>8. \A r \in RingRows : owner'[r] = Nobody
    BY <2>1
  <2>9. owner' \in [RingRows -> Slots \cup {Nobody}]
    BY <2>1
  <2> QED BY <2>2, <2>6, <2>7, <2>8, <2>9
<1>5. CASE a + b # cache.slots
  <2>1. /\ freeList' = IF cache.freeAtTail THEN freeList \o slots ELSE slots \o freeList
        /\ owner' = owner
    BY <1>5 DEF Release, Freed
  <2>2. ASSUME NEW s \in Seq(S), NEW t \in Seq(S),
               \A i, j \in 1 .. Len(s) : s[i] = s[j] => i = j,
               \A i, j \in 1 .. Len(t) : t[i] = t[j] => i = j,
               \A i \in 1 .. Len(s), j \in 1 .. Len(t) : s[i] # t[j]
        PROVE  /\ s \o t \in Seq(S) /\ IsInjective(s \o t)
               /\ \A x : In(x, s \o t) => In(x, s) \/ In(x, t)
    <3>1. PICK u : u = s \o t
      OBVIOUS
    <3> HIDE DEF S
    <3>2. /\ u \in Seq(S) /\ Len(u) = Len(s) + Len(t) /\ Len(s) \in Nat /\ Len(t) \in Nat
          /\ \A i \in 1 .. Len(s) + Len(t) : u[i] = IF i <= Len(s) THEN s[i] ELSE t[i - Len(s)]
      BY <3>1, ConcatProperties
    <3>3. \A i \in 1 .. Len(s) + Len(t) : /\ i <= Len(s) => i \in 1 .. Len(s)
                                          /\ ~(i <= Len(s)) => i - Len(s) \in 1 .. Len(t)
      BY <3>2
    <3>4. \A i, j \in 1 .. Len(u) : u[i] = u[j] => i = j
      <4> SUFFICES ASSUME NEW i \in 1 .. Len(u), NEW j \in 1 .. Len(u), u[i] = u[j]
                   PROVE  i = j
        OBVIOUS
      <4>1. CASE i <= Len(s) /\ j <= Len(s)
        BY <2>2, <3>2, <3>3, <4>1
      <4>2. CASE ~(i <= Len(s)) /\ ~(j <= Len(s))
        <5>1. u[i] = t[i - Len(s)] /\ u[j] = t[j - Len(s)]
          BY <3>2, <4>2
        <5>2. i - Len(s) \in 1 .. Len(t) /\ j - Len(s) \in 1 .. Len(t)
          BY <3>2, <3>3, <4>2
        <5>3. i - Len(s) = j - Len(s)
          BY <2>2, <5>1, <5>2
        <5>4. i \in Int /\ j \in Int /\ Len(s) \in Int
          BY <3>2
        <5>5. \A x, y, z \in Int : x - z = y - z => x = y
          OBVIOUS
        <5> QED BY <5>3, <5>4, <5>5
      <4>3. CASE i <= Len(s) /\ ~(j <= Len(s))
        <5>1. u[i] = s[i] /\ u[j] = t[j - Len(s)]
          BY <3>2, <4>3
        <5>2. i \in 1 .. Len(s) /\ j - Len(s) \in 1 .. Len(t)
          BY <3>2, <3>3, <4>3
        <5> QED BY <2>2, <5>1, <5>2
      <4>4. CASE ~(i <= Len(s)) /\ j <= Len(s)
        <5>1. u[j] = s[j] /\ u[i] = t[i - Len(s)]
          BY <3>2, <4>4
        <5>2. j \in 1 .. Len(s) /\ i - Len(s) \in 1 .. Len(t)
          BY <3>2, <3>3, <4>4
        <5> QED BY <2>2, <5>1, <5>2
      <4> QED BY <4>1, <4>2, <4>3, <4>4
    <3>5. IsInjective(u)
      BY <3>2, <3>4 DEF IsInjective
    <3>6. \A x : In(x, u) => In(x, s) \/ In(x, t)
      BY <3>2, <3>3 DEF In
    <3> QED BY <3>1, <3>2, <3>5, <3>6
  <2> HIDE DEF S
  <2>3. /\ freeList' \in Seq(S) /\ IsInjective(freeList')
        /\ \A x : In(x, freeList') => In(x, freeList) \/ In(x, slots)
    <3>1. /\ freeList \o slots \in Seq(S) /\ IsInjective(freeList \o slots)
          /\ \A x : In(x, freeList \o slots) => In(x, freeList) \/ In(x, slots)
      BY <1>1, <1>3, <2>2
    <3>2. /\ slots \o freeList \in Seq(S) /\ IsInjective(slots \o freeList)
          /\ \A x : In(x, slots \o freeList) => In(x, freeList) \/ In(x, slots)
      BY <1>1, <1>3, <2>2
    <3> QED BY <2>1, <3>1, <3>2
  <2> QED BY <1>1, <2>1, <2>3 DEF S
<1> QED BY <1>4, <1>5

-----------------------------------------------------------------------------
(* What Begin does, request by request.                                    *)

Batch(n) ==
  LET total == TokensBefore(n, cache.reqs + 1)
  IN  /\ n \in [Reqs -> 0 .. cache.maxTokens]
      /\ total \in 1 .. Len(freeList) /\ fresh' = n
      /\ freeList' \in Seq(Slots \ {0}) /\ Len(freeList') = Len(freeList) - total
      /\ \A j \in 1 .. Len(freeList') : freeList'[j] = freeList[total + j]
      /\ slotsOf' \in [Reqs -> Seq(Slots \ {0})]
      /\ \A q \in Reqs :
           /\ Len(slotsOf'[q]) = Len(slotsOf[q]) + n[q]
           /\ \A i \in 1 .. Len(slotsOf[q]) : slotsOf'[q][i] = slotsOf[q][i]
           /\ \A i \in 1 .. n[q] :
                slotsOf'[q][Len(slotsOf[q]) + i] = freeList[TokensBefore(n, q) + i]

(* Memory loses tokens of free slots only.                                 *)
Lost ==
  /\ ring' \in [Layers -> [RingRows -> Slots \cup {Junk}]]
  /\ int4' \in [Layers -> [Slots -> Slots \cup {Junk}]]
  /\ \A l \in Layers :
       /\ \A r \in RingRows : ring'[l][r] # ring[l][r] => In(ring[l][r], freeList)
       /\ \A s \in Slots : int4'[l][s] # int4[l][s] => In(int4[l][s], freeList)

LEMMA BeginFacts == TypeOK /\ Begin => Lost /\ \E n : Batch(n)
<1> SUFFICES ASSUME TypeOK, Begin PROVE Lost /\ \E n : Batch(n)
  OBVIOUS
<1> DEFINE S == Slots \ {0}
           len == Len(freeList)
<1>1. PICK n \in [Reqs -> 0 .. cache.maxTokens] :
        LET total == TokensBefore(n, cache.reqs + 1)
            taken == ToSet(SubSeq(freeList, 1, total))
        IN  /\ total \in 1 .. Len(freeList)
            /\ slotsOf' = [q \in Reqs |-> slotsOf[q] \o
                 SubSeq(freeList, TokensBefore(n, q) + 1, TokensBefore(n, q) + n[q])]
            /\ freeList' = SubSeq(freeList, total + 1, Len(freeList))
            /\ fresh' = n
            /\ ring' = [l \in Layers |-> Forget(ring[l], taken)]
            /\ int4' = [l \in Layers |-> Forget(int4[l], taken)]
  BY DEF Begin
<1> DEFINE total == TokensBefore(n, cache.reqs + 1)
           taken == ToSet(SubSeq(freeList, 1, total))
<1>2. /\ freeList \in Seq(S) /\ len \in Nat /\ total \in 1 .. len
      /\ cache \in Caches /\ \A i \in 1 .. len : freeList[i] \in S
  BY <1>1 DEF TypeOK
<1>3. /\ freeList' \in Seq(S) /\ Len(freeList') = len - total
      /\ \A j \in 1 .. len - total : freeList'[j] = freeList[total + j]
  <2>1. freeList' = LastOf(freeList, len - total)
    <3>1. len - (len - total) + 1 = total + 1
      BY <1>2
    <3> QED BY <1>1, <3>1 DEF LastOf
  <2>2. len - total \in 0 .. Len(freeList)
    BY <1>2
  <2>3. \A j \in 1 .. len - total : len - (len - total) + j = total + j
    BY <1>2
  <2> HIDE DEF S, total
  <2>4. PICK k \in 0 .. Len(freeList) : k = len - total
    BY <2>2
  <2>5. /\ LastOf(freeList, k) \in Seq(S) /\ Len(LastOf(freeList, k)) = k
        /\ \A i \in 1 .. k : LastOf(freeList, k)[i] = freeList[Len(freeList) - k + i]
    BY <1>2, LastOfFacts
  <2> QED BY <2>1, <2>3, <2>4, <2>5
<1>4. ASSUME NEW q \in Reqs
      PROVE  /\ slotsOf'[q] \in Seq(S) /\ Len(slotsOf'[q]) = Len(slotsOf[q]) + n[q]
             /\ \A i \in 1 .. Len(slotsOf[q]) : slotsOf'[q][i] = slotsOf[q][i]
             /\ \A i \in 1 .. n[q] :
                  slotsOf'[q][Len(slotsOf[q]) + i] = freeList[TokensBefore(n, q) + i]
  <2> DEFINE old == slotsOf[q]
             b == TokensBefore(n, q)
             new == SubSeq(freeList, b + 1, b + n[q])
  <2>1. b \in Nat /\ n[q] \in Nat /\ b + n[q] <= total
    BY <1>2, Segments
  <2>2. old \in Seq(S) /\ Len(old) \in Nat
    BY SlotFacts
  <2>3. slotsOf'[q] = old \o new
    BY <1>1
  <2>4. new \in Seq(S) /\ Len(new) = n[q] /\ \A i \in 1 .. n[q] : new[i] = freeList[b + i]
    <3>1. \A i \in b + 1 .. b + n[q] : freeList[i] \in S
      BY <1>2, <2>1
    <3>2. b + 1 \in Int /\ b + n[q] \in Int /\ b + n[q] - (b + 1) + 1 = n[q]
      BY <2>1
    <3>3. (IF b + 1 <= b + n[q] THEN b + n[q] - (b + 1) + 1 ELSE 0) = n[q]
      BY <2>1
    <3>4. \A i \in 1 .. n[q] : b + 1 + i - 1 = b + i
      BY <2>1
    <3>5. PICK lo \in Int, hi \in Int : lo = b + 1 /\ hi = b + n[q]
      BY <3>2
    <3> HIDE DEF b, S
    <3>6. /\ SubSeq(freeList, lo, hi) \in Seq(S)
          /\ Len(SubSeq(freeList, lo, hi)) = IF lo <= hi THEN hi - lo + 1 ELSE 0
          /\ \A i \in 1 .. hi - lo + 1 : SubSeq(freeList, lo, hi)[i] = freeList[lo + i - 1]
      BY <3>1, <3>5, SubSeqProperties
    <3>7. hi - lo + 1 = n[q] /\ (IF lo <= hi THEN hi - lo + 1 ELSE 0) = n[q]
      BY <2>1, <3>5
    <3>8. new = SubSeq(freeList, lo, hi)
      BY <3>5 DEF b
    <3>9. \A i \in 1 .. n[q] : lo + i - 1 = b + i
      BY <3>4, <3>5
    <3> HIDE DEF new
    <3> QED BY <3>6, <3>7, <3>8, <3>9
  <2> HIDE DEF old, b, new, S
  <2>5. /\ old \o new \in Seq(S) /\ Len(old \o new) = Len(old) + Len(new)
        /\ \A i \in 1 .. Len(old) + Len(new) :
             (old \o new)[i] = IF i <= Len(old) THEN old[i] ELSE new[i - Len(old)]
    BY <2>2, <2>4, ConcatProperties
  <2>6. \A i \in 1 .. Len(old) : i \in 1 .. Len(old) + Len(new) /\ i <= Len(old)
    BY <2>1, <2>2, <2>4
  <2>7. \A i \in 1 .. n[q] : /\ Len(old) + i \in 1 .. Len(old) + Len(new)
                             /\ ~(Len(old) + i <= Len(old)) /\ Len(old) + i - Len(old) = i
    BY <2>1, <2>2, <2>4
  <2>8. \A i \in 1 .. Len(old) : slotsOf'[q][i] = old[i]
    BY <2>3, <2>5, <2>6
  <2>9. \A i \in 1 .. n[q] : slotsOf'[q][Len(old) + i] = freeList[b + i]
    BY <2>3, <2>4, <2>5, <2>7
  <2>10. slotsOf'[q] \in Seq(S) /\ Len(slotsOf'[q]) = Len(old) + n[q]
    BY <2>3, <2>4, <2>5
  <2> QED BY <2>8, <2>9, <2>10 DEF old, b, S
<1>5. Batch(n)
  <2>1. slotsOf' \in [Reqs -> Seq(S)]
    BY <1>1, <1>4
  <2> QED BY <1>1, <1>2, <1>3, <1>4, <2>1 DEF Batch
<1>6. \A x \in taken : In(x, freeList)
  <2>1. SubSeq(freeList, 1, total) \in Seq(S) /\ Len(SubSeq(freeList, 1, total)) = total
    BY <1>2, FirstOfFacts
  <2>2. \A i \in 1 .. total : SubSeq(freeList, 1, total)[i] = freeList[i]
    BY <1>2, FirstOfFacts
  <2>3. \A i \in 1 .. total : i \in 1 .. len
    BY <1>2
  <2> QED BY <2>1, <2>2, <2>3 DEF ToSet, In
<1>7. Lost
  <2>1. ASSUME NEW l \in Layers
        PROVE  /\ ring'[l] \in [RingRows -> Slots \cup {Junk}]
               /\ int4'[l] \in [Slots -> Slots \cup {Junk}]
               /\ \A r \in RingRows : ring'[l][r] # ring[l][r] => In(ring[l][r], freeList)
               /\ \A s \in Slots : int4'[l][s] # int4[l][s] => In(int4[l][s], freeList)
    <3>1. /\ ring[l] \in [RingRows -> Slots \cup {Junk}]
          /\ int4[l] \in [Slots -> Slots \cup {Junk}]
      BY DEF TypeOK
    <3>2. ring'[l] = Forget(ring[l], taken) /\ int4'[l] = Forget(int4[l], taken)
      BY <1>1
    <3> HIDE DEF taken
    <3>3. /\ ring'[l] \in [RingRows -> Slots \cup {Junk}]
          /\ \A r \in RingRows : ring'[l][r] # ring[l][r] => ring[l][r] \in taken
      BY <3>1, <3>2 DEF Forget
    <3>4. /\ int4'[l] \in [Slots -> Slots \cup {Junk}]
          /\ \A s \in Slots : int4'[l][s] # int4[l][s] => int4[l][s] \in taken
      BY <3>1, <3>2 DEF Forget
    <3> QED BY <1>6, <3>3, <3>4
  <2>2. ring' = [l \in Layers |-> ring'[l]] /\ int4' = [l \in Layers |-> int4'[l]]
    BY <1>1
  <2> QED BY <2>1, <2>2 DEF Lost
<1> QED BY <1>5, <1>7

(* A token of the batch's slots has been there before, or its slot is one  *)
(* of the free ones.                                                       *)
LEMMA BatchSlots ==
  ASSUME TypeOK, NEW n, Batch(n), NEW q \in Reqs, NEW i \in 1 .. Len(slotsOf'[q])
  PROVE  /\ i \in 1 .. Len(slotsOf[q]) \/ i > Len(slotsOf[q])
         /\ i \in 1 .. Len(slotsOf[q]) => slotsOf'[q][i] = slotsOf[q][i]
         /\ i > Len(slotsOf[q]) =>
              \E k \in 1 .. Len(freeList) :
                /\ k <= TokensBefore(n, cache.reqs + 1) /\ slotsOf'[q][i] = freeList[k]
                /\ k = TokensBefore(n, q) + (i - Len(slotsOf[q]))
                /\ k > TokensBefore(n, q) /\ k <= TokensBefore(n, q) + n[q]
<1> DEFINE len == Len(slotsOf[q])
           b == TokensBefore(n, q)
           total == TokensBefore(n, cache.reqs + 1)
<1>1. /\ n \in [Reqs -> 0 .. cache.maxTokens] /\ total \in 1 .. Len(freeList)
      /\ Len(slotsOf'[q]) = len + n[q]
      /\ \A j \in 1 .. len : slotsOf'[q][j] = slotsOf[q][j]
      /\ \A j \in 1 .. n[q] : slotsOf'[q][len + j] = freeList[b + j]
  BY DEF Batch
<1>2. b \in Nat /\ n[q] \in Nat /\ b + n[q] <= total /\ total \in Nat
  BY <1>1, Segments DEF TypeOK
<1>3. len \in Nat /\ Len(freeList) \in Nat
  BY SlotFacts DEF TypeOK
<1> HIDE DEF len, b, total
<1>4. CASE i <= len
  BY <1>1, <1>3, <1>4 DEF len
<1>5. CASE i > len
  <2>1. PICK j \in 1 .. n[q] : j = i - len
    BY <1>1, <1>2, <1>3, <1>5
  <2>2. len + j = i
    BY <1>3, <2>1
  <2>3. PICK k \in 1 .. total : k = b + j
    BY <1>2
  <2>4. slotsOf'[q][i] = freeList[k] /\ k > b /\ k <= b + n[q]
    BY <1>1, <1>2, <2>2, <2>3
  <2>5. k \in 1 .. Len(freeList)
    BY <1>1, <1>3
  <2>6. k <= total /\ ~(i <= len)
    BY <1>2, <1>3, <1>5
  <2> QED BY <1>5, <2>1, <2>3, <2>4, <2>5, <2>6 DEF len, b, total
<1>6. i <= len \/ i > len
  BY <1>3
<1> QED BY <1>4, <1>5, <1>6

LEMMA BeginInv == TiersInv /\ Begin /\ UNCHANGED cache => TiersInv'
<1> SUFFICES ASSUME TiersInv, Begin, UNCHANGED cache PROVE TiersInv'
  OBVIOUS
<1>1. TypeOK /\ Apart /\ Owners /\ Lost
  BY BeginFacts DEF TiersInv
<1>2. PICK n : Batch(n)
  BY <1>1, BeginFacts
<1>3. UNCHANGED <<Reqs, Slots, R, RingRows, Layers, owner>> /\ pc' = "store" /\ layer' = 0
  BY Rigid DEF Begin
<1> DEFINE total == TokensBefore(n, cache.reqs + 1)
<1>4. /\ n \in [Reqs -> 0 .. cache.maxTokens]
      /\ total \in 1 .. Len(freeList) /\ Len(freeList) \in Nat
      /\ Len(freeList') = Len(freeList) - total
      /\ \A j \in 1 .. Len(freeList') : freeList'[j] = freeList[total + j]
      /\ freeList' \in Seq(Slots \ {0}) /\ Len(freeList') \in Nat
  BY <1>1, <1>2 DEF Batch, TypeOK
<1>5. \A j \in 1 .. Len(freeList') : total + j \in 1 .. Len(freeList) /\ ~(total + j <= total)
  BY <1>4
<1>6. \A i, j \in 1 .. Len(freeList) : freeList[i] = freeList[j] => i = j
  BY <1>1 DEF TypeOK, IsInjective
<1>7. \A q \in Reqs :
        /\ n[q] \in Nat /\ TokensBefore(n, q) \in Nat
        /\ \A p \in Reqs : p < q => TokensBefore(n, p) + n[p] <= TokensBefore(n, q)
  BY <1>1, <1>4, Segments DEF TypeOK
<1> HIDE DEF total
<1>8. TypeOK'
  <2>1. IsInjective(freeList')
    <3>1. ASSUME NEW i \in 1 .. Len(freeList'), NEW j \in 1 .. Len(freeList'),
                 freeList'[i] = freeList'[j]
          PROVE  i = j
      <4>1. total + i = total + j
        BY <1>4, <1>5, <1>6, <3>1
      <4> QED BY <1>4, <4>1
    <3>2. DOMAIN freeList' = 1 .. Len(freeList')
      BY <1>4
    <3> QED BY <3>1, <3>2 DEF IsInjective
  <2>2. slotsOf' \in [Reqs -> Seq(Slots \ {0})] /\ fresh' = n
    BY <1>2 DEF Batch
  <2>3. fresh' \in [Reqs -> Nat]
    BY <1>4, <1>7, <2>2
  <2>4. \A q \in Reqs : fresh'[q] \in 0 .. Len(slotsOf'[q])
    <3> TAKE q \in Reqs
    <3>1. Len(slotsOf'[q]) = Len(slotsOf[q]) + n[q] /\ Len(slotsOf[q]) \in Nat /\ n[q] \in Nat
      BY <1>1, <1>2, <1>7, SlotFacts DEF Batch
    <3> QED BY <2>2, <3>1
  <2>5. layer' \in Layers /\ cache' \in Caches
    BY <1>1, <1>3, Sizes DEF Layers, TypeOK
  <2>6. /\ ring' \in [Layers -> [RingRows -> Slots \cup {Junk}]]
        /\ int4' \in [Layers -> [Slots -> Slots \cup {Junk}]]
        /\ owner' \in [RingRows -> Slots \cup {Nobody}]
    BY <1>1, <1>3 DEF Lost, TypeOK
  <2> QED BY <1>3, <1>4, <2>1, <2>2, <2>3, <2>4, <2>5, <2>6 DEF TypeOK
<1>9. Apart'
  <2>1. ASSUME NEW p \in Reqs, NEW q \in Reqs, NEW i \in 1 .. Len(slotsOf'[p]),
               NEW j \in 1 .. Len(slotsOf'[q]), slotsOf'[p][i] = slotsOf'[q][j]
        PROVE  p = q /\ i = j
    <3>1. Len(slotsOf[p]) \in Nat /\ Len(slotsOf[q]) \in Nat
      BY <1>1, SlotFacts
    <3>0. /\ \A a \in 1 .. Len(slotsOf[p]), b \in 1 .. Len(slotsOf[q]) :
               slotsOf[p][a] = slotsOf[q][b] => p = q /\ a = b
          /\ \A a \in 1 .. Len(slotsOf[p]), k \in 1 .. Len(freeList) : slotsOf[p][a] # freeList[k]
          /\ \A a \in 1 .. Len(slotsOf[q]), k \in 1 .. Len(freeList) : slotsOf[q][a] # freeList[k]
      BY <1>1 DEF Apart
    <3>2. CASE i \in 1 .. Len(slotsOf[p]) /\ j \in 1 .. Len(slotsOf[q])
      <4>1. slotsOf'[p][i] = slotsOf[p][i] /\ slotsOf'[q][j] = slotsOf[q][j]
        BY <1>2, <3>2 DEF Batch
      <4> QED BY <2>1, <3>0, <3>2, <4>1
    <3>3. CASE i \in 1 .. Len(slotsOf[p]) /\ j > Len(slotsOf[q])
      <4>1. slotsOf'[p][i] = slotsOf[p][i]
        BY <1>2, <3>3 DEF Batch
      <4>2. PICK k \in 1 .. Len(freeList) : slotsOf'[q][j] = freeList[k]
        BY <1>1, <1>2, <3>3, BatchSlots
      <4> QED BY <2>1, <3>0, <3>3, <4>1, <4>2
    <3>4. CASE i > Len(slotsOf[p]) /\ j \in 1 .. Len(slotsOf[q])
      <4>1. slotsOf'[q][j] = slotsOf[q][j]
        BY <1>2, <3>4 DEF Batch
      <4>2. PICK k \in 1 .. Len(freeList) : slotsOf'[p][i] = freeList[k]
        BY <1>1, <1>2, <3>4, BatchSlots
      <4> QED BY <2>1, <3>0, <3>4, <4>1, <4>2
    <3>5. CASE i > Len(slotsOf[p]) /\ j > Len(slotsOf[q])
      <4>1. PICK k \in 1 .. Len(freeList) :
              /\ slotsOf'[p][i] = freeList[k] /\ k = TokensBefore(n, p) + (i - Len(slotsOf[p]))
              /\ k > TokensBefore(n, p) /\ k <= TokensBefore(n, p) + n[p]
        BY <1>1, <1>2, <3>5, BatchSlots
      <4>2. PICK m \in 1 .. Len(freeList) :
              /\ slotsOf'[q][j] = freeList[m] /\ m = TokensBefore(n, q) + (j - Len(slotsOf[q]))
              /\ m > TokensBefore(n, q) /\ m <= TokensBefore(n, q) + n[q]
        BY <1>1, <1>2, <3>5, BatchSlots
      <4>3. k = m
        BY <1>6, <2>1, <4>1, <4>2
      <4>4. p = q
        <5>1. p \in Nat /\ q \in Nat
          BY DEF Reqs
        <5>2. /\ n[p] \in Nat /\ TokensBefore(n, p) \in Nat
              /\ n[q] \in Nat /\ TokensBefore(n, q) \in Nat
              /\ p < q => TokensBefore(n, p) + n[p] <= TokensBefore(n, q)
              /\ q < p => TokensBefore(n, q) + n[q] <= TokensBefore(n, p)
          BY <1>7
        <5>3. /\ k \in Nat /\ k > TokensBefore(n, p) /\ k <= TokensBefore(n, p) + n[p]
              /\ k > TokensBefore(n, q) /\ k <= TokensBefore(n, q) + n[q]
          BY <4>1, <4>2, <4>3
        <5>4. ~(p < q)
          BY <5>2, <5>3
        <5>5. ~(q < p)
          BY <5>2, <5>3
        <5> QED BY <5>1, <5>4, <5>5
      <4>5. i = j
        BY <1>7, <3>1, <4>1, <4>2, <4>3, <4>4
      <4> QED BY <4>4, <4>5
    <3>6. i \in 1 .. Len(slotsOf[p]) \/ i > Len(slotsOf[p])
      BY <3>1
    <3>7. j \in 1 .. Len(slotsOf[q]) \/ j > Len(slotsOf[q])
      BY <3>1
    <3> QED BY <3>2, <3>3, <3>4, <3>5, <3>6, <3>7
  <2>2. ASSUME NEW q \in Reqs, NEW i \in 1 .. Len(slotsOf'[q]), NEW j \in 1 .. Len(freeList'),
               slotsOf'[q][i] = freeList'[j]
        PROVE  FALSE
    <3>1. freeList'[j] = freeList[total + j] /\ total + j \in 1 .. Len(freeList)
      BY <1>4, <1>5
    <3>2. CASE i \in 1 .. Len(slotsOf[q]) /\ slotsOf'[q][i] = slotsOf[q][i]
      BY <1>1, <2>2, <3>1, <3>2 DEF Apart
    <3>3. CASE \E k \in 1 .. Len(freeList) : k <= total /\ slotsOf'[q][i] = freeList[k]
      <4>1. PICK k \in 1 .. Len(freeList) : k <= total /\ slotsOf'[q][i] = freeList[k]
        BY <3>3
      <4>2. k = total + j
        BY <1>6, <2>2, <3>1, <4>1
      <4> QED BY <1>5, <4>1, <4>2
    <3>4. \/ i \in 1 .. Len(slotsOf[q]) /\ slotsOf'[q][i] = slotsOf[q][i]
          \/ \E k \in 1 .. Len(freeList) : k <= total /\ slotsOf'[q][i] = freeList[k]
      BY <1>1, <1>2, BatchSlots DEF total
    <3> QED BY <3>2, <3>3, <3>4
  <2> QED BY <1>3, <2>1, <2>2 DEF Apart
<1>10. Progress' /\ Stamped'
  BY <1>3 DEF Progress, Stamped
<1>11. Owners'
  BY <1>1, <1>3 DEF Owners, RingRow
<1> QED BY <1>8, <1>9, <1>10, <1>11 DEF TiersInv

LEMMA BeginMemory == TiersInv /\ Memory /\ Begin /\ UNCHANGED cache => Memory'
<1> SUFFICES ASSUME TiersInv, Memory, Begin, UNCHANGED cache PROVE Memory'
  OBVIOUS
<1>1. TypeOK /\ Apart /\ Lost
  BY BeginFacts DEF TiersInv
<1>2. PICK n : Batch(n)
  BY <1>1, BeginFacts
<1>3. /\ UNCHANGED <<Reqs, Slots, R, RingRows, Layers, owner>>
      /\ pc = "ready" /\ pc' = "store" /\ layer' = 0
  BY Rigid DEF Begin
<1> SUFFICES ASSUME NEW q \in Reqs, NEW i \in 1 .. Len(slotsOf'[q]), NEW l \in Layers,
                    i <= Len(slotsOf'[q]) - fresh'[q] \/ Passed(l)'
             PROVE  Stored(l, slotsOf[q][i])'
  BY <1>3 DEF Memory
<1>4. ~Passed(l)'
  <2>1. l \in Nat
    BY DEF Layers
  <2> QED BY <1>3, <2>1 DEF Passed
<1>5. Len(slotsOf'[q]) = Len(slotsOf[q]) + fresh'[q] /\ fresh'[q] \in Nat /\ Len(slotsOf[q]) \in Nat
  <2>1. n \in [Reqs -> 0 .. cache.maxTokens] /\ fresh' = n
        /\ Len(slotsOf'[q]) = Len(slotsOf[q]) + n[q]
    BY <1>2 DEF Batch
  <2>2. n[q] \in Nat
    BY <1>1, <2>1, Segments DEF TypeOK
  <2> QED BY <1>1, <2>1, <2>2, SlotFacts
<1>6. i \in 1 .. Len(slotsOf[q])
  BY <1>4, <1>5
<1>0. PICK s : s = slotsOf[q][i]
  OBVIOUS
<1>7. slotsOf'[q][i] = s
  BY <1>0, <1>2, <1>6 DEF Batch
<1>8. s \in Slots /\ s \in Nat /\ ~In(s, freeList) /\ RingRow(s) \in RingRows
  <2>1. s \in Slots /\ s \in Nat
    BY <1>0, <1>1, <1>6, SlotFacts
  <2>2. ~In(s, freeList)
    BY <1>0, <1>1, <1>6 DEF Apart, In
  <2> QED BY <1>1, <2>1, <2>2, RowBounds DEF TypeOK
<1>9. Stored(l, s)
  BY <1>0, <1>3, <1>6 DEF Memory, Passed
<1>10. int4'[l][s] = s /\ (Hot(s) => ring'[l][RingRow(s)] = s)
  BY <1>1, <1>8, <1>9 DEF Lost, Stored
<1>11. RingRow(s)' = RingRow(s) /\ Hot(s)' = Hot(s)
  BY <1>3 DEF RingRow, Hot
<1>12. Stored(l, s)'
  BY <1>10, <1>11 DEF Stored
<1> QED BY <1>7, <1>12 DEF Stored, Hot, RingRow

-----------------------------------------------------------------------------
(* What Store does, row by row.                                            *)

LEMMA StoreFacts ==
  TypeOK /\ Store =>
    /\ owner' \in [RingRows -> Slots \cup {Nobody}]
    /\ ring' \in [Layers -> [RingRows -> Slots \cup {Junk}]]
    /\ int4' \in [Layers -> [Slots -> Slots \cup {Junk}]]
    /\ \A s \in Written : s \in Slots /\ s \in Nat /\ owner'[RingRow(s)] \in Written
    /\ \A r \in RingRows :
         \/ owner'[r] = owner[r] /\ \A s \in Written : RingRow(s) # r
         \/ owner'[r] \in Written /\ RingRow(owner'[r]) = r
    /\ \A l \in Layers, r \in RingRows :
         ring'[l][r] = IF l = layer /\ owner'[r] \in Written THEN owner'[r] ELSE ring[l][r]
    /\ \A l \in Layers, s \in Slots :
         int4'[l][s] = IF l = layer /\ s \in Written THEN s ELSE int4[l][s]
<1> SUFFICES ASSUME TypeOK, Store
             PROVE  /\ owner' \in [RingRows -> Slots \cup {Nobody}]
                    /\ ring' \in [Layers -> [RingRows -> Slots \cup {Junk}]]
                    /\ int4' \in [Layers -> [Slots -> Slots \cup {Junk}]]
                    /\ \A s \in Written : s \in Slots /\ s \in Nat /\ owner'[RingRow(s)] \in Written
                    /\ \A r \in RingRows :
                         \/ owner'[r] = owner[r] /\ \A s \in Written : RingRow(s) # r
                         \/ owner'[r] \in Written /\ RingRow(owner'[r]) = r
                    /\ \A l \in Layers, r \in RingRows :
                         ring'[l][r] = IF l = layer /\ owner'[r] \in Written THEN owner'[r]
                                       ELSE ring[l][r]
                    /\ \A l \in Layers, s \in Slots :
                         int4'[l][s] = IF l = layer /\ s \in Written THEN s ELSE int4[l][s]
  OBVIOUS
<1>1. PICK won \in Winners :
        /\ owner' = [r \in RingRows |-> IF r \in DOMAIN won THEN won[r] ELSE owner[r]]
        /\ ring' = [ring EXCEPT ![layer] = RingStored(layer, owner')]
  BY DEF Store
<1>2. int4' = [int4 EXCEPT ![layer] = [s \in Slots |-> IF s \in Written THEN s ELSE int4[layer][s]]]
  BY DEF Store
<1>3. /\ owner \in [RingRows -> Slots \cup {Nobody}] /\ layer \in Layers /\ cache \in Caches
      /\ ring \in [Layers -> [RingRows -> Slots \cup {Junk}]]
      /\ int4 \in [Layers -> [Slots -> Slots \cup {Junk}]]
  BY DEF TypeOK
<1>4. \A s \in Written : s \in Slots /\ s \in Nat /\ RingRow(s) \in RingRows
  BY <1>3, WrittenFacts, SlotFacts, RowBounds
<1>5. /\ \A s \in Written : RingRow(s) \in DOMAIN won
      /\ \A r \in DOMAIN won : won[r] \in Written /\ RingRow(won[r]) = r
      /\ \A r \in DOMAIN won : \E s \in Written : RingRow(s) = r
  BY <1>1 DEF Winners
<1>6. \A r \in RingRows : owner'[r] = IF r \in DOMAIN won THEN won[r] ELSE owner[r]
  BY <1>1
<1>7. owner' \in [RingRows -> Slots \cup {Nobody}]
  BY <1>1, <1>3, <1>4, <1>5
<1>8. \A s \in Written : owner'[RingRow(s)] \in Written
  BY <1>4, <1>5, <1>6
<1>9. \A r \in RingRows :
        \/ owner'[r] = owner[r] /\ \A s \in Written : RingRow(s) # r
        \/ owner'[r] \in Written /\ RingRow(owner'[r]) = r
  BY <1>5, <1>6
<1>10. RingStored(layer, owner') = [r \in RingRows |-> IF owner'[r] \in Written THEN owner'[r]
                                                       ELSE ring[layer][r]]
  BY DEF RingStored
<1>11. RingStored(layer, owner') \in [RingRows -> Slots \cup {Junk}]
  BY <1>3, <1>4, <1>10
<1>12. ring' \in [Layers -> [RingRows -> Slots \cup {Junk}]]
  BY <1>1, <1>3, <1>11
<1>13. ASSUME NEW l \in Layers, NEW r \in RingRows
       PROVE  ring'[l][r] = IF l = layer /\ owner'[r] \in Written THEN owner'[r] ELSE ring[l][r]
  <2>1. l # layer => ring'[l] = ring[l]
    BY <1>1, <1>3
  <2>2. l = layer => ring'[l] = RingStored(layer, owner')
    BY <1>1, <1>3
  <2> QED BY <1>10, <2>1, <2>2
<1>14. int4' \in [Layers -> [Slots -> Slots \cup {Junk}]]
  <2> DEFINE row == [s \in Slots |-> IF s \in Written THEN s ELSE int4[layer][s]]
  <2>1. row \in [Slots -> Slots \cup {Junk}]
    BY <1>3
  <2> HIDE DEF row
  <2>2. int4' = [int4 EXCEPT ![layer] = row]
    BY <1>2 DEF row
  <2> QED BY <1>3, <2>1, <2>2
<1>15. \A l \in Layers, s \in Slots :
         int4'[l][s] = IF l = layer /\ s \in Written THEN s ELSE int4[l][s]
  BY <1>2, <1>3
<1> QED BY <1>4, <1>7, <1>8, <1>9, <1>12, <1>13, <1>14, <1>15

LEMMA StoreInv == TiersInv /\ Store /\ UNCHANGED cache => TiersInv'
<1> SUFFICES ASSUME TiersInv, Store, UNCHANGED cache PROVE TiersInv'
  OBVIOUS
<1>1. TypeOK /\ Apart /\ Owners
  BY DEF TiersInv
<1>2. /\ UNCHANGED <<Reqs, Slots, R, RingRows, Layers, freeList, slotsOf, fresh, layer>>
      /\ pc' = "read"
  BY Rigid DEF Store
<1>3. UNCHANGED Written
  BY <1>2 DEF Written
<1>4. TypeOK'
  BY <1>1, <1>2, StoreFacts DEF TypeOK
<1>5. Apart' /\ Progress'
  BY <1>1, <1>2 DEF Apart, Progress
<1>6. Stamped'
  <2>1. \A s \in Written : owner'[RingRow(s)] \in Written
    BY <1>1, StoreFacts
  <2> QED BY <1>2, <1>3, <2>1 DEF Stamped, RingRow
<1>7. Owners'
  <2>1. \A r \in RingRows : owner'[r] = owner[r] \/ RingRow(owner'[r]) = r
    BY <1>1, StoreFacts
  <2>2. \A r \in RingRows : owner'[r] # Nobody => RingRow(owner'[r]) = r
    BY <1>1, <2>1 DEF Owners
  <2> QED BY <1>2, <2>2 DEF Owners, RingRow
<1> QED BY <1>4, <1>5, <1>6, <1>7 DEF TiersInv

LEMMA StoreMemory == TiersInv /\ Memory /\ OneWinner /\ Store /\ UNCHANGED cache => Memory'
<1> SUFFICES ASSUME TiersInv, Memory, OneWinner, Store, UNCHANGED cache PROVE Memory'
  OBVIOUS
<1>1. TypeOK /\ Apart /\ Owners /\ Stamped
  BY DEF TiersInv
<1>2. /\ UNCHANGED <<Reqs, Slots, R, RingRows, Layers, freeList, slotsOf, fresh, layer>>
      /\ pc = "store" /\ pc' = "read" /\ FitsRing
  BY Rigid DEF Store
<1> SUFFICES ASSUME NEW q \in Reqs, NEW i \in 1 .. Len(slotsOf[q]), NEW l \in Layers,
                    i <= Len(slotsOf[q]) - fresh[q] \/ l < layer \/ l = layer
             PROVE  Stored(l, slotsOf[q][i])'
  BY <1>2 DEF Memory, Passed
<1>3. PICK s : s = slotsOf[q][i]
  OBVIOUS
<1>4. s \in Slots /\ s \in Nat /\ RingRow(s) \in RingRows /\ s # Nobody
  <2>1. s \in Slots /\ s \in Nat
    BY <1>1, <1>3, SlotFacts
  <2> QED BY <1>1, <2>1, RowBounds, Sizes DEF TypeOK
<1>5. i <= Len(slotsOf[q]) - fresh[q] \/ l < layer => Stored(l, s)
  BY <1>2, <1>3 DEF Memory, Passed
<1> DEFINE r == RingRow(s)
<1>6. /\ ring'[l][r] = IF l = layer /\ owner'[r] \in Written THEN owner'[r] ELSE ring[l][r]
      /\ int4'[l][s] = IF l = layer /\ s \in Written THEN s ELSE int4[l][s]
      /\ \/ owner'[r] = owner[r] /\ \A t \in Written : RingRow(t) # r
         \/ owner'[r] \in Written /\ RingRow(owner'[r]) = r
      /\ s \in Written => owner'[r] \in Written
  BY <1>1, <1>4, StoreFacts
<1>7. int4'[l][s] = s /\ (owner'[r] = s => ring'[l][r] = s)
  <2>1. CASE s \notin Written
    <3>1. i <= Len(slotsOf[q]) - fresh[q]
      <4>1. Len(slotsOf[q]) \in Nat /\ fresh[q] \in Nat
        BY <1>1, SlotFacts
      <4>2. ~(i > Len(slotsOf[q]) - fresh[q])
        BY <1>1, <1>3, <2>1, WrittenFacts
      <4> QED BY <4>1, <4>2
    <3> QED BY <1>5, <1>6, <2>1, <3>1 DEF Stored, Hot
  <2>2. CASE s \in Written /\ l = layer
    BY <1>6, <2>2
  <2>3. CASE s \in Written /\ l < layer
    <3>1. layer > 0 /\ cache.layers # 1 /\ l # layer
      <4>1. l \in 0 .. cache.layers - 1 /\ layer \in 0 .. cache.layers - 1
        BY <1>1 DEF TypeOK, Layers
      <4>2. cache.layers \in Nat
        BY <1>1, Sizes DEF TypeOK
      <4> QED BY <2>3, <4>1, <4>2
    <3>2. owner[r] \in Written
      BY <1>1, <1>2, <2>3, <3>1 DEF Stamped
    <3>3. owner[r] # Nobody
      BY <1>1, <3>2, StoreFacts, Sizes DEF TypeOK
    <3>4. RingRow(owner[r]) = r
      BY <1>1, <1>4, <3>3 DEF Owners
    <3>5. owner[r] = s
      BY <1>2, <2>3, <3>1, <3>2, <3>4 DEF OneWinner, RowsApart
    <3> QED BY <1>5, <1>6, <2>3, <3>1, <3>5 DEF Stored, Hot
  <2>4. ASSUME s \in Written PROVE l = layer \/ l < layer
    <3>1. PICK p \in Reqs : \E j \in 1 .. Len(slotsOf[p]) :
                              j > Len(slotsOf[p]) - fresh[p] /\ slotsOf[p][j] = s
      BY <1>1, <2>4, WrittenFacts
    <3>2. PICK j \in 1 .. Len(slotsOf[p]) : j > Len(slotsOf[p]) - fresh[p] /\ slotsOf[p][j] = s
      BY <3>1
    <3>3. p = q /\ j = i
      BY <1>1, <1>3, <3>2 DEF Apart
    <3>4. Len(slotsOf[q]) \in Nat /\ fresh[q] \in Nat
      BY <1>1, SlotFacts
    <3>5. ~(i <= Len(slotsOf[q]) - fresh[q])
      BY <3>2, <3>3, <3>4
    <3> QED BY <3>5
  <2> QED BY <2>1, <2>2, <2>3, <2>4
<1> QED BY <1>2, <1>3, <1>7 DEF Stored, Hot, RingRow

-----------------------------------------------------------------------------
(* Steps that leave the tiers and the slots alone.                         *)

LEMMA QuietInv ==
  TiersInv /\ (Refuse \/ Attend) /\ UNCHANGED cache => TiersInv'
<1> SUFFICES ASSUME TiersInv, Refuse \/ Attend, UNCHANGED cache PROVE TiersInv'
  OBVIOUS
<1>1. TypeOK /\ Apart /\ Owners /\ Stamped
  BY DEF TiersInv
<1>2. UNCHANGED <<Reqs, Slots, R, RingRows, Layers, freeList, slotsOf, fresh, owner, ring, int4>>
  BY Rigid DEF Refuse, Attend, tiers
<1>3. UNCHANGED Written
  BY <1>2 DEF Written
<1>4. /\ layer' \in Layers /\ pc' \in {"store", "verify", "dead"}
      /\ pc' = "verify" => layer' = 0
      /\ pc' = "store" => pc = "read"
  <2>1. layer \in 0 .. cache.layers - 1 /\ cache.layers \in Nat \ {0}
    BY <1>1, Sizes DEF TypeOK, Layers
  <2> QED BY <2>1 DEF Refuse, Attend, Layers
<1>5. TypeOK'
  BY <1>1, <1>2, <1>4 DEF TypeOK
<1>6. Apart' /\ Progress' /\ Owners'
  BY <1>1, <1>2, <1>4 DEF Apart, Progress, Owners, RingRow
<1>7. Stamped'
  BY <1>1, <1>2, <1>3, <1>4 DEF Stamped, RingRow
<1> QED BY <1>5, <1>6, <1>7 DEF TiersInv

LEMMA QuietMemory ==
  TiersInv /\ Memory /\ (Refuse \/ Attend) /\ UNCHANGED cache => Memory'
<1> SUFFICES ASSUME TiersInv, Memory, Refuse \/ Attend, UNCHANGED cache PROVE Memory'
  OBVIOUS
<1>1. UNCHANGED <<Reqs, Slots, R, RingRows, Layers, freeList, slotsOf, fresh, owner, ring, int4>>
  BY Rigid DEF Refuse, Attend, tiers
<1>2. \A l \in Layers : Passed(l)' => Passed(l)
  <2>1. layer \in 0 .. cache.layers - 1 /\ cache.layers \in Nat \ {0}
    BY Sizes DEF TiersInv, TypeOK, Layers
  <2>2. CASE Refuse
    BY <2>2 DEF Refuse, Passed
  <2>3. CASE Attend
    <3> SUFFICES ASSUME NEW l \in Layers, Passed(l)' PROVE Passed(l)
      OBVIOUS
    <3>1. l \in 0 .. cache.layers - 1
      BY DEF Layers
    <3>2. pc = "read"
      BY <2>3 DEF Attend
    <3>3. l < layer \/ l = layer
      <4>1. CASE layer + 1 < cache.layers
        BY <2>1, <2>3, <3>1, <4>1 DEF Attend, Passed
      <4>2. CASE ~(layer + 1 < cache.layers)
        BY <2>1, <3>1, <4>2
      <4> QED BY <4>1, <4>2
    <3> QED BY <3>2, <3>3 DEF Passed
  <2> QED BY <2>2, <2>3
<1>3. \A l, s : Stored(l, s) => Stored(l, s)'
  BY <1>1 DEF Stored, Hot, RingRow
<1>4. \A q \in Reqs : \A i \in 1 .. Len(slotsOf[q]) : \A l \in Layers :
        i <= Len(slotsOf[q]) - fresh[q] \/ Passed(l)' => Stored(l, slotsOf[q][i])
  BY <1>2 DEF Memory
<1> QED BY <1>1, <1>3, <1>4 DEF Memory, Stored, Hot, RingRow

-----------------------------------------------------------------------------
(* A request keeps the first slots it has and gives the others back.       *)

Split(q, kept, given) ==
  /\ kept \in Seq(Slots \ {0}) /\ given \in Seq(Slots \ {0})
  /\ Len(slotsOf[q]) = Len(kept) + Len(given)
  /\ \A i \in 1 .. Len(kept) : kept[i] = slotsOf[q][i]
  /\ \A i \in 1 .. Len(given) : given[i] = slotsOf[q][Len(kept) + i]

LEMMA GiveBack ==
  ASSUME TiersInv, UNCHANGED cache, NEW q \in Reqs, NEW kept, NEW given,
         Split(q, kept, given), slotsOf' = [slotsOf EXCEPT ![q] = kept],
         Release(given) \/ UNCHANGED <<freeList, owner>>
  PROVE  /\ freeList' \in Seq(Slots \ {0}) /\ IsInjective(freeList')
         /\ slotsOf' \in [Reqs -> Seq(Slots \ {0})]
         /\ \A p \in Reqs : /\ Len(slotsOf'[p]) \in 0 .. Len(slotsOf[p])
                            /\ \A i \in 1 .. Len(slotsOf'[p]) : slotsOf'[p][i] = slotsOf[p][i]
         /\ owner' \in [RingRows -> Slots \cup {Nobody}]
         /\ \A r \in RingRows : owner'[r] = owner[r] \/ owner'[r] = Nobody
         /\ Apart' /\ Owners'
<1>1. TypeOK /\ Apart /\ Owners
  BY DEF TiersInv
<1>2. UNCHANGED <<Reqs, Slots, R, RingRows, Layers>>
  BY Rigid
<1>3. /\ kept \in Seq(Slots \ {0}) /\ given \in Seq(Slots \ {0})
      /\ Len(kept) \in Nat /\ Len(given) \in Nat /\ Len(slotsOf[q]) = Len(kept) + Len(given)
      /\ \A i \in 1 .. Len(kept) : kept[i] = slotsOf[q][i] /\ i \in 1 .. Len(slotsOf[q])
      /\ \A i \in 1 .. Len(given) :
           given[i] = slotsOf[q][Len(kept) + i] /\ Len(kept) + i \in 1 .. Len(slotsOf[q])
  <2>1. /\ kept \in Seq(Slots \ {0}) /\ given \in Seq(Slots \ {0})
        /\ Len(slotsOf[q]) = Len(kept) + Len(given)
        /\ \A i \in 1 .. Len(kept) : kept[i] = slotsOf[q][i]
        /\ \A i \in 1 .. Len(given) : given[i] = slotsOf[q][Len(kept) + i]
    BY DEF Split
  <2>2. Len(kept) \in Nat /\ Len(given) \in Nat
    BY <2>1
  <2> QED BY <2>1, <2>2
<1>4. /\ slotsOf \in [Reqs -> Seq(Slots \ {0})] /\ owner \in [RingRows -> Slots \cup {Nobody}]
      /\ freeList \in Seq(Slots \ {0}) /\ IsInjective(freeList)
      /\ \A p \in Reqs : Len(slotsOf[p]) \in Nat
  BY <1>1, SlotFacts DEF TypeOK
<1>5. /\ \A i, j \in 1 .. Len(slotsOf[q]) : slotsOf[q][i] = slotsOf[q][j] => i = j
      /\ \A p \in Reqs : \A i \in 1 .. Len(slotsOf[p]) : ~In(slotsOf[p][i], freeList)
  BY <1>1 DEF Apart, In
<1>6. \A i, j \in 1 .. Len(given) : given[i] = given[j] => i = j
  <2> SUFFICES ASSUME NEW i \in 1 .. Len(given), NEW j \in 1 .. Len(given), given[i] = given[j]
               PROVE  i = j
    OBVIOUS
  <2>1. /\ Len(kept) + i \in 1 .. Len(slotsOf[q]) /\ given[i] = slotsOf[q][Len(kept) + i]
        /\ Len(kept) + j \in 1 .. Len(slotsOf[q]) /\ given[j] = slotsOf[q][Len(kept) + j]
    BY <1>3
  <2>2. Len(kept) + i = Len(kept) + j
    BY <1>5, <2>1
  <2>3. i \in Nat /\ j \in Nat /\ Len(kept) \in Nat
    BY <1>3
  <2> QED BY <2>2, <2>3
<1>7. \A i \in 1 .. Len(given) : ~In(given[i], freeList)
  BY <1>3, <1>5
<1>8. /\ freeList' \in Seq(Slots \ {0}) /\ IsInjective(freeList')
      /\ \A x : In(x, freeList') => In(x, freeList) \/ In(x, given)
      /\ owner' \in [RingRows -> Slots \cup {Nobody}]
      /\ \A r \in RingRows : owner'[r] = owner[r] \/ owner'[r] = Nobody
  <2>1. CASE Release(given)
    BY <1>1, <1>3, <1>6, <1>7, <2>1, ReleaseFacts
  <2>2. CASE UNCHANGED <<freeList, owner>>
    BY <1>4, <2>2
  <2> QED BY <2>1, <2>2
<1>9. ASSUME NEW p \in Reqs
      PROVE  /\ slotsOf'[p] \in Seq(Slots \ {0})
             /\ Len(slotsOf'[p]) \in 0 .. Len(slotsOf[p])
             /\ \A i \in 1 .. Len(slotsOf'[p]) :
                  slotsOf'[p][i] = slotsOf[p][i] /\ i \in 1 .. Len(slotsOf[p])
             /\ p = q => slotsOf'[p] = kept
  <2>1. CASE p = q
    <3>1. slotsOf'[p] = kept
      BY <1>4, <2>1
    <3> QED BY <1>3, <2>1, <3>1
  <2>2. CASE p # q
    <3>1. slotsOf'[p] = slotsOf[p] /\ slotsOf[p] \in Seq(Slots \ {0})
      BY <1>4, <2>2
    <3> QED BY <1>4, <2>2, <3>1
  <2> QED BY <2>1, <2>2
<1>10. slotsOf' \in [Reqs -> Seq(Slots \ {0})]
  BY <1>3, <1>4
<1>11. Apart'
  <2>1. ASSUME NEW a \in Reqs, NEW b \in Reqs, NEW i \in 1 .. Len(slotsOf'[a]),
               NEW j \in 1 .. Len(slotsOf'[b]), slotsOf'[a][i] = slotsOf'[b][j]
        PROVE  a = b /\ i = j
    <3>1. slotsOf[a][i] = slotsOf[b][j] /\ i \in 1 .. Len(slotsOf[a]) /\ j \in 1 .. Len(slotsOf[b])
      BY <1>9, <2>1
    <3> QED BY <1>1, <3>1 DEF Apart
  <2>2. ASSUME NEW a \in Reqs, NEW i \in 1 .. Len(slotsOf'[a]), NEW j \in 1 .. Len(freeList'),
               slotsOf'[a][i] = freeList'[j]
        PROVE  FALSE
    <3>1. slotsOf'[a][i] = slotsOf[a][i] /\ i \in 1 .. Len(slotsOf[a])
      BY <1>9
    <3>2. In(slotsOf[a][i], freeList')
      BY <2>2, <3>1 DEF In
    <3>3. In(slotsOf[a][i], given)
      BY <1>5, <1>8, <3>1, <3>2
    <3>4. PICK k \in 1 .. Len(given) : given[k] = slotsOf[a][i]
      BY <3>3 DEF In
    <3>5. slotsOf[q][Len(kept) + k] = slotsOf[a][i] /\ Len(kept) + k \in 1 .. Len(slotsOf[q])
      BY <1>3, <3>4
    <3>6. a = q /\ i = Len(kept) + k
      BY <1>1, <3>1, <3>5 DEF Apart
    <3>7. i \in 1 .. Len(kept)
      BY <1>9, <3>6
    <3> QED BY <1>3, <3>6, <3>7
  <2> QED BY <1>2, <2>1, <2>2 DEF Apart
<1>12. Owners'
  <2>1. \A r \in RingRows : owner'[r] # Nobody => RingRow(owner'[r]) = r
    BY <1>1, <1>8 DEF Owners
  <2> QED BY <1>2, <2>1 DEF Owners, RingRow
<1> QED BY <1>8, <1>9, <1>10, <1>11, <1>12

(* Reads do not change when slots are given back.                          *)
LEMMA GiveBackMemory ==
  ASSUME TiersInv, Memory, UNCHANGED <<cache, layer, ring, int4>>,
         pc \in {"ready", "verify"},
         \A p \in Reqs : /\ Len(slotsOf'[p]) \in 0 .. Len(slotsOf[p])
                         /\ \A i \in 1 .. Len(slotsOf'[p]) : slotsOf'[p][i] = slotsOf[p][i],
         \A r \in RingRows : owner'[r] = owner[r] \/ owner'[r] = Nobody
  PROVE  Memory'
<1>1. UNCHANGED <<Reqs, Slots, R, RingRows, Layers>>
  BY Rigid
<1> SUFFICES ASSUME NEW q \in Reqs, NEW i \in 1 .. Len(slotsOf'[q]), NEW l \in Layers
             PROVE  Stored(l, slotsOf[q][i])'
  BY <1>1 DEF Memory
<1>2. PICK s : s = slotsOf[q][i]
  OBVIOUS
<1>3. slotsOf'[q][i] = s /\ i \in 1 .. Len(slotsOf[q])
  <2>1. Len(slotsOf[q]) \in Nat
    BY SlotFacts DEF TiersInv
  <2> QED BY <1>2, <2>1
<1>4. Stored(l, s)
  BY <1>2, <1>3 DEF Memory, Passed
<1>5. s # Nobody /\ RingRow(s) \in RingRows
  <2>1. s \in Slots /\ s \in Nat
    BY <1>2, <1>3, SlotFacts DEF TiersInv
  <2> QED BY <2>1, RowBounds, Sizes DEF TiersInv, TypeOK
<1>6. owner'[RingRow(s)] = s => Hot(s)
  BY <1>5 DEF Hot
<1> QED BY <1>1, <1>3, <1>4, <1>6 DEF Stored, Hot, RingRow

LEMMA EndSplit == TypeOK => \A q \in Reqs : Split(q, <<>>, slotsOf[q])
<1> SUFFICES ASSUME TypeOK, NEW q \in Reqs PROVE Split(q, <<>>, slotsOf[q])
  OBVIOUS
<1>1. slotsOf[q] \in Seq(Slots \ {0}) /\ Len(slotsOf[q]) \in Nat
  BY SlotFacts
<1>2. <<>> \in Seq(Slots \ {0}) /\ Len(<<>>) = 0
  OBVIOUS
<1>3. \A i \in 1 .. Len(slotsOf[q]) : 0 + i = i
  OBVIOUS
<1> QED BY <1>1, <1>2, <1>3 DEF Split

LEMMA VerifySplit ==
  ASSUME TypeOK, NEW q \in Reqs, NEW drop \in Nat, drop < fresh[q]
  PROVE  /\ Split(q, Kept(q, drop), LastOf(slotsOf[q], drop))
         /\ Len(Kept(q, drop)) = Len(slotsOf[q]) - drop
<1> DEFINE seq == slotsOf[q]
           k == Len(seq) - drop
<1>1. seq \in Seq(Slots \ {0}) /\ Len(seq) \in Nat /\ drop \in 0 .. Len(seq) /\ k \in 0 .. Len(seq)
  <2>1. seq \in Seq(Slots \ {0}) /\ Len(seq) \in Nat /\ fresh[q] \in 0 .. Len(seq)
    BY SlotFacts
  <2> HIDE DEF seq
  <2> QED BY <2>1
<1>2. k + drop = Len(seq) /\ \A i \in 1 .. drop : Len(seq) - drop + i = k + i
  BY <1>1
<1>3. Kept(q, drop) = SubSeq(seq, 1, k)
  BY DEF Kept
<1> HIDE DEF seq, k
<1>4. /\ SubSeq(seq, 1, k) \in Seq(Slots \ {0}) /\ Len(SubSeq(seq, 1, k)) = k
      /\ \A i \in 1 .. k : SubSeq(seq, 1, k)[i] = seq[i]
  BY <1>1, FirstOfFacts
<1>5. /\ LastOf(seq, drop) \in Seq(Slots \ {0}) /\ Len(LastOf(seq, drop)) = drop
      /\ \A i \in 1 .. drop : LastOf(seq, drop)[i] = seq[Len(seq) - drop + i]
  BY <1>1, LastOfFacts
<1>6. \A i \in 1 .. drop : LastOf(seq, drop)[i] = seq[k + i]
  BY <1>2, <1>5
<1> QED BY <1>2, <1>3, <1>4, <1>5, <1>6 DEF Split, seq, k

LEMMA VerifyInv == TiersInv /\ Verify /\ UNCHANGED cache => TiersInv' /\ (Memory => Memory')
<1> SUFFICES ASSUME TiersInv, Verify, UNCHANGED cache PROVE TiersInv' /\ (Memory => Memory')
  OBVIOUS
<1>1. TypeOK /\ Progress
  BY DEF TiersInv
<1>2. PICK q \in Reqs, drop \in 0 .. cache.maxTokens - 1 :
        /\ drop < fresh[q]
        /\ slotsOf' = [slotsOf EXCEPT ![q] = Kept(q, drop)]
        /\ fresh' = [fresh EXCEPT ![q] = 0]
        /\ IF drop = 0 THEN UNCHANGED <<freeList, owner>> ELSE Release(LastOf(slotsOf[q], drop))
        /\ pc' = IF \A p \in Reqs \ {q} : fresh[p] = 0 THEN "ready" ELSE "verify"
  BY DEF Verify
<1>3. drop \in Nat
  BY <1>1, Sizes DEF TypeOK
<1>4. Split(q, Kept(q, drop), LastOf(slotsOf[q], drop))
  BY <1>1, <1>2, <1>3, VerifySplit
<1>5. Release(LastOf(slotsOf[q], drop)) \/ UNCHANGED <<freeList, owner>>
  BY <1>2
<1>6. /\ freeList' \in Seq(Slots \ {0}) /\ IsInjective(freeList')
      /\ slotsOf' \in [Reqs -> Seq(Slots \ {0})]
      /\ \A p \in Reqs : /\ Len(slotsOf'[p]) \in 0 .. Len(slotsOf[p])
                         /\ \A i \in 1 .. Len(slotsOf'[p]) : slotsOf'[p][i] = slotsOf[p][i]
      /\ owner' \in [RingRows -> Slots \cup {Nobody}]
      /\ \A r \in RingRows : owner'[r] = owner[r] \/ owner'[r] = Nobody
      /\ Apart' /\ Owners'
  BY <1>2, <1>4, <1>5, GiveBack
<1>7. /\ UNCHANGED <<Reqs, Slots, R, RingRows, Layers, layer, ring, int4>>
      /\ pc = "verify" /\ pc' \in {"ready", "verify"} /\ layer = 0
  BY <1>1, <1>2, Rigid DEF Verify, Progress
<1>8. fresh' \in [Reqs -> Nat] /\ \A p \in Reqs : fresh'[p] = IF p = q THEN 0 ELSE fresh[p]
  BY <1>1, <1>2 DEF TypeOK
<1>9. \A p \in Reqs : fresh'[p] \in 0 .. Len(slotsOf'[p])
  <2> TAKE p \in Reqs
  <2>1. CASE p = q
    <3>1. Len(slotsOf'[p]) \in Nat
      BY <1>6
    <3> QED BY <1>8, <2>1, <3>1
  <2>2. CASE p # q
    <3>1. slotsOf'[p] = slotsOf[p]
      BY <1>1, <1>2, <2>2 DEF TypeOK
    <3> QED BY <1>1, <1>8, <2>2, <3>1, SlotFacts
  <2> QED BY <2>1, <2>2
<1>10. TypeOK'
  BY <1>1, <1>6, <1>7, <1>8, <1>9 DEF TypeOK
<1>11. Progress' /\ Stamped'
  BY <1>2, <1>7, <1>8 DEF Progress, Stamped
<1>12. Memory => Memory'
  BY <1>6, <1>7, GiveBackMemory
<1> QED BY <1>6, <1>10, <1>11, <1>12 DEF TiersInv

LEMMA EndInv == TiersInv /\ End /\ UNCHANGED cache => TiersInv' /\ (Memory => Memory')
<1> SUFFICES ASSUME TiersInv, End, UNCHANGED cache PROVE TiersInv' /\ (Memory => Memory')
  OBVIOUS
<1>1. TypeOK /\ Progress
  BY DEF TiersInv
<1>2. PICK q \in Reqs : slotsOf' = [slotsOf EXCEPT ![q] = <<>>] /\ Release(slotsOf[q])
  BY DEF End
<1>3. Split(q, <<>>, slotsOf[q])
  BY <1>1, EndSplit
<1>4. /\ freeList' \in Seq(Slots \ {0}) /\ IsInjective(freeList')
      /\ slotsOf' \in [Reqs -> Seq(Slots \ {0})]
      /\ \A p \in Reqs : /\ Len(slotsOf'[p]) \in 0 .. Len(slotsOf[p])
                         /\ \A i \in 1 .. Len(slotsOf'[p]) : slotsOf'[p][i] = slotsOf[p][i]
      /\ owner' \in [RingRows -> Slots \cup {Nobody}]
      /\ \A r \in RingRows : owner'[r] = owner[r] \/ owner'[r] = Nobody
      /\ Apart' /\ Owners'
  BY <1>2, <1>3, GiveBack
<1>5. /\ UNCHANGED <<Reqs, Slots, R, RingRows, Layers, layer, ring, int4, fresh, pc>>
      /\ pc = "ready" /\ \A p \in Reqs : fresh[p] = 0
  BY <1>1, Rigid DEF End, Progress
<1>6. \A p \in Reqs : fresh'[p] \in 0 .. Len(slotsOf'[p])
  BY <1>4, <1>5
<1>7. TypeOK'
  BY <1>1, <1>4, <1>5, <1>6 DEF TypeOK
<1>8. Progress' /\ Stamped'
  BY <1>1, <1>5 DEF Progress, Stamped
<1>9. Memory => Memory'
  BY <1>4, <1>5, GiveBackMemory
<1> QED BY <1>4, <1>7, <1>8, <1>9 DEF TiersInv

LEMMA StutterInv ==
  ASSUME UNCHANGED vars
  PROVE  (TiersInv => TiersInv') /\ (Memory => Memory') /\ (StackInv => StackInv')
<1>1. UNCHANGED <<cache, freeList, slotsOf, fresh, layer, pc, owner, ring, int4>>
  BY DEF vars
<1>2. UNCHANGED <<Reqs, Slots, R, RingRows, Layers>>
  BY <1>1, Rigid
<1>3. UNCHANGED Written
  BY <1>1, <1>2 DEF Written
<1>4. TiersInv => TiersInv'
  <2>1. TypeOK => TypeOK'
    BY <1>1, <1>2 DEF TypeOK
  <2>2. (Apart => Apart') /\ (Progress => Progress') /\ (Owners => Owners')
    BY <1>1, <1>2 DEF Apart, Progress, Owners, RingRow
  <2>3. Stamped => Stamped'
    BY <1>1, <1>2, <1>3 DEF Stamped, RingRow
  <2> QED BY <2>1, <2>2, <2>3 DEF TiersInv
<1>5. Memory => Memory'
  BY <1>1, <1>2 DEF Memory, Passed, Stored, Hot, RingRow
<1>6. StackInv => StackInv'
  <2>1. Stack => Stack'
    BY <1>1 DEF Stack
  <2>2. Window => Window'
    BY <1>1, <1>2 DEF Window, Launched, Hot, RingRow
  <2> QED BY <1>1, <2>1, <2>2 DEF StackInv, OneStack
<1> QED BY <1>4, <1>5, <1>6

LEMMA InitInv == Init => TiersInv /\ Memory /\ StackInv
<1> SUFFICES ASSUME Init PROVE TiersInv /\ Memory /\ StackInv
  OBVIOUS
<1>1. /\ cache \in Caches /\ slotsOf = [q \in Reqs |-> <<>>] /\ fresh = [q \in Reqs |-> 0]
      /\ layer = 0 /\ pc = "ready" /\ freeList = [i \in 1 .. cache.slots |-> i]
      /\ ring = [l \in Layers |-> [r \in RingRows |-> Junk]]
      /\ int4 = [l \in Layers |-> [s \in Slots |-> Junk]]
  BY DEF Init
<1>2. PICK captured \in BOOLEAN :
        owner = [r \in RingRows |-> IF captured /\ r = 0 THEN 0 ELSE Nobody]
  BY DEF Init
<1>3. /\ cache.slots \in Nat \ {0} /\ cache.layers \in Nat \ {0} /\ R \in Nat \ {0}
      /\ Slots \ {0} = 1 .. cache.slots /\ 0 \in Slots
  BY <1>1, Sizes DEF Slots
<1>4. <<>> \in Seq(Slots \ {0}) /\ Len(<<>>) = 0 /\ \A q \in Reqs : Len(slotsOf[q]) = 0
  BY <1>1
<1>5. freeList \in Seq(Slots \ {0}) /\ Len(freeList) = cache.slots /\ IsInjective(freeList)
  <2>1. PICK n \in Nat : n = cache.slots
    BY <1>3
  <2>2. freeList = [i \in 1 .. n |-> i] /\ Slots \ {0} = 1 .. n
    BY <1>1, <1>3, <2>1
  <2>3. [i \in 1 .. n |-> i] \in Seq(1 .. n) /\ Len([i \in 1 .. n |-> i]) = n
    OBVIOUS
  <2>4. IsInjective(freeList)
    BY <2>2 DEF IsInjective
  <2> QED BY <2>1, <2>2, <2>3, <2>4
<1>6. TypeOK
  <2>1. slotsOf \in [Reqs -> Seq(Slots \ {0})]
    BY <1>1, <1>4
  <2>2. fresh \in [Reqs -> Nat] /\ \A q \in Reqs : fresh[q] \in 0 .. Len(slotsOf[q])
    BY <1>1, <1>4
  <2>3. layer \in Layers
    BY <1>1, <1>3 DEF Layers
  <2>4. owner \in [RingRows -> Slots \cup {Nobody}]
    BY <1>2, <1>3
  <2>5. /\ ring \in [Layers -> [RingRows -> Slots \cup {Junk}]]
        /\ int4 \in [Layers -> [Slots -> Slots \cup {Junk}]]
    BY <1>1
  <2> QED BY <1>1, <1>5, <2>1, <2>2, <2>3, <2>4, <2>5 DEF TypeOK
<1>7. Apart /\ Memory
  BY <1>4 DEF Apart, Memory
<1>8. Progress /\ Stamped
  BY <1>1 DEF Progress, Stamped
<1>9. Owners
  <2>1. 0 % R = 0
    BY <1>3
  <2> QED BY <1>2, <2>1 DEF Owners, RingRow
<1>10. StackInv
  <2> SUFFICES ASSUME OneStack PROVE Stack /\ Window
    BY DEF StackInv
  <2>1. 1 \in Reqs /\ Len(slotsOf[1]) = 0
    BY <1>4 DEF OneStack, Reqs
  <2>2. \A j \in 1 .. Len(freeList) : freeList[j] = 0 + j
    <3>1. \A j \in 1 .. cache.slots : freeList[j] = j /\ 0 + j = j
      BY <1>1
    <3> QED BY <1>5, <3>1
  <2> QED BY <1>3, <1>5, <2>1, <2>2 DEF Stack, Window
<1> QED BY <1>6, <1>7, <1>8, <1>9, <1>10 DEF TiersInv

LEMMA NextInv == TiersInv /\ [Next]_vars => TiersInv'
<1> SUFFICES ASSUME TiersInv, [Next]_vars PROVE TiersInv'
  OBVIOUS
<1>1. CASE Begin /\ UNCHANGED cache
  BY <1>1, BeginInv
<1>2. CASE Store /\ UNCHANGED cache
  BY <1>2, StoreInv
<1>3. CASE (Refuse \/ Attend) /\ UNCHANGED cache
  BY <1>3, QuietInv
<1>4. CASE Verify /\ UNCHANGED cache
  BY <1>4, VerifyInv
<1>5. CASE End /\ UNCHANGED cache
  BY <1>5, EndInv
<1>6. CASE UNCHANGED vars
  BY <1>6, StutterInv
<1> QED BY <1>1, <1>2, <1>3, <1>4, <1>5, <1>6 DEF Next

(* Whatever is taken, rejected, freed and reset: a slot is in the free     *)
(* list or stands for one token of one request, never two of them, and the *)
(* owner table names slots of the right rows.                              *)
THEOREM Invariance == Spec => []TiersInv
<1>1. Init => TiersInv
  BY InitInv
<1> QED BY <1>1, NextInv, PTL DEF Spec

(* The variables keep their types, and no slot is twice in the free list:  *)
(* a request that drops rejected slots no longer counts them.              *)
THEOREM TypeCorrect == Spec => []TypeOK
<1>1. TiersInv => TypeOK
  BY DEF TiersInv
<1> QED BY <1>1, Invariance, PTL

-----------------------------------------------------------------------------
(* Reads.                                                                  *)

LEMMA NextMemory == TiersInv /\ Memory /\ OneWinner /\ [Next]_vars => Memory'
<1> SUFFICES ASSUME TiersInv, Memory, OneWinner, [Next]_vars PROVE Memory'
  OBVIOUS
<1>1. CASE Begin /\ UNCHANGED cache
  BY <1>1, BeginMemory
<1>2. CASE Store /\ UNCHANGED cache
  BY <1>2, StoreMemory
<1>3. CASE (Refuse \/ Attend) /\ UNCHANGED cache
  BY <1>3, QuietMemory
<1>4. CASE Verify /\ UNCHANGED cache
  BY <1>4, VerifyInv
<1>5. CASE End /\ UNCHANGED cache
  BY <1>5, EndInv
<1>6. CASE UNCHANGED vars
  BY <1>6, StutterInv
<1> QED BY <1>1, <1>2, <1>3, <1>4, <1>5, <1>6 DEF Next

LEMMA MemoryIsRead == TiersInv /\ Memory => ReadsCurrent
<1> SUFFICES ASSUME TiersInv, Memory, pc = "read", NEW q \in Reqs, NEW s \in ToSet(slotsOf[q])
             PROVE  Read(layer, s) = s
  BY DEF ReadsCurrent
<1>1. slotsOf[q] \in Seq(Slots \ {0}) /\ layer \in Layers
  BY SlotFacts DEF TiersInv, TypeOK
<1>2. PICK i \in 1 .. Len(slotsOf[q]) : slotsOf[q][i] = s
  BY <1>1 DEF ToSet
<1>3. Stored(layer, s)
  BY <1>1, <1>2 DEF Memory, Passed
<1> QED BY <1>3 DEF Stored, Read

(* For any number of requests and layers: as long as no two slots of a     *)
(* write that is accepted share a ring row, or the cache has one layer,    *)
(* attention reads current tokens.  The race of the stamp launch is the    *)
(* only way to a stale row.                                                *)
THEOREM ReadsCurrentUnlessRaced == Spec /\ []OneWinner => []ReadsCurrent
<1>1. Init => Memory
  BY InitInv
<1>2. Spec /\ []OneWinner => []Memory
  BY <1>1, NextMemory, Invariance, PTL DEF Spec
<1> QED BY <1>2, MemoryIsRead, Invariance, PTL

-----------------------------------------------------------------------------
(* One request and the paged allocator.                                    *)

(* The only request has the slots from 1 on, the written ones are the last *)
(* fresh of them.                                                          *)
LEMMA StackFacts ==
  TiersInv /\ Stack /\ OneStack =>
    /\ Reqs = {1} /\ Len(slotsOf[1]) \in Nat /\ fresh[1] \in 0 .. Len(slotsOf[1])
    /\ \A i \in 1 .. Len(slotsOf[1]) : slotsOf[1][i] = i
    /\ Written = Len(slotsOf[1]) - fresh[1] + 1 .. Len(slotsOf[1])
    /\ Cardinality(Written) = fresh[1]
<1> SUFFICES ASSUME TiersInv, Stack, OneStack
             PROVE  /\ Reqs = {1} /\ Len(slotsOf[1]) \in Nat /\ fresh[1] \in 0 .. Len(slotsOf[1])
                    /\ \A i \in 1 .. Len(slotsOf[1]) : slotsOf[1][i] = i
                    /\ Written = Len(slotsOf[1]) - fresh[1] + 1 .. Len(slotsOf[1])
                    /\ Cardinality(Written) = fresh[1]
  OBVIOUS
<1> DEFINE last == Len(slotsOf[1])
<1>1. Reqs = {1}
  BY DEF OneStack, Reqs
<1>2. last \in Nat /\ fresh[1] \in 0 .. last
  BY <1>1, SlotFacts DEF TiersInv
<1>3. \A i \in 1 .. last : slotsOf[1][i] = i
  BY DEF Stack
<1>4. \A s : s \in Written <=> \E i \in 1 .. last : i > last - fresh[1] /\ slotsOf[1][i] = s
  BY <1>1, WrittenFacts DEF TiersInv
<1> HIDE DEF last
<1>5. \A s : s \in Written <=> s \in 1 .. last /\ s > last - fresh[1]
  BY <1>3, <1>4
<1>6. \A s : s \in 1 .. last /\ s > last - fresh[1] <=> s \in last - fresh[1] + 1 .. last
  BY <1>2
<1>7. Written = last - fresh[1] + 1 .. last
  BY <1>5, <1>6
<1>8. Cardinality(Written) = fresh[1]
  <2>1. PICK a \in Int, b \in Int : a = last - fresh[1] + 1 /\ b = last
    BY <1>2
  <2>2. Cardinality(a .. b) = IF a > b THEN 0 ELSE b - a + 1
    BY FS_Interval
  <2>3. (IF a > b THEN 0 ELSE b - a + 1) = fresh[1]
    BY <1>2, <2>1
  <2> QED BY <1>7, <2>1, <2>2, <2>3
<1> QED BY <1>1, <1>2, <1>3, <1>7, <1>8 DEF last

(* At most R consecutive slots have rows of their own.                     *)
LEMMA StackApart == TiersInv /\ Stack /\ OneStack => RowsApart
<1> SUFFICES ASSUME TiersInv, Stack, OneStack, FitsRing, NEW s \in Written, NEW t \in Written,
                    RingRow(s) = RingRow(t)
             PROVE  s = t
  BY DEF RowsApart
<1>1. PICK last \in Nat, n \in Nat :
        n <= R /\ s \in last - n + 1 .. last /\ t \in last - n + 1 .. last /\ n <= last
  <2>1. /\ Len(slotsOf[1]) \in Nat /\ fresh[1] \in 0 .. Len(slotsOf[1])
        /\ Written = Len(slotsOf[1]) - fresh[1] + 1 .. Len(slotsOf[1])
        /\ Cardinality(Written) = fresh[1]
    BY StackFacts
  <2>2. PICK last \in Nat, n \in Nat : last = Len(slotsOf[1]) /\ n = fresh[1]
    BY <2>1
  <2>3. n <= R /\ n <= last /\ Written = last - n + 1 .. last
    BY <2>1, <2>2 DEF FitsRing
  <2>4. s \in last - n + 1 .. last /\ t \in last - n + 1 .. last
    BY <2>3
  <2> QED BY <2>3, <2>4
<1>2. R \in Nat \ {0} /\ s \in Nat /\ t \in Nat /\ s % R = t % R
  BY <1>1, Sizes DEF TiersInv, TypeOK, RingRow
<1>3. ~(s < t)
  <2>1. s < t => s + R <= t
    BY <1>2, SameRowFarApart
  <2> QED BY <1>1, <1>2, <2>1
<1>4. ~(t < s)
  <2>1. t < s => t + R <= s
    BY <1>2, SameRowFarApart
  <2> QED BY <1>1, <1>2, <2>1
<1> QED BY <1>2, <1>3, <1>4

LEMMA OneSegment ==
  ASSUME cache \in Caches, OneStack, NEW n \in [Reqs -> 0 .. cache.maxTokens]
  PROVE  TokensBefore(n, 1) = 0 /\ TokensBefore(n, cache.reqs + 1) = n[1] /\ n[1] \in Nat
<1>1. cache.reqs = 1 /\ Reqs = 1 .. 1
  BY DEF OneStack, Reqs
<1>2. n[1] \in Nat
  BY <1>1, Sizes
<1>3. \A i \in 1 .. 1 : n[i] \in Nat
  BY <1>2
<1>4. /\ PrefixSums(n, 1) \in [0 .. 1 -> Nat] /\ PrefixSums(n, 1)[0] = 0
      /\ \A i \in 1 .. 1 : PrefixSums(n, 1)[i] = PrefixSums(n, 1)[i - 1] + n[i]
  BY <1>3, SumsDef
<1>5. PrefixSums(n, 1)[1] = n[1]
  <2>1. 1 \in 1 .. 1 /\ 1 - 1 = 0
    OBVIOUS
  <2>2. PrefixSums(n, 1)[1] = PrefixSums(n, 1)[1 - 1] + n[1]
    BY <1>4, <2>1
  <2> QED BY <1>2, <1>4, <2>1, <2>2
<1>6. 1 - 1 = 0 /\ 1 + 1 - 1 = 1
  OBVIOUS
<1> QED BY <1>1, <1>2, <1>4, <1>5, <1>6 DEF TokensBefore

LEMMA BeginStack ==
  TiersInv /\ StackInv /\ OneStack /\ Begin /\ UNCHANGED cache => (Stack /\ Window)'
<1> SUFFICES ASSUME TiersInv, Stack, Window, OneStack, Begin, UNCHANGED cache
             PROVE  (Stack /\ Window)'
  BY DEF StackInv
<1>1. TypeOK /\ Progress
  BY DEF TiersInv
<1>2. PICK n : Batch(n)
  BY <1>1, BeginFacts
<1>3. /\ UNCHANGED <<Reqs, Slots, R, RingRows, Layers, owner>>
      /\ pc = "ready" /\ pc' = "store" /\ layer' = 0
  BY Rigid DEF Begin
<1>4. PICK last \in Nat : last = Len(slotsOf[1])
  BY StackFacts
<1>5. Reqs = {1} /\ \A i \in 1 .. last : slotsOf[1][i] = i
  BY <1>4, StackFacts
<1>6. layer = 0 /\ fresh[1] = 0
  BY <1>1, <1>3, <1>5 DEF Progress
<1>7. PICK len \in Nat : len = Len(freeList)
  BY <1>1 DEF TypeOK
<1>8. len + last = cache.slots /\ \A j \in 1 .. len : freeList[j] = last + j
  BY <1>4, <1>7 DEF Stack
<1>9. PICK new \in Nat : /\ new = n[1] /\ new <= len /\ fresh'[1] = new
                         /\ Len(slotsOf'[1]) = last + new
                         /\ \A i \in 1 .. last : slotsOf'[1][i] = slotsOf[1][i]
                         /\ \A i \in 1 .. new : slotsOf'[1][last + i] = freeList[i]
                         /\ freeList' \in Seq(Slots \ {0}) /\ Len(freeList') = len - new
                         /\ \A j \in 1 .. len - new : freeList'[j] = freeList[new + j]
  <2>1. n \in [Reqs -> 0 .. cache.maxTokens]
    BY <1>2 DEF Batch
  <2>2. TokensBefore(n, 1) = 0 /\ TokensBefore(n, cache.reqs + 1) = n[1] /\ n[1] \in Nat
    BY <1>1, <2>1, OneSegment DEF TypeOK
  <2>3. /\ Len(slotsOf'[1]) = last + n[1]
        /\ \A i \in 1 .. last : slotsOf'[1][i] = slotsOf[1][i]
        /\ \A i \in 1 .. n[1] : slotsOf'[1][last + i] = freeList[TokensBefore(n, 1) + i]
    BY <1>2, <1>4, <1>5 DEF Batch
  <2>4. \A i \in 1 .. n[1] : TokensBefore(n, 1) + i = i
    BY <2>2
  <2>5. n[1] <= len /\ fresh' = n
    BY <1>2, <1>7, <2>2 DEF Batch
  <2>6. /\ freeList' \in Seq(Slots \ {0}) /\ Len(freeList') = len - n[1]
        /\ \A j \in 1 .. Len(freeList') : freeList'[j] = freeList[n[1] + j]
    BY <1>2, <1>7, <2>2 DEF Batch
  <2>7. PICK new \in Nat : new = n[1]
    BY <2>2
  <2>8. \A i \in 1 .. new : slotsOf'[1][last + i] = freeList[i]
    BY <2>3, <2>4, <2>7
  <2> QED BY <2>3, <2>5, <2>6, <2>7, <2>8
<1>10. \A i \in 1 .. last + new : slotsOf'[1][i] = i
  <2> SUFFICES ASSUME NEW i \in 1 .. last + new PROVE slotsOf'[1][i] = i
    OBVIOUS
  <2>1. CASE i <= last
    <3>1. i \in 1 .. last
      BY <2>1
    <3>2. slotsOf'[1][i] = slotsOf[1][i]
      BY <1>9, <3>1
    <3> QED BY <1>5, <3>1, <3>2
  <2>2. CASE i > last
    <3>1. new <= len
      BY <1>9
    <3>2. i - last \in 1 .. new /\ last + (i - last) = i /\ i - last \in 1 .. len
      BY <2>2, <3>1
    <3>3. slotsOf'[1][last + (i - last)] = freeList[i - last]
      BY <1>9, <3>2
    <3>4. freeList[i - last] = last + (i - last)
      BY <1>8, <3>2
    <3>5. slotsOf'[1][last + (i - last)] = slotsOf'[1][i]
      BY <3>2
    <3> QED BY <3>2, <3>3, <3>4, <3>5
  <2> QED BY <2>1, <2>2
<1>11. \A j \in 1 .. len - new : freeList'[j] = last + new + j
  <2> TAKE j \in 1 .. len - new
  <2>1. new <= len
    BY <1>9
  <2>2. new + j \in 1 .. len /\ last + (new + j) = last + new + j
    BY <2>1
  <2> QED BY <1>8, <1>9, <2>2
<1>12. Stack'
  <2>1. len - new + (last + new) = cache'.slots
    BY <1>8
  <2> QED BY <1>9, <1>10, <1>11, <2>1 DEF Stack
<1>13. Window'
  <2>1. ~Launched'
    BY <1>3 DEF Launched
  <2>2. Len(slotsOf'[1]) - fresh'[1] = last
    BY <1>9
  <2>3. \A i \in 1 .. last :
          (i = last \/ last - i <= R - cache.maxTokens) => owner[RingRow(i)] = i
    BY <1>3, <1>4, <1>6 DEF Window, Launched, Hot
  <2>4. \A i \in 1 .. Len(slotsOf'[1]) : i <= last => i \in 1 .. last
    BY <1>9
  <2> QED BY <1>3, <2>1, <2>2, <2>3, <2>4 DEF Window, Hot, RingRow
<1> QED BY <1>12, <1>13

LEMMA StoreStack ==
  TiersInv /\ StackInv /\ OneStack /\ Store /\ UNCHANGED cache => (Stack /\ Window)'
<1> SUFFICES ASSUME TiersInv, Stack, Window, OneStack, Store, UNCHANGED cache
             PROVE  (Stack /\ Window)'
  BY DEF StackInv
<1>1. TypeOK /\ RowsApart /\ FitsRing
  BY StackApart DEF TiersInv, Store
<1>2. UNCHANGED <<Reqs, Slots, R, RingRows, Layers, freeList, slotsOf, fresh, layer>>
  BY Rigid DEF Store
<1>3. Stack'
  BY <1>2 DEF Stack
<1>4. PICK last \in Nat, old \in Nat : last = Len(slotsOf[1]) /\ old = last - fresh[1]
  <2>1. Len(slotsOf[1]) \in Nat /\ fresh[1] \in 0 .. Len(slotsOf[1])
    BY StackFacts
  <2> QED BY <2>1
<1>5. Written = old + 1 .. last
  BY <1>4, StackFacts
<1>6. R \in Nat \ {0} /\ \A i \in 1 .. last : RingRow(i) \in RingRows
  BY <1>1, RowBounds, Sizes DEF TypeOK
<1>7. ASSUME NEW i \in 1 .. last, i > old PROVE owner'[RingRow(i)] = i
  <2>1. i \in Written
    BY <1>4, <1>5, <1>7
  <2>2. owner'[RingRow(i)] \in Written
    BY <1>1, <2>1, StoreFacts
  <2>3. RingRow(owner'[RingRow(i)]) = RingRow(i)
    BY <1>1, <1>6, <2>1, StoreFacts
  <2> QED BY <1>1, <2>1, <2>2, <2>3 DEF RowsApart
<1>8. ASSUME NEW i \in 1 .. last, i <= old, i = old \/ old - i <= R - cache.maxTokens, last - i < R
      PROVE  owner'[RingRow(i)] = i
  <2>1. owner[RingRow(i)] = i
    BY <1>4, <1>8 DEF Window, Hot
  <2>2. ASSUME NEW w \in Written, RingRow(w) = RingRow(i) PROVE FALSE
    <3>1. w \in Nat /\ i \in Nat /\ i < w /\ w <= last
      BY <1>4, <1>5, <1>8
    <3>2. i + R <= w
      BY <1>6, <2>2, <3>1, SameRowFarApart DEF RingRow
    <3> QED BY <1>6, <1>8, <3>1, <3>2
  <2>3. \/ owner'[RingRow(i)] = owner[RingRow(i)]
        \/ owner'[RingRow(i)] \in Written /\ RingRow(owner'[RingRow(i)]) = RingRow(i)
    BY <1>1, <1>6, StoreFacts
  <2> QED BY <2>1, <2>2, <2>3
<1>9. Launched'
  BY DEF Store, Launched
<1>10. Window'
  <2>1. Len(slotsOf'[1]) = last /\ Len(slotsOf'[1]) - fresh'[1] = old
    BY <1>2, <1>4
  <2>2. \A i \in 1 .. last :
          \/ i > old
          \/ i <= old /\ (i = old \/ old - i <= R - cache.maxTokens) /\ last - i < R
          => owner'[RingRow(i)] = i
    BY <1>7, <1>8
  <2> QED BY <1>2, <1>9, <2>1, <2>2 DEF Window, Hot, RingRow
<1> QED BY <1>3, <1>10

LEMMA QuietStack ==
  TiersInv /\ StackInv /\ OneStack /\ (Refuse \/ Attend) /\ UNCHANGED cache => (Stack /\ Window)'
<1> SUFFICES ASSUME TiersInv, Stack, Window, OneStack, Refuse \/ Attend, UNCHANGED cache
             PROVE  (Stack /\ Window)'
  BY DEF StackInv
<1>1. UNCHANGED <<Reqs, Slots, R, RingRows, Layers, freeList, slotsOf, fresh, owner>>
  BY Rigid DEF Refuse, Attend, tiers
<1>2. Stack'
  BY <1>1 DEF Stack
<1>3. Window'
  <2>1. CASE Launched' <=> Launched
    BY <1>1, <2>1 DEF Window, Hot, RingRow
  <2>2. Refuse => (Launched' <=> Launched)
    BY DEF Refuse, Launched
  <2>3. Attend => (Launched' <=> Launched)
    <3>1. layer \in 0 .. cache.layers - 1
      BY DEF TiersInv, TypeOK, Layers
    <3> QED BY <3>1 DEF Attend, Launched
  <2> QED BY <2>1, <2>2, <2>3
<1> QED BY <1>2, <1>3

LEMMA VerifyStack ==
  TiersInv /\ StackInv /\ OneStack /\ Verify /\ UNCHANGED cache => (Stack /\ Window)'
<1> SUFFICES ASSUME TiersInv, Stack, Window, OneStack, Verify, UNCHANGED cache
             PROVE  (Stack /\ Window)'
  BY DEF StackInv
<1>1. TypeOK /\ Reqs = {1}
  BY StackFacts DEF TiersInv
<1>2. /\ UNCHANGED <<Reqs, Slots, R, RingRows, Layers, layer>> /\ pc = "verify" /\ layer = 0
  BY Rigid DEF Verify, TiersInv, Progress
<1>3. PICK drop \in 0 .. cache.maxTokens - 1 :
        /\ drop < fresh[1]
        /\ slotsOf' = [slotsOf EXCEPT ![1] = Kept(1, drop)]
        /\ fresh' = [fresh EXCEPT ![1] = 0]
        /\ IF drop = 0 THEN UNCHANGED <<freeList, owner>> ELSE Release(LastOf(slotsOf[1], drop))
        /\ pc' = IF \A p \in Reqs \ {1} : fresh[p] = 0 THEN "ready" ELSE "verify"
  BY <1>1 DEF Verify
<1>4. PICK last \in Nat, old \in Nat :
        /\ last = Len(slotsOf[1]) /\ old = last - fresh[1] /\ fresh[1] \in 0 .. last
        /\ \A i \in 1 .. last : slotsOf[1][i] = i
  <2>1. /\ Len(slotsOf[1]) \in Nat /\ fresh[1] \in 0 .. Len(slotsOf[1])
        /\ \A i \in 1 .. Len(slotsOf[1]) : slotsOf[1][i] = i
    BY StackFacts
  <2> QED BY <2>1
<1>5. drop \in Nat /\ cache.maxTokens \in Nat /\ R \in Nat /\ drop + 1 <= cache.maxTokens
  BY <1>1, <1>3, Sizes DEF TypeOK
<1>6. PICK now \in Nat : now = last - drop /\ old < now
  <2>1. drop < fresh[1]
    BY <1>3
  <2>2. drop <= last /\ old < last - drop
    BY <1>4, <1>5, <2>1
  <2>3. last - drop \in Nat
    BY <1>5, <2>2
  <2> QED BY <2>2, <2>3
<1> DEFINE given == LastOf(slotsOf[1], drop)
<1>7. /\ Len(slotsOf'[1]) = now
      /\ \A i \in 1 .. now : slotsOf'[1][i] = i
      /\ given \in Seq(Slots \ {0}) /\ Len(given) = drop
      /\ \A i \in 1 .. drop : given[i] = now + i
  <2>1. Split(1, Kept(1, drop), given) /\ Len(Kept(1, drop)) = last - drop
    BY <1>1, <1>3, <1>4, <1>5, VerifySplit
  <2>2. slotsOf'[1] = Kept(1, drop)
    BY <1>1, <1>3 DEF TypeOK
  <2> HIDE DEF given
  <2>3. /\ Len(slotsOf'[1]) = now /\ given \in Seq(Slots \ {0})
        /\ last = now + Len(given)
        /\ \A i \in 1 .. now : slotsOf'[1][i] = slotsOf[1][i]
        /\ \A i \in 1 .. Len(given) : given[i] = slotsOf[1][now + i]
    BY <1>4, <1>6, <2>1, <2>2 DEF Split
  <2>4. Len(given) = drop
    <3>1. \A l, m, n, g \in Nat : m = l - n /\ l = m + g => g = n
      OBVIOUS
    <3>2. Len(given) \in Nat /\ last \in Nat /\ now \in Nat /\ drop \in Nat
      BY <1>5, <2>3
    <3> QED BY <1>6, <2>3, <3>1, <3>2
  <2>5. now <= last /\ \A i \in 1 .. drop : now + i \in 1 .. last
    BY <1>5, <1>6
  <2>6. \A i \in 1 .. now : slotsOf'[1][i] = i
    <3>1. \A i \in 1 .. now : i \in 1 .. last
      BY <2>5
    <3> QED BY <1>4, <2>3, <3>1
  <2>7. \A i \in 1 .. drop : given[i] = now + i
    BY <1>4, <2>3, <2>4, <2>5
  <2> QED BY <2>3, <2>4, <2>6, <2>7
<1> HIDE DEF given
<1>8. PICK len \in Nat : len = Len(freeList)
  BY <1>1 DEF TypeOK
<1>9. len + last = cache.slots /\ \A j \in 1 .. len : freeList[j] = last + j
  BY <1>4, <1>8 DEF Stack
<1>10. /\ Len(freeList') = len + drop /\ \A j \in 1 .. len + drop : freeList'[j] = now + j
       /\ owner' = owner
  <2>1. CASE drop = 0
    BY <1>3, <1>6, <1>8, <1>9, <2>1
  <2>2. CASE drop # 0
    <3>1. len + drop # cache.slots
      BY <1>3, <1>4, <1>6, <1>9
    <3>2. freeList' = given \o freeList /\ owner' = owner
      BY <1>3, <1>7, <1>8, <2>2, <3>1 DEF Release, Freed, OneStack, given
    <3>3. freeList \in Seq(Slots \ {0})
      BY <1>1 DEF TypeOK
    <3>4. /\ Len(given \o freeList) = Len(given) + Len(freeList)
          /\ \A i \in 1 .. Len(given) + Len(freeList) :
               (given \o freeList)[i] = IF i <= Len(given) THEN given[i]
                                        ELSE freeList[i - Len(given)]
      BY <1>7, <3>3, ConcatProperties
    <3>5. Len(freeList') = len + drop
      BY <1>7, <1>8, <3>2, <3>4
    <3>6. ASSUME NEW j \in 1 .. len + drop PROVE freeList'[j] = now + j
      <4>1. freeList'[j] = IF j <= drop THEN given[j] ELSE freeList[j - drop]
        BY <1>5, <1>7, <1>8, <3>2, <3>4
      <4>2. CASE j <= drop
        BY <1>7, <4>1, <4>2
      <4>3. CASE ~(j <= drop)
        <5>1. j - drop \in 1 .. len
          BY <1>5, <4>3
        <5>2. freeList[j - drop] = last + (j - drop)
          BY <1>9, <5>1
        <5>3. last + (j - drop) = now + j
          BY <1>5, <1>6
        <5> QED BY <4>1, <4>3, <5>2, <5>3
      <4> QED BY <4>2, <4>3
    <3> QED BY <3>2, <3>5, <3>6
  <2> QED BY <2>1, <2>2
<1>11. Stack'
  <2>1. len + drop + now = cache'.slots
    BY <1>5, <1>6, <1>9
  <2> QED BY <1>7, <1>10, <2>1 DEF Stack
<1>12. Window'
  <2>1. ~Launched' /\ Launched
    BY <1>1, <1>2, <1>3 DEF Launched
  <2>2. fresh'[1] = 0
    BY <1>1, <1>3 DEF TypeOK
  <2>3. ASSUME NEW i \in 1 .. now, i = now \/ now - i <= R - cache.maxTokens
        PROVE  owner[RingRow(i)] = i
    <3>1. i \in 1 .. last
      BY <1>5, <1>6
    <3>2. \/ i > old
          \/ i <= old /\ old - i <= R - cache.maxTokens /\ last - i < R
      BY <1>5, <1>6, <2>3
    <3>3. slotsOf[1][i] = i
      BY <1>4, <3>1
    <3> QED BY <1>4, <2>1, <3>1, <3>2, <3>3 DEF Window, Hot
  <2>4. now - 0 = now
    OBVIOUS
  <2> QED BY <1>2, <1>7, <1>10, <2>1, <2>2, <2>3, <2>4 DEF Window, Hot, RingRow
<1> QED BY <1>11, <1>12

LEMMA EndStack ==
  TiersInv /\ StackInv /\ OneStack /\ End /\ UNCHANGED cache => (Stack /\ Window)'
<1> SUFFICES ASSUME TiersInv, Stack, OneStack, End, UNCHANGED cache
             PROVE  (Stack /\ Window)'
  BY DEF StackInv
<1>1. TypeOK /\ Reqs = {1}
  BY StackFacts DEF TiersInv
<1>2. slotsOf' = [slotsOf EXCEPT ![1] = <<>>] /\ Release(slotsOf[1])
  BY <1>1 DEF End
<1>3. Len(slotsOf'[1]) = 0
  BY <1>1, <1>2 DEF TypeOK
<1>4. freeList' = [i \in 1 .. cache.slots |-> i] /\ cache.slots \in Nat
  <2>1. Len(freeList) + Len(slotsOf[1]) = cache.slots
    BY DEF Stack
  <2> QED BY <1>1, <1>2, <2>1, Sizes DEF Release, TypeOK
<1>5. Len(freeList') = cache'.slots /\ \A j \in 1 .. Len(freeList') : freeList'[j] = 0 + j
  <2>1. PICK n \in Nat : n = cache.slots
    BY <1>4
  <2>2. Len([i \in 1 .. n |-> i]) = n
    OBVIOUS
  <2>3. \A j \in 1 .. n : [i \in 1 .. n |-> i][j] = 0 + j
    OBVIOUS
  <2> QED BY <1>4, <2>1, <2>2, <2>3
<1>6. cache'.slots + 0 = cache'.slots
  BY <1>4
<1> QED BY <1>3, <1>5, <1>6 DEF Stack, Window

LEMMA NextStack == TiersInv /\ StackInv /\ [Next]_vars => StackInv'
<1> SUFFICES ASSUME TiersInv, StackInv, [Next]_vars PROVE StackInv'
  OBVIOUS
<1>1. CASE UNCHANGED vars
  BY <1>1, StutterInv
<1>2. CASE Next
  <2>1. OneStack' <=> OneStack
    BY <1>2 DEF Next, OneStack
  <2>2. ASSUME OneStack PROVE (Stack /\ Window)'
    BY <1>2, <2>2, BeginStack, StoreStack, QuietStack, VerifyStack, EndStack DEF Next
  <2> QED BY <2>1, <2>2 DEF StackInv
<1> QED BY <1>1, <1>2

(* One request and the paged allocator: after any drafts, rejections and   *)
(* ends the newest token and the R - maxTokens before it are in the int8   *)
(* window, for every size of ring and forward.                             *)
THEOREM NewestStayHot == Spec => []NewestAreHot
<1>1. Init => StackInv
  BY InitInv
<1>2. TiersInv /\ StackInv => NewestAreHot
  <2> SUFFICES ASSUME TiersInv, StackInv, pc = "ready", OneStack
               PROVE  \A i \in 1 .. Len(slotsOf[1]) :
                        i = Len(slotsOf[1]) \/ Len(slotsOf[1]) - i <= R - cache.maxTokens =>
                          Hot(slotsOf[1][i])
    BY DEF NewestAreHot, OneStack
  <2>1. Stack /\ Window
    BY DEF StackInv
  <2>2. fresh[1] = 0 /\ layer = 0 /\ Len(slotsOf[1]) \in Nat
    BY <2>1, StackFacts DEF TiersInv, Progress
  <2>3. Len(slotsOf[1]) - fresh[1] = Len(slotsOf[1])
    BY <2>2
  <2>4. \A i \in 1 .. Len(slotsOf[1]) : slotsOf[1][i] = i
    BY <2>1 DEF Stack
  <2>5. \A i \in 1 .. Len(slotsOf[1]) : i <= Len(slotsOf[1])
    BY <2>2
  <2> QED BY <2>1, <2>2, <2>3, <2>4, <2>5 DEF Window, Launched
<1> QED BY <1>1, <1>2, NextStack, Invariance, PTL DEF Spec

(* The same without a condition on what is written: a cache with one layer *)
(* has one ring for its owner table, and the slots of a single request are *)
(* consecutive, so that they do not race.                                  *)
THEOREM ReadsAreCurrent ==
  ASSUME \A c \in Caches : c.layers = 1 \/ (c.reqs = 1 /\ ~c.freeAtTail)
  PROVE  Spec => []ReadsCurrent
<1>1. TiersInv /\ StackInv => OneWinner
  <2> SUFFICES ASSUME TiersInv, StackInv PROVE OneWinner
    OBVIOUS
  <2>1. cache \in Caches
    BY DEF TiersInv, TypeOK
  <2>2. cache.layers = 1 \/ OneStack
    BY <2>1 DEF OneStack
  <2>3. OneStack => RowsApart
    BY StackApart DEF StackInv
  <2> QED BY <2>2, <2>3 DEF OneWinner
<1>2. Init => StackInv
  BY InitInv
<1>3. Spec => []OneWinner
  BY <1>1, <1>2, NextStack, Invariance, PTL DEF Spec
<1> QED BY <1>3, ReadsCurrentUnlessRaced, PTL

=============================================================================
