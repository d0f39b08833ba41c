---------------------------- MODULE LazyKvProofs ----------------------------
(***************************************************************************)
(* Proofs about LazyKv, for every number and size of buffers and every     *)
(* amount of VRAM: a slot that is handed out is backed in every buffer,    *)
(* whatever commit failed before and whatever another process takes; an    *)
(* idle pool keeps the floor only; and, alone on the GPU, an allocation is *)
(* refused only with the expert cache at its floor, and a commit leaves    *)
(* the headroom.                                                           *)
(***************************************************************************)
EXTENDS LazyKv, PrefixLemmas

-----------------------------------------------------------------------------
(* The inductive invariant.                                                *)

HookSteps ==
  {"watermark", "shrink", "shrinking", "recheck", "commit", "empty", "commit2",
   "shrink2", "shrinking2", "commit3"}

(* Backed up to backed_tokens, at least the floor; no slot beyond it.      *)
Mapped ==
  /\ Floor <= backed
  /\ \A b \in Bufs : ChunksFor(b, backed) <= kv[b]
  /\ \A s \in used : s < backed

(* A running hook backs the slots it is called for, more than is backed.   *)
Covers ==
  IF call.pc \in HookSteps
  THEN call.tokens > backed /\ \A s \in call.slots : s < call.tokens
  ELSE call.slots = {}

Asked ==
  /\ At("shrinking") => want = ChunksOf(Headroom + Delta + Extra)
  /\ At("shrinking2") => want = ChunksOf(Delta + WorkMemory)

(* While nobody else takes VRAM: past the watermark, either the cache is   *)
(* at its floor or the commit leaves the headroom; a commit then fails     *)
(* only if the headroom is less than what the rounding to chunks costs.    *)
Room ==
  ~shared /\ held # MinHeld =>
    /\ call.pc \in {"recheck", "commit"} => free * Chunk - Delta >= Headroom
    /\ call.pc \in {"empty", "commit2", "shrink2", "shrinking2", "commit3"} =>
         Headroom < Buffers * (Chunk - 1)
    /\ At("commit3") => free * Chunk >= Delta + WorkMemory

LazyInv == TypeOK /\ Mapped /\ Covers /\ Asked /\ Room

-----------------------------------------------------------------------------
(* Sizes, chunks and sums.                                                 *)

LEMMA Sizes ==
  /\ Size \in Nat /\ Floor \in 0 .. Size /\ Margin \in Nat \ {0}
  /\ Buffers \in Nat \ {0} /\ Chunk \in Nat \ {0} /\ MaxAlloc \in Nat \ {0}
  /\ Headroom \in Nat /\ Extra \in Nat /\ WorkMemory \in Nat /\ RegrowReserve \in Nat
  /\ MinHeld \in Nat /\ Vram \in Nat /\ MinHeld <= Vram
  /\ NoWant \notin Nat /\ WorkMemory >= Buffers * (Chunk - 1)
  /\ \A b \in Bufs : TokenBytes[b] \in Nat \ {0}
  BY SizesAssumption DEF SizesOK

LEMMA MaxMin ==
  ASSUME NEW x \in Int, NEW y \in Int
  PROVE  /\ Max({x, y}) = IF x >= y THEN x ELSE y
         /\ Min({x, y}) = IF x <= y THEN x ELSE y
<1>1. Max({x, y}) = IF x >= y THEN x ELSE y
  <2> DEFINE m == IF x >= y THEN x ELSE y
  <2>1. m \in {x, y} /\ \A z \in {x, y} : m >= z
    OBVIOUS
  <2>2. \A w \in {x, y} : (\A z \in {x, y} : w >= z) => w = m
    OBVIOUS
  <2> QED BY <2>1, <2>2 DEF Max
<1>2. Min({x, y}) = IF x <= y THEN x ELSE y
  <2> DEFINE m == IF x <= y THEN x ELSE y
  <2>1. m \in {x, y} /\ \A z \in {x, y} : m <= z
    OBVIOUS
  <2>2. \A w \in {x, y} : (\A z \in {x, y} : w <= z) => w = m
    OBVIOUS
  <2> QED BY <2>1, <2>2 DEF Min
<1> QED BY <1>1, <1>2

(* Rounding to chunks, once for all uses.                                  *)
LEMMA Rounding ==
  ASSUME NEW c \in Nat
  PROVE  /\ (c + Chunk - 1) \div Chunk \in Nat
         /\ c <= ((c + Chunk - 1) \div Chunk) * Chunk
         /\ ((c + Chunk - 1) \div Chunk) * Chunk <= c + Chunk - 1
<1>1. c + Chunk - 1 \in Nat /\ Chunk \in Nat \ {0}
  BY Sizes
<1> DEFINE q == (c + Chunk - 1) \div Chunk
<1>2. q \in Nat /\ q * Chunk <= c + Chunk - 1 /\ c + Chunk - 1 < q * Chunk + Chunk
  BY <1>1, DivBounds
<1>3. q * Chunk \in Nat
  BY <1>1, <1>2
<1> HIDE DEF q
<1> QED BY <1>1, <1>2, <1>3 DEF q

LEMMA Rounded ==
  ASSUME NEW x \in Nat, NEW y \in Nat, x <= y
  PROVE  (x + Chunk - 1) \div Chunk <= (y + Chunk - 1) \div Chunk
<1> DEFINE p == (x + Chunk - 1) \div Chunk
           q == (y + Chunk - 1) \div Chunk
<1>1. p \in Nat /\ q \in Nat /\ p * Chunk <= x + Chunk - 1 /\ y <= q * Chunk /\ Chunk \in Nat \ {0}
  BY Rounding, Sizes
<1> HIDE DEF p, q
<1>2. SUFFICES ASSUME q + 1 <= p PROVE FALSE
  BY <1>1 DEF p, q
<1>3. (q + 1) * Chunk <= p * Chunk
  BY <1>1, <1>2
<1>4. (q + 1) * Chunk = q * Chunk + Chunk
  BY <1>1
<1>5. q * Chunk \in Nat /\ p * Chunk \in Nat
  BY <1>1
<1> QED BY <1>1, <1>3, <1>4, <1>5

(* The chunks of a prefix: they cover it, and no buffer wastes a chunk.    *)
LEMMA ChunksForBounds ==
  ASSUME NEW b \in Bufs, NEW t \in Nat
  PROVE  /\ ChunksFor(b, t) \in Nat
         /\ t * TokenBytes[b] <= ChunksFor(b, t) * Chunk
         /\ ChunksFor(b, t) * Chunk <= t * TokenBytes[b] + Chunk - 1
<1>1. t * TokenBytes[b] \in Nat
  BY Sizes
<1> QED BY <1>1, Rounding DEF ChunksFor

LEMMA ChunksForGrow ==
  ASSUME NEW b \in Bufs, NEW t \in Nat, NEW u \in Nat, t <= u
  PROVE  ChunksFor(b, t) <= ChunksFor(b, u)
<1>1. TokenBytes[b] \in Nat
  BY Sizes
<1>2. t * TokenBytes[b] \in Nat /\ u * TokenBytes[b] \in Nat
  BY <1>1
<1>3. t * TokenBytes[b] <= u * TokenBytes[b]
  BY <1>1
<1> QED BY <1>2, <1>3, Rounded DEF ChunksFor

LEMMA ChunksOfBounds ==
  ASSUME NEW c \in Nat
  PROVE  ChunksOf(c) \in Nat /\ c <= ChunksOf(c) * Chunk
  BY Rounding DEF ChunksOf

LEMMA BytesPerTokenType == BytesPerToken \in Nat
<1>1. Buffers \in Nat /\ \A b \in 1 .. Buffers : TokenBytes[b] \in Nat
  BY Sizes DEF Bufs
<1>2. PrefixSums(TokenBytes, Buffers) \in [0 .. Buffers -> Nat]
  BY <1>1, SumsDef
<1> QED BY <1>1, <1>2 DEF BytesPerToken

LEMMA KvChunksType ==
  ASSUME NEW f \in [Bufs -> Nat]
  PROVE  PrefixSums(f, Buffers)[Buffers] \in Nat
<1>1. Buffers \in Nat /\ \A b \in 1 .. Buffers : f[b] \in Nat
  BY Sizes DEF Bufs
<1>2. PrefixSums(f, Buffers) \in [0 .. Buffers -> Nat]
  BY <1>1, SumsDef
<1> QED BY <1>1, <1>2

(* The highest slot of an alloc, and what it makes the hook back.          *)
LEMMA HighestSlot ==
  ASSUME NEW slots \in SUBSET Slots, slots # {}
  PROVE  Max(slots) \in slots /\ \A s \in slots : s <= Max(slots)
<1>1. PICK x \in slots : \A y \in slots : y <= x
  BY Sizes, GreatestExists DEF Slots
<1>2. \A y \in slots : x >= y
  BY <1>1, Sizes DEF Slots
<1>3. Max(slots) \in slots /\ \A y \in slots : Max(slots) >= y
  BY <1>2 DEF Max
<1> QED BY <1>3, Sizes DEF Slots

LEMMA TokensForBounds ==
  ASSUME NEW top \in 1 .. Size + 1
  PROVE  TokensFor(top) \in top .. Size + 1
<1> DEFINE a == top + Margin + Margin - 1
           k == (a \div Margin) * Margin
<1>1. a \in Nat /\ Margin \in Nat \ {0} /\ Size \in Nat
  BY Sizes
<1>2. a \div Margin \in Nat /\ a < k + Margin
  BY <1>1, DivBounds
<1>3. k \in Nat
  BY <1>1, <1>2
<1>4. top <= k
  <2> HIDE DEF k
  <2> QED BY <1>1, <1>2, <1>3
<1>5. TokensFor(top) = IF Size + 1 <= k THEN Size + 1 ELSE k
  <2>1. TokensFor(top) = Min({Size + 1, k})
    BY DEF TokensFor
  <2> HIDE DEF k
  <2>2. Min({Size + 1, k}) = IF Size + 1 <= k THEN Size + 1 ELSE k
    BY <1>1, <1>3, MaxMin
  <2> QED BY <2>1, <2>2
<1> HIDE DEF k
<1> QED BY <1>1, <1>3, <1>4, <1>5

-----------------------------------------------------------------------------
(* What a running hook may count on.                                       *)

LEMMA HookFacts ==
  ASSUME LazyInv, call.pc \in HookSteps
  PROVE  /\ call.tokens \in Nat /\ backed \in Nat /\ call.tokens - backed \in Nat
         /\ Delta \in Nat
<1>1. call.tokens \in Nat /\ backed \in Nat /\ call.tokens - backed \in Nat
  BY Sizes DEF LazyInv, TypeOK, Covers
<1> QED BY <1>1, BytesPerTokenType DEF Delta

(* What a buffer lacks covers the hook's tokens and costs at most the      *)
(* bytes of the new tokens, rounded up.                                    *)
LEMMA MissingFacts ==
  ASSUME LazyInv, call.pc \in HookSteps, NEW b \in Bufs
  PROVE  /\ Missing(b) \in Nat
         /\ ChunksFor(b, call.tokens) <= kv[b] + Missing(b)
         /\ Chunk * Missing(b) <= (call.tokens - backed) * TokenBytes[b] + (Chunk - 1)
<1> DEFINE new == ChunksFor(b, call.tokens)
           old == ChunksFor(b, backed)
           t == call.tokens * TokenBytes[b]
           u == backed * TokenBytes[b]
<1>1. call.tokens \in Nat /\ backed \in Nat /\ call.tokens - backed \in Nat
  BY HookFacts
<1>2. TokenBytes[b] \in Nat /\ Chunk \in Nat \ {0} /\ kv[b] \in Nat /\ old <= kv[b]
  BY Sizes DEF LazyInv, TypeOK, Mapped
<1>3. new \in Nat /\ new * Chunk <= t + Chunk - 1
  BY <1>1, ChunksForBounds
<1>4. old \in Nat /\ u <= old * Chunk
  BY <1>1, ChunksForBounds
<1>5. (call.tokens - backed) * TokenBytes[b] = t - u /\ t \in Nat /\ u \in Nat
  BY <1>1, <1>2
<1>6. t - u \in Nat
  BY <1>1, <1>2, <1>5
<1> HIDE DEF new, old, t, u
<1>7. Missing(b) = IF 0 >= new - kv[b] THEN 0 ELSE new - kv[b]
  BY <1>2, <1>3, MaxMin DEF Missing, new
<1>8. CASE new <= kv[b]
  <2>1. Missing(b) = 0 /\ Chunk * 0 = 0
    BY <1>2, <1>3, <1>7, <1>8
  <2> QED BY <1>2, <1>5, <1>6, <1>8, <2>1 DEF new
<1>9. CASE ~(new <= kv[b])
  <2>1. Missing(b) = new - kv[b] /\ new - kv[b] \in Nat /\ new - kv[b] <= new - old
    BY <1>2, <1>3, <1>4, <1>7, <1>9
  <2>2. Chunk * (new - kv[b]) <= Chunk * (new - old)
    BY <1>2, <1>3, <1>4, <2>1
  <2>3. Chunk * (new - old) = new * Chunk - old * Chunk
    BY <1>2, <1>3, <1>4
  <2>4. new * Chunk \in Nat /\ old * Chunk \in Nat /\ Chunk * (new - kv[b]) \in Nat
    BY <1>2, <1>3, <1>4, <2>1
  <2>5. Chunk * (new - kv[b]) <= t - u + (Chunk - 1)
    BY <1>2, <1>3, <1>4, <1>5, <2>2, <2>3, <2>4
  <2>6. kv[b] + Missing(b) = new
    BY <1>2, <1>3, <2>1
  <2> QED BY <1>3, <1>5, <2>1, <2>5, <2>6 DEF new
<1> QED BY <1>8, <1>9

LEMMA MissingSums ==
  ASSUME LazyInv, call.pc \in HookSteps
  PROVE  /\ \A n \in 0 .. Buffers : MissingBefore(n) \in Nat
         /\ \A n \in 0 .. Buffers : MissingBefore(n) <= MissingBefore(Buffers)
         /\ Chunk * MissingBefore(Buffers) <= Delta + Buffers * (Chunk - 1)
<1> DEFINE f == [b \in Bufs |-> Missing(b)]
           k == call.tokens - backed
<1>1. /\ Buffers \in Nat /\ Chunk - 1 \in Nat /\ Chunk \in Nat /\ k \in Nat
      /\ \A b \in 1 .. Buffers : b \in Bufs /\ TokenBytes[b] \in Nat
  BY Sizes, HookFacts DEF Bufs
<1>2. \A b \in 1 .. Buffers :
        f[b] \in Nat /\ Chunk * f[b] <= k * TokenBytes[b] + (Chunk - 1)
  BY <1>1, MissingFacts
<1> HIDE DEF f, k
<1>3. PrefixSums(f, Buffers) \in [0 .. Buffers -> Nat]
  BY <1>1, <1>2, SumsDef
<1>4. \A n \in 0 .. Buffers : PrefixSums(f, Buffers)[n] <= PrefixSums(f, Buffers)[Buffers]
  BY <1>1, <1>2, SumsGrow
<1>5. Chunk * PrefixSums(f, Buffers)[Buffers]
        <= k * PrefixSums(TokenBytes, Buffers)[Buffers] + Buffers * (Chunk - 1)
  <2>1. \A i \in 0 .. Buffers : Chunk * PrefixSums(f, Buffers)[i]
          <= k * PrefixSums(TokenBytes, Buffers)[i] + i * (Chunk - 1)
    BY <1>1, <1>2, SumsBound
  <2> QED BY <1>1, <2>1
<1> QED BY <1>3, <1>4, <1>5 DEF f, k, MissingBefore, Delta, BytesPerToken

(* The chunks of the cache after each buffer got n[b] more.                *)
LEMMA KvGrows ==
  ASSUME NEW f \in [Bufs -> Nat], NEW n \in [Bufs -> Nat]
  PROVE  PrefixSums([b \in Bufs |-> f[b] + n[b]], Buffers)[Buffers] =
           PrefixSums(f, Buffers)[Buffers] + PrefixSums(n, Buffers)[Buffers]
<1> DEFINE h == [b \in Bufs |-> f[b] + n[b]]
<1>1. Buffers \in Nat
  BY Sizes
<1>2. \A i \in 1 .. Buffers : f[i] \in Nat /\ n[i] \in Nat /\ h[i] = f[i] + n[i]
  BY DEF Bufs
<1> HIDE DEF h
<1>3. \A i \in 0 .. Buffers : PrefixSums(h, Buffers)[i] =
        PrefixSums(f, Buffers)[i] + PrefixSums(n, Buffers)[i]
  BY <1>1, <1>2, SumsAdd
<1> QED BY <1>1, <1>3 DEF h

-----------------------------------------------------------------------------
(* Commits.                                                                *)

(* A commit that succeeds: every slot of the call is backed now.           *)
LEMMA CommittedInv ==
  ASSUME LazyInv, call.pc \in {"commit", "commit2", "commit3"}, Committed,
         UNCHANGED <<held, want, recent, regrow, shared>>
  PROVE  LazyInv'
<1>0. call.pc \in HookSteps
  BY DEF HookSteps
<1>1. backed' = call.tokens
  <2>1. backed \in Nat /\ call.tokens \in Nat /\ call.tokens - backed \in Nat
    BY <1>0, HookFacts
  <2> QED BY <2>1, MaxMin DEF Committed
<1> DEFINE m == [b \in Bufs |-> Missing(b)]
<1>2. m \in [Bufs -> Nat] /\ kv \in [Bufs -> Nat]
  BY <1>0, MissingFacts DEF LazyInv, TypeOK
<1>3. kv' = [b \in Bufs |-> kv[b] + m[b]]
  BY DEF Committed
<1>4. kv' \in [Bufs -> Nat]
  <2>1. \A b \in Bufs : kv[b] + m[b] \in Nat
    BY <1>2
  <2> QED BY <1>3, <2>1
<1>5. KvChunks' = KvChunks + MissingBefore(Buffers)
  <2> HIDE DEF m
  <2>1. PrefixSums(kv', Buffers)[Buffers] =
          PrefixSums(kv, Buffers)[Buffers] + PrefixSums(m, Buffers)[Buffers]
    BY <1>2, <1>3, KvGrows
  <2> QED BY <2>1 DEF KvChunks, MissingBefore, m
<1>6. TypeOK'
  <2>1. MissingBefore(Buffers) \in Nat /\ KvChunks \in Nat
    BY <1>0, <1>2, MissingSums, KvChunksType, Sizes DEF KvChunks
  <2>2. free' \in 0 .. Vram' - held' - KvChunks'
    BY <1>5, <2>1, Sizes DEF LazyInv, TypeOK, Committed
  <2>3. backed' \in 0 .. Size + 1
    BY <1>1 DEF LazyInv, TypeOK
  <2>4. used' \subseteq Slots \ {0} /\ call' = Ready
    BY DEF LazyInv, TypeOK, Committed
  <2> QED BY <1>4, <2>2, <2>3, <2>4, Sizes DEF LazyInv, TypeOK, Ready
<1>7. Mapped'
  <2>1. Floor <= backed'
    BY <1>0, <1>1, Sizes DEF LazyInv, TypeOK, Mapped, Covers
  <2>2. ASSUME NEW b \in Bufs PROVE ChunksFor(b, backed') <= kv'[b]
    BY <1>0, <1>1, <1>3, MissingFacts
  <2>3. ASSUME NEW s \in used' PROVE s < backed'
    <3>1. CASE s \in used
      <4>1. s < backed /\ s \in Nat /\ backed \in Nat /\ call.tokens > backed /\ call.tokens \in Nat
        BY <1>0, <3>1, Sizes DEF LazyInv, TypeOK, Mapped, Covers, Slots
      <4> QED BY <1>1, <4>1
    <3>2. CASE s \in call.slots
      BY <1>0, <1>1, <3>2 DEF LazyInv, Covers
    <3> QED BY <3>1, <3>2 DEF Committed
  <2> QED BY <2>1, <2>2, <2>3 DEF Mapped, ChunksFor, Bufs
<1>8. Covers' /\ Asked' /\ Room'
  BY DEF Committed, Ready, Covers, Asked, Room, At, HookSteps
<1> QED BY <1>6, <1>7, <1>8 DEF LazyInv

(* A commit that fails: less was free than the buffers lack, some of it is *)
(* backed now.                                                             *)
LEMMA CommitFailsFacts ==
  ASSUME LazyInv, call.pc \in HookSteps, CommitFails
  PROVE  /\ kv' \in [Bufs -> Nat] /\ \A b \in Bufs : kv[b] <= kv'[b]
         /\ \A h \in MinHeld .. Vram : free \in 0 .. Vram - h - KvChunks =>
              free' \in 0 .. Vram - h - KvChunks'
         /\ free < MissingBefore(Buffers)
<1>1. PICK n \in Bufs : BackedUpTo(n)
  BY DEF CommitFails
<1>2. PICK part \in 0 .. free - MissingBefore(n - 1) :
        /\ kv' = [b \in Bufs |-> IF b < n THEN kv[b] + Missing(b)
                                 ELSE IF b = n THEN kv[b] + part ELSE kv[b]]
        /\ free' = free - MissingBefore(n - 1) - part
  BY <1>1 DEF BackedUpTo
<1> DEFINE m == [b \in Bufs |-> Missing(b)]
           c == [b \in Bufs |-> IF b < n THEN m[b] ELSE IF b = n THEN part ELSE 0]
<1>3. /\ n \in 1 .. Buffers /\ Buffers \in Nat /\ free \in Nat
      /\ MissingBefore(n - 1) \in Nat /\ MissingBefore(n) \in Nat
      /\ MissingBefore(n) <= MissingBefore(Buffers) /\ MissingBefore(Buffers) \in Nat
  <2>1. n \in 1 .. Buffers /\ n - 1 \in 0 .. Buffers /\ Buffers \in Nat /\ n \in 0 .. Buffers
        /\ Buffers \in 0 .. Buffers
    BY Sizes DEF Bufs
  <2>2. free \in Nat
    BY DEF LazyInv, TypeOK
  <2> QED BY <2>1, <2>2, MissingSums
<1>4. part \in Nat /\ m \in [Bufs -> Nat] /\ c \in [Bufs -> Nat] /\ kv \in [Bufs -> Nat]
  <2>1. part \in Nat
    BY <1>3
  <2>2. \A b \in Bufs : Missing(b) \in Nat
    BY MissingFacts
  <2> QED BY <2>1, <2>2 DEF LazyInv, TypeOK
<1>5. kv' = [b \in Bufs |-> kv[b] + c[b]]
  <2>1. \A b \in Bufs : kv[b] + 0 = kv[b]
    BY <1>4
  <2>2. \A b \in Bufs : kv'[b] = kv[b] + c[b]
    BY <1>2, <2>1
  <2>3. kv' = [b \in Bufs |-> kv'[b]]
    BY <1>2
  <2> HIDE DEF c
  <2> QED BY <2>2, <2>3
<1>6. kv' \in [Bufs -> Nat] /\ \A b \in Bufs : kv[b] <= kv'[b]
  <2> HIDE DEF c
  <2>1. \A b \in Bufs : kv[b] + c[b] \in Nat /\ kv[b] <= kv[b] + c[b]
    BY <1>4
  <2> QED BY <1>5, <2>1
<1>7. KvChunks' = KvChunks + (MissingBefore(n - 1) + part)
  <2>1. PrefixSums(c, Buffers)[Buffers] = PrefixSums(m, Buffers)[n - 1] + part
    <3>1. \A i \in 1 .. Buffers :
            m[i] \in Nat /\ c[i] = IF i < n THEN m[i] ELSE IF i = n THEN part ELSE 0
      BY <1>4 DEF Bufs
    <3> HIDE DEF c, m
    <3> QED BY <1>3, <1>4, <3>1, SumsCut
  <2>2. PrefixSums(kv', Buffers)[Buffers] =
          PrefixSums(kv, Buffers)[Buffers] + PrefixSums(c, Buffers)[Buffers]
    <3> HIDE DEF c
    <3> QED BY <1>4, <1>5, KvGrows
  <2> HIDE DEF c
  <2> QED BY <2>1, <2>2 DEF KvChunks, MissingBefore, m
<1>8. KvChunks \in Nat
  BY <1>4, KvChunksType DEF KvChunks
<1>9. free' \in Nat /\ free' = free - (MissingBefore(n - 1) + part) /\ part <= free - MissingBefore(n - 1)
  BY <1>2, <1>3, <1>4
<1>10. ASSUME NEW h \in MinHeld .. Vram, free \in 0 .. Vram - h - KvChunks
       PROVE  free' \in 0 .. Vram - h - KvChunks'
  BY <1>3, <1>4, <1>7, <1>8, <1>9, <1>10, Sizes
<1>11. free < MissingBefore(Buffers)
  BY <1>1, <1>3 DEF BackedUpTo
<1> QED BY <1>6, <1>10, <1>11

-----------------------------------------------------------------------------
(* One lemma per action: it preserves the invariant.                       *)

LEMMA PagesKept ==
  ASSUME LazyInv, UNCHANGED pages
  PROVE  KvChunks' = KvChunks /\ KvChunks \in Nat /\ Mapped'
<1>1. KvChunks \in Nat
  BY KvChunksType DEF KvChunks, LazyInv, TypeOK
<1>2. used' = used /\ backed' = backed /\ kv' = kv
  BY DEF pages
<1> QED BY <1>1, <1>2 DEF KvChunks, LazyInv, Mapped, ChunksFor

LEMMA AllocInv ==
  ASSUME LazyInv, Alloc, UNCHANGED shared
  PROVE  LazyInv'
<1>1. PICK slots \in SUBSET ((Slots \ {0}) \ used) :
        /\ Cardinality(slots) \in 1 .. MaxAlloc
        /\ LET tokens == TokensFor(Max(slots) + 1)
           IN  IF tokens <= backed
               THEN used' = used \cup slots /\ UNCHANGED call
               ELSE /\ call' = [pc |-> "watermark", slots |-> slots, tokens |-> tokens]
                    /\ UNCHANGED used
  BY DEF Alloc
<1>2. slots # {}
  <2>1. Cardinality({}) = 0
    BY FS_EmptySet
  <2> QED BY <1>1, <2>1
<1> DEFINE tokens == TokensFor(Max(slots) + 1)
<1>3. Max(slots) \in 0 .. Size /\ \A s \in slots : s <= Max(slots)
  BY <1>2, HighestSlot DEF Slots
<1>4. tokens \in Max(slots) + 1 .. Size + 1
  <2>1. Max(slots) + 1 \in 1 .. Size + 1
    BY <1>3, Sizes
  <2> QED BY <2>1, TokensForBounds
<1>5. tokens \in 0 .. Size + 1 /\ \A s \in slots : s < tokens
  <2> HIDE DEF tokens
  <2> QED BY <1>3, <1>4, Sizes DEF Slots
<1>6. /\ held' = held /\ free' = free /\ want' = want /\ backed' = backed /\ kv' = kv
      /\ recent' = recent /\ regrow' = regrow /\ shared' = shared /\ At("ready")
  BY DEF Alloc, lender
<1>7. KvChunks' = KvChunks
  BY <1>6 DEF KvChunks
<1> HIDE DEF tokens
<1>8. CASE tokens <= backed
  <2>1. used' = used \cup slots /\ call' = call
    BY <1>1, <1>8 DEF tokens
  <2>2. call.slots = {} /\ call.pc \notin HookSteps
    BY <1>6 DEF LazyInv, Covers, At, HookSteps
  <2>3. TypeOK'
    BY <1>6, <1>7, <2>1, <2>2 DEF LazyInv, TypeOK
  <2>4. \A s \in slots : s < backed
    BY <1>5, <1>8, Sizes DEF LazyInv, TypeOK, Slots
  <2>5. Mapped'
    BY <1>6, <2>1, <2>4 DEF LazyInv, Mapped, ChunksFor
  <2>6. Covers' /\ Asked' /\ Room'
    BY <1>6, <2>1, <2>2 DEF LazyInv, Covers, Asked, Room, At, HookSteps
  <2> QED BY <2>3, <2>5, <2>6 DEF LazyInv
<1>9. CASE ~(tokens <= backed)
  <2>1. used' = used /\ call' = [pc |-> "watermark", slots |-> slots, tokens |-> tokens]
    BY <1>1, <1>9 DEF tokens
  <2>2. TypeOK'
    BY <1>5, <1>6, <1>7, <2>1 DEF LazyInv, TypeOK
  <2>3. Mapped'
    BY <1>6, <2>1 DEF LazyInv, Mapped, ChunksFor
  <2>4. Covers'
    BY <1>5, <1>6, <1>9, <2>1, Sizes DEF LazyInv, TypeOK, Covers, HookSteps
  <2>5. Asked' /\ Room'
    BY <2>1 DEF Asked, Room, At
  <2> QED BY <2>2, <2>3, <2>4, <2>5 DEF LazyInv
<1> QED BY <1>8, <1>9

LEMMA WatermarkInv ==
  ASSUME LazyInv, Watermark, UNCHANGED shared
  PROVE  LazyInv'
<1>1. PICK can \in CanShrink :
        IF Low(free) /\ (can \/ ~recent)
        THEN /\ EmptyCache
             /\ recent' = TRUE
             /\ Goto(IF can /\ Low(free') THEN "shrink" ELSE "recheck")
        ELSE Goto("commit") /\ UNCHANGED <<free, recent>>
  BY DEF Watermark
<1>2. /\ held' = held /\ want' = want /\ regrow' = regrow /\ shared' = shared
      /\ UNCHANGED pages /\ At("watermark") /\ call.pc \in HookSteps
  BY DEF Watermark, At, HookSteps
<1>3. KvChunks' = KvChunks /\ KvChunks \in Nat /\ Mapped'
  BY <1>2, PagesKept
<1>4. /\ free' \in 0 .. Vram - held - KvChunks /\ recent' \in BOOLEAN
      /\ \E pc \in {"shrink", "recheck", "commit"} : Goto(pc)
  <2>1. free \in 0 .. Vram - held - KvChunks /\ recent \in BOOLEAN /\ held \in Nat
    BY Sizes DEF LazyInv, TypeOK
  <2>2. free' \in 0 .. Vram - held - KvChunks /\ recent' \in BOOLEAN
    <3>1. (EmptyCache /\ recent' = TRUE) \/ (free' = free /\ recent' = recent)
      <4> HIDE DEF EmptyCache
      <4> QED BY <1>1
    <3>2. EmptyCache => free' \in 0 .. Vram - held - KvChunks
      BY <1>3, <2>1, Sizes DEF EmptyCache
    <3> QED BY <2>1, <3>1, <3>2
  <2>3. \E pc \in {"shrink", "recheck", "commit"} : Goto(pc)
    <3> HIDE DEF Goto
    <3> QED BY <1>1
  <2> QED BY <2>2, <2>3
<1>5. PICK pc \in {"shrink", "recheck", "commit"} : call' = [call EXCEPT !.pc = pc]
  BY <1>4 DEF Goto
<1>6. call'.pc = pc /\ call'.slots = call.slots /\ call'.tokens = call.tokens
  BY <1>5 DEF LazyInv, TypeOK
<1>7. TypeOK'
  BY <1>2, <1>3, <1>4, <1>5 DEF LazyInv, TypeOK, pages
<1>8. Covers' /\ Asked'
  BY <1>2, <1>6 DEF LazyInv, Covers, Asked, HookSteps, At, pages
<1>9. Room'
  <2> SUFFICES ASSUME ~shared, held # MinHeld, pc \in {"recheck", "commit"}
               PROVE  free' * Chunk - Delta >= Headroom
    BY <1>2, <1>6 DEF Room, At, Delta, pages
  <2>1. can = TRUE
    <3>1. held > MinHeld
      BY Sizes DEF LazyInv, TypeOK
    <3> QED BY <3>1 DEF CanShrink
  <2>2. free * Chunk - Delta \in Int /\ free' * Chunk - Delta \in Int /\ Headroom \in Nat
    <3>1. free \in Nat /\ free' \in Nat /\ Chunk \in Nat /\ Delta \in Nat
      BY <1>2, <1>4, HookFacts, Sizes DEF LazyInv, TypeOK
    <3> QED BY <3>1, Sizes
  <2>3. CASE Low(free)
    <3>1. Goto(IF Low(free') THEN "shrink" ELSE "recheck")
      BY <1>1, <2>1, <2>3
    <3>2. ~Low(free')
      BY <1>5, <1>6, <3>1 DEF Goto, LazyInv, TypeOK
    <3> QED BY <2>2, <3>2 DEF Low
  <2>4. CASE ~Low(free)
    BY <1>1, <2>2, <2>4 DEF Low
  <2> QED BY <2>3, <2>4
<1> QED BY <1>3, <1>7, <1>8, <1>9 DEF LazyInv

(* Steps that only move on and ask the cache.                              *)
LEMMA ShrinkInv ==
  ASSUME LazyInv, Shrink \/ Shrink2, UNCHANGED shared
  PROVE  LazyInv'
<1>1. /\ held' = held /\ free' = free /\ recent' = recent /\ regrow' = regrow
      /\ shared' = shared /\ UNCHANGED pages /\ call.pc \in HookSteps
  BY DEF Shrink, Shrink2, Ask, At, HookSteps
<1>2. KvChunks' = KvChunks /\ Mapped'
  BY <1>1, PagesKept
<1>3. Delta \in Nat /\ Headroom + Delta + Extra \in Nat /\ Delta + WorkMemory \in Nat
  BY <1>1, HookFacts, Sizes
<1>4. Delta' = (call'.tokens - backed) * BytesPerToken /\ backed' = backed
  BY <1>1 DEF Delta, pages
<1>5. CASE Shrink
  <2>1. /\ call' = [call EXCEPT !.pc = "shrinking"]
        /\ want' = ChunksOf(Headroom + Delta + Extra) /\ want' \in Nat
    BY <1>3, <1>5, ChunksOfBounds DEF Shrink, Ask, Goto
  <2>2. call'.pc = "shrinking" /\ call'.slots = call.slots /\ call'.tokens = call.tokens
    BY <2>1 DEF LazyInv, TypeOK
  <2>3. Delta' = Delta
    BY <1>4, <2>2 DEF Delta
  <2>4. TypeOK'
    BY <1>1, <1>2, <2>1 DEF LazyInv, TypeOK, pages
  <2>5. Covers' /\ Asked' /\ Room'
    BY <1>1, <2>1, <2>2, <2>3 DEF LazyInv, Covers, Asked, Room, HookSteps, At, pages
  <2> QED BY <1>2, <2>4, <2>5 DEF LazyInv
<1>6. CASE Shrink2
  <2>1. /\ call' = [call EXCEPT !.pc = "shrinking2"] /\ At("shrink2")
        /\ want' = ChunksOf(Delta + WorkMemory) /\ want' \in Nat
    BY <1>3, <1>6, ChunksOfBounds DEF Shrink2, Ask, Goto
  <2>2. call'.pc = "shrinking2" /\ call'.slots = call.slots /\ call'.tokens = call.tokens
    BY <2>1 DEF LazyInv, TypeOK
  <2>3. Delta' = Delta
    BY <1>4, <2>2 DEF Delta
  <2>4. TypeOK'
    BY <1>1, <1>2, <2>1 DEF LazyInv, TypeOK, pages
  <2>5. Covers' /\ Asked' /\ Room'
    BY <1>1, <2>1, <2>2, <2>3 DEF LazyInv, Covers, Asked, Room, HookSteps, At, pages
  <2> QED BY <1>2, <2>4, <2>5 DEF LazyInv
<1> QED BY <1>5, <1>6

LEMMA LendInv ==
  ASSUME LazyInv, Lend, UNCHANGED shared
  PROVE  LazyInv'
<1>1. /\ recent' = recent /\ shared' = shared /\ UNCHANGED pages /\ call.pc \in HookSteps
      /\ call.pc \in {"shrinking", "shrinking2"}
  BY DEF Lend, At, HookSteps
<1>2. KvChunks' = KvChunks /\ KvChunks \in Nat /\ Mapped'
  BY <1>1, PagesKept
<1>3. CASE Give /\ UNCHANGED <<call, regrow>>
  <2>1. PICK n \in 1 .. held - MinHeld : held' = held - n /\ free' = free + n
    BY <1>3 DEF Give
  <2>2. held' \in MinHeld .. Vram /\ free' \in 0 .. Vram - held' - KvChunks /\ held > MinHeld
    BY <1>2, <2>1, Sizes DEF LazyInv, TypeOK
  <2>3. want' = want /\ call' = call /\ regrow' = regrow
    BY <1>3 DEF Give
  <2>4. TypeOK'
    BY <1>1, <1>2, <2>2, <2>3 DEF LazyInv, TypeOK, pages
  <2>5. Delta' = Delta
    BY <1>1, <2>3 DEF Delta, pages
  <2>6. Covers' /\ Asked'
    BY <1>1, <2>3, <2>5 DEF LazyInv, Covers, Asked, HookSteps, At, pages
  <2>7. Room'
    BY <1>1, <2>2, <2>3 DEF LazyInv, TypeOK, Room, At
  <2> QED BY <1>2, <2>4, <2>6, <2>7 DEF LazyInv
<1>4. CASE Done /\ regrow' = TRUE /\ Goto(IF At("shrinking") THEN "recheck" ELSE "commit3")
  <2>1. /\ held' = held /\ free' = free /\ want' = NoWant
        /\ free >= want \/ held = MinHeld
    BY <1>4 DEF Done
  <2>2. call' = [call EXCEPT !.pc = IF At("shrinking") THEN "recheck" ELSE "commit3"]
    BY <1>4 DEF Goto
  <2>3. /\ call'.pc = IF At("shrinking") THEN "recheck" ELSE "commit3"
        /\ call'.slots = call.slots /\ call'.tokens = call.tokens
    BY <2>2 DEF LazyInv, TypeOK
  <2>4. Delta' = Delta
    BY <1>1, <2>3 DEF Delta, pages
  <2>5. TypeOK'
    BY <1>1, <1>2, <1>4, <2>1, <2>2 DEF LazyInv, TypeOK, pages
  <2>6. Covers' /\ Asked'
    BY <1>1, <2>3 DEF LazyInv, Covers, Asked, HookSteps, At, pages
  <2>7. Room'
    <3> SUFFICES ASSUME ~shared, held # MinHeld PROVE Room'
      BY <1>1, <2>1 DEF Room
    <3>1. /\ free \in Nat /\ Chunk \in Nat /\ Delta \in Nat /\ Headroom \in Nat
          /\ Extra \in Nat /\ WorkMemory \in Nat
      BY <1>1, HookFacts, Sizes DEF LazyInv, TypeOK
    <3>2. free * Chunk \in Nat
      BY <3>1
    <3>3. CASE At("shrinking")
      <4> DEFINE w == ChunksOf(Headroom + Delta + Extra)
      <4>1. w \in Nat /\ Headroom + Delta + Extra <= w * Chunk
        BY <3>1, ChunksOfBounds
      <4>2. free >= w
        BY <2>1, <3>3 DEF LazyInv, Asked
      <4> HIDE DEF w
      <4>3. w * Chunk <= free * Chunk /\ w * Chunk \in Nat
        BY <3>1, <4>1, <4>2
      <4>4. free * Chunk - Delta >= Headroom
        BY <3>1, <3>2, <4>1, <4>3
      <4> QED BY <1>1, <2>1, <2>3, <2>4, <3>3, <4>4 DEF Room, At
    <3>4. CASE ~At("shrinking")
      <4> DEFINE w == ChunksOf(Delta + WorkMemory)
      <4>1. w \in Nat /\ Delta + WorkMemory <= w * Chunk
        BY <3>1, ChunksOfBounds
      <4>2. free >= w /\ At("shrinking2")
        BY <1>1, <2>1, <3>4 DEF LazyInv, Asked, At
      <4> HIDE DEF w
      <4>3. w * Chunk <= free * Chunk /\ w * Chunk \in Nat
        BY <3>1, <4>1, <4>2
      <4>4. free * Chunk >= Delta + WorkMemory
        BY <3>1, <3>2, <4>1, <4>3
      <4>5. Headroom < Buffers * (Chunk - 1)
        BY <1>1, <4>2 DEF LazyInv, Room, At
      <4> QED BY <1>1, <2>1, <2>3, <2>4, <3>4, <4>4, <4>5 DEF Room, At
    <3> QED BY <3>3, <3>4
  <2> QED BY <1>2, <2>5, <2>6, <2>7 DEF LazyInv
<1> QED BY <1>3, <1>4 DEF Lend

LEMMA RecheckInv ==
  ASSUME LazyInv, Recheck, UNCHANGED shared
  PROVE  LazyInv'
<1>1. /\ held' = held /\ free' = free /\ want' = want /\ recent' = recent /\ regrow' = regrow
      /\ shared' = shared /\ UNCHANGED pages /\ call.pc \in HookSteps /\ At("recheck")
  BY DEF Recheck, Refuse, At, HookSteps, lender, pages
<1>2. KvChunks' = KvChunks /\ Mapped'
  BY <1>1, PagesKept
<1>3. CASE call' = Ready
  <2>1. TypeOK'
    BY <1>1, <1>2, <1>3, Sizes DEF LazyInv, TypeOK, pages, Ready
  <2>2. Covers' /\ Asked' /\ Room'
    BY <1>3 DEF Covers, Asked, Room, Ready, At, HookSteps
  <2> QED BY <1>2, <2>1, <2>2 DEF LazyInv
<1>4. CASE call' = [call EXCEPT !.pc = "commit"]
  <2>1. call'.pc = "commit" /\ call'.slots = call.slots /\ call'.tokens = call.tokens
    BY <1>4 DEF LazyInv, TypeOK
  <2>2. TypeOK'
    BY <1>1, <1>2, <1>4 DEF LazyInv, TypeOK, pages
  <2>3. Delta' = Delta
    BY <1>1, <2>1 DEF Delta, pages
  <2>4. Covers' /\ Asked' /\ Room'
    BY <1>1, <2>1, <2>3 DEF LazyInv, Covers, Asked, Room, HookSteps, At, pages
  <2> QED BY <1>2, <2>2, <2>4 DEF LazyInv
<1> QED BY <1>3, <1>4 DEF Recheck, Refuse, Goto

(* While nobody else takes VRAM and the cache is above its floor, a commit *)
(* that the watermark has let pass fails only for the rounding to chunks,  *)
(* and the last try does not fail at all.                                  *)
LEMMA WhyItFails ==
  ASSUME LazyInv, call.pc \in HookSteps, free < MissingBefore(Buffers),
         ~shared, held # MinHeld
  PROVE  /\ At("commit") => Headroom < Buffers * (Chunk - 1)
         /\ ~At("commit3")
<1> DEFINE M == MissingBefore(Buffers)
           waste == Buffers * (Chunk - 1)
<1>1. M \in Nat /\ Chunk * M <= Delta + waste
  BY MissingSums, Sizes
<1>2. /\ free \in Nat /\ Chunk \in Nat \ {0} /\ Delta \in Nat /\ Headroom \in Nat
      /\ WorkMemory \in Nat /\ WorkMemory >= waste /\ free + 1 <= M
  BY <1>1, HookFacts, Sizes DEF LazyInv, TypeOK
<1>3. waste \in Nat
  BY Sizes
<1>4. At("commit") => free * Chunk - Delta >= Headroom
  BY DEF LazyInv, Room, At
<1>5. At("commit3") => free * Chunk >= Delta + WorkMemory
  BY DEF LazyInv, Room
<1> HIDE DEF M, waste
<1>6. Chunk * (free + 1) <= Chunk * M
  BY <1>1, <1>2
<1>7. Chunk * (free + 1) = free * Chunk + Chunk
  BY <1>2
<1>8. free * Chunk \in Nat /\ Chunk * M \in Nat
  BY <1>1, <1>2
<1>9. free * Chunk + Chunk <= Delta + waste
  BY <1>1, <1>2, <1>3, <1>6, <1>7, <1>8
<1>10. At("commit") => Headroom < waste
  BY <1>2, <1>3, <1>4, <1>8, <1>9
<1>11. ~At("commit3")
  BY <1>2, <1>3, <1>5, <1>8, <1>9
<1> QED BY <1>10, <1>11 DEF waste

(* The three tries: either all is backed, or the hook goes on, after the   *)
(* last one without the slots.                                             *)
LEMMA TriesInv ==
  ASSUME LazyInv, Commit \/ Retry \/ LastTry, UNCHANGED shared
  PROVE  LazyInv'
<1>1. /\ call.pc \in {"commit", "commit2", "commit3"} /\ call.pc \in HookSteps
      /\ UNCHANGED <<held, want, recent, regrow, shared>>
  BY DEF Commit, Retry, LastTry, At, HookSteps
<1>2. CASE Committed
  BY <1>1, <1>2, CommittedInv
<1>3. CASE CommitFails /\ \/ At("commit") /\ Goto("empty")
                          \/ At("commit2") /\ Goto("shrink2")
                          \/ At("commit3") /\ call' = Ready
  <2>1. /\ kv' \in [Bufs -> Nat] /\ \A b \in Bufs : kv[b] <= kv'[b]
        /\ free' \in 0 .. Vram - held - KvChunks'
        /\ free < MissingBefore(Buffers)
    BY <1>1, <1>3, CommitFailsFacts DEF LazyInv, TypeOK
  <2>2. used' = used /\ backed' = backed
    BY <1>3 DEF CommitFails
  <2>3. Mapped'
    <3>1. ASSUME NEW b \in Bufs PROVE ChunksFor(b, backed) <= kv'[b]
      <4>1. ChunksFor(b, backed) \in Nat
        BY ChunksForBounds, Sizes DEF LazyInv, TypeOK
      <4>2. ChunksFor(b, backed) <= kv[b] /\ kv[b] \in Nat
        BY DEF LazyInv, TypeOK, Mapped
      <4> QED BY <2>1, <4>1, <4>2
    <3> QED BY <2>2, <3>1 DEF LazyInv, Mapped, ChunksFor, Bufs
  <2>4. CASE call' = Ready
    <3>1. TypeOK'
      BY <1>1, <2>1, <2>2, <2>4, Sizes DEF LazyInv, TypeOK, Ready
    <3>2. Covers' /\ Asked' /\ Room'
      BY <2>4 DEF Covers, Asked, Room, Ready, At, HookSteps
    <3> QED BY <2>3, <3>1, <3>2 DEF LazyInv
  <2>5. ASSUME NEW pc \in {"empty", "shrink2"}, call' = [call EXCEPT !.pc = pc],
               (At("commit") /\ pc = "empty") \/ (At("commit2") /\ pc = "shrink2")
        PROVE  LazyInv'
    <3>1. call'.pc = pc /\ call'.slots = call.slots /\ call'.tokens = call.tokens
      BY <2>5 DEF LazyInv, TypeOK
    <3>2. TypeOK'
      BY <1>1, <2>1, <2>2, <2>5 DEF LazyInv, TypeOK
    <3>3. Covers' /\ Asked'
      BY <1>1, <2>2, <3>1 DEF LazyInv, Covers, Asked, HookSteps, At
    <3>4. Room'
      <4> SUFFICES ASSUME ~shared, held # MinHeld PROVE Headroom < Buffers * (Chunk - 1)
        BY <1>1, <3>1 DEF Room, At
      <4>1. CASE At("commit")
        BY <1>1, <2>1, <4>1, WhyItFails
      <4>2. CASE At("commit2")
        BY <4>2 DEF LazyInv, Room, At
      <4> QED BY <2>5, <4>1, <4>2
    <3> QED BY <2>3, <3>2, <3>3, <3>4 DEF LazyInv
  <2>6. CASE At("commit") /\ Goto("empty")
    BY <2>5, <2>6 DEF Goto
  <2>7. CASE At("commit2") /\ Goto("shrink2")
    BY <2>5, <2>7 DEF Goto
  <2> QED BY <1>3, <2>4, <2>6, <2>7
<1> QED BY <1>2, <1>3 DEF Commit, Retry, LastTry

LEMMA EmptyInv ==
  ASSUME LazyInv, Empty, UNCHANGED shared
  PROVE  LazyInv'
<1>1. /\ held' = held /\ want' = want /\ recent' = recent /\ regrow' = regrow
      /\ shared' = shared /\ UNCHANGED pages /\ call.pc \in HookSteps /\ At("empty")
      /\ call' = [call EXCEPT !.pc = "commit2"]
  BY DEF Empty, Goto, At, HookSteps
<1>2. KvChunks' = KvChunks /\ KvChunks \in Nat /\ Mapped'
  BY <1>1, PagesKept
<1>3. free' \in 0 .. Vram - held - KvChunks
  BY <1>2, Sizes DEF Empty, EmptyCache, LazyInv, TypeOK
<1>4. call'.pc = "commit2" /\ call'.slots = call.slots /\ call'.tokens = call.tokens
  BY <1>1 DEF LazyInv, TypeOK
<1>5. TypeOK'
  BY <1>1, <1>2, <1>3 DEF LazyInv, TypeOK, pages
<1>6. Covers' /\ Asked' /\ Room'
  BY <1>1, <1>4 DEF LazyInv, Covers, Asked, Room, HookSteps, At, pages
<1> QED BY <1>2, <1>5, <1>6 DEF LazyInv

(* The chunks of the cache do not grow when no buffer's do.                *)
LEMMA KvShrinks ==
  ASSUME NEW f \in [Bufs -> Nat], NEW g \in [Bufs -> Nat], \A b \in Bufs : f[b] <= g[b]
  PROVE  PrefixSums(f, Buffers)[Buffers] <= PrefixSums(g, Buffers)[Buffers]
<1>1. Buffers \in Nat
  BY Sizes
<1>2. \A i \in 1 .. Buffers : f[i] \in Nat /\ g[i] \in Nat /\ 1 * f[i] <= 1 * g[i] + 0
  BY DEF Bufs
<1>3. \A i \in 0 .. Buffers :
        1 * PrefixSums(f, Buffers)[i] <= 1 * PrefixSums(g, Buffers)[i] + i * 0
  BY <1>1, <1>2, SumsBound
<1>4. PrefixSums(f, Buffers)[Buffers] \in Nat /\ PrefixSums(g, Buffers)[Buffers] \in Nat
  BY KvChunksType
<1> QED BY <1>1, <1>3, <1>4

(* release_beyond leaves each buffer exactly its floor.                    *)
LEMMA KeptIsFloor ==
  ASSUME LazyInv
  PROVE  /\ \A b \in Bufs : ChunksFor(b, Floor) \in Nat /\ ChunksFor(b, Floor) <= kv[b]
         /\ KeptAtFloor = [b \in Bufs |-> ChunksFor(b, Floor)]
<1>1. ASSUME NEW b \in Bufs
      PROVE  /\ ChunksFor(b, Floor) \in Nat /\ ChunksFor(b, Floor) <= kv[b]
             /\ Min({kv[b], ChunksFor(b, Floor)}) = ChunksFor(b, Floor)
  <2>1. Floor \in Nat /\ backed \in Nat /\ Floor <= backed /\ kv[b] \in Nat
        /\ ChunksFor(b, backed) <= kv[b]
    BY Sizes DEF LazyInv, TypeOK, Mapped
  <2>2. /\ ChunksFor(b, Floor) \in Nat /\ ChunksFor(b, backed) \in Nat
        /\ ChunksFor(b, Floor) <= ChunksFor(b, backed)
    BY <2>1, ChunksForBounds, ChunksForGrow
  <2>3. ChunksFor(b, Floor) <= kv[b]
    BY <2>1, <2>2
  <2>4. Min({kv[b], ChunksFor(b, Floor)}) =
          IF kv[b] <= ChunksFor(b, Floor) THEN kv[b] ELSE ChunksFor(b, Floor)
    <3>1. kv[b] \in Int /\ ChunksFor(b, Floor) \in Int
      BY <2>1, <2>2
    <3> QED BY <3>1, MaxMin
  <2> QED BY <2>1, <2>2, <2>3, <2>4
<1> QED BY <1>1 DEF KeptAtFloor

(* What the cache gives back is free afterwards.                           *)
LEMMA GivenBack ==
  ASSUME LazyInv, kv' = KeptAtFloor, free' = free + KvChunks - KvChunks'
  PROVE  free' \in 0 .. Vram - held - KvChunks'
<1>1. kv' \in [Bufs -> Nat] /\ kv \in [Bufs -> Nat] /\ \A b \in Bufs : kv'[b] <= kv[b]
  BY KeptIsFloor DEF LazyInv, TypeOK
<1>2. KvChunks' \in Nat /\ KvChunks \in Nat /\ KvChunks' <= KvChunks
  BY <1>1, KvShrinks, KvChunksType DEF KvChunks
<1>3. free \in Nat /\ held \in Nat /\ Vram \in Nat /\ free <= Vram - held - KvChunks
  BY <1>2, Sizes DEF LazyInv, TypeOK
<1>4. PICK k : k = KvChunks'
  OBVIOUS
<1>5. k \in Nat /\ k <= KvChunks /\ KvChunks \in Nat /\ free' = free + KvChunks - k
  BY <1>2, <1>4
<1>6. free' \in 0 .. Vram - held - k
  BY <1>3, <1>5
<1> QED BY <1>4, <1>6

LEMMA FreeInv ==
  ASSUME LazyInv, Free, UNCHANGED shared
  PROVE  LazyInv'
<1>1. PICK slots \in SUBSET used :
       /\ slots # {}
       /\ used' = used \ slots
       /\ IF used' = {}
          THEN /\ kv' = KeptAtFloor
               /\ free' = free + KvChunks - KvChunks'
               /\ backed' = Min({backed, Floor})
               /\ IF regrow THEN regrow' = FALSE /\ Goto("regrow")
                  ELSE UNCHANGED <<regrow, call>>
          ELSE UNCHANGED <<kv, free, backed, regrow, call>>
  BY DEF Free
<1>2. /\ held' = held /\ want' = want /\ recent' = recent /\ shared' = shared
      /\ At("ready") /\ call.pc \notin HookSteps /\ call.slots = {}
  BY DEF Free, At, LazyInv, Covers, HookSteps
<1>3. used' \subseteq used
  BY <1>1
<1>4. CASE used' # {}
  <2>1. UNCHANGED <<kv, free, backed, regrow, call>>
    BY <1>1, <1>4
  <2>2. KvChunks' = KvChunks
    BY <2>1 DEF KvChunks
  <2>3. TypeOK'
    BY <1>2, <1>3, <2>1, <2>2 DEF LazyInv, TypeOK
  <2>4. Mapped'
    BY <1>3, <2>1 DEF LazyInv, Mapped, ChunksFor
  <2>5. Covers' /\ Asked' /\ Room'
    BY <1>2, <2>1 DEF Covers, Asked, Room, At, HookSteps
  <2> QED BY <2>3, <2>4, <2>5 DEF LazyInv
<1>5. CASE used' = {}
  <2>1. kv' = KeptAtFloor /\ free' = free + KvChunks - KvChunks'
    BY <1>1, <1>5
  <2>2. kv' \in [Bufs -> Nat] /\ \A b \in Bufs : kv'[b] = ChunksFor(b, Floor)
    BY <2>1, KeptIsFloor
  <2>4. free' \in 0 .. Vram - held - KvChunks'
    BY <2>1, GivenBack
  <2>5. backed' = Floor
    <3>1. backed \in Nat /\ Floor \in Nat /\ Floor <= backed
      BY Sizes DEF LazyInv, TypeOK, Mapped
    <3>2. Min({backed, Floor}) = IF backed <= Floor THEN backed ELSE Floor
      BY <3>1, MaxMin
    <3> QED BY <1>1, <1>5, <3>1, <3>2
  <2>6. /\ call' = call \/ call' = [call EXCEPT !.pc = "regrow"]
        /\ regrow' \in BOOLEAN
    BY <1>1, <1>5 DEF Goto, LazyInv, TypeOK
  <2>7. call'.pc \in {"ready", "regrow"} /\ call'.slots = {}
    BY <1>2, <2>6 DEF LazyInv, TypeOK, At
  <2>8. TypeOK'
    <3>1. backed' \in 0 .. Size + 1
      BY <2>5, Sizes
    <3>2. used' \subseteq Slots \ {0} /\ call'.slots \cap used' = {}
      BY <1>5
    <3> QED BY <1>2, <2>2, <2>4, <2>6, <3>1, <3>2 DEF LazyInv, TypeOK
  <2>9. Mapped'
    <3>1. \A b \in Bufs : ChunksFor(b, backed') <= kv'[b]
      BY <2>2, <2>5, KeptIsFloor
    <3> QED BY <1>5, <2>5, <3>1, Sizes DEF Mapped, ChunksFor, Bufs
  <2>10. Covers' /\ Asked' /\ Room'
    BY <2>7 DEF Covers, Asked, Room, At, HookSteps
  <2> QED BY <2>8, <2>9, <2>10 DEF LazyInv
<1> QED BY <1>4, <1>5

(* Outside the hooks: the cache resizes, other memory comes and goes.      *)
LEMMA ResizeType ==
  ASSUME LazyInv, Resize
  PROVE  held' \in MinHeld .. Vram /\ free' \in 0 .. Vram - held' - KvChunks /\ want' = want
<1>1. PICK h \in MinHeld .. held + free : held' = h /\ free' = free + held - h
  BY DEF Resize
<1>2. KvChunks \in Nat
  BY KvChunksType DEF KvChunks, LazyInv, TypeOK
<1>3. want' = want
  BY DEF Resize
<1>4. held \in Nat /\ free \in Nat /\ held <= Vram /\ free <= Vram - held - KvChunks /\ held >= MinHeld
  BY Sizes DEF LazyInv, TypeOK
<1> QED BY <1>1, <1>2, <1>3, <1>4, Sizes

LEMMA OutsideInv ==
  ASSUME LazyInv, Regrow \/ Control \/ DriverMemory \/ HalfMinutePasses, UNCHANGED shared
  PROVE  LazyInv'
<1>1. UNCHANGED pages /\ shared' = shared
  BY DEF Regrow, Control, DriverMemory, HalfMinutePasses
<1>2. KvChunks' = KvChunks /\ KvChunks \in Nat /\ Mapped'
  BY <1>1, PagesKept
<1>3. CASE Regrow \/ Control
  <2>1. /\ call.pc \in {"ready", "regrow"} /\ recent' = recent /\ regrow' \in BOOLEAN
        /\ call' = call \/ call' = Ready
        /\ Resize \/ UNCHANGED lender
    BY <1>3 DEF Regrow, Control, At, LazyInv, TypeOK
  <2>2. held' \in MinHeld .. Vram /\ free' \in 0 .. Vram - held' - KvChunks /\ want' = want
    <3>1. CASE Resize
      BY <3>1, ResizeType
    <3>2. CASE UNCHANGED lender
      BY <3>2 DEF lender, LazyInv, TypeOK
    <3> QED BY <2>1, <3>1, <3>2
  <2>3. call'.pc \in {"ready", "regrow"} /\ call'.slots = {}
    BY <2>1 DEF Ready, LazyInv, Covers, HookSteps
  <2>4. call' \in [pc : {"ready", "watermark", "shrink", "shrinking", "recheck", "commit",
                     "empty", "commit2", "shrink2", "shrinking2", "commit3", "regrow"},
                   slots : SUBSET (Slots \ {0}), tokens : 0 .. Size + 1]
    BY <2>1, Sizes DEF Ready, LazyInv, TypeOK
  <2>5. TypeOK'
    BY <1>1, <1>2, <2>1, <2>2, <2>3, <2>4 DEF LazyInv, TypeOK, pages
  <2>6. Covers' /\ Asked' /\ Room'
    BY <2>3 DEF Covers, Asked, Room, At, HookSteps
  <2> QED BY <1>2, <2>5, <2>6 DEF LazyInv
<1>4. CASE DriverMemory \/ HalfMinutePasses
  <2>1. /\ held' = held /\ want' = want /\ call' = call /\ regrow' = regrow
        /\ recent' \in BOOLEAN
        /\ free' \in 0 .. Vram - held - KvChunks
        /\ free' = free \/ At("ready") \/ shared
    BY <1>4 DEF DriverMemory, HalfMinutePasses, FreeBecomes, lender, LazyInv, TypeOK
  <2>2. TypeOK'
    BY <1>1, <1>2, <2>1 DEF LazyInv, TypeOK, pages
  <2>3. Delta' = Delta
    BY <1>1, <2>1 DEF Delta, pages
  <2>4. Covers' /\ Asked'
    BY <1>1, <2>1, <2>3 DEF LazyInv, Covers, Asked, At, pages
  <2>5. Room'
    BY <1>1, <2>1, <2>3 DEF LazyInv, Room, At
  <2> QED BY <1>2, <2>2, <2>4, <2>5 DEF LazyInv
<1> QED BY <1>3, <1>4

LEMMA InitInv ==
  ASSUME Init
  PROVE  LazyInv
<1>1. /\ held \in MinHeld .. Vram /\ want = NoWant /\ used = {} /\ backed = Floor
      /\ kv = [b \in Bufs |-> ChunksFor(b, Floor)] /\ free + held + KvChunks <= Vram
      /\ recent = FALSE /\ regrow = FALSE /\ call = Ready /\ shared \in BOOLEAN
      /\ free \in 0 .. Vram - held
  BY DEF Init, LenderInit
<1>2. \A b \in Bufs : ChunksFor(b, Floor) \in Nat
  BY ChunksForBounds, Sizes
<1>3. kv \in [Bufs -> Nat] /\ KvChunks \in Nat
  BY <1>1, <1>2, KvChunksType DEF KvChunks
<1>4. free \in 0 .. Vram - held - KvChunks
  BY <1>1, <1>3, Sizes
<1>5. TypeOK
  <2>1. backed \in 0 .. Size + 1
    BY <1>1, Sizes
  <2>2. call.slots \cap used = {} /\ used \subseteq Slots \ {0}
    BY <1>1
  <2>3. Ready.pc = "ready" /\ Ready.slots \subseteq Slots \ {0} /\ Ready.tokens \in 0 .. Size + 1
    BY Sizes DEF Ready
  <2> QED BY <1>1, <1>3, <1>4, <2>1, <2>2, <2>3 DEF TypeOK, Ready
<1>6. Mapped
  BY <1>1, <1>2, Sizes DEF Mapped
<1>7. Covers /\ Asked /\ Room
  BY <1>1 DEF Covers, Asked, Room, At, Ready, HookSteps
<1> QED BY <1>5, <1>6, <1>7 DEF LazyInv

LEMMA NextInv ==
  ASSUME LazyInv, [Next]_vars
  PROVE  LazyInv'
<1>1. CASE UNCHANGED vars
  BY <1>1 DEF vars, LazyInv, TypeOK, Mapped, Covers, Asked, Room, At, Delta, KvChunks,
              ChunksFor, Bufs, Slots
<1>2. CASE Next
  <2>1. UNCHANGED shared
    BY <1>2 DEF Next
  <2>2. CASE Alloc
    BY <2>1, <2>2, AllocInv
  <2>3. CASE Hook
    <3>1. CASE Watermark
      BY <2>1, <3>1, WatermarkInv
    <3>2. CASE Shrink \/ Shrink2
      BY <2>1, <3>2, ShrinkInv
    <3>3. CASE Lend
      BY <2>1, <3>3, LendInv
    <3>4. CASE Recheck
      BY <2>1, <3>4, RecheckInv
    <3>5. CASE Commit \/ Retry \/ LastTry
      BY <2>1, <3>5, TriesInv
    <3>6. CASE Empty
      BY <2>1, <3>6, EmptyInv
    <3> QED BY <2>3, <3>1, <3>2, <3>3, <3>4, <3>5, <3>6 DEF Hook
  <2>4. CASE Free
    BY <2>1, <2>4, FreeInv
  <2>5. CASE Regrow \/ Control \/ DriverMemory \/ HalfMinutePasses
    BY <2>1, <2>5, OutsideInv
  <2> QED BY <1>2, <2>2, <2>3, <2>4, <2>5 DEF Next
<1> QED BY <1>1, <1>2

(* The inductive invariant holds throughout.                               *)
THEOREM LazyInvariant == Spec => []LazyInv
<1>1. Init => LazyInv
  BY InitInv
<1>2. LazyInv /\ [Next]_vars => LazyInv'
  BY NextInv
<1> QED BY <1>1, <1>2, PTL DEF Spec

-----------------------------------------------------------------------------
(* The variables of the hooks keep their types; no more VRAM is used than  *)
(* there is, whatever commits fail half way (ensure_prefix, kv_lazy.py:67).*)
THEOREM LazyTypes == Spec => []TypeOK
<1>1. LazyInv => TypeOK
  BY DEF LazyInv
<1> QED BY <1>1, LazyInvariant, PTL

(* Whatever failed in between, a slot is in somebody's hands only while    *)
(* every buffer is backed up to and including it (lazy_ensure,             *)
(* kv_lazy.py:113).                                                        *)
THEOREM SlotsAreBacked == Spec => []AllocatedIsBacked
<1>1. LazyInv => AllocatedIsBacked
  <2> SUFFICES ASSUME LazyInv, NEW s \in used, NEW b \in Bufs
               PROVE  ChunksFor(b, s + 1) <= kv[b]
    BY DEF AllocatedIsBacked
  <2>1. /\ s \in Nat /\ backed \in Nat /\ s + 1 <= backed
        /\ ChunksFor(b, backed) <= kv[b] /\ kv[b] \in Nat
    BY Sizes DEF LazyInv, TypeOK, Mapped, Slots
  <2>2. /\ ChunksFor(b, s + 1) \in Nat /\ ChunksFor(b, backed) \in Nat
        /\ ChunksFor(b, s + 1) <= ChunksFor(b, backed)
    BY <2>1, ChunksForBounds, ChunksForGrow
  <2> QED BY <2>1, <2>2
<1> QED BY <1>1, LazyInvariant, PTL

(* Alone on the GPU, lazy_ensure refuses an allocation only when the       *)
(* expert cache has given all it can: neither the test of the hard limit   *)
(* (kv_lazy.py:139) nor the third try (160) fails before.                  *)
THEOREM RefusalsComeLast == Spec => RefusedOnlyAtFloor
<1>1. LazyInv /\ [Next]_vars => (~shared => RefusesAtFloor)
  <2> SUFFICES ASSUME LazyInv, [Next]_vars, ~shared, ~At("ready"), call' = Ready,
                      ~(call.slots \subseteq used'), held # MinHeld
               PROVE  FALSE
    BY DEF RefusesAtFloor
  <2>1. call' # call /\ Next
    BY DEF vars, At, Ready
  <2>2. call.pc \in HookSteps
    BY DEF LazyInv, Covers
  <2>3. ASSUME NEW pc \in {"shrink", "shrinking", "recheck", "commit", "empty", "commit2",
                           "shrink2", "shrinking2", "commit3"}, Goto(pc)
        PROVE  FALSE
    BY <2>3 DEF Goto, Ready, LazyInv, TypeOK
  <2>4. ~Committed
    BY DEF Committed
  <2>5. CASE Recheck
    <3>1. free * Chunk - Delta < HardLimit /\ At("recheck")
      BY <2>3, <2>5 DEF Recheck
    <3>2. free * Chunk - Delta >= Headroom
      BY <3>1 DEF LazyInv, Room, At
    <3>3. HardLimit <= Headroom /\ HardLimit \in Nat
      BY Sizes DEF HardLimit
    <3>4. free * Chunk - Delta \in Int
      <4>1. free \in Nat /\ Chunk \in Nat /\ Delta \in Nat
        BY <2>2, HookFacts, Sizes DEF LazyInv, TypeOK
      <4> QED BY <4>1
    <3> QED BY <3>1, <3>2, <3>3, <3>4, Sizes
  <2>6. CASE LastTry
    <3>1. CommitFails /\ At("commit3")
      BY <2>4, <2>6 DEF LastTry
    <3>2. free < MissingBefore(Buffers)
      BY <2>2, <3>1, CommitFailsFacts
    <3> QED BY <2>2, <3>1, <3>2, WhyItFails
  <2>7. CASE Watermark
    <3>1. Goto("shrink") \/ Goto("recheck") \/ Goto("commit")
      <4> HIDE DEF Goto
      <4> QED BY <2>7 DEF Watermark
    <3> QED BY <2>3, <3>1
  <2>8. CASE Shrink \/ Shrink2 \/ Empty
    BY <2>3, <2>8 DEF Shrink, Shrink2, Empty
  <2>9. CASE Lend
    <3>1. call' = call \/ Goto("recheck") \/ Goto("commit3")
      <4> HIDE DEF Goto
      <4> QED BY <2>9 DEF Lend
    <3> QED BY <2>1, <2>3, <3>1
  <2>10. CASE Commit \/ Retry
    BY <2>3, <2>4, <2>10 DEF Commit, Retry
  <2>11. CASE Alloc \/ Free \/ Control
    BY <2>11 DEF Alloc, Free, Control
  <2>12. CASE Regrow \/ DriverMemory \/ HalfMinutePasses
    BY <2>1, <2>2, <2>12 DEF Regrow, DriverMemory, HalfMinutePasses, At, HookSteps
  <2> QED BY <2>1, <2>5, <2>6, <2>7, <2>8, <2>9, <2>10, <2>11, <2>12 DEF Next, Hook
<1> QED BY <1>1, LazyInvariant, PTL DEF Spec, RefusedOnlyAtFloor

(* Alone on the GPU, as long as the cache is above its floor a commit      *)
(* leaves the headroom free, up to the rounding of each buffer to chunks   *)
(* (kv_lazy.py:126).                                                       *)
THEOREM HeadroomIsKept == Spec => CommitKeepsHeadroom
<1>1. LazyInv /\ [Next]_vars => (~shared => LeavesHeadroom)
  <2> SUFFICES ASSUME LazyInv, [Next]_vars, ~shared, backed' > backed, held # MinHeld
               PROVE  free' * Chunk >= Headroom - Buffers * (Chunk - 1)
    BY DEF LeavesHeadroom
  <2>1. backed \in Nat /\ Floor \in Nat
    BY Sizes DEF LazyInv, TypeOK
  <2>2. ~(backed' = backed)
    BY <2>1
  <2>3. CASE Committed /\ call.pc \in {"commit", "commit2", "commit3"}
    <3> DEFINE M == MissingBefore(Buffers)
               waste == Buffers * (Chunk - 1)
    <3>1. call.pc \in HookSteps
      BY <2>3 DEF HookSteps
    <3>2. M \in Nat /\ Chunk * M <= Delta + waste
      BY <3>1, MissingSums, Sizes
    <3>3. /\ free \in Nat /\ Chunk \in Nat /\ Delta \in Nat /\ Headroom \in Nat /\ waste \in Nat
          /\ M <= free /\ free' = free - M
      BY <2>3, <3>1, HookFacts, Sizes DEF LazyInv, TypeOK, Committed
    <3>4. call.pc = "commit" => free * Chunk - Delta >= Headroom
      BY DEF LazyInv, Room
    <3>5. call.pc # "commit" => Headroom < waste
      BY <2>3 DEF LazyInv, Room
    <3> HIDE DEF M, waste
    <3>6. (free - M) * Chunk = free * Chunk - Chunk * M /\ free - M \in Nat
      BY <3>2, <3>3
    <3>7. (free - M) * Chunk \in Nat /\ free * Chunk \in Nat /\ Chunk * M \in Nat
      BY <3>2, <3>3, <3>6
    <3>8. free' * Chunk >= Headroom - waste
      BY <3>2, <3>3, <3>4, <3>5, <3>6, <3>7
    <3> QED BY <3>8 DEF waste
  <2>4. CASE Free
    <3>1. backed' = backed \/ backed' = Min({backed, Floor})
      BY <2>4 DEF Free
    <3>2. Min({backed, Floor}) = IF backed <= Floor THEN backed ELSE Floor
      BY <2>1, MaxMin
    <3> QED BY <2>1, <3>1, <3>2
  <2>5. CASE ~Free /\ ~(Committed /\ call.pc \in {"commit", "commit2", "commit3"})
    BY <2>2, <2>5 DEF Next, vars, Alloc, Hook, Watermark, Shrink, Lend, Recheck, Refuse, Commit,
       Empty, Retry, Shrink2, LastTry, CommitFails, Regrow, Control, DriverMemory,
       HalfMinutePasses, pages, At
  <2> QED BY <2>3, <2>4, <2>5
<1> QED BY <1>1, LazyInvariant, PTL DEF Spec, CommitKeepsHeadroom

(* When the last slot is freed lazy_release gives the driver everything    *)
(* beyond the floor back, also what commits that failed had mapped         *)
(* (kv_lazy.py:162).                                                       *)
THEOREM IdleGivesBack == Spec => IdleKeepsFloorOnly
<1>1. LazyInv /\ [Next]_vars => GivesBack
  <2> SUFFICES ASSUME LazyInv, [Next]_vars, used # {}, used' = {}, NEW b \in Bufs
               PROVE  kv'[b] = ChunksFor(b, Floor)
    BY DEF GivesBack
  <2>1. ~(used \subseteq used')
    OBVIOUS
  <2>2. CASE Free
    <3>1. kv' = KeptAtFloor
      BY <2>2 DEF Free
    <3> QED BY <3>1, KeptIsFloor
  <2>3. CASE ~Free
    BY <2>1, <2>3 DEF Next, vars, Alloc, Hook, Watermark, Shrink, Lend, Recheck, Refuse, Commit,
       Empty, Retry, Shrink2, LastTry, Committed, CommitFails, Regrow, Control, DriverMemory,
       HalfMinutePasses, pages
  <2> QED BY <2>2, <2>3
<1> QED BY <1>1, LazyInvariant, PTL DEF Spec, IdleKeepsFloorOnly

=============================================================================
