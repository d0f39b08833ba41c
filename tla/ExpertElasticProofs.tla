------------------------ MODULE ExpertElasticProofs ------------------------
(***************************************************************************)
(* Proofs about ExpertElastic, for every number of layers, rows, kinds and *)
(* host slots: type correctness, the integrity of the rows behind the      *)
(* address tables, the conservation of host slots and of VRAM chunks, and  *)
(* that no shrink runs out of host slots while the server serves; that the *)
(* cache implements VramLender, every step of every command, finished or   *)
(* failed, and of everybody else who allocates VRAM, being a step of the   *)
(* lender or none; and that fill spares its reserve.                       *)
(***************************************************************************)
EXTENDS ElasticLender, PrefixLemmas

-----------------------------------------------------------------------------
(* Arithmetic.                                                             *)

(* A non-empty set of natural numbers has a least element. *)
LEMMA NatMin ==
  ASSUME NEW T, T \subseteq Nat, T # {}
  PROVE  Min(T) \in T /\ \A y \in T : Min(T) <= y
<1> DEFINE Below == {0..x : x \in T}
<1>1. Below \subseteq FiniteSubsetsOf(Nat)
  <2> SUFFICES ASSUME NEW x \in T PROVE 0..x \in FiniteSubsetsOf(Nat)
    OBVIOUS
  <2>1. IsFiniteSet(0..x)
    BY FS_Interval
  <2> QED BY <2>1 DEF FiniteSubsetsOf
<1>2. PICK b \in Below : \A c \in Below : <<c, b>> \notin StrictSubsetOrdering(Nat)
  <2>1. Below # {}
    OBVIOUS
  <2>2. IsWellFoundedOn(StrictSubsetOrdering(Nat), FiniteSubsetsOf(Nat))
    BY FS_StrictSubsetOrderingWellFounded
  <2> HIDE DEF Below
  <2> QED BY <1>1, <2>1, <2>2, WFMin
<1>3. PICK x \in T : b = 0..x
  BY <1>2
<1>4. \A y \in T : x <= y
  <2> SUFFICES ASSUME NEW y \in T, y < x PROVE FALSE
    OBVIOUS
  <2>1. 0..y \subseteq 0..x /\ x \in 0..x /\ x \notin 0..y
    OBVIOUS
  <2>2. <<0..y, 0..x>> \in StrictSubsetOrdering(Nat)
    BY <2>1 DEF StrictSubsetOrdering
  <2> QED BY <2>2, <1>2, <1>3
<1> QED BY <1>4 DEF Min

LEMMA MinPair ==
  ASSUME NEW a \in Int, NEW b \in Int
  PROVE  Min({a, b}) = IF a <= b THEN a ELSE b
BY DEF Min

LEMMA MaxPair ==
  ASSUME NEW a \in Int, NEW b \in Int
  PROVE  Max({a, b}) = IF a >= b THEN a ELSE b
BY DEF Max

LEMMA TimesMonotone ==
  ASSUME NEW a \in Nat, NEW b \in Nat, NEW c \in Nat, a <= b
  PROVE  a * c <= b * c /\ c * a <= c * b
OBVIOUS

-----------------------------------------------------------------------------
(* Arena geometry.                                                         *)

(* chunks_for_rows is enough for n rows, and grows with n. *)
LEMMA ChunksEnough ==
  ASSUME NEW k \in Kinds, NEW n \in Nat
  PROVE  /\ ChunksForRows(k, n) \in Nat
         /\ n * RowBytes[k] <= ChunksForRows(k, n) * Chunk
<1>1. RowBytes[k] \in Nat \ {0} /\ Chunk \in Nat \ {0}
  BY SizesAssumption DEF Kinds
<1>2. n * RowBytes[k] \in Nat
  BY <1>1
<1> DEFINE a == n * RowBytes[k]
<1> HIDE DEF a
<1>3. a \in Nat => /\ (a + Chunk - 1) \div Chunk \in Nat
                   /\ a <= ((a + Chunk - 1) \div Chunk) * Chunk
  BY <1>1, SMTT(30)
<1> QED BY <1>2, <1>3 DEF ChunksForRows, a

LEMMA ChunksMonotone ==
  ASSUME NEW k \in Kinds, NEW n \in Nat, NEW m \in Nat, n <= m
  PROVE  ChunksForRows(k, n) <= ChunksForRows(k, m)
<1>1. RowBytes[k] \in Nat \ {0} /\ Chunk \in Nat \ {0}
  BY SizesAssumption DEF Kinds
<1>2. /\ n * RowBytes[k] \in Nat /\ m * RowBytes[k] \in Nat
      /\ n * RowBytes[k] <= m * RowBytes[k]
  BY <1>1, TimesMonotone
<1> DEFINE a == n * RowBytes[k]
           b == m * RowBytes[k]
<1> HIDE DEF a, b
<1>3. a \in Nat /\ b \in Nat /\ a <= b =>
        (a + Chunk - 1) \div Chunk <= (b + Chunk - 1) \div Chunk
  BY <1>1, SMTT(30)
<1> QED BY <1>2, <1>3 DEF ChunksForRows, a, b

(* The rows below n are backed once the arena holds chunks_for_rows(n). *)
LEMMA BackedBelow ==
  ASSUME NEW k \in Kinds, NEW n \in Nat, NEW r \in Nat, r < n,
         NEW c \in Nat, ChunksForRows(k, n) <= c
  PROVE  Backed(k, c, r)
<1>1. RowBytes[k] \in Nat \ {0} /\ Chunk \in Nat \ {0}
  BY SizesAssumption DEF Kinds
<1>2. (r + 1) * RowBytes[k] <= n * RowBytes[k]
  BY <1>1, TimesMonotone
<1>3. ChunksForRows(k, n) * Chunk <= c * Chunk
  BY <1>1, ChunksEnough, TimesMonotone
<1>4. (r + 1) * RowBytes[k] \in Nat /\ n * RowBytes[k] \in Nat /\ c * Chunk \in Nat
      /\ ChunksForRows(k, n) * Chunk \in Nat
  BY <1>1, ChunksEnough
<1> QED BY <1>2, <1>3, <1>4, ChunksEnough DEF Backed

-----------------------------------------------------------------------------
(* Counting rows and slots.                                                *)

(* The rows that do not fit when layer l keeps f[l] of them. *)
Outside(f) == {row \in Rows : f[row[1]] <= row[2]}

LEMMA RowsFinite ==
  /\ IsFiniteSet(Layers) /\ Cardinality(Layers) = NumLayers
  /\ IsFiniteSet(Ranks) /\ Cardinality(Ranks) = NumRows
  /\ IsFiniteSet(Rows) /\ Cardinality(Rows) = NumLayers * NumRows
<1>1. NumLayers \in Nat \ {0} /\ NumRows \in Nat \ {0}
  BY SizesAssumption
<1>2. IsFiniteSet(Layers) /\ Cardinality(Layers) = NumLayers
  BY <1>1, FS_Interval DEF Layers
<1>3. IsFiniteSet(Ranks) /\ Cardinality(Ranks) = NumRows
  BY <1>1, FS_Interval DEF Ranks
<1> QED BY <1>2, <1>3, FS_Product DEF Rows

LEMMA SlotsFinite ==
  ASSUME NEW k \in Kinds
  PROVE  IsFiniteSet(Slots(k)) /\ Cardinality(Slots(k)) \in Nat
<1>1. IsFiniteSet(OnHost[k] \X Ranks)
  <2>1. OnHost[k] \in SUBSET Layers
    BY PlacementAssumption
  <2> QED BY <2>1, RowsFinite, FS_Subset, FS_Product
<1>2. IsFiniteSet({NumLayers} \X (0 .. Pinned[k] - 1))
  <2>1. Pinned[k] \in Nat
    BY PlacementAssumption
  <2>2. IsFiniteSet(0 .. Pinned[k] - 1)
    BY <2>1, FS_Interval
  <2> QED BY <2>2, FS_Singleton, FS_Product
<1>3. IsFiniteSet(Slots(k))
  BY <1>1, <1>2, FS_Union DEF Slots
<1> QED BY <1>3, FS_CardinalityType

LEMMA OutsideFinite ==
  ASSUME NEW f
  PROVE  IsFiniteSet(Outside(f)) /\ Cardinality(Outside(f)) \in Nat
BY RowsFinite, FS_Subset, FS_CardinalityType DEF Outside

(* A larger S only makes residency easier for the host. *)
LEMMA HostFitsMonotone ==
  ASSUME NEW s \in 0 .. NumRows, NEW t \in 0 .. NumRows, s <= t, HostFits(s)
  PROVE  HostFits(t)
<1> SUFFICES ASSUME NEW k \in Kinds
             PROVE  NumLayers * (NumRows - t) <= Cardinality(Slots(k))
  BY DEF HostFits
<1>1. NumLayers \in Nat /\ NumRows \in Nat
  BY SizesAssumption
<1>2. NumLayers * (NumRows - t) <= NumLayers * (NumRows - s)
  BY <1>1, TimesMonotone
<1>3. NumLayers * (NumRows - s) <= Cardinality(Slots(k))
  BY DEF HostFits
<1> QED BY <1>1, <1>2, <1>3, SlotsFinite

(* If every layer's size fits the host as a uniform size, then the layers  *)
(* together fit it, however different their sizes are.                     *)
LEMMA OutsideFits ==
  ASSUME NEW f \in [Layers -> 0 .. NumRows], \A l \in Layers : HostFits(f[l]),
         NEW k \in Kinds
  PROVE  Cardinality(Outside(f)) <= Cardinality(Slots(k))
<1>0. NumLayers \in Nat \ {0} /\ NumRows \in Nat \ {0}
  BY SizesAssumption
<1> DEFINE Sizes == {f[l] : l \in Layers}
<1>1. Sizes \subseteq Nat /\ Sizes # {}
  BY <1>0 DEF Layers
<1>2. PICK j \in Layers : f[j] = Min(Sizes)
  BY <1>1, NatMin
<1>3. \A l \in Layers : f[j] <= f[l]
  BY <1>1, <1>2, NatMin
<1> DEFINE m == f[j]
<1>4. m \in 0 .. NumRows
  OBVIOUS
<1>5. Outside(f) \subseteq Layers \X (m .. NumRows - 1)
  BY <1>0, <1>3, <1>4 DEF Outside, Rows, Layers, Ranks
<1>6. /\ IsFiniteSet(Layers \X (m .. NumRows - 1))
      /\ Cardinality(Layers \X (m .. NumRows - 1)) = NumLayers * (NumRows - m)
  <2> HIDE DEF m
  <2>1. m \in Int /\ NumRows - 1 \in Int /\ m <= NumRows
    BY <1>0, <1>4
  <2>2. /\ IsFiniteSet(m .. NumRows - 1)
        /\ Cardinality(m .. NumRows - 1) =
             IF m > NumRows - 1 THEN 0 ELSE (NumRows - 1) - m + 1
    BY <2>1, FS_Interval
  <2>3. Cardinality(m .. NumRows - 1) = NumRows - m
    BY <1>0, <2>1, <2>2
  <2> DEFINE Upper == m .. NumRows - 1
  <2>4. IsFiniteSet(Upper) /\ Cardinality(Upper) = NumRows - m
    BY <2>2, <2>3
  <2> HIDE DEF Upper
  <2>5. /\ IsFiniteSet(Layers \X Upper)
        /\ Cardinality(Layers \X Upper) = Cardinality(Layers) * Cardinality(Upper)
    BY <2>4, RowsFinite, FS_Product
  <2> QED BY <2>4, <2>5, RowsFinite DEF Upper
<1>7. Cardinality(Outside(f)) <= NumLayers * (NumRows - m)
  BY <1>5, <1>6, FS_Subset
<1>8. NumLayers * (NumRows - m) <= Cardinality(Slots(k))
  BY DEF HostFits
<1>9. NumLayers * (NumRows - m) \in Nat
  BY <1>0, <1>4
<1> QED BY <1>7, <1>8, <1>9, OutsideFinite, SlotsFinite

(* The rows inside and outside the arenas add up. *)
LEMMA InsideOutside ==
  ASSUME S \in [Layers -> 0 .. NumRows]
  PROVE  /\ TotalS \in Nat
         /\ TotalS + Cardinality(Outside(S)) = NumLayers * NumRows
<1> DEFINE Inside == {row \in Rows : row[2] < S[row[1]]}
<1>1. Outside(S) = Rows \ Inside
  <2>1. \A row \in Rows : row[2] \in Int /\ S[row[1]] \in Int
    BY SizesAssumption DEF Rows, Ranks
  <2> QED BY <2>1 DEF Outside
<1>2. Inside \subseteq Rows /\ Rows \cap Inside = Inside
  OBVIOUS
<1>3. IsFiniteSet(Inside) /\ Cardinality(Inside) \in Nat
  BY <1>2, RowsFinite, FS_Subset, FS_CardinalityType
<1>4. Cardinality(Outside(S)) = Cardinality(Rows) - Cardinality(Inside)
  <2>1. Cardinality(Rows \ Inside) = Cardinality(Rows) - Cardinality(Rows \cap Inside)
    BY RowsFinite, FS_Difference
  <2> HIDE DEF Inside
  <2> QED BY <1>1, <1>2, <2>1
<1>5. NumLayers * NumRows \in Nat
  BY SizesAssumption
<1> HIDE DEF Inside
<1>6. TotalS = Cardinality(Inside)
  BY DEF TotalS, Inside
<1> QED BY <1>3, <1>4, <1>5, <1>6, RowsFinite

(* Between resizes the pool of a kind and the rows outside the arenas make *)
(* up the host slots: the homes of those rows are a bijection onto the     *)
(* slots that are not free.                                                *)
LEMMA PoolCount ==
  ASSUME TypeOK, SlotPartition, op.pc # "release", NEW k \in Kinds
  PROVE  /\ IsFiniteSet(pool[k]) /\ Cardinality(pool[k]) \in Nat
         /\ Cardinality(pool[k]) + Cardinality(Outside(S)) = Cardinality(Slots(k))
<1> DEFINE Out == {row \in Rows : home[k][row] # NoSlot}
           Homes == {home[k][row] : row \in Out}
           h == [row \in Out |-> home[k][row]]
<1>1. \A l \in Layers : Resident(l) = S[l]
  BY DEF Resident
<1>2. Out = Outside(S)
  <2>1. \A row \in Rows : home[k][row] = NoSlot <=> row[2] < S[row[1]]
    BY <1>1 DEF SlotPartition, Rows
  <2>2. \A row \in Rows : row[2] \in Int /\ S[row[1]] \in Int
    BY SizesAssumption DEF TypeOK, Rows, Ranks
  <2> QED BY <2>1, <2>2 DEF Outside
<1>3. h \in Bijection(Out, Homes)
  <2>1. h \in Injection(Out, Homes)
    BY DEF SlotPartition, Injection, IsInjective
  <2>2. h \in Surjection(Out, Homes)
    BY DEF Surjection
  <2> QED BY <2>1, <2>2 DEF Bijection
<1>4. IsFiniteSet(Out) /\ Cardinality(Out) \in Nat
  BY <1>2, OutsideFinite
<1>5. IsFiniteSet(Homes) /\ Cardinality(Homes) = Cardinality(Out)
  BY <1>3, <1>4, FS_Bijection DEF ExistsBijection
<1>6. pool[k] \cup Homes = Slots(k) /\ pool[k] \cap Homes = {}
  BY DEF SlotPartition
<1>7. IsFiniteSet(pool[k]) /\ Cardinality(pool[k]) \in Nat
  BY <1>6, SlotsFinite, FS_Subset, FS_CardinalityType
<1>8. Cardinality(Slots(k)) = Cardinality(pool[k]) + Cardinality(Homes) - 0
  <2> HIDE DEF Homes
  <2> QED BY <1>5, <1>6, <1>7, FS_Union, FS_EmptySet
<1> HIDE DEF Out, Homes, h
<1> QED BY <1>2, <1>4, <1>5, <1>7, <1>8

(* Whatever the sizes of the layers, the pools cover a uniform size s      *)
(* exactly when the host slots do.                                         *)
LEMMA PoolCoversHostFits ==
  ASSUME TypeOK, SlotPartition, op.pc # "release", NEW s \in 0 .. NumRows
  PROVE  PoolCovers(s) <=> HostFits(s)
<1> SUFFICES ASSUME NEW k \in Kinds
             PROVE  TotalS - NumLayers * s <= Cardinality(pool[k])
                      <=> NumLayers * (NumRows - s) <= Cardinality(Slots(k))
  BY DEF PoolCovers, HostFits
<1>1. /\ TotalS \in Nat
      /\ TotalS + Cardinality(Outside(S)) = NumLayers * NumRows
  BY InsideOutside DEF TypeOK
<1>2. /\ Cardinality(pool[k]) \in Nat
      /\ Cardinality(pool[k]) + Cardinality(Outside(S)) = Cardinality(Slots(k))
  BY PoolCount
<1>3. NumLayers * (NumRows - s) = NumLayers * NumRows - NumLayers * s
  BY SizesAssumption
<1>4. NumLayers * NumRows \in Nat /\ NumLayers * s \in Nat
  BY SizesAssumption
<1> QED BY <1>1, <1>2, <1>3, <1>4, OutsideFinite, SlotsFinite

(* s_floor is the least uniform size the host slots can absorb. *)
LEMMA FloorIsHostFloor ==
  ASSUME TypeOK, SlotPartition, op.pc # "release"
  PROVE  /\ s_floor \in 0 .. NumRows /\ HostFits(s_floor)
         /\ \A s \in 0 .. NumRows : HostFits(s) => s_floor <= s
<1>0. NumRows \in Nat /\ NumLayers \in Nat \ {0}
  BY SizesAssumption
<1> DEFINE Above == {s \in 0 .. NumRows : TotalS <= NumLayers * s}
           ceil == CeilMeanS
           Reach == {s \in 0 .. ceil : \A t \in s .. ceil : PoolCovers(t)}
<1>1. TotalS \in Nat /\ TotalS <= NumLayers * NumRows
  BY InsideOutside, OutsideFinite, <1>0 DEF TypeOK
<1>2. NumRows \in Above
  BY <1>0, <1>1
<1>3. ceil \in Above
  BY <1>2, NatMin DEF CeilMeanS
<1>4. ceil \in 0 .. NumRows /\ TotalS <= NumLayers * ceil
  BY <1>3
<1> HIDE DEF ceil
<1>5. PoolCovers(ceil)
  <2> SUFFICES ASSUME NEW k \in Kinds
               PROVE  TotalS - NumLayers * ceil <= Cardinality(pool[k])
    BY DEF PoolCovers
  <2>1. Cardinality(pool[k]) \in Nat
    BY PoolCount
  <2>2. NumLayers * ceil \in Nat
    BY <1>0, <1>4
  <2> QED BY <1>1, <1>4, <2>1, <2>2
<1>6. ceil \in Reach
  <2>1. \A t \in ceil .. ceil : t = ceil
    BY <1>4
  <2> QED BY <1>4, <1>5, <2>1
<1>7. s_floor = Min(Reach)
  <2>1. {ceil} \cup Reach = Reach
    BY <1>6
  <2> QED BY <2>1 DEF s_floor, ceil
<1>8. s_floor \in Reach /\ \A s \in Reach : s_floor <= s
  <2>1. Reach \subseteq Nat
    BY <1>4
  <2> HIDE DEF Reach
  <2> QED BY <1>6, <1>7, <2>1, NatMin
<1>9. s_floor \in 0 .. ceil /\ PoolCovers(s_floor)
  BY <1>4, <1>8
<1>10. s_floor \in 0 .. NumRows /\ HostFits(s_floor)
  BY <1>0, <1>4, <1>9, PoolCoversHostFits
<1>11. ASSUME NEW s \in 0 .. NumRows, HostFits(s)
       PROVE  s_floor <= s
  <2>1. CASE s > ceil
    BY <2>1, <1>4, <1>9
  <2>2. CASE s <= ceil
    <3>1. \A t \in s .. ceil : t \in 0 .. NumRows /\ s <= t
      BY <1>0, <1>4
    <3>2. \A t \in s .. ceil : PoolCovers(t)
      BY <1>11, <3>1, HostFitsMonotone, PoolCoversHostFits
    <3>3. s \in Reach
      BY <2>2, <3>2, <1>4
    <3> QED BY <3>3, <1>8
  <2> QED BY <2>1, <2>2, <1>4
<1> QED BY <1>10, <1>11

-----------------------------------------------------------------------------
(* The invariant holds initially.                                          *)

(* What place_all leaves behind: a cold row has a slot of its own. *)
LEMMA InitHomes ==
  ASSUME Init, NEW k \in Kinds
  PROVE  /\ home[k] \in [Rows -> Slots(k) \cup {NoSlot}]
         /\ \A row \in Rows : row[2] < StartS => home[k][row] = NoSlot
         /\ \A row \in Rows : ~(row[2] < StartS) => home[k][row] \in Slots(k)
         /\ \A a, b \in Rows :
              ~(a[2] < StartS) /\ ~(b[2] < StartS) /\ home[k][a] = home[k][b] => a = b
<1>1. PICK place \in [Kinds -> UNION {Placements(j) : j \in Kinds}] :
        /\ \A j \in Kinds : place[j] \in Placements(j)
        /\ home = [j \in Kinds |-> [row \in Rows |->
                     IF row[2] < StartS THEN NoSlot
                     ELSE IF row[1] \in OnHost[j] THEN row ELSE place[j][row]]]
  BY DEF Init
<1>2. place[k] \in Injection(ColdRows(FALSE, k), Slots(k) \ ColdRows(TRUE, k))
  BY <1>1 DEF Placements
<1>3. home[k] = [row \in Rows |->
                   IF row[2] < StartS THEN NoSlot
                   ELSE IF row[1] \in OnHost[k] THEN row ELSE place[k][row]]
  BY <1>1
<1>4. ASSUME NEW row \in Rows, ~(row[2] < StartS)
      PROVE  \/ /\ row \in ColdRows(TRUE, k) /\ home[k][row] = row
                /\ home[k][row] \in Slots(k)
             \/ /\ row \in ColdRows(FALSE, k) /\ home[k][row] = place[k][row]
                /\ home[k][row] \in Slots(k) \ ColdRows(TRUE, k)
  <2>1. row[2] \in Int /\ StartS \in Int /\ row[2] >= StartS
    BY <1>4, SizesAssumption DEF Rows, Ranks
  <2>2. CASE row[1] \in OnHost[k]
    <3>1. home[k][row] = row
      BY <1>3, <1>4, <2>2
    <3>2. row \in ColdRows(TRUE, k)
      BY <2>1, <2>2 DEF ColdRows
    <3>3. row \in Slots(k)
      BY <2>2 DEF Slots, Rows
    <3> QED BY <3>1, <3>2, <3>3
  <2>3. CASE row[1] \notin OnHost[k]
    <3>1. home[k][row] = place[k][row]
      BY <1>3, <1>4, <2>3
    <3>2. row \in ColdRows(FALSE, k)
      BY <2>1, <2>3 DEF ColdRows
    <3>3. place[k][row] \in Slots(k) \ ColdRows(TRUE, k)
      BY <1>2, <3>2 DEF Injection
    <3> QED BY <3>1, <3>2, <3>3
  <2> QED BY <2>2, <2>3
<1>5. ASSUME NEW a \in Rows, NEW b \in Rows, ~(a[2] < StartS), ~(b[2] < StartS),
             home[k][a] = home[k][b]
      PROVE  a = b
  <2>1. CASE a \in ColdRows(FALSE, k) /\ b \in ColdRows(FALSE, k)
    <3>1. home[k][a] = place[k][a] /\ home[k][b] = place[k][b]
      BY <1>4, <1>5, <2>1, <1>3 DEF ColdRows
    <3> QED BY <1>2, <1>5, <2>1, <3>1 DEF Injection, IsInjective
  <2> QED BY <1>4, <1>5, <2>1
<1>6. \A row \in Rows : row[2] < StartS => home[k][row] = NoSlot
  BY <1>3
<1>7. \A row \in Rows : ~(row[2] < StartS) => home[k][row] \in Slots(k)
  BY <1>4
<1>8. home[k] \in [Rows -> Slots(k) \cup {NoSlot}]
  <2>1. \A row \in Rows : home[k][row] \in Slots(k) \cup {NoSlot}
    BY <1>6, <1>7
  <2>2. DOMAIN home[k] = Rows /\ home[k] = [row \in Rows |-> home[k][row]]
    BY <1>3
  <2> QED BY <2>1, <2>2
<1> QED BY <1>5, <1>6, <1>7, <1>8

LEMMA NoSlotNotASlot ==
  ASSUME NEW k \in Kinds
  PROVE  /\ Slots(k) \subseteq AllSlots /\ NoSlot \notin Slots(k)
         /\ \A x : x \in AllSlots => x # NoSlot
BY NullsAssumption DEF AllSlots

LEMMA InitInv == Init => IInv
<1> SUFFICES ASSUME Init PROVE IInv
  OBVIOUS
<1>0. S = [l \in Layers |-> StartS] /\ op = IdleOp /\ StartS \in 0 .. NumRows /\ raised = "none"
  BY SizesAssumption DEF Init
<1>1. TypeOK
  <2>1. mapped \in [Kinds -> [Layers -> Nat]]
    BY ChunksEnough, SizesAssumption DEF Init
  <2>2. arena \in [Kinds -> [Rows -> Rows \cup {Junk}]]
    BY DEF Init
  <2>3. host \in [Kinds -> [AllSlots -> Rows \cup {Junk}]]
    BY DEF Init
  <2>4. home \in [Kinds -> [Rows -> AllSlots \cup {NoSlot}]]
    <3>1. \A k \in Kinds : home[k] \in [Rows -> AllSlots \cup {NoSlot}]
      BY InitHomes, NoSlotNotASlot
    <3>2. home = [k \in Kinds |-> home[k]]
      BY DEF Init
    <3> QED BY <3>1, <3>2
  <2>5. tab \in [Kinds -> [Rows -> Addresses]]
    BY InitHomes, NoSlotNotASlot DEF Init, Addresses
  <2>6. pool \in [Kinds -> SUBSET AllSlots]
    BY NoSlotNotASlot DEF Init
  <2>7. op \in Ops
    BY <1>0, SizesAssumption DEF IdleOp, Ops, Kinds
  <2>8. free \in Nat /\ regrow \in BOOLEAN
    <3>1. free \in 0 .. Vram /\ regrow = FALSE
      BY DEF Init
    <3>2. free \in Nat
      BY <3>1, SizesAssumption
    <3>3. regrow \in BOOLEAN
      BY <3>1
    <3> QED BY <3>2, <3>3
  <2>9. S \in [Layers -> 0 .. NumRows]
    BY <1>0
  <2>10. others \in OtherProcesses
    BY DEF Init
  <2> QED BY <1>0, <2>1, <2>2, <2>3, <2>4, <2>5, <2>6, <2>7, <2>8, <2>9, <2>10 DEF TypeOK
<1>2. OpInv
  BY <1>0, PlacementAssumption DEF IdleOp, OpInv
<1>3. MappedInv
  <2>1. \A k \in Kinds, l \in Layers :
          mapped[k][l] = ChunksForRows(k, StartS) /\ HeldRows(k, l) = StartS
    BY <1>0 DEF Init, HeldRows, IdleOp
  <2>2. \A k \in Kinds : ChunksForRows(k, StartS) \in Nat
    BY <1>0, ChunksEnough
  <2> QED BY <2>1, <2>2 DEF MappedInv
<1>4. RowsInv
  <2> SUFFICES ASSUME NEW k \in Kinds, NEW row \in Rows
               PROVE  LET slot == home[k][row]
                      IN  IF slot = NoSlot
                          THEN tab[k][row] = <<"gpu", row>> /\ arena[k][row] = row
                          ELSE tab[k][row] = <<"host", slot>> /\ host[k][slot] = row
    BY DEF RowsInv
  <2>1. CASE row[2] < StartS
    BY <2>1, InitHomes DEF Init
  <2>2. CASE ~(row[2] < StartS)
    <3>1. home[k][row] \in Slots(k) /\ home[k][row] # NoSlot /\ home[k][row] \in AllSlots
      BY <2>2, InitHomes, NoSlotNotASlot
    <3>2. tab[k][row] = <<"host", home[k][row]>>
      BY <2>2 DEF Init
    <3>3. \A b \in Rows : home[k][b] = home[k][row] => b = row
      BY <2>2, <3>1, InitHomes
    <3>4. host[k][home[k][row]] = row
      BY <3>1, <3>3 DEF Init
    <3> QED BY <3>1, <3>2, <3>4
  <2> QED BY <2>1, <2>2
<1>5. SlotPartition
  <2> SUFFICES ASSUME NEW k \in Kinds
               PROVE  /\ pool[k] \cup {home[k][row] : row \in {x \in Rows : home[k][x] # NoSlot}}
                           = Slots(k)
                      /\ \A a, b \in Rows :
                           home[k][a] = home[k][b] /\ a # b => home[k][a] = NoSlot
                      /\ \A row \in Rows : /\ home[k][row] \notin pool[k]
                                           /\ home[k][row] = NoSlot <=> row[2] < Resident(row[1])
    BY DEF SlotPartition
  <2>1. pool[k] = Slots(k) \ {home[k][row] : row \in Rows}
    BY DEF Init
  <2>2. \A row \in Rows : home[k][row] = NoSlot <=> row[2] < StartS
    BY InitHomes, NoSlotNotASlot
  <2>3. \A row \in Rows : Resident(row[1]) = StartS
    BY <1>0 DEF Resident, IdleOp, Rows
  <2>4. \A row \in Rows : home[k][row] # NoSlot => home[k][row] \in Slots(k)
    BY InitHomes
  <2>5. \A a, b \in Rows : home[k][a] = home[k][b] /\ a # b => home[k][a] = NoSlot
    BY InitHomes
  <2> QED BY <2>1, <2>2, <2>3, <2>4, <2>5, NoSlotNotASlot
<1> QED BY <1>1, <1>2, <1>3, <1>4, <1>5 DEF IInv

-----------------------------------------------------------------------------
(* Steps that only move the command's position.                            *)

LEMMA QuietStep ==
  ASSUME IInv, UNCHANGED <<S, mapped, memory>>, op' \in Ops,
         op.pc \in {"idle", "head", "layer"},
         op'.pc \in {"idle", "head", "layer", "ensure", "take"},
         op'.pc = "ensure" => op'.kind = 1
  PROVE  MappedInv' /\ RowsInv' /\ SlotPartition'
<1> USE DEF memory
<1>1. RowsInv'
  BY DEF IInv, RowsInv
<1>2. \A l \in Layers : Resident(l)' = Resident(l)
  BY DEF Resident
<1>3. SlotPartition'
  BY <1>2 DEF IInv, SlotPartition, Rows
<1>4. \A k \in Kinds, l \in Layers : HeldRows(k, l) = S[l] /\ HeldRows(k, l)' = S[l]
  BY DEF HeldRows, Kinds
<1>5. MappedInv'
  BY <1>4 DEF IInv, MappedInv, ChunksForRows
<1> QED BY <1>1, <1>3, <1>5

LEMMA FinishStep ==
  ASSUME TypeOK, NEW e \in {"none", "ArenaOOM", "exhausted"}, Finish(e)
  PROVE  /\ op' = IdleOp /\ op' \in Ops
         /\ raised' = e /\ raised' \in {"none", "ArenaOOM", "exhausted"}
         /\ regrow' \in BOOLEAN
<1>1. op' = IdleOp /\ raised' = e
  BY DEF Finish
<1>2. IdleOp \in Ops
  BY SizesAssumption DEF IdleOp, Ops, Kinds
<1>3. regrow' \in BOOLEAN
  BY DEF Finish
<1> QED BY <1>1, <1>2, <1>3

(* A command that starts leaves everything but op and raised alone. *)
LEMMA StartStep ==
  ASSUME IInv, NEW cmd \in {"S", "fill", "free"}, NEW pc \in {"head", "layer"},
         NEW arg \in Nat, NEW goal \in 0 .. NumRows,
         Start(cmd, pc, arg, goal), regrow' \in BOOLEAN,
         pc = "head" => cmd \in {"fill", "free"},
         (cmd = "S" \/ (cmd = "free" /\ pc # "head")) => HostFits(goal),
         UNCHANGED others
  PROVE  IInv'
<1>0. TypeOK /\ OpInv
  BY DEF IInv
<1>1. /\ op.pc = "idle" /\ op' = [op EXCEPT !.cmd = cmd, !.pc = pc, !.arg = arg, !.goal = goal]
      /\ raised' = "none" /\ UNCHANGED <<S, mapped, free, memory>>
  BY <1>0 DEF Start, Idle, OpInv
<1>2. /\ op' \in Ops /\ op'.cmd = cmd /\ op'.pc = pc /\ op'.goal = goal
  BY <1>0, <1>1 DEF TypeOK, Ops
<1>3. TypeOK'
  BY <1>0, <1>1, <1>2 DEF TypeOK, memory
<1>4. OpInv'
  BY <1>0, <1>1, <1>2 DEF OpInv
<1>5. MappedInv' /\ RowsInv' /\ SlotPartition'
  BY <1>1, <1>2, QuietStep
<1> QED BY <1>3, <1>4, <1>5 DEF IInv

LEMMA CommandInv == IInv /\ Command /\ UNCHANGED others => IInv'
<1> SUFFICES ASSUME IInv, Command, UNCHANGED others PROVE IInv'
  OBVIOUS
<1>0. TypeOK /\ OpInv /\ SlotPartition
  BY DEF IInv
<1>1. ASSUME NEW n \in SizeArgs, SetS(n) PROVE IInv'
  <2> DEFINE goal == Max({s_floor, Min({n, NumRows})})
  <2>1. n \in Nat /\ NumRows \in Nat
    BY SizesAssumption
  <2>2. op.pc # "release"
    BY <1>0, <1>1 DEF SetS, Start, Idle, OpInv
  <2>3. s_floor \in 0 .. NumRows /\ HostFits(s_floor)
    BY <1>0, <2>2, FloorIsHostFloor
  <2>4. Min({n, NumRows}) \in 0 .. NumRows
    BY <2>1, MinPair
  <2>5. goal \in 0 .. NumRows /\ s_floor <= goal
    BY <2>1, <2>3, <2>4, MaxPair
  <2>6. HostFits(goal)
    BY <2>3, <2>5, HostFitsMonotone
  <2>7. Start("S", "layer", n, goal) /\ regrow' \in BOOLEAN
    BY <1>0, <1>1 DEF SetS, TypeOK
  <2> HIDE DEF goal
  <2> QED BY <2>1, <2>5, <2>6, <2>7, StartStep
<1>2. ASSUME NEW r \in FillArgs, Fill(r) PROVE IInv'
  <2>1. r \in Nat /\ 0 \in 0 .. NumRows
    BY SizesAssumption
  <2>2. Start("fill", "head", r, 0) /\ regrow' \in BOOLEAN
    BY <1>0, <1>2 DEF Fill, TypeOK
  <2> QED BY <2>1, <2>2, StartStep
<1>3. ASSUME NEW w \in FreeArgs, Free(w) PROVE IInv'
  <2>1. w \in Nat /\ 0 \in 0 .. NumRows
    BY SizesAssumption
  <2>2. Start("free", "head", w, 0) /\ regrow' \in BOOLEAN
    BY <1>0, <1>3 DEF Free, TypeOK
  <2> QED BY <2>1, <2>2, StartStep
<1>4. ASSUME Regrow PROVE IInv'
  <2>1. RegrowReserve \in Nat /\ 0 \in 0 .. NumRows
    BY SizesAssumption
  <2>2. Start("fill", "head", RegrowReserve, 0) /\ regrow' \in BOOLEAN
    BY <1>0, <1>4 DEF Regrow, TypeOK
  <2> QED BY <2>1, <2>2, StartStep
<1> QED BY <1>1, <1>2, <1>3, <1>4 DEF Command

-----------------------------------------------------------------------------
(* The steps of a running command preserve the invariant.                  *)

(* A command that ends between two resizes. *)
LEMMA FinishQuietly ==
  ASSUME IInv, NEW e \in {"none"}, Finish(e), op.pc \in {"head", "layer"},
         UNCHANGED <<S, mapped, free, memory, others>>
  PROVE  IInv'
<1>0. TypeOK /\ OpInv
  BY DEF IInv
<1>1. /\ op' = IdleOp /\ op' \in Ops /\ raised' = "none" /\ regrow' \in BOOLEAN
  BY <1>0, FinishStep
<1>2. TypeOK'
  BY <1>0, <1>1 DEF TypeOK, memory
<1>3. OpInv'
  BY <1>0, <1>1 DEF OpInv, IdleOp
<1>4. MappedInv' /\ RowsInv' /\ SlotPartition'
  BY <1>1, QuietStep DEF IdleOp
<1> QED BY <1>2, <1>3, <1>4 DEF IInv

LEMMA FillHeadInv == IInv /\ FillHead /\ UNCHANGED others => IInv'
<1> SUFFICES ASSUME IInv, FillHead, UNCHANGED others PROVE IInv'
  OBVIOUS
<1>0. TypeOK /\ OpInv /\ op.cmd = "fill" /\ op.pc = "head"
      /\ UNCHANGED <<S, mapped, free, memory>>
  BY DEF IInv, FillHead
<1>1. CASE Finish("none")
  BY <1>0, <1>1, FinishQuietly
<1>2. CASE op' = [op EXCEPT !.pc = "layer", !.lid = 0] /\ UNCHANGED <<raised, regrow>>
  <2>0. op \in Ops /\ 0 \in 0 .. NumLayers
    BY <1>0, SizesAssumption DEF TypeOK
  <2>1. /\ op' \in Ops /\ op'.pc = "layer" /\ op'.cmd = "fill"
    BY <1>0, <1>2, <2>0 DEF Ops
  <2>2. TypeOK'
    BY <1>0, <1>2, <2>1 DEF TypeOK, memory
  <2>3. OpInv'
    BY <1>0, <1>2, <2>1 DEF OpInv
  <2>4. MappedInv' /\ RowsInv' /\ SlotPartition'
    BY <1>0, <2>1, QuietStep
  <2> QED BY <2>2, <2>3, <2>4 DEF IInv
<1> QED BY <1>1, <1>2 DEF FillHead

LEMMA FreeHeadInv == IInv /\ FreeHead /\ UNCHANGED others => IInv'
<1> SUFFICES ASSUME IInv, FreeHead, UNCHANGED others PROVE IInv'
  OBVIOUS
<1>0. /\ TypeOK /\ OpInv /\ SlotPartition /\ op.cmd = "free" /\ op.pc = "head"
      /\ UNCHANGED <<S, mapped, free, memory>>
  BY DEF IInv, FreeHead
<1>1. PICK top \in Layers :
        \/ Finish("none")
        \/ /\ Max({s_floor, S[top] - StepRows}) < S[top]
           /\ op' = [op EXCEPT !.pc = "layer", !.lid = 0,
                               !.goal = Max({s_floor, S[top] - StepRows})]
           /\ UNCHANGED <<raised, regrow>>
  <2>1. PICK top \in Layers :
          IF free >= op.arg \/ Max({s_floor, S[top] - StepRows}) >= S[top]
          THEN Finish("none")
          ELSE /\ op' = [op EXCEPT !.pc = "layer", !.lid = 0,
                               !.goal = Max({s_floor, S[top] - StepRows})]
               /\ UNCHANGED <<raised, regrow>>
    BY DEF FreeHead, FreeIsDone
  <2>2. s_floor \in 0 .. NumRows /\ S[top] \in 0 .. NumRows /\ StepRows \in Int
    BY <1>0, FloorIsHostFloor, SizesAssumption DEF TypeOK
  <2>3. Max({s_floor, S[top] - StepRows}) \in Int
    BY <2>2, MaxPair
  <2> DEFINE target == Max({s_floor, S[top] - StepRows})
  <2> HIDE DEF target
  <2>4. target >= S[top] \/ target < S[top]
    BY <2>2, <2>3 DEF target
  <2> QED BY <2>1, <2>4 DEF target
<1>2. CASE Finish("none")
  BY <1>0, <1>2, FinishQuietly
<1>3. CASE ~Finish("none")
  <2> DEFINE target == Max({s_floor, S[top] - StepRows})
  <2>1. /\ s_floor \in 0 .. NumRows /\ HostFits(s_floor) /\ S[top] \in 0 .. NumRows
        /\ StepRows \in Int /\ NumRows \in Int
    BY <1>0, FloorIsHostFloor, SizesAssumption DEF TypeOK
  <2>2. target \in 0 .. NumRows /\ s_floor <= target
    <3>1. target < S[top]
      BY <1>1, <1>3
    <3>2. s_floor \in Int /\ S[top] - StepRows \in Int
      BY <2>1
    <3>3. target = IF s_floor >= S[top] - StepRows THEN s_floor ELSE S[top] - StepRows
      BY <3>2, MaxPair
    <3> HIDE DEF target
    <3> QED BY <2>1, <3>1, <3>3
  <2>3. HostFits(target)
    BY <2>1, <2>2, HostFitsMonotone
  <2>4. op' = [op EXCEPT !.pc = "layer", !.lid = 0, !.goal = target]
        /\ UNCHANGED <<raised, regrow>>
    BY <1>1, <1>3
  <2> HIDE DEF target
  <2>9. op \in Ops /\ 0 \in 0 .. NumLayers
    BY <1>0, SizesAssumption DEF TypeOK
  <2>5. /\ op' \in Ops /\ op'.pc = "layer" /\ op'.cmd = "free" /\ op'.goal = target
    BY <1>0, <2>2, <2>4, <2>9 DEF Ops
  <2>6. TypeOK'
    BY <1>0, <2>4, <2>5 DEF TypeOK, memory
  <2>7. OpInv'
    BY <1>0, <2>3, <2>4, <2>5 DEF OpInv
  <2>8. MappedInv' /\ RowsInv' /\ SlotPartition'
    BY <1>0, <2>5, QuietStep
  <2> QED BY <2>6, <2>7, <2>8 DEF IInv
<1> QED BY <1>2, <1>3

LEMMA LayersDoneInv == IInv /\ LayersDone /\ UNCHANGED others => IInv'
<1> SUFFICES ASSUME IInv, LayersDone, UNCHANGED others PROVE IInv'
  OBVIOUS
<1>0. TypeOK /\ OpInv /\ op.pc = "layer" /\ UNCHANGED <<S, mapped, free, memory>>
  BY DEF IInv, LayersDone
<1>1. CASE Finish("none")
  BY <1>0, <1>1, FinishQuietly
<1>2. CASE op.cmd # "S" /\ op' = [op EXCEPT !.pc = "head"] /\ UNCHANGED <<raised, regrow>>
  <2>1. /\ op' \in Ops /\ op'.pc = "head" /\ op'.cmd = op.cmd /\ op.cmd # "idle"
        /\ op.cmd \in {"idle", "S", "fill", "free"}
    BY <1>0, <1>2 DEF TypeOK, Ops, OpInv
  <2>2. TypeOK'
    BY <1>0, <1>2, <2>1 DEF TypeOK, memory
  <2>3. OpInv'
    BY <1>0, <1>2, <2>1 DEF OpInv
  <2>4. MappedInv' /\ RowsInv' /\ SlotPartition'
    BY <1>0, <2>1, QuietStep
  <2> QED BY <2>2, <2>3, <2>4 DEF IInv
<1> QED BY <1>1, <1>2 DEF LayersDone

(* Where resize_layer is asked to go: no layer grows for a free, and no    *)
(* layer shrinks below what the host can absorb.                           *)
LEMMA TargetFits ==
  ASSUME TypeOK, OpInv, AtLayer
  PROVE  /\ op.lid \in Layers /\ Target(op.lid) \in 0 .. NumRows
         /\ HostFits(Target(op.lid))
         /\ Target(op.lid) > S[op.lid] => op.cmd # "free"
<1>0. /\ op.pc = "layer" /\ op.lid \in 0 .. NumLayers /\ op.lid < NumLayers
      /\ op.cmd \in {"S", "fill", "free"} /\ op.goal \in 0 .. NumRows
      /\ NumLayers \in Nat /\ NumRows \in Nat /\ StepRows \in Nat
  BY SizesAssumption DEF AtLayer, TypeOK, Ops, OpInv
<1>1. op.lid \in Layers
  BY <1>0 DEF Layers
<1>2. S[op.lid] \in 0 .. NumRows /\ HostFits(S[op.lid])
  BY <1>1 DEF TypeOK, OpInv
<1>3. CASE op.cmd = "S"
  <2>1. Target(op.lid) = op.goal
    BY <1>3 DEF Target
  <2> QED BY <1>0, <1>1, <1>3, <2>1 DEF OpInv
<1>4. CASE op.cmd = "fill"
  <2>1. Target(op.lid) = Min({NumRows, S[op.lid] + StepRows})
    BY <1>4 DEF Target
  <2>2. Target(op.lid) \in 0 .. NumRows /\ S[op.lid] <= Target(op.lid)
    BY <1>0, <1>2, <2>1, MinPair
  <2>3. HostFits(Target(op.lid))
    BY <1>2, <2>2, HostFitsMonotone
  <2> QED BY <1>1, <1>4, <2>2, <2>3
<1>5. CASE op.cmd = "free"
  <2>1. Target(op.lid) = Min({S[op.lid], op.goal})
    BY <1>5 DEF Target
  <2>2. /\ Target(op.lid) \in {S[op.lid], op.goal}
        /\ ~(Target(op.lid) > S[op.lid])
    BY <1>0, <1>2, <2>1, MinPair
  <2>3. HostFits(op.goal)
    BY <1>0, <1>5 DEF OpInv
  <2> QED BY <1>0, <1>1, <1>2, <2>2, <2>3
<1> QED BY <1>0, <1>3, <1>4, <1>5

LEMMA StartResizeInv == IInv /\ StartResize /\ UNCHANGED others => IInv'
<1> SUFFICES ASSUME IInv, StartResize, UNCHANGED others PROVE IInv'
  OBVIOUS
<1> DEFINE to == Target(op.lid)
<1>0. /\ TypeOK /\ OpInv /\ op.pc = "layer" /\ op.lid < NumLayers
      /\ UNCHANGED <<S, mapped, free, memory, raised, regrow>>
  BY DEF IInv, StartResize, AtLayer
<1>1. /\ op.lid \in Layers /\ to \in 0 .. NumRows /\ HostFits(to)
      /\ to > S[op.lid] => op.cmd # "free"
  BY <1>0, TargetFits DEF StartResize
<1>2. S[op.lid] \in 0 .. NumRows
  BY <1>0, <1>1 DEF TypeOK
<1>3. op' = CASE to = S[op.lid] -> [op EXCEPT !.lid = @ + 1]
              [] to > S[op.lid] -> [op EXCEPT !.pc = "ensure", !.to = to, !.kind = 1]
              [] to < S[op.lid] -> [op EXCEPT !.pc = "take", !.to = to, !.kind = 1]
  BY DEF StartResize
<1> HIDE DEF to
<1>4. TypeOK' /\ OpInv' /\ MappedInv' /\ RowsInv' /\ SlotPartition'
  <2>0. op \in Ops /\ op.lid \in 0 .. NumLayers /\ NumLayers \in Nat /\ 1 \in Kinds
    BY <1>0, SizesAssumption DEF TypeOK, Ops, Kinds
  <2>1. CASE to = S[op.lid]
    <3>1. op' = [op EXCEPT !.lid = @ + 1]
      BY <1>1, <1>2, <1>3, <2>1
    <3>2. op' \in Ops /\ op'.pc = "layer" /\ op'.cmd = op.cmd /\ op'.goal = op.goal
      BY <1>0, <2>0, <3>1 DEF Ops
    <3>3. TypeOK'
      BY <1>0, <3>2 DEF TypeOK, memory
    <3>4. OpInv'
      BY <1>0, <3>2 DEF OpInv
    <3> QED BY <1>0, <3>2, <3>3, <3>4, QuietStep
  <2>2. CASE to > S[op.lid]
    <3>1. op' = [op EXCEPT !.pc = "ensure", !.to = to, !.kind = 1]
      BY <1>1, <1>2, <1>3, <2>2
    <3>2. /\ op' \in Ops /\ op'.pc = "ensure" /\ op'.cmd = op.cmd /\ op'.goal = op.goal
          /\ op'.lid = op.lid /\ op'.to = to /\ op'.kind = 1
      BY <1>0, <1>1, <2>0, <3>1 DEF Ops
    <3>3. TypeOK'
      BY <1>0, <3>2 DEF TypeOK, memory
    <3>4. S[op.lid] < to /\ op.cmd # "free"
      BY <1>1, <1>2, <2>2
    <3>5. OpInv'
      BY <1>0, <3>2, <3>4 DEF OpInv
    <3> QED BY <1>0, <3>2, <3>3, <3>5, QuietStep
  <2>3. CASE to < S[op.lid]
    <3>1. op' = [op EXCEPT !.pc = "take", !.to = to, !.kind = 1]
      BY <1>1, <1>2, <1>3, <2>3
    <3>2. /\ op' \in Ops /\ op'.pc = "take" /\ op'.cmd = op.cmd /\ op'.goal = op.goal
          /\ op'.lid = op.lid /\ op'.to = to
      BY <1>0, <1>1, <2>0, <3>1 DEF Ops
    <3>3. TypeOK'
      BY <1>0, <3>2 DEF TypeOK, memory
    <3>4. OpInv'
      BY <1>0, <1>1, <2>3, <3>2 DEF OpInv
    <3> QED BY <1>0, <3>2, <3>3, <3>4, QuietStep
  <2> QED BY <1>1, <1>2, <2>1, <2>2, <2>3
<1> QED BY <1>4 DEF IInv

LEMMA DriverMemoryInv == IInv /\ DriverMemory /\ UNCHANGED others => IInv'
<1> SUFFICES ASSUME IInv, DriverMemory, UNCHANGED others PROVE IInv'
  OBVIOUS
<1>1. PICK f \in 0 .. Vram : free' = f
  BY DEF DriverMemory
<1>2. free' \in Nat
  BY <1>1, SizesAssumption
<1>3. UNCHANGED <<S, mapped, memory, regrow, raised, op>>
  BY DEF DriverMemory
<1>4. TypeOK'
  BY <1>2, <1>3 DEF IInv, TypeOK, memory
<1>5. OpInv'
  BY <1>3 DEF IInv, OpInv
<1>6. MappedInv'
  BY <1>3 DEF IInv, MappedInv, HeldRows, ChunksForRows
<1>7. RowsInv' /\ SlotPartition'
  BY <1>3 DEF IInv, RowsInv, SlotPartition, Resident, memory
<1> QED BY <1>4, <1>5, <1>6, <1>7 DEF IInv

(* Where a command is while it resizes a layer. *)
LEMMA OpPlace ==
  ASSUME TypeOK, OpInv, op.pc \in {"ensure", "rollback", "gather", "take", "release"}
  PROVE  /\ op \in Ops /\ op.kind \in Kinds /\ op.lid \in Layers /\ op.to \in 0 .. NumRows
         /\ S[op.lid] \in 0 .. NumRows /\ HostFits(S[op.lid])
         /\ op.kind \in Int /\ NumKinds \in Nat /\ 1 \in Kinds /\ NumRows \in Nat
<1>1. op \in Ops /\ S \in [Layers -> 0 .. NumRows] /\ op.lid < NumLayers
  BY DEF TypeOK, OpInv
<1>2. op.kind \in Kinds /\ op.lid \in 0 .. NumLayers /\ op.to \in 0 .. NumRows
  BY <1>1 DEF Ops
<1>3. op.lid \in Layers
  BY <1>1, <1>2, SizesAssumption DEF Layers
<1>4. op.kind \in Int /\ NumKinds \in Nat /\ 1 \in Kinds /\ NumRows \in Nat
  BY <1>2, SizesAssumption DEF Kinds
<1>5. HostFits(S[op.lid])
  BY <1>3 DEF OpInv
<1> QED BY <1>1, <1>2, <1>3, <1>4, <1>5

(* The rows and slots do not change their place in this step. *)
LEMMA SamePlaces ==
  ASSUME IInv, UNCHANGED <<tab, home, pool, host>>,
         \A l \in Layers : Resident(l)' = Resident(l),
         \A k \in Kinds, row \in Rows : home[k][row] = NoSlot => arena'[k][row] = row
  PROVE  RowsInv' /\ SlotPartition'
<1>1. RowsInv'
  BY DEF IInv, RowsInv
<1>2. SlotPartition'
  BY DEF IInv, SlotPartition, Rows
<1> QED BY <1>1, <1>2

LEMMA NextKindStep ==
  ASSUME TypeOK, NEW pc \in {"gather", "rollback", "release"}, op' = NextKind(pc)
  PROVE  /\ op' \in Ops /\ op'.cmd = op.cmd /\ op'.goal = op.goal
         /\ op'.lid = op.lid /\ op'.to = op.to
         /\ \/ /\ op.kind < NumKinds /\ op'.kind = op.kind + 1 /\ op'.pc = op.pc
            \/ /\ op.kind = NumKinds /\ op'.kind = 1 /\ op'.pc = pc
<1>1. op \in Ops /\ op.kind \in 1 .. NumKinds /\ NumKinds \in Nat \ {0}
  BY SizesAssumption DEF TypeOK, Ops, Kinds
<1>2. CASE op.kind < NumKinds
  <2>1. op' = [op EXCEPT !.kind = op.kind + 1] /\ op.kind + 1 \in Kinds
    BY <1>1, <1>2 DEF NextKind, Kinds
  <2> QED BY <1>1, <1>2, <2>1 DEF Ops
<1>3. CASE ~(op.kind < NumKinds)
  <2>1. op' = [op EXCEPT !.kind = 1, !.pc = pc] /\ 1 \in Kinds /\ op.kind = NumKinds
    BY <1>1, <1>3 DEF NextKind, Kinds
  <2> QED BY <1>1, <2>1 DEF Ops
<1> QED BY <1>2, <1>3

LEMMA UnmapStep ==
  ASSUME TypeOK, NEW k \in Kinds, NEW l \in Layers, NEW c \in Nat, c <= mapped[k][l],
         Unmap(k, l, c)
  PROVE  /\ mapped' = [mapped EXCEPT ![k][l] = c]
         /\ mapped' \in [Kinds -> [Layers -> Nat]]
         /\ arena' \in [Kinds -> [Rows -> Rows \cup {Junk}]]
         /\ free' \in Nat
         /\ \A j \in Kinds, row \in Rows :
              (j = k /\ row[1] = l => Backed(k, c, row[2])) => arena'[j][row] = arena[j][row]
<1>1. mapped' = [mapped EXCEPT ![k][l] = c] /\ mapped' \in [Kinds -> [Layers -> Nat]]
  BY DEF Unmap, TypeOK
<1>2. arena' = [arena EXCEPT ![k] =
        [row \in Rows |-> IF row[1] = l /\ ~Backed(k, c, row[2])
                          THEN Junk ELSE arena[k][row]]]
  BY DEF Unmap
<1>3. arena' \in [Kinds -> [Rows -> Rows \cup {Junk}]]
  BY <1>2 DEF TypeOK
<1>4. \A j \in Kinds, row \in Rows :
        (j = k /\ row[1] = l => Backed(k, c, row[2])) => arena'[j][row] = arena[j][row]
  BY <1>2 DEF TypeOK
<1>5. free' \in Nat
  BY DEF Unmap, TypeOK
<1> QED BY <1>1, <1>3, <1>4, <1>5

LEMMA EnsureInv == IInv /\ Ensure /\ UNCHANGED others => IInv'
<1> SUFFICES ASSUME IInv, Ensure, UNCHANGED others PROVE IInv'
  OBVIOUS
<1> DEFINE k == op.kind
           l == op.lid
           need == BytesToReach(k, l, op.to)
           got == Min({need, free})
<1>0. TypeOK /\ OpInv /\ MappedInv /\ op.pc = "ensure"
      /\ UNCHANGED <<S, memory, raised, regrow>>
  BY DEF IInv, Ensure
<1>1. /\ op \in Ops /\ k \in Kinds /\ l \in Layers /\ op.to \in 0 .. NumRows
      /\ S[l] \in 0 .. NumRows /\ S[l] < op.to /\ op.cmd # "free" /\ op.kind \in Int
      /\ NumKinds \in Nat /\ 1 \in Kinds
  <2>1. S[l] < op.to /\ op.cmd # "free"
    BY <1>0 DEF OpInv
  <2> QED BY <1>0, <2>1, OpPlace
<1>2. /\ mapped' = [mapped EXCEPT ![k][l] = @ + got] /\ free' = free - got
      /\ op' = IF got = need THEN NextKind("gather")
               ELSE [op EXCEPT !.pc = "rollback", !.kind = 1]
  BY DEF Ensure, Granted
<1>3. mapped[k][l] = ChunksForRows(k, S[l])
  BY <1>0, <1>1 DEF MappedInv, HeldRows
<1>4. /\ ChunksForRows(k, S[l]) \in Nat /\ ChunksForRows(k, op.to) \in Nat
      /\ ChunksForRows(k, S[l]) <= ChunksForRows(k, op.to)
  BY <1>1, ChunksEnough, ChunksMonotone
<1>5. need = ChunksForRows(k, op.to) - mapped[k][l] /\ need \in Nat
  <2>1. ChunksForRows(k, op.to) - mapped[k][l] \in Nat
    BY <1>3, <1>4
  <2> QED BY <2>1, MaxPair DEF BytesToReach
<1> HIDE DEF need
<1>6. free \in Nat
  BY <1>0 DEF TypeOK
<1>7. got \in Nat /\ got <= need /\ got <= free
  <2>1. got = IF need <= free THEN need ELSE free
    BY <1>5, <1>6, MinPair
  <2> HIDE DEF got
  <2> QED BY <1>5, <1>6, <2>1
<1> HIDE DEF got
<1>8. /\ mapped' \in [Kinds -> [Layers -> Nat]] /\ free' \in Nat
      /\ mapped'[k][l] = mapped[k][l] + got
      /\ \A j \in Kinds, m \in Layers : (j # k \/ m # l) => mapped'[j][m] = mapped[j][m]
  BY <1>0, <1>1, <1>2, <1>6, <1>7 DEF TypeOK
<1> HIDE DEF k, l
<1>9. op' \in Ops /\ op'.cmd = op.cmd /\ op'.goal = op.goal /\ op'.lid = op.lid
      /\ op'.to = op.to /\ op'.pc \in {"ensure", "gather", "rollback"}
  <2>1. CASE got = need
    <3>1. op' = NextKind("gather")
      BY <1>2, <2>1
    <3> QED BY <1>0, <3>1, NextKindStep
  <2>2. CASE got # need
    BY <1>1, <1>2, <2>2 DEF Ops
  <2> QED BY <2>1, <2>2
<1>10. TypeOK'
  BY <1>0, <1>8, <1>9 DEF TypeOK, memory
<1>11. OpInv'
  BY <1>0, <1>1, <1>9 DEF OpInv, l
<1>12. MappedInv'
  <2>1. CASE got = need
    <3>1. op' = NextKind("gather")
      BY <1>2, <2>1
    <3>2. \/ /\ op'.kind = k + 1 /\ op'.pc = "ensure"
          \/ /\ k = NumKinds /\ op'.pc = "gather"
      BY <1>0, <3>1, NextKindStep DEF k
    <3>3. mapped'[k][l] = ChunksForRows(k, op.to)
      BY <1>3, <1>4, <1>5, <1>8, <2>1
    <3> SUFFICES ASSUME NEW j \in Kinds, NEW m \in Layers
                 PROVE  mapped'[j][m] = ChunksForRows(j, HeldRows(j, m)')
                        /\ ChunksForRows(j, HeldRows(j, m)') \in Nat
      BY <1>8 DEF MappedInv, ChunksForRows
    <3>4. HeldRows(j, m)' = IF m = l /\ j <= k THEN op.to ELSE S[m]
      BY <1>0, <1>1, <1>9, <3>2 DEF HeldRows, k, l, Kinds
    <3>5. HeldRows(j, m) = IF m = l /\ j < k THEN op.to ELSE S[m]
      BY <1>0 DEF HeldRows, k, l
    <3>6. mapped[j][m] = ChunksForRows(j, HeldRows(j, m))
      BY <1>0 DEF MappedInv
    <3>7. S[m] \in 0 .. NumRows
      BY <1>0 DEF TypeOK
    <3>8. ChunksForRows(j, HeldRows(j, m)') \in Nat
      BY <1>1, <3>4, <3>7, ChunksEnough
    <3>9. CASE j = k /\ m = l
      BY <3>3, <3>4, <3>8, <3>9, <1>1 DEF Kinds
    <3>10. CASE j # k \/ m # l
      <4>1. HeldRows(j, m)' = HeldRows(j, m)
        BY <1>1, <3>4, <3>5, <3>10 DEF Kinds, k
      <4> QED BY <1>8, <3>6, <3>8, <3>10, <4>1
    <3> QED BY <3>9, <3>10
  <2>2. CASE got # need
    <3>1. op' = [op EXCEPT !.pc = "rollback", !.kind = 1]
      BY <1>2, <2>2
    <3>2. op'.pc = "rollback" /\ op'.kind = 1
      BY <1>1, <3>1 DEF Ops
    <3> SUFFICES ASSUME NEW j \in Kinds, NEW m \in Layers
                 PROVE  /\ mapped'[j][m] >= ChunksForRows(j, S[m])
                        /\ m # l => mapped'[j][m] = ChunksForRows(j, S[m])
      <4>1. \A j \in Kinds, m \in Layers : HeldRows(j, m)' = S[m] /\ j >= 1
        BY <1>0, <3>2 DEF HeldRows, Kinds
      <4> QED BY <1>9, <3>2, <4>1 DEF MappedInv, ChunksForRows, l
    <3>3. S[m] \in 0 .. NumRows
      BY <1>0 DEF TypeOK
    <3>4. /\ ChunksForRows(j, S[m]) \in Nat /\ ChunksForRows(j, op.to) \in Nat
          /\ m = l => ChunksForRows(j, S[m]) <= ChunksForRows(j, op.to)
      <4>1. S[m] \in Nat /\ op.to \in Nat /\ (m = l => S[m] <= op.to)
        BY <1>1, <3>3
      <4> QED BY <4>1, ChunksEnough, ChunksMonotone
    <3>5. HeldRows(j, m) = IF m = l /\ j < k THEN op.to ELSE S[m]
      BY <1>0 DEF HeldRows, k, l
    <3>6. mapped[j][m] = ChunksForRows(j, HeldRows(j, m))
      BY <1>0 DEF MappedInv
    <3>7. mapped'[j][m] \in Nat /\ mapped[j][m] \in Nat
          /\ mapped'[j][m] >= mapped[j][m] /\ (m # l => mapped'[j][m] = mapped[j][m])
      <4>1. mapped[j][m] \in Nat
        BY <1>0 DEF TypeOK
      <4> QED BY <1>7, <1>8, <4>1
    <3> QED BY <3>4, <3>5, <3>6, <3>7
  <2> QED BY <2>1, <2>2
<1>13. RowsInv' /\ SlotPartition'
  <2>1. \A m \in Layers : Resident(m)' = Resident(m)
    BY <1>0, <1>9 DEF Resident
  <2>2. UNCHANGED <<tab, home, pool, host, arena>>
    BY <1>0 DEF memory
  <2>3. \A j \in Kinds, row \in Rows : home[j][row] = NoSlot => arena'[j][row] = row
    BY <2>2 DEF IInv, RowsInv
  <2> QED BY <2>1, <2>2, <2>3, SamePlaces
<1> QED BY <1>10, <1>11, <1>12, <1>13 DEF IInv

LEMMA RollbackInv == IInv /\ Rollback /\ UNCHANGED others => IInv'
<1> SUFFICES ASSUME IInv, Rollback, UNCHANGED others PROVE IInv'
  OBVIOUS
<1> DEFINE k == op.kind
           l == op.lid
           c == ChunksForRows(k, S[l])
<1>0. TypeOK /\ OpInv /\ MappedInv /\ op.pc = "rollback"
      /\ UNCHANGED <<S, host, tab, home, pool>>
  BY DEF IInv, Rollback
<1>1. /\ op \in Ops /\ k \in Kinds /\ l \in Layers /\ op.kind \in Int /\ NumKinds \in Nat
      /\ S[l] \in 0 .. NumRows /\ S[l] < op.to /\ op.cmd # "free" /\ NumRows \in Nat
  <2>1. S[l] < op.to /\ op.cmd # "free"
    BY <1>0 DEF OpInv
  <2> QED BY <1>0, <2>1, OpPlace
<1>2. /\ Unmap(k, l, Min({mapped[k][l], c}))
      /\ \/ k = NumKinds /\ Finish("ArenaOOM")
         \/ k # NumKinds /\ op' = NextKind("rollback") /\ UNCHANGED <<raised, regrow>>
  BY DEF Rollback, ShrinkRows
<1>3. c \in Nat /\ c <= mapped[k][l] /\ mapped[k][l] \in Nat
  <2>1. HeldRows(k, l) = S[l]
    BY <1>0 DEF HeldRows
  <2> QED BY <1>0, <1>1, <2>1, ChunksEnough DEF MappedInv, TypeOK
<1> HIDE DEF c
<1>4. Min({mapped[k][l], c}) = c
  BY <1>3, MinPair
<1> HIDE DEF k, l
<1>5. /\ mapped' = [mapped EXCEPT ![k][l] = c]
      /\ mapped' \in [Kinds -> [Layers -> Nat]]
      /\ arena' \in [Kinds -> [Rows -> Rows \cup {Junk}]]
      /\ free' \in Nat
      /\ \A j \in Kinds, row \in Rows :
           (j = k /\ row[1] = l => Backed(k, c, row[2])) => arena'[j][row] = arena[j][row]
  BY <1>0, <1>1, <1>2, <1>3, <1>4, UnmapStep
<1>6. /\ op' \in Ops
      /\ \/ /\ op' = IdleOp /\ k = NumKinds
         \/ /\ op'.pc = "rollback" /\ op'.cmd = op.cmd /\ op'.goal = op.goal
            /\ op'.lid = op.lid /\ op'.to = op.to /\ op'.kind = k + 1
  <2>1. CASE k = NumKinds /\ Finish("ArenaOOM")
    BY <1>0, <2>1, FinishStep
  <2>2. CASE k # NumKinds /\ op' = NextKind("rollback")
    BY <1>0, <2>2, NextKindStep DEF k
  <2> QED BY <1>2, <2>1, <2>2
<1>7. raised' \in {"none", "ArenaOOM"} /\ regrow' \in BOOLEAN
  <2>1. CASE Finish("ArenaOOM")
    BY <1>0, <2>1, FinishStep
  <2>2. CASE UNCHANGED <<raised, regrow>>
    BY <1>0, <2>2 DEF TypeOK, OpInv
  <2> QED BY <1>2, <2>1, <2>2
<1>8. TypeOK'
  BY <1>0, <1>5, <1>6, <1>7 DEF TypeOK
<1>9. OpInv'
  <2>1. CASE op' = IdleOp
    BY <1>0, <1>7, <2>1 DEF OpInv, IdleOp
  <2>2. CASE op'.pc = "rollback" /\ op'.cmd = op.cmd /\ op'.goal = op.goal
             /\ op'.lid = op.lid /\ op'.to = op.to
    BY <1>0, <1>7, <2>2 DEF OpInv
  <2> QED BY <1>6, <2>1, <2>2
<1>10. MappedInv'
  <2> SUFFICES ASSUME NEW j \in Kinds, NEW m \in Layers
               PROVE  /\ mapped'[j][m] >= ChunksForRows(j, S[m])
                      /\ ~(op'.pc = "rollback" /\ op'.lid = m /\ j >= op'.kind) =>
                           mapped'[j][m] = ChunksForRows(j, S[m])
    <3>1. \A j \in Kinds, m \in Layers : HeldRows(j, m)' = S[m]
      BY <1>0, <1>6 DEF HeldRows, IdleOp
    <3> QED BY <3>1 DEF MappedInv, ChunksForRows
  <2>1. HeldRows(j, m) = S[m] /\ ChunksForRows(j, S[m]) \in Nat
    BY <1>0, ChunksEnough DEF HeldRows, TypeOK
  <2>2. CASE j = k /\ m = l
    <3>1. mapped'[j][m] = c
      BY <1>0, <1>5, <2>2 DEF TypeOK
    <3> QED BY <2>1, <2>2, <3>1 DEF c
  <2>3. CASE j # k \/ m # l
    <3>1. mapped'[j][m] = mapped[j][m]
      BY <1>0, <1>5, <2>3 DEF TypeOK
    <3>2. ~(op'.pc = "rollback" /\ op'.lid = m /\ j >= op'.kind) =>
            ~(op.pc = "rollback" /\ op.lid = m /\ j >= op.kind)
      BY <1>0, <1>1, <1>6, <2>3 DEF k, l, Kinds, IdleOp
    <3>3. /\ mapped[j][m] >= ChunksForRows(j, S[m])
          /\ ~(op.pc = "rollback" /\ op.lid = m /\ j >= op.kind) =>
               mapped[j][m] = ChunksForRows(j, S[m])
      BY <1>0, <2>1 DEF MappedInv
    <3> QED BY <3>1, <3>2, <3>3
  <2> QED BY <2>2, <2>3
<1>11. RowsInv' /\ SlotPartition'
  <2>1. \A m \in Layers : Resident(m)' = Resident(m) /\ Resident(m) = S[m]
    BY <1>0, <1>6 DEF Resident, IdleOp
  <2>2. ASSUME NEW j \in Kinds, NEW row \in Rows, home[j][row] = NoSlot
        PROVE  arena'[j][row] = row
    <3>1. row[1] \in Layers /\ row[2] \in Nat
      BY <1>1 DEF Rows, Ranks
    <3>2. arena[j][row] = row /\ row[2] < S[row[1]]
      BY <2>1, <2>2, <3>1 DEF IInv, RowsInv, SlotPartition
    <3>3. row[1] = l /\ j = k => Backed(k, c, row[2])
      <4>1. row[1] = l /\ j = k => row[2] < S[l] /\ S[l] \in Nat /\ c = ChunksForRows(k, S[l])
        BY <1>1, <3>2 DEF c
      <4> QED BY <1>1, <1>3, <3>1, <4>1, BackedBelow
    <3> QED BY <1>5, <3>2, <3>3
  <2> QED BY <1>0, <2>1, <2>2, SamePlaces
<1> QED BY <1>8, <1>9, <1>10, <1>11 DEF IInv

LEMMA GatherInv == IInv /\ Gather /\ UNCHANGED others => IInv'
<1> SUFFICES ASSUME IInv, Gather, UNCHANGED others PROVE IInv'
  OBVIOUS
<1> DEFINE l == op.lid
           moving == {l} \X (S[l] .. op.to - 1)
<1>0. TypeOK /\ OpInv /\ MappedInv /\ RowsInv /\ SlotPartition /\ op.pc = "gather"
      /\ UNCHANGED <<mapped, host, free, raised, regrow>>
  BY DEF IInv, Gather
<1>1. /\ op \in Ops /\ l \in Layers /\ op.to \in 0 .. NumRows /\ NumRows \in Nat
      /\ S[l] \in 0 .. NumRows /\ S[l] < op.to /\ op.cmd # "free" /\ op.cmd # "idle"
      /\ HostFits(S[l])
  <2>1. S[l] < op.to /\ op.cmd # "free" /\ op.cmd # "idle"
    BY <1>0 DEF OpInv
  <2> QED BY <1>0, <2>1, OpPlace
<1>2. /\ arena' = [k \in Kinds |-> [row \in Rows |->
                     IF row \in moving THEN Deref(k, tab[k][row]) ELSE arena[k][row]]]
      /\ tab' = [k \in Kinds |-> [row \in Rows |->
                     IF row \in moving THEN <<"gpu", row>> ELSE tab[k][row]]]
      /\ pool' = [k \in Kinds |-> pool[k] \cup {home[k][row] : row \in moving}]
      /\ home' = [k \in Kinds |-> [row \in Rows |->
                     IF row \in moving THEN NoSlot ELSE home[k][row]]]
      /\ S' = [S EXCEPT ![l] = op.to]
      /\ op' = [op EXCEPT !.pc = "layer", !.lid = @ + 1]
  BY DEF Gather, PoolWith
<1>3. \A row \in Rows : /\ row[1] \in Layers /\ row[2] \in Ranks /\ row[2] \in Nat
                        /\ S[row[1]] \in 0 .. NumRows
                        /\ row \in moving <=> row[1] = l /\ S[l] <= row[2] /\ row[2] < op.to
  <2>1. \A row \in Rows : row[1] \in Layers /\ row[2] \in Ranks /\ row[2] \in Nat
                          /\ row = <<row[1], row[2]>> /\ S[row[1]] \in 0 .. NumRows
    BY <1>0, <1>1 DEF Rows, Ranks, TypeOK
  <2> QED BY <1>1, <2>1
<1>4. moving \subseteq Rows
  BY <1>1 DEF Rows, Ranks
<1>5. \A row \in Rows : Resident(row[1]) = S[row[1]]
  BY <1>0 DEF Resident
<1> HIDE DEF moving
<1>6. ASSUME NEW k \in Kinds, NEW row \in moving
      PROVE  /\ home[k][row] \in Slots(k) /\ home[k][row] # NoSlot /\ home[k][row] \in AllSlots
             /\ Deref(k, tab[k][row]) = row
  <2>1. row \in Rows /\ ~(row[2] < S[row[1]])
    BY <1>1, <1>3, <1>4
  <2>2. home[k][row] # NoSlot
    BY <1>0, <1>5, <2>1 DEF SlotPartition
  <2>3. home[k][row] \in Slots(k)
    BY <1>0, <2>1, <2>2 DEF SlotPartition
  <2>4. tab[k][row] = <<"host", home[k][row]>> /\ host[k][home[k][row]] = row
    BY <1>0, <2>1, <2>2 DEF RowsInv
  <2> QED BY <2>2, <2>3, <2>4, NoSlotNotASlot DEF Deref
<1>7. /\ op' \in Ops /\ op'.pc = "layer" /\ op'.cmd = op.cmd /\ op'.goal = op.goal
  <2>1. op.lid + 1 \in 0 .. NumLayers
    BY <1>1, SizesAssumption DEF Layers
  <2> QED BY <1>1, <1>2, <2>1 DEF Ops
<1>8. S' \in [Layers -> 0 .. NumRows] /\ S'[l] = op.to
      /\ \A m \in Layers : m # l => S'[m] = S[m]
  BY <1>0, <1>1, <1>2 DEF TypeOK
<1>9. TypeOK'
  <2>1. arena' \in [Kinds -> [Rows -> Rows \cup {Junk}]]
    BY <1>0, <1>2, <1>4, <1>6 DEF TypeOK
  <2>2. tab' \in [Kinds -> [Rows -> Addresses]]
    BY <1>0, <1>2 DEF TypeOK, Addresses
  <2>3. pool' \in [Kinds -> SUBSET AllSlots]
    BY <1>0, <1>2, <1>6 DEF TypeOK
  <2>4. home' \in [Kinds -> [Rows -> AllSlots \cup {NoSlot}]]
    BY <1>0, <1>2 DEF TypeOK
  <2> QED BY <1>0, <1>7, <1>8, <2>1, <2>2, <2>3, <2>4 DEF TypeOK
<1>10. OpInv'
  <2>1. HostFits(op.to)
    BY <1>1, HostFitsMonotone
  <2>2. \A m \in Layers : HostFits(S'[m])
    BY <1>0, <1>8, <2>1 DEF OpInv
  <2> QED BY <1>0, <1>1, <1>7, <2>2 DEF OpInv, HostFits
<1>11. MappedInv'
  <2> SUFFICES ASSUME NEW j \in Kinds, NEW m \in Layers
               PROVE  mapped[j][m] = ChunksForRows(j, S'[m])
                      /\ ChunksForRows(j, S'[m]) \in Nat
    <3>1. \A j \in Kinds, m \in Layers : HeldRows(j, m)' = S'[m]
      BY <1>7 DEF HeldRows
    <3> QED BY <1>0, <1>7, <3>1 DEF MappedInv, ChunksForRows
  <2>1. HeldRows(j, m) = S'[m]
    BY <1>0, <1>8 DEF HeldRows
  <2>2. S'[m] \in Nat
    BY <1>1, <1>8
  <2> QED BY <1>0, <2>1, <2>2, ChunksEnough DEF MappedInv
<1>12. RowsInv'
  <2> SUFFICES ASSUME NEW k \in Kinds, NEW row \in Rows
               PROVE  IF home'[k][row] = NoSlot
                      THEN tab'[k][row] = <<"gpu", row>> /\ arena'[k][row] = row
                      ELSE /\ tab'[k][row] = <<"host", home'[k][row]>>
                           /\ host'[k][home'[k][row]] = row
    BY DEF RowsInv
  <2>1. CASE row \in moving
    BY <1>2, <1>6, <2>1
  <2>2. CASE row \notin moving
    <3>1. /\ home'[k][row] = home[k][row] /\ tab'[k][row] = tab[k][row]
          /\ arena'[k][row] = arena[k][row] /\ host' = host
      BY <1>0, <1>2, <2>2
    <3> QED BY <1>0, <3>1 DEF RowsInv
  <2> QED BY <2>1, <2>2
<1>13. SlotPartition'
  <2> SUFFICES ASSUME NEW k \in Kinds
               PROVE  /\ pool'[k] \cup {home'[k][row] : row \in {x \in Rows : home'[k][x] # NoSlot}}
                           = Slots(k)
                      /\ \A a, b \in Rows :
                           home'[k][a] = home'[k][b] /\ a # b => home'[k][a] = NoSlot
                      /\ \A row \in Rows : /\ home'[k][row] \notin pool'[k]
                                           /\ home'[k][row] = NoSlot <=> row[2] < S'[row[1]]
    <3>1. \A m \in Layers : Resident(m)' = S'[m]
      BY <1>7 DEF Resident
    <3> QED BY <1>3, <3>1 DEF SlotPartition, Slots
  <2>1. /\ pool'[k] = pool[k] \cup {home[k][row] : row \in moving}
        /\ \A row \in Rows : home'[k][row] = IF row \in moving THEN NoSlot ELSE home[k][row]
    BY <1>2
  <2>2. pool[k] \cup {home[k][row] : row \in {x \in Rows : home[k][x] # NoSlot}} = Slots(k)
    BY <1>0 DEF SlotPartition
  <2>3. \A a, b \in Rows : home[k][a] = home[k][b] /\ a # b => home[k][a] = NoSlot
    BY <1>0 DEF SlotPartition
  <2>4. \A row \in Rows : /\ home[k][row] \notin pool[k]
                          /\ home[k][row] = NoSlot <=> row[2] < S[row[1]]
    BY <1>0, <1>5 DEF SlotPartition
  <2>5. NoSlot \notin Slots(k)
    BY NoSlotNotASlot
  <2>6. pool'[k] \cup {home'[k][row] : row \in {x \in Rows : home'[k][x] # NoSlot}} = Slots(k)
    BY <1>4, <1>6, <2>1, <2>2
  <2>7. \A a, b \in Rows : home'[k][a] = home'[k][b] /\ a # b => home'[k][a] = NoSlot
    BY <2>1, <2>3
  <2>8. \A row \in Rows : home'[k][row] \notin pool'[k]
    BY <1>4, <1>6, <2>1, <2>2, <2>3, <2>4, <2>5
  <2>9. ASSUME NEW row \in Rows
        PROVE  home'[k][row] = NoSlot <=> row[2] < S'[row[1]]
    <3>1. CASE row \in moving
      BY <1>3, <1>8, <2>1, <3>1
    <3>2. CASE row \notin moving
      <4>1. row[2] < S'[row[1]] <=> row[2] < S[row[1]]
        BY <1>1, <1>3, <1>8, <3>2
      <4> QED BY <2>1, <2>4, <3>2, <4>1
    <3> QED BY <3>1, <3>2
  <2> QED BY <2>6, <2>7, <2>8, <2>9
<1> QED BY <1>9, <1>10, <1>11, <1>12, <1>13 DEF IInv

(* A shrink to a size that fits the host finds a slot for every leaving    *)
(* row: the sizes the layers have, and would have, all fit, so the rows    *)
(* outside the arenas fit together.                                        *)
LEMMA PoolSuffices ==
  ASSUME TypeOK, OpInv, SlotPartition, op.pc = "take", NEW k \in Kinds
  PROVE  Cardinality(pool[k]) >= Cardinality({op.lid} \X (op.to .. S[op.lid] - 1))
<1> DEFINE l == op.lid
           f == [S EXCEPT ![l] = op.to]
           moving == {l} \X (op.to .. S[l] - 1)
<1>1. /\ l \in Layers /\ op.to \in 0 .. NumRows /\ NumRows \in Nat
      /\ S[l] \in 0 .. NumRows /\ op.to < S[l] /\ HostFits(op.to)
      /\ S \in [Layers -> 0 .. NumRows]
  <2>1. op.to < S[l] /\ HostFits(op.to) /\ S \in [Layers -> 0 .. NumRows]
    BY DEF OpInv, TypeOK
  <2> QED BY <2>1, OpPlace
<1>2. f \in [Layers -> 0 .. NumRows] /\ \A m \in Layers : HostFits(f[m])
  BY <1>1 DEF OpInv
<1>3. Outside(f) = Outside(S) \cup moving /\ Outside(S) \cap moving = {}
  <2>1. \A row \in Rows : /\ row[1] \in Layers /\ row[2] \in Nat /\ row = <<row[1], row[2]>>
                          /\ S[row[1]] \in Nat
    BY <1>1 DEF Rows, Ranks
  <2>2. \A row \in Rows : f[row[1]] = IF row[1] = l THEN op.to ELSE S[row[1]]
    BY <1>1, <2>1
  <2>3. moving \subseteq Rows
    BY <1>1 DEF Rows, Ranks
  <2>4. \A row \in Rows : row \in moving <=> row[1] = l /\ op.to <= row[2] /\ row[2] < S[l]
    BY <1>1, <2>1
  <2> HIDE DEF f, moving
  <2>5. \A row \in Rows : f[row[1]] <= row[2] <=> S[row[1]] <= row[2] \/ row \in moving
    BY <1>1, <2>1, <2>2, <2>4
  <2>6. Outside(f) = Outside(S) \cup moving
    BY <2>3, <2>5 DEF Outside
  <2>7. \A row \in Rows : row \in moving => ~(S[row[1]] <= row[2])
    BY <1>1, <2>1, <2>4
  <2>8. Outside(S) \cap moving = {}
    BY <2>7 DEF Outside
  <2> QED BY <2>6, <2>8
<1>4. /\ IsFiniteSet(Outside(S)) /\ Cardinality(Outside(S)) \in Nat
      /\ IsFiniteSet(Outside(f)) /\ Cardinality(Outside(f)) \in Nat
  BY OutsideFinite
<1>5. Cardinality(Outside(f)) <= Cardinality(Slots(k))
  BY <1>2, OutsideFits
<1> HIDE DEF f, moving
<1>6. IsFiniteSet(moving) /\ Cardinality(moving) \in Nat
  BY <1>3, <1>4, FS_Subset, FS_CardinalityType
<1>7. Cardinality(Outside(f)) = Cardinality(Outside(S)) + Cardinality(moving)
  <2>1. Cardinality(Outside(S) \cup moving)
          = Cardinality(Outside(S)) + Cardinality(moving) - Cardinality(Outside(S) \cap moving)
    BY <1>4, <1>6, FS_Union
  <2>2. Cardinality(Outside(S) \cap moving) = 0
    BY <1>3, FS_EmptySet
  <2> QED BY <1>3, <1>4, <1>6, <2>1, <2>2
<1>8. /\ Cardinality(pool[k]) \in Nat
      /\ Cardinality(pool[k]) + Cardinality(Outside(S)) = Cardinality(Slots(k))
  BY PoolCount
<1>9. Cardinality(pool[k]) >= Cardinality(moving)
  BY <1>4, <1>5, <1>6, <1>7, <1>8
<1> QED BY <1>9 DEF moving

LEMMA TakeInv == IInv /\ Take /\ UNCHANGED others => IInv'
<1> SUFFICES ASSUME IInv, Take, UNCHANGED others PROVE IInv'
  OBVIOUS
<1> DEFINE l == op.lid
           moving == {l} \X (op.to .. S[l] - 1)
<1>0. TypeOK /\ OpInv /\ MappedInv /\ RowsInv /\ SlotPartition /\ op.pc = "take"
      /\ UNCHANGED <<S, mapped, arena, free>>
  BY DEF IInv, Take
<1>1. /\ op \in Ops /\ l \in Layers /\ op.to \in 0 .. NumRows /\ NumRows \in Nat
      /\ S[l] \in 0 .. NumRows /\ op.to < S[l] /\ HostFits(op.to) /\ op.cmd # "idle"
      /\ 1 \in Kinds
  <2>1. op.to < S[l] /\ HostFits(op.to) /\ op.cmd # "idle"
    BY <1>0 DEF OpInv
  <2> QED BY <1>0, <2>1, OpPlace
<1>2. \A k \in Kinds : Cardinality(pool[k]) >= Cardinality(moving)
  BY <1>0, PoolSuffices
<1>3. PICK slot \in [Kinds -> UNION {Injection(moving, pool[k]) : k \in Kinds}] :
        /\ \A k \in Kinds : slot[k] \in Injection(moving, pool[k])
        /\ host' = [k \in Kinds |-> [s \in AllSlots |->
             IF \E row \in moving : slot[k][row] = s
             THEN arena[k][CHOOSE row \in moving : slot[k][row] = s]
             ELSE host[k][s]]]
        /\ home' = [k \in Kinds |-> [row \in Rows |->
             IF row \in moving THEN slot[k][row] ELSE home[k][row]]]
        /\ tab' = [k \in Kinds |-> [row \in Rows |->
             IF row \in moving THEN <<"host", slot[k][row]>> ELSE tab[k][row]]]
        /\ pool' = [k \in Kinds |-> pool[k] \ {slot[k][row] : row \in moving}]
  BY <1>2 DEF Take
<1>4. op' = [op EXCEPT !.pc = "release", !.kind = 1] /\ UNCHANGED <<raised, regrow>>
  BY <1>2 DEF Take
<1>5. \A row \in Rows : /\ row[1] \in Layers /\ row[2] \in Nat /\ S[row[1]] \in 0 .. NumRows
                        /\ row \in moving <=> row[1] = l /\ op.to <= row[2] /\ row[2] < S[l]
  <2>1. \A row \in Rows : row[1] \in Layers /\ row[2] \in Ranks /\ row[2] \in Nat
                          /\ row = <<row[1], row[2]>> /\ S[row[1]] \in 0 .. NumRows
    BY <1>0, <1>1 DEF Rows, Ranks, TypeOK
  <2> QED BY <1>1, <2>1
<1>6. moving \subseteq Rows
  BY <1>1 DEF Rows, Ranks
<1>7. \A row \in Rows : Resident(row[1]) = S[row[1]]
  BY <1>0 DEF Resident
<1> HIDE DEF moving
<1>8. ASSUME NEW k \in Kinds
      PROVE  /\ \A row \in moving : /\ slot[k][row] \in pool[k] /\ slot[k][row] \in Slots(k)
                                    /\ slot[k][row] \in AllSlots /\ slot[k][row] # NoSlot
             /\ \A a, b \in moving : slot[k][a] = slot[k][b] => a = b
             /\ pool[k] \subseteq Slots(k)
  <2>1. slot[k] \in [moving -> pool[k]] /\ \A a, b \in moving : slot[k][a] = slot[k][b] => a = b
    BY <1>3 DEF Injection, IsInjective
  <2>2. pool[k] \subseteq Slots(k)
    BY <1>0 DEF SlotPartition
  <2> QED BY <2>1, <2>2, NoSlotNotASlot
<1>9. /\ op' \in Ops /\ op'.pc = "release" /\ op'.cmd = op.cmd /\ op'.goal = op.goal
      /\ op'.kind = 1 /\ op'.lid = l /\ op'.to = op.to
  BY <1>1, <1>4 DEF Ops
<1>10. TypeOK'
  <2>1. host' \in [Kinds -> [AllSlots -> Rows \cup {Junk}]]
    <3> SUFFICES ASSUME NEW k \in Kinds, NEW s \in AllSlots
                 PROVE  host'[k][s] \in Rows \cup {Junk}
      BY <1>3
    <3>1. CASE \E row \in moving : slot[k][row] = s
      <4>1. (CHOOSE row \in moving : slot[k][row] = s) \in Rows
        BY <1>6, <3>1
      <4> QED BY <1>0, <1>3, <3>1, <4>1 DEF TypeOK
    <3>2. CASE ~\E row \in moving : slot[k][row] = s
      BY <1>0, <1>3, <3>2 DEF TypeOK
    <3> QED BY <3>1, <3>2
  <2>2. tab' \in [Kinds -> [Rows -> Addresses]]
    BY <1>0, <1>3, <1>8 DEF TypeOK, Addresses
  <2>3. pool' \in [Kinds -> SUBSET AllSlots]
    BY <1>0, <1>3 DEF TypeOK
  <2>4. home' \in [Kinds -> [Rows -> AllSlots \cup {NoSlot}]]
    BY <1>0, <1>3, <1>8 DEF TypeOK
  <2> QED BY <1>0, <1>4, <1>9, <2>1, <2>2, <2>3, <2>4 DEF TypeOK
<1>11. OpInv'
  BY <1>0, <1>1, <1>4, <1>9 DEF OpInv, HostFits
<1>12. MappedInv'
  <2>1. \A k \in Kinds, m \in Layers : HeldRows(k, m)' = S[m] /\ HeldRows(k, m) = S[m]
    BY <1>0, <1>9 DEF HeldRows, Kinds
  <2> QED BY <1>0, <1>9, <2>1 DEF MappedInv, ChunksForRows
<1>13. RowsInv'
  <2> SUFFICES ASSUME NEW k \in Kinds, NEW row \in Rows
               PROVE  IF home'[k][row] = NoSlot
                      THEN tab'[k][row] = <<"gpu", row>> /\ arena'[k][row] = row
                      ELSE /\ tab'[k][row] = <<"host", home'[k][row]>>
                           /\ host'[k][home'[k][row]] = row
    BY DEF RowsInv
  <2>1. CASE row \in moving
    <3>1. home'[k][row] = slot[k][row] /\ tab'[k][row] = <<"host", slot[k][row]>>
      BY <1>3, <2>1
    <3>2. slot[k][row] \in AllSlots /\ slot[k][row] # NoSlot
      BY <1>8, <2>1
    <3>3. host'[k][slot[k][row]] = arena[k][row]
      <4>1. (CHOOSE b \in moving : slot[k][b] = slot[k][row]) = row
        BY <1>8, <2>1
      <4> QED BY <1>3, <2>1, <3>2, <4>1
    <3>4. row[2] < S[row[1]]
      BY <1>5, <1>6, <2>1
    <3>5. home[k][row] = NoSlot
      BY <1>0, <1>7, <3>4 DEF SlotPartition
    <3>6. arena[k][row] = row
      BY <1>0, <3>5 DEF RowsInv
    <3> QED BY <3>1, <3>2, <3>3, <3>6
  <2>2. CASE row \notin moving
    <3>1. home'[k][row] = home[k][row] /\ tab'[k][row] = tab[k][row] /\ arena' = arena
      BY <1>0, <1>3, <2>2
    <3>2. CASE home[k][row] = NoSlot
      BY <1>0, <3>1, <3>2 DEF RowsInv
    <3>3. CASE home[k][row] # NoSlot
      <4>1. home[k][row] \notin pool[k] /\ home[k][row] \in AllSlots
        BY <1>0, <3>3 DEF SlotPartition, TypeOK
      <4>2. \A b \in moving : slot[k][b] # home[k][row]
        BY <1>8, <4>1
      <4>3. host'[k][home[k][row]] = host[k][home[k][row]]
        BY <1>3, <4>1, <4>2
      <4> QED BY <1>0, <3>1, <3>3, <4>3 DEF RowsInv
    <3> QED BY <3>2, <3>3
  <2> QED BY <2>1, <2>2
<1>14. SlotPartition'
  <2> SUFFICES ASSUME NEW k \in Kinds
               PROVE  /\ pool'[k] \cup {home'[k][row] : row \in {x \in Rows : home'[k][x] # NoSlot}}
                           = Slots(k)
                      /\ \A a, b \in Rows :
                           home'[k][a] = home'[k][b] /\ a # b => home'[k][a] = NoSlot
                      /\ \A row \in Rows :
                           /\ home'[k][row] \notin pool'[k]
                           /\ home'[k][row] = NoSlot <=>
                                row[2] < IF row[1] = l THEN op.to ELSE S[row[1]]
    <3>1. \A m \in Layers : Resident(m)' = IF m = l THEN op.to ELSE S[m]
      BY <1>0, <1>9 DEF Resident
    <3> QED BY <1>5, <3>1 DEF SlotPartition, Slots
  <2>1. /\ pool'[k] = pool[k] \ {slot[k][row] : row \in moving}
        /\ \A row \in Rows :
             home'[k][row] = IF row \in moving THEN slot[k][row] ELSE home[k][row]
    BY <1>3
  <2>2. pool[k] \cup {home[k][row] : row \in {x \in Rows : home[k][x] # NoSlot}} = Slots(k)
    BY <1>0 DEF SlotPartition
  <2>3. \A a, b \in Rows : home[k][a] = home[k][b] /\ a # b => home[k][a] = NoSlot
    BY <1>0 DEF SlotPartition
  <2>4. \A row \in Rows : /\ home[k][row] \notin pool[k]
                          /\ home[k][row] = NoSlot <=> row[2] < S[row[1]]
    BY <1>0, <1>7 DEF SlotPartition
  <2>5. \A row \in moving : row \in Rows /\ home[k][row] = NoSlot
    BY <1>5, <1>6, <2>4
  <2>6. pool'[k] \cup {home'[k][row] : row \in {x \in Rows : home'[k][x] # NoSlot}} = Slots(k)
    BY <1>8, <2>1, <2>2, <2>5
  <2>7. \A a, b \in Rows : home'[k][a] = home'[k][b] /\ a # b => home'[k][a] = NoSlot
    BY <1>8, <2>1, <2>3, <2>4
  <2>8. \A row \in Rows : home'[k][row] \notin pool'[k]
    BY <2>1, <2>4
  <2>9. ASSUME NEW row \in Rows
        PROVE  home'[k][row] = NoSlot <=> row[2] < IF row[1] = l THEN op.to ELSE S[row[1]]
    <3>1. CASE row \in moving
      BY <1>1, <1>5, <1>8, <2>1, <3>1
    <3>2. CASE row \notin moving
      BY <1>1, <1>5, <2>1, <2>4, <3>2
    <3> QED BY <3>1, <3>2
  <2> QED BY <2>6, <2>7, <2>8, <2>9
<1> QED BY <1>10, <1>11, <1>12, <1>13, <1>14 DEF IInv

LEMMA ReleaseInv == IInv /\ Release /\ UNCHANGED others => IInv'
<1> SUFFICES ASSUME IInv, Release, UNCHANGED others PROVE IInv'
  OBVIOUS
<1> DEFINE k == op.kind
           l == op.lid
           c == ChunksForRows(k, op.to)
<1>0. TypeOK /\ OpInv /\ MappedInv /\ op.pc = "release"
      /\ UNCHANGED <<host, tab, home, pool, raised, regrow>>
  BY DEF IInv, Release
<1>1. /\ op \in Ops /\ k \in Kinds /\ l \in Layers /\ op.to \in 0 .. NumRows
      /\ S[l] \in 0 .. NumRows /\ op.to < S[l] /\ HostFits(op.to) /\ op.cmd # "idle"
      /\ op.kind \in Int /\ NumKinds \in Nat /\ 1 \in Kinds /\ NumRows \in Nat
  <2>1. op.to < S[l] /\ HostFits(op.to) /\ op.cmd # "idle"
    BY <1>0 DEF OpInv
  <2> QED BY <1>0, <2>1, OpPlace
<1>2. /\ Unmap(k, l, Min({mapped[k][l], c}))
      /\ \/ /\ k = NumKinds /\ S' = [S EXCEPT ![l] = op.to]
            /\ op' = [op EXCEPT !.pc = "layer", !.lid = @ + 1, !.kind = 1]
         \/ k # NumKinds /\ op' = NextKind("release") /\ UNCHANGED S
  BY DEF Release, ShrinkRows
<1>3. /\ mapped[k][l] = ChunksForRows(k, S[l]) /\ ChunksForRows(k, S[l]) \in Nat
      /\ c \in Nat /\ c <= mapped[k][l]
  <2>1. HeldRows(k, l) = S[l]
    BY <1>0, <1>1 DEF HeldRows
  <2>2. mapped[k][l] = ChunksForRows(k, S[l])
    BY <1>0, <1>1, <2>1 DEF MappedInv
  <2>3. S[l] \in Nat /\ op.to \in Nat /\ op.to <= S[l]
    BY <1>1
  <2> QED BY <1>1, <2>2, <2>3, ChunksEnough, ChunksMonotone
<1> HIDE DEF c
<1>4. Min({mapped[k][l], c}) = c
  BY <1>3, MinPair
<1> HIDE DEF k, l
<1>5. /\ mapped' = [mapped EXCEPT ![k][l] = c]
      /\ mapped' \in [Kinds -> [Layers -> Nat]]
      /\ arena' \in [Kinds -> [Rows -> Rows \cup {Junk}]]
      /\ free' \in Nat
      /\ \A j \in Kinds, row \in Rows :
           (j = k /\ row[1] = l => Backed(k, c, row[2])) => arena'[j][row] = arena[j][row]
  BY <1>0, <1>1, <1>2, <1>3, <1>4, UnmapStep
<1>6. /\ op' \in Ops /\ op'.cmd = op.cmd /\ op'.goal = op.goal
      /\ \/ /\ k = NumKinds /\ op'.pc = "layer" /\ S' = [S EXCEPT ![l] = op.to]
         \/ /\ op'.pc = "release" /\ op'.lid = op.lid /\ op'.to = op.to
            /\ op'.kind = k + 1 /\ S' = S
  <2>1. CASE k = NumKinds /\ op' = [op EXCEPT !.pc = "layer", !.lid = @ + 1, !.kind = 1]
             /\ S' = [S EXCEPT ![l] = op.to]
    <3>1. op.lid + 1 \in 0 .. NumLayers
      BY <1>1, SizesAssumption DEF Layers, l
    <3> QED BY <1>1, <2>1, <3>1 DEF Ops
  <2>2. CASE k # NumKinds /\ op' = NextKind("release") /\ S' = S
    BY <1>0, <2>2, NextKindStep DEF k
  <2> QED BY <1>2, <2>1, <2>2
<1>7. S' \in [Layers -> 0 .. NumRows] /\ \A m \in Layers : m # l => S'[m] = S[m]
  BY <1>0, <1>1, <1>6 DEF TypeOK
<1>8. TypeOK'
  BY <1>0, <1>5, <1>6, <1>7 DEF TypeOK
<1>9. OpInv'
  <2>1. CASE op'.pc = "layer" /\ S' = [S EXCEPT ![l] = op.to]
    <3>1. \A m \in Layers : HostFits(S'[m])
      BY <1>0, <1>1, <2>1 DEF TypeOK, OpInv
    <3> QED BY <1>0, <1>1, <1>6, <2>1, <3>1 DEF OpInv, HostFits
  <2>2. CASE op'.pc = "release" /\ op'.lid = op.lid /\ op'.to = op.to /\ S' = S
    BY <1>0, <1>1, <1>6, <2>2 DEF OpInv, HostFits
  <2> QED BY <1>6, <2>1, <2>2
<1>10. MappedInv'
  <2> SUFFICES ASSUME NEW j \in Kinds, NEW m \in Layers
               PROVE  /\ mapped'[j][m] = ChunksForRows(j, HeldRows(j, m)')
                      /\ ChunksForRows(j, HeldRows(j, m)') \in Nat
    BY DEF MappedInv, ChunksForRows
  <2>1. HeldRows(j, m)' = IF m = l /\ j <= k THEN op.to ELSE S[m]
    <3>1. CASE k = NumKinds /\ op'.pc = "layer" /\ S' = [S EXCEPT ![l] = op.to]
      <4>1. HeldRows(j, m)' = S'[m]
        BY <3>1 DEF HeldRows
      <4>2. j <= k
        BY <1>1, <3>1 DEF Kinds
      <4>3. S'[m] = IF m = l THEN op.to ELSE S[m]
        BY <1>0, <1>1, <3>1 DEF TypeOK
      <4> QED BY <4>1, <4>2, <4>3
    <3>2. CASE op'.pc = "release" /\ op'.lid = op.lid /\ op'.to = op.to
               /\ op'.kind = k + 1 /\ S' = S
      <4>1. j < k + 1 <=> j <= k
        BY <1>1 DEF k, Kinds
      <4> QED BY <3>2, <4>1 DEF HeldRows, l
    <3> QED BY <1>6, <3>1, <3>2
  <2>2. HeldRows(j, m) = IF m = l /\ j < k THEN op.to ELSE S[m]
    BY <1>0 DEF HeldRows, k, l
  <2>3. mapped[j][m] = ChunksForRows(j, HeldRows(j, m))
    BY <1>0 DEF MappedInv
  <2>4. ChunksForRows(j, HeldRows(j, m)') \in Nat
    <3>1. S[m] \in Nat /\ op.to \in Nat
      BY <1>0, <1>1 DEF TypeOK
    <3> QED BY <2>1, <3>1, ChunksEnough
  <2>5. CASE j = k /\ m = l
    <3>1. HeldRows(j, m)' = op.to
      BY <1>1, <2>1, <2>5 DEF k
    <3>2. mapped'[j][m] = c
      BY <1>0, <1>5, <2>5 DEF TypeOK
    <3> QED BY <2>4, <2>5, <3>1, <3>2 DEF c
  <2>6. CASE j # k \/ m # l
    <3>1. HeldRows(j, m)' = HeldRows(j, m)
      BY <1>1, <2>1, <2>2, <2>6 DEF Kinds, k
    <3>2. mapped'[j][m] = mapped[j][m]
      BY <1>0, <1>5, <2>6 DEF TypeOK
    <3> QED BY <2>3, <2>4, <3>1, <3>2
  <2> QED BY <2>5, <2>6
<1>11. RowsInv' /\ SlotPartition'
  <2>1. \A m \in Layers : Resident(m)' = Resident(m)
                          /\ Resident(m) = IF m = l THEN op.to ELSE S[m]
    <3>1. \A m \in Layers : Resident(m) = IF m = l THEN op.to ELSE S[m]
      BY <1>0 DEF Resident, l
    <3>2. CASE op'.pc = "layer" /\ S' = [S EXCEPT ![l] = op.to]
      BY <1>0, <1>1, <3>1, <3>2 DEF Resident, TypeOK
    <3>3. CASE op'.pc = "release" /\ op'.lid = op.lid /\ op'.to = op.to /\ S' = S
      BY <3>1, <3>3 DEF Resident, l
    <3> QED BY <1>6, <3>1, <3>2, <3>3
  <2>2. ASSUME NEW j \in Kinds, NEW row \in Rows, home[j][row] = NoSlot
        PROVE  arena'[j][row] = row
    <3>1. row[1] \in Layers /\ row[2] \in Nat
      BY <1>1 DEF Rows, Ranks
    <3>2. arena[j][row] = row /\ row[2] < Resident(row[1])
      BY <2>2 DEF IInv, RowsInv, SlotPartition
    <3>3. row[1] = l /\ j = k => Backed(k, c, row[2])
      <4>1. row[1] = l => row[2] < op.to
        BY <2>1, <3>1, <3>2
      <4>2. op.to \in Nat /\ c = ChunksForRows(k, op.to) /\ c <= c
        BY <1>1, <1>3 DEF c
      <4> QED BY <1>1, <1>3, <3>1, <4>1, <4>2, BackedBelow
    <3> QED BY <1>5, <3>2, <3>3
  <2> QED BY <1>0, <2>1, <2>2, SamePlaces
<1> QED BY <1>8, <1>9, <1>10, <1>11 DEF IInv

LEMMA StutterInv == IInv /\ UNCHANGED vars => IInv'
<1> SUFFICES ASSUME IInv, UNCHANGED vars PROVE IInv'
  OBVIOUS
<1> USE DEF vars
<1>1. TypeOK' /\ OpInv'
  BY DEF IInv, TypeOK, OpInv
<1>2. MappedInv'
  BY DEF IInv, MappedInv, HeldRows, ChunksForRows
<1>3. RowsInv' /\ SlotPartition'
  BY DEF IInv, RowsInv, SlotPartition, Resident
<1> QED BY <1>1, <1>2, <1>3 DEF IInv

(* IInv is an inductive invariant of the specification. *)
THEOREM Invariance == Spec => []IInv
<1>1. Init => IInv
  BY InitInv
<1>2. IInv /\ [Next]_vars => IInv'
  <2> SUFFICES ASSUME IInv, [Next]_vars PROVE IInv'
    OBVIOUS
  <2>0. UNCHANGED others
    BY DEF Next, vars
  <2>1. CASE Command
    BY <2>0, <2>1, CommandInv
  <2>2. CASE Step
    BY <2>0, <2>2, FillHeadInv, FreeHeadInv, LayersDoneInv, StartResizeInv, EnsureInv,
       RollbackInv, GatherInv, TakeInv, ReleaseInv DEF Step
  <2>3. CASE DriverMemory
    BY <2>0, <2>3, DriverMemoryInv
  <2>4. CASE UNCHANGED vars
    BY <2>4, StutterInv
  <2> QED BY <2>1, <2>2, <2>3, <2>4 DEF Next
<1> QED BY <1>1, <1>2, PTL DEF Spec

-----------------------------------------------------------------------------
(* What follows for the reader of the model.                               *)

(* Every variable keeps its type. *)
THEOREM TypeCorrect == Spec => []TypeOK
<1>1. IInv => TypeOK
  BY DEF IInv
<1> QED BY <1>1, Invariance, PTL

(* At every instant of every resize, the address table leads a kernel to   *)
(* the expert row it asks for: a resize never changes a value              *)
(* (resize_layer: copy, then table rewrite, then unmap).                   *)
THEOREM ValuesNeverChange == Spec => []ReadsOwnRow
<1>1. IInv => ReadsOwnRow
  <2> SUFFICES ASSUME IInv, NEW k \in Kinds, NEW row \in Rows
               PROVE  Deref(k, tab[k][row]) = row
    BY DEF ReadsOwnRow
  <2>1. CASE home[k][row] # NoSlot
    BY <2>1 DEF IInv, RowsInv, Deref
  <2>2. CASE home[k][row] = NoSlot
    <3>1. tab[k][row] = <<"gpu", row>> /\ arena[k][row] = row
      BY <2>2 DEF IInv, RowsInv
    <3>2. row[1] \in Layers /\ row[2] \in Nat /\ row[2] < Resident(row[1])
      BY <2>2, SizesAssumption DEF IInv, SlotPartition, Rows, Ranks
    <3>3. /\ TypeOK /\ OpInv /\ MappedInv
      BY DEF IInv
    <3>4. S[row[1]] \in 0 .. NumRows /\ op.to \in 0 .. NumRows /\ op.kind \in Kinds
      BY <3>2, <3>3 DEF TypeOK, Ops
    <3>5. HeldRows(k, row[1]) \in 0 .. NumRows /\ Resident(row[1]) <= HeldRows(k, row[1])
      <4>1. op.pc \in {"ensure", "gather"} => S[op.lid] < op.to
        BY <3>3 DEF OpInv
      <4>2. op.pc = "release" => op.to < S[op.lid]
        BY <3>3 DEF OpInv
      <4>3. NumRows \in Nat
        BY SizesAssumption
      <4> QED BY <3>4, <4>1, <4>2, <4>3 DEF HeldRows, Resident
    <3>6. mapped[k][row[1]] \in Nat /\ mapped[k][row[1]] >= ChunksForRows(k, HeldRows(k, row[1]))
      BY <3>2, <3>3 DEF TypeOK, MappedInv
    <3>7. Resident(row[1]) \in 0 .. NumRows
      BY <3>4 DEF Resident
    <3>8. HeldRows(k, row[1]) \in Nat /\ row[2] < HeldRows(k, row[1])
          /\ ChunksForRows(k, HeldRows(k, row[1])) <= mapped[k][row[1]]
      <4> DEFINE h == HeldRows(k, row[1])
      <4>1. h \in Nat
        BY <3>5
      <4>2. ChunksForRows(k, h) \in Nat
        BY <4>1, ChunksEnough
      <4> HIDE DEF h
      <4> QED BY <3>2, <3>5, <3>6, <3>7, <4>1, <4>2 DEF h
    <3>9. Backed(k, mapped[k][row[1]], row[2])
      BY <3>2, <3>6, <3>8, BackedBelow
    <3> QED BY <3>1, <3>9 DEF Deref
  <2> QED BY <2>1, <2>2
<1> QED BY <1>1, Invariance, PTL

(* No host slot is lost or used twice, across failed grows and shrinks. *)
THEOREM SlotsConserved == Spec => []SlotPartition
<1>1. IInv => SlotPartition
  BY DEF IInv
<1> QED BY <1>1, Invariance, PTL

(* No shrink of a serving process finds the slot pool exhausted, although  *)
(* the sizes it asks for come from s_floor and other layers may have       *)
(* different sizes.                                                        *)
THEOREM ShrinksSucceed == Spec => []NeverExhausted
<1>1. IInv => NeverExhausted
  BY DEF IInv, OpInv, NeverExhausted
<1> QED BY <1>1, Invariance, PTL

(* A command that has ended, with or without an exception, leaves no arena *)
(* with more chunks than its rows need.                                    *)
THEOREM ChunksConserved == Spec => []NoLeakedChunks
<1>1. IInv => NoLeakedChunks
  <2> SUFFICES ASSUME IInv, Idle, NEW k \in Kinds, NEW l \in Layers
               PROVE  mapped[k][l] = ChunksForRows(k, S[l])
    BY DEF NoLeakedChunks
  <2>1. op.pc = "idle"
    BY DEF IInv, OpInv, Idle
  <2> QED BY <2>1 DEF IInv, MappedInv, HeldRows
<1> QED BY <1>1, Invariance, PTL

(* s_floor does not move while the server serves. *)
THEOREM FloorNeverMoves == Spec => []FloorIsStable
<1>1. IInv => FloorIsStable
  <2> DEFINE Fitting == {s \in 0 .. NumRows : HostFits(s)}
  <2> SUFFICES ASSUME IInv, op.pc \in {"idle", "head", "layer"}
               PROVE  s_floor = Min(Fitting)
    BY DEF FloorIsStable
  <2>1. s_floor \in Fitting /\ \A s \in Fitting : s_floor <= s
    BY FloorIsHostFloor DEF IInv
  <2>2. Fitting \subseteq Nat
    BY SizesAssumption
  <2> HIDE DEF Fitting
  <2>3. Min(Fitting) \in Fitting /\ \A s \in Fitting : Min(Fitting) <= s
    BY <2>1, <2>2, NatMin
  <2>4. s_floor \in Nat /\ Min(Fitting) \in Nat
    BY <2>1, <2>2, <2>3
  <2>5. s_floor <= Min(Fitting) /\ Min(Fitting) <= s_floor
    BY <2>1, <2>3
  <2> QED BY <2>4, <2>5
<1> QED BY <1>1, Invariance, PTL

(* Where free ends: at the top of its loop. *)
LEMMA FreeEndsAtHead ==
  ASSUME IInv, [Next]_vars, op.cmd = "free", op'.cmd = "idle"
  PROVE  FreeHead
<1>0. TypeOK /\ OpInv /\ SlotPartition /\ op \in Ops
  BY DEF IInv, TypeOK
<1>1. op.pc \notin {"ensure", "rollback", "gather"}
  BY <1>0 DEF OpInv
<1>2. CASE Command \/ DriverMemory \/ UNCHANGED vars
  BY <1>2 DEF Command, DriverMemory, vars, SetS, Fill, Free, Regrow, Start, Idle
<1>3. CASE FillHead \/ LayersDone
  BY <1>0, <1>3 DEF FillHead, LayersDone, Ops
<1>4. CASE StartResize
  <2>1. op.lid \in Layers /\ Target(op.lid) \in 0 .. NumRows
    BY <1>0, <1>4, TargetFits DEF StartResize
  <2>2. S[op.lid] \in 0 .. NumRows /\ NumRows \in Nat
    BY <1>0, <2>1, SizesAssumption DEF TypeOK
  <2>3. op'.cmd = op.cmd
    BY <1>0, <1>4, <2>1, <2>2 DEF StartResize, Ops
  <2> QED BY <2>3
<1>5. CASE Ensure \/ Rollback \/ Gather
  BY <1>1, <1>5 DEF Ensure, Rollback, Gather
<1>6. CASE Take
  <2>1. op.pc = "take"
    BY <1>6 DEF Take
  <2>2. op' = [op EXCEPT !.pc = "release", !.kind = 1]
    BY <1>0, <1>6, <2>1, PoolSuffices DEF Take
  <2> QED BY <1>0, <2>2 DEF Ops
<1>7. CASE Release
  <2>1. CASE op' = [op EXCEPT !.pc = "layer", !.lid = @ + 1, !.kind = 1]
    BY <1>0, <2>1 DEF Ops
  <2>2. CASE op' = NextKind("release")
    BY <1>0, <2>2, NextKindStep
  <2> QED BY <1>7, <2>1, <2>2 DEF Release
<1> QED BY <1>2, <1>3, <1>4, <1>5, <1>6, <1>7 DEF Next, Step

(* A free that ends without the memory has every layer at the floor. *)
LEMMA FreeEndsAtFloor ==
  ASSUME IInv, [Next]_vars, op.cmd = "free", op'.cmd = "idle", ~(free >= op.arg),
         NEW l \in Layers
  PROVE  S[l] = s_floor
<1>0. TypeOK /\ OpInv /\ SlotPartition /\ FreeHead
  BY FreeEndsAtHead DEF IInv
<1>1. PICK top \in Layers :
        /\ \A m \in Layers : S[m] <= S[top]
        /\ Max({s_floor, S[top] - StepRows}) >= S[top]
  <2>1. op \in Ops
    BY <1>0 DEF TypeOK
  <2>2. \A g : [op EXCEPT !.pc = "layer", !.lid = 0, !.goal = g].cmd = "free"
    BY <2>1 DEF Ops
  <2> QED BY <1>0, <2>2 DEF FreeHead, FreeIsDone, IsLargest
<1>2. /\ s_floor \in 0 .. NumRows /\ S[l] \in 0 .. NumRows /\ S[top] \in 0 .. NumRows
      /\ HostFits(S[l]) /\ op.pc = "head" /\ NumRows \in Int
      /\ StepRows \in Nat \ {0}
  BY <1>0, FloorIsHostFloor, SizesAssumption DEF FreeHead, TypeOK, OpInv
<1>3. s_floor <= S[l]
  BY <1>0, <1>2, FloorIsHostFloor
<1>4. Max({s_floor, S[top] - StepRows}) =
        IF s_floor >= S[top] - StepRows THEN s_floor ELSE S[top] - StepRows
  <2>1. s_floor \in Int /\ S[top] - StepRows \in Int
    BY <1>2
  <2> QED BY <2>1, MaxPair
<1>5. S[l] <= S[top] /\ s_floor >= S[top]
  BY <1>1, <1>2, <1>4
<1> QED BY <1>2, <1>3, <1>5

(* free(want) gives up only when every layer is at the floor. *)
THEOREM FreeDoesItsBest == Spec => FreeDelivers
<1>1. IInv /\ [Next]_vars =>
        [op.cmd = "free" /\ op'.cmd = "idle" =>
           free >= op.arg \/ \A l \in Layers : S[l] = s_floor]_vars
  BY FreeEndsAtFloor
<1> QED BY <1>1, Invariance, PTL DEF Spec, FreeDelivers

-----------------------------------------------------------------------------
(* The chunks of all arenas.                                               *)
Cells == Kinds \X Layers

LEMMA CellsFinite == IsFiniteSet(Cells)
<1>1. NumLayers \in Nat /\ NumKinds \in Nat
  BY SizesAssumption
<1>2. IsFiniteSet(Kinds) /\ IsFiniteSet(Layers)
  BY <1>1, FS_Interval DEF Kinds, Layers
<1> QED BY <1>2, FS_Product DEF Cells

(* The terms of that sum.                                                  *)
Amounts(m) == [kl \in Cells |-> m[kl[1]][kl[2]]]

SumsTo(m, g) == IsSum(g, Amounts(m), Cells) /\ Total(m) = g[Cells]

LEMMA ChunksAreASum ==
  ASSUME NEW m \in [Kinds -> [Layers -> Nat]]
  PROVE  Amounts(m) \in [Cells -> Int] /\ \E g : SumsTo(m, g)
<1>1. Amounts(m) \in [Cells -> Int]
  BY DEF Amounts, Cells
<1> DEFINE Q(g) == g = [T \in SUBSET Cells |->
                          IF T = {} THEN 0
                          ELSE m[First(T)[1]][First(T)[2]] + g[T \ {First(T)}]]
<1>2. ASSUME NEW g
      PROVE  Q(g) <=> Folds(g, Amounts(m), Cells)
  <2>1. \A T \in SUBSET Cells : T # {} => Amounts(m)[First(T)] = m[First(T)[1]][First(T)[2]]
    BY FirstInSet DEF Amounts
  <2> QED BY <2>1 DEF Folds
<1>3. PICK g : g = CHOOSE x : Q(x)
  OBVIOUS
<1>4. Q(g)
  <2>1. PICK x : Folds(x, Amounts(m), Cells)
    BY <1>1, CellsFinite, FoldIsSum
  <2>2. Q(x)
    BY <1>2, <2>1
  <2> HIDE DEF Q
  <2> QED BY <1>3, <2>2
<1>5. IsSum(g, Amounts(m), Cells)
  BY <1>1, <1>2, <1>4, CellsFinite, FoldIsSum
<1>6. Total(m) = g[Cells]
  BY <1>3 DEF Total, MapThenSumSet, MapThenFoldSet, First, Cells
<1> QED BY <1>1, <1>5, <1>6 DEF SumsTo

(* One arena's chunks change: the sum changes by as much.                  *)
LEMMA ChunksChange ==
  ASSUME NEW m \in [Kinds -> [Layers -> Nat]], NEW k \in Kinds, NEW l \in Layers, NEW c \in Nat
  PROVE  /\ Total(m) \in Int
         /\ Total([m EXCEPT ![k][l] = c]) = Total(m) + (c - m[k][l])
<1>1. PICK w : w = [m EXCEPT ![k][l] = c]
  OBVIOUS
<1>2. w \in [Kinds -> [Layers -> Nat]]
  BY <1>1
<1>3. PICK g : SumsTo(m, g)
  BY ChunksAreASum
<1>4. PICK h : SumsTo(w, h)
  BY <1>2, ChunksAreASum
<1>5. Amounts(m) \in [Cells -> Int] /\ Amounts(w) \in [Cells -> Int]
  BY <1>2, ChunksAreASum
<1>6. <<k, l>> \in Cells /\ Amounts(m)[<<k, l>>] = m[k][l] /\ Amounts(w)[<<k, l>>] = c
  BY <1>1 DEF Amounts, Cells
<1>7. \A y \in Cells : y # <<k, l>> => Amounts(w)[y] = Amounts(m)[y]
  BY <1>1 DEF Amounts, Cells
<1>8. h[Cells] = g[Cells] + (Amounts(w)[<<k, l>>] - Amounts(m)[<<k, l>>])
  <2>1. IsSum(g, Amounts(m), Cells) /\ IsSum(h, Amounts(w), Cells)
    BY <1>3, <1>4 DEF SumsTo
  <2>2. PICK e : e = Amounts(m)
    OBVIOUS
  <2>3. PICK f : f = Amounts(w)
    OBVIOUS
  <2>4. PICK x : x = <<k, l>>
    OBVIOUS
  <2>5. /\ e \in [Cells -> Int] /\ f \in [Cells -> Int] /\ x \in Cells
        /\ IsSum(g, e, Cells) /\ IsSum(h, f, Cells)
        /\ \A y \in Cells : y # x => f[y] = e[y]
    BY <1>5, <1>6, <1>7, <2>1, <2>2, <2>3, <2>4
  <2>6. h[Cells] = g[Cells] + (f[x] - e[x])
    BY <2>5, CellsFinite, SumChanges
  <2> QED BY <2>2, <2>3, <2>4, <2>6
<1>9. Total(m) \in Int
  BY <1>3 DEF SumsTo, IsSum
<1> QED BY <1>1, <1>3, <1>4, <1>6, <1>8, <1>9 DEF SumsTo

LEMMA ChunksCompare ==
  ASSUME NEW m \in [Kinds -> [Layers -> Nat]], NEW w \in [Kinds -> [Layers -> Nat]],
         \A k \in Kinds, l \in Layers : m[k][l] <= w[k][l]
  PROVE  Total(m) <= Total(w) /\ Total(m) \in Int /\ Total(w) \in Int
<1>1. PICK g : SumsTo(m, g)
  BY ChunksAreASum
<1>2. PICK h : SumsTo(w, h)
  BY ChunksAreASum
<1>3. Amounts(m) \in [Cells -> Int] /\ Amounts(w) \in [Cells -> Int]
  BY ChunksAreASum
<1>4. \A y \in Cells : Amounts(m)[y] <= Amounts(w)[y]
  BY DEF Amounts, Cells
<1>5. g[Cells] <= h[Cells]
  BY <1>1, <1>2, <1>3, <1>4, CellsFinite, SumMonotone DEF SumsTo
<1>6. g[Cells] \in Int /\ h[Cells] \in Int
  BY <1>1, <1>2 DEF SumsTo, IsSum
<1> QED BY <1>1, <1>2, <1>5, <1>6 DEF SumsTo

LEMMA TotalType ==
  ASSUME NEW m \in [Kinds -> [Layers -> Nat]]
  PROVE  Total(m) \in Int
<1>1. PICK g : SumsTo(m, g)
  BY ChunksAreASum
<1> QED BY <1>1 DEF SumsTo, IsSum

LEMMA TotalsAdd ==
  ASSUME NEW m \in [Kinds -> [Layers -> Nat]], NEW n \in [Kinds -> [Layers -> Nat]],
         NEW w \in [Kinds -> [Layers -> Nat]],
         \A k \in Kinds, l \in Layers : w[k][l] = m[k][l] + n[k][l]
  PROVE  Total(m) \in Int /\ Total(n) \in Int /\ Total(w) = Total(m) + Total(n)
<1>1. PICK g : SumsTo(m, g)
  BY ChunksAreASum
<1>2. PICK h : SumsTo(n, h)
  BY ChunksAreASum
<1>3. PICK i : SumsTo(w, i)
  BY ChunksAreASum
<1>4. PICK d : d = Amounts(m)
  OBVIOUS
<1>5. PICK e : e = Amounts(n)
  OBVIOUS
<1>6. PICK f : f = Amounts(w)
  OBVIOUS
<1>7. d \in [Cells -> Int] /\ e \in [Cells -> Int] /\ f \in [Cells -> Int]
  BY <1>4, <1>5, <1>6, ChunksAreASum
<1>8. TermsAdd(d, e, f, Cells)
  BY <1>4, <1>5, <1>6 DEF TermsAdd, Amounts, Cells
<1>9. IsSum(g, d, Cells) /\ IsSum(h, e, Cells) /\ IsSum(i, f, Cells)
  BY <1>1, <1>2, <1>3, <1>4, <1>5, <1>6 DEF SumsTo
<1>10. SumIsSum(g, h, i, Cells)
  BY <1>7, <1>8, <1>9, CellsFinite, SumAdds
<1>11. g[Cells] \in Int /\ h[Cells] \in Int
  BY <1>9 DEF IsSum
<1> QED BY <1>1, <1>2, <1>3, <1>10, <1>11 DEF SumsTo, SumIsSum

-----------------------------------------------------------------------------
(* The cache never goes below its floor.                                   *)

(* The floor is the least size the host can complement: place_all has      *)
(* established that there is one.                                          *)
LEMMA HostFloorFits ==
  /\ HostFloor \in 0 .. NumRows /\ HostFits(HostFloor)
  /\ \A s \in 0 .. NumRows : HostFits(s) => HostFloor <= s
<1> DEFINE Fits == {s \in 0 .. NumRows : HostFits(s)}
<1>1. StartS \in Fits
  BY SizesAssumption, PlacementAssumption
<1>2. Fits \subseteq Nat
  BY SizesAssumption
<1>3. Min(Fits) \in Fits /\ \A s \in Fits : Min(Fits) <= s
  BY <1>1, <1>2, NatMin
<1> QED BY <1>3 DEF HostFloor

(* Every layer at the floor.                                               *)
AtFloor == [k \in Kinds |-> [l \in Layers |-> ChunksForRows(k, HostFloor)]]

LEMMA AtFloorType == AtFloor \in [Kinds -> [Layers -> Nat]]
<1>1. HostFloor \in Nat
  BY HostFloorFits, SizesAssumption
<1>2. \A k \in Kinds : ChunksForRows(k, HostFloor) \in Nat
  BY <1>1, ChunksEnough
<1> QED BY <1>2 DEF AtFloor

Held == MappedChunks = Total(mapped)

LEMMA HeldNow == Held
BY DEF Held, MappedChunks

LEMMA HeldNext == Held'
BY HeldNow, PTL

LEMMA HeldIsChunks ==
  /\ MappedChunks = Total(mapped) /\ MappedChunks' = Total(mapped')
  /\ FloorChunks = Total(AtFloor) /\ FloorChunks' = FloorChunks
<1>1. MappedChunks = Total(mapped)
  BY HeldNow DEF Held
<1>2. MappedChunks' = Total(mapped')
  BY HeldNext DEF Held
<1>3. FloorChunks = Total(AtFloor)
  BY DEF FloorChunks, AtFloor
<1>4. FloorChunks' = FloorChunks
  BY DEF FloorChunks
<1> QED BY <1>1, <1>2, <1>3, <1>4

HoldsFloor ==
  /\ MappedChunks \in Int /\ FloorChunks \in Int
  /\ FloorChunks <= MappedChunks

LEMMA HoldsItsFloor == IInv => HoldsFloor
<1> SUFFICES ASSUME IInv PROVE HoldsFloor
  OBVIOUS
<1>1. TypeOK /\ OpInv /\ MappedInv /\ mapped \in [Kinds -> [Layers -> Nat]]
  BY DEF IInv, TypeOK
<1>2. HostFloor \in 0 .. NumRows /\ NumRows \in Nat
  BY HostFloorFits, SizesAssumption
<1>3. ASSUME NEW k \in Kinds, NEW l \in Layers
      PROVE  AtFloor[k][l] <= mapped[k][l]
  <2>1. S[l] \in 0 .. NumRows /\ HostFloor <= S[l]
    BY <1>1, HostFloorFits DEF TypeOK, OpInv
  <2>2. HeldRows(k, l) \in 0 .. NumRows /\ HostFloor <= HeldRows(k, l)
    <3>1. CASE HeldRows(k, l) = S[l]
      BY <2>1, <3>1
    <3>2. CASE HeldRows(k, l) # S[l]
      <4>1. /\ HeldRows(k, l) = op.to /\ op.lid = l
            /\ op.pc \in {"gather", "ensure", "release"}
        BY <3>2 DEF HeldRows
      <4>2. op.to \in 0 .. NumRows
        BY <1>1, <4>1, OpPlace
      <4>3. CASE op.pc = "release"
        BY <1>1, <4>1, <4>2, <4>3, HostFloorFits DEF OpInv
      <4>4. CASE op.pc # "release"
        <5>1. S[l] < op.to
          BY <1>1, <4>1, <4>4 DEF OpInv
        <5> QED BY <1>2, <2>1, <4>1, <4>2, <5>1
      <4> QED BY <4>3, <4>4
    <3> QED BY <3>1, <3>2
  <2>3. ChunksForRows(k, HostFloor) <= ChunksForRows(k, HeldRows(k, l))
    <3>1. HostFloor \in Nat /\ HeldRows(k, l) \in Nat
      BY <1>2, <2>2
    <3> QED BY <2>2, <3>1, ChunksMonotone
  <2>4. mapped[k][l] >= ChunksForRows(k, HeldRows(k, l))
    BY <1>1 DEF MappedInv
  <2>5. /\ ChunksForRows(k, HostFloor) \in Nat /\ ChunksForRows(k, HeldRows(k, l)) \in Nat
        /\ mapped[k][l] \in Nat
    <3>1. HostFloor \in Nat /\ HeldRows(k, l) \in Nat
      BY <1>2, <2>2
    <3> QED BY <1>1, <3>1, ChunksEnough
  <2> QED BY <2>3, <2>4, <2>5 DEF AtFloor
<1>4. /\ Total(AtFloor) <= Total(mapped)
      /\ Total(AtFloor) \in Int /\ Total(mapped) \in Int
  BY <1>1, <1>3, AtFloorType, ChunksCompare
<1> QED BY <1>4, HeldIsChunks DEF HoldsFloor

LEMMA HoldsItsFloorNext == IInv' => HoldsFloor'
BY HoldsItsFloor, PTL

(* When all layers are at the floor there is nothing left to give.         *)
LEMMA FloorHolds ==
  ASSUME IInv, op.pc = "head", \A l \in Layers : S[l] = s_floor
  PROVE  MappedChunks = FloorChunks
<1>1. TypeOK /\ MappedInv /\ SlotPartition /\ mapped \in [Kinds -> [Layers -> Nat]]
  BY DEF IInv, TypeOK
<1>2. s_floor = HostFloor
  <2>1. /\ s_floor \in 0 .. NumRows /\ HostFits(s_floor)
        /\ \A s \in 0 .. NumRows : HostFits(s) => s_floor <= s
    BY <1>1, FloorIsHostFloor
  <2>2. s_floor <= HostFloor /\ HostFloor <= s_floor /\ NumRows \in Int
    BY <2>1, HostFloorFits, SizesAssumption
  <2> QED BY <2>1, <2>2, HostFloorFits
<1>3. ASSUME NEW k \in Kinds, NEW l \in Layers
      PROVE  mapped[k][l] = ChunksForRows(k, HostFloor)
  <2>1. HeldRows(k, l) = S[l]
    BY DEF HeldRows
  <2>2. S[l] = HostFloor
    BY <1>2
  <2>3. mapped[k][l] = ChunksForRows(k, HeldRows(k, l))
    BY <1>1 DEF MappedInv
  <2> QED BY <2>1, <2>2, <2>3
<1>4. mapped = AtFloor
  BY <1>1, <1>3, AtFloorType DEF AtFloor
<1> QED BY <1>4, HeldIsChunks

-----------------------------------------------------------------------------
(* Initial states.                                                         *)

LEMMA InitMaps == Init => Lender!LenderInit
<1> SUFFICES ASSUME Init PROVE Lender!LenderInit
  OBVIOUS
<1>1. MappedChunks \in Int /\ FloorChunks \in Int /\ FloorChunks <= MappedChunks
  BY InitInv, HoldsItsFloor DEF HoldsFloor
<1>2. free \in 0 .. Vram /\ free + MappedChunks <= Vram /\ op = IdleOp /\ Vram \in Nat
  BY SizesAssumption DEF Init
<1>3. op.cmd # "free"
  BY <1>2 DEF IdleOp
<1>4. MappedChunks \in FloorChunks .. Vram /\ free \in 0 .. Vram - MappedChunks
  BY <1>1, <1>2
<1> QED BY <1>3, <1>4 DEF Lender!LenderInit

-----------------------------------------------------------------------------
(* Steps.                                                                  *)

(* What somebody has asked the cache for.                                  *)
Asked == IF op.cmd = "free" THEN op.arg ELSE NoWant

(* Most steps of a command are none of the lender.                         *)
LEMMA Stutters ==
  ASSUME mapped' = mapped, free' = free, Asked' = Asked
  PROVE  UNCHANGED Lender!lender
<1>1. MappedChunks' = MappedChunks
  BY HeldIsChunks
<1> QED BY <1>1 DEF Lender!lender, Asked

(* On its own account the cache moves memory between itself and the driver.*)
LEMMA Resizes ==
  ASSUME IInv, IInv', op.cmd # "free", op'.cmd # "free",
         NEW k \in Kinds, NEW l \in Layers, NEW c \in Nat,
         mapped' = [mapped EXCEPT ![k][l] = c],
         free' = free + (mapped[k][l] - c), c - mapped[k][l] <= free
  PROVE  Lender!Resize
<1>1. mapped \in [Kinds -> [Layers -> Nat]] /\ free \in Nat /\ mapped[k][l] \in Nat
  BY DEF IInv, TypeOK
<1>2. Total(mapped') = Total(mapped) + (c - mapped[k][l]) /\ Total(mapped) \in Int
  BY <1>1, ChunksChange
<1>3. FloorChunks \in Int /\ FloorChunks <= MappedChunks'
  BY HoldsItsFloorNext, HeldIsChunks DEF HoldsFloor
<1>4. /\ MappedChunks \in Int /\ MappedChunks' = MappedChunks + (c - mapped[k][l])
  BY <1>2, HeldIsChunks
<1>5. /\ MappedChunks' \in FloorChunks .. MappedChunks + free
      /\ free' = free + MappedChunks - MappedChunks'
  BY <1>1, <1>3, <1>4
<1> QED BY <1>5 DEF Lender!Resize

(* In a free, it only gives.                                               *)
LEMMA Gives ==
  ASSUME IInv, IInv', op.cmd = "free", Asked' = Asked,
         NEW k \in Kinds, NEW l \in Layers, NEW c \in Nat, c <= mapped[k][l],
         mapped' = [mapped EXCEPT ![k][l] = c],
         free' = free + (mapped[k][l] - c)
  PROVE  Lender!Give \/ UNCHANGED Lender!lender
<1>1. mapped \in [Kinds -> [Layers -> Nat]] /\ free \in Nat /\ mapped[k][l] \in Nat
  BY DEF IInv, TypeOK
<1>2. Total(mapped') = Total(mapped) + (c - mapped[k][l]) /\ Total(mapped) \in Int
  BY <1>1, ChunksChange
<1>3. FloorChunks \in Int /\ FloorChunks <= MappedChunks'
  BY HoldsItsFloorNext, HeldIsChunks DEF HoldsFloor
<1>4. /\ MappedChunks \in Int /\ MappedChunks' = MappedChunks + (c - mapped[k][l])
  BY <1>2, HeldIsChunks
<1>5. Asked # NoWant /\ Asked \in Nat
  BY NoWantAssumption DEF Asked, IInv, TypeOK, Ops
<1>6. CASE c = mapped[k][l]
  <2>1. mapped' = mapped /\ free' = free
    BY <1>1, <1>6
  <2> QED BY <2>1, Stutters
<1>7. CASE c # mapped[k][l]
  <2>1. PICK n : n = mapped[k][l] - c
    OBVIOUS
  <2>2. /\ n \in 1 .. MappedChunks - FloorChunks
        /\ MappedChunks' = MappedChunks - n /\ free' = free + n
    BY <1>1, <1>3, <1>4, <1>7, <2>1
  <2> QED BY <1>5, <2>2 DEF Lender!Give, Asked
<1> QED BY <1>6, <1>7

(* A step that ends, starts or continues a command other than free.        *)
LEMMA NobodyAsks ==
  ASSUME op.cmd # "free", op'.cmd # "free"
  PROVE  Asked = NoWant /\ Asked' = NoWant
BY DEF Asked

(* The steps of a command that map and unmap nothing.                      *)
LEMMA QuietMaps ==
  ASSUME IInv, IInv', \/ \E n \in SizeArgs : SetS(n)
                      \/ \E r \in FillArgs : Fill(r)
                      \/ Regrow \/ FillHead \/ LayersDone \/ StartResize \/ Gather \/ Take
  PROVE  UNCHANGED Lender!lender
<1>0. TypeOK /\ OpInv /\ SlotPartition /\ op \in Ops
  BY DEF IInv, TypeOK
<1>1. mapped' = mapped /\ free' = free
  BY DEF SetS, Fill, Regrow, Start, FillHead, LayersDone, StartResize, Gather, Take
<1>2. Asked' = Asked
  <2>1. CASE (\E n \in SizeArgs : SetS(n)) \/ (\E r \in FillArgs : Fill(r)) \/ Regrow
    <3>1. op.cmd = "idle" /\ op'.cmd \in {"S", "fill"}
      <4>1. PICK cmd \in {"S", "fill"} : \E pc, arg, goal : Start(cmd, pc, arg, goal)
        BY <2>1 DEF SetS, Fill, Regrow
      <4> QED BY <1>0, <4>1 DEF Start, Idle, Ops
    <3> QED BY <3>1, NobodyAsks
  <2>2. CASE FillHead
    <3>1. op.cmd = "fill" /\ op'.cmd \in {"fill", "idle"}
      <4>1. CASE op' = IdleOp
        BY <2>2, <4>1 DEF FillHead, IdleOp
      <4>2. CASE op' = [op EXCEPT !.pc = "layer", !.lid = 0]
        BY <1>0, <2>2, <4>2 DEF FillHead, Ops
      <4> QED BY <2>2, <4>1, <4>2 DEF FillHead, Finish
    <3> QED BY <3>1, NobodyAsks
  <2>3. CASE LayersDone
    <3>1. CASE op.cmd = "S"
      <4>1. op'.cmd = "idle"
        BY <2>3, <3>1 DEF LayersDone, Finish, IdleOp
      <4> QED BY <3>1, <4>1, NobodyAsks
    <3>2. CASE op.cmd # "S"
      <4>1. op'.cmd = op.cmd /\ op'.arg = op.arg
        BY <1>0, <2>3, <3>2 DEF LayersDone, Ops
      <4> QED BY <4>1 DEF Asked
    <3> QED BY <3>1, <3>2
  <2>4. CASE StartResize
    <3>1. op.lid \in Layers /\ Target(op.lid) \in 0 .. NumRows
      BY <1>0, <2>4, TargetFits DEF StartResize
    <3>2. S[op.lid] \in 0 .. NumRows /\ NumRows \in Nat
      BY <1>0, <3>1, SizesAssumption DEF TypeOK
    <3>3. op'.cmd = op.cmd /\ op'.arg = op.arg
      BY <1>0, <2>4, <3>1, <3>2 DEF StartResize, Ops
    <3> QED BY <3>3 DEF Asked
  <2>5. CASE Gather
    <3>1. op'.cmd = op.cmd /\ op'.arg = op.arg
      BY <1>0, <2>5 DEF Gather, Ops
    <3> QED BY <3>1 DEF Asked
  <2>6. CASE Take
    <3>1. op.pc = "take"
      BY <2>6 DEF Take
    <3>2. op' = [op EXCEPT !.pc = "release", !.kind = 1]
      BY <1>0, <2>6, <3>1, PoolSuffices DEF Take
    <3>3. op'.cmd = op.cmd /\ op'.arg = op.arg
      BY <1>0, <3>2 DEF Ops
    <3> QED BY <3>3 DEF Asked
  <2> QED BY <2>1, <2>2, <2>3, <2>4, <2>5, <2>6
<1> QED BY <1>1, <1>2, Stutters

(* A command starts to free memory, and when it ends it has kept its word. *)
LEMMA FreeMaps ==
  ASSUME NEW w \in FreeArgs, Free(w), IInv
  PROVE  Lender!Ask(w)
<1>1. /\ op.cmd = "idle" /\ op'.cmd = "free" /\ op'.arg = w
      /\ mapped' = mapped /\ free' = free
  BY DEF Free, Start, Idle, IInv, TypeOK, Ops
<1>2. MappedChunks' = MappedChunks
  BY <1>1, HeldIsChunks
<1> QED BY <1>1, <1>2 DEF Lender!Ask

LEMMA FreeHeadMaps ==
  ASSUME IInv, FreeHead, UNCHANGED others
  PROVE  Lender!Done \/ UNCHANGED Lender!lender
<1>0. /\ op \in Ops /\ op.cmd = "free" /\ op.pc = "head"
      /\ mapped' = mapped /\ free' = free
  BY DEF IInv, TypeOK, FreeHead
<1>1. op' = IdleOp \/ \E goal : op' = [op EXCEPT !.pc = "layer", !.lid = 0, !.goal = goal]
  BY DEF FreeHead, Finish
<1>2. op'.cmd = "idle" \/ (op'.cmd = "free" /\ op'.arg = op.arg)
  <2>1. CASE op' = IdleOp
    BY <2>1 DEF IdleOp
  <2>2. ASSUME NEW goal, op' = [op EXCEPT !.pc = "layer", !.lid = 0, !.goal = goal]
        PROVE  op'.cmd = "free" /\ op'.arg = op.arg
    BY <1>0, <2>2 DEF Ops
  <2> QED BY <1>1, <2>1, <2>2
<1>3. CASE op'.cmd = "free"
  <2>1. op'.cmd = op.cmd /\ op'.arg = op.arg
    BY <1>0, <1>3, <1>2
  <2>2. Asked' = Asked
    BY <2>1 DEF Asked
  <2> QED BY <1>0, <2>2, Stutters
<1>4. CASE op'.cmd # "free"
  <2>1. op'.cmd = "idle"
    BY <1>4, <1>2
  <2>2. op.arg # NoWant
    BY <1>0, NoWantAssumption DEF Ops
  <2>3. MappedChunks' = MappedChunks
    BY <1>0, HeldIsChunks
  <2>4. free >= op.arg \/ MappedChunks = FloorChunks
    <3>1. CASE free >= op.arg
      BY <3>1
    <3>2. CASE ~(free >= op.arg)
      <4>1. [Next]_vars
        BY DEF Next, Step
      <4>2. \A l \in Layers : S[l] = s_floor
        BY <1>0, <2>1, <3>2, <4>1, FreeEndsAtFloor
      <4> QED BY <1>0, <4>2, FloorHolds
    <3> QED BY <3>1, <3>2
  <2> QED BY <1>0, <2>1, <2>2, <2>3, <2>4 DEF Lender!Done
<1> QED BY <1>3, <1>4

(* Growing maps chunks, up to what the driver has; a grow that failed      *)
(* unmaps them, and so does a shrink.                                      *)
LEMMA UnmapIs ==
  ASSUME IInv, NEW k \in Kinds, NEW l \in Layers, NEW n \in 0 .. NumRows, ShrinkRows(k, l, n)
  PROVE  \E c \in Nat : /\ c <= mapped[k][l] /\ mapped' = [mapped EXCEPT ![k][l] = c]
                        /\ free' = free + (mapped[k][l] - c)
<1>1. mapped[k][l] \in Nat /\ n \in Nat
  BY SizesAssumption DEF IInv, TypeOK
<1>2. PICK b : b = ChunksForRows(k, n)
  OBVIOUS
<1>3. b \in Nat
  BY <1>1, <1>2, ChunksEnough
<1>4. PICK c : c = Min({mapped[k][l], b})
  OBVIOUS
<1>5. c \in Nat /\ c <= mapped[k][l]
  BY <1>1, <1>3, <1>4, MinPair
<1>6. /\ mapped' = [mapped EXCEPT ![k][l] = c]
      /\ free' = free + (mapped[k][l] - c)
  BY <1>2, <1>4 DEF ShrinkRows, Unmap
<1> QED BY <1>5, <1>6

LEMMA EnsureMaps ==
  ASSUME IInv, IInv', Ensure
  PROVE  Lender!Resize
<1>0. TypeOK /\ OpInv /\ op \in Ops /\ op.pc = "ensure" /\ op.cmd # "free"
  BY DEF IInv, TypeOK, OpInv, Ensure
<1>1. op.kind \in Kinds /\ op.lid \in Layers /\ op.to \in 0 .. NumRows /\ NumRows \in Nat
  BY <1>0, OpPlace
<1>2. PICK k \in Kinds, l \in Layers : k = op.kind /\ l = op.lid
  BY <1>1
<1>3. PICK need : need = BytesToReach(k, l, op.to)
  OBVIOUS
<1>4. mapped[k][l] \in Nat /\ free \in Nat /\ mapped \in [Kinds -> [Layers -> Nat]]
  BY <1>0 DEF TypeOK
<1>5. need \in Nat
  <2>1. ChunksForRows(k, op.to) \in Nat
    BY <1>1, ChunksEnough
  <2>2. PICK d : d = ChunksForRows(k, op.to) - mapped[k][l]
    OBVIOUS
  <2>3. d \in Int
    BY <1>4, <2>1, <2>2
  <2>4. need = Max({0, d})
    BY <1>3, <2>2 DEF BytesToReach
  <2> QED BY <2>3, <2>4, MaxPair
<1>6. PICK got : got = Granted(need)
  OBVIOUS
<1>7. got \in Nat /\ got <= free
  BY <1>4, <1>5, <1>6, MinPair DEF Granted
<1>8. mapped' = [mapped EXCEPT ![k][l] = @ + got] /\ free' = free - got
  BY <1>2, <1>3, <1>6 DEF Ensure
<1>9. PICK c : c = mapped[k][l] + got
  OBVIOUS
<1>10. /\ c \in Nat /\ mapped' = [mapped EXCEPT ![k][l] = c]
       /\ free' = free + (mapped[k][l] - c) /\ c - mapped[k][l] <= free
  BY <1>4, <1>7, <1>8, <1>9
<1>11. op'.cmd # "free"
  <2>1. CASE op' = NextKind("gather")
    BY <1>0, <2>1, NextKindStep
  <2>2. CASE op' = [op EXCEPT !.pc = "rollback", !.kind = 1]
    BY <1>0, <2>2 DEF Ops
  <2> QED BY <2>1, <2>2 DEF Ensure
<1> QED BY <1>0, <1>2, <1>10, <1>11, Resizes

LEMMA RollbackMaps ==
  ASSUME IInv, IInv', Rollback
  PROVE  Lender!Resize
<1>0. TypeOK /\ OpInv /\ op \in Ops /\ op.pc = "rollback" /\ op.cmd # "free"
  BY DEF IInv, TypeOK, OpInv, Rollback
<1>1. op.kind \in Kinds /\ op.lid \in Layers /\ S[op.lid] \in 0 .. NumRows
  BY <1>0, OpPlace
<1>2. PICK k \in Kinds, l \in Layers : k = op.kind /\ l = op.lid
  BY <1>1
<1>3. PICK c \in Nat : /\ c <= mapped[k][l] /\ mapped' = [mapped EXCEPT ![k][l] = c]
                       /\ free' = free + (mapped[k][l] - c)
  BY <1>1, <1>2, UnmapIs DEF Rollback
<1>4. c - mapped[k][l] <= free
  BY <1>0, <1>3 DEF TypeOK
<1>5. op'.cmd # "free"
  <2>1. CASE op' = NextKind("rollback")
    BY <1>0, <2>1, NextKindStep
  <2>2. CASE op' = IdleOp
    BY <2>2 DEF IdleOp
  <2> QED BY <2>1, <2>2 DEF Rollback, Finish
<1> QED BY <1>0, <1>3, <1>4, <1>5, Resizes

LEMMA ReleaseMaps ==
  ASSUME IInv, IInv', Release
  PROVE  Lender!Resize \/ Lender!Give \/ UNCHANGED Lender!lender
<1>0. TypeOK /\ OpInv /\ op \in Ops /\ op.pc = "release"
  BY DEF IInv, TypeOK, Release
<1>1. op.kind \in Kinds /\ op.lid \in Layers /\ op.to \in 0 .. NumRows
  BY <1>0, OpPlace
<1>2. PICK k \in Kinds, l \in Layers : k = op.kind /\ l = op.lid
  BY <1>1
<1>3. PICK c \in Nat : /\ c <= mapped[k][l] /\ mapped' = [mapped EXCEPT ![k][l] = c]
                       /\ free' = free + (mapped[k][l] - c)
  BY <1>1, <1>2, UnmapIs DEF Release
<1>4. c - mapped[k][l] <= free
  BY <1>0, <1>3 DEF TypeOK
<1>5. op'.cmd = op.cmd /\ op'.arg = op.arg
  <2>1. CASE op' = NextKind("release")
    BY <1>0, <2>1 DEF NextKind, Ops
  <2>2. CASE op' = [op EXCEPT !.pc = "layer", !.lid = @ + 1, !.kind = 1]
    BY <1>0, <2>2 DEF Ops
  <2> QED BY <2>1, <2>2 DEF Release
<1>6. CASE op.cmd = "free"
  <2>1. Asked' = Asked
    BY <1>5 DEF Asked
  <2> QED BY <1>3, <1>6, <2>1, Gives
<1>7. CASE op.cmd # "free"
  BY <1>3, <1>4, <1>5, <1>7, Resizes
<1> QED BY <1>6, <1>7

LEMMA DriverMemoryMaps ==
  ASSUME IInv, DriverMemory
  PROVE  Lender!FreeBecomes(Vram - MappedChunks)
<1>1. PICK f \in 0 .. Vram : f + MappedChunks <= Vram /\ free' = f
  BY DEF DriverMemory
<1>2. mapped' = mapped /\ op' = op
  BY DEF DriverMemory
<1>3. MappedChunks' = MappedChunks
  BY <1>2, HeldIsChunks
<1>4. MappedChunks \in Int /\ Vram \in Nat
  BY HoldsItsFloor, SizesAssumption DEF HoldsFloor
<1>5. free' \in 0 .. Vram - MappedChunks
  BY <1>1, <1>4
<1> QED BY <1>2, <1>3, <1>5 DEF Lender!FreeBecomes

LEMMA NextMaps == IInv /\ IInv' /\ [Next]_vars => [Lender!LenderNext]_(Lender!lender)
<1> SUFFICES ASSUME IInv, IInv', [Next]_vars
             PROVE  Lender!LenderNext \/ UNCHANGED Lender!lender
  OBVIOUS
<1>0. UNCHANGED others
  BY DEF Next, vars
<1>1. CASE \/ \E n \in SizeArgs : SetS(n)
           \/ \E r \in FillArgs : Fill(r)
           \/ Regrow \/ FillHead \/ LayersDone \/ StartResize \/ Gather \/ Take
  BY <1>1, QuietMaps
<1>2. CASE \E w \in FreeArgs : Free(w)
  BY <1>2, FreeMaps DEF Lender!LenderNext
<1>3. CASE FreeHead
  BY <1>0, <1>3, FreeHeadMaps DEF Lender!LenderNext
<1>4. CASE Ensure
  BY <1>4, EnsureMaps DEF Lender!LenderNext
<1>5. CASE Rollback
  BY <1>5, RollbackMaps DEF Lender!LenderNext
<1>6. CASE Release
  BY <1>6, ReleaseMaps DEF Lender!LenderNext
<1>7. CASE DriverMemory
  BY <1>7, DriverMemoryMaps DEF Lender!LenderNext
<1>8. CASE UNCHANGED vars
  <2>1. mapped' = mapped /\ free' = free /\ op' = op
    BY <1>8 DEF vars
  <2>2. Asked' = Asked
    BY <2>1 DEF Asked
  <2> QED BY <2>1, <2>2, Stutters
<1> QED BY <1>1, <1>2, <1>3, <1>4, <1>5, <1>6, <1>7, <1>8 DEF Next, Command, Step

(* Whatever the commands do and however they end, the cache stays a lender *)
(* of VRAM: it holds its floor at least; while somebody waits for memory   *)
(* it gives and never takes; and it says that it is done only when the     *)
(* amount is free or it is down to the floor (free and the paths of        *)
(* resize_layer, gemv/expert_elastic.py).  That it does say so in the end  *)
(* is the rest of ImplementsLender.                                        *)
THEOREM LendsSafely == Spec => Lender!LenderSafe
<1>1. Init => Lender!LenderInit
  BY InitMaps
<1>2. IInv /\ IInv' /\ [Next]_vars => [Lender!LenderNext]_(Lender!lender)
  BY NextMaps
<1> QED BY <1>1, <1>2, Invariance, PTL DEF Spec, Lender!LenderSafe

-----------------------------------------------------------------------------
(* fill and its reserve.  It looks at the free memory once per round, so   *)
(* what it saw has to be enough for all the layers of the round.           *)

Grown(l) == Min({NumRows, S[l] + StepRows})

(* The chunks of the arenas when the running round is over.                *)
RoundEnd ==
  [k \in Kinds |-> [l \in Layers |->
     IF l < op.lid THEN mapped[k][l] ELSE ChunksForRows(k, Grown(l))]]

(* While nobody else allocates, the rest of the round leaves the reserve:  *)
(* no grow of the round can fail.                                          *)
FillInv ==
  ~others /\ op.cmd = "fill" /\ op.pc # "head" =>
    /\ op.pc \in {"layer", "ensure", "gather"}
    /\ op.pc # "layer" => op.to = Grown(op.lid)
    /\ free + Total(mapped) - Total(RoundEnd) >= op.arg

LEMMA GrownType ==
  ASSUME TypeOK, NEW l \in Layers
  PROVE  /\ S[l] \in 0 .. NumRows /\ Grown(l) \in 0 .. NumRows /\ NumRows \in Nat
         /\ S[l] <= Grown(l)
<1>1. S[l] \in 0 .. NumRows /\ NumRows \in Nat /\ StepRows \in Nat \ {0}
  BY SizesAssumption DEF TypeOK
<1>2. Grown(l) = IF NumRows <= S[l] + StepRows THEN NumRows ELSE S[l] + StepRows
  <2>1. NumRows \in Int /\ S[l] + StepRows \in Int
    BY <1>1
  <2> QED BY <2>1, MinPair DEF Grown
<1> QED BY <1>1, <1>2

LEMMA RoundEndType ==
  ASSUME TypeOK
  PROVE  RoundEnd \in [Kinds -> [Layers -> Nat]]
<1>1. ASSUME NEW k \in Kinds, NEW l \in Layers
      PROVE  mapped[k][l] \in Nat /\ ChunksForRows(k, Grown(l)) \in Nat
  <2>1. Grown(l) \in Nat
    BY GrownType
  <2> QED BY <2>1, ChunksEnough DEF TypeOK
<1> QED BY <1>1 DEF RoundEnd

(* A round only adds to the arenas. *)
LEMMA RoundGrows ==
  ASSUME IInv, op.pc \in {"layer", "ensure", "gather"},
         op.pc # "layer" => op.to = Grown(op.lid), NEW k \in Kinds, NEW l \in Layers
  PROVE  mapped[k][l] <= RoundEnd[k][l]
<1>1. TypeOK /\ MappedInv /\ mapped[k][l] \in Nat
  BY DEF IInv, TypeOK
<1>2. CASE l < op.lid
  BY <1>1, <1>2 DEF RoundEnd
<1>3. CASE ~(l < op.lid)
  <2>1. mapped[k][l] = ChunksForRows(k, HeldRows(k, l))
    BY <1>1 DEF MappedInv
  <2>2. S[l] \in Nat /\ Grown(l) \in Nat /\ S[l] <= Grown(l)
    BY <1>1, GrownType
  <2>3. HeldRows(k, l) = S[l] \/ HeldRows(k, l) = Grown(l)
    BY DEF HeldRows
  <2>4. ChunksForRows(k, HeldRows(k, l)) <= ChunksForRows(k, Grown(l))
    BY <2>2, <2>3, ChunksMonotone
  <2> QED BY <1>3, <2>1, <2>4 DEF RoundEnd
<1> QED BY <1>2, <1>3

(* The round that FillHead begins: what it adds is what it has asked for.  *)
LEMMA NeedIsTheRound ==
  ASSUME IInv, op.pc = "head"
  PROVE  LET end == [k \in Kinds |-> [l \in Layers |-> ChunksForRows(k, Grown(l))]]
         IN  /\ Total(mapped) \in Int /\ FillNeed \in Int
             /\ Total(end) = Total(mapped) + FillNeed
<1> DEFINE end == [k \in Kinds |-> [l \in Layers |-> ChunksForRows(k, Grown(l))]]
           need == [k \in Kinds |-> [l \in Layers |-> BytesToReach(k, l, Grown(l))]]
<1>1. TypeOK /\ MappedInv /\ mapped \in [Kinds -> [Layers -> Nat]]
  BY DEF IInv, TypeOK
<1>2. FillNeed = Total(need)
  BY DEF FillNeed, Grown
<1>3. ASSUME NEW k \in Kinds, NEW l \in Layers
      PROVE  /\ end[k][l] \in Nat /\ need[k][l] \in Nat
             /\ end[k][l] = mapped[k][l] + need[k][l]
  <2>1. S[l] \in Nat /\ Grown(l) \in Nat /\ S[l] <= Grown(l)
    BY <1>1, GrownType
  <2>2. mapped[k][l] = ChunksForRows(k, S[l])
    BY <1>1 DEF MappedInv, HeldRows
  <2>3. PICK c : c = ChunksForRows(k, Grown(l))
    OBVIOUS
  <2>4. c \in Nat /\ mapped[k][l] \in Nat /\ mapped[k][l] <= c
    BY <1>1, <2>1, <2>2, <2>3, ChunksMonotone, ChunksEnough
  <2>5. PICK d : d = c - mapped[k][l]
    OBVIOUS
  <2>6. d \in Nat
    BY <2>4, <2>5
  <2>7. need[k][l] = Max({0, d})
    BY <2>3, <2>5 DEF BytesToReach
  <2>8. need[k][l] = d
    BY <2>6, <2>7, MaxPair
  <2>9. end[k][l] = c
    BY <2>3
  <2> QED BY <2>4, <2>5, <2>6, <2>8, <2>9
<1>4. end \in [Kinds -> [Layers -> Nat]] /\ need \in [Kinds -> [Layers -> Nat]]
  BY <1>3
<1> HIDE DEF end, need
<1>5. /\ Total(mapped) \in Int /\ Total(need) \in Int
      /\ Total(end) = Total(mapped) + Total(need)
  BY <1>1, <1>3, <1>4, TotalsAdd
<1> QED BY <1>2, <1>5 DEF end

(* In its round, a grow finds the memory it needs. *)
LEMMA GrowSucceeds ==
  ASSUME IInv, FillInv, ~others, op.cmd = "fill", Ensure
  PROVE  /\ op' = NextKind("gather") /\ free' >= op.arg
         /\ mapped' = [mapped EXCEPT ![op.kind][op.lid] = ChunksForRows(op.kind, op.to)]
         /\ free' + Total(mapped') = free + Total(mapped)
<1>0. TypeOK /\ OpInv /\ op \in Ops /\ op.pc = "ensure" /\ op.arg \in Nat
  BY DEF IInv, TypeOK, Ensure, Ops
<1>1. op.kind \in Kinds /\ op.lid \in Layers /\ op.to \in 0 .. NumRows /\ NumRows \in Nat
  BY <1>0, OpPlace
<1>2. PICK k \in Kinds, l \in Layers : k = op.kind /\ l = op.lid
  BY <1>1
<1>3. PICK R : R = RoundEnd
  OBVIOUS
<1>4. /\ R \in [Kinds -> [Layers -> Nat]] /\ mapped \in [Kinds -> [Layers -> Nat]]
      /\ free \in Nat /\ mapped[k][l] \in Nat /\ R[k][l] \in Nat
  BY <1>0, <1>3, RoundEndType DEF TypeOK
<1>5. /\ op.to = Grown(op.lid) /\ free + Total(mapped) - Total(R) >= op.arg
  BY <1>0, <1>3 DEF FillInv
<1>6. R[k][l] = ChunksForRows(k, op.to)
  <2>1. ~(l < op.lid)
    BY <1>1, <1>2 DEF Layers
  <2> QED BY <1>2, <1>3, <1>5, <2>1 DEF RoundEnd
<1>7. \A j \in Kinds, m \in Layers : mapped[j][m] <= R[j][m]
  BY <1>0, <1>3, <1>5, RoundGrows
<1>8. PICK w : w = [mapped EXCEPT ![k][l] = R[k][l]]
  OBVIOUS
<1>9. w \in [Kinds -> [Layers -> Nat]] /\ \A j \in Kinds, m \in Layers : w[j][m] <= R[j][m]
  BY <1>4, <1>7, <1>8
<1>10. Total(w) <= Total(R) /\ Total(w) \in Int /\ Total(R) \in Int
  BY <1>4, <1>9, ChunksCompare
<1>11. Total(w) = Total(mapped) + (R[k][l] - mapped[k][l]) /\ Total(mapped) \in Int
  BY <1>4, <1>8, ChunksChange
<1>12. PICK need : need = BytesToReach(k, l, op.to)
  OBVIOUS
<1>13. need = R[k][l] - mapped[k][l] /\ need \in Nat
  <2>1. PICK d : d = R[k][l] - mapped[k][l]
    OBVIOUS
  <2>2. d \in Nat
    BY <1>4, <1>7, <2>1
  <2>3. need = Max({0, d})
    BY <1>6, <1>12, <2>1 DEF BytesToReach
  <2> QED BY <2>1, <2>2, <2>3, MaxPair
<1>14. need <= free - op.arg
  BY <1>0, <1>4, <1>5, <1>10, <1>11, <1>13
<1>15. Granted(need) = need
  <2>1. need <= free
    BY <1>0, <1>4, <1>13, <1>14
  <2> QED BY <1>4, <1>13, <2>1, MinPair DEF Granted
<1>16. /\ mapped' = [mapped EXCEPT ![k][l] = @ + need] /\ free' = free - need
       /\ op' = NextKind("gather")
  BY <1>2, <1>12, <1>15 DEF Ensure
<1>17. mapped' = w
  <2>1. mapped[k][l] + need = R[k][l]
    BY <1>4, <1>13
  <2>2. mapped' = [mapped EXCEPT ![k][l] = mapped[k][l] + need]
    BY <1>16
  <2> QED BY <1>8, <2>1, <2>2
<1>18. free' >= op.arg /\ free' + Total(w) = free + Total(mapped)
  BY <1>0, <1>4, <1>11, <1>13, <1>14, <1>16
<1> QED BY <1>2, <1>6, <1>8, <1>16, <1>17, <1>18

(* A step within a round neither changes where the round leads nor, with   *)
(* what it maps, what is left then.                                        *)
LEMMA RoundGoesOn ==
  ASSUME IInv, IInv', FillInv, ~others, op.cmd = "fill", op.pc # "head", op'.arg = op.arg,
         op'.pc \in {"layer", "ensure", "gather"},
         op'.pc # "layer" => op'.to = Grown(op.lid)',
         RoundEnd' = RoundEnd, free' + Total(mapped') = free + Total(mapped)
  PROVE  FillInv'
<1>1. free + Total(mapped) - Total(RoundEnd) >= op.arg
  BY DEF FillInv
<1>2. Total(RoundEnd') = Total(RoundEnd)
  OBVIOUS
<1>3. free' + Total(mapped') - Total(RoundEnd') >= op'.arg
  <2>1. /\ mapped \in [Kinds -> [Layers -> Nat]] /\ mapped' \in [Kinds -> [Layers -> Nat]]
        /\ free \in Nat /\ free' \in Nat /\ op.arg \in Nat
    BY DEF IInv, TypeOK, Ops
  <2>2. Total(mapped) \in Int /\ Total(mapped') \in Int
    BY <2>1, TotalType
  <2>3. Total(RoundEnd) \in Int
    BY RoundEndType, TotalType DEF IInv
  <2> QED BY <1>1, <1>2, <2>1, <2>2, <2>3
<1> QED BY <1>3 DEF FillInv

LEMMA FillInvStep == IInv /\ IInv' /\ FillInv /\ [Next]_vars => FillInv'
<1> SUFFICES ASSUME IInv, IInv', FillInv, [Next]_vars, ~others', op'.cmd = "fill", op'.pc # "head"
             PROVE  FillInv'
  BY DEF FillInv
<1>0. /\ TypeOK /\ OpInv /\ op \in Ops /\ others' = others /\ ~others
      /\ mapped \in [Kinds -> [Layers -> Nat]]
  BY DEF IInv, TypeOK, Next, vars
<1>1. CASE Command
  <2>1. op' = [op EXCEPT !.cmd = "S", !.pc = "layer", !.arg = op'.arg, !.goal = op'.goal]
        \/ op'.pc = "head"
    BY <1>0, <1>1 DEF Command, SetS, Fill, Free, Regrow, Start, Ops
  <2>2. op'.cmd = "S" \/ op'.pc = "head"
    BY <1>0, <2>1 DEF Ops
  <2> QED BY <2>2
<1>2. CASE FillHead
  <2>1. /\ op' = [op EXCEPT !.pc = "layer", !.lid = 0] /\ ~(free - FillNeed < op.arg)
        /\ UNCHANGED <<S, mapped, free, memory>> /\ op.pc = "head"
    BY <1>2 DEF FillHead, Finish, IdleOp
  <2>2. op'.pc = "layer" /\ op'.lid = 0 /\ op'.arg = op.arg /\ op.arg \in Nat /\ free \in Nat
    BY <1>0, <2>1 DEF Ops, TypeOK
  <2>3. PICK end : end = [k \in Kinds |-> [l \in Layers |-> ChunksForRows(k, Grown(l))]]
    OBVIOUS
  <2>4. /\ Total(mapped) \in Int /\ FillNeed \in Int
        /\ Total(end) = Total(mapped) + FillNeed
    BY <2>1, <2>3, NeedIsTheRound
  <2>5. RoundEnd' = end
    <3>1. \A l \in Layers : Grown(l)' = Grown(l) /\ ~(l < op'.lid)
      BY <2>1, <2>2, SizesAssumption DEF Grown, Layers
    <3>2. \A k \in Kinds, l \in Layers : ChunksForRows(k, Grown(l)') = ChunksForRows(k, Grown(l))
      BY <3>1
    <3> QED BY <2>3, <3>1, <3>2 DEF RoundEnd
  <2>6. free' = free /\ mapped' = mapped
    BY <2>1
  <2>7. free - FillNeed >= op.arg
    BY <2>1, <2>2, <2>4
  <2>8. free' + Total(mapped') - Total(RoundEnd') >= op'.arg
    BY <2>2, <2>4, <2>5, <2>6, <2>7
  <2> QED BY <2>2, <2>8 DEF FillInv
<1>3. CASE FreeHead
  <2>1. CASE op' = IdleOp
    BY <2>1 DEF IdleOp
  <2>2. ASSUME NEW g, op' = [op EXCEPT !.pc = "layer", !.lid = 0, !.goal = g]
        PROVE  op'.cmd = "free"
    BY <1>0, <1>3, <2>2 DEF FreeHead, Ops
  <2> QED BY <1>3, <2>1, <2>2 DEF FreeHead, Finish
<1>4. CASE LayersDone
  <2>1. CASE op.cmd = "S"
    BY <1>4, <2>1 DEF LayersDone, Finish, IdleOp
  <2>2. CASE op.cmd # "S"
    BY <1>0, <1>4, <2>2 DEF LayersDone, Ops
  <2> QED BY <2>1, <2>2
<1>5. CASE StartResize
  <2>1. /\ op.pc = "layer" /\ op.lid \in Layers /\ UNCHANGED <<S, mapped, free>>
        /\ Target(op.lid) \in 0 .. NumRows
    BY <1>0, <1>5, TargetFits DEF StartResize, AtLayer
  <2>2. /\ S[op.lid] \in 0 .. NumRows /\ Grown(op.lid) \in 0 .. NumRows /\ S[op.lid] <= Grown(op.lid)
        /\ NumRows \in Nat /\ op.lid \in Nat
    BY <1>0, <2>1, GrownType DEF Layers
  <2>3. /\ op' = CASE Target(op.lid) = S[op.lid] -> [op EXCEPT !.lid = @ + 1]
                   [] Target(op.lid) > S[op.lid] ->
                        [op EXCEPT !.pc = "ensure", !.to = Target(op.lid), !.kind = 1]
                   [] Target(op.lid) < S[op.lid] ->
                        [op EXCEPT !.pc = "take", !.to = Target(op.lid), !.kind = 1]
    BY <1>5 DEF StartResize
  <2>4. op.cmd = "fill"
    <3>1. CASE Target(op.lid) = S[op.lid]
      BY <1>0, <2>3, <3>1 DEF Ops
    <3>2. CASE Target(op.lid) > S[op.lid]
      BY <1>0, <2>1, <2>2, <2>3, <3>2 DEF Ops
    <3>3. CASE Target(op.lid) < S[op.lid]
      BY <1>0, <2>1, <2>2, <2>3, <3>3 DEF Ops
    <3> QED BY <2>1, <2>2, <3>1, <3>2, <3>3
  <2>5. Target(op.lid) = Grown(op.lid)
    BY <2>4 DEF Target, Grown
  <2>6. \A l \in Layers : Grown(l)' = Grown(l)
    BY <2>1 DEF Grown
  <2>7. CASE Grown(op.lid) = S[op.lid]
    <3>1. op' = [op EXCEPT !.lid = op.lid + 1]
      BY <2>2, <2>3, <2>5, <2>7
    <3>2. op'.lid = op.lid + 1 /\ op'.pc = "layer" /\ op'.arg = op.arg
      BY <1>0, <2>1, <3>1 DEF Ops
    <3>3. ASSUME NEW k \in Kinds, NEW l \in Layers
          PROVE  (IF l < op'.lid THEN mapped[k][l] ELSE ChunksForRows(k, Grown(l)))
                   = (IF l < op.lid THEN mapped[k][l] ELSE ChunksForRows(k, Grown(l)))
      <4>1. CASE l = op.lid
        <5>1. mapped[k][l] = ChunksForRows(k, S[l])
          BY <2>1 DEF IInv, MappedInv, HeldRows
        <5> QED BY <2>7, <3>2, <4>1, <5>1
      <4>2. CASE l # op.lid
        BY <2>2, <3>2, <4>2 DEF Layers
      <4> QED BY <4>1, <4>2
    <3>4. RoundEnd' = RoundEnd
      BY <2>1, <2>6, <3>3 DEF RoundEnd
    <3>5. free' + Total(mapped') = free + Total(mapped)
      BY <2>1
    <3> QED BY <1>0, <2>1, <2>4, <3>2, <3>4, <3>5, RoundGoesOn
  <2>8. CASE Grown(op.lid) # S[op.lid]
    <3>1. op' = [op EXCEPT !.pc = "ensure", !.to = Grown(op.lid), !.kind = 1]
      BY <2>2, <2>3, <2>5, <2>8
    <3>2. op'.lid = op.lid /\ op'.pc = "ensure" /\ op'.arg = op.arg /\ op'.to = Grown(op.lid)
      BY <1>0, <3>1 DEF Ops
    <3>3. RoundEnd' = RoundEnd
      BY <2>1, <2>6, <3>2 DEF RoundEnd
    <3>4. free' + Total(mapped') = free + Total(mapped)
      BY <2>1
    <3>5. op'.to = Grown(op.lid)'
      BY <2>1, <3>2 DEF Grown
    <3> QED BY <1>0, <2>1, <2>4, <3>2, <3>3, <3>4, <3>5, RoundGoesOn
  <2> QED BY <2>7, <2>8
<1>6. CASE Ensure
  <2>1. op.pc = "ensure" /\ S' = S
    BY <1>6 DEF Ensure
  <2>2. op.cmd = "fill"
    <3>1. CASE op' = NextKind("gather")
      BY <1>0, <3>1, NextKindStep
    <3>2. CASE op' = [op EXCEPT !.pc = "rollback", !.kind = 1]
      BY <1>0, <3>2 DEF Ops
    <3> QED BY <1>6, <3>1, <3>2 DEF Ensure
  <2>3. /\ op' = NextKind("gather") /\ free' + Total(mapped') = free + Total(mapped)
        /\ mapped' = [mapped EXCEPT ![op.kind][op.lid] = ChunksForRows(op.kind, op.to)]
    BY <1>0, <1>6, <2>2, GrowSucceeds
  <2>4. /\ op'.lid = op.lid /\ op'.to = op.to /\ op'.pc \in {"ensure", "gather"} /\ op'.arg = op.arg
    <3>1. op'.lid = op.lid /\ op'.to = op.to /\ op'.pc \in {"ensure", "gather"}
      BY <1>0, <2>1, <2>3, NextKindStep
    <3>2. op'.arg = op.arg
      BY <1>0, <2>3 DEF NextKind, Ops
    <3> QED BY <3>1, <3>2
  <2>5. \A l \in Layers : Grown(l)' = Grown(l)
    BY <2>1 DEF Grown
  <2>6. op.to = Grown(op.lid) /\ op.lid \in Layers
    BY <1>0, <2>1, <2>2, OpPlace DEF FillInv
  <2>7. \A k \in Kinds, l \in Layers : l < op.lid => mapped'[k][l] = mapped[k][l]
    <3>1. \A l \in Layers : l < op.lid => l # op.lid
      BY <2>6 DEF Layers
    <3> QED BY <1>0, <2>3, <3>1
  <2>8. RoundEnd' = RoundEnd
    BY <2>4, <2>5, <2>7 DEF RoundEnd
  <2>9. op'.to = Grown(op.lid)'
    BY <2>1, <2>4, <2>6 DEF Grown
  <2> QED BY <1>0, <2>1, <2>2, <2>3, <2>4, <2>8, <2>9, RoundGoesOn
<1>7. CASE Gather
  <2>1. /\ op.pc = "gather" /\ UNCHANGED <<mapped, free>> /\ S' = [S EXCEPT ![op.lid] = op.to]
        /\ op' = [op EXCEPT !.pc = "layer", !.lid = @ + 1]
    BY <1>7 DEF Gather
  <2>2. op'.pc = "layer" /\ op'.lid = op.lid + 1 /\ op'.arg = op.arg /\ op.cmd = "fill"
    BY <1>0, <2>1 DEF Ops
  <2>3. op.to = Grown(op.lid) /\ op.lid \in Layers /\ op.lid \in Nat
    <3>1. op.to = Grown(op.lid) /\ op.lid \in Layers
      BY <1>0, <2>1, <2>2, OpPlace DEF FillInv
    <3> QED BY <3>1 DEF Layers
  <2>4. ASSUME NEW k \in Kinds, NEW l \in Layers
        PROVE  (IF l < op'.lid THEN mapped[k][l] ELSE ChunksForRows(k, Grown(l)'))
                 = (IF l < op.lid THEN mapped[k][l] ELSE ChunksForRows(k, Grown(l)))
    <3>1. CASE l = op.lid
      <4>1. mapped[k][l] = ChunksForRows(k, op.to)
        BY <2>1, <3>1 DEF IInv, MappedInv, HeldRows
      <4> QED BY <2>2, <2>3, <3>1, <4>1
    <3>2. CASE l # op.lid
      <4>1. S'[l] = S[l]
        BY <1>0, <2>1, <3>2 DEF TypeOK
      <4>2. Grown(l)' = Grown(l)
        BY <4>1 DEF Grown
      <4> QED BY <2>2, <2>3, <3>2, <4>2 DEF Layers
    <3> QED BY <3>1, <3>2
  <2>5. RoundEnd' = RoundEnd
    BY <2>1, <2>4 DEF RoundEnd
  <2>6. free' + Total(mapped') = free + Total(mapped)
    BY <2>1
  <2> QED BY <1>0, <2>1, <2>2, <2>5, <2>6, RoundGoesOn
<1>8. CASE Rollback \/ Take \/ Release
  <2>1. op.cmd = "fill"
    <3>1. CASE Rollback
      <4>1. CASE op' = NextKind("rollback")
        BY <1>0, <4>1, NextKindStep
      <4>2. CASE op' = IdleOp
        BY <4>2 DEF IdleOp
      <4> QED BY <3>1, <4>1, <4>2 DEF Rollback, Finish
    <3>2. CASE Take
      <4>1. op.pc = "take"
        BY <3>2 DEF Take
      <4>2. op' = [op EXCEPT !.pc = "release", !.kind = 1]
        BY <1>0, <3>2, <4>1, PoolSuffices DEF Take, IInv
      <4> QED BY <1>0, <4>2 DEF Ops
    <3>3. CASE Release
      <4>1. CASE op' = NextKind("release")
        BY <1>0, <4>1, NextKindStep
      <4>2. CASE op' = [op EXCEPT !.pc = "layer", !.lid = @ + 1, !.kind = 1]
        BY <1>0, <4>2 DEF Ops
      <4> QED BY <3>3, <4>1, <4>2 DEF Release
    <3> QED BY <1>8, <3>1, <3>2, <3>3
  <2>2. op.pc \in {"rollback", "take", "release"}
    BY <1>8 DEF Rollback, Take, Release
  <2> QED BY <1>0, <2>1, <2>2 DEF FillInv
<1>9. CASE DriverMemory
  <2>1. op' = op /\ op.cmd = "idle"
    BY <1>0, <1>9 DEF DriverMemory, Idle
  <2> QED BY <2>1
<1>10. CASE UNCHANGED vars
  <2>1. UNCHANGED <<S, mapped, free, op>>
    BY <1>10 DEF vars
  <2>2. \A l \in Layers : Grown(l)' = Grown(l)
    BY <2>1 DEF Grown
  <2>3. RoundEnd' = RoundEnd
    BY <2>1, <2>2 DEF RoundEnd
  <2>4. op.pc # "layer" => op.to = Grown(op.lid)
    BY <1>0, <2>1 DEF FillInv
  <2>5. op'.pc # "layer" => op'.to = Grown(op.lid)'
    BY <2>1, <2>4 DEF Grown
  <2>6. op.pc \in {"layer", "ensure", "gather"}
    BY <1>0, <2>1 DEF FillInv
  <2> QED BY <1>0, <2>1, <2>3, <2>5, <2>6, RoundGoesOn
<1> QED BY <1>1, <1>2, <1>3, <1>4, <1>5, <1>6, <1>7, <1>8, <1>9, <1>10 DEF Next, Step

(* While nobody else allocates, fill(reserve) leaves the driver its        *)
(* reserve after every chunk it maps, through all its rounds and layers:   *)
(* the one look at the free memory per round is enough.                    *)
THEOREM FillSparesTheReserve == Spec => FillKeepsReserve
<1>1. Init => FillInv
  BY DEF Init, IdleOp, FillInv
<1>2. IInv /\ IInv' /\ FillInv /\ [Next]_vars => FillInv'
  BY FillInvStep
<1>3. IInv /\ FillInv /\ [Next]_vars
        => [~others /\ op.cmd = "fill" /\ free' < free => free' >= op.arg]_vars
  <2> SUFFICES ASSUME IInv, FillInv, [Next]_vars, ~others, op.cmd = "fill", free' < free
               PROVE  free' >= op.arg
    OBVIOUS
  <2>0. TypeOK /\ OpInv /\ free \in Nat
    BY DEF IInv, TypeOK
  <2>1. CASE Ensure
    BY <2>1, GrowSucceeds
  <2>2. CASE Rollback \/ Release
    BY <2>2 DEF FillInv, Rollback, Release
  <2>3. CASE DriverMemory \/ Command
    BY <2>0, <2>3 DEF DriverMemory, Command, SetS, Fill, Free, Regrow, Start, Idle
  <2>4. CASE UNCHANGED free
    BY <2>0, <2>4
  <2> QED BY <2>1, <2>2, <2>3, <2>4 DEF Next, Step, FillHead, FreeHead, LayersDone, StartResize,
          Gather, Take, vars
<1> QED BY <1>1, <1>2, <1>3, Invariance, PTL DEF Spec, FillKeepsReserve
=============================================================================
