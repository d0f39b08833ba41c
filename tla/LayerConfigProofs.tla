------------------------- MODULE LayerConfigProofs -------------------------
(***************************************************************************)
(* Proofs about LayerConfig, for every policy over every set of patterns:  *)
(* the layer_config that is inserted in reverse resolves, by its last      *)
(* match, to the first match of the policy, so that every layer is tuned   *)
(* as it was planned.                                                      *)
(***************************************************************************)
EXTENDS LayerConfig, PrefixLemmas

-----------------------------------------------------------------------------
(* First and last matches.                                                 *)

(* Rules turned round: what matched first matches last, with the values    *)
(* that were put in.                                                       *)
LEMMA ReversedMatch ==
  ASSUME ConfigOK, NEW p \in Seq(Patterns \X Schemes), NEW x \in Layers,
         NEW d, d = [i \in 1 .. Len(p) |->
                       <<p[Len(p) + 1 - i][1], Value(p[Len(p) + 1 - i][2])>>]
  PROVE  LastMatch(d, x) =
           IF FirstMatch(p, x) = None THEN None ELSE Value(FirstMatch(p, x))
<1> DEFINE n == Len(p)
           M == Matches(p, x)
<1>1. n \in Nat /\ Len(d) = n /\ DOMAIN p = 1 .. n
  OBVIOUS
<1>2. Matches(d, x) = {i \in 1 .. n : n + 1 - i \in M}
  <2>1. \A i \in 1 .. n : n + 1 - i \in 1 .. n /\ d[i][1] = p[n + 1 - i][1]
    BY <1>1
  <2> QED BY <1>1, <2>1 DEF Matches
<1>3. CASE M = {}
  BY <1>2, <1>3 DEF LastMatch, FirstMatch
<1>4. CASE M # {}
  <2>1. PICK f \in M : \A j \in M : f <= j
    <3>1. M \subseteq Nat
      BY <1>1 DEF Matches
    <3> QED BY <1>4, <3>1, LeastExists
  <2>2. f \in 1 .. n /\ M \subseteq 1 .. n
    BY DEF Matches
  <2>3. FirstMatch(p, x) = p[f][2]
    <3>1. \A g \in M : (\A j \in M : g <= j) => g = f
      BY <2>1, <2>2, <1>1
    <3>2. (CHOOSE i \in M : \A j \in M : i <= j) = f
      BY <2>1, <3>1
    <3> QED BY <1>4, <3>2 DEF FirstMatch
  <2>4. LastMatch(d, x) = Value(p[f][2])
    <3> DEFINE L == Matches(d, x)
               l == n + 1 - f
    <3>1. l \in L /\ l \in 1 .. n
      <4>1. l \in 1 .. n /\ n + 1 - l = f
        BY <1>1, <2>2
      <4> QED BY <1>2, <4>1
    <3>2. \A i \in L : i \in 1 .. n /\ n + 1 - i \in M
      BY <1>2
    <3>3. \A j \in L : j <= l
      BY <1>1, <2>1, <2>2, <3>2
    <3>4. \A g \in L : (\A j \in L : j <= g) => g = l
      <4> HIDE DEF L, l
      <4> QED BY <1>1, <3>1, <3>2, <3>3
    <3>5. (CHOOSE i \in L : \A j \in L : j <= i) = l
      <4> HIDE DEF L, l
      <4> QED BY <3>1, <3>3, <3>4
    <3>6. d[l] = <<p[f][1], Value(p[f][2])>>
      BY <1>1, <2>2, <3>1
    <3> QED BY <3>1, <3>5, <3>6 DEF LastMatch
  <2>5. p[f][2] \in Schemes
    BY <1>1, <2>2
  <2> QED BY <2>3, <2>4, <2>5 DEF ConfigOK
<1> QED BY <1>3, <1>4

(* The last match of x in a layer_config is one of its schemes.            *)
LEMMA LastMatchType ==
  ASSUME NEW d \in Seq(Patterns \X (Schemes \ {"SKIP"})), NEW x \in Layers
  PROVE  LastMatch(d, x) \in (Schemes \ {"SKIP"}) \cup {None}
<1> DEFINE M == Matches(d, x)
           g == CHOOSE i \in M : \A j \in M : j <= i
<1>1. SUFFICES ASSUME M # {} PROVE g \in M
  <2>1. \A i \in M : d[i][2] \in Schemes \ {"SKIP"}
    <3>1. \A i \in M : i \in 1 .. Len(d)
      BY DEF Matches
    <3>2. \A i \in 1 .. Len(d) : d[i] \in Patterns \X (Schemes \ {"SKIP"})
      OBVIOUS
    <3> QED BY <3>1, <3>2
  <2> QED BY <1>1, <2>1 DEF LastMatch
<1>2. M \subseteq 1 .. Len(d) /\ Len(d) \in Nat
  BY DEF Matches
<1>3. \E i \in M : \A j \in M : j <= i
  <2>1. M \subseteq 0 .. Len(d)
    BY <1>2
  <2> HIDE DEF M
  <2> QED BY <1>1, <1>2, <2>1, GreatestExists
<1> QED BY <1>3

LEMMA FirstMatchType ==
  ASSUME NEW d \in Seq(Patterns \X Schemes), NEW x \in Layers
  PROVE  FirstMatch(d, x) \in Schemes \cup {None}
<1> DEFINE M == Matches(d, x)
           g == CHOOSE i \in M : \A j \in M : i <= j
<1>1. SUFFICES ASSUME M # {} PROVE g \in M
  <2>1. \A i \in M : d[i][2] \in Schemes
    BY DEF Matches
  <2> QED BY <1>1, <2>1 DEF FirstMatch
<1>2. \E i \in M : \A j \in M : i <= j
  <2>1. M \subseteq Nat
    BY DEF Matches
  <2> HIDE DEF M
  <2> QED BY <1>1, <2>1, LeastExists
<1> QED BY <1>2

LEMMA BaseType ==
  ASSUME policy \in Seq(Patterns \X Schemes)
  PROVE  Base \in Schemes
<1> DEFINE g == CHOOSE i \in ExpertAt : \A j \in ExpertAt : j <= i
<1>1. CASE ExpertAt = {}
  BY <1>1 DEF Base, Schemes
<1>2. CASE ExpertAt # {}
  <2>1. ExpertAt \subseteq 1 .. Len(policy) /\ Len(policy) \in Nat
    BY DEF ExpertAt
  <2>2. \E i \in ExpertAt : \A j \in ExpertAt : j <= i
    <3>1. ExpertAt \subseteq 0 .. Len(policy)
      BY <2>1
    <3> QED BY <1>2, <2>1, <3>1, GreatestExists
  <2>3. g \in ExpertAt
    BY <2>2
  <2>4. policy[g][2] \in Schemes
    <3> HIDE DEF g
    <3>1. g \in 1 .. Len(policy)
      BY <2>1, <2>3
    <3> QED BY <3>1
  <2> QED BY <1>2, <2>4 DEF Base
<1> QED BY <1>1, <1>2

(* A key that is put into the dict leaves it a dict.                       *)
LEMMA PutType ==
  ASSUME NEW K, NEW V, NEW d \in Seq(K \X V), NEW k \in K, NEW v \in V
  PROVE  Put(d, k, v) \in Seq(K \X V)
<1>1. CASE \E i \in 1 .. Len(d) : d[i][1] = k
  <2>1. Put(d, k, v) = [i \in 1 .. Len(d) |-> IF d[i][1] = k THEN <<k, v>> ELSE d[i]]
    BY <1>1 DEF Put
  <2>2. \A i \in 1 .. Len(d) : d[i] \in K \X V
    OBVIOUS
  <2>3. Put(d, k, v) \in [1 .. Len(d) -> K \X V] /\ Len(d) \in Nat
    BY <2>1, <2>2
  <2> DEFINE E == K \X V
  <2> HIDE DEF E
  <2>4. [1 .. Len(d) -> E] \subseteq Seq(E)
    BY <2>3
  <2> QED BY <2>3, <2>4 DEF E
<1>2. CASE ~ \E i \in 1 .. Len(d) : d[i][1] = k
  <2>1. Put(d, k, v) = Append(d, <<k, v>>)
    BY <1>2 DEF Put
  <2> DEFINE E == K \X V
  <2>2. d \in Seq(E) /\ <<k, v>> \in E
    OBVIOUS
  <2> HIDE DEF E
  <2>3. Append(d, <<k, v>>) \in Seq(E)
    BY <2>2
  <2> QED BY <2>1, <2>3 DEF E
<1> QED BY <1>1, <1>2

-----------------------------------------------------------------------------
(* The invariant.                                                          *)

(* What the first k insertions leave if no pattern occurs twice.           *)
Reversed(k) == [i \in 1 .. k |-> <<Rule(i)[1], Value(Rule(i)[2])>>]

Written(x) == IF Quantized(x) THEN Config(x) ELSE "BF16"

Inv ==
  /\ TypeOK
  /\ Distinct => lc = Reversed(at)
  /\ pc # "build" => at = Len(policy)
  /\ pc \notin {"build", "mismatch"} => \A x \in Layers : Sure(x) => Resolves(x)
  /\ DistinctIsAccepted
  /\ \A x \in Layers : disk[x] # None => pc = "tune" /\ disk[x] = Written(x)

LEMMA PolicyType ==
  ASSUME ConfigOK, policy \in Policies
  PROVE  /\ policy \in Seq(Patterns \X Schemes) /\ Len(policy) \in Nat
         /\ \A i \in 1 .. Len(policy) :
              /\ Rule(i) = policy[Len(policy) + 1 - i] /\ Len(policy) + 1 - i \in 1 .. Len(policy)
              /\ Rule(i)[1] \in Patterns /\ Rule(i)[2] \in Schemes
<1>1. policy \in Seq(Patterns \X Schemes) /\ Len(policy) \in Nat
  BY DEF ConfigOK
<1>2. ASSUME NEW i \in 1 .. Len(policy)
      PROVE  Len(policy) + 1 - i \in 1 .. Len(policy)
  BY <1>1
<1>3. \A j \in 1 .. Len(policy) : policy[j] \in Patterns \X Schemes
  BY <1>1
<1> QED BY <1>1, <1>2, <1>3 DEF Rule

(* With the whole policy inserted, distinct patterns resolve as planned.   *)
LEMMA DistinctResolves ==
  ASSUME ConfigOK, TypeOK, lc = Reversed(Len(policy))
  PROVE  \A x \in Layers : Resolves(x)
<1>1. policy \in Seq(Patterns \X Schemes)
  BY PolicyType DEF TypeOK
<1>2. lc = [i \in 1 .. Len(policy) |->
             <<policy[Len(policy) + 1 - i][1], Value(policy[Len(policy) + 1 - i][2])>>]
  BY DEF Reversed, Rule
<1> QED BY <1>1, <1>2, ReversedMatch DEF Resolves

LEMMA InitInv ==
  ASSUME ConfigOK, Init
  PROVE  Inv
<1>1. TypeOK
  <2>1. 0 \in 0 .. Len(policy)
    BY PolicyType DEF Init
  <2> QED BY <2>1 DEF Init, TypeOK
<1>2. Distinct => lc = Reversed(at)
  BY DEF Init, Reversed
<1> QED BY <1>1, <1>2 DEF Init, Inv, DistinctIsAccepted

LEMMA InsertInv ==
  ASSUME ConfigOK, Inv, Insert
  PROVE  Inv'
<1> DEFINE k == at + 1
<1>0. /\ TypeOK /\ at' = k /\ k \in 1 .. Len(policy) /\ at \in Nat /\ pc = "build"
      /\ UNCHANGED <<policy, flags, pc, disk>>
      /\ lc' = Put(lc, Rule(k)[1], Value(Rule(k)[2]))
  BY PolicyType DEF Inv, TypeOK, Insert
<1>1. Rule(k)[1] \in Patterns /\ Value(Rule(k)[2]) \in Schemes \ {"SKIP"}
  BY <1>0, PolicyType DEF TypeOK, Value, Schemes
<1>2. TypeOK'
  <2>1. lc' \in Seq(Patterns \X (Schemes \ {"SKIP"}))
    BY <1>0, <1>1, PutType DEF TypeOK
  <2> QED BY <1>0, <2>1 DEF TypeOK
<1>3. Distinct' => lc' = Reversed(at)'
  <2> SUFFICES ASSUME Distinct PROVE lc' = Reversed(k)
    BY <1>0 DEF Distinct, DistinctIn, Reversed, Rule
  <2>1. lc = Reversed(at) /\ Len(lc) = at /\ lc \in Seq(Patterns \X (Schemes \ {"SKIP"}))
    BY <1>0 DEF Inv, Reversed, TypeOK
  <2>2. ASSUME NEW i \in 1 .. Len(lc) PROVE lc[i][1] # Rule(k)[1]
    <3>1. i \in 1 .. Len(policy) /\ lc[i][1] = Rule(i)[1] /\ i # k
      BY <1>0, <2>1, <2>2, PolicyType DEF Reversed, TypeOK
    <3>2. Len(policy) + 1 - i # Len(policy) + 1 - k
      BY <1>0, <3>1, PolicyType DEF TypeOK
    <3>3. /\ Len(policy) + 1 - i \in 1 .. Len(policy)
          /\ Len(policy) + 1 - k \in 1 .. Len(policy)
          /\ Rule(i) = policy[Len(policy) + 1 - i] /\ Rule(k) = policy[Len(policy) + 1 - k]
      BY <1>0, <3>1, PolicyType DEF TypeOK
    <3>4. Rule(i)[1] # Rule(k)[1]
      BY <3>2, <3>3 DEF Distinct, DistinctIn
    <3> QED BY <3>1, <3>4
  <2>3. lc' = Append(lc, <<Rule(k)[1], Value(Rule(k)[2])>>)
    BY <1>0, <2>2 DEF Put
  <2>4. ASSUME NEW e \in Patterns \X (Schemes \ {"SKIP"})
        PROVE  Append(lc, e) = [i \in 1 .. k |-> IF i = k THEN e ELSE lc[i]]
    <3>1. /\ Append(lc, e) \in Seq(Patterns \X (Schemes \ {"SKIP"}))
          /\ Len(Append(lc, e)) = k /\ Append(lc, e)[k] = e
          /\ \A i \in 1 .. at : Append(lc, e)[i] = lc[i]
      BY <1>0, <2>1
    <3>2. \A i \in 1 .. k : i = k \/ i \in 1 .. at
      BY <1>0
    <3>3. Append(lc, e) = [i \in 1 .. k |-> Append(lc, e)[i]]
      <4>1. \A q \in Seq(Patterns \X (Schemes \ {"SKIP"})) : q = [i \in 1 .. Len(q) |-> q[i]]
        OBVIOUS
      <4> HIDE DEF k
      <4> QED BY <3>1, <4>1
    <3> QED BY <3>1, <3>2, <3>3
  <2>5. \A i \in 1 .. at : lc[i] = <<Rule(i)[1], Value(Rule(i)[2])>>
    BY <2>1 DEF Reversed
  <2>6. \A i \in 1 .. k : i = k \/ i \in 1 .. at
    BY <1>0
  <2>7. lc' = [i \in 1 .. k |-> IF i = k THEN <<Rule(k)[1], Value(Rule(k)[2])>> ELSE lc[i]]
    BY <1>1, <2>3, <2>4
  <2> HIDE DEF k
  <2> QED BY <2>5, <2>6, <2>7 DEF Reversed
<1> QED BY <1>0, <1>2, <1>3 DEF Inv, DistinctIsAccepted

LEMMA CheckInv ==
  ASSUME ConfigOK, Inv, Check
  PROVE  Inv'
<1>0. TypeOK /\ at = Len(policy) /\ UNCHANGED <<policy, flags, at, lc, disk>> /\ pc = "build"
  BY DEF Inv, Check
<1>1. Distinct => \A x \in Layers : Resolves(x)
  BY <1>0, DistinctResolves DEF Inv
<1>2. \/ pc' = "mismatch" /\ ~Distinct
      \/ pc' = "preflight" /\ (flags.tensors => \A x \in Listed : Resolves(x))
  BY <1>1 DEF Check, ConfigOK
<1>3. TypeOK'
  BY <1>0, <1>2 DEF TypeOK
<1>4. (Distinct' <=> Distinct) /\ Reversed(at)' = Reversed(at) /\ flags' = flags
  BY <1>0 DEF Distinct, DistinctIn, Reversed, Rule
<1>5. \A x \in Layers : Resolves(x)' <=> Resolves(x)
  BY <1>0 DEF Resolves, FirstMatch, LastMatch, Matches
<1> QED BY <1>0, <1>1, <1>2, <1>3, <1>4, <1>5 DEF Inv, DistinctIsAccepted, Sure

(* The later steps leave the policy and the dict alone.                    *)
LEMMA LaterInv ==
  ASSUME ConfigOK, Inv, Preflight \/ Load \/ Tune
  PROVE  Inv'
<1>0. /\ TypeOK /\ UNCHANGED <<policy, flags, at, lc>> /\ pc \in {"preflight", "load", "tune"}
      /\ pc' \in {"preflight", "load", "tune", "refused", "dry", "offenders"}
      /\ pc = "tune" => pc' = "tune"
  BY DEF Inv, Preflight, Load, Tune
<1>1. ASSUME NEW x \in Layers PROVE Written(x) \in Schemes
  <2>1. LastMatch(lc, x) \in (Schemes \ {"SKIP"}) \cup {None} /\ Base \in Schemes
    BY <1>0, LastMatchType, BaseType, PolicyType DEF TypeOK
  <2> QED BY <2>1 DEF Written, Config, Schemes
<1>2. /\ disk' \in [Layers -> Schemes \cup {None}]
      /\ \A x \in Layers : disk'[x] # None => pc' = "tune" /\ disk'[x] = Written(x)
  <2>1. CASE Tune
    <3> DEFINE y == CHOOSE z \in Layers : disk[z] = None
    <3>1. y \in Layers /\ disk' = [disk EXCEPT ![y] = Written(y)]
      BY <2>1 DEF Tune, Written
    <3>2. \A x \in Layers : disk'[x] = IF x = y THEN Written(y) ELSE disk[x]
      BY <1>0, <3>1 DEF TypeOK
    <3>3. pc' = "tune"
      BY <2>1 DEF Tune
    <3>4. disk' \in [Layers -> Schemes \cup {None}]
      BY <1>0, <1>1, <3>1 DEF TypeOK
    <3> QED
      <4> HIDE DEF y
      <4> QED BY <3>2, <3>3, <3>4 DEF Inv
  <2>2. CASE Preflight \/ Load
    BY <1>0, <2>2 DEF Preflight, Load, Inv, TypeOK
  <2> QED BY <2>1, <2>2
<1>3. TypeOK'
  BY <1>0, <1>2 DEF TypeOK
<1>4. (Distinct' <=> Distinct) /\ Reversed(at)' = Reversed(at)
  BY <1>0 DEF Distinct, DistinctIn, Reversed, Rule
<1>5. \A x \in Layers : Resolves(x)' <=> Resolves(x)
  BY <1>0 DEF Resolves, FirstMatch, LastMatch, Matches
<1>6. \A x \in Layers : Written(x)' = Written(x)
  BY <1>0 DEF Written, Quantized, Config, LastMatch, Matches, Base, ExpertAt
<1> QED BY <1>0, <1>2, <1>3, <1>4, <1>5, <1>6 DEF Inv, DistinctIsAccepted, Sure

LEMMA StutterInv ==
  ASSUME Inv, UNCHANGED vars
  PROVE  Inv'
<1>0. UNCHANGED <<policy, flags, pc, at, lc, disk>>
  BY DEF vars
<1>1. TypeOK'
  BY <1>0 DEF Inv, TypeOK
<1>2. (Distinct' <=> Distinct) /\ Reversed(at)' = Reversed(at)
  BY <1>0 DEF Distinct, DistinctIn, Reversed, Rule
<1>3. \A x \in Layers : Resolves(x)' <=> Resolves(x)
  BY <1>0 DEF Resolves, FirstMatch, LastMatch, Matches
<1>4. \A x \in Layers : Written(x)' = Written(x)
  BY <1>0 DEF Written, Quantized, Config, LastMatch, Matches, Base, ExpertAt
<1> QED BY <1>0, <1>1, <1>2, <1>3, <1>4 DEF Inv, DistinctIsAccepted, Sure

LEMMA NextInv ==
  ASSUME ConfigOK, Inv, [Next]_vars
  PROVE  Inv'
BY StutterInv, InsertInv, CheckInv, LaterInv DEF Next

(* The invariant: without ConfigOK, a policy need not be one.              *)
THEOREM Invariance ==
  ASSUME ConfigOK
  PROVE  Spec => []Inv
<1>1. Init => Inv
  BY InitInv
<1>2. Inv /\ [Next]_vars => Inv'
  BY NextInv
<1> QED BY <1>1, <1>2, PTL DEF Spec

-----------------------------------------------------------------------------
(* What follows from the invariant.                                        *)

(* Where a layer was compared or the patterns are distinct, a layer on     *)
(* disk has the scheme its config says, and the config what the first   *)
(* matching rule says.                                                     *)
LEMMA InvConfig ==
  ASSUME ConfigOK, Inv, NEW x \in Layers, Sure(x),
         disk[x] # None, FirstMatch(policy, x) # None
  PROVE  disk[x] = Written(x) /\ Config(x) = Value(FirstMatch(policy, x))
<1>1. pc = "tune" /\ disk[x] = Written(x) /\ Resolves(x)
  BY DEF Inv
<1>2. LastMatch(lc, x) = Value(FirstMatch(policy, x))
  BY <1>1 DEF Resolves
<1>3. disk[x] \in Schemes
  BY DEF Inv, TypeOK
<1>4. LastMatch(lc, x) # None
  <2>1. FirstMatch(policy, x) \in Schemes
    BY FirstMatchType, PolicyType DEF Inv, TypeOK
  <2> QED BY <1>2, <2>1 DEF Value, ConfigOK, Schemes
<1> QED BY <1>1, <1>2, <1>4 DEF Config

LEMMA InvPlanned ==
  ASSUME ConfigOK, Inv
  PROVE  TunedAsPlanned
BY InvConfig DEF TunedAsPlanned, Written, Quantized, Planned

LEMMA InvMatches ==
  ASSUME ConfigOK, Inv
  PROVE  ConfigMatchesDisk
<1> SUFFICES ASSUME LeavesOdd(policy), NEW x \in Layers \ Vision, Sure(x), disk[x] # None
             PROVE  Config(x) = disk[x]
  BY DEF ConfigMatchesDisk
<1>1. disk[x] = Written(x)
  BY DEF Inv
<1>2. CASE x \in Odd
  <2>1. FirstMatch(policy, x) \in {"SKIP", "BF16"}
    BY <1>2 DEF LeavesOdd
  <2>2. Config(x) = "BF16"
    BY <2>1, InvConfig DEF Value, ConfigOK, Schemes
  <2> QED BY <1>1, <2>2 DEF Written, Quantized
<1>3. CASE x \notin Odd
  BY <1>1, <1>3 DEF Written, Quantized
<1> QED BY <1>2, <1>3

(* With distinct patterns nothing else is needed.                          *)
LEMMA InvSays ==
  ASSUME ConfigOK, Inv, Distinct, LeavesOdd(policy)
  PROVE  SaysWhatIs
<1>1. \A x \in Layers \ Vision : Sure(x)
  BY DEF Sure
<1>2. ConfigMatchesDisk
  BY InvMatches
<1> QED BY <1>1, <1>2 DEF ConfigMatchesDisk, SaysWhatIs

-----------------------------------------------------------------------------
(* Every variable keeps its type: what AutoRound writes for a layer is     *)
(* always a scheme, also where no rule matches.                            *)
THEOREM TypeCorrect ==
  ASSUME ConfigOK
  PROVE  Spec => []TypeOK
<1>1. Inv => TypeOK
  BY DEF Inv
<1> QED BY <1>1, Invariance, PTL

(* Whatever the policy and the layers its patterns match, a layer that has *)
(* a rule comes out with the scheme its first rule says, although          *)
(* AutoRound lets the last match win (05_quantize.py:50).                  *)
THEOREM BitsAsPlanned ==
  ASSUME ConfigOK
  PROVE  Spec => []TunedAsPlanned
<1>1. Inv => TunedAsPlanned
  BY InvPlanned
<1> QED BY <1>1, Invariance, PTL

(* The check before the load never refuses a policy whose patterns are     *)
(* distinct (05_quantize.py:126).                                          *)
THEOREM DistinctNeverRefused ==
  ASSUME ConfigOK
  PROVE  Spec => []DistinctIsAccepted
<1>1. Inv => DistinctIsAccepted
  BY DEF Inv
<1> QED BY <1>1, Invariance, PTL

(* Whatever the layers and the patterns: what the config says of a layer   *)
(* is what is on disk, under every policy that leaves alone what AutoRound *)
(* cannot quantize (04_recipe.py:148).                                     *)
THEOREM ConfigSaysWhatIs ==
  ASSUME ConfigOK
  PROVE  Spec => []ConfigMatchesDisk
<1>1. Inv => ConfigMatchesDisk
  BY InvMatches
<1> QED BY <1>1, Invariance, PTL
=============================================================================
