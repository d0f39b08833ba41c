---------------------------- MODULE SubsetTuning ---------------------------
(***************************************************************************)
(* scripts/06_subset_tuning.py: AutoRound tunes a block, which would wrap  *)
(* all its layers at once, in several rounds.  A round goes through the    *)
(* unchanged quantize_block of AutoRound, which wraps, tunes and unwraps;  *)
(* a filter in the place of its wrapper_block leaves out the layers of the *)
(* other rounds.                                                           *)
(***************************************************************************)
EXTENDS Functions, Prefixes

CONSTANTS
  Layers,      \* linear layers of a block
  MaxExpert,   \* experts are numbered 0 .. MaxExpert
  NumGroups,   \* n_groups
  Blocks,      \* blocks the quantizer goes through
  None         \* no filter; not quantizable; no wrapper on the instance

(* What is bound to an instance: a function and a class.                   *)
Bound == {<<"original", "alg">>, <<"filtered", "plain">>, <<"filtered", "alg">>}

(* The sizes are numbers, and there is a round.                            *)
SizesOK ==
  /\ MaxExpert \in Nat /\ NumGroups \in Nat \ {0} /\ Blocks \in Nat
  /\ None \notin Bound /\ \A set \in SUBSET Layers : None # set

RestGroup == -1

VARIABLES
  left,      \* blocks to come
  pc,        \* where quantize_block_subsets is
  expert,    \* expert[x]: the expert of layer x, RestGroup, or None: not quantized
  groups,    \* the rounds of this block
  round,     \* the round under way
  allow,     \* _state["allow"]
  first,     \* _state["first"]
  wrapper,   \* self.wrapper_block: the function and the class bound to it
  prev,      \* what it was when the block began
  wrapped,   \* layers that are wrapped
  tuned,     \* tuned[x]: how often x was tuned in this block
  class,     \* class[x]: the class x was wrapped with last
  norms,     \* how often the norms of the block were wrapped (2: too often)
  merged     \* layers with results

state == <<allow, first>>
vars == <<left, pc, expert, groups, round, state, wrapper, prev, wrapped,
          tuned, class, norms, merged>>

Quantizable == {x \in Layers : expert[x] # None}

(* Plain AutoRound has no wrapper on the instance; --enable_alg_ext binds  *)
(* a class of its own to it.                                               *)
Wrappers == Bound \cup {None}

Init ==
  /\ left = Blocks /\ pc = "idle" /\ expert = [x \in Layers |-> None]
  /\ groups = <<>> /\ round = 0 /\ allow = None /\ first = TRUE
  /\ wrapper \in {None, <<"original", "alg">>} /\ prev = None
  /\ wrapped = {} /\ tuned = [x \in Layers |-> 0]
  /\ class = [x \in Layers |-> None] /\ norms = 0 /\ merged = {}

(* Fault: layers that belong to no expert go into a group by themselves    *)
(* and into group 0.                                                       *)
PlanTwice(ex) ==
  LET all == {x \in Layers : ex[x] # None}
      rest == {x \in all : ex[x] = RestGroup}
      in(k) == {x \in all \ rest : ex[x] % NumGroups = k}
  IN  IF all = rest \/ NumGroups = 1 THEN <<all>>
      ELSE Select([k \in 1 .. NumGroups + 1 |->
                     (IF k = 1 THEN rest ELSE {}) \cup
                       (IF k > NumGroups THEN rest ELSE in(k - 1))],
                  (SUBSET Layers) \ {{}})

(* plan_groups: expert i goes into group i % n, the rest into group 0;     *)
(* empty groups are dropped.                                               *)
Plan(ex) ==
  LET all == {x \in Layers : ex[x] # None}
      rest == {x \in all : ex[x] = RestGroup}
      in(k) == {x \in all \ rest : ex[x] % NumGroups = k}
  IN  IF all = rest \/ NumGroups = 1 THEN <<all>>
      ELSE Select([k \in 1 .. NumGroups |-> in(k - 1) \cup (IF k = 1 THEN rest ELSE {})],
                  (SUBSET Layers) \ {{}})

(* quantize_block_subsets is entered with the next block.                  *)
Enter ==
  /\ pc = "idle" /\ left > 0
  /\ left' = left - 1
  /\ expert' \in [Layers -> (RestGroup .. MaxExpert) \cup {None}]
  /\ groups' = Plan(expert')
  /\ pc' = IF Len(groups') <= 1 THEN "block" ELSE "round"
  /\ round' = 0 /\ prev' = wrapper
  /\ tuned' = [x \in Layers |-> 0] /\ class' = [x \in Layers |-> None]
  /\ norms' = 0 /\ merged' = {}
  /\ UNCHANGED <<state, wrapper, wrapped>>

Filtered == IF prev = None THEN <<"filtered", "plain">> ELSE <<"filtered", prev[2]>>

Round ==
  /\ pc = "round" /\ round < Len(groups)
  /\ round' = round + 1
  /\ allow' = groups[round + 1] /\ first' = (round = 0)
  /\ wrapper' = Filtered
  /\ pc' = "block"
  /\ UNCHANGED <<left, expert, groups, prev, wrapped, tuned, class, norms, merged>>

(* AutoRound's quantize_block begins: it calls the wrapper_block of the    *)
(* instance, or the module's, which install has replaced.                  *)
Wrap ==
  /\ pc = "block"
  /\ LET filters == wrapper = None \/ wrapper[1] = "filtered"
     IN  /\ wrapped' = IF filters /\ allow # None THEN Quantizable \cap allow ELSE Quantizable
         /\ norms' = IF filters /\ ~first THEN norms
                      ELSE IF norms = 0 THEN 1 ELSE 2
  /\ class' = [x \in Layers |-> IF x \notin wrapped' THEN class[x]
                                ELSE IF wrapper = None THEN "plain" ELSE wrapper[2]]
  /\ pc' = "tune"
  /\ UNCHANGED <<left, expert, groups, round, state, wrapper, prev, tuned, merged>>

(* It ends: what is wrapped was tuned and is written back.                 *)
Unwrap ==
  /\ pc = "tune"
  /\ tuned' = [x \in Layers |-> tuned[x] + IF x \in wrapped THEN 1 ELSE 0]
  /\ merged' = merged \cup wrapped
  /\ wrapped' = {}
  /\ pc' = IF round = 0 THEN "done" ELSE "round"
  /\ UNCHANGED <<left, expert, groups, round, state, wrapper, prev, class, norms>>

Leave ==
  /\ pc = "round" /\ round = Len(groups)
  /\ pc' = "done"
  /\ allow' = None /\ first' = TRUE
  /\ wrapper' = IF prev # None THEN prev ELSE wrapper
  /\ UNCHANGED <<left, expert, groups, round, prev, wrapped, tuned, class, norms, merged>>

Saved ==
  /\ pc = "done" /\ pc' = "idle"
  /\ UNCHANGED <<left, expert, groups, round, state, wrapper, prev, wrapped,
                 tuned, class, norms, merged>>

Next == Enter \/ Round \/ Wrap \/ Unwrap \/ Leave \/ Saved

-----------------------------------------------------------------------------
TypeOK ==
  /\ left \in 0 .. Blocks
  /\ pc \in {"idle", "round", "block", "tune", "done"}
  /\ expert \in [Layers -> (RestGroup .. MaxExpert) \cup {None}]
  /\ Range(groups) \subseteq SUBSET Layers /\ round \in 0 .. Len(groups)
  /\ allow = None \/ allow \in Range(groups)
  /\ first \in BOOLEAN /\ {wrapper, prev} \subseteq Wrappers
  /\ wrapped \subseteq Layers /\ merged \subseteq Layers
  /\ tuned \in [Layers -> 0 .. 1] /\ norms \in 0 .. 1
  /\ class \in [Layers -> {"plain", "alg", None}]

(* "Overlap must be 0 and the total must stay constant" (line 200): when a   *)
(* block is done every layer that is to be quantized was tuned once and    *)
(* has its result, whatever the numbers of its experts.                    *)
TunedOnce ==
  pc = "done" => /\ \A x \in Layers : tuned[x] = IF x \in Quantizable THEN 1 ELSE 0
                 /\ merged = Quantizable

(* "Norm/bias tuning in the FIRST round only, else applied repeatedly"     *)
(* (line 108): also when group 0 is empty and was dropped.                   *)
NormsOnce == pc = "done" => norms = 1

(* alg_ext never "appears active and does nothing" (line 132): every layer   *)
(* of every block is wrapped with the class bound to the instance.         *)
ClassIsKept ==
  \A x \in Layers : class[x] # None => class[x] = IF prev = None THEN "plain" ELSE prev[2]

(* Every block is done (line 147).                                         *)
BlocksDone == left = 0 /\ pc = "idle"
=============================================================================
