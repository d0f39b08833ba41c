---------------------------- MODULE LayerConfig ----------------------------
(***************************************************************************)
(* From a bit-allocation policy to the bits on disk: the budget of         *)
(* scripts/04_recipe.py, the layer_config that scripts/05_quantize.py      *)
(* builds from the same policy, its checks, and the tuning.                *)
(*                                                                         *)
(* A policy is a sequence of rules of which the FIRST that matches counts; *)
(* AutoRound goes through a dict and lets the LAST match win.  A pattern   *)
(* is known by the layers it matches, Match[k].                            *)
(***************************************************************************)
EXTENDS Integers, Sequences

CONSTANTS
  Patterns,     \* regular expressions
  ExpertRules,  \* those that begin with "experts"
  Layers,       \* layers of the model, by their runtime names
  Listed,       \* those that tensors.json gives a name: of the experts only the first
  Match,        \* Match[k]: the layers that pattern k matches
  Odd,          \* those AutoRound cannot quantize: not divisible by 32, not Linear
  Vision,       \* layers it does not touch without --quant_nontext_module
  Outside,      \* layers outside the transformer blocks
  Policies,     \* the policies that may be asked for
  None

Schemes == {"SKIP", "BF16", "W2", "W4", "W8"}

(* Patterns, policies and flags are what their names say.                  *)
ConfigOK ==
  /\ Match \in [Patterns -> SUBSET Layers] /\ Listed \subseteq Layers
  /\ Policies \subseteq Seq(Patterns \X Schemes)
  /\ ExpertRules \subseteq Patterns
  /\ None \notin Schemes

VARIABLES
  policy,   \* the policy
  flags,    \* whether tensors.json exists, --force, --model-free, --dry-run
  pc,       \* where 05_quantize is
  at,       \* rules of the policy that were looked at
  lc,       \* the dict: a sequence of <<pattern, scheme>> in insertion order
  disk      \* disk[x]: the scheme of layer x in the output, None before

vars == <<policy, flags, pc, at, lc, disk>>

Flags == [tensors : BOOLEAN, force : BOOLEAN, modelFree : BOOLEAN, dryRun : BOOLEAN]

Init ==
  /\ policy \in Policies /\ flags \in Flags
  /\ pc = "build" /\ at = 0 /\ lc = <<>>
  /\ disk = [x \in Layers |-> None]

Matches(rules, x) == {i \in 1 .. Len(rules) : x \in Match[rules[i][1]]}

FirstMatch(rules, x) ==
  IF Matches(rules, x) = {} THEN None
  ELSE rules[CHOOSE i \in Matches(rules, x) : \A j \in Matches(rules, x) : i <= j][2]

LastMatch(rules, x) ==
  IF Matches(rules, x) = {} THEN None
  ELSE rules[CHOOSE i \in Matches(rules, x) : \A j \in Matches(rules, x) : j <= i][2]

(* SKIP means "not in the budget": the config still has to say 16 bits.    *)
Value(scheme) == IF scheme = "SKIP" THEN "BF16" ELSE scheme

(* Assignment to a key of a dict: a key that is there keeps its place.     *)
Put(d, k, v) ==
  IF \E i \in 1 .. Len(d) : d[i][1] = k
  THEN [i \in 1 .. Len(d) |-> IF d[i][1] = k THEN <<k, v>> ELSE d[i]]
  ELSE Append(d, <<k, v>>)

(* Fault: the rules are inserted in the order of the policy.               *)
RuleInOrder(n) == policy[n]

(* The n-th rule that is inserted: the last of the policy comes first.     *)
Rule(n) == policy[Len(policy) + 1 - n]

Insert ==
  /\ pc = "build" /\ at < Len(policy)
  /\ at' = at + 1
  /\ lc' = Put(lc, Rule(at + 1)[1], Value(Rule(at + 1)[2]))
  /\ UNCHANGED <<policy, flags, pc, disk>>

(* The scheme of whatever no rule matches: that of the experts.            *)
ExpertAt ==
  {i \in 1 .. Len(policy) :
     policy[i][1] \in ExpertRules /\ policy[i][2] \notin {"SKIP", "BF16"}}

Base == IF ExpertAt = {} THEN "W2"
        ELSE policy[CHOOSE i \in ExpertAt : \A j \in ExpertAt : j <= i][2]

(* Fault: only whether there is a rule is compared.                        *)
ResolvesSomehow(x) == (FirstMatch(policy, x) = None) = (LastMatch(lc, x) = None)

(* What AutoRound will take for x is what the policy says.                 *)
Resolves(x) ==
  LastMatch(lc, x) =
    LET s == FirstMatch(policy, x) IN IF s = None THEN None ELSE Value(s)

(* resolution_check: the names of tensors.json, if it exists.              *)
Check ==
  /\ pc = "build" /\ at = Len(policy)
  /\ pc' = IF flags.tensors /\ \E x \in Listed : ~Resolves(x)
           THEN "mismatch" ELSE "preflight"
  /\ UNCHANGED <<policy, flags, at, lc, disk>>

(* A dry run goes on whatever the preflight says, and prints the command.  *)
Preflight ==
  /\ pc = "preflight"
  /\ \E ok \in BOOLEAN :
       pc' = IF flags.dryRun THEN "dry" ELSE IF ok \/ flags.force THEN "load" ELSE "refused"
  /\ UNCHANGED <<policy, flags, at, lc, disk>>

(* What AutoRound reads in the layer_config for layer x.                   *)
Config(x) == LET s == LastMatch(lc, x) IN IF s = None THEN Base ELSE s

Quantized(x) == Config(x) # "BF16" /\ x \notin Odd \cup Vision

(* enforce_immediate_saving: a quantized layer outside the blocks would    *)
(* keep every finished block in memory.                                    *)
Load ==
  /\ pc = "load"
  /\ pc' = IF ~flags.modelFree /\ \E x \in Outside : Quantized(x)
           THEN "offenders" ELSE "tune"
  /\ UNCHANGED <<policy, flags, at, lc, disk>>

(* AutoRound writes one layer.                                             *)
Tune ==
  /\ pc = "tune"
  /\ LET x == CHOOSE y \in Layers : disk[y] = None
     IN  /\ \E y \in Layers : disk[y] = None
         /\ disk' = [disk EXCEPT ![x] = IF Quantized(x) THEN Config(x) ELSE "BF16"]
  /\ UNCHANGED <<policy, flags, pc, at, lc>>

Next == Insert \/ Check \/ Preflight \/ Load \/ Tune

Spec == Init /\ [][Next]_vars

-----------------------------------------------------------------------------
TypeOK ==
  /\ policy \in Policies /\ flags \in Flags
  /\ pc \in {"build", "preflight", "load", "tune", "mismatch", "refused", "dry", "offenders"}
  /\ at \in 0 .. Len(policy)
  /\ lc \in Seq(Patterns \X (Schemes \ {"SKIP"}))
  /\ disk \in [Layers -> Schemes \cup {None}]

(* 04_recipe counts the bytes of x at this scheme.                         *)
Planned(x) ==
  LET s == FirstMatch(policy, x)
  IN  IF s = None THEN "W4" ELSE IF x \in Odd \cup Vision THEN "BF16" ELSE Value(s)

DistinctIn(rules) == \A i, j \in 1 .. Len(rules) : rules[i][1] = rules[j][1] => i = j

Distinct == DistinctIn(policy)

(* These rules leave what AutoRound cannot quantize as it is.              *)
LeavesOdd(rules) == \A x \in Odd \ Vision : FirstMatch(rules, x) \in {"SKIP", "BF16"}

(* What is known to resolve for x once the tuning has begun.               *)
Sure(x) == Distinct \/ (flags.tensors /\ x \in Listed)

(* Every layer that has a rule comes out with the scheme its first rule    *)
(* says and the budget was computed for, although AutoRound lets the last  *)
(* match win (05_quantize.py:50): by the order of insertion when no        *)
(* pattern occurs twice, by resolution_check otherwise, for the layers it  *)
(* has a name of.                                                          *)
TunedAsPlanned ==
  \A x \in Layers :
    Sure(x) /\ disk[x] # None /\ FirstMatch(policy, x) # None => disk[x] = Planned(x)

(* resolution_check never refuses a policy whose patterns are distinct     *)
(* (05_quantize.py:126).                                                   *)
DistinctIsAccepted == Distinct => pc # "mismatch"

(* What the config says of a layer is what is on disk; otherwise "the      *)
(* inference loader then fails" (04_recipe.py:148).                        *)
SaysWhatIs == \A x \in Layers \ Vision : disk[x] # None => Config(x) = disk[x]

(* The same of every policy that leaves alone what AutoRound cannot        *)
(* quantize, where it is known to resolve: pinning those layers is all     *)
(* that it takes.                                                          *)
ConfigMatchesDisk ==
  LeavesOdd(policy) =>
    \A x \in Layers \ Vision : Sure(x) /\ disk[x] # None => Config(x) = disk[x]
=============================================================================
