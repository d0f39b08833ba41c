------------------------------- MODULE Phase1 -------------------------------
(***************************************************************************)
(* scripts/phase1.py: the driver that applies the patches of a step,       *)
(* restarts the server, measures, and keeps or reverts; with its state     *)
(* file, with people who call the patch scripts between two runs, and with *)
(* runs that are killed.                                                   *)
(*                                                                         *)
(* Flags and environment belong to a step, so that what the state file     *)
(* accepts is the sequence of the steps kept.                              *)
(*                                                                         *)
(* A definition whose comment starts with Fault is a plausible mistake in  *)
(* the one that follows it.                                                *)
(***************************************************************************)
EXTENDS PatchLayers

CONSTANTS
  STEPS,    \* the names of the steps in the order of the table
  Patches,  \* Patches[step]: the patches it lists
  Needs,    \* Needs[step]: the layers that have to be there for its --kv-cache-dtype
  Callers,  \* Callers[layer]: the passages of the backend that import its kernel
  Manual,   \* the calls <<layer, operation>> that people make
  MaxKills,
  Down

ASSUME PhaseSizes ==
  /\ \A st \in ToSet(STEPS) : Patches[st] \in Seq(LayerSet) /\ Needs[st] \subseteq LayerSet
  /\ Manual \subseteq LayerSet \X Ops /\ MaxKills \in Nat

VARIABLES
  disk,    \* the state file: steps kept, steps done, server_matches_accepted
  s,       \* the same in the memory of the run
  pc,      \* where the run is
  want,    \* the steps it was asked for and has not come to
  step,    \* the step it is at
  queue,   \* patches to apply or to revert
  server,  \* what serves: the steps whose flags it has, the tree it was started from
  kills,
  interrupted, \* the step that was killed, until it has been run again
  past         \* what has happened that the properties make an exception for

dvars == <<disk, s, pc, want, step, queue, server>>
hist == <<kills, interrupted, past>>

Fresh == [kept |-> <<>>, done |-> {}, matches |-> TRUE]

Init ==
  /\ PInit
  /\ disk = Fresh /\ s = Fresh /\ pc = "none" /\ want = {} /\ step = None /\ queue = <<>>
  /\ server = Down
  /\ kills = 0 /\ interrupted = None /\ past = {}

PatchesOf(steps) == ToSet(FlattenSeq([i \in DOMAIN steps |-> Patches[steps[i]]]))

If(what, happens) == IF happens THEN {what} ELSE {}

(* A call of kv_int8.py revert under kv_int4, which nothing stops.         *)
Undercuts(l, op) == l = "kv_int8" /\ op = "revert" /\ HasKernel("kv_int4")

Idle == pc = "none" /\ call = None

-----------------------------------------------------------------------------
(* The server is another program: it starts only from a tree that has the  *)
(* kernels its backend imports and the KV format its flags name, the last  *)
(* --kv-cache-dtype of them, and may fail for any other reason.  A layer   *)
(* that neither asks for is not missed.                                    *)
Imported == {l \in LayerSet : Callers[l] \cap ToSet(tree["backend"]) # {}}

Asked(steps) == IF steps = <<>> THEN {} ELSE Needs[Last(steps)]

Serving(steps) ==
  {Down} \cup
  (IF \A l \in Imported \cup Asked(steps) : HasKernel(l)
   THEN {[steps |-> steps, tree |-> tree]} ELSE {})

(* phase1.py STEP, or all of them.                                         *)
Run(steps) ==
  /\ Idle
  /\ s' = disk /\ want' = steps /\ pc' = "next"
  /\ UNCHANGED <<disk, step, queue, server, pvars, hist>>

(* The run is over, and left this state file.                              *)
Leaves(state) ==
  /\ disk' = state
  /\ pc' = "none" /\ s' = Fresh /\ want' = {} /\ step' = None /\ queue' = <<>>

Open == {i \in DOMAIN STEPS : STEPS[i] \in want \ s.done}

(* run_step begins.                                                        *)
NextStep ==
  /\ pc = "next" /\ Open # {}
  /\ step' = STEPS[Min(Open)]
  /\ want' = want \ {step'}
  /\ queue' = Patches[step'] /\ pc' = "apply"
  /\ past' = past \cup If("relisted", ToSet(Patches[step']) \cap PatchesOf(s.kept) # {})
                 \cup If("meddled", interrupted \notin {None, step'})
  /\ UNCHANGED <<disk, s, server, pvars, kills, interrupted>>

(* What apply returns is not looked at.                                    *)
ApplyNext ==
  /\ pc \in {"apply", "bringup"} /\ queue # <<>>
  /\ Apply(Head(queue))
  /\ queue' = Tail(queue)
  /\ UNCHANGED <<disk, s, pc, want, step, server, hist>>

Benched == pc = "apply" /\ queue = <<>> /\ call = None

(* restart_and_bench, and a verdict: the measurements, any of them.        *)
Keep ==
  /\ Benched
  /\ server' \in Serving(Append(s.kept, step)) \ {Down}
  /\ s' = [s EXCEPT !.kept = Append(@, step), !.done = @ \cup {step}]
  /\ pc' = "kept"
  /\ UNCHANGED <<disk, want, step, queue, pvars, hist>>

Reject ==
  /\ Benched
  /\ server' \in Serving(Append(s.kept, step))
  /\ queue' = Reverse(Patches[step]) /\ status' = 0
  /\ pc' = "revert"
  /\ UNCHANGED <<disk, s, want, step, tree, call, hist>>

(* Two saves: the verdict, then that the server runs it.                   *)
SaveKept ==
  /\ pc = "kept"
  /\ disk' = s /\ s' = [s EXCEPT !.matches = TRUE]
  /\ pc' = "matches"
  /\ UNCHANGED <<want, step, queue, server, pvars, hist>>

Healed == IF interrupted = step THEN None ELSE interrupted

SaveMatches ==
  /\ pc = "matches"
  /\ disk' = s /\ pc' = "next" /\ interrupted' = Healed
  /\ UNCHANGED <<s, want, step, queue, server, pvars, kills, past>>

RevertNext ==
  /\ pc = "revert" /\ queue # <<>> /\ status = 0
  /\ Revert(Head(queue), FALSE)
  /\ queue' = Tail(queue)
  /\ past' = past \cup If("undercut", Undercuts(Head(queue), "revert"))
  /\ UNCHANGED <<disk, s, pc, want, step, server, kills, interrupted>>

(* A refused revert ends the run, with nothing saved.                      *)
Abort ==
  /\ pc = "revert" /\ call = None /\ status # 0
  /\ Leaves(disk)
  /\ interrupted' = step
  /\ UNCHANGED <<server, pvars, kills, past>>

(* Fault: the server is left at the step that was reverted.                *)
RevertedSilently(t) == [t EXCEPT !.done = @ \cup {step}]

Reverted(t) == [t EXCEPT !.matches = FALSE, !.done = @ \cup {step}]

SaveReverted ==
  /\ pc = "revert" /\ queue = <<>> /\ call = None /\ status = 0
  /\ s' = Reverted(s) /\ disk' = s'
  /\ pc' = "next" /\ interrupted' = Healed
  /\ UNCHANGED <<want, step, queue, server, pvars, kills, past>>

(* The end of a run: the accepted set is brought up again if the server    *)
(* runs another.                                                           *)
Restart ==
  /\ pc = "next" /\ Open = {} /\ s.kept # <<>> /\ ~s.matches
  /\ server' \in Serving(s.kept)
  /\ pc' = "restarted"
  /\ UNCHANGED <<disk, s, want, step, queue, pvars, hist>>

SaveRestarted ==
  /\ pc = "restarted"
  /\ Leaves([disk EXCEPT !.matches = TRUE])
  /\ UNCHANGED <<server, pvars, hist>>

End ==
  /\ pc = "next" /\ Open = {} /\ (s.kept = <<>> \/ s.matches)
  /\ Leaves(disk)
  /\ UNCHANGED <<server, pvars, hist>>

(* phase1.py --bringup STEP: no verdict, the patches stay.                 *)
Bringup(st) ==
  /\ Idle
  /\ s' = disk /\ step' = st /\ queue' = Patches[st] /\ pc' = "bringup"
  /\ past' = past \cup If("meddled", interrupted # None)
  /\ UNCHANGED <<disk, want, server, pvars, kills, interrupted>>

BroughtUp ==
  /\ pc = "bringup" /\ queue = <<>> /\ call = None
  /\ server' \in Serving(Append(s.kept, step))
  /\ Leaves([s EXCEPT !.matches = FALSE])
  /\ UNCHANGED <<pvars, hist>>

(* phase1.py --restart, which ends with the same save.                     *)
RestartAccepted ==
  /\ Idle
  /\ s' = disk /\ server' \in Serving(disk.kept)
  /\ pc' = "restarted"
  /\ UNCHANGED <<disk, want, step, queue, pvars, hist>>

(* Somebody calls a patch script.                                          *)
Called(l, op) ==
  /\ Idle
  /\ \/ op = "apply" /\ Apply(l)
     \/ op = "revert" /\ Revert(l, FALSE)
  /\ past' = past \cup {"meddled"} \cup If("undercut", Undercuts(l, op))
  /\ UNCHANGED <<dvars, kills, interrupted>>

(* The run and the script it waits for are killed; the server is not.      *)
Kill ==
  /\ pc \notin {"none", "next"} /\ kills < MaxKills
  /\ kills' = kills + 1
  /\ interrupted' = IF pc \in {"apply", "revert", "kept"} THEN step ELSE interrupted
  /\ past' = past \cup If("meddled", pc = "bringup")
  /\ Leaves(disk)
  /\ call' = None /\ status' = 0
  /\ UNCHANGED <<server, tree>>

Next ==
  \/ Run(ToSet(STEPS)) \/ \E st \in ToSet(STEPS) : Run({st}) \/ Bringup(st)
  \/ NextStep \/ ApplyNext \/ Keep \/ Reject \/ SaveKept \/ SaveMatches
  \/ RevertNext \/ Abort \/ SaveReverted \/ Restart \/ SaveRestarted \/ End
  \/ BroughtUp \/ RestartAccepted
  \/ Script /\ UNCHANGED <<dvars, hist>>
  \/ \E c \in Manual : Called(c[1], c[2])
  \/ Kill

Spec == Init /\ [][Next]_<<pvars, dvars, hist>>

-----------------------------------------------------------------------------
Between == pc \in {"none", "next"} /\ call = None

(* Without a kill, the tree is a stack of whole layers whenever no script  *)
(* is writing, whoever calls what in whatever order: the guards of the     *)
(* scripts see to it (kv_int4.py:802-820, kv_tiers.py:860-865, 930-942,    *)
(* kv_paged_prefix.py:481-515).  The one gap is kv_int8.py revert.         *)
StackedUnlessUndercut ==
  kills = 0 /\ call = None /\ "undercut" \notin past => Stacked

(* A run that was killed, in a script between any two of its writes or     *)
(* before a save, is made good by running the interrupted step again:      *)
(* afterwards the tree is a stack of whole layers (phase1.py:253, 260).    *)
RerunHeals ==
  Between /\ interrupted = None /\ past \cap {"meddled", "undercut"} = {} => Stacked

Runs(steps) == server = Down \/ server = [steps |-> steps, tree |-> tree]

(* "Leave the server running in the accepted configuration"                *)
(* (phase1.py:314): when the state file says that the server matches, it   *)
(* was started, if it runs, with the flags of the steps kept, and their    *)
(* patches are in the tree.                                                *)
AcceptedIsServed ==
  Idle /\ disk.kept # <<>> /\ disk.matches /\ interrupted = None /\ "meddled" \notin past =>
    Runs(disk.kept) /\ \A l \in PatchesOf(disk.kept) : HasKernel(l)

(* The same as long as no step lists a patch that an accepted step has.    *)
AcceptedIsServedUnlessRelisted ==
  past \cap {"relisted", "undercut"} = {} => AcceptedIsServed
=============================================================================
