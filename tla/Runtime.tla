------------------------------ MODULE Runtime ------------------------------
(***************************************************************************)
(* Three parts of the serving process that meet in no variable, each in    *)
(* behaviors of its own: part says which, and the variables of the others  *)
(* stay None.  pc belongs to the part that runs.                           *)
(*                                                                         *)
(* place: the placement pass, elastic and static.                          *)
(* ngram: speculation.                                                     *)
(* control: the control file between the server and a sweep.               *)
(***************************************************************************)
EXTENDS Naturals

CONSTANTS
  NumLayers, NumRows, NumKinds, StartSizes, Budgets, Reserves, NoSlot, Junk,
  D, Tokens, Wrong, Own, Saved, Phys, Prompt, Interval, MaxLen,
  Commands, MaxTime,
  None

VARIABLES
  part, pc,
  mode, S0, onHost, budget, reserve, givers, takers, credit, pool, pinned, host,
  arena, tab, home, gathers,
  branch, reject, allocated, toks, kv, gdn, ple, saved, draft, target,
  now, ctl, status, seen, autofill, poll, command, runs, others, client, sent, before

placeVars == <<mode, S0, onHost, budget, reserve, givers, takers, credit, pool, pinned,
               host, arena, tab, home, gathers>>
ngramVars == <<branch, reject, allocated, toks, kv, gdn, ple, saved, draft, target>>
controlVars == <<now, ctl, status, seen, autofill, poll, command, runs, others, client,
                 sent, before>>
vars == <<part, pc, placeVars, ngramVars, controlVars>>

Place == INSTANCE ExpertPlacement

Ngram == INSTANCE NgramChain

Control == INSTANCE ElasticControl

ASSUME PlacementAssumption == Place!SizesOK
ASSUME TableAssumption == Ngram!TableOK
ASSUME CommandsAssumption == Commands \in Nat

-----------------------------------------------------------------------------
NoPlace ==
  /\ mode = None /\ S0 = None /\ onHost = None /\ budget = None /\ reserve = None
  /\ givers = None /\ takers = None /\ credit = None /\ pool = None /\ pinned = None
  /\ host = None /\ arena = None /\ tab = None /\ home = None /\ gathers = None
NoNgram ==
  /\ branch = None /\ reject = None /\ allocated = None /\ toks = None /\ kv = None
  /\ gdn = None /\ ple = None /\ saved = None /\ draft = None /\ target = None
NoControl ==
  /\ now = None /\ ctl = None /\ status = None /\ seen = None /\ autofill = None
  /\ poll = None /\ command = None /\ runs = None /\ others = None
  /\ client = None /\ sent = None /\ before = None

Init ==
  \/ part = "place" /\ Place!Init /\ NoNgram /\ NoControl
  \/ part = "ngram" /\ Ngram!Init /\ NoPlace /\ NoControl
  \/ part = "control" /\ Control!Init /\ NoPlace /\ NoNgram /\ pc = None

OnlyControl == UNCHANGED <<part, pc, placeVars, ngramVars>>

Next ==
  \/ part = "place" /\ Place!Next /\ UNCHANGED <<part, ngramVars, controlVars>>
  \/ part = "ngram" /\ Ngram!Next /\ UNCHANGED <<part, placeVars, controlVars>>
  \/ part = "control" /\ Control!Next /\ OnlyControl

(* Requests keep coming, and with them polls.                              *)
Spec == Init /\ [][Next]_vars /\ WF_vars(part = "control" /\ Control!Serve /\ OnlyControl)

-----------------------------------------------------------------------------
(* When the model is placed every address leads to its expert, the elastic *)
(* cache finds the state it assumes, and nothing but the reserve was       *)
(* pinned if the donated slots suffice (expert_elastic.py:169).            *)
PlacedForServing == part = "place" => Place!PlacedForServing

(* Speculation changes no token, and after every commit the four states    *)
(* stand after the same tokens (ngram_ple.py:60, 142).                     *)
Lossless == part = "ngram" => Ngram!Lossless

(* Answers come after the command, and a command the file holds with a     *)
(* time the poll has not seen is executed or replaced                      *)
(* (expert_elastic.py:361).                                                *)
ControlWorks ==
  /\ [](part = "control" => Control!AnsweredMeansDone)
  /\ \A c \in 1 .. Commands :
       (part = "control" /\ Control!Unseen(c)) ~> (part = "control" /\ Control!Taken(c))
=============================================================================
