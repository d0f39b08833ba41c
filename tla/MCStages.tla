------------------------------ MODULE MCStages ------------------------------
(***************************************************************************)
(* rewrite: two expert stacks of two and one pieces, two other tensors and *)
(*   an n-gram tensor, spread over the source shards in every way.         *)
(* split: three shards of unequal size.                                    *)
(* seal: two runs of one minute; others share nothing.                     *)
(* order: every policy of up to three rules over overlapping patterns,     *)
(*   some twice; of the experts only the first is in tensors.json.         *)
(* tuning: two blocks of three layers.                                     *)
(* patch: two edits, an upgrade, killed calls.                             *)
(***************************************************************************)
EXTENDS Stages

AllKeys == {"gate", "up", "down", "norm", "head", "ple"}
PlePart == {"ple"}
TwoStacks == <<<<"gate", "up">>, <<"down">>>>
Others == <<"norm", "head">>

Unequal == <<3, 5, 2>>

Overlapping == {"experts", "attn", "head"}
ExpertRule == {"experts"}
AllLinears == {"expert0", "expert", "odd", "proj", "vision", "head"}
Named == AllLinears \ {"expert"}
Matching ==
  [experts |-> {"expert0", "expert", "odd"}, attn |-> {"proj", "odd", "vision"}, head |-> {"head", "proj"}]
UpToThree == UNION {[1 .. n -> Overlapping \X {"SKIP", "W2", "W8"}] : n \in 0 .. 3}
=============================================================================
