-------------------------- MODULE MCSourceRewrite --------------------------
(***************************************************************************)
(* Two expert stacks of two and one pieces, two other tensors and an       *)
(* n-gram tensor, spread over the source shards in every way.              *)
(***************************************************************************)
EXTENDS SourceRewrite

AllKeys == {"gate", "up", "down", "norm", "head", "ple"}
Ple == {"ple"}
TwoStacks == <<<<"gate", "up">>, <<"down">>>>
Others == <<"norm", "head">>
=============================================================================
