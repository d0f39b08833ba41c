-------------------------- MODULE MCExpertElastic --------------------------
(***************************************************************************)
(* Small placements for model checking ExpertElastic.                      *)
(*                                                                         *)
(* Split: two layers of three rows, two kinds the offloader put on opposite *)
(* sides, one row pinned for kind 1; the floor is 2 rows, set by kind 2.    *)
(* A chunk holds two rows of kind 1; rows of kind 2 straddle chunks.        *)
(*                                                                         *)
(* Deep: two layers of four rows, one kind, layer 0 on the host: the floor  *)
(* is 2 rows, so fill and free go through several rounds; a chunk holds two *)
(* rows.                                                                   *)
(***************************************************************************)
EXTENDS ExpertElastic

SplitOnHost == <<{0}, {1}>>
SplitPinned == <<1, 0>>
SplitRowBytes == <<2, 3>>

DeepOnHost == <<{0}>>
DeepPinned == <<0>>
DeepRowBytes == <<1>>
=============================================================================
