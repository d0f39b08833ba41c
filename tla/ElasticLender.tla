--------------------------- MODULE ElasticLender ---------------------------
(***************************************************************************)
(* ExpertElastic implements VramLender: what the cache holds is the chunks *)
(* its arenas have mapped, and free is the command that lends.             *)
(***************************************************************************)
EXTENDS ExpertElastic

CONSTANT NoWant  \* nobody asks the cache for VRAM

ASSUME NoWantAssumption == NoWant \notin Nat

(* The least size of a layer that the host can complement.                 *)
HostFloor == Min({s \in 0 .. NumRows : HostFits(s)})

(* The chunks of a cache whose layers are all at the floor.                *)
FloorChunks == Total([k \in Kinds |-> [l \in Layers |-> ChunksForRows(k, HostFloor)]])

Lender == INSTANCE VramLender WITH
  MinHeld <- FloorChunks,
  Wants <- FreeArgs,
  held <- MappedChunks,
  want <- IF op.cmd = "free" THEN op.arg ELSE NoWant

(* Through all the steps of the commands, failed and successful, the cache *)
(* is a lender: it never goes below its floor, a shrink that frees memory  *)
(* for somebody never maps any, and it ends, having kept its promise.      *)
ImplementsLender == Lender!LenderSpec

=============================================================================
