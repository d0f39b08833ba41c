--------------------------- MODULE MCElasticDeep ---------------------------
(***************************************************************************)
(* The placement Deep of MCExpertElastic, beside other users of the VRAM   *)
(* and, in the behaviors in which others is false, while nobody else       *)
(* allocates during a command; and the cache as a lender of VRAM.          *)
(***************************************************************************)
EXTENDS MCExpertElastic, ElasticLender
=============================================================================
