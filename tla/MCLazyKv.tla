------------------------------ MODULE MCLazyKv ------------------------------
(***************************************************************************)
(* A small KV cache: two buffers, a token takes 1 byte in one and 2 in the *)
(* other, chunks of 2 bytes; a token costs 3 bytes.  One run checks it     *)
(* alone on the GPU and next to another process that takes and returns     *)
(* VRAM between any two steps of a hook.                                   *)
(***************************************************************************)
EXTENDS LazyKv

TwoBuffers == <<1, 2>>
=============================================================================
