----------------------------- MODULE MCKvTiers -----------------------------
(***************************************************************************)
(* Small tiered caches.  Small: one request, as serve.sh runs it, two      *)
(* layers, the paged allocator, a ring of 4 rows for 12 slots; and two     *)
(* requests that recycle 5 slots with the token allocator, so that the     *)
(* slots of one write share the 2 ring rows; one layer, which is what the  *)
(* kernel tests cover.  Layered: two requests and two layers.              *)
(***************************************************************************)
EXTENDS KvTiers

Small ==
  {[reqs |-> 1, slots |-> 12, ring |-> 4, layers |-> 2, maxTokens |-> 3, freeAtTail |-> FALSE],
   [reqs |-> 2, slots |-> 5, ring |-> 2, layers |-> 1, maxTokens |-> 2, freeAtTail |-> TRUE]}

Layered ==
  {[reqs |-> 2, slots |-> 4, ring |-> 2, layers |-> 2, maxTokens |-> 1, freeAtTail |-> FALSE]}
=============================================================================
