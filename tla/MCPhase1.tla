------------------------------ MODULE MCPhase1 ------------------------------
(* The KV steps of phase1.py over the layers of MCPatchLayers. *)
EXTENDS MCPatchLayers, Phase1

(* S19 is like S21 with a layer less. *)
KvSteps == <<"S16_fp8kv", "S17_int8kv", "S21_tiers", "S22_paged">>

KvPatches ==
  [S16_fp8kv |-> <<"kv_fp8">>, S17_int8kv |-> <<"kv_int8">>,
   S21_tiers |-> <<"kv_int4", "kv_tiers">>,
   S22_paged |-> <<"kv_int4", "kv_tiers", "kv_paged_prefix">>]

(* int8ring_int4 is there without kv_paged_prefix. *)
KvNeeds ==
  [S16_fp8kv |-> {"kv_fp8"}, S17_int8kv |-> {"kv_int8"},
   S21_tiers |-> {"kv_int4", "kv_tiers"}, S22_paged |-> {"kv_int4", "kv_tiers"}]

(* The kernels of kv_fp8 keep the names that the backend imports anyway. *)
KvCallers ==
  [kv_fp8 |-> {}, kv_int8 |-> {"gather_8"}, kv_int4 |-> {"args_4", "args_T"},
   kv_tiers |-> {"args_T"}, kv_paged_prefix |-> {"paged_branch"}]

Calls == LayerSet \X Ops

(* Beyond these states no property says anything; and people call the      *)
(* scripts instead of the driver, which only calls them in some orders.    *)
Watched ==
  /\ "undercut" \notin past
  /\ "meddled" \in past => pc = "none" /\ kills = 0 /\ disk = Fresh
=============================================================================
