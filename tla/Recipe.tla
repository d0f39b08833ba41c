------------------------------- MODULE Recipe ------------------------------
(***************************************************************************)
(* The shipped policy of scripts/04_recipe.py.  A pattern is the set of    *)
(* the layers it matches, among one layer of every kind the patterns tell  *)
(* apart; a group size goes with its scheme and is left out.               *)
(***************************************************************************)
EXTENDS Integers, Sequences

NgramShard == {"ngram_shard"}
Mtp == {"mtp_q_proj", "mtp_experts"}
EmbedTokens == {"embed_tokens"}
Router == {"router", "shared_expert_gate"}
Norm == {"layernorm", "q_norm", "gdn_norm", "visual_norm"}
GdnConv == {"gdn_conv1d"}
GdnInProjAB == {"in_proj_a"}
NgramHeadsPle == {"ngram_heads", "ple_embedding"}
Ple == {"ple_conv1d", "ple_key_proj"}
HyperConnection == {"hyper_connection"}
SelfAttn == {"q_proj", "q_norm", "mtp_q_proj"}
GdnOutProj == {"gdn_out_proj"}
Gdn == {"in_proj_qkv", "gdn_norm"} \cup GdnConv \cup GdnInProjAB \cup GdnOutProj
SharedExpert == {"shared_up_proj"}
Embeddings == {"embed_tokens", "patch_embed"}
Visual == {"visual_mlp", "visual_norm", "patch_embed"}
LmHead == {"lm_head"}
ExpertsDown == {"experts_down", "mtp_experts"}
ExpertsGateUp == {"experts_gate_up"}

Offloaded == << <<NgramShard, "SKIP">>, <<Mtp, "SKIP">>, <<EmbedTokens, "SKIP">> >>

Pinned == << <<Router, "BF16">>, <<Norm, "BF16">>, <<GdnConv, "BF16">> >>

Experts == << <<LmHead, "BF16">>, <<ExpertsDown, "W2">>, <<ExpertsGateUp, "W2">> >>

(* Fault: in_proj_a and in_proj_b are not pinned.                          *)
QualityUnpinned ==
  Offloaded \o Pinned \o
  << <<NgramHeadsPle, "BF16">>, <<Ple, "BF16">>,
     <<HyperConnection, "BF16">>, <<SelfAttn, "BF16">>, <<GdnOutProj, "BF16">>,
     <<Embeddings, "BF16">>, <<Visual, "BF16">>, <<Gdn, "W8">>,
     <<SharedExpert, "W8">> >> \o Experts

Quality ==
  Offloaded \o Pinned \o
  << <<GdnInProjAB, "BF16">>, <<NgramHeadsPle, "BF16">>, <<Ple, "BF16">>,
     <<HyperConnection, "BF16">>, <<SelfAttn, "BF16">>, <<GdnOutProj, "BF16">>,
     <<Embeddings, "BF16">>, <<Visual, "BF16">>, <<Gdn, "W8">>,
     <<SharedExpert, "W8">> >> \o Experts
=============================================================================
