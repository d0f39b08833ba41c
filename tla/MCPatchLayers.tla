--------------------------- MODULE MCPatchLayers ---------------------------
(***************************************************************************)
(* The KV layers with an edit of every shape they have: one that replaces, *)
(* one that inserts and stays clean, one inside the text of a lower layer  *)
(* that splits it or leaves it whole, one on a file that a lower layer has *)
(* made.  The numbers are those of the scripts' EDITS.                     *)
(***************************************************************************)
EXTENDS PatchLayers

Edit(file, from, to) == [file |-> file, from |-> from, to |-> to]

(* The text of an insertion before or after its anchor.                    *)
Before(file, anchor, new) == Edit(file, <<anchor>>, <<new, anchor>>)
After(file, anchor, new) == Edit(file, <<anchor>>, <<anchor, new>>)
Swap(file, old, new) == Edit(file, <<old>>, <<new>>)

BaseText ==
  [sparse_attn |-> <<"valid_counts", "wrapper">>, backend |-> <<"kwargs", "bits", "sink">>,
   configurator |-> <<"imports", "pool_class">>, server_args |-> <<"choices">>,
   memory_pool |-> <<"view">>,
   int8_pool |-> <<>>, int4_pool |-> <<>>, tiered_pool |-> <<>>]

LayerEdits ==
  [kv_fp8 |-> <<
     Before("sparse_attn", "valid_counts", "fp8"),         \* 0
     Swap("sparse_attn", "wrapper", "wrapper_fp8"),        \* 1
     Swap("memory_pool", "view", "view_fp8")>>,            \* 4
   kv_int8 |-> <<
     Swap("server_args", "choices", "choices_8"),          \* 0
     After("configurator", "imports", "import_8"),         \* 3
     Swap("configurator", "pool_class", "pool_class_8"),   \* 4
     Before("sparse_attn", "valid_counts", "int8"),        \* 8
     Swap("sparse_attn", "wrapper_fp8", "wrapper_8"),      \* 9
     Edit("backend", <<"kwargs">>, <<"gather_8", "args_8", "kwargs">>), \* 11
     Swap("backend", "bits", "bits_8")>>,                  \* 13
   kv_int4 |-> <<
     Swap("server_args", "choices_8", "choices_4"),        \* 0
     After("configurator", "import_8", "import_4"),        \* 3
     Swap("configurator", "pool_class_8", "pool_class_4"), \* 4
     After("int8_pool", "class_8", "hooks_4"),             \* 6
     Before("sparse_attn", "valid_counts", "int4"),        \* 7
     Swap("sparse_attn", "wrapper_8", "wrapper_4"),        \* 8
     Swap("backend", "args_8", "args_4")>>,                \* 10
   kv_tiers |-> <<
     After("configurator", "import_4", "import_T"),        \* 2
     Swap("configurator", "pool_class_4", "pool_class_T"), \* 3
     Before("sparse_attn", "valid_counts", "tiered"),      \* 5
     Swap("sparse_attn", "wrapper_4", "wrapper_T"),        \* 6
     Swap("backend", "args_4", "args_T")>>,                \* 8
   kv_paged_prefix |-> <<
     After("sparse_attn", "tiered", "paged"),              \* 0
     Swap("sparse_attn", "valid_counts", "marked"),        \* 1
     After("backend", "sink", "paged_branch")>>]           \* 5

LayerNews ==
  [kv_fp8 |-> <<>>,
   kv_int8 |-> <<[file |-> "int8_pool", text |-> <<"class_8">>]>>,
   kv_int4 |-> <<[file |-> "int4_pool", text |-> <<"class_4">>]>>,
   kv_tiers |-> <<[file |-> "tiered_pool", text |-> <<"class_T">>]>>,
   kv_paged_prefix |-> <<>>]

Kernels ==
  [kv_fp8 |-> "fp8", kv_int8 |-> "int8", kv_int4 |-> "int4",
   kv_tiers |-> "tiered", kv_paged_prefix |-> "paged"]

(* KV_INT8_INTACT_UNDER_INT4, KV_INT4_INTACT_UNDER_TIERS and all but       *)
(* KV_TIERS_OVERLAID, by their place in LayerEdits.                        *)
IntactEdits ==
  [kv_fp8 |-> {}, kv_int8 |-> {2, 7}, kv_int4 |-> {1, 2, 4},
   kv_tiers |-> {1, 2, 4, 5}, kv_paged_prefix |-> {}]
=============================================================================
