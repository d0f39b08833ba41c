---------------------------- MODULE PatchLayers ----------------------------
(***************************************************************************)
(* The layered text patches of patches/kv_fp8.py, kv_int8.py, kv_int4.py,  *)
(* kv_tiers.py and kv_paged_prefix.py: apply and revert with their guards, *)
(* on a tree of source files.                                              *)
(*                                                                         *)
(* A file is the sequence of its passages, <<>> if there is no such file;  *)
(* an edit replaces one run of passages by another.  Every edit is a write *)
(* of its own, between which the script may be killed.  (A write is whole: *)
(* a file left half written by a kill is left out.)                        *)
(*                                                                         *)
(* A definition whose comment starts with Fault is a plausible mistake in  *)
(* the one that follows it.                                                *)
(***************************************************************************)
EXTENDS Integers, FiniteSetsExt, SequencesExt

CONSTANTS
  Base,   \* Base[file]: the passages of the checkout without these layers
  Edits,  \* Edits[l]: the edits of layer l in their order: [file, from, to]
  News,   \* News[l]: the files that l creates: [file, text]
  Kernel, \* Kernel[l]: the kernel of l in sparse_attn.py, by which it is known
  Intact, \* Intact[l]: the edits of l that the layer above leaves as they are
  None

Layers == <<"kv_fp8", "kv_int8", "kv_int4", "kv_tiers", "kv_paged_prefix">>
LayerSet == ToSet(Layers)
Ops == {"apply", "revert"}

Below(l) == Layers[SelectInSeq(Layers, LAMBDA k : k = l) - 1]

VARIABLES
  tree,   \* tree[file]: its passages
  call,   \* the running call: its layer and operation, and the writes to come
  status  \* the exit status of the last call

pvars == <<tree, call, status>>

PInit == tree = Base /\ call = None /\ status = 0

-----------------------------------------------------------------------------
(* What a script sees of the tree.                                         *)

Occurs(text, f) ==
  \E i \in 0 .. Len(tree[f]) - Len(text) : SubSeq(tree[f], i + 1, i + Len(text)) = text

(* An edit is "applied" or "clean" by its texts alone: the text of a layer *)
(* above may split it, and an edit that only inserts stays clean beneath.  *)
Applied(e) == Occurs(e.to, e.file)
Clean(e) == Occurs(e.from, e.file)

NewApplied(n) == tree[n.file] = n.text
NewClean(n) == tree[n.file] = <<>>

AllApplied(l) ==
  /\ \A e \in ToSet(Edits[l]) : Applied(e)
  /\ \A n \in ToSet(News[l]) : NewApplied(n)

HasKernel(l) == Occurs(<<Kernel[l]>>, "sparse_attn")

(* Neither of them is missing: state and file_state.                       *)
Fits(l) ==
  /\ \A e \in ToSet(Edits[l]) : Clean(e) \/ Applied(e)
  /\ \A n \in ToSet(News[l]) : NewClean(n) \/ NewApplied(n)

(* The layer below is all there, or l itself is, which hides that.         *)
Ready(l) == l # "kv_fp8" => HasKernel(l) \/ AllApplied(Below(l))

(* Was layer l reverted although the one above was still there?            *)
RevertedUnderneath(l) ==
  \/ \E i \in Intact[l] : ~Applied(Edits[l][i])
  \/ l # "kv_int8" /\ \E n \in ToSet(News[l]) : ~NewApplied(n)

-----------------------------------------------------------------------------
(* What apply and revert refuse.                                           *)

ApplyFits(l) ==
  /\ Ready(l) /\ Fits(l)
  /\ l = "kv_tiers" => ~HasKernel("kv_paged_prefix")

(* kv_fp8, kv_int8 and kv_int4 refuse with exit status 0.                  *)
ApplyStatus(l) ==
  IF \/ l = "kv_paged_prefix"
     \/ l = "kv_tiers" /\ HasKernel("kv_paged_prefix")
  THEN 1 ELSE 0

(* Fault: the two layers on top are not guarded.                           *)
RevertFitsAbove(l, force) ==
  /\ l = "kv_fp8" => ~HasKernel("kv_int8")
  /\ l = "kv_int4" /\ ~force => ~HasKernel("kv_tiers")

(* kv_int8 has no guard: it warns.                                         *)
RevertFits(l, force) ==
  /\ l = "kv_fp8" => ~HasKernel("kv_int8")
  /\ l = "kv_int4" /\ ~force =>
       /\ ~HasKernel("kv_tiers")
       /\ HasKernel("kv_int4") => ~RevertedUnderneath("kv_int8") /\ HasKernel("kv_int8")
  /\ l = "kv_tiers" =>
       /\ ~HasKernel("kv_paged_prefix")
       /\ HasKernel("kv_tiers") /\ ~force =>
            ~RevertedUnderneath("kv_int4") /\ HasKernel("kv_int4")
  /\ l = "kv_paged_prefix" /\ ~force =>
       (HasKernel("kv_paged_prefix") => ~RevertedUnderneath("kv_tiers"))

RevertStatus(l) == IF l \in {"kv_fp8", "kv_int8"} THEN 0 ELSE 1

-----------------------------------------------------------------------------
(* What they write, found out before the first write.                      *)

ApplyWrites(l) ==
  SelectSeq(Edits[l], LAMBDA e : ~Applied(e)) \o
  [i \in 1 .. Len(SelectSeq(News[l], NewClean)) |->
     LET n == SelectSeq(News[l], NewClean)[i]
     IN [file |-> n.file, from |-> <<>>, to |-> n.text]]

Undone(edits, news) ==
  [i \in DOMAIN edits |-> [edits[i] EXCEPT !.from = edits[i].to, !.to = edits[i].from]] \o
  [i \in DOMAIN news |-> [file |-> news[i].file, from |-> news[i].text, to |-> <<>>]]

(* Fault: a layer of which something is missing counts as not applied.     *)
RevertWritesWhole(l) == IF AllApplied(l) THEN Undone(Edits[l], News[l]) ELSE <<>>

(* Every edit that reads applied is taken back, and a new file that is as  *)
(* it was written.                                                         *)
RevertWrites(l) == Undone(SelectSeq(Edits[l], Applied), SelectSeq(News[l], NewApplied))

Written(text, w) ==
  IF <<>> \in {w.from, w.to} THEN w.to ELSE ReplaceFirstSubSeq(w.to, w.from, text)

-----------------------------------------------------------------------------
(* A script is called, writes, and returns.                                *)

Refuse(code) == status' = code /\ UNCHANGED <<tree, call>>

Begin(l, op, writes) ==
  /\ call' = [layer |-> l, op |-> op, todo |-> writes]
  /\ status' = 0
  /\ UNCHANGED tree

Apply(l) ==
  /\ call = None
  /\ \/ ApplyFits(l) /\ Begin(l, "apply", ApplyWrites(l))
     \/ ~ApplyFits(l) /\ Refuse(ApplyStatus(l))

Revert(l, force) ==
  /\ call = None
  /\ \/ RevertFits(l, force) /\ Begin(l, "revert", RevertWrites(l))
     \/ ~RevertFits(l, force) /\ Refuse(RevertStatus(l))

Write ==
  /\ call # None /\ call.todo # <<>>
  /\ LET w == Head(call.todo)
     IN tree' = [tree EXCEPT ![w.file] = Written(tree[w.file], w)]
  /\ call' = [call EXCEPT !.todo = Tail(call.todo)]
  /\ UNCHANGED status

(* Only kv_paged_prefix looks at what it has done.                         *)
Doubtful(c) ==
  /\ c.layer = "kv_paged_prefix"
  /\ \/ c.op = "apply" /\ RevertedUnderneath("kv_tiers")
     \/ c.op = "revert" /\ \E e \in ToSet(Edits[c.layer]) : Applied(e) \/ ~Clean(e)

Return ==
  /\ call # None /\ call.todo = <<>>
  /\ status' = IF Doubtful(call) THEN 1 ELSE 0
  /\ call' = None
  /\ UNCHANGED tree

Script == Write \/ Return

(* Somebody calls the scripts, in any order, and waits for each.           *)
CliNext ==
  \/ \E l \in LayerSet : Apply(l) \/ Revert(l, FALSE)
  \/ Script

CliSpec == PInit /\ [][CliNext]_pvars

-----------------------------------------------------------------------------
(* The trees that the layers make when they are put one on the other.      *)
Layered(text, l) ==
  LET edited == FoldLeft(LAMBDA t, e : [t EXCEPT ![e.file] = Written(t[e.file], e)],
                         text, Edits[l])
  IN FoldLeft(LAMBDA t, n : [t EXCEPT ![n.file] = n.text], edited, News[l])

Stacks[n \in 0 .. Len(Layers)] ==
  IF n = 0 THEN Base ELSE Layered(Stacks[n - 1], Layers[n])

(* The layers that are there, if the tree is such a stack.                 *)
Stacked == \E n \in 0 .. Len(Layers) : tree = Stacks[n]

(* Whatever is called in whatever order, every layer is all there or not   *)
(* at all, and none without those below: "each apply() refuses unless its  *)
(* prerequisite is fully applied, and each revert() refuses while a later  *)
(* layer is applied" (patches/README.md:52-53).                            *)
StackedWhenIdle == call = None => Stacked
=============================================================================
