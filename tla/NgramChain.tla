----------------------------- MODULE NgramChain -----------------------------
(***************************************************************************)
(* NGRAM speculation as patches/ngram_ple.py makes it work for this model. *)
(* A step drafts a tree of tokens from the corpus, collapses it into one   *)
(* chain (_linearize_chain), verifies the rows in one forward, accepts     *)
(* what the target would have said itself, and commits the accepted rows   *)
(* to four states: KV, GDN state, PLE n-gram context and PLE convolution.  *)
(*                                                                         *)
(* A state is the sequence of tokens it was computed from, or the last of  *)
(* them.  The target is any function of the whole sequence: it is asked    *)
(* once about each, so its answer is chosen when it is asked.  An answer   *)
(* computed from states that disagree with the sequence is Wrong.          *)
(*                                                                         *)
(* From SGLang, used and not patched: the corpus with its padding, the     *)
(* verify forward whose layers take row j - 1 for the parent of row j, the *)
(* greedy walk over the mask, the fold of the GDN state and the move of    *)
(* accepted KV rows, which leaves their scales behind.                     *)
(***************************************************************************)
EXTENDS SequencesExt, FiniteSetsExt, Naturals

CONSTANTS
  D,         \* draft_token_num: rows of a verify, row 0 is the last token
  Tokens,    \* 0 is the padding token, and a token like any other
  Wrong,
  Own, Saved,  \* virtual ids of the request's state slot and its checkpoint
  Phys,      \* Phys[v]: translate_mamba_indices
  Prompt,
  Interval,  \* a checkpoint is taken at multiples of this length
  MaxLen     \* bound on the length of a sequence

TableOK ==
  /\ D \in Nat \ {0} /\ Interval \in Nat \ {0}
  /\ 0 \in Tokens /\ Wrong \notin Tokens /\ Prompt \in Seq(Tokens)
  /\ Own # Saved /\ Phys \in [{Own, Saved} -> {Own, Saved}] /\ IsInjective(Phys)

RowIds == 0 .. D - 1

VARIABLES
  branch,     \* "fold" or "ring": the branch of commit_mamba_states_after_verify
  reject,     \* SGLANG_NGRAM_FORCE_REJECT
  allocated,  \* the PLE intermediates that exist: "ngram", "conv"
  toks,       \* prompt and output; the last token is in no state yet
  kv,         \* kv[i]: the token whose key and value position i holds
  gdn,        \* gdn[p]: the tokens folded into physical slot p
  ple,        \* ple[p]: the last tokens of the n-gram context and the convolution
  saved,      \* length of the checkpoint, 0: none
  draft,      \* the rows and their mask: mask[i] is row i and its ancestors
  target,     \* target[j]: what the target says after row j
  pc

rigid == <<branch, reject, allocated>>
states == <<toks, kv, gdn, ple, saved>>
vars == <<rigid, states, draft, target, pc>>

-----------------------------------------------------------------------------
LastOf(s, n) == SubSeq(s, Max({1, Len(s) - n + 1}), Len(s))
Window(s) == [ngram |-> LastOf(s, 2), conv |-> LastOf(s, 3)]
Slide(w, s) == [ngram |-> LastOf(w.ngram \o s, 2), conv |-> LastOf(w.conv \o s, 3)]
Done == SubSeq(toks, 1, Len(toks) - 1)

NoDraft == [tok |-> [i \in RowIds |-> 0], mask |-> [i \in RowIds |-> {i}]]
NoTarget == [i \in RowIds |-> 0]

(* The prompt has been prefilled and the target has said its first token.  *)
Init ==
  /\ branch \in {"fold", "ring"} /\ reject \in BOOLEAN
  /\ allocated \in {{"ngram", "conv"}, {"ngram"}, {"conv"}}
  /\ \E t \in Tokens : toks = Append(Prompt, t)
  /\ kv = Done
  /\ gdn = [p \in {Own, Saved} |-> IF p = Phys[Own] THEN Done ELSE <<>>]
  /\ ple = [p \in {Own, Saved} |-> Window(gdn[p])]
  /\ saved = 0
  /\ draft = NoDraft /\ target = NoTarget
  /\ pc = "draft"

-----------------------------------------------------------------------------
(* The trees of the corpus in BFS order, one child per token; the rows it  *)
(* has nothing for are 0 and children of the root.                         *)
Trees ==
  {t \in [parent : [1 .. D - 1 -> RowIds], tok : [1 .. D - 1 -> Tokens], real : RowIds] :
     /\ \A i \in 1 .. D - 1 : t.parent[i] < i
     /\ \A i \in 1 .. t.real, j \in 1 .. t.real :
          i < j => /\ t.parent[i] <= t.parent[j]
                   /\ t.parent[i] = t.parent[j] => t.tok[i] # t.tok[j]
     /\ \A i \in t.real + 1 .. D - 1 : t.parent[i] = 0 /\ t.tok[i] = 0}

(* batch_get: the root row holds the last token.                           *)
FromCorpus(t) ==
  LET mask[i \in RowIds] == IF i = 0 THEN {0} ELSE {i} \cup mask[t.parent[i]]
  IN  [tok |-> [i \in RowIds |-> IF i = 0 THEN Last(toks) ELSE t.tok[i]], mask |-> mask]

(* A row's parent is its last ancestor.                                    *)
IsChild(d, k, i) == k > i /\ Max(d.mask[k] \ {k}) = i
Children(d, i) == {k \in RowIds : IsChild(d, k, i)}

(* The longest chain that starts at row i; of two as long the one through  *)
(* the first child.                                                        *)
Longest(d) ==
  LET longest[i \in RowIds] ==
        LET kids == Children(d, i)
            depth == Max({0} \cup {Len(longest[k]) : k \in kids})
        IN  IF kids = {} THEN <<i>>
            ELSE <<i>> \o longest[Min({k \in kids : Len(longest[k]) = depth})]
  IN  longest[0]

(* Fault: the tree of the corpus is used as it comes.                      *)
TreeAsItComes(d) == d

(* _linearize_chain: the rows of the longest chain, 0 after them, and a    *)
(* triangular mask.                                                        *)
LinearizeChain(d) ==
  LET best == Longest(d)
  IN  [tok |-> [i \in RowIds |-> IF i < Len(best) /\ (i = 0 \/ ~reject)
                                 THEN d.tok[best[i + 1]] ELSE 0],
       mask |-> [i \in RowIds |-> 0 .. i]]

Draft ==
  /\ pc = "draft" /\ Len(toks) + D <= MaxLen
  /\ \E t \in Trees : draft' = LinearizeChain(FromCorpus(t))
  /\ pc' = "verify"
  /\ UNCHANGED <<rigid, states, target>>

-----------------------------------------------------------------------------
UpTo(j) == [i \in 1 .. j + 1 |-> draft.tok[i - 1]]
Nth(S, n) == CHOOSE i \in S : Cardinality({j \in S : j < i}) = n - 1
Path(j) == [i \in 1 .. Cardinality(draft.mask[j]) |-> draft.tok[Nth(draft.mask[j], i)]]

(* What the PLE records for row j: intermediate_context[j] and             *)
(* intermediate_conv_state[j].                                             *)
Intermediate(j) == Slide(ple[Phys[Own]], UpTo(j))

SeesItsPath(j) ==
  LET truth == Done \o Path(j)
  IN  /\ kv \o UpTo(j) = truth
      /\ gdn[Phys[Own]] \o UpTo(j) = truth
      /\ Intermediate(j) = Window(truth)

(* Fault: the check looks at the n-gram context alone.                     *)
NgramAllocated == "ngram" \in allocated

(* The first verify forward raises when an intermediate is missing.        *)
IntermediatesAllocated == {"ngram", "conv"} \subseteq allocated

Verify ==
  /\ pc = "verify"
  /\ IF IntermediatesAllocated
     THEN /\ \E says \in [RowIds -> Tokens] :
               target' = [j \in RowIds |-> IF SeesItsPath(j) THEN says[j] ELSE Wrong]
          /\ pc' = "commit"
     ELSE pc' = "raised" /\ UNCHANGED target
  /\ UNCHANGED <<rigid, states, draft>>

(* The children of row i that hold what the target says after it.          *)
Right(i) == {k \in Children(draft, i) : draft.tok[k] = target[i]}

(* The rows the greedy walk accepts, the root row first.                   *)
Accepted ==
  LET walk[i \in RowIds] == IF Right(i) = {} THEN <<i>> ELSE <<i>> \o walk[Min(Right(i))]
  IN  walk[0]

(* Only intermediates that exist are scattered.                            *)
Scatter(w, j) ==
  [f \in {"ngram", "conv"} |-> IF f \in allocated THEN Intermediate(j)[f] ELSE w[f]]

(* Fault: the virtual slot id is used as it is.                            *)
OwnSlotVirtual == Own

OwnSlot == Phys[Own]

(* The last step of the accepted ones that ends at a multiple of Interval. *)
StepsToTrack(n) == {s \in 0 .. n - 1 : (Len(Done) + s + 1) % Interval = 0}

(* _update_ple_state_after_mtp_verify on the last accepted row; the fold   *)
(* branch also writes the checkpoint, the ring branch passes no track.     *)
CommitPle(last, track) ==
  [p \in {Own, Saved} |->
     IF p = OwnSlot THEN Scatter(ple[p], last)
     ELSE IF p = Phys[Saved] /\ track # {} THEN Scatter(ple[p], Max(track)) ELSE ple[p]]

Commit ==
  LET n == Len(Accepted)
      last == Accepted[n]
      track == IF branch = "fold" THEN StepsToTrack(n) ELSE {}
  IN  /\ pc = "commit"
      /\ toks' = toks \o [i \in 1 .. n |-> target[Accepted[i]]]
      /\ kv' = kv \o [i \in 1 .. n |->
                        IF Accepted[i] = i - 1 THEN draft.tok[i - 1] ELSE Wrong]
      /\ gdn' = [p \in {Own, Saved} |->
                  IF p = Phys[Own] THEN gdn[p] \o UpTo(n - 1)
                  ELSE IF track # {} THEN gdn[Phys[Own]] \o UpTo(Max(track)) ELSE gdn[p]]
      /\ ple' = CommitPle(last, track)
      /\ saved' = IF track = {} THEN saved ELSE Len(Done) + Max(track) + 1
      /\ draft' = NoDraft /\ target' = NoTarget
      /\ pc' = "draft"
      /\ UNCHANGED rigid

(* Another request starts from the checkpoint with a token of its own.     *)
Resume(t) ==
  /\ pc = "draft" /\ saved > 0
  /\ toks' = Append(SubSeq(toks, 1, saved), t)
  /\ kv' = SubSeq(kv, 1, saved)
  /\ gdn' = [gdn EXCEPT ![Phys[Own]] = gdn[Phys[Saved]]]
  /\ ple' = [ple EXCEPT ![Phys[Own]] = ple[Phys[Saved]]]
  /\ UNCHANGED <<rigid, saved, draft, target, pc>>

Next == Draft \/ Verify \/ Commit \/ \E t \in Tokens : Resume(t)

Spec == Init /\ [][Next]_vars

-----------------------------------------------------------------------------
(* The four states stand after the same tokens, all but the last one.      *)
InStep ==
  /\ kv = Done /\ gdn[Phys[Own]] = Done
  /\ ple[Phys[Own]] = Window(Done)

(* Speculation changes no token: every token of the output is what the     *)
(* target says after the tokens before it, whatever the corpus proposed    *)
(* and however much of it was accepted, and after every commit KV, GDN     *)
(* state, n-gram context and convolution stand after the same tokens       *)
(* (ngram_ple.py:60, 142).                                                 *)
Lossless ==
  /\ Wrong \notin ToSet(toks)
  /\ pc = "draft" => InStep
=============================================================================
