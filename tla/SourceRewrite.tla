--------------------------- MODULE SourceRewrite ---------------------------
(***************************************************************************)
(* scripts/02_prepare_source.py, as stage 1 of scripts/pipeline.sh runs    *)
(* it: the FP8 checkpoint is rewritten into stacked bf16 in one pass.      *)
(* Every expert stack is assembled from the tensors of many source shards, *)
(* the other tensors are passed through, finished tensors collect in       *)
(* memory until an output shard is full, and a source shard is removed     *)
(* when its last tensor was read.  The index is written last; stage 1 is   *)
(* skipped when it exists.  The process may be killed at any point (the    *)
(* OOM killer, a power cut): the disk stays, the memory is gone.           *)
(***************************************************************************)
EXTENDS SequencesExt, FiniteSetsExt, Prefixes

CONSTANTS
  Keys,        \* tensors of the source index
  PleKeys,     \* the n-gram shards among them
  Files,       \* source shards
  Stacks,      \* the expert stacks in order, each the sequence of its pieces
  Rest,        \* the other tensors, in the order of the index
  Limit,       \* finished tensors that fill an output shard
  MaxCrashes   \* bound on the number of crashes

MaxShards == Len(Stacks) + Len(Rest)
Singles == {<<k>> : k \in ToSet(Rest)}
Targets == ToSet(Stacks) \cup Singles

(* No tensor occurs twice in these stacks and passed-through tensors.      *)
Apart(stacks, others) ==
  /\ \A i, j \in DOMAIN stacks : \A a \in DOMAIN stacks[i], b \in DOMAIN stacks[j] :
       stacks[i][a] = stacks[j][b] => i = j /\ a = b
  /\ \A i, j \in DOMAIN others : others[i] = others[j] => i = j
  /\ \A i \in DOMAIN stacks : \A a \in DOMAIN stacks[i], j \in DOMAIN others :
       stacks[i][a] # others[j]

(* What a source checkpoint and the command line look like.                *)
LayoutOK ==
  /\ Stacks \in Seq(Seq(Keys \ PleKeys) \ {<<>>}) /\ Rest \in Seq(Keys \ PleKeys)
  /\ Apart(Stacks, Rest)
  /\ IsFiniteSet(Keys) /\ PleKeys \subseteq Keys
  /\ Keys = PleKeys \cup UNION {ToSet(t) : t \in Targets}
  /\ Limit \in Nat \ {0} /\ MaxCrashes \in Nat

VARIABLES
  keepSrc,    \* --keep-src
  fileOf,     \* fileOf[k]: the source shard that holds k (weight_map)
  files,      \* source shards on disk
  out,        \* out[n]: the tensors in output shard n on disk
  index,      \* the output's index file: "absent", "torn" or "whole"
  pc,         \* "idle", "run", "index", "done", "failed"
  todo, rest, \* stacks and passed-through tensors still to do
  read,       \* pieces of the current stack that are read
  remaining,  \* remaining[f]: tensors of f not read yet
  shard,      \* finished tensors in memory
  no,         \* output shards written by this run
  weightMap,  \* weightMap[t]: the output shard of t, 0 for none
  crashes

memory == <<todo, rest, read, remaining, shard, no, weightMap>>
vars == <<keepSrc, fileOf, files, out, index, pc, todo, rest, read, remaining, shard, no,
          weightMap, crashes>>

(* The source may spread its tensors over the shards in any way.           *)
Init ==
  /\ keepSrc \in BOOLEAN /\ fileOf \in [Keys -> Files]
  /\ files = Files
  /\ out = [n \in 1 .. MaxShards |-> {}]
  /\ index = "absent" /\ pc = "idle"
  /\ todo = <<>> /\ rest = <<>> /\ read = 0
  /\ remaining = [f \in Files |-> 0]
  /\ shard = {} /\ no = 0
  /\ weightMap = [t \in Targets |-> 0]
  /\ crashes = 0

(* Fault: the n-gram tensors are counted although nobody reads them here.  *)
CountedWithPle(f) == {k \in Keys : fileOf[k] = f /\ f \in files}

(* The tensors of a shard this run will read.                              *)
Counted(f) == {k \in Keys \ PleKeys : fileOf[k] = f /\ f \in files}

(* plan and the set-up of main.  An expert tensor is planned even if its   *)
(* shard is gone, another tensor whose shard is gone is only reported.     *)
Start ==
  /\ pc \in {"idle", "failed"} /\ index = "absent"
  /\ pc' = "run"
  /\ todo' = Stacks
  /\ rest' = Select(Rest, {k \in Keys : fileOf[k] \in files})
  /\ read' = 0
  /\ remaining' = [f \in Files |-> Cardinality(Counted(f))]
  /\ shard' = {} /\ no' = 0
  /\ weightMap' = [t \in Targets |-> 0]
  /\ UNCHANGED <<files, out, index, crashes>>

(* Fault: the shard goes when one tensor of it is still to be read.        *)
DoneOneEarly(k) ==
  /\ remaining' = [remaining EXCEPT ![fileOf[k]] = @ - 1]
  /\ files' = IF remaining[fileOf[k]] <= 2 /\ ~keepSrc
              THEN files \ {fileOf[k]} ELSE files

Done(k) ==
  /\ remaining' = [remaining EXCEPT ![fileOf[k]] = @ - 1]
  /\ files' = IF remaining'[fileOf[k]] <= 0 /\ ~keepSrc
              THEN files \ {fileOf[k]} ELSE files

Flush(tensors) ==
  /\ no' = no + 1
  /\ out' = [out EXCEPT ![no + 1] = tensors]
  /\ weightMap' = [t \in Targets |-> IF t \in tensors THEN no + 1 ELSE weightMap[t]]
  /\ shard' = {}

Add(t) ==
  IF Cardinality(shard) + 1 >= Limit
  THEN Flush(shard \cup {t})
  ELSE shard' = shard \cup {t} /\ UNCHANGED <<no, out, weightMap>>

(* One piece of an expert stack is read and dequantized.                   *)
ReadPiece ==
  /\ pc = "run" /\ todo # <<>> /\ read < Len(Head(todo))
  /\ LET k == Head(todo)[read + 1] IN
       fileOf[k] \in files /\ Done(k)
  /\ read' = read + 1
  /\ UNCHANGED <<out, index, pc, todo, rest, shard, no, weightMap, crashes>>

FinishStack ==
  /\ pc = "run" /\ todo # <<>> /\ read = Len(Head(todo))
  /\ Add(Head(todo))
  /\ todo' = Tail(todo) /\ read' = 0
  /\ UNCHANGED <<files, index, pc, rest, remaining, crashes>>

PassThrough ==
  /\ pc = "run" /\ todo = <<>> /\ rest # <<>>
  /\ fileOf[Head(rest)] \in files
  /\ Add(<<Head(rest)>>)
  /\ Done(Head(rest))
  /\ rest' = Tail(rest)
  /\ UNCHANGED <<index, pc, todo, read, crashes>>

(* get raises when the shard of the next tensor is not there.              *)
Fail ==
  /\ pc = "run"
  /\ \/ /\ todo # <<>> /\ read < Len(Head(todo))
        /\ fileOf[Head(todo)[read + 1]] \notin files
     \/ /\ todo = <<>> /\ rest # <<>> /\ fileOf[Head(rest)] \notin files
  /\ pc' = "failed"
  /\ UNCHANGED <<files, out, index, memory, crashes>>

(* Fault: the last, not quite full shard is forgotten.                     *)
FinishWithoutFlush ==
  /\ pc = "run" /\ todo = <<>> /\ rest = <<>>
  /\ UNCHANGED <<no, out, weightMap, shard>>
  /\ pc' = "index" /\ index' = "torn"
  /\ UNCHANGED <<files, todo, rest, read, remaining, crashes>>

(* The last flush; then the index file is opened, which leaves it empty.   *)
Finish ==
  /\ pc = "run" /\ todo = <<>> /\ rest = <<>>
  /\ IF shard = {} THEN UNCHANGED <<no, out, weightMap, shard>> ELSE Flush(shard)
  /\ pc' = "index" /\ index' = "torn"
  /\ UNCHANGED <<files, todo, rest, read, remaining, crashes>>

WriteIndex ==
  /\ pc = "index"
  /\ index' = "whole" /\ pc' = "done"
  /\ UNCHANGED <<files, out, memory, crashes>>

Crash ==
  /\ pc \in {"run", "index"} /\ crashes < MaxCrashes
  /\ pc' = "idle"
  /\ crashes' = crashes + 1
  /\ UNCHANGED <<files, out, index, memory>>

Next ==
  /\ \/ Start \/ ReadPiece \/ FinishStack \/ PassThrough \/ Fail
     \/ Finish \/ WriteIndex \/ Crash
  /\ UNCHANGED <<keepSrc, fileOf>>

Spec == Init /\ [][Next]_vars

-----------------------------------------------------------------------------
TypeOK ==
  /\ keepSrc \in BOOLEAN /\ fileOf \in [Keys -> Files] /\ files \subseteq Files
  /\ out \in [1 .. MaxShards -> SUBSET Targets]
  /\ index \in {"absent", "torn", "whole"}
  /\ pc \in {"idle", "run", "index", "done", "failed"}
  /\ todo \in Seq(Targets) /\ rest \in Seq(Keys) /\ read \in Nat
  /\ remaining \in [Files -> Nat]
  /\ shard \subseteq Targets /\ no \in 0 .. MaxShards
  /\ weightMap \in [Targets -> 0 .. MaxShards]
  /\ crashes \in 0 .. MaxCrashes

(* The tensors this run has still to read.                                 *)
Unread ==
  {k \in Keys : \/ \E j \in DOMAIN rest : rest[j] = k
                \/ \E i \in DOMAIN todo : \E a \in DOMAIN todo[i] :
                     (i > 1 \/ a > read) /\ todo[i][a] = k}

(* A run of which no predecessor was killed never finds a shard gone, and  *)
(* leaves nothing but n-gram tensors: the counters let a shard go with the *)
(* last tensor of it that anybody reads, not before and not never, however *)
(* stacks and passed-through tensors are spread over the shards            *)
(* (02_prepare_source.py:126-148).                                         *)
ShardsGoWhenRead ==
  /\ pc = "run" /\ (keepSrc \/ crashes = 0) => \A k \in Unread : fileOf[k] \in files
  /\ pc = "done" /\ ~keepSrc /\ crashes = 0 =>
       files = {f \in Files : \A k \in Keys : fileOf[k] = f => k \in PleKeys}

(* A whole index speaks the truth: every tensor of the source is in the    *)
(* output shard the index names (02_prepare_source.py:197).                *)
WholeMeansComplete ==
  index = "whole" =>
    \A t \in Targets : weightMap[t] # 0 /\ t \in out[weightMap[t]]
=============================================================================
