------------------------------- MODULE Stages -------------------------------
(***************************************************************************)
(* The programs of the quantization chain, one after the other in one run: *)
(* a behavior is about one of them (part), chosen at the start, and the    *)
(* variables of the others stay None.  pc, at and crashes belong to the    *)
(* part that runs.  The programs meet on disk only, where each checks what *)
(* it finds.                                                               *)
(*                                                                         *)
(* rewrite: 02_prepare_source, with and without --keep-src.                *)
(* split: 03_split_ple; one checkpoint.                                    *)
(* seal: pipeline.sh and 09_seal_output.                                   *)
(* order: 05_quantize with any policy.                                     *)
(* recipe: 05_quantize with the policy of 04_recipe that was shipped.      *)
(* tuning: 06_subset_tuning.                                               *)
(* patch: 07_patch_autoround.                                              *)
(***************************************************************************)
EXTENDS Recipe

CONSTANTS
  Keys, PleKeys, Shards, Stacks, Rest, Limit, RewriteCrashes,
  Checkpoint, ShardRows, SplitCrashes,
  Runs, OutputFiles, Minutes,
  Patterns, ExpertRules, Linears, Listed, Match, Odd, Vision, Outside, Policies,
  BlockLinears, MaxExpert, NumGroups, Blocks,
  Jobs, Versions, Kills,
  None, Torn

VARIABLES
  part, pc, at, crashes,
  keepSrc, fileOf, files, out, index, todo, rest, read, remaining, shard, no, weightMap,
  bin, man, source, offsets, mapped,
  dirOf, did, handle, rec, content, manifest, readOnly, sealed, opened, late,
  policy, flags, lc, disk,
  left, expert, groups, round, allow, first, wrapper, prev, wrapped, tuned, class,
  norms, merged,
  fits, version, file, bak, op, writing, code, kills

rewriteVars ==
  <<keepSrc, fileOf, files, out, index, todo, rest, read, remaining, shard, no, weightMap>>
splitVars == <<bin, man, source, offsets, mapped>>
sealVars == <<dirOf, did, handle, rec, content, manifest, readOnly, sealed, opened, late>>
configVars == <<policy, flags, lc, disk>>
tuningVars == <<left, expert, groups, round, allow, first, wrapper, prev, wrapped,
                tuned, class, norms, merged>>
patchVars == <<fits, version, file, bak, op, writing, code, kills>>
vars == <<part, pc, at, crashes, rewriteVars, splitVars, sealVars, configVars, tuningVars,
          patchVars>>

Rewrite == INSTANCE SourceRewrite WITH Files <- Shards, MaxCrashes <- RewriteCrashes

Split == INSTANCE PleTable WITH
  Sources <- {Checkpoint}, RowsPer <- [s \in {Checkpoint} |-> ShardRows],
  MaxCrashes <- SplitCrashes

Seal == INSTANCE Pipeline WITH Files <- OutputFiles

Order == INSTANCE LayerConfig WITH Layers <- Linears

KindPatterns ==
  {NgramShard, Mtp, EmbedTokens, Router, Norm, GdnConv, GdnInProjAB, NgramHeadsPle,
   Ple, HyperConnection, SelfAttn, GdnOutProj, Gdn, SharedExpert,
   Embeddings, Visual, LmHead, ExpertsDown, ExpertsGateUp}

Shipped == INSTANCE LayerConfig WITH
  Patterns <- KindPatterns, ExpertRules <- {ExpertsDown, ExpertsGateUp},
  Layers <- (UNION KindPatterns) \cup {"deepstack"},
  Listed <- (UNION KindPatterns) \cup {"deepstack"}, Match <- [k \in KindPatterns |-> k],
  Odd <- Norm \cup GdnConv \cup GdnInProjAB \cup EmbedTokens \cup NgramShard
           \cup {"ple_conv1d", "shared_expert_gate", "ple_embedding"},
  Vision <- Visual \cup {"deepstack"}, Outside <- LmHead \cup EmbedTokens \cup Visual \cup Mtp,
  Policies <- {Quality}

Tuning == INSTANCE SubsetTuning WITH Layers <- BlockLinears

Patch == INSTANCE AutoRoundPatch

(* The sizes and shapes are such as the programs find them.                *)
ASSUME LayoutAssumption == Rewrite!LayoutOK
ASSUME SourcesAssumption == Checkpoint # None /\ Split!SourcesOK /\ SplitCrashes \in Nat
ASSUME RunsAssumption == Seal!Manifest \notin OutputFiles \cup {None} /\ Minutes \in Nat
ASSUME ConfigAssumption == Order!ConfigOK
ASSUME SizesAssumption == Tuning!SizesOK /\ Patch!SizesOK

-----------------------------------------------------------------------------
NoRewrite ==
  /\ keepSrc = None /\ fileOf = None /\ files = None /\ out = None /\ index = None /\ todo = None
  /\ rest = None /\ read = None /\ remaining = None /\ shard = None /\ no = None
  /\ weightMap = None
NoSplit == bin = None /\ man = None /\ source = None /\ offsets = None /\ mapped = None
NoSeal ==
  /\ dirOf = None /\ did = None /\ handle = None /\ rec = None /\ content = None
  /\ manifest = None /\ readOnly = None /\ sealed = None /\ opened = None /\ late = None
NoConfig == policy = None /\ flags = None /\ lc = None /\ disk = None
NoTuning ==
  /\ left = None /\ expert = None /\ groups = None /\ round = None /\ allow = None
  /\ first = None /\ wrapper = None /\ prev = None /\ wrapped = None /\ tuned = None
  /\ class = None /\ norms = None /\ merged = None
NoPatch ==
  /\ fits = None /\ version = None /\ file = None /\ bak = None /\ op = None
  /\ writing = None /\ code = None /\ kills = None

Init ==
  \/ /\ part = "rewrite" /\ Rewrite!Init
     /\ NoSplit /\ NoSeal /\ NoConfig /\ NoTuning /\ NoPatch /\ at = None
  \/ /\ part = "split" /\ Split!Init
     /\ NoRewrite /\ NoSeal /\ NoConfig /\ NoTuning /\ NoPatch /\ at = None /\ pc = None
  \/ /\ part = "seal" /\ Seal!Init
     /\ NoRewrite /\ NoSplit /\ NoConfig /\ NoTuning /\ NoPatch
     /\ at = None /\ crashes = None
  \/ /\ (part = "order" /\ Order!Init) \/ (part = "recipe" /\ Shipped!Init)
     /\ NoRewrite /\ NoSplit /\ NoSeal /\ NoTuning /\ NoPatch /\ crashes = None
  \/ /\ part = "tuning" /\ Tuning!Init
     /\ NoRewrite /\ NoSplit /\ NoSeal /\ NoConfig /\ NoPatch
     /\ at = None /\ crashes = None
  \/ /\ part = "patch" /\ Patch!Init
     /\ NoRewrite /\ NoSplit /\ NoSeal /\ NoConfig /\ NoTuning
     /\ pc = None /\ crashes = None

OnlyRewrite == UNCHANGED <<part, at, splitVars, sealVars, configVars, tuningVars, patchVars>>
OnlySplit == UNCHANGED <<part, pc, at, rewriteVars, sealVars, configVars, tuningVars, patchVars>>
OnlySeal ==
  UNCHANGED <<part, at, crashes, rewriteVars, splitVars, configVars, tuningVars, patchVars>>
OnlyConfig == UNCHANGED <<part, crashes, rewriteVars, splitVars, sealVars, tuningVars, patchVars>>
OnlyTuning ==
  UNCHANGED <<part, at, crashes, rewriteVars, splitVars, sealVars, configVars, patchVars>>
OnlyPatch ==
  UNCHANGED <<part, pc, crashes, rewriteVars, splitVars, sealVars, configVars, tuningVars>>

SealStep(r) == part = "seal" /\ Seal!Step(r) /\ OnlySeal

Next ==
  \/ part = "rewrite" /\ Rewrite!Next /\ OnlyRewrite
  \/ part = "split" /\ Split!Next /\ OnlySplit
  \/ part = "seal" /\ Seal!Next /\ OnlySeal
  \/ part = "order" /\ Order!Next /\ OnlyConfig
  \/ part = "recipe" /\ Shipped!Next /\ OnlyConfig
  \/ part = "tuning" /\ Tuning!Next /\ OnlyTuning
  \/ part = "patch" /\ Patch!Next /\ OnlyPatch

(* Each program runs on until it ends or is killed.                        *)
Spec ==
  /\ Init /\ [][Next]_vars
  /\ WF_vars(part = "split" /\ Split!Continue /\ OnlySplit)
  /\ \A r \in Runs : WF_vars(SealStep(r))
  /\ WF_vars(part = "tuning" /\ Tuning!Next /\ OnlyTuning)
  /\ WF_vars(part = "patch" /\ Patch!Step /\ OnlyPatch)

-----------------------------------------------------------------------------
(* The variables of each part keep their types: among others a backup of   *)
(* 07_patch_autoround never holds an edited file, and no layer of a block  *)
(* is tuned twice.                                                         *)
TypeOK ==
  CASE part = "rewrite" -> Rewrite!TypeOK
    [] part = "split" -> Split!TypeOK [] part = "seal" -> Seal!TypeOK
    [] part = "order" -> Order!TypeOK [] part = "recipe" -> Shipped!TypeOK
    [] part = "tuning" -> Tuning!TypeOK [] part = "patch" -> Patch!TypeOK

(* A run of 02_prepare_source of which no predecessor was killed, or that  *)
(* keeps the source, never finds a shard gone, and without --keep-src it   *)
(* leaves nothing but n-gram tensors: done (line 141) removes a shard with *)
(* the last tensor of it that anybody reads.                               *)
ShardsGoWhenRead == part = "rewrite" => Rewrite!ShardsGoWhenRead

(* With --keep-src a whole index speaks the truth: every tensor of the     *)
(* source is in the output shard the index names                           *)
(* (02_prepare_source.py:197).                                             *)
WholeMeansComplete == part = "rewrite" /\ keepSrc => Rewrite!WholeMeansComplete

(* Whatever was killed before, a table that can be mapped is whole, and    *)
(* row offset + j of every shard is row j of that shard of the checkpoint  *)
(* the manifest, and so the scale, belongs to (03_split_ple.py:233).       *)
MapsTheRows == part = "split" => Split!MapsTheRows

(* A run that reported DONE leaves a directory that is what its manifest   *)
(* says and stays so until somebody unseals it, even if another run writes *)
(* into the same directory: the check comes after the protection           *)
(* (09_seal_output.py:129, pipeline.sh:83).  What protection cannot stop   *)
(* is a write to a file that was opened before it, after the comparison.   *)
DoneIsIntact == part = "seal" => Seal!DoneIsIntact

(* Every layer that has a rule comes out with the scheme its first rule    *)
(* says and the budget was computed for, although AutoRound lets the last  *)
(* match win (05_quantize.py:50): by the order of insertion when no        *)
(* pattern occurs twice, by resolution_check otherwise, for the layers it  *)
(* has a name of.                                                          *)
TunedAsPlanned == part = "order" => Order!TunedAsPlanned

(* resolution_check never refuses a policy whose patterns are distinct     *)
(* (05_quantize.py:126).                                                   *)
DistinctIsAccepted == part = "order" => Order!DistinctIsAccepted

(* What the config says of a layer is what is on disk, with any policy     *)
(* that leaves alone what AutoRound cannot quantize, and the shipped one   *)
(* does; otherwise "the inference loader then fails" (04_recipe.py:148).   *)
ConfigMatchesDisk ==
  /\ part = "order" => Order!ConfigMatchesDisk
  /\ part = "recipe" => Shipped!SaysWhatIs

(* When a block is done every layer that is to be quantized was tuned once *)
(* and has its result, and the norms were wrapped once, whatever the       *)
(* numbers of the experts, and whichever groups are empty                  *)
(* (06_subset_tuning.py:108, 200).                                         *)
TunedOnce == part = "tuning" => Tuning!TunedOnce /\ Tuning!NormsOnce /\ Tuning!ClassIsKept

(* While no call is killed a revert gives back every file as the installed *)
(* version came with it, across upgrades, unless its backup is stale       *)
(* (07_patch_autoround.py:4).                                              *)
RevertRestores == [][part = "patch" => Patch!Restores]_vars

(* Whoever asks (--check) or applies with status 0 has every edit in       *)
(* place, after whatever was killed or upgraded before                     *)
(* (07_patch_autoround.py:149); if no call was killed, in the file of the  *)
(* installed version, unless the backup is stale.                          *)
SuccessMeansPatched == [][part = "patch" => Patch!SucceedsPatched]_vars

(* Every program comes to an end: the split with a table of its own, the   *)
(* runs of the pipeline done or dead, every block tuned, every call of the *)
(* patch program answered.                                                 *)
StagesEnd ==
  /\ (part = "split" /\ source = Checkpoint) ~> (part = "split" /\ Split!SplitOver(Checkpoint))
  /\ (part = "seal" /\ ~Seal!RunsOver) ~> (part = "seal" /\ Seal!RunsOver)
  /\ (part = "tuning") ~> (part = "tuning" /\ Tuning!BlocksDone)
  /\ (part = "patch" /\ ~Patch!CallOver) ~> (part = "patch" /\ Patch!CallOver)
=============================================================================
