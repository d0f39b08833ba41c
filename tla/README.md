# A verification development for the 24 GB serving stack

This directory holds TLA+ models of the parts of this repository whose
correctness is hard to test, the TLC configurations that check them on small
instances, and TLAPS proofs of what matters most for every size.

The repository patches SGLang so that a 176B mixture-of-experts model is served
from one 24 GB GPU. Most of the difficulty is memory that moves while it is in
use: expert rows between GPU and host, KV tokens between two precisions, VRAM
between the expert cache and the KV cache. The models began there; they now
also cover what brings the model there (the quantization chain), what keeps the
source tree in order (the layered patches and the campaign driver), and the
speculation that must not change a token.

- [1 Inventory](#1-inventory): the components, their state, what is hard
- [2 Modules](#2-modules): which module models what, and how it corresponds to the code
- [3 Runs](#3-runs): what is checked, on which instances, and why they are enough
- [4 Fairness](#4-fairness)
- [5 Proofs](#5-proofs)
- [6 Where code and text disagree](#6-where-code-and-text-disagree)
- [7 What is not modelled](#7-what-is-not-modelled)
- [8 Plan](#8-plan)
- [9 Running it](#9-running-it)

Paths below are relative to the repository.

## 1 Inventory

### Row arenas (`gemv/row_arena.py`)
*State*: per (layer, tensor kind) a reserved address range and a stack of chunk
handles that backs its prefix. *Operations*: `ensure_rows` (maps chunks one at
a time, raises `ArenaOOM` when the driver has none), `shrink_rows` (unmaps from
the end), `view`, `close`. *Used by* `ExpertElastic` only; the driver's free
memory is shared with everybody.
*Hard*: a grow that fails in the middle keeps what it mapped; the chunk that
holds the last kept row must survive a shrink; an error other than out-of-memory
takes another exception path. *Correct when* every row that may be read is
backed and no chunk is held that no row needs.

### Elastic expert cache (`gemv/expert_elastic.py`, hooks in `patches/elastic.py`)
*State*: per layer the number `S` of rows in its arenas; per (layer, kind) the
address table and the home slots; per kind the pool of free host slots;
`pending_regrow`, the autofill, the time stamp of the control file.
*Operations*: `place_all`/`add_layer` at loading; `resize_layer`, `set_S`,
`fill`, `free`, `regrow`; `poll` from the MoE layers. *Interacts* with the
kernels (they follow the table), the KV cache (it calls `free` and `regrow`),
the operator (control file), and any other user of VRAM.
*Hard*: `resize_layer` touches three arenas, a table and a pool and may fail in
each; layers have different `S` after a failure, yet `s_floor` computes a
uniform floor from them; `free` and `fill` loop on a quantity that others
change. *Correct when* each row is always read with its own content; host
slots are neither lost nor shared; a shrink never runs out of slots; chunks
are not leaked; `free` gives what it can and ends; `fill` keeps its reserve.

### Lazy KV backing (`patches/kv_lazy.py`)
*State*: per buffer how far it is backed, `backed_tokens` of the owner, the
time of the last `empty_cache`, the allocator's free list. *Operations*:
`lazy_ensure` (from `alloc`), `lazy_release` (from `free`, when the pool is
idle). *Interacts* with the torch allocator (`empty_cache`), the driver, and
the expert cache.
*Hard*: a commit may stop half way through the buffers; it is tried up to three
times, with memory asked for in between from an allocator and a cache that
others compete with; the watermark is tested, acted on and tested again.
*Correct when* a slot that is handed out is backed in every buffer, an
allocation is refused only if the expert cache has nothing left, and an idle
pool gives everything back.

### Tiered KV cache (`patches/kv_tiers.py`, tests `gemv/test_kv_tiers.py`)
*State*: int4 rows for all slots, an int8 ring of `R` rows per layer, one owner
table. *Operations*: `set_kv_buffer` (stamp launch, dual-write launch), the two
gather kernels with the per-slot tier test, the reset in `lazy_release`.
*Interacts* with the slot allocator and, through it, with every path that
recycles slots: rejected drafts, finished requests, an idle pool.
*Hard*: slots are recycled in an order nobody chose; tokens of one write may
race for a ring row; there are as many rings as layers but one owner table.
*Correct when* each layer reads each token of a request as it was last
written, and the newest tokens are in the better precision.

### NGRAM speculation and PLE state (`patches/ngram_ple.py`, `gemv/test_ngram_chain.py`)
*State*: the draft chain, and per request the n-gram context and convolution
state that a verify must commit to the accepted token. *Operations*:
`_linearize_chain`, verify, commit, the debug check. *Hard*: several side
states must advance by the same number of tokens, on every branch; a request
may end in the middle. *Correct when* after each verify every side state is
that of the accepted sequence.

### Expert placement (`place_all` in `gemv/expert_elastic.py`, `patches/placement.py`)
*State*: the layers still to place, per kind the pool of free host slots, the
rows pinned, arenas and tables, a budget for pinning. *Operations*: one layer
after the other: move the hot rows to the GPU, give their host slots to the pool
or take slots from it. *Hard*: the order of the layers decides whether the pool
runs dry; a kind of a layer may be on the other side than its sibling; a gather
in the background must be done before its slot is reused; a mistake shows in
an expert's output only. *Correct when* each expert's row is stored exactly once
where its table entry says, and nothing is pinned while donated slots suffice.

### Control file (`poll` in `gemv/expert_elastic.py`, `tools/elastic_sweep.py`)
*State*: a text file and a status file, known by their times. *Operations*:
write a command, poll (stat, read, truncate, run, report), wait for an answer.
*Hard*: two processes share two files without a lock, and times have ticks.
*Correct when* a command that the file shows is executed, and an answer that is
taken for the answer of a command came after it.

### Quantized KV pool (`patches/kv_int8.py`, `patches/kv_int4.py`, `patches/kv_paged_prefix.py`)
*State*: payload and scale buffers, addressed flat, and the dequantized scratch.
*Operations*: the store kernel, three gathers (of selected columns, of a prefix,
paged). *Hard*: address arithmetic with four strides, two channels in a byte, a
last tile that is not full, scales that round to zero or are too small, rows that
are not cleared when they are reused. *Correct when* attention gets every
selected token back, its own, to the accuracy of the format.

### Patch layers (`patches/*.py`)
*State*: which text edits the source tree carries. *Operations*: `apply`,
`revert` of each patch, layered kv_fp8 < kv_int8 < kv_int4 < kv_tiers <
kv_paged_prefix. *Hard*: out-of-order reverts, half-applied patches, edits that
overlay another patch's. *Correct when* the tree is always the base with a prefix
of the layers, or the command has refused.

### Campaign driver (`scripts/phase1.py`)
*State*: `phase1_state.json`, the tree, the running server. *Operations*: one
step per candidate (apply, restart, bench, check, keep or revert), `--restart`,
`--bringup`. *Hard*: a crash between patch and save, results of commands that
are not looked at, patches that several steps list. *Correct when* state file,
tree and server agree on the accepted set.

### Quantization chain (`scripts/02` to `09`, `pipeline.sh`)
*State*: on disk: the source shards and their rewritten form with an index, the
n-gram table with its manifest, the policy, the output with its manifest and
seal, the patched auto-round package; in memory: what each program has read and
collected. *Operations*: rewrite, split, allocate, quantize in rounds, seal.
*Hard*: it runs for days and is killed and rerun; source shards are removed as
they are read; a later stage trusts what an earlier one left; first-match rules
go through a last-match dict. *Correct when* what a stage accepts is complete,
and what is on disk is what the plan says.

### The rest
The scripts that start a server (`serve.sh`, `sweep.sh`), the collected SGLang
patches (`sglang/`, `patches/base/`), GEMV kernels, single patches, measuring
tools, offline checks, documents and assets.

### How they interact

    control file        requests
         |                 |
        poll            scheduler ---- alloc / free ----> slot allocators
         |                 |                                  |  lazy_ensure,
         v                 v                                  v  lazy_release
    ExpertElastic     forward: attention ------------->  KV cache (tiers)
       |     ^             |  MoE kernels                     |
       |     |             v                                  |
       |     |        address table                           |
       |     +-------------- free, regrow --------------------+
       v                                                      v
    row arenas  ------------->  driver VRAM  <----  KV buffers, torch, others

Everything in the process runs in the scheduler's thread. Concurrency enters
through VRAM, which other processes and the torch allocator take and return at
any time, through threads of one kernel launch that race, and through the order
in which requests come and go.

## 2 Modules

| module | models | how |
|---|---|---|
| `ExpertElastic` | elastic cache and its arenas | variables and actions below |
| `ExpertElasticProofs` | | the theorems about it, and that it is a lender |
| `ExpertPlacement` | both placement passes | its result refines `ExpertElastic!Init` |
| `ElasticControl` | the control file | two processes, two files |
| `VramLender` | what the elastic cache promises to whoever needs VRAM | abstract specification |
| `ElasticLender` | `ExpertElastic` as an implementation of it | refinement mapping |
| `LazyKv` | lazy KV backing, on top of `VramLender` | composition with the abstract cache |
| `LazyKvProofs` | | the theorems about it |
| `KvTiers` | tiered KV cache, with the slot allocator and the verify | |
| `KvTiersProofs` | | the theorems about it |
| `KvStore` | quantized KV pool: store and gather kernels | programs of a grid in any order |
| `KvStoreProofs` | | the theorems about it |
| `NgramChain` | NGRAM speculation over the states of the model | one request, any target |
| `PatchLayers` | apply and revert of the KV layers on a source tree | writes one by one |
| `Phase1` | the campaign driver on that tree | EXTENDS `PatchLayers` |
| `SourceRewrite` | `02_prepare_source.py` | with kills and reruns |
| `PleTable` | `03_split_ple.py` | with kills and reruns |
| `LayerConfig`, `Recipe` | `04_recipe.py`, `05_quantize.py`: from a policy to bits on disk; the shipped policy | every small policy |
| `LayerConfigProofs` | | the theorems about it, for every policy |
| `SubsetTuning` | `06_subset_tuning.py` | every numbering of experts |
| `AutoRoundPatch` | `07_patch_autoround.py` | with kills and upgrades |
| `Pipeline` | `pipeline.sh` and `09_seal_output.py` | concurrent, killed runs |
| `Stages`, `StagesProofs` | the programs of the chain, and the theorems about all of them | one at a time |
| `Runtime`, `RuntimeProofs` | placement, speculation and control file, and theorems about all three | one at a time |
| `Prefixes`, `PrefixLemmas` | sums and selections along a sequence | recursive functions, what they return, and the induction the other proofs need |
| `MC...` | | constants for TLC |

`Stages` and `Runtime` each hold several programs that share no variable, so that
they are checked in one run and proved in one module: the variable `part` chooses
one of them for the whole behaviour and the variables of the others stay `None`.
Every property of such a module is the property of a component, restricted to its
part.

### ExpertElastic
A row is named by its rank in `order[lid]`, so that "the rows that move" is a
range, as in the code. A host slot is named by the place it has in its host
tensor. Content is named by the row it belongs to: `ReadsOwnRow` says that
following the table yields the row itself, whatever was copied where.

`S`, `mapped` (chunks per arena), `arena`, `host` (contents), `tab`, `home`,
`pool`, `free` (what `mem_get_info` reports), `regrow` (`pending_regrow`), `op`
(the running command with its loop position), `raised` (how the last one ended).

`SetS`, `Fill`, `Free`, `Regrow` start a command. `FillHead` and `FreeHead` are
the tests at the head of the loops, `StartResize` and `LayersDone` the loop over
the layers, `Ensure`, `Rollback`, `Gather` the growing branch of `resize_layer`,
`Take` and `Release` the shrinking one. A command is cut into actions exactly
where it asks for, or gives back, VRAM (`Ensure`, `Rollback`, `Release` once per
arena): there, and only there, another process can make a difference
(`DriverMemory`, in the behaviours that have one: `others` never changes). `Gather`
and `Take` are several statements of the code, with a
synchronize at the end and no VRAM in between. The loading phase is `Init`:
every placement of the cold rows that `add_layer` may produce.

### VramLender, ElasticLender
The contract between the two caches: `Ask`, then `Give` any number of times,
then `Done`, which is possible only with the amount free or nothing left to
give; taking memory is possible only when nobody asks. `ElasticLender` maps it
to `ExpertElastic`: `held` is the mapped chunks of all arenas, `want` the
argument of a running `free`, the floor the chunks of a cache whose layers are
all at `HostFloor`, the least size that the host can complement, which `s_floor`
is shown to compute.

### LazyKv
`used` (slots handed out), `backed` (`backed_tokens`), `kv` (chunks per buffer),
`recent` (was `_lazy_last_empty` within 30 s), `regrow`, and `call`, the hook in
progress. `Alloc` is the allocator up to `lazy_ensure`; `Watermark`, `Shrink`,
`Recheck` its first half; `Commit`, `Empty`, `Retry`, `Shrink2`, `LastTry` the
three attempts; `Lend` the expert cache's steps inside `el.free`. `Free` is the
allocator's free with `lazy_release`, `Regrow` the regrow it triggers, `Control`
a command of the control file between two hooks. A failed commit leaves buffers
before some `n` backed, buffer `n` in part, and `backed_tokens` as it was.
`EmptyCache` may release anything from nothing to all the memory that is not
the caches': what the torch allocator holds unused is not in the model.

### KvTiers
`freeList` in the allocator's order, `slotsOf` (a row of `req_to_token`),
`owner`, `ring[l]`, `int4[l]`. `Begin` takes slots for a batch, `Store` and
`Attend` alternate layer by layer, `Verify` keeps an accepted prefix of a
request's new tokens and frees the others, `End` frees a request. Memory is
described by whose token it holds; when a slot is handed out again, whatever
memory held of its previous tenant turns to `Junk` (`Forget`), so that reading
an old tenant's bytes is visible. `Winners` is the race of the stamp launch: any
of the slots that share a row. A slot stands for the unit the allocator
recycles; `freeAtTail` selects the token allocator, which appends freed slots,
or the paged one, which puts them first. A behaviour is about one `cache` of the
set `Caches`, a record of its sizes that never changes.

### KvStore
Buffers are functions from flat addresses, because the arithmetic of addresses is
what could be wrong. A behaviour is about one `pool` of the set `Pools`, a record of
its sizes, format and texts that never changes. `Forward` gives the lowest free slots
(`Lowest`) to new tokens and launches the store kernel; `Store(t, h)` is one program of
its grid. `LaunchCompact`, `LaunchPrefix`, `LaunchPaged` start one of the gathers with
any selection that the indexer could make (`PositionRows`); `Compact`, `Prefix`,
`Paged` are its programs. What a program writes is a function on the addresses it
writes to (`Places`, `Carried`). `End` frees a request's slots and leaves what they
hold. Numbers are counted in the smallest fp16 distance, so that scales are naturals
and rounding is exact.
`PoolHolds` and `GatherReturns` compare with what was stored: `Near` is the
error that the format allows.

### ExpertPlacement
`PlaceElastic` and `PlaceStatic` place one layer each (`AddLayer`), in the order of
the code; what a gather in the background has not moved yet is in
`gathers`. Which kinds of which layer are on the host is free, except that the
offloader takes parameters in the order of registration until its budget is used
up: the kinds of a layer on the host form a prefix. `Elastic(s, h, p)` is
`ExpertElastic` with the constants that fit the run, and `PlacedForServing` says
that the end of the elastic pass is an initial state of it. Sizes go up to the number
of rows, at which no layer needs slots and all of them are donors. The static pass's
floating credit is kept as an integer, in units of `S0` (of 1 if `S0` is 0); the
code's rounding could matter only where the credit equals the ratio exactly, and could
there put one host layer more before the next GPU layer.

### ElasticControl
`now` are ticks of the file times; the client looks at the status file (`Look`), opens
the control file, which empties it, writes a command, pokes the server, and takes the
next status file with a new time for the answer, or gives up. The
server's poll is cut where the other process can make a difference (`PollStats`,
`PollReads`, `PollRuns`). `others` remembers that an autofill or a regrow
reported in between, because the client takes any status for its answer.

### NgramChain
A state of the model is the sequence of tokens it was computed from. The target
is any function of the sequence: it is asked once about each, so its answer is
chosen when it is asked; an answer computed from states that disagree with
the sequence is `Wrong`, and `Lossless` says that it never is. `Draft` gives any
tree of corpus tokens, `LinearizeChain` makes the chain, `Verify` fills the rows,
`Commit` moves the four states. `Phys` swaps the two slots, so that using a
virtual slot number for a physical one shows.

### PatchLayers, Phase1
A file is a sequence of passages and an edit replaces one run of passages by
another. `Occurs`, `Applied` and the guards are those of the scripts; each write is
an action of its own (`Write`), between which a call may be killed. `MCPatchLayers`
has one edit of every shape the layers have. `Phase1` extends it with the driver:
the state file (`disk`), the run's memory (`s`), where it is (`pc`), the server and
the tree it was started from. `Manual` calls happen between runs; measurements are
a free choice. The server starts from a tree that has every kernel its backend imports
(`Imported`) and the format that the last `--kv-cache-dtype` names (`Asked`); a layer
that neither asks for may be missing, so that a step whose `apply` was refused can be
accepted as in the code. `past` records what the properties make an exception for: a manual
revert of a lower layer, calls between runs, a rejected step whose patches an
accepted one lists.

### The quantization chain
`SourceRewrite`: `get`, `done`, `flush`, `add` of `02_prepare_source.py`, tensor by
tensor, both passes, the index last; the shards a tensor is in are free. `PleTable`:
the split shard by shard with the manifest last, and the rows that a mapped table
looks up. `LayerConfig`: first match on one side, last match of the dict on the
other, with `resolution_check` between them, for the layers that `tensors.json` has a
name of (`Listed`: of the experts only the first); `--force`, `--model-free` and
`--dry-run` are free. `Stages` has it twice: with any policy (`Order`) and with the
shipped one (`Shipped`). `SubsetTuning`: the rounds over one block with the replaced
`wrapper_block`. `AutoRoundPatch`: the edits with their backups; a kill leaves the file
or the backup that is being written cut off, before its mark or behind it. `Pipeline`:
runs that may start in the same minute and write into the same directory, file by
file. A file is opened, which empties it, and then written; protection stops the
opening only, also that of MANIFEST.json, and not a write to what is open.

### Fault definitions
A definition whose comment starts with *Fault* is a plausible bug of the code,
placed before the correct definition. Nothing refers to it. Put in the place
of the correct one, it makes the property that `PROJECT.json` names fail: each
property is known to notice a mistake in the code it is about.

## 3 Runs

| run | instance | distinct states | checks |
|---|---|---|---|
| `elastic_split` | 2 layers, 3 rows, 2 kinds on opposite sides of the host, one pinned slot, another process | 483,222 | `TypeOK`, `ReadsOwnRow`, `SlotPartition`, `NoLeakedChunks`, `NeverExhausted` |
| `elastic_deep` | 2 layers, 4 rows, 1 kind, alone on the GPU or beside another process | 132,969 | `IInv`, `FloorIsStable`, `FreeDelivers`, `FillKeepsReserve`, `CommandsEnd`, `ImplementsLender` |
| `kv_lazy` | 6 slots, 2 buffers, alone on the GPU or beside another process | 228,686 | `TypeOK`, `AllocatedIsBacked`, `RefusedOnlyAtFloor`, `CommitKeepsHeadroom`, `IdleKeepsFloorOnly`, `HooksReturn` |
| `kv_tiers` | 1 request, 12 slots, ring of 4, 2 layers; or 2 requests, 5 slots, ring of 2, 1 layer | 100,771 | `TypeOK`, `ReadsCurrent`, `NewestAreHot` |
| `tiers_layers` | 2 requests, 4 slots, ring of 2, 2 layers | violated | `ReadsCurrent` |
| `kv_store` | int8 or int4, 2 heads of 2 groups, 2 requests, 3 slots, 4 tokens, tiles of 2 columns | 129,628 | `PoolHolds`, `GatherReturns` |
| `runtime` | placement of 4 layers; speculation with 4 rows; control file with 3 commands | 330,580 | `PlacedForServing`, `Lossless`, `ControlWorks` |
| `stages` | each program of the quantization chain (`MCStages` gives the sizes) | 354,417 | `TypeOK`, `ShardsGoWhenRead`, `WholeMeansComplete`, `MapsTheRows`, `DoneIsIntact`, `TunedAsPlanned`, `DistinctIsAccepted`, `ConfigMatchesDisk`, `TunedOnce`, `RevertRestores`, `SuccessMeansPatched`, `StagesEnd` |
| `rewrite_drops` | 2 stacks, 3 source shards, one crash, without `--keep-src` | violated | `WholeMeansComplete` |
| `campaign` | 5 layers, 4 steps, calls by hand, one kill | 415,933 | `StackedUnlessUndercut`, `RerunHeals`, `AcceptedIsServedUnlessRelisted` |
| `relisted` | the same, without calls and kills | violated | `AcceptedIsServed` |
| `patch_order` | the scripts of the 5 layers, called in any order | violated | `StackedWhenIdle` |

**The elastic runs.** Two kinds are the smallest number for which one arena can
be backed when the next runs out of memory, and for which one pool can cover a
shrink that the other cannot; they are on the host for different layers, as the
offloader does it. Rows of kind 2 (3 bytes) straddle chunks (4 bytes), so a
chunk is shared by a kept and a leaving row. Two layers are enough for unequal
`S` after a failure in the second layer. In `elastic_deep` the floor is 2 of 4
rows, so `fill` and `free` go through several rounds and meet other processes
between them. The step of `fill` and `free` is 1 in both (8 in the
code): their targets then include every size. `FillKeepsReserve` is about the
behaviours in which nobody else allocates (`~others`), because the code tests once
per round and promises nothing else.

**The KV runs.** Two buffers of 1 and 2 bytes a token over chunks of 2 bytes: a commit
can stop in either, and one buffer's chunk boundary falls inside a token step.
`kv_lazy` has enough VRAM for all paths to succeed or fail, depending on what the
forward takes between hooks; whether another process takes and returns memory too is
fixed at the start (`shared`). `RefusedOnlyAtFloor` and `CommitKeepsHeadroom` are
about the behaviours in which the caches have the GPU for themselves: if another
process takes what the expert cache gives, refusing is right; the other properties
hold beside it too. That the third try needs no more than it has asked for rests on
the 1,024 MB the code asks for on top being more than what rounding to chunks of 2 MB
can cost (`WorkMemory` and `SizesOK`). The single request of `kv_tiers` is the way
`serve.sh` runs the server; its ring of four rows with up to three tokens a forward
wraps and meets rejected drafts. Its two requests add collisions within a write,
reuse, and writes larger than the ring, which end the server with an exception: hence
`CHECK_DEADLOCK FALSE`. In `kv_store` the three slots are recycled after the first
request ends, one tile of three columns is full and one not, and the values include
groups of zeros, a scale that rounds to 0, codes half way between two, and values
beyond the largest scale, which is 3 quanta instead of 65504. It stops when the tokens
are used up.

**`runtime`.** Four layers are the smallest number for which donors, takers and
split layers all occur more than once and the order of takers matters; of three rows
one, two or all go to the GPU. Four draft
rows are the width the server uses; three tokens tell a padding 0 from two
others; outputs grow to nine tokens, so that a checkpoint falls due more than
once. Five ticks suffice for two commands in one tick, a poll between them, a
time-out and an answer that comes late. Each part stops at its bound or when it is
done: deadlock is not checked.

**The quantization chain.** Every placement of the tensors in the source shards, every
policy of up to three rules over overlapping patterns (some twice), every numbering of
the experts of a block, two runs that share a minute (others share nothing). Kills are
bounded by 1 to 3 (`RewriteCrashes`, `SplitCrashes`, `Kills`), so that a rerun is
killed again. The rewrite runs with and without `--keep-src`, for good (`keepSrc`).
The split is of one checkpoint: the program takes a file of the right size for its
own, so a killed split of a larger checkpoint in the same directory would mislead it,
and no text says that it would not. The policies are taken on a layer of each kind
that the checks tell apart (an expert that has a name and one that has none, one that
AutoRound cannot quantize, one of the vision tower, one outside the blocks, and an
ordinary one); `recipe` takes the
shipped policy as it is, on one layer of each kind that its patterns tell apart. Two of
the three edits of `07_patch_autoround.py` are enough for a first, a last, and one that
fails behind one that succeeded.

**The patches.** `MCPatchLayers` reduces about fifty edits to one for each way in
which a layer's text can lie in that of the layers below. The steps S16, S17, S21
and S22 of the driver use all five layers; S19 is like S21 with a layer less.
`Watched` is a state constraint: after a manual revert of kv_int8 under kv_int4
no property says anything, and after other manual calls only the runs of the
scripts themselves are followed, not the driver's, which makes the same calls in
fewer orders. The kinds of calls and `MaxKills` are bounds. That `kv_int8.py`
revert is an exception is the run `patch_order`; that listing a patch twice is
another, `relisted`.

**Bounds.** Apart from `Watched`, the number of kills, of tokens (`Texts`, `MaxLen`),
of ticks (`MaxTime`) and of commands of a sweep, no variable needs an artificial
bound: VRAM (`Vram`), rows, slots, layers and tokens per forward are constants of the
system, and a command's argument is taken from a given finite set (`SizeArgs`,
`FillArgs`, `FreeArgs`, `MaxAlloc`, `MaxTokens`), which includes an argument out of
range.

**What the properties say.** Each is stated above its definition. Those
that are about more than one actor or step:

- `ReadsOwnRow` (elastic): in every state, also in the middle of a resize, a
  kernel that follows the table reads the row it wants.
- `SlotPartition`: host memory is conserved over any sequence of commands.
- `NeverExhausted`, `FloorIsStable`: `s_floor`, computed from sizes that differ
  and pools that change, is the one number for which shrinking always works.
- `FreeDelivers`, `ImplementsLender`: what the KV cache may expect of `free`.
- `AllocatedIsBacked`, `RefusedOnlyAtFloor`, `CommitKeepsHeadroom`,
  `IdleKeepsFloorOnly`: what the KV cache makes of it, with commits that fail
  half way.
- `ReadsCurrent`, `NewestAreHot` (tiers): what attention sees through the owner
  table after slots were recycled. `PoolHolds`, `GatherReturns`: the same below
  the tiers, down to bytes and scales.
- `PlacedForServing`: the loading phase ends where the serving phase is assumed to
  begin, and pins nothing that the donated slots could have held.
- `Lossless`: speculation changes no token, because four states move together.
- `ControlWorks`: a command the file shows is executed or replaced; an answer is
  not taken before, unless an autofill or regrow reported in between or a command
  ran twice.
- `ShardsGoWhenRead`, `WholeMeansComplete`, `MapsTheRows`, `DoneIsIntact`: what a
  stage of the chain leaves is what the next one takes it for, after kills, reruns
  and concurrent runs.
- `TunedAsPlanned`, `DistinctIsAccepted`, `ConfigMatchesDisk`, `TunedOnce`: the
  bits on disk are those of the policy, although first match and last match, names
  and numbers of experts, and a function written for one call per block stand
  between them.
- `StackedUnlessUndercut`, `RerunHeals`, `AcceptedIsServedUnlessRelisted`: the tree
  stays a stack of layers, or becomes one again, and serves what is accepted.

## 4 Fairness

`CommandsEnd` and `ImplementsLender` assume weak fairness of the steps of a running
command (`WF_vars(Step /\ UNCHANGED others)`), `HooksReturn` that of the steps of a
running hook (`Hook`, `Regrow`). Both are straight-line Python code and loops without
waits, in the one thread that runs them, so a step that is enabled is taken. Nothing
is assumed of other processes, of the forward, of the operator or of new requests; in
particular nobody has to return VRAM. In `LazyKv` the expert cache's own progress is
part of `Hook`; that the real cache makes progress is what `ImplementsLender` (with
its `WF_lender(Give \/ Done)`) shows.

`Step` is one action, and in each state of a command exactly one of its
disjuncts is enabled, so weak fairness of the disjunction is the fairness of
the program counter.

`ControlWorks` assumes that polls go on (`WF(Serve)`): the client of the sweep
pokes the server with requests until it is answered, and each reaches a poll.
`StagesEnd` assumes that a program that is not killed goes on; kills are bounded,
so eventually it is not killed.

## 5 Proofs

`ExpertElasticProofs` proves, for every number of layers, rows and kinds, every
placement, row size, chunk size and amount of VRAM:

| theorem | states |
|---|---|
| `Invariance` | `[]IInv` |
| `TypeCorrect` | `[]TypeOK` |
| `ValuesNeverChange` | `[]ReadsOwnRow` |
| `SlotsConserved` | `[]SlotPartition` |
| `ShrinksSucceed` | `[]NeverExhausted` |
| `ChunksConserved` | `[]NoLeakedChunks` |
| `FloorNeverMoves` | `[]FloorIsStable` |
| `FreeDoesItsBest` | `FreeDelivers` |
| `FillSparesTheReserve` | `FillKeepsReserve` |
| `LendsSafely` | `Lender!LenderSafe`, the safety part of `ImplementsLender` |

**Assumptions** (named in `ExpertElastic`, evaluated by TLC in the elastic runs):
`SizesAssumption` (sizes are positive naturals), `PlacementAssumption` (the host
slots suffice for the rows above `StartS`: what `place_all` has established when
it returns, otherwise it raises), `NullsAssumption`.

**Argument.** None of the properties is inductive: that a shrink finds its
slots depends on where every row of every layer is. `IInv` adds to `TypeOK` and
`SlotPartition`

- `RowsInv`: a row with no home slot is in its arena and the table says so, a
  row with one is there and the table says so;
- `MappedInv`: each arena has exactly the chunks for the rows it is sized for,
  where this number depends on how far the running resize has come, and at
  least those while a failed grow is being rolled back;
- `OpInv`: where a command can be, and that each size and goal fits the host.

The heart is a counting argument. `SlotPartition` makes the homes of the rows
outside the arenas a bijection onto the slots not in the pool, so the pool of a
kind has as many slots as the host minus the rows outside (`PoolCount`). From
this, `PoolCovers(s)`, which the code evaluates on current sizes and pools, is
equivalent to `HostFits(s)`, in which neither appears (`PoolCoversHostFits`).
`HostFits` is monotone and holds at the mean, so the downward search of
`s_floor` ends at the smallest size that fits the host (`FloorIsHostFloor`); and
a shrink to any size that fits finds enough slots (`PoolSuffices`), so `Take`
never ends in its exception. There is one lemma per action; those of the
resize actions have one step per conjunct. `FreeDoesItsBest` is an action
property that follows from the invariant and the head of the loop.

The last two theorems add up what the arenas hold. The sum over layers and kinds is a
fold over a finite set, and the library's induction theorems take operators, so
`PrefixLemmas` has its own (`SetInduction`: by the cardinality of a set of sets). From
it: the sum over a set exists and is the fold (`FoldIsSum`), is monotone, and moves by
what one arena moves (`SumChanges`). With that every step of every command, also one that
fails, maps to a step of the lender or to none (`LendsSafely`): a sum of arenas that
all hold at least what the floor needs is at least `FloorChunks`, and a `free` that
ends below its goal ends with all layers at the floor. For `FillSparesTheReserve`,
`FillInv` says what a round of `fill` is heading for: the round's end (`RoundEnd`) is
fixed when its head has looked at the free memory, only the mapped part of it grows,
and free memory less what is still to be mapped stays at the reserve or above it. So
no grow of a round can fail, and the one look suffices.

`LazyKvProofs`, for every number and size of buffers and every amount of VRAM:

| theorem | states |
|---|---|
| `LazyInvariant`, `LazyTypes` | `[]LazyInv`, `[]TypeOK` |
| `SlotsAreBacked` | `[]AllocatedIsBacked` |
| `RefusalsComeLast` | `RefusedOnlyAtFloor` |
| `HeadroomIsKept` | `CommitKeepsHeadroom` |
| `IdleGivesBack` | `IdleKeepsFloorOnly` |

`LazyInv` is `TypeOK` with four parts. `Mapped`: every buffer has the chunks for
`backed_tokens`, at least, and no used slot is beyond it; this is what a failed commit
must leave alone. `Covers`: a running hook backs all the slots it was called for.
`Asked`: what the hook has asked of the expert cache. `Room`: alone on the GPU, past
the watermark either the cache is at its floor or there is room for the commit with
the headroom; so a commit fails only where headroom is less than rounding costs, and
the third try cannot.

`KvTiersProofs`, for every number of requests, slots, ring rows, layers and tokens:

| theorem | states |
|---|---|
| `Invariance`, `TypeCorrect` | `[]TiersInv`, `[]TypeOK` |
| `ReadsCurrentUnlessRaced` | `[]ReadsCurrent`, if in no write that fits the ring two slots share a row, or the cache has one layer (`OneWinner`) |
| `ReadsAreCurrent` | `[]ReadsCurrent`, if each cache has one layer, or one request and the paged allocator |
| `NewestStayHot` | `[]NewestAreHot` |

The condition of `ReadsAreCurrent` is that of `kv_tiers`' instances, and of `serve.sh`;
without it `tiers_layers` shows the counterexample. `TiersInv` says that slots are
free or stand for one token (`Apart`), that the owner table names slots of their own
rows (`Owners`), and that a row a forward has stamped belongs to a slot of it
(`Stamped`). `Memory` says what each layer holds: the tokens of earlier forwards
everywhere, those of the running one in the layers it has passed. It is inductive only
together with `OneWinner`: otherwise a later layer's stamp changes whose row it
is. For one request, `StackInv` says that slots are a stack, so that those of a write
are consecutive and fit the ring without a collision, and how far back a hot slot
reaches (`Window`).

`KvStoreProofs`, for every number of heads, channels, groups, slots, requests and
columns, both formats, every text and every selection:

| theorem | states |
|---|---|
| `StoreInvariant` | `[]StoreInv` |
| `PoolAlwaysHolds` | `[]PoolHolds` |
| `GatherInvariant` | `[]GatherInv` |
| `GatherAlwaysReturns` | `[]GatherReturns` |

Three things are proved apart and then meet. *Addresses*: a number of the form
`m * b + i` with `i` below `b` tells `m` and `i` (`AddressUnique`), so rows of different
slots or heads share no byte and no scale (`RowsApart`), although a slot's payload and
scale rows are cut with different strides. *Formats*: what is rounded is at most half a
step away (`RintNear`), and from there, by cases for a group of zeros, a scale that
rounds to 0 and a scale that is cut off, what is loaded is `Near` (`ReadsBackNear`),
and the int4 kernel's way to a nibble and its scale is the int8 kernel's
(`LoadedIs`, `DivTwice`). *Order*: `StoreInv` says that programs of one grid write to
slots that differ unless they are padding (`StoreOK`), that positions of all requests
have slots of their own (`TableOK`), and that a given slot holds its token's row in
every head whose program is not still to come. For the gathers, `GatherInv` says that
the selected columns are the first ones of their row and fit its region
(`RowsOK`, `RegionsOK`), and that each of them is in the scratch or will be brought by a
program to come; `TileOf` and `LimitEnough` say that the tiles, the last one included,
reach every selected column.

`StagesProofs`, for every checkpoint, policy, block and package, any number of runs and
kills:

| theorem | states | program |
|---|---|---|
| `Invariance`, `TypeCorrect` | `[]Inv`, `[]TypeOK` | all |
| `SourceGoesWhenRead` | `[]ShardsGoWhenRead` | `02_prepare_source.py` |
| `IndexIsTrue` | `[]WholeMeansComplete` | the same with `--keep-src` |
| `TableIsWhole` | `[]MapsTheRows` | `03_split_ple.py` |
| `SealedIsIntact` | `[]DoneIsIntact` | `pipeline.sh`, `09_seal_output.py` |
| `ShippedAsPlanned` | `[]TunedAsPlanned` | `05_quantize.py` |
| `DistinctNeverRefused` | `[]DistinctIsAccepted` | `05_quantize.py` |
| `ConfigSaysWhatIs` | `[]ConfigMatchesDisk` | `04_recipe.py`, `05_quantize.py` |
| `EveryLayerOnce` | `[]TunedOnce` | `06_subset_tuning.py` |
| `RevertGivesBack` | `RevertRestores` | `07_patch_autoround.py` |
| `StatusIsTrue` | `SuccessMeansPatched` | `07_patch_autoround.py` |

`Inv` is one invariant for each part:

- `RewriteInv`: no tensor is twice in what is to do, and as many output shards may come
  as that needs (`ToDo`); the counter of a source shard counts what is pending in it
  (`Counters`); with `--keep-src`, or before the first kill, all that is unread is on
  disk (`NothingMissing`); and every tensor of the output is to do, in memory, or where
  the weight map says (`AllPlaced`);
- `SplitInv`: the table holds the rows of the shards that were read, at the offsets that the
  manifest will give, and a file of the full size holds all of them. Offsets are sums
  along the shards (`PrefixSums`);
- `SealInv`: what a run that protects is done with is protected (`ProtectedSoFar`), all
  of it when it checks (`CheckedProtected`), unless somebody has unsealed it; and what it
  has compared is still as it was read, unless a file that was open before was written
  since (`CheckedSoFar`, `late`);
- `Config!Inv` (`LayerConfigProofs`): two roads lead to `TunedAsPlanned`. If no pattern
  occurs twice, the dict is the policy turned round (`Reversed`, kept by every
  insertion), and the last match in the one is the first in the other
  (`ReversedMatch`). If some pattern does, an insertion may have changed an earlier
  key, and only the check before the load separates the right dicts from the wrong, for
  the layers it has a name of (`Sure`). `ConfigSaysWhatIs` needs one condition on the
  policy more, that it leaves the layers AutoRound cannot quantize at 16 bits
  (`LeavesOdd`), and shows that the shipped one meets it;
- `TuningInv`: the groups partition the layers that are to be quantized (`Partition`), the
  wrapper that is installed filters the group of the round (`Filter`), the layers of the
  rounds so far are tuned, and the class's own wrapper comes back;
- `PatchInv`: an apply has marked every file before the one it is at and backs up only
  files without a mark (`MarkedSoFar`); before the first kill, and across upgrades, every
  file is that of the installed version or, by way of its backup, that of the backup's
  version, edited or not (`HasLeft`), and a backup is an unedited file of some version
  (`Undisturbed`).

`RuntimeProofs` has three:

| theorem | states | for every |
|---|---|---|
| `PlacementIsReady` | `[]PlacedForServing` | number of layers, rows and kinds, layout of the offloader, size, budget and reserve |
| `SpeculationIsLossless` | `[]Lossless` | number of draft rows, token set, tree from the corpus and answer of the model |
| `AnswerComesAfter` | `[]AnsweredMeansDone`, the safety half of `ControlWorks` | number of commands and ticks |

`PlaceInv` keeps an account of every host slot: a layer to come still needs it where it
is (`Awaited`), or it is free and once in the pool (`PoolIsFree`), or it is the place of
exactly one cold row, which the table knows (`ColdIsHome`); none is lost (`Covered`),
and what nobody has written to is as it was (`Untouched`). `GathersFind`: a gather in
the background finds its rows where they were, because nothing is placed before it is
done (elastic), or none is launched (static). `Balance` counts: a pool is as long as
what was donated and pinned less what was taken. Economy follows from it. While donors
are left the elastic pass places them before anybody who is short; when none is left, a
kind all of whose donors have come is short for nobody (`EnoughForAll`), and of the
takers the one with most kinds on the host asks only such kinds (`OneIsServed`). The
static pass places a taker only when its credit, which counts donors and takers of the
first kind, covers the slots (`CreditServes`). At the end nothing is awaited, and the
account gives `HostFits` (`ServedHostFits`) and, with the placement itself as witness,
the initial predicate of `ExpertElastic` (`ServedInit`): what its theorems assume is
what the loading phase is proved to establish.

`NgramInv` says that KV, GDN and PLE states are those of the sequence without its last
token, that a checkpoint is that of a prefix with its own windows, and that a draft that was linearized is a chain: row `i` sees the rows up
to itself, and the root holds the last token (`IsChain`). The longest chain is found
by recursion down the rows; `DownwardExists` and `DownwardInduction` say that such a
function exists and reach all its values. `ControlInv` adds that a command being run
is the last one sent or has run before, and that the client is idle only when its last
command was run; all of it unless one of the two exceptions has happened (`Excused`).

**Assumptions of these modules**, which TLC evaluates in the runs: `SizesAssumption` (of
each module: sizes are naturals, positive where the code divides by them or loops over them;
the floor of the buffers is within the pool), `NoWantAssumption` and `NullsAssumption` (a
null is not a value), `LayoutAssumption` (no tensor is in two stacks or twice in one, a
shard limit is positive), `SourcesAssumption` (a shard has rows), `RunsAssumption`,
`ConfigAssumption` (a policy pairs patterns with schemes), `TableAssumption` (at least
one draft row, the slot translation is a permutation), `CommandsAssumption`,
`PoolsAssumption` (4 or 8 bits and codes that fit them, positive sizes, groups that divide
the channels and consist of whole bytes, no more selected columns than a page),
`NoneAssumption`, and `Runtime`'s `PlacementAssumption` (positive sizes, as many rows on
the GPU as there are at most, nulls are no slots, addresses or rows).

**Only model-checked**:

- liveness: `CommandsEnd`, `HooksReturn`, `StagesEnd`, the fairness part of
  `ImplementsLender`, the second half of `ControlWorks`. TLAPS cannot reason about
  liveness under fairness or `ENABLED`;
- `StackedUnlessUndercut`, `RerunHeals` and `AcceptedIsServedUnlessRelisted` of `Phase1`.
  What a call makes of a tree is a computation on the texts of the edits: whether one
  splits another's text, and which occurrence is replaced. TLC carries it out for
  every shape of edit there is; a theorem for all texts would have to assume the outcome of
  every call on every stack, and with kills on every tree between two writes, which is most
  of what these invariants say.

## 6 Where code and text disagree

**One owner table, many rings** (run `tiers_layers`). Each layer's
`set_kv_buffer` launches the stamp kernel again, on the one owner table. If two
slots of a batch share a ring row (`patches/kv_tiers.py:272`), layer 0 may pick
one and layer 1 the other. After the last layer the table says the second; the
row of layer 0 holds the first's bytes. From the next forward on, layer 0 reads
them as the second's. The header (`patches/kv_tiers.py:11-14`) and
`docs/KV_TIERS_PLAN.md:61` exclude this; `gemv/test_kv_tiers.py` tests
collisions with one layer. It takes two requests, or slots of one write that
are not consecutive; `serve.sh` runs one request. `ReadsCurrentUnlessRaced` proves that
such a collision is the only way to a stale row, and `ReadsAreCurrent` that one
request with the paged allocator never has one, whatever the sizes.

**A rerun drops tensors** (run `rewrite_drops`). `02_prepare_source.py` removes a
source shard when its last tensor was read. If it is killed afterwards, the rerun
cannot read the tensors that only passed through from that shard: it counts them,
prints a line (`scripts/02_prepare_source.py:63`) and goes on to an index without
them, exit status 0. A missing piece of an expert stack does stop it. The preflight
of `05_quantize.py:318` then calls the checkpoint complete. With `--keep-src` the
index is right after any kill (`WholeMeansComplete` in `stages`).

**A rejected step takes an accepted patch with it** (run `relisted`). The driver
reverts all patches a rejected step lists (`scripts/phase1.py:289`), also those
that an earlier step has applied and that was accepted: S22_paged lists kv_int4
and kv_tiers, which S21_tiers applied. The accepted flags then start a server from
a tree without them, against `scripts/phase1.py:8` and `:314`.

**kv_int8 can be cut out from under kv_int4** (run `patch_order`).
`patches/README.md:52-53`: "each `revert()` refuses while a later layer is
applied". `kv_int8.py`'s only warns (`patches/kv_int8.py:764`). All other layers
refuse: with this one exception `StackedUnlessUndercut` holds.

Met while modelling, and not the subject of a run:

- `README.md:158`: "A watermark keeps 1,536 MB driver-free after every commit by
  shrinking the elastic expert cache first". The code refuses only below half of it
  (`patches/kv_lazy.py:139`), and not at all within 30 s of the last attempt when
  the cache is at its floor. What holds is `CommitKeepsHeadroom`.
- `patches/placement.py:5` says "without allocating new pinned memory". With a
  layer of which one kind is on the host and the other not, the static pass pins
  rows although the donated slots would suffice, because it orders layers, not
  kinds; hence the condition in `PlacedForServing`. The elastic pass does not.
- `scripts/pipeline.sh:5`: "The output carries a timestamp and is NEVER
  overwritten"; the timestamp is a minute (`:18`), so a run that starts in the same
  minute writes into the same directory. The check comes after the write protection, so a run
  whose files were replaced does not report DONE, except in one way, which
  `DoneIsIntact` excepts (`late`): a file that the other run had open before it was
  protected may be written after it was compared.
- `scripts/pipeline.sh:7`: intermediates are deleted "only once their successor is
  verified". `scripts/02_prepare_source.py:148` removes a shard when it is read,
  before what was read from it is written. `scripts/pipeline.sh:10` looks for the
  programs in `scripts/scripts`.
- `scripts/04_recipe.py:368` emits a layer_config in the order of the policy, first
  match first; `scripts/05_quantize.py:50` says that AutoRound needs the reverse and
  builds its own. The policies `default`, `balanced`, `tight` and `conservative` do
  not pin `in_proj_a` and `in_proj_b`, which AutoRound cannot quantize; what
  `04_recipe.py:148-152` says of the config then applies to them (`ConfigMatchesDisk`
  is about every policy that does, and about `quality`, which was shipped and does). With
  a repeated pattern an expert other than the first, which `tensors.json` has no name of,
  may resolve otherwise than its policy says; no policy of `POLICIES` repeats one.
  `unmatched` (`:214`) never shows anything:
  layers without a rule are counted as W4A16.
- `scripts/07_patch_autoround.py:4` promises a way back; after an upgrade of the
  package the backup (`:168`) is still the old version's file, and a revert puts it into
  the new package. `RevertRestores` and `SuccessMeansPatched` say that this is the only
  way to a file of another version. A file that a kill cuts off behind its mark is taken
  for patched by `--check`, by the next apply and by the preflight, whatever is missing
  after the mark; after a kill `SuccessMeansPatched` speaks of marks only.
  The preflight of `05_quantize.py:290` looks at the mark of one patch only.
- `patches/kv_fp8.py`'s revert refuses with exit status 0, which the driver does not
  notice; a patch of another kind that is refused by its `apply` is benchmarked
  and may be accepted without being in the tree (`scripts/phase1.py:253` does not
  look at the result). For the KV steps the server's flags need the patch, or what is
  left of it in the backend imports a kernel that is not there, so the step fails.
- The compact gather of FA2 packs rows by the count of valid positions and would
  drop the last valid column if an invalid one came before it; the indexer puts
  the -1s last.
- The control file: a command that shares a tick with a look at the emptied file is
  lost; one written between stat and read runs twice; the sweep may take the report
  of a regrow or an autofill for its answer, and its answers are then off by one.

## 7 What is not modelled

`PROJECT.json` lists each component with its status. Within the modelled ones:

- errors of the driver other than out of memory in the row arenas, and `close`;
  kernels that are still running when a command of the elastic cache starts (it
  begins with a synchronize); the numbers in its status file;
- a torch allocation of a few bytes that fails inside `resize_layer`
  (`ids.to(self.device)` and the table update, `gemv/expert_elastic.py:217-242`): these
  come from the small blocks torch keeps. Should one fail all the same, `Gather` or
  `Take` would stop half way, and the kinds of a layer would disagree about its rows;
- padded tokens of a replayed graph in `KvTiers`, which all go to slot 0: with one
  request, as `serve.sh` runs the server, a graph is not padded. `KvStore` has them;
- the VRAM the placement pass needs for a moment, the prefill streamer that reads
  through the tables, and a static placement with the first kind on the GPU and the
  second on the host, which the offloader cannot produce;
- the capacity cap of the lazy KV cache at start-up, and buffers captured in
  graphs;
- the number formats of the tiers: in `KvTiers` a row is right or junk (the formats
  themselves are in `KvStore`); the hit rate of the ring is a property of the
  window (`NewestAreHot`), not a statistic;
- in `KvStore`, smoothing constants other than 1, rounding to bf16, and attention;
- several requests in `NgramChain` (the patch keeps nothing across requests but
  slots), sampling other than greedy;
- files left half written by a kill in `PatchLayers`; the text of the edits; edits that
  replace every occurrence, of which the first stands for all; `--force`, which is for
  repairs by hand;
- in `Phase1`, steps without a KV format and without text in the backend, such as
  S10_placement;
- the fp8 arithmetic of the rewrite, the sums of the budget, and everything
  AutoRound does inside a round.

Left out altogether: the arithmetic of the GEMV kernels; the collected patches in
`sglang/` and `patches/base/`, which are copies of code that is modelled from its
readable original; single patches, whose apply and revert have the shape of
kv_fp8's; offline checks and measuring tools, which keep no state of the system;
scripts that only start a server.

## 8 Plan

Done: `ExpertElastic` with its proofs; `VramLender` and its refinement, `LazyKv` on
top of it, `KvTiers`; `PatchLayers` and `Phase1`; the quantization chain; `KvStore`;
`ExpertPlacement`, whose result is proved to be an initial state of `ExpertElastic`;
`NgramChain`; `ElasticControl`; theorems about every safety property of the passing
runs but the three of `Phase1`.

Next, in this order:

1. `RowArena`: chunk by chunk, with an error at each driver call; refined to the
   view `ExpertElastic` has of it.
2. The start-up of the lazy KV cache: the capacity cap over what the profiler
   measured.
3. Of `Phase1`, the part that does not depend on texts: which steps are kept and
   served, over an abstract tree of whole layers that `PatchLayers` implements as long
   as nothing is killed.

Modules to be proved about use recursive functions or folds, never `RECURSIVE`
operators.

## 9 Running it

    tlc -workers 2 -config ElasticSplit.cfg MCExpertElastic
    tlc -workers 2 -config Runtime.cfg MCRuntime
    tlapm ExpertElasticProofs.tla

and likewise `LazyKvProofs`, `KvTiersProofs`, `KvStoreProofs`, `LayerConfigProofs`,
`PrefixLemmas`, `StagesProofs` and `RuntimeProofs`. The last two take about seven and
nine minutes; each of the others takes less.

`PROJECT.json` names module, configuration and properties of each run, the
fault that breaks each property, the source lines of each definition, and the
hazards of the code with the properties that would notice them.
