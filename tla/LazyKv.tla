------------------------------- MODULE LazyKv -------------------------------
(***************************************************************************)
(* Lazy backing of the KV cache (patches/kv_lazy.py).  The KV buffers are  *)
(* address space; the allocator hook lazy_ensure backs the prefix up to    *)
(* the highest slot it hands out, in steps of Margin tokens, keeps a       *)
(* headroom of free VRAM, and asks the elastic expert cache (VramLender)   *)
(* for memory before it refuses.  When the last slot is freed the backing  *)
(* beyond Floor tokens goes back to the driver and the cache regrows.      *)
(*                                                                         *)
(* held, free and the arguments of the cache are in chunks, the unit the   *)
(* driver maps.  Everything lazy_ensure does runs in the scheduler's       *)
(* thread; steps are separated where it allocates, frees or looks at the   *)
(* free memory again.                                                      *)
(*                                                                         *)
(* A definition whose comment starts with Fault is a plausible mistake in  *)
(* the definition after it; nothing refers to it, it is there to show      *)
(* which property would notice the mistake.                                *)
(***************************************************************************)
EXTENDS VramLender, FiniteSetsExt, Prefixes

CONSTANTS
  Size,           \* slots are 0 .. Size
  Floor,          \* _lazy_floor: tokens that stay backed
  Margin,         \* _lazy_margin, in tokens
  Buffers,        \* the K and V buffers of all layers, 1 .. Buffers
  TokenBytes,     \* TokenBytes[b]: bytes of a token in buffer b
  Chunk,          \* bytes of a chunk
  Headroom,       \* SGLANG_KV_LAZY_HEADROOM_MB, in bytes
  Extra,          \* the 64 MB asked for on top of the headroom, in bytes
  WorkMemory,     \* the 1024 MB asked for after a failed commit, in bytes
  RegrowReserve,  \* regrow_reserve of the expert cache, in chunks
  MaxAlloc        \* most slots in one alloc

Slots == 0 .. Size
Bufs == 1 .. Buffers

BytesPerToken == PrefixSums(TokenBytes, Buffers)[Buffers]

(* What the code takes for granted of the sizes.                           *)
SizesOK ==
  /\ Size \in Nat \ {0} /\ Floor \in 0 .. Size /\ Margin \in Nat \ {0}
  /\ Buffers \in Nat \ {0} /\ TokenBytes \in [Bufs -> Nat \ {0}]
  /\ Chunk \in Nat \ {0} /\ MaxAlloc \in Nat \ {0}
  /\ {Headroom, Extra, WorkMemory, RegrowReserve, MinHeld, Vram} \subseteq Nat
  /\ MinHeld <= Vram /\ NoWant \notin Nat
  /\ WorkMemory >= Buffers * (Chunk - 1)

ASSUME SizesAssumption == SizesOK

VARIABLES
  used,      \* slots handed out
  backed,    \* backed_tokens of the buffer owner
  kv,        \* kv[b]: chunks that back buffer b (backed_to)
  recent,    \* was the torch cache emptied within the last 30 s?
  regrow,    \* pending_regrow of the expert cache
  call,      \* the running hook: its position, the slots, the tokens to back
  shared     \* does another process use the GPU while hooks run? never changes

vars == <<held, free, want, used, backed, kv, recent, regrow, call, shared>>
pages == <<used, backed, kv>>

Ready == [pc |-> "ready", slots |-> {}, tokens |-> 0]

At(pc) == call.pc = pc

Goto(pc) == call' = [call EXCEPT !.pc = pc]

(* prefix_span_bytes, rounded up to chunks.                                *)
ChunksFor(b, tokens) == (tokens * TokenBytes[b] + Chunk - 1) \div Chunk

ChunksOf(c) == (c + Chunk - 1) \div Chunk

KvChunks == PrefixSums(kv, Buffers)[Buffers]

(* torch.cuda.empty_cache: blocks the allocator holds unused become free.  *)
EmptyCache == free' \in free .. Vram - held - KvChunks

(* Fault: the margin may reach beyond the buffers.                         *)
TokensUncapped(top) == ((top + Margin + Margin - 1) \div Margin) * Margin

(* Slots [0, top) and a margin, in steps of a margin.                      *)
TokensFor(top) ==
  Min({Size + 1, ((top + Margin + Margin - 1) \div Margin) * Margin})

Delta == (call.tokens - backed) * BytesPerToken

-----------------------------------------------------------------------------
Init ==
  /\ LenderInit
  /\ used = {}
  /\ backed = Floor
  /\ kv = [b \in Bufs |-> ChunksFor(b, Floor)]
  /\ free + held + KvChunks <= Vram
  /\ recent = FALSE
  /\ regrow = FALSE
  /\ call = Ready
  /\ shared \in BOOLEAN

-----------------------------------------------------------------------------
(* alloc takes slots off the free list and calls lazy_ensure.              *)
Alloc ==
  /\ At("ready")
  /\ \E slots \in SUBSET ((Slots \ {0}) \ used) :
       /\ Cardinality(slots) \in 1 .. MaxAlloc
       /\ LET tokens == TokensFor(Max(slots) + 1)
          IN  IF tokens <= backed
              THEN used' = used \cup slots /\ UNCHANGED call
              ELSE /\ call' = [pc |-> "watermark", slots |-> slots, tokens |-> tokens]
                   /\ UNCHANGED used
  /\ UNCHANGED <<lender, backed, kv, recent, regrow>>

(* Fault: the memory the commit itself takes is not counted.               *)
LowBefore(chunks) == chunks * Chunk < Headroom

(* After the commit less than the headroom would be free.                  *)
Low(chunks) == chunks * Chunk - Delta < Headroom

(* Fault: the cache is not looked at, it never gives way.                  *)
CannotShrink == {FALSE}

(* Some layer is above the floor; it may share its last chunk with it.     *)
CanShrink == IF held > MinHeld THEN {TRUE} ELSE BOOLEAN

(* The watermark: when it would be crossed and the cache can shrink, or    *)
(* the last attempt is long ago, empty the torch cache and let the expert  *)
(* cache give way.                                                         *)
Watermark ==
  /\ At("watermark")
  /\ \E can \in CanShrink :
       IF Low(free) /\ (can \/ ~recent)
       THEN /\ EmptyCache
            /\ recent' = TRUE
            /\ Goto(IF can /\ Low(free') THEN "shrink" ELSE "recheck")
       ELSE Goto("commit") /\ UNCHANGED <<free, recent>>
  /\ UNCHANGED <<held, want, pages, regrow>>

(* el.free: the cache lends until it is done.                              *)
Shrink ==
  /\ At("shrink")
  /\ Ask(ChunksOf(Headroom + Delta + Extra))
  /\ Goto("shrinking")
  /\ UNCHANGED <<pages, recent, regrow>>

Lend ==
  /\ At("shrinking") \/ At("shrinking2")
  /\ \/ Give /\ UNCHANGED <<call, regrow>>
     \/ Done /\ regrow' = TRUE /\ Goto(IF At("shrinking") THEN "recheck" ELSE "commit3")
  /\ UNCHANGED <<pages, recent>>

(* The allocation is refused: the slots go back, alloc returns None.       *)
Refuse == call' = Ready /\ UNCHANGED pages

(* What must be left in any case, or the allocation is refused.            *)
HardLimit == Headroom \div 2

Recheck ==
  /\ At("recheck")
  /\ IF free * Chunk - Delta < HardLimit THEN Refuse
     ELSE Goto("commit") /\ UNCHANGED pages
  /\ UNCHANGED <<lender, recent, regrow>>

-----------------------------------------------------------------------------
Missing(b) == Max({0, ChunksFor(b, call.tokens) - kv[b]})

(* What the buffers up to n lack.                                          *)
MissingBefore(n) == PrefixSums([b \in Bufs |-> Missing(b)], Buffers)[n]

(* ensure_prefix succeeds.                                                 *)
Committed ==
  /\ MissingBefore(Buffers) <= free
  /\ kv' = [b \in Bufs |-> kv[b] + Missing(b)]
  /\ free' = free - MissingBefore(Buffers)
  /\ backed' = Max({backed, call.tokens})
  /\ used' = used \cup call.slots
  /\ call' = Ready

(* Buffers before n are backed, n itself in part.                          *)
BackedUpTo(n) ==
  /\ MissingBefore(n - 1) <= free /\ free < MissingBefore(n)
  /\ \E part \in 0 .. free - MissingBefore(n - 1) :
       /\ kv' = [b \in Bufs |-> IF b < n THEN kv[b] + Missing(b)
                                ELSE IF b = n THEN kv[b] + part ELSE kv[b]]
       /\ free' = free - MissingBefore(n - 1) - part

(* Fault: backed_tokens is raised before the buffers are backed.           *)
CommitFailsRecorded ==
  /\ \E n \in Bufs : BackedUpTo(n)
  /\ backed' = Max({backed, call.tokens})
  /\ UNCHANGED used

(* ensure_prefix runs out of memory in some buffer; what it has backed     *)
(* stays, but backed_tokens does not move.                                 *)
CommitFails ==
  /\ \E n \in Bufs : BackedUpTo(n)
  /\ UNCHANGED <<used, backed>>

Commit ==
  /\ At("commit")
  /\ Committed \/ (CommitFails /\ Goto("empty"))
  /\ UNCHANGED <<held, want, recent, regrow>>

Empty ==
  /\ At("empty")
  /\ EmptyCache
  /\ Goto("commit2")
  /\ UNCHANGED <<held, want, pages, recent, regrow>>

(* The retry after empty_cache; if it fails too, the expert cache is asked *)
(* for what is missing and the prefill's working memory on top.            *)
Retry ==
  /\ At("commit2")
  /\ Committed \/ (CommitFails /\ Goto("shrink2"))
  /\ UNCHANGED <<held, want, recent, regrow>>

Shrink2 ==
  /\ At("shrink2")
  /\ Ask(ChunksOf(Delta + WorkMemory))
  /\ Goto("shrinking2")
  /\ UNCHANGED <<pages, recent, regrow>>

(* Fault: it tries until it succeeds.                                      *)
TryForever ==
  /\ At("commit3")
  /\ Committed \/ (CommitFails /\ Goto("empty"))
  /\ UNCHANGED <<held, want, recent, regrow>>

LastTry ==
  /\ At("commit3")
  /\ Committed \/ (CommitFails /\ call' = Ready)
  /\ UNCHANGED <<held, want, recent, regrow>>

-----------------------------------------------------------------------------
(* Fault: the backing of the record is released, not what was mapped.      *)
ReleaseRecorded ==
  IF backed > Floor THEN [b \in Bufs |-> Min({kv[b], ChunksFor(b, Floor)})] ELSE kv

(* release_beyond: every mapping beyond the floor.                         *)
KeptAtFloor == [b \in Bufs |-> Min({kv[b], ChunksFor(b, Floor)})]

(* Slots are freed; with the last one the pool is idle, lazy_release gives *)
(* the backing beyond the floor to the driver and the cache regrows.       *)
Free ==
  /\ At("ready")
  /\ \E slots \in SUBSET used :
       /\ slots # {}
       /\ used' = used \ slots
       /\ IF used' = {}
          THEN /\ kv' = KeptAtFloor
               /\ free' = free + KvChunks - KvChunks'
               /\ backed' = Min({backed, Floor})
               /\ IF regrow THEN regrow' = FALSE /\ Goto("regrow")
                  ELSE UNCHANGED <<regrow, call>>
          ELSE UNCHANGED <<kv, free, backed, regrow, call>>
  /\ UNCHANGED <<held, want, recent>>

(* el.regrow: the cache fills while its reserve stays free.                *)
Regrow ==
  /\ At("regrow")
  /\ \/ /\ Resize
        /\ held' > held
        /\ shared \/ free' >= RegrowReserve
        /\ UNCHANGED call
     \/ call' = Ready /\ UNCHANGED lender
  /\ UNCHANGED <<pages, recent, regrow>>

(* Between the hooks a command of the control file resizes the cache.      *)
Control ==
  /\ At("ready")
  /\ Resize
  /\ regrow' \in {regrow, TRUE}
  /\ UNCHANGED <<pages, recent, call>>

(* The forward's working memory and other processes.                       *)
DriverMemory ==
  /\ At("ready") \/ shared
  /\ FreeBecomes(Vram - held - KvChunks)
  /\ UNCHANGED <<pages, recent, regrow, call>>

HalfMinutePasses ==
  /\ recent
  /\ recent' = FALSE
  /\ UNCHANGED <<lender, pages, regrow, call>>

Hook ==
  \/ Watermark \/ Shrink \/ Lend \/ Recheck
  \/ Commit \/ Empty \/ Retry \/ Shrink2 \/ LastTry

Next ==
  /\ Alloc \/ Hook \/ Free \/ Regrow \/ Control \/ DriverMemory \/ HalfMinutePasses
  /\ UNCHANGED shared

Spec == Init /\ [][Next]_vars

(* A hook is plain Python code: it runs on.                                *)
FairSpec ==
  /\ Spec
  /\ WF_vars(Hook /\ UNCHANGED shared)
  /\ WF_vars(Regrow /\ UNCHANGED shared)

-----------------------------------------------------------------------------
(* The variables of the hooks keep their types; no more VRAM is used than  *)
(* there is.                                                               *)
TypeOK ==
  /\ held \in MinHeld .. Vram /\ free \in 0 .. Vram - held - KvChunks
  /\ want \in Nat \cup {NoWant}
  /\ used \subseteq Slots \ {0}
  /\ backed \in 0 .. Size + 1
  /\ kv \in [Bufs -> Nat]
  /\ recent \in BOOLEAN /\ regrow \in BOOLEAN
  /\ call \in [pc : {"ready", "watermark", "shrink", "shrinking", "recheck", "commit",
                     "empty", "commit2", "shrink2", "shrinking2", "commit3", "regrow"},
               slots : SUBSET (Slots \ {0}), tokens : 0 .. Size + 1]
  /\ call.slots \cap used = {}
  /\ shared \in BOOLEAN

(* Whatever failed in between, a slot is in somebody's hands only while    *)
(* every buffer is backed up to and including it: no kernel touches an     *)
(* address of the KV cache that is not mapped.                             *)
AllocatedIsBacked ==
  \A s \in used, b \in Bufs : ChunksFor(b, s + 1) <= kv[b]

(* lazy_ensure refuses an allocation only when the expert cache has given  *)
(* all it can; so it is while no other process takes what the cache gives. *)
RefusesAtFloor ==
  ~At("ready") /\ call' = Ready /\ ~(call.slots \subseteq used') => held = MinHeld

RefusedOnlyAtFloor == [][~shared => RefusesAtFloor]_vars

(* As long as the cache is above its floor a commit of lazy_ensure leaves  *)
(* the headroom free, up to the rounding of each buffer to chunks.         *)
LeavesHeadroom ==
  backed' > backed =>
    held = MinHeld \/ free' * Chunk >= Headroom - Buffers * (Chunk - 1)

CommitKeepsHeadroom == [][~shared => LeavesHeadroom]_vars

(* When the last slot is freed lazy_release gives the driver everything    *)
(* beyond the floor back, also what commits that failed had mapped.        *)
GivesBack ==
  used # {} /\ used' = {} => \A b \in Bufs : kv'[b] = ChunksFor(b, Floor)

IdleKeepsFloorOnly == [][GivesBack]_vars

(* Each hook comes back, with an answer for alloc, after finitely many     *)
(* attempts to make room, whatever another process takes.                  *)
HooksReturn == ~At("ready") ~> At("ready")

=============================================================================
