------------------------------ MODULE KvTiers ------------------------------
(***************************************************************************)
(* The tiered KV cache that patches/kv_tiers.py installs.  Every token is  *)
(* written twice in each attention layer: into the int4 row of its slot    *)
(* and, if it owns it, into row slot % R of an int8 ring.  One owner table *)
(* serves all layers.  A reader takes the ring row of a slot when the      *)
(* table says that the slot owns it, the int4 row otherwise.               *)
(*                                                                         *)
(* Memory is described by whose token it holds: a slot, for the token that *)
(* slot stands for now, or Junk.  When a slot is handed out again, what    *)
(* memory held of it is of no use any more and becomes Junk.               *)
(*                                                                         *)
(* A forward writes the new tokens of a batch of requests layer by layer,  *)
(* each layer storing before it reads, in the order of one CUDA stream.    *)
(*                                                                         *)
(* A definition whose comment starts with Fault is a plausible mistake in  *)
(* the definition after it; nothing refers to it, it is there to show      *)
(* which property would notice the mistake.                                *)
(***************************************************************************)
EXTENDS Prefixes, SequencesExt

CONSTANTS
  Caches,  \* the caches of interest, each a record of its sizes:
           \*   reqs        requests that may run at once (--max-running-requests)
           \*   slots       slots the pool hands out, 1 .. slots; slot 0 is padding
           \*   ring        ring_slots, a power of two
           \*   layers      attention layers that share the owner table
           \*   maxTokens   most tokens of one request in one forward
           \*   freeAtTail  TRUE: the token allocator, FALSE: the paged one
  Nobody,  \* owner of a ring row no slot was written to (-1)
  Junk     \* memory that holds no current token

(* What the code takes for granted of the sizes; the two nulls are no slots. *)
SizesOK(c) ==
  /\ c.reqs \in Nat \ {0} /\ c.slots \in Nat \ {0} /\ c.layers \in Nat \ {0}
  /\ c.maxTokens \in Nat \ {0} /\ c.freeAtTail \in BOOLEAN
  /\ c.ring \in 1 .. c.slots /\ \E i \in 0 .. c.slots : c.ring = 2 ^ i
  /\ Nobody \notin 0 .. c.slots /\ Junk \notin 0 .. c.slots

ASSUME SizesAssumption == \A c \in Caches : SizesOK(c)

VARIABLES
  cache,     \* the cache this behaviour is about, never changes
  freeList,  \* the allocator's free slots, in the order it hands them out
  slotsOf,   \* slotsOf[q]: the slots of request q, by position (req_to_token)
  fresh,     \* fresh[q]: the last fresh[q] of them are written by this forward
  layer,     \* the layer the forward is in
  pc,        \* "ready", "store", "read", "verify", or "dead" after an exception
  owner,     \* ring_owner
  ring,      \* ring[l][r]: int8 row r of layer l
  int4       \* int4[l][s]: int4 row s of layer l

vars == <<cache, freeList, slotsOf, fresh, layer, pc, owner, ring, int4>>
tiers == <<owner, ring, int4>>

Reqs == 1 .. cache.reqs
Slots == 0 .. cache.slots
R == cache.ring
RingRows == 0 .. R - 1
Layers == 0 .. cache.layers - 1

(* Fault: the mask is one bit short.                                       *)
HalfRingRow(s) == IF R = 1 THEN 0 ELSE s % (R \div 2)

RingRow(s) == s % R

LastOf(seq, n) == SubSeq(seq, Len(seq) - n + 1, Len(seq))

(* The slots this forward writes (loc).                                    *)
Written == UNION {ToSet(LastOf(slotsOf[q], fresh[q])) : q \in Reqs}

-----------------------------------------------------------------------------
(* The reader.                                                             *)

(* Fault: a row that somebody owns is taken for the reader's own.          *)
HotIfOwned(s) == owner[RingRow(s)] # Nobody

Hot(s) == owner[RingRow(s)] = s

Read(l, s) == IF Hot(s) THEN ring[l][RingRow(s)] ELSE int4[l][s]

-----------------------------------------------------------------------------
(* Slot 0 is written when the decode graphs are captured, if they are.     *)
Init ==
  /\ cache \in Caches
  /\ freeList = [i \in 1 .. cache.slots |-> i]
  /\ slotsOf = [q \in Reqs |-> <<>>]
  /\ fresh = [q \in Reqs |-> 0]
  /\ layer = 0
  /\ pc = "ready"
  /\ \E captured \in BOOLEAN :
       owner = [r \in RingRows |-> IF captured /\ r = 0 THEN 0 ELSE Nobody]
  /\ ring = [l \in Layers |-> [r \in RingRows |-> Junk]]
  /\ int4 = [l \in Layers |-> [s \in Slots |-> Junk]]

(* The new tokens of the requests before q.                                *)
TokensBefore(n, q) == PrefixSums(n, cache.reqs)[q - 1]

Forget(content, slots) ==
  [x \in DOMAIN content |-> IF content[x] \in slots THEN Junk ELSE content[x]]

(* The scheduler picks a batch: n[q] new tokens of request q, as a prompt  *)
(* chunk, a decode step or a verify with drafts; alloc takes their slots   *)
(* from the head of the free list, or refuses.                             *)
Begin ==
  /\ pc = "ready"
  /\ \E n \in [Reqs -> 0 .. cache.maxTokens] :
       LET total == TokensBefore(n, cache.reqs + 1)
           taken == ToSet(SubSeq(freeList, 1, total))
       IN  /\ total \in 1 .. Len(freeList)
           /\ slotsOf' = [q \in Reqs |-> slotsOf[q] \o
                SubSeq(freeList, TokensBefore(n, q) + 1, TokensBefore(n, q) + n[q])]
           /\ freeList' = SubSeq(freeList, total + 1, Len(freeList))
           /\ fresh' = n
           /\ ring' = [l \in Layers |-> Forget(ring[l], taken)]
           /\ int4' = [l \in Layers |-> Forget(int4[l], taken)]
  /\ pc' = "store"
  /\ layer' = 0
  /\ UNCHANGED owner

(* Ring rows this forward writes, each with a slot that wins the stamp     *)
(* launch: tokens of one write whose slots share a row race.               *)
Winners ==
  {won \in [{RingRow(s) : s \in Written} -> Written] :
     \A r \in DOMAIN won : RingRow(won[r]) = r}

(* Fault: every written token stores its ring row, whoever owns it.        *)
StoredByAnyone(l, own) ==
  [r \in RingRows |-> IF \E s \in Written : RingRow(s) = r
                      THEN CHOOSE s \in Written : RingRow(s) = r ELSE ring[l][r]]

(* The dual-write launch reads the owner table the stamp launch has left.  *)
RingStored(l, own) ==
  [r \in RingRows |-> IF own[r] \in Written THEN own[r] ELSE ring[l][r]]

FitsRing == Cardinality(Written) <= R

(* set_kv_buffer of one layer.                                             *)
Store ==
  /\ pc = "store" /\ FitsRing
  /\ \E won \in Winners :
       /\ owner' = [r \in RingRows |-> IF r \in DOMAIN won THEN won[r] ELSE owner[r]]
       /\ ring' = [ring EXCEPT ![layer] = RingStored(layer, owner')]
  /\ int4' = [int4 EXCEPT ![layer] = [s \in Slots |-> IF s \in Written THEN s ELSE @[s]]]
  /\ pc' = "read"
  /\ UNCHANGED <<freeList, slotsOf, fresh, layer>>

(* More tokens than the ring has rows: ValueError, the forward fails.      *)
Refuse ==
  /\ pc = "store" /\ ~FitsRing
  /\ pc' = "dead"
  /\ UNCHANGED <<freeList, slotsOf, fresh, layer, tiers>>

(* The layer's attention has read the batch's slots; on to the next layer. *)
Attend ==
  /\ pc = "read"
  /\ IF layer + 1 < cache.layers THEN layer' = layer + 1 /\ pc' = "store"
     ELSE layer' = 0 /\ pc' = "verify"
  /\ UNCHANGED <<freeList, slotsOf, fresh, tiers>>

-----------------------------------------------------------------------------
Freed(slots) == IF cache.freeAtTail THEN freeList \o slots ELSE slots \o freeList

(* free: the slots return to the list; when the pool is idle the list goes *)
(* back to slot order and lazy_release resets the owners.                  *)
Release(slots) ==
  IF Len(freeList) + Len(slots) = cache.slots
  THEN /\ freeList' = [i \in 1 .. cache.slots |-> i]
       /\ owner' = [r \in RingRows |-> Nobody]
  ELSE /\ freeList' = Freed(slots)
       /\ UNCHANGED owner

(* Fault: rejected slots are freed, but the request still counts them.     *)
KeptAll(q, drop) == slotsOf[q]

Kept(q, drop) == SubSeq(slotsOf[q], 1, Len(slotsOf[q]) - drop)

(* The result of the forward for one request of the batch: the last        *)
(* drop of its new tokens are rejected drafts, their slots are freed.      *)
Verify ==
  /\ pc = "verify"
  /\ \E q \in Reqs, drop \in 0 .. cache.maxTokens - 1 :
       /\ drop < fresh[q]
       /\ slotsOf' = [slotsOf EXCEPT ![q] = Kept(q, drop)]
       /\ fresh' = [fresh EXCEPT ![q] = 0]
       /\ IF drop = 0 THEN UNCHANGED <<freeList, owner>>
          ELSE Release(LastOf(slotsOf[q], drop))
       /\ pc' = IF \A p \in Reqs \ {q} : fresh[p] = 0 THEN "ready" ELSE "verify"
  /\ UNCHANGED <<layer, ring, int4>>

(* A request has finished, or is aborted or retracted: its slots are free. *)
End ==
  /\ pc = "ready"
  /\ \E q \in Reqs :
       /\ slotsOf[q] # <<>>
       /\ slotsOf' = [slotsOf EXCEPT ![q] = <<>>]
       /\ Release(slotsOf[q])
  /\ UNCHANGED <<fresh, layer, pc, ring, int4>>

Next ==
  /\ Begin \/ Store \/ Refuse \/ Attend \/ Verify \/ End
  /\ UNCHANGED cache

Spec == Init /\ [][Next]_vars

-----------------------------------------------------------------------------
(* Every variable has its type, and no slot is twice in the free list.     *)
TypeOK ==
  /\ cache \in Caches
  /\ freeList \in Seq(Slots \ {0}) /\ IsInjective(freeList)
  /\ slotsOf \in [Reqs -> Seq(Slots \ {0})]
  /\ fresh \in [Reqs -> Nat] /\ \A q \in Reqs : fresh[q] \in 0 .. Len(slotsOf[q])
  /\ layer \in Layers
  /\ pc \in {"ready", "store", "read", "verify", "dead"}
  /\ owner \in [RingRows -> Slots \cup {Nobody}]
  /\ ring \in [Layers -> [RingRows -> Slots \cup {Junk}]]
  /\ int4 \in [Layers -> [Slots -> Slots \cup {Junk}]]

(* Whatever was written, rejected, freed and handed out again before, when *)
(* a layer's attention runs, each slot of a request of the batch reads as  *)
(* the token it stands for now (the tier test of _compact_kv_tiered and    *)
(* _gather_dequant_rows_tiered against the dual write).                    *)
ReadsCurrent ==
  pc = "read" =>
    \A q \in Reqs : fresh[q] > 0 =>
      \A s \in ToSet(slotsOf[q]) : Read(layer, s) = s

(* Rejected drafts cost a single request, with the paged allocator, at     *)
(* most the tokens of one forward of its int8 window: between forwards the *)
(* newest token and the R - maxTokens before it are hot.                   *)
NewestAreHot ==
  pc = "ready" /\ cache.reqs = 1 /\ ~cache.freeAtTail =>
    LET last == Len(slotsOf[1])
    IN  \A i \in 1 .. last : i = last \/ last - i <= R - cache.maxTokens => Hot(slotsOf[1][i])

=============================================================================
