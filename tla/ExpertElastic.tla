--------------------------- MODULE ExpertElastic ---------------------------
(***************************************************************************)
(* The elastic expert cache of gemv/expert_elastic.py while it serves:     *)
(* every MoE layer keeps its S hottest expert rows, per tensor kind, in a  *)
(* GPU arena (gemv/row_arena.py) and the others in pinned host slots; an   *)
(* address table per (layer, kind) tells the kernels where each row lives. *)
(*                                                                         *)
(* A row is named by its rank: row <<l, r>> is expert order[l][r] of layer *)
(* l, and the slot <<l, r>> of a host tensor is the place that expert had  *)
(* in it.  Slot <<NumLayers, i>> is the i-th row pinned at start-up.       *)
(* VRAM is counted in chunks, the unit the arenas map and unmap.           *)
(*                                                                         *)
(* The process is single-threaded, so a command (set_S, fill, free,        *)
(* regrow) runs to its end before the next starts; its steps are separated *)
(* where it allocates or releases VRAM, because the driver's free memory   *)
(* is shared with the rest of the process and with other processes.        *)
(*                                                                         *)
(* A definition whose comment starts with Fault is a plausible mistake in  *)
(* the definition after it; nothing refers to it, it is there to show      *)
(* which property would notice the mistake.                                *)
(***************************************************************************)
EXTENDS FiniteSetsExt

CONSTANTS
  NumLayers,      \* self.L: layers are 0 .. NumLayers - 1, resized in that order
  NumRows,        \* self.E: expert rows of a layer, per kind
  NumKinds,       \* tensor kinds, 1 .. NumKinds in the order of NAMES
  OnHost,         \* OnHost[k]: the layers whose tensor of kind k the offloader put on the host
  Pinned,         \* Pinned[k]: extra host rows of kind k pinned at start-up
  StartS,         \* self.S0
  StepRows,       \* the step of fill and free
  RowBytes,       \* RowBytes[k]: bytes of a row of kind k
  Chunk,          \* bytes of a chunk
  Vram,           \* chunks of VRAM that arenas and everything else share
  RegrowReserve,  \* self.regrow_reserve, in chunks
  SizeArgs, FillArgs, FreeArgs,  \* arguments of the commands S, fill and free
  OtherProcesses, \* may another process allocate VRAM while a command runs?
  NoSlot,         \* home of a row that lives in its arena (None)
  Junk            \* content of memory nothing was copied to

Layers == 0 .. NumLayers - 1
Ranks == 0 .. NumRows - 1
Kinds == 1 .. NumKinds
Rows == Layers \X Ranks
Slots(k) == (OnHost[k] \X Ranks) \cup ({NumLayers} \X (0 .. Pinned[k] - 1))
AllSlots == UNION {Slots(k) : k \in Kinds}
Addresses == ({"gpu"} \X Rows) \cup ({"host"} \X AllSlots)

(* Uniform residency of s rows per layer fits the host when the rows that  *)
(* stay out of the arenas do not outnumber the host slots of any kind.     *)
HostFits(s) ==
  \A k \in Kinds : NumLayers * (NumRows - s) <= Cardinality(Slots(k))

ASSUME SizesAssumption ==
  /\ NumLayers \in Nat \ {0} /\ NumRows \in Nat \ {0} /\ NumKinds \in Nat \ {0}
  /\ StartS \in 0 .. NumRows /\ StepRows \in Nat \ {0}
  /\ Chunk \in Nat \ {0} /\ RowBytes \in [Kinds -> Nat \ {0}]
  /\ Vram \in Nat /\ RegrowReserve \in Nat
  /\ SizeArgs \subseteq Nat /\ FillArgs \subseteq Nat /\ FreeArgs \subseteq Nat
  /\ OtherProcesses \subseteq BOOLEAN

(* What place_all has established when it returns: enough host slots for   *)
(* the rows below StartS of every layer.                                   *)
ASSUME PlacementAssumption ==
  /\ OnHost \in [Kinds -> SUBSET Layers]
  /\ Pinned \in [Kinds -> Nat]
  /\ HostFits(StartS)

ASSUME NullsAssumption ==
  /\ NoSlot \notin AllSlots
  /\ Junk \notin Rows

VARIABLES
  S,       \* S[l]: st.S, rows of layer l that live in its arenas
  mapped,  \* mapped[k][l]: chunks that back the arena of (l, k)
  arena,   \* arena[k][row]: what the arena rows hold
  host,    \* host[k][slot]: what the host slots hold
  tab,     \* tab[k][row]: the address table the kernels read through
  home,    \* home[k][row]: the row's host slot, NoSlot while it is in the arena
  pool,    \* pool[k]: free host slots
  free,    \* chunks the driver has free (torch.cuda.mem_get_info)
  regrow,  \* self.pending_regrow
  raised,  \* the exception that cut the last command short
  op,      \* the running command and its position
  others   \* do other processes allocate VRAM while a command runs?

vars == <<S, mapped, arena, host, tab, home, pool, free, regrow, raised, op, others>>
memory == <<arena, host, tab, home, pool>>

-----------------------------------------------------------------------------
(* Arena geometry.                                                         *)

ChunksForRows(k, n) == (n * RowBytes[k] + Chunk - 1) \div Chunk

(* Row r lies in the backed prefix: r < backed_rows of the arena.          *)
Backed(k, chunks, r) == (r + 1) * RowBytes[k] <= chunks * Chunk

BytesToReach(k, l, n) == Max({0, ChunksForRows(k, n) - mapped[k][l]})

(* All arenas together, when that of (l, k) counts for amount[k][l].       *)
Total(amount) == MapThenSumSet(LAMBDA kl : amount[kl[1]][kl[2]], Kinds \X Layers)

MappedChunks == Total(mapped)

(* What a kernel gets when it follows address a of kind k.                 *)
Deref(k, a) ==
  IF a[1] = "host" THEN host[k][a[2]]
  ELSE IF Backed(k, mapped[k][a[2][1]], a[2][2]) THEN arena[k][a[2]]
  ELSE Junk

(* ensure_rows creates chunks one at a time: the driver grants as many of  *)
(* need as it has free.                                                    *)
(* Fault: the error cuMemCreate returns goes unnoticed.                    *)
GrantedUnchecked(need) == need

Granted(need) == Min({need, free})

(* Unmapping loses the content of every arena row that is no longer backed.*)
Unmap(k, l, chunks) ==
  /\ mapped' = [mapped EXCEPT ![k][l] = chunks]
  /\ arena' = [arena EXCEPT ![k] =
        [row \in Rows |-> IF row[1] = l /\ ~Backed(k, chunks, row[2])
                          THEN Junk ELSE arena[k][row]]]
  /\ free' = free + (mapped[k][l] - chunks)

(* Fault: the chunk that row n - 1 shares with row n is released too.      *)
ShrinkRowsDown(k, l, n) ==
  Unmap(k, l, Min({mapped[k][l], (n * RowBytes[k]) \div Chunk}))

(* shrink_rows: release every chunk that lies entirely beyond row n.       *)
ShrinkRows(k, l, n) == Unmap(k, l, Min({mapped[k][l], ChunksForRows(k, n)}))

-----------------------------------------------------------------------------
(* The floor: the smallest uniform S the host slots can absorb.            *)

(* Fault: the layers are taken to have one size.                           *)
TotalUniform == NumLayers * S[0]

TotalS == Cardinality({row \in Rows : row[2] < S[row[1]]})

CeilMeanS == Min({s \in 0 .. NumRows : TotalS <= NumLayers * s})

(* Fault: one kind with room is enough.                                    *)
SomePoolCovers(s) ==
  \E k \in Kinds : TotalS - NumLayers * s <= Cardinality(pool[k])

(* No kind's pool falls short of the rows that leave the GPU at s.         *)
PoolCovers(s) ==
  \A k \in Kinds : TotalS - NumLayers * s <= Cardinality(pool[k])

s_floor ==
  Min({CeilMeanS} \cup
      {s \in 0 .. CeilMeanS : \A t \in s .. CeilMeanS : PoolCovers(t)})

-----------------------------------------------------------------------------
IdleOp == [cmd |-> "idle", pc |-> "idle", arg |-> 0, goal |-> 0,
           lid |-> 0, to |-> 0, kind |-> 1]

(* Where place_all leaves the rows: a host layer's cold rows keep their    *)
(* slots, a GPU layer's cold rows take slots of the others.                *)
ColdRows(hosted, k) ==
  {row \in Rows : row[2] >= StartS /\ (row[1] \in OnHost[k]) = hosted}

Placements(k) ==
  Injection(ColdRows(FALSE, k), Slots(k) \ ColdRows(TRUE, k))

Init ==
  /\ S = [l \in Layers |-> StartS]
  /\ mapped = [k \in Kinds |-> [l \in Layers |-> ChunksForRows(k, StartS)]]
  /\ \E place \in [Kinds -> UNION {Placements(k) : k \in Kinds}] :
       /\ \A k \in Kinds : place[k] \in Placements(k)
       /\ home = [k \in Kinds |-> [row \in Rows |->
                    IF row[2] < StartS THEN NoSlot
                    ELSE IF row[1] \in OnHost[k] THEN row ELSE place[k][row]]]
  /\ pool = [k \in Kinds |-> Slots(k) \ {home[k][row] : row \in Rows}]
  /\ tab = [k \in Kinds |-> [row \in Rows |->
              IF row[2] < StartS THEN <<"gpu", row>> ELSE <<"host", home[k][row]>>]]
  /\ arena = [k \in Kinds |-> [row \in Rows |->
                IF row[2] < StartS THEN row ELSE Junk]]
  /\ host = [k \in Kinds |-> [slot \in AllSlots |->
               IF \E row \in Rows : home[k][row] = slot
               THEN CHOOSE row \in Rows : home[k][row] = slot ELSE Junk]]
  /\ free \in 0 .. Vram
  /\ free + MappedChunks <= Vram
  /\ regrow = FALSE
  /\ raised = "none"
  /\ op = IdleOp
  /\ others \in OtherProcesses

-----------------------------------------------------------------------------
(* Commands.  poll calls set_S, fill and free for the control file and     *)
(* fill once for the autofill; the lazy KV pool calls free and regrow.     *)

Idle == op.cmd = "idle"

Start(cmd, pc, arg, goal) ==
  /\ Idle
  /\ op' = [op EXCEPT !.cmd = cmd, !.pc = pc, !.arg = arg, !.goal = goal]
  /\ raised' = "none"
  /\ UNCHANGED <<S, mapped, free, memory>>

SetS(n) ==
  LET goal == Max({s_floor, Min({n, NumRows})})
  IN  Start("S", "layer", n, goal) /\ UNCHANGED regrow

Fill(reserve) == Start("fill", "head", reserve, 0) /\ UNCHANGED regrow

Free(want) == Start("free", "head", want, 0) /\ UNCHANGED regrow

Regrow ==
  /\ regrow
  /\ Start("fill", "head", RegrowReserve, 0)
  /\ regrow' = FALSE

(* A command ends by returning or with an exception, which its caller      *)
(* swallows; free marks the shrink for a later regrow either way.          *)
Finish(exception) ==
  /\ op' = IdleOp
  /\ raised' = exception
  /\ regrow' = (regrow \/ op.cmd = "free")

(* Fault: one layer's share is taken for the whole round.                  *)
FillNeedOfLayer ==
  MapThenSumSet(LAMBDA k : BytesToReach(k, 0, Min({NumRows, S[0] + StepRows})), Kinds)

(* fill: what the next round of growing every layer would map.             *)
FillNeed ==
  Total([k \in Kinds |-> [l \in Layers |->
           BytesToReach(k, l, Min({NumRows, S[l] + StepRows}))]])

FillHead ==
  /\ op.cmd = "fill" /\ op.pc = "head"
  /\ IF \/ \A l \in Layers : S[l] >= NumRows
        \/ free - FillNeed < op.arg
     THEN Finish("none")
     ELSE /\ op' = [op EXCEPT !.pc = "layer", !.lid = 0]
          /\ UNCHANGED <<raised, regrow>>
  /\ UNCHANGED <<S, mapped, free, memory>>

(* Fault: free steps down from the smallest layer.                         *)
IsSmallest(top) == \A l \in Layers : S[top] <= S[l]

IsLargest(top) == \A l \in Layers : S[l] <= S[top]

(* Fault: free goes on although the target is not below the largest size.  *)
SatisfiedOnly(target, top) == free >= op.arg

FreeIsDone(target, top) == free >= op.arg \/ target >= S[top]

FreeHead ==
  /\ op.cmd = "free" /\ op.pc = "head"
  /\ \E top \in Layers :
       LET target == Max({s_floor, S[top] - StepRows})
       IN  /\ IsLargest(top)
           /\ IF FreeIsDone(target, top)
              THEN Finish("none")
              ELSE /\ op' = [op EXCEPT !.pc = "layer", !.lid = 0, !.goal = target]
                   /\ UNCHANGED <<raised, regrow>>
  /\ UNCHANGED <<S, mapped, free, memory>>

-----------------------------------------------------------------------------
(* resize_layer on layer op.lid.                                           *)

(* Fault: free does not skip the layers that are below the target already. *)
TargetForAll(l) ==
  IF op.cmd = "fill" THEN Min({NumRows, S[l] + StepRows}) ELSE op.goal

Target(l) ==
  CASE op.cmd = "S"    -> op.goal
    [] op.cmd = "fill" -> Min({NumRows, S[l] + StepRows})
    [] op.cmd = "free" -> Min({S[l], op.goal})

AtLayer == op.pc = "layer" /\ op.lid < NumLayers

(* The loop over the layers is over: set_S returns, fill and free look at  *)
(* the free VRAM again.                                                    *)
LayersDone ==
  /\ op.pc = "layer" /\ op.lid = NumLayers
  /\ IF op.cmd = "S" THEN Finish("none")
     ELSE op' = [op EXCEPT !.pc = "head"] /\ UNCHANGED <<raised, regrow>>
  /\ UNCHANGED <<S, mapped, free, memory>>

StartResize ==
  /\ AtLayer
  /\ LET to == Target(op.lid)
     IN  op' = CASE to = S[op.lid] -> [op EXCEPT !.lid = @ + 1]
                 [] to > S[op.lid] -> [op EXCEPT !.pc = "ensure", !.to = to, !.kind = 1]
                 [] to < S[op.lid] -> [op EXCEPT !.pc = "take", !.to = to, !.kind = 1]
  /\ UNCHANGED <<S, mapped, free, memory, raised, regrow>>

NextKind(pc) ==
  IF op.kind < NumKinds THEN [op EXCEPT !.kind = @ + 1]
  ELSE [op EXCEPT !.kind = 1, !.pc = pc]

(* Growing, arena by arena: ensure_rows maps chunks one at a time; when    *)
(* the driver runs out it keeps those it has mapped and raises ArenaOOM.   *)
Ensure ==
  /\ op.pc = "ensure"
  /\ LET k == op.kind
         l == op.lid
         need == BytesToReach(k, l, op.to)
         got == Granted(need)
     IN  /\ mapped' = [mapped EXCEPT ![k][l] = @ + got]
         /\ free' = free - got
         /\ op' = IF got = need THEN NextKind("gather")
                  ELSE [op EXCEPT !.pc = "rollback", !.kind = 1]
  /\ UNCHANGED <<S, memory, raised, regrow>>

(* Fault: the exception leaves the chunks where they are.                  *)
RollbackNothing ==
  /\ op.pc = "rollback"
  /\ Finish("ArenaOOM")
  /\ UNCHANGED <<S, mapped, free, memory>>

(* ArenaOOM: every arena of the layer shrinks back to S, then the command  *)
(* ends with the exception.                                                *)
Rollback ==
  /\ op.pc = "rollback"
  /\ ShrinkRows(op.kind, op.lid, S[op.lid])
  /\ IF op.kind = NumKinds THEN Finish("ArenaOOM")
     ELSE op' = NextKind("rollback") /\ UNCHANGED <<raised, regrow>>
  /\ UNCHANGED <<S, host, tab, home, pool>>

(* Fault: the slots of the rows that moved to the GPU are forgotten.       *)
PoolWithout(k, moving) == pool[k]

PoolWith(k, moving) == pool[k] \cup {home[k][row] : row \in moving}

(* All arenas are backed: gather the rows through the table, point the     *)
(* table at the arena and give the host slots back.                        *)
Gather ==
  /\ op.pc = "gather"
  /\ LET l == op.lid
         moving == {l} \X (S[l] .. op.to - 1)
     IN  /\ arena' = [k \in Kinds |-> [row \in Rows |->
                        IF row \in moving THEN Deref(k, tab[k][row]) ELSE arena[k][row]]]
         /\ tab' = [k \in Kinds |-> [row \in Rows |->
                        IF row \in moving THEN <<"gpu", row>> ELSE tab[k][row]]]
         /\ pool' = [k \in Kinds |-> PoolWith(k, moving)]
         /\ home' = [k \in Kinds |-> [row \in Rows |->
                        IF row \in moving THEN NoSlot ELSE home[k][row]]]
         /\ S' = [S EXCEPT ![l] = op.to]
  /\ op' = [op EXCEPT !.pc = "layer", !.lid = @ + 1]
  /\ UNCHANGED <<mapped, host, free, raised, regrow>>

(* Shrinking: take a slot per leaving row and kind (all kinds or none),    *)
(* copy the rows out and point the table at the slots.                     *)
Take ==
  /\ op.pc = "take"
  /\ LET l == op.lid
         moving == {l} \X (op.to .. S[l] - 1)
     IN  IF \A k \in Kinds : Cardinality(pool[k]) >= Cardinality(moving)
         THEN /\ \E slot \in [Kinds -> UNION {Injection(moving, pool[k]) : k \in Kinds}] :
                   /\ \A k \in Kinds : slot[k] \in Injection(moving, pool[k])
                   /\ host' = [k \in Kinds |-> [s \in AllSlots |->
                        IF \E row \in moving : slot[k][row] = s
                        THEN arena[k][CHOOSE row \in moving : slot[k][row] = s]
                        ELSE host[k][s]]]
                   /\ home' = [k \in Kinds |-> [row \in Rows |->
                        IF row \in moving THEN slot[k][row] ELSE home[k][row]]]
                   /\ tab' = [k \in Kinds |-> [row \in Rows |->
                        IF row \in moving THEN <<"host", slot[k][row]>> ELSE tab[k][row]]]
                   /\ pool' = [k \in Kinds |->
                        pool[k] \ {slot[k][row] : row \in moving}]
              /\ op' = [op EXCEPT !.pc = "release", !.kind = 1]
              /\ UNCHANGED <<raised, regrow>>
         ELSE Finish("exhausted") /\ UNCHANGED <<host, home, tab, pool>>
  /\ UNCHANGED <<S, mapped, arena, free>>

(* The table no longer points at the tail: unmap it, arena by arena, then  *)
(* record the new size.                                                    *)
Release ==
  /\ op.pc = "release"
  /\ LET k == op.kind
         l == op.lid
     IN  /\ ShrinkRows(k, l, op.to)
         /\ IF k = NumKinds
            THEN /\ S' = [S EXCEPT ![l] = op.to]
                 /\ op' = [op EXCEPT !.pc = "layer", !.lid = @ + 1, !.kind = 1]
            ELSE op' = NextKind("release") /\ UNCHANGED S
  /\ UNCHANGED <<host, tab, home, pool, raised, regrow>>

-----------------------------------------------------------------------------
(* Everything else that allocates from the driver: the torch allocator and *)
(* the KV buffers of this process between commands, other processes any    *)
(* time.                                                                   *)
DriverMemory ==
  /\ Idle \/ others
  /\ \E f \in 0 .. Vram : f + MappedChunks <= Vram /\ free' = f
  /\ UNCHANGED <<S, mapped, memory, regrow, raised, op>>

Command ==
  \/ \E n \in SizeArgs : SetS(n)
  \/ \E r \in FillArgs : Fill(r)
  \/ \E w \in FreeArgs : Free(w)
  \/ Regrow

Step ==
  \/ FillHead \/ FreeHead \/ LayersDone \/ StartResize
  \/ Ensure \/ Rollback \/ Gather \/ Take \/ Release

Next == (Command \/ Step \/ DriverMemory) /\ UNCHANGED others

Spec == Init /\ [][Next]_vars

(* A running command is plain Python code: it goes on until it ends.       *)
FairSpec == Spec /\ WF_vars(Step /\ UNCHANGED others)

-----------------------------------------------------------------------------
(* Rows of layer l whose table entries point into the arenas: S, except    *)
(* between the table rewrite of a shrink and the update of S.              *)
Resident(l) == IF op.pc = "release" /\ op.lid = l THEN op.to ELSE S[l]

Ops == [cmd : {"idle", "S", "fill", "free"},
        pc : {"idle", "head", "layer", "ensure", "rollback", "gather", "take", "release"},
        arg : Nat, goal : 0 .. NumRows, lid : 0 .. NumLayers,
        to : 0 .. NumRows, kind : Kinds]

TypeOK ==
  /\ S \in [Layers -> 0 .. NumRows]
  /\ mapped \in [Kinds -> [Layers -> Nat]]
  /\ arena \in [Kinds -> [Rows -> Rows \cup {Junk}]]
  /\ host \in [Kinds -> [AllSlots -> Rows \cup {Junk}]]
  /\ tab \in [Kinds -> [Rows -> Addresses]]
  /\ home \in [Kinds -> [Rows -> AllSlots \cup {NoSlot}]]
  /\ pool \in [Kinds -> SUBSET AllSlots]
  /\ free \in Nat
  /\ regrow \in BOOLEAN
  /\ raised \in {"none", "ArenaOOM", "exhausted"}
  /\ op \in Ops
  /\ others \in OtherProcesses

(* Values never change, only where they live: in every state, also in the  *)
(* middle of a resize, the table leads each row's reader to that row's own *)
(* content in mapped memory (resize_layer, the order of copy, table        *)
(* rewrite and unmap).                                                     *)
ReadsOwnRow ==
  \A k \in Kinds, row \in Rows : Deref(k, tab[k][row]) = row

(* Host memory is conserved: each host slot of a kind is either free in    *)
(* the pool or the home of exactly one row that is off the GPU; a slot is  *)
(* never lost and never handed out twice, across failed grows and shrinks. *)
SlotPartition ==
  \A k \in Kinds :
    /\ pool[k] \cup {home[k][row] : row \in {x \in Rows : home[k][x] # NoSlot}} = Slots(k)
    /\ \A a, b \in Rows : home[k][a] = home[k][b] /\ a # b => home[k][a] = NoSlot
    /\ \A row \in Rows : /\ home[k][row] \notin pool[k]
                         /\ home[k][row] = NoSlot <=> row[2] < Resident(row[1])

(* While serving, no shrink ever finds the slot pool short: s_floor keeps  *)
(* every target where the host can absorb it, although the layers differ   *)
(* in S after a failed grow and shrink one after the other.                *)
NeverExhausted == raised # "exhausted"

(* A failed grow gives back every chunk it mapped, of every kind: between  *)
(* commands the arenas hold what S rows need and not a chunk more.         *)
NoLeakedChunks ==
  Idle => \A k \in Kinds, l \in Layers : mapped[k][l] = ChunksForRows(k, S[l])

(* s_floor is computed from the current S and pools, but while serving its *)
(* value is a constant of the placement: neither unequal layers nor the    *)
(* commands move it.                                                       *)
FloorIsStable ==
  op.pc \in {"idle", "head", "layer"} =>
    s_floor = Min({s \in 0 .. NumRows : HostFits(s)})

(* free(want) ends only when the driver has want free, or when the cache   *)
(* has nothing left to give: every layer is at the floor.                  *)
FreeDelivers ==
  [][op.cmd = "free" /\ op'.cmd = "idle" =>
       free >= op.arg \/ \A l \in Layers : S[l] = s_floor]_vars

(* fill(reserve) never takes the driver's free memory below the reserve.   *)
(* It tests once per round, before growing the layers one after the other, *)
(* so this holds only while no other process allocates.                    *)
FillKeepsReserve ==
  [][~others /\ op.cmd = "fill" /\ free' < free => free' >= op.arg]_vars

(* Every command ends, whatever other processes do to the free memory: the *)
(* request that waits behind poll or lazy_ensure gets its turn.            *)
CommandsEnd == (op.cmd # "idle") ~> (op.cmd = "idle")

-----------------------------------------------------------------------------
(* The inductive invariant behind these properties.                        *)

(* Where a command may be, and that its sizes fit the host. *)
OpInv ==
  /\ op.cmd = "idle" <=> op.pc = "idle"
  /\ op.pc = "head" => op.cmd \in {"fill", "free"}
  /\ op.pc \in {"ensure", "rollback", "gather"} =>
       op.lid < NumLayers /\ S[op.lid] < op.to /\ op.cmd # "free"
  /\ op.pc \in {"take", "release"} =>
       op.lid < NumLayers /\ op.to < S[op.lid] /\ HostFits(op.to)
  /\ op.cmd = "S" \/ (op.cmd = "free" /\ op.pc # "head") => HostFits(op.goal)
  /\ \A l \in Layers : HostFits(S[l])
  /\ raised # "exhausted"

(* The rows the arena of (l, k) is sized for. *)
HeldRows(k, l) ==
  IF op.lid = l /\ (op.pc = "gather" \/ (op.pc \in {"ensure", "release"} /\ k < op.kind))
  THEN op.to ELSE S[l]

MappedInv ==
  \A k \in Kinds, l \in Layers :
    /\ mapped[k][l] >= ChunksForRows(k, HeldRows(k, l))
    /\ ~(op.pc = "rollback" /\ op.lid = l /\ k >= op.kind) =>
         mapped[k][l] = ChunksForRows(k, HeldRows(k, l))

(* Table, home slot and content of a row agree. *)
RowsInv ==
  \A k \in Kinds, row \in Rows :
    LET slot == home[k][row]
    IN  IF slot = NoSlot
        THEN tab[k][row] = <<"gpu", row>> /\ arena[k][row] = row
        ELSE tab[k][row] = <<"host", slot>> /\ host[k][slot] = row

IInv == TypeOK /\ OpInv /\ MappedInv /\ RowsInv /\ SlotPartition

=============================================================================
