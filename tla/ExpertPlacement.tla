--------------------------- MODULE ExpertPlacement ---------------------------
(***************************************************************************)
(* The placement pass that ends the loading of the model: every layer's    *)
(* S0 hottest expert rows go to the GPU, the others stay in, or move to,   *)
(* pinned host slots.  A kind the offloader left on the host donates the   *)
(* slots of its hot rows, a kind on the GPU takes slots for its cold rows, *)
(* so the order of the layers decides whether anything has to be pinned.   *)
(* "elastic" is place_all of gemv/expert_elastic.py, "static" is           *)
(* _run_placement of patches/placement.py.                                 *)
(*                                                                         *)
(* Rows and slots are named as in ExpertElastic: <<l, r>> is the expert of *)
(* rank r of layer l, or the place it had in a host tensor, and            *)
(* <<NumLayers, i>> is the i-th pinned row.  A layer's tensors are         *)
(* registered one kind after the other and the offloader takes them until  *)
(* its budget is used up: the kinds of a layer it left on the host come    *)
(* first.                                                                  *)
(***************************************************************************)
EXTENDS Prefixes, Functions, FiniteSetsExt

CONSTANTS
  NumLayers, NumRows, NumKinds,  \* self.L, self.E, the number of NAMES
  StartSizes,                    \* the sizes S0 a start may ask for
  Budgets,                       \* pinned rows the budget may allow (pin_budget)
  Reserves,                      \* reserve_rows
  NoSlot, Junk                   \* as in ExpertElastic

Layers == 0 .. NumLayers - 1
Ranks == 0 .. NumRows - 1
Kinds == 1 .. NumKinds
Rows == Layers \X Ranks
Layouts == {[k \in Kinds |-> {l \in Layers : k <= n[l]}] : n \in [Layers -> 0 .. NumKinds]}

(* add_layer takes a larger S0 for the number of rows; a null is none of   *)
(* the things it stands for the absence of.                                *)
SizesOK ==
  /\ {NumLayers, NumRows, NumKinds} \subseteq Nat \ {0}
  /\ StartSizes \subseteq 0 .. NumRows /\ Budgets \subseteq Nat /\ Reserves \subseteq Nat
  /\ NoSlot \notin Nat \X Nat /\ NoSlot \notin {"gpu", "host"} \X (Nat \X Nat)
  /\ Junk \notin Rows

VARIABLES
  mode,     \* "elastic" or "static"
  S0,       \* rows per layer and kind that go to the GPU
  onHost,   \* onHost[k]: the layers whose tensor of kind k is on the host
  budget, reserve,
  givers, takers,  \* donors and takers, or host and gpu: the layers to come
  credit,   \* host layers placed ahead of the GPU layers, times S0 or 1 (static)
  pool,     \* pool[k]: the free host slots, the last one is popped first
  pinned,   \* pinned[k]: rows pinned so far
  host,     \* host[k][slot]: what the slot holds; a slot nobody wrote to is Junk
  arena,    \* arena[k][row]: what the row's place on the GPU holds
  tab,      \* tab[k][row]: the address table
  home,     \* home[k][row]: the row's host slot (elastic)
  gathers,  \* kinds and layers whose gather kernel was launched and has not run
  pc

rigid == <<mode, S0, onHost, budget, reserve>>
memory == <<pool, pinned, host, arena, tab, home, gathers>>
vars == <<rigid, givers, takers, credit, memory, pc>>

-----------------------------------------------------------------------------
Hot(l) == {row \in Rows : row[1] = l /\ row[2] < S0}
Cold(l) == {row \in Rows : row[1] = l /\ row[2] >= S0}

(* A layer gives when it needs no slots; the static pass looks at its      *)
(* first kind only.                                                        *)
Gives(l) ==
  IF mode = "elastic" THEN \A k \in Kinds : l \in onHost[k] \/ S0 = NumRows
  ELSE l \in onHost[1]

InOrder(ls) == Select([i \in 1 .. NumLayers |-> i - 1], ls)

Init ==
  /\ mode \in {"elastic", "static"} /\ S0 \in StartSizes /\ onHost \in Layouts
  /\ budget \in (IF mode = "elastic" THEN Budgets ELSE {0})
  /\ reserve \in (IF mode = "elastic" THEN Reserves ELSE {0})
  /\ givers = InOrder({l \in Layers : Gives(l)})
  /\ takers = InOrder({l \in Layers : ~Gives(l)})
  /\ credit = 0
  /\ pool = [k \in Kinds |-> <<>>]
  /\ pinned = [k \in Kinds |-> 0]
  /\ host = [k \in Kinds |-> [slot \in onHost[k] \X Ranks |-> slot]]
  /\ arena = [k \in Kinds |-> [row \in Rows |-> Junk]]
  /\ tab = [k \in Kinds |-> [row \in Rows |-> NoSlot]]
  /\ home = [k \in Kinds |-> [row \in Rows |-> NoSlot]]
  /\ gathers = {}
  /\ pc = "next"

(* The pool is short of this many rows of kind k for layer l.              *)
Shortfall(k, l) ==
  IF l \in onHost[k] THEN 0 ELSE Max({0, NumRows - S0 - Len(pool[k])})

Used == MapThenSumSet(LAMBDA k : pinned[k], Kinds)
Needed(l) == MapThenSumSet(LAMBDA k : Shortfall(k, l), Kinds)

NewRows(k, n) == [i \in 1 .. n |-> <<NumLayers, pinned[k] + i - 1>>]

(* The pool of kind k when layer l takes from it: what it is short of is   *)
(* pinned first.                                                           *)
Filled(k, l) == pool[k] \o NewRows(k, Shortfall(k, l))

(* Where the cold rows of layer l go: those of a kind on the host stay,    *)
(* the others pop one slot after the other.                                *)
Place(k, l) ==
  [row \in Cold(l) |-> IF l \in onHost[k] THEN row
                       ELSE Filled(k, l)[Len(Filled(k, l)) - (row[2] - S0)]]

(* A kind on the host donates the slots of its hot rows.                   *)
PoolAfter(k, l) ==
  IF l \in onHost[k] THEN pool[k] \o [i \in 1 .. S0 |-> <<l, i - 1>>]
  ELSE SubSeq(Filled(k, l), 1, Len(Filled(k, l)) - (NumRows - S0))

(* The host slots once the cold rows have been copied into theirs.         *)
HostAfter(k, l) ==
  LET moved == Range(Place(k, l))
  IN  [slot \in moved \cup DOMAIN host[k] |->
         IF slot \in moved THEN AntiFunction(Place(k, l))[slot] ELSE host[k][slot]]

(* place_host and the host branch of add_layer leave the cold rows where   *)
(* they are; add_layer launches a gather of the hot rows, place_host copies *)
(* them.  A kind on the GPU is copied out of its old tensor.               *)
AddLayer(l) ==
  LET copied(k) == l \notin onHost[k] \/ mode = "static"
  IN  /\ pool' = [k \in Kinds |-> PoolAfter(k, l)]
      /\ pinned' = [k \in Kinds |-> pinned[k] + Shortfall(k, l)]
      /\ host' = [k \in Kinds |-> HostAfter(k, l)]
      /\ arena' = [k \in Kinds |-> [row \in Rows |->
           IF row \in Hot(l) /\ copied(k)
           THEN IF l \in onHost[k] THEN host[k][row] ELSE row
           ELSE arena[k][row]]]
      /\ tab' = [k \in Kinds |-> [row \in Rows |->
           IF row \in Hot(l) THEN <<"gpu", row>>
           ELSE IF row \in Cold(l) THEN <<"host", Place(k, l)[row]>>
           ELSE tab[k][row]]]
      /\ home' = [k \in Kinds |-> [row \in Rows |->
           IF mode = "elastic" /\ row \in Cold(l) THEN Place(k, l)[row] ELSE home[k][row]]]
      /\ gathers' = gathers \cup {<<k, l>> : k \in {k \in Kinds : ~copied(k)}}

(* The kernels run in the background, on what the slots hold then.         *)
Gather(k, l) ==
  /\ <<k, l>> \in gathers
  /\ arena' = [arena EXCEPT ![k] =
        [row \in Rows |-> IF row \in Hot(l) THEN host[k][row] ELSE arena[k][row]]]
  /\ gathers' = gathers \ {<<k, l>>}
  /\ UNCHANGED <<rigid, givers, takers, credit, pool, pinned, host, tab, home, pc>>

(* Fault: the torch.cuda.synchronize at the end of add_layer is left out.  *)
SynchronizeNot ==
  /\ pc = "synchronize"
  /\ pc' = "next"
  /\ UNCHANGED <<rigid, givers, takers, credit, memory>>

Synchronize ==
  /\ pc = "synchronize" /\ gathers = {}
  /\ pc' = "next"
  /\ UNCHANGED <<rigid, givers, takers, credit, memory>>

-----------------------------------------------------------------------------
(* Fault: only the pool of the first kind is looked at.                    *)
ServedFirst(l) == Shortfall(1, l) = 0

(* Every pool layer l will draw from can serve it.                         *)
Served(l) == \A k \in Kinds : Shortfall(k, l) = 0

ServedTakers == Select(takers, {l \in Layers : Served(l)})

Remove1(s, l) == Select(s, Layers \ {l})

(* place_all: the first taker that can be served, else a donor, else the   *)
(* first taker with pinned rows.                                           *)
NextInLine ==
  IF ServedTakers # <<>> THEN Head(ServedTakers)
  ELSE IF givers # <<>> THEN Head(givers) ELSE Head(takers)

(* _pin_rows raises when the budget is exceeded, and ensure_rows when the  *)
(* driver has no memory: the server does not start.                        *)
PlaceElastic ==
  /\ mode = "elastic" /\ pc = "next" /\ givers \o takers # <<>>
  /\ LET l == NextInLine
     IN  \/ /\ Used + Needed(l) <= budget
            /\ AddLayer(l)
            /\ givers' = Remove1(givers, l) /\ takers' = Remove1(takers, l)
            /\ pc' = "synchronize"
         \/ /\ pc' = "failed"
            /\ UNCHANGED <<givers, takers, memory>>
  /\ UNCHANGED <<rigid, credit>>

(* The reserve is pinned at once for every kind.                           *)
Reserve ==
  /\ mode = "elastic" /\ pc = "next" /\ givers \o takers = <<>>
  /\ IF Used + NumKinds * reserve <= budget
     THEN /\ pool' = [k \in Kinds |-> pool[k] \o NewRows(k, reserve)]
          /\ pinned' = [k \in Kinds |-> pinned[k] + reserve]
          /\ host' = [k \in Kinds |->
               [slot \in DOMAIN host[k] \cup Range(NewRows(k, reserve)) |->
                  IF slot \in DOMAIN host[k] THEN host[k][slot] ELSE Junk]]
          /\ pc' = "serving"
     ELSE pc' = "failed" /\ UNCHANGED <<pool, pinned, host>>
  /\ UNCHANGED <<rigid, givers, takers, credit, arena, tab, home, gathers>>

(* _run_placement: enough host layers ahead of every GPU layer that their  *)
(* hot rows make room for its cold ones, then whatever is left.            *)
PlaceStatic ==
  /\ mode = "static" /\ pc = "next"
  /\ LET unit == Max({S0, 1})
         ratio == Max({unit, NumRows - S0})
         host_next == givers # <<>> /\ (credit < ratio \/ takers = <<>>)
     IN  \/ /\ host_next
            /\ AddLayer(Head(givers)) /\ givers' = Tail(givers)
            /\ credit' = credit + unit /\ UNCHANGED <<takers, pc>>
         \/ /\ ~host_next /\ takers # <<>>
            /\ AddLayer(Head(takers)) /\ takers' = Tail(takers)
            /\ credit' = credit - ratio /\ UNCHANGED <<givers, pc>>
         \/ /\ givers \o takers = <<>>
            /\ pc' = "serving" /\ UNCHANGED <<givers, takers, credit, memory>>
  /\ UNCHANGED rigid

Next ==
  \/ PlaceElastic \/ PlaceStatic \/ Synchronize \/ Reserve
  \/ \E k \in Kinds, l \in Layers : Gather(k, l)

Spec == Init /\ [][Next]_vars

-----------------------------------------------------------------------------
(* Every kernel finds the expert it asks for behind the address table.     *)
Deref(k, a) == IF a[1] = "gpu" THEN arena[k][a[2]] ELSE host[k][a[2]]

TablesLead == \A k \in Kinds, row \in Rows : tab[k][row] # NoSlot /\ Deref(k, tab[k][row]) = row

(* What the elastic cache takes over when it starts to serve, with s rows  *)
(* per layer, the layout h and p pinned rows; memory of free slots counts  *)
(* as Junk there.                                                          *)
Elastic(s, h, p) == INSTANCE ExpertElastic WITH
  OnHost <- h, Pinned <- p, StartS <- s, StepRows <- 1,
  RowBytes <- [k \in Kinds |-> 1], Chunk <- 1, Vram <- NumKinds * NumLayers * NumRows,
  RegrowReserve <- 0, SizeArgs <- {}, FillArgs <- {}, FreeArgs <- {}, OtherProcesses <- {FALSE},
  S <- [l \in Layers |-> S0],
  mapped <- [k \in Kinds |-> [l \in Layers |-> S0]],
  host <- [k \in Kinds |-> [slot \in UNION {DOMAIN host[j] : j \in Kinds} |->
             IF slot \in DOMAIN host[k] \ Range(pool[k]) THEN host[k][slot] ELSE Junk]],
  pool <- [k \in Kinds |-> Range(pool[k])],
  free <- 0, regrow <- FALSE, raised <- "none",
  op <- [cmd |-> "idle", pc |-> "idle", arg |-> 0, goal |-> 0, lid |-> 0, to |-> 0, kind |-> 1],
  others <- FALSE

(* When place_all returns, the elastic cache is in one of the states it    *)
(* starts to serve from, and HostFits holds as it assumes.                 *)
TakenOver ==
  \E s \in {S0}, h \in {onHost}, p \in {pinned} :
    Elastic(s, h, p)!HostFits(s) /\ Elastic(s, h, p)!Init

(* The donated slots are enough for every kind.                            *)
Suffices ==
  \A k \in Kinds :
    (NumRows - S0) * (NumLayers - Cardinality(onHost[k])) <= S0 * Cardinality(onHost[k])

SplitLayer(l) == \E j, k \in Kinds : l \in onHost[j] \ onHost[k]

(* Once the model is placed every address leads to its expert, though the  *)
(* gathers of a layer run in the background while slots change hands; the  *)
(* elastic cache finds the state it assumes; and nothing was pinned but    *)
(* the reserve if the donated slots are enough, also when the offloader    *)
(* split layers (expert_elastic.py:169), which the static pass only        *)
(* manages when it did not.                                                *)
PlacedForServing ==
  pc = "serving" =>
    /\ TablesLead
    /\ mode = "elastic" => TakenOver
    /\ Suffices /\ (mode = "elastic" \/ \A l \in Layers : ~SplitLayer(l))
         => \A k \in Kinds : pinned[k] = reserve
=============================================================================
