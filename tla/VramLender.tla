----------------------------- MODULE VramLender -----------------------------
(***************************************************************************)
(* What the elastic expert cache promises to whoever needs VRAM, without   *)
(* its rows, layers and tables: it holds an amount of memory, never less   *)
(* than its floor; asked for an amount it gives memory back, takes none,   *)
(* and is done when that amount is free or it is down to its floor.        *)
(***************************************************************************)
EXTENDS Integers

CONSTANTS
  Vram,     \* chunks of VRAM
  MinHeld,  \* chunks the cache never gives away
  Wants,    \* amounts it is asked for
  NoWant    \* nobody asks

VARIABLES
  held,  \* chunks the cache holds
  free,  \* chunks the driver has free
  want   \* the amount asked for, NoWant otherwise

lender == <<held, free, want>>

Ask(w) == want = NoWant /\ want' = w /\ UNCHANGED <<held, free>>

Give ==
  /\ want # NoWant
  /\ \E n \in 1 .. held - MinHeld : held' = held - n /\ free' = free + n
  /\ UNCHANGED want

Done ==
  /\ want # NoWant
  /\ free >= want \/ held = MinHeld
  /\ want' = NoWant
  /\ UNCHANGED <<held, free>>

(* On its own account the cache grows and shrinks as it likes.             *)
Resize ==
  /\ want = NoWant
  /\ \E h \in MinHeld .. held + free : held' = h /\ free' = free + held - h
  /\ UNCHANGED want

(* The rest of the process and other processes allocate and release.       *)
FreeBecomes(limit) ==
  /\ free' \in 0 .. limit
  /\ UNCHANGED <<held, want>>

LenderInit ==
  /\ held \in MinHeld .. Vram
  /\ free \in 0 .. Vram - held
  /\ want = NoWant

LenderNext ==
  \/ \E w \in Wants : Ask(w)
  \/ Give \/ Done \/ Resize
  \/ FreeBecomes(Vram - held)

LenderSafe == LenderInit /\ [][LenderNext]_lender

LenderSpec == LenderSafe /\ WF_lender(Give \/ Done)

=============================================================================
