----------------------------- MODULE MCRuntime -----------------------------
(***************************************************************************)
(* place: four layers of two kinds and three rows, split by the offloader  *)
(*   in every way, at two sizes and with three pin budgets.                *)
(* ngram: four rows, the real width, over three tokens; slots that         *)
(*   translate to each other.                                              *)
(* control: three commands of a sweep on five ticks of the file times.     *)
(***************************************************************************)
EXTENDS Runtime

OneToThree == 1 .. 3
Pins == {0, 2, 4}
NoneOrOne == {0, 1}

ThreeTokens == {0, 1, 2}
TwoTokens == <<1, 2>>
Swapped == [v \in {"own", "saved"} |-> IF v = "own" THEN "saved" ELSE "own"]
=============================================================================
