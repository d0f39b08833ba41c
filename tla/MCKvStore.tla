----------------------------- MODULE MCKvStore -----------------------------
(***************************************************************************)
(* Both formats of the pool in one run: int8 with groups of two            *)
(* channels, int4 with groups of four, that is of two bytes.  Two heads of *)
(* two groups, two requests, three rows and the one of slot 0; four tokens *)
(* arrive.  The largest scale is 3 quanta, so that there are groups of     *)
(* every kind: zeros, a scale that rounds to 0, scales that round down and *)
(* up, codes that lie half way, and values beyond the largest scale.       *)
(***************************************************************************)
EXTENDS KvStore

Pair8 ==
  << <<0, 0>>, <<50, -63>>, <<190, -1>>, <<-191, 3>>, <<254, 381>>, <<-400, 300>> >>

Quad4 ==
  << <<0, 0, 0, 0>>, <<3, -2, 0, 1>>, <<10, -9, 1, 3>>, <<-11, 7, 5, -3>>,
     <<21, -20, 4, 8>>, <<-30, 25, 2, -1>> >>

(* The groups of a token differ from each other, from those of the other   *)
(* head and side, and from those of the token before.                      *)
Group8(n, s, h, g) == Pair8[1 + ((n + 2 * g + 3 * h + (IF s = "v" THEN 1 ELSE 0)) % 6)]
Group4(n, s, h, g) == Quad4[1 + ((n + 2 * g + 3 * h + (IF s = "v" THEN 1 ELSE 0)) % 6)]

Texts8 ==
  [n \in 1 .. 4 |-> [s \in {"k", "v"} |-> [h \in 0 .. 1 |->
     [d \in 0 .. 3 |-> Group8(n, s, h, d \div 2)[(d % 2) + 1]]]]]
Texts4 ==
  [n \in 1 .. 4 |-> [s \in {"k", "v"} |-> [h \in 0 .. 1 |->
     [d \in 0 .. 7 |-> Group4(n, s, h, d \div 4)[(d % 4) + 1]]]]]

Format(b) ==
  [bits |-> b, qMax |-> IF b = 8 THEN 127 ELSE 7, scaleMax |-> 3, one |-> 2,
   nanCode |-> IF b = 8 THEN -127 ELSE 0,
   heads |-> 2, dim |-> IF b = 8 THEN 4 ELSE 8, group |-> IF b = 8 THEN 2 ELSE 4,
   rows |-> 4, reqs |-> 2, topK |-> 3, page |-> 4, block |-> 2, maxNew |-> 2, maxPad |-> 1,
   texts |-> IF b = 8 THEN Texts8 ELSE Texts4]

TwoFormats == {Format(8), Format(4)}
=============================================================================
