------------------------------ MODULE Prefixes ------------------------------
(***************************************************************************)
(* Sums (Python's sum over the buffers of a cache, the requests of a       *)
(* batch, the shards of a table) and selections (a list comprehension with *)
(* an if), by recursion over the prefixes of a sequence.  Written as       *)
(* recursive functions, of which the proofs can use the defining equation. *)
(***************************************************************************)
EXTENDS Integers, Sequences

(* PrefixSums(f, n)[i]: f[1] + ... + f[i], for i up to n.                  *)
PrefixSums(f, n) ==
  LET sum[i \in 0 .. n] == IF i = 0 THEN 0 ELSE sum[i - 1] + f[i]
  IN  sum

(* Selections(s, P)[i]: of the first i elements of s, those in P, in the   *)
(* order of s.                                                             *)
Selections(s, P) ==
  LET kept[i \in 0 .. Len(s)] ==
        IF i = 0 THEN <<>>
        ELSE IF s[i] \in P THEN Append(kept[i - 1], s[i]) ELSE kept[i - 1]
  IN  kept

Select(s, P) == Selections(s, P)[Len(s)]
=============================================================================
