-------------------------------- MODULE Sums --------------------------------
(***************************************************************************)
(* Sums over a sequence of numbers, as the loops of the program accumulate  *)
(* them: a recursive function on the indices.                               *)
(***************************************************************************)
EXTENDS Naturals, Sequences

\* Partial sums of a sequence of numbers: entry k adds up the first k.
PartialSums(s) ==
    LET sum[k \in 0..Len(s)] == IF k = 0 THEN 0 ELSE sum[k - 1] + s[k]
    IN  sum

Total(s) == PartialSums(s)[Len(s)]
=============================================================================
