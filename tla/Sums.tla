-------------------------------- MODULE Sums --------------------------------
(***************************************************************************)
(* Array.reduce() with a sum, as the code uses it: the running sums of a   *)
(* sequence of numbers, by a recursive function, and the last of them.     *)
(***************************************************************************)
EXTENDS Integers, Sequences

Partial(s) == LET sum[i \in 0..Len(s)] == IF i = 0 THEN 0 ELSE sum[i - 1] + s[i]
              IN  sum

Total(s) == Partial(s)[Len(s)]
=============================================================================
