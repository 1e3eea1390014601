---------------------------- MODULE PartialSums ----------------------------
(***************************************************************************)
(* Sums of numbers that are counted one after the other.                   *)
(***************************************************************************)
EXTENDS Integers

(* f[1] + ... + f[n]                                                       *)
SumUpTo(n, f) ==
    LET upto[k \in 0..n] == IF k = 0 THEN 0 ELSE upto[k - 1] + f[k]
    IN  upto[n]
=============================================================================
