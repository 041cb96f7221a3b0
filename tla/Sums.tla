-------------------------------- MODULE Sums --------------------------------
(***************************************************************************)
(* The sum of an integer-valued function on 1..n, written as a recursive   *)
(* function so that it can be evaluated by TLC and reasoned about by       *)
(* TLAPS.  Stock conservation is stated with it.                           *)
(***************************************************************************)
EXTENDS Integers

SumTo(f, n) ==
  LET partial[i \in 0..n] == IF i = 0 THEN 0 ELSE partial[i - 1] + f[i]
  IN  partial[n]
=============================================================================
