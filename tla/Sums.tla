-------------------------------- MODULE Sums --------------------------------
(***************************************************************************)
(* The sum of a sequence of numbers, by the function of its partial sums.  *)
(* (The folds of the community modules are operators of operators, about   *)
(* which the provers cannot reason.)                                       *)
(***************************************************************************)
EXTENDS Integers, Sequences

Total(s) ==
    LET sum[i \in 0 .. Len(s)] == IF i = 0 THEN 0 ELSE sum[i - 1] + s[i]
    IN  sum[Len(s)]
=============================================================================
