-------------------------------- MODULE Sums --------------------------------
(***************************************************************************)
(* Sums and powers, as recursive functions.                                *)
(***************************************************************************)
EXTENDS Integers, Sequences

(* The sum of a sequence of numbers.                                       *)
Total(s) ==
  LET sum[k \in 0..Len(s)] == IF k = 0 THEN 0 ELSE sum[k - 1] + s[k]
  IN  sum[Len(s)]

(* b to the power of n.                                                    *)
Power(b, n) ==
  LET power[k \in 0..n] == IF k = 0 THEN 1 ELSE b * power[k - 1]
  IN  power[n]
=============================================================================
