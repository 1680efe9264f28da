-------------------------------- MODULE Sums --------------------------------
(* The sum of a sequence of numbers: what a queue of messages adds up to.     *)
EXTENDS Integers, Sequences

SumOf(w) ==
  LET sum[i \in 0..Len(w)] == IF i = 0 THEN 0 ELSE sum[i - 1] + w[i]
  IN sum[Len(w)]
=============================================================================
