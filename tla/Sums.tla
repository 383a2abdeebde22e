-------------------------------- MODULE Sums --------------------------------
(* The sum of a sequence of numbers, as a loop over it adds them up. *)
EXTENDS Integers, Sequences

\* What has been added up after the first n numbers of s.
RunningSum(s) == LET sum[n \in 0..Len(s)] == IF n = 0 THEN 0 ELSE sum[n - 1] + s[n] IN sum

SumOf(s) == RunningSum(s)[Len(s)]
=============================================================================
