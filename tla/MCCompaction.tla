----------------------------- MODULE MCCompaction -----------------------------
(***************************************************************************)
(* A short retention: samples at five times, buckets of two.               *)
(***************************************************************************)
EXTENDS Compaction

ValueOf(n) == 2 * n - 3   \* one sample below zero
PeakOf(n)  == MaxSamples - n

\* The total is the sum.
ASSUME TotalIsTheSum ==
    \A S \in SUBSET (1..MaxSamples) : Total(S) = MapThenSumSet(Value, S)

=============================================================================
