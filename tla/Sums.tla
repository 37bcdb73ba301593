------------------------------- MODULE Sums -------------------------------
(***************************************************************************)
(* The goroutine counts of IcebergWeighted.Start: its two loops run the    *)
(* threadID counter through the sums of the Counts of b.Readers, then of   *)
(* b.Writers.                                                              *)
(***************************************************************************)
EXTENDS Integers, Sequences

\* PrefixSums(s)[k]: the goroutines spawned for the first k distributions
\* of s.
PrefixSums(s) ==
  LET sum[k \in 0 .. Len(s)] == IF k = 0 THEN 0 ELSE sum[k - 1] + s[k]
  IN  sum

\* Sum of the counts of a sequence of distributions.
Total(s) == PrefixSums(s)[Len(s)]
=============================================================================
