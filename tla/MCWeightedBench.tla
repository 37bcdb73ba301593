-------------------------- MODULE MCWeightedBench --------------------------
(* Instance of WeightedBench for TLC: two reader distributions of one     *)
(* worker and one writer, an empty or a two-table catalog.                 *)
EXTENDS WeightedBench

MCReaders == <<1, 1>>
MCWriters == <<1>>
=============================================================================
