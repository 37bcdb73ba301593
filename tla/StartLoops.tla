---------------------------- MODULE StartLoops ----------------------------
(***************************************************************************)
(* The two spawn loops of IcebergWeighted.Start in detail: for every       *)
(* reader distribution, then every writer distribution, Count goroutines   *)
(* are spawned, each with the next threadID and a seed for its private     *)
(* rand.Source derived from the base seed, the distribution's index and    *)
(* the threadID.  The goroutines themselves are modelled in WeightedBench. *)
(*                                                                         *)
(* Seeds are unbounded integers here: Go's int64 addition wraps, which     *)
(* keeps two seeds distinct exactly when the integers are, as every offset *)
(* is far below 2^63.                                                      *)
(***************************************************************************)
EXTENDS Integers, Sequences, FiniteSets, Sums

CONSTANTS
  Readers,  \* <<Count of each reader distribution>> (b.Readers)
  Writers,  \* <<Count of each writer distribution>> (b.Writers)
  Seed      \* b.Seed

ASSUME StartLoopsAssumption ==
  /\ Readers \in Seq(Nat) /\ Writers \in Seq(Nat)
  /\ Seed \in Int

\* The two loops and the stride of their seeds: (distIdx+1)*1000 for
\* readers, (distIdx+1)*2000 for writers.
Groups == <<Readers, Writers>>
Stride == <<1000, 2000>>

VARIABLES
  group,     \* 1: loop over b.Readers, 2: loop over b.Writers, 3: done
  dist,      \* distIdx + 1: the distribution the inner loop is at
  i,         \* the inner loop's counter
  threadID,  \* the threadID counter shared by both loops
  seeds      \* the seeds handed to the goroutines spawned so far

vars == <<group, dist, i, threadID, seeds>>

Init ==
  /\ group = 1
  /\ dist = 1
  /\ i = 0
  /\ threadID = 0
  /\ seeds = {}

\* Mutation: the seed offset by the inner loop's i instead of threadID.
SeedOfLoopIndex(g, d, t) == Seed + d * Stride[g] + i

\* seed := b.Seed + int64((distIdx+1)*stride) + int64(threadID)
SeedOf(g, d, t) == Seed + d * Stride[g] + t

\* Mutation: the inner loop runs while i <= dist.Count.
SpawnOneOffByOne ==
  /\ group \in 1 .. 2
  /\ dist <= Len(Groups[group])
  /\ i <= Groups[group][dist]
  /\ seeds' = seeds \cup {SeedOf(group, dist, threadID)}
  /\ threadID' = threadID + 1
  /\ i' = i + 1
  /\ UNCHANGED <<group, dist>>

\* wg.Add(1); go run...(threadID, dist, seed); threadID++; i++
SpawnOne ==
  /\ group \in 1 .. 2
  /\ dist <= Len(Groups[group])
  /\ i < Groups[group][dist]
  /\ seeds' = seeds \cup {SeedOf(group, dist, threadID)}
  /\ threadID' = threadID + 1
  /\ i' = i + 1
  /\ UNCHANGED <<group, dist>>

\* The inner loop is done with this distribution: go to the next one.
NextDist ==
  /\ group \in 1 .. 2
  /\ dist <= Len(Groups[group])
  /\ i >= Groups[group][dist]
  /\ dist' = dist + 1
  /\ i' = 0
  /\ UNCHANGED <<group, threadID, seeds>>

\* The outer loop has run over all distributions of this group.
NextGroup ==
  /\ group \in 1 .. 2
  /\ dist > Len(Groups[group])
  /\ group' = group + 1
  /\ dist' = 1
  /\ UNCHANGED <<i, threadID, seeds>>

\* Both loops are done; Start goes on to wg.Wait().
Done ==
  /\ group = 3
  /\ UNCHANGED vars

Next == SpawnOne \/ NextDist \/ NextGroup \/ Done

Spec == Init /\ [][Next]_vars

TypeOK ==
  /\ group \in 1 .. 3
  /\ dist \in Nat \ {0}
  /\ i \in Nat
  /\ threadID \in Nat
  /\ seeds \subseteq Int

\* No two goroutines of one run share a seed: their random streams, and so
\* their sequences of sampled tables, are independent (spec 4.1 (b)).
SeedsDistinct == Cardinality(seeds) = threadID

\* Start spawns exactly the configured number of goroutines: the sum of the
\* Counts of all reader and writer distributions.
SpawnCount == group = 3 => threadID = Total(Readers) + Total(Writers)
=============================================================================
