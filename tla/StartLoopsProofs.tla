------------------------- MODULE StartLoopsProofs -------------------------
(***************************************************************************)
(* Proofs about the spawn loops of IcebergWeighted.Start.                  *)
(*                                                                         *)
(* The seeds handed out are strictly increasing in spawn order as long as  *)
(* the reader seeds stay below the first writer seed b.Seed + 2000 +       *)
(* threadID.  The reader of distribution distIdx gets a seed below         *)
(* b.Seed + (distIdx+1)*1000 + threadID, so this holds when there are at   *)
(* most two reader distributions: the shape the CLI builds (one reader     *)
(* distribution).  With three, MCStartLoopsMany shows a collision.         *)
(*                                                                         *)
(* The number of goroutines spawned is the sum of all Counts for every     *)
(* configuration: threadID runs through the prefix sums of b.Readers, then *)
(* on from their total through those of b.Writers (CountInv).              *)
(***************************************************************************)
EXTENDS StartLoops, FiniteSetTheorems, SumsProofs, TLAPS

\* At most two reader distributions.
ReaderGroupsBound == Len(Readers) <= 2

\* The distribution index of the reader loop, capped at the last one.
ReaderDist == IF dist <= Len(Readers) THEN dist ELSE Len(Readers)

\* Every seed handed out so far is below the seed the loops hand out next.
SeedBound ==
  \A s \in seeds :
    /\ group = 1 => s < Seed + ReaderDist * 1000 + threadID
    /\ group = 2 => s < Seed + dist * 2000 + threadID

\* The inductive invariant: the types, a finite set of seeds as large as
\* the number of goroutines spawned, and the bound.
IInv ==
  /\ group \in 1 .. 3
  /\ dist \in Nat \ {0}
  /\ i \in Nat
  /\ threadID \in Nat
  /\ seeds \subseteq Int
  /\ IsFiniteSet(seeds)
  /\ Cardinality(seeds) = threadID
  /\ SeedBound

\* The facts about the constants the seed arithmetic uses.
LEMMA ConstFacts ==
  /\ Len(Readers) \in Nat /\ Len(Writers) \in Nat
  /\ Seed \in Int
  /\ Stride[1] = 1000 /\ Stride[2] = 2000
BY StartLoopsAssumption DEF Stride

LEMMA InitIInv == Init => IInv
BY FS_EmptySet DEF Init, IInv, SeedBound

\* A spawn hands out a seed above all earlier ones and counts it.
LEMMA SpawnOneIInv ==
  ASSUME IInv, SpawnOne
  PROVE  IInv'
<1> USE ConstFacts DEF IInv
<1>1. group \in 1 .. 2 /\ (group = 1 => dist <= Len(Readers))
      /\ seeds' = seeds \cup {SeedOf(group, dist, threadID)} /\ threadID' = threadID + 1
      /\ i' = i + 1 /\ group' = group /\ dist' = dist
  BY DEF SpawnOne, Groups
<1>0. SeedOf(group, dist, threadID) \in Int
  BY <1>1 DEF SeedOf
<1>2. \A s \in seeds : s < SeedOf(group, dist, threadID)
  <2>1. CASE group = 1
    BY <1>1, <2>1 DEF SeedOf, SeedBound, ReaderDist
  <2>2. CASE group = 2
    BY <1>1, <2>2 DEF SeedOf, SeedBound
  <2>3. QED
    BY <1>1, <2>1, <2>2
<1>3. SeedOf(group, dist, threadID) \notin seeds
  BY <1>0, <1>2
<1>4. IsFiniteSet(seeds') /\ Cardinality(seeds') = threadID'
  <2>1. IsFiniteSet(seeds \cup {SeedOf(group, dist, threadID)})
        /\ Cardinality(seeds \cup {SeedOf(group, dist, threadID)}) = Cardinality(seeds) + 1
    BY <1>3, FS_AddElement
  <2>2. QED
    BY <1>1, <2>1
<1>5. SeedBound'
  <2>1. CASE group = 1
    <3>1. ReaderDist = dist /\ ReaderDist' = dist
      BY <1>1, <2>1 DEF ReaderDist
    <3>2. \A s \in seeds' : s < Seed + dist * 1000 + threadID'
      BY <1>0, <1>1, <1>2, <2>1 DEF SeedOf
    <3>3. QED
      BY <1>1, <2>1, <3>1, <3>2 DEF SeedBound
  <2>2. CASE group = 2
    BY <1>1, <1>2, <2>2 DEF SeedOf, SeedBound
  <2>3. QED
    BY <1>1, <2>1, <2>2
<1>6. group' \in 1 .. 3 /\ dist' \in Nat \ {0} /\ i' \in Nat /\ threadID' \in Nat
  BY <1>1
<1>7. seeds' \subseteq Int
  <2>1. seeds \subseteq Int
    OBVIOUS
  <2>2. seeds' = seeds \cup {SeedOf(group, dist, threadID)}
    BY <1>1
  <2>3. QED
    BY ONLY <2>1, <2>2, <1>0
<1>8. QED
  BY <1>4, <1>5, <1>6, <1>7

\* Every step of the loops keeps IInv.
LEMMA NextIInv ==
  ASSUME ReaderGroupsBound
  PROVE  IInv /\ [Next]_vars => IInv'
<1> SUFFICES ASSUME IInv, [Next]_vars PROVE IInv'
  OBVIOUS
<1> USE ConstFacts DEF IInv
<1>1. CASE SpawnOne
  BY <1>1, SpawnOneIInv
<1>2. CASE NextDist
  <2>1. group \in 1 .. 2 /\ (group = 1 => dist <= Len(Readers))
        /\ dist' = dist + 1 /\ i' = 0 /\ UNCHANGED <<group, threadID, seeds>>
    BY <1>2 DEF NextDist, Groups
  <2>2. SeedBound'
    BY <2>1 DEF SeedBound, ReaderDist
  <2>3. QED
    BY <2>1, <2>2
<1>3. CASE NextGroup
  <2>1. group \in 1 .. 2 /\ (group = 1 => dist > Len(Readers))
        /\ group' = group + 1 /\ dist' = 1 /\ UNCHANGED <<i, threadID, seeds>>
    BY <1>3 DEF NextGroup, Groups
  <2>2. SeedBound'
    BY <2>1 DEF SeedBound, ReaderDist, ReaderGroupsBound
  <2>3. QED
    BY <2>1, <2>2
<1>4. CASE Done \/ UNCHANGED vars
  <2>1. UNCHANGED <<group, dist, i, threadID, seeds>>
    BY <1>4 DEF Done, vars
  <2>2. QED
    BY <2>1 DEF SeedBound, ReaderDist
<1>5. QED
  BY <1>1, <1>2, <1>3, <1>4 DEF Next

\* With at most two reader distributions (the CLI builds one), no two
\* goroutines spawned by Start share a seed (spec 4.1 (b)), whatever the
\* counts and the base seed.
THEOREM SeedsDistinctTwoReaderGroups ==
  ASSUME ReaderGroupsBound
  PROVE  Spec => []SeedsDistinct
<1>1. IInv => SeedsDistinct
  BY DEF IInv, SeedsDistinct
<1>2. IInv /\ [Next]_vars => IInv'
  BY NextIInv
<1> QED
  BY InitIInv, <1>1, <1>2, PTL DEF Spec
-----------------------------------------------------------------------------
(* The goroutine count.                                                    *)

\* threadID when the loop over group g starts: 0 for the readers, their
\* total for the writers.
Base(g) == IF g = 1 THEN 0 ELSE Total(Readers)

\* The inductive invariant of the count: inside the loop over a group,
\* threadID is its base, plus the Counts of the distributions done, plus
\* the inner loop's i, which never passes the current Count.
CountInv ==
  /\ group \in 1 .. 3 /\ dist \in Nat \ {0} /\ i \in Nat /\ threadID \in Nat
  /\ group \in 1 .. 2 =>
       /\ dist <= Len(Groups[group]) + 1
       /\ dist <= Len(Groups[group]) => i <= Groups[group][dist]
       /\ dist > Len(Groups[group]) => i = 0
       /\ threadID = Base(group) + PrefixSums(Groups[group])[dist - 1] + i
  /\ group = 3 => threadID = Total(Readers) + Total(Writers)

\* What the proofs use of the Counts of the group the loops are in.
LEMMA GroupSums ==
  ASSUME NEW g \in 1 .. 2
  PROVE  /\ Len(Groups[g]) \in Nat
         /\ \A k \in 1 .. Len(Groups[g]) : Groups[g][k] \in Nat
         /\ PrefixSums(Groups[g]) \in [0 .. Len(Groups[g]) -> Nat]
         /\ PrefixSums(Groups[g])[0] = 0
         /\ \A k \in 1 .. Len(Groups[g]) :
              PrefixSums(Groups[g])[k] = PrefixSums(Groups[g])[k - 1] + Groups[g][k]
         /\ Total(Groups[g]) = PrefixSums(Groups[g])[Len(Groups[g])]
         /\ Base(g) \in Nat
<1>1. Groups[g] \in Seq(Nat) /\ Readers \in Seq(Nat)
  BY StartLoopsAssumption DEF Groups
<1>2. Len(Groups[g]) \in Nat /\ \A k \in 1 .. Len(Groups[g]) : Groups[g][k] \in Nat
  BY <1>1, LenProperties
<1>3. Base(g) \in Nat
  BY <1>1, TotalNat DEF Base
<1> QED
  BY <1>1, <1>2, <1>3, PrefixSumsDef DEF Total

LEMMA InitCount == Init => CountInv
<1> SUFFICES ASSUME Init PROVE CountInv
  OBVIOUS
<1>1. /\ Len(Groups[1]) \in Nat /\ PrefixSums(Groups[1])[0] = 0
      /\ \A k \in 1 .. Len(Groups[1]) : Groups[1][k] \in Nat
  BY GroupSums
<1> QED
  BY <1>1 DEF Init, CountInv, Base

\* Each step of the loops keeps the count: a spawn adds one to threadID
\* and to i; NextDist trades the finished Count in i for one more prefix;
\* NextGroup starts the writers at the readers' total.
LEMMA NextCount == CountInv /\ [Next]_vars => CountInv'
<1> SUFFICES ASSUME CountInv, [Next]_vars PROVE CountInv'
  OBVIOUS
<1> DEFINE G  == Groups[group]
           PS == PrefixSums(Groups[group])
<1> USE DEF G, PS
<1>0. group \in 1 .. 2 =>
        /\ Len(G) \in Nat
        /\ \A k \in 1 .. Len(G) : G[k] \in Nat
        /\ PS \in [0 .. Len(G) -> Nat]
        /\ PS[0] = 0
        /\ \A k \in 1 .. Len(G) : PS[k] = PS[k - 1] + G[k]
        /\ Total(G) = PS[Len(G)]
        /\ Base(group) \in Nat
  <2> SUFFICES ASSUME group \in 1 .. 2
               PROVE  /\ Len(Groups[group]) \in Nat
                      /\ \A k \in 1 .. Len(Groups[group]) : Groups[group][k] \in Nat
                      /\ PrefixSums(Groups[group]) \in [0 .. Len(Groups[group]) -> Nat]
                      /\ PrefixSums(Groups[group])[0] = 0
                      /\ \A k \in 1 .. Len(Groups[group]) :
                           PrefixSums(Groups[group])[k] =
                             PrefixSums(Groups[group])[k - 1] + Groups[group][k]
                      /\ Total(Groups[group]) =
                           PrefixSums(Groups[group])[Len(Groups[group])]
                      /\ Base(group) \in Nat
    OBVIOUS
  <2> QED
    BY GroupSums
<1>1. CASE SpawnOne
  <2>1. group \in 1 .. 2 /\ dist <= Len(G) /\ i < G[dist]
        /\ threadID' = threadID + 1 /\ i' = i + 1 /\ UNCHANGED <<group, dist>>
    BY <1>1 DEF SpawnOne
  <2>a. Len(G) \in Nat /\ Base(group) \in Nat
    BY <2>1, <1>0
  <2>b. dist \in 1 .. Len(G)
    BY <2>1, <2>a DEF CountInv
  <2>c. G[dist] \in Nat
    BY <2>1, <2>b, <1>0
  <2>d. PS[dist - 1] \in Nat
    <3>1. dist - 1 \in 0 .. Len(G) /\ PS \in [0 .. Len(G) -> Nat]
      BY <2>1, <2>a, <2>b, <1>0
    <3> QED
      BY <3>1
  <2>3. threadID = Base(group) + PS[dist - 1] + i
    BY <2>1 DEF CountInv
  <2>e. group' = group /\ dist' = dist
    BY <2>1
  <2>4. threadID' = Base(group') + PrefixSums(Groups[group'])[dist' - 1] + i'
    <3>0. i \in Nat /\ threadID' = threadID + 1 /\ i' = i + 1
      BY <2>1 DEF CountInv
    <3>1. threadID' = Base(group) + PS[dist - 1] + i'
      BY ONLY <3>0, <2>a, <2>d, <2>3
    <3> QED
      BY <3>1, <2>e
  <2>5. i' <= G[dist] /\ i' \in Nat /\ threadID' \in Nat
    <3>0. i \in Nat /\ threadID \in Nat /\ threadID' = threadID + 1 /\ i' = i + 1
          /\ i < G[dist]
      BY <2>1 DEF CountInv
    <3> QED
      BY ONLY <3>0, <2>c
  <2> QED
    BY <2>1, <2>4, <2>5 DEF CountInv
<1>2. CASE NextDist
  <2>1. group \in 1 .. 2 /\ dist <= Len(G) /\ i >= G[dist]
        /\ dist' = dist + 1 /\ i' = 0 /\ group' = group /\ threadID' = threadID
    BY <1>2 DEF NextDist
  <2>2. dist \in 1 .. Len(G) /\ Len(G) \in Nat /\ dist - 1 \in 0 .. Len(G)
    BY <2>1, <1>0 DEF CountInv
  <2>3. /\ PS[dist] = PS[dist - 1] + G[dist]
        /\ G[dist] \in Nat /\ PS[dist - 1] \in Nat /\ Base(group) \in Nat
        /\ dist + 1 <= Len(G) => G[dist + 1] \in Nat
    <3>1. /\ PS \in [0 .. Len(G) -> Nat]
          /\ \A k \in 1 .. Len(G) : G[k] \in Nat
          /\ \A k \in 1 .. Len(G) : PS[k] = PS[k - 1] + G[k]
          /\ Base(group) \in Nat
      BY <2>1, <1>0
    <3>2. dist \in 1 .. Len(G) /\ dist - 1 \in 0 .. Len(G)
          /\ (dist + 1 <= Len(G) => dist + 1 \in 1 .. Len(G))
      BY ONLY <2>2
    <3> QED
      BY ONLY <3>1, <3>2
  <2>4. i = G[dist]
    <3>1. i <= G[dist] /\ i \in Nat
      BY <2>1 DEF CountInv
    <3> QED
      BY ONLY <3>1, <2>1, <2>3
  <2>5. threadID = Base(group) + PS[dist - 1] + i
    BY <2>1 DEF CountInv
  <2>6. threadID' = Base(group') + PrefixSums(Groups[group'])[dist' - 1] + i'
    <3>1. threadID' = Base(group) + PS[dist] + 0
      BY ONLY <2>1, <2>3, <2>4, <2>5
    <3>2. dist' - 1 = dist
      BY <2>1, <2>2
    <3> QED
      BY <3>1, <3>2, <2>1
  <2>7. threadID' \in Nat
    BY ONLY <2>1, <2>3, <2>4, <2>5
  <2> QED
    BY <2>1, <2>2, <2>3, <2>6, <2>7 DEF CountInv
<1>3. CASE NextGroup
  <2>1. group \in 1 .. 2 /\ dist > Len(G)
        /\ group' = group + 1 /\ dist' = 1 /\ i' = i /\ threadID' = threadID
    BY <1>3 DEF NextGroup
  <2>2. Len(G) \in Nat /\ Total(G) = PS[Len(G)] /\ Base(group) \in Nat
    BY <2>1, <1>0
  <2>3. i = 0 /\ threadID = Base(group) + Total(G)
    <3>1. dist <= Len(G) + 1 /\ dist > Len(G) /\ dist \in Nat /\ (dist > Len(G) => i = 0)
          /\ threadID = Base(group) + PS[dist - 1] + i
      BY <2>1 DEF CountInv
    <3>2. dist - 1 = Len(G)
      BY ONLY <3>1, <2>2
    <3>3. PS[Len(G)] \in Nat
      BY <2>1, <2>2, <1>0
    <3> QED
      BY ONLY <3>1, <3>2, <3>3, <2>2
  <2>4. CASE group = 1
    <3>a. Base(group) = 0
      BY <2>4 DEF Base
    <3>b. Groups[group] = Readers
      BY <2>4, Zenon DEF Groups
    <3>c. group' = 2
      BY <2>1, <2>4
    <3>d. Base(group') = Total(Readers)
      BY <3>c DEF Base
    <3>1. Base(group) = 0 /\ Groups[group] = Readers /\ Base(group') = Total(Readers)
      BY <3>a, <3>b, <3>d
    <3>e. Total(Readers) \in Nat
      BY StartLoopsAssumption, TotalNat
    <3>2. threadID = Total(Readers)
      BY ONLY <2>3, <3>1, <3>e
    <3>3. /\ PrefixSums(Groups[2])[0] = 0 /\ Len(Groups[2]) \in Nat
          /\ \A k \in 1 .. Len(Groups[2]) : Groups[2][k] \in Nat
          /\ Base(2) \in Nat
      BY GroupSums
    <3>4. group' = 2
      BY <2>1, <2>4
    <3>5. threadID' = Base(group') + PrefixSums(Groups[group'])[dist' - 1] + i'
      BY ONLY <2>1, <2>3, <3>1, <3>2, <3>3, <3>4
    <3> QED
      BY <2>1, <2>3, <3>3, <3>4, <3>5 DEF CountInv
  <2>5. CASE group = 2
    <3>1. Base(group) = Total(Readers) /\ Groups[group] = Writers
      BY <2>5 DEF Base, Groups
    <3>2. threadID' = Total(Readers) + Total(Writers)
      BY ONLY <2>1, <2>3, <3>1
    <3> QED
      BY <2>1, <2>5, <3>2 DEF CountInv
  <2> QED
    BY <2>1, <2>4, <2>5
<1>4. CASE Done \/ UNCHANGED vars
  BY <1>4 DEF Done, vars, CountInv, Base
<1> QED
  BY <1>1, <1>2, <1>3, <1>4 DEF Next

\* Start spawns exactly as many goroutines as the Counts of b.Readers and
\* b.Writers add up to (SpawnCount), for every configuration: wg.Wait()
\* waits on all of them.
THEOREM SpawnCountSafety == Spec => []SpawnCount
<1>1. CountInv => SpawnCount
  BY DEF CountInv, SpawnCount
<1> QED
  BY InitCount, NextCount, <1>1, PTL DEF Spec
=============================================================================
