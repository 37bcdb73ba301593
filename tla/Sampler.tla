------------------------------ MODULE Sampler ------------------------------
(***************************************************************************)
(* The weighted sampler sampleTableIndex of pkg/bench (iceberg_weighted):  *)
(* rejection sampling of a normal draw against [0,1], capped at maxSamples *)
(* attempts, then the accepted value scaled to a table index and clamped.  *)
(*                                                                         *)
(* The normal stream rng.NormFloat64()*stddev + mean is abstracted to the  *)
(* sequence of values it yields: a draw is a point k/Scale of a grid that  *)
(* reaches one step beyond [0,1] on either side, or NaN, the value every   *)
(* draw takes when the variance is negative (math.Sqrt of a negative      *)
(* number), for which both comparisons of the acceptance test are false.   *)
(* The integer k stands for the real k/Scale, so value*numTables is the    *)
(* exact product k*numTables/Scale and int(...) of a non-negative value is *)
(* its floor.                                                              *)
(***************************************************************************)
EXTENDS Integers

CONSTANTS
  Scale,       \* resolution of the draw grid: draw k stands for k/Scale
  MaxSamples,  \* the attempt cap maxSamples (100000 in the code)
  NaN          \* model value: the draw of a distribution with variance < 0

ASSUME SamplerAssumption ==
  /\ Scale \in Nat \ {0}
  /\ MaxSamples \in Nat \ {0}
  /\ NaN \notin Int

\* The values a single draw can take.
DrawValues == {NaN} \cup (-1 .. Scale + 1)

\* The outcomes of one call's draw loop: the i-th draw of the stream.
Draws == [1 .. MaxSamples -> DrawValues]

\* The acceptance test `sample >= 0.0 && sample <= 1.0`; false for NaN.
InUnit(x) == x # NaN /\ 0 <= x /\ x <= Scale

\* Mutation: the loop without its break keeps the LAST accepted draw.
AcceptedValueNoBreak(draws) ==
  IF \E i \in 1 .. MaxSamples : InUnit(draws[i])
  THEN draws[CHOOSE i \in 1 .. MaxSamples :
               InUnit(draws[i]) /\ \A j \in i + 1 .. MaxSamples : ~InUnit(draws[j])]
  ELSE 0

\* `value`: the first draw that passes the test, or the zero value of the
\* float64 when all MaxSamples draws are rejected.
AcceptedValue(draws) ==
  IF \E i \in 1 .. MaxSamples : InUnit(draws[i])
  THEN draws[CHOOSE i \in 1 .. MaxSamples :
               InUnit(draws[i]) /\ \A j \in 1 .. i - 1 : ~InUnit(draws[j])]
  ELSE 0

\* Mutation: the index without the clamp to numTables - 1 (value = 1.0).
SampleTableIndexNoHighClamp(draws, numTables) ==
  LET idx == (AcceptedValue(draws) * numTables) \div Scale
  IN  IF idx < 0 THEN 0 ELSE idx

\* sampleTableIndex(rng, dist, numTables): idx := int(value * numTables),
\* then clamped to numTables - 1 from above and to 0 from below.
SampleTableIndex(draws, numTables) ==
  LET idx  == (AcceptedValue(draws) * numTables) \div Scale
      high == IF idx >= numTables THEN numTables - 1 ELSE idx
  IN  IF high < 0 THEN 0 ELSE high

=============================================================================
