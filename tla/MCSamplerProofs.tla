------------------------- MODULE MCSamplerProofs -------------------------
(***************************************************************************)
(* sampleTableIndex against the reference index of MCSampler: the cell of  *)
(* the partition of [0,1] into numTables equal slices that holds the first *)
(* accepted draw.  The run enumerates every stream of 3 draws on a grid of *)
(* quarters; the theorems hold for every grid, attempt cap and count.      *)
(***************************************************************************)
EXTENDS MCSampler, SamplerProofs, TLAPS

USE SamplerAssumption, MaxTablesAssumption

\* sampleTableIndex is the reference index for every stream of draws and
\* every table count: the first accepted draw's slice, or table 0 when the
\* attempt cap is exhausted.
THEOREM SampleIndexMatchesReference ==
  ASSUME NEW d \in Draws, NEW n \in Nat \ {0}
  PROVE  SampleTableIndex(d, n) = RefIndex(d, n)
<1>1. CASE \E i \in 1 .. MaxSamples : InUnit(d[i])
  <2> DEFINE acc == {i \in 1 .. MaxSamples : d[i] # NaN /\ d[i] \in 0 .. Scale}
             c1 == CHOOSE i \in 1 .. MaxSamples :
                     InUnit(d[i]) /\ \A j \in 1 .. i - 1 : ~InUnit(d[j])
  <2>1. acc # {} /\ (CHOOSE i \in acc : \A j \in acc : i <= j) = c1
    BY <1>1, FirstAcceptedSame
  <2>2. AcceptedValue(d) = d[c1]
    BY <1>1 DEF AcceptedValue
  <2>3. d[c1] \in 0 .. Scale
    BY <2>2, AcceptedValueInUnit
  <2>4. RefIndex(d, n) = CHOOSE c \in 0 .. n - 1 :
                           /\ c * Scale <= d[c1] * n
                           /\ d[c1] * n < (c + 1) * Scale \/ c = n - 1
    BY <2>1 DEF RefIndex
  <2> QED
    BY <2>2, <2>3, <2>4, ClampedFloorIsSlice DEF SampleTableIndex
<1>2. CASE ~\E i \in 1 .. MaxSamples : InUnit(d[i])
  <2>1. {i \in 1 .. MaxSamples : d[i] # NaN /\ d[i] \in 0 .. Scale} = {}
    <3>1. \A i \in 1 .. MaxSamples : d[i] \in DrawValues
      BY DEF Draws
    <3> QED
      BY <1>2, <3>1 DEF InUnit, DrawValues
  <2>2. AcceptedValue(d) = 0
    BY <1>2 DEF AcceptedValue
  <2>3. RefIndex(d, n) = 0
    BY <2>1 DEF RefIndex
  <2>4. SampleTableIndex(d, n) = 0
    <3>1. (0 * n) \div Scale = 0
      BY SMT
    <3> QED
      BY <2>2, <3>1 DEF SampleTableIndex
  <2> QED
    BY <2>3, <2>4
<1> QED
  BY <1>1, <1>2

\* Every call of the sampler in a run of MCSampler returns a valid index of
\* b.tables.
THEOREM IndexInRangeSafety == Spec => []SamplerIndexInRange
<1>1. Init => TypeOK
  BY DEF Init, TypeOK
<1>2. TypeOK /\ [Next]_vars => TypeOK'
  BY DEF TypeOK, Next, vars
<1>3. TypeOK => SamplerIndexInRange
  BY SampleIndexInRange DEF TypeOK, SamplerIndexInRange
<1> QED
  BY <1>1, <1>2, <1>3, PTL DEF Spec

\* Every call of the sampler in a run of MCSampler returns the reference
\* index.
THEOREM MatchesReferenceSafety == Spec => []SamplerMatchesReference
<1>1. Init => TypeOK
  BY DEF Init, TypeOK
<1>2. TypeOK /\ [Next]_vars => TypeOK'
  BY DEF TypeOK, Next, vars
<1>3. TypeOK => SamplerMatchesReference
  BY SampleIndexMatchesReference DEF TypeOK, SamplerMatchesReference
<1> QED
  BY <1>1, <1>2, <1>3, PTL DEF Spec
=============================================================================
