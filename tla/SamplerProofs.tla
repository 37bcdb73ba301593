--------------------------- MODULE SamplerProofs ---------------------------
(***************************************************************************)
(* Proofs about sampleTableIndex: for every stream of draws and every      *)
(* table count numTables >= 1, the index is a valid index of b.tables,     *)
(* with the two facts the comparison with the reference index rests on    *)
(* (MCSamplerProofs): both find the same first accepted draw, and the     *)
(* clamped floor is the slice of [0,1] that holds it.                      *)
(***************************************************************************)
EXTENDS Sampler, WellFoundedInduction, TLAPS

USE SamplerAssumption

\* The set of draw positions that pass the acceptance test.
AcceptedAt(d) == {i \in 1 .. MaxSamples : InUnit(d[i])}

\* When some draw passes the test, there is a first one: the CHOOSE of
\* AcceptedValue is defined.
LEMMA FirstAcceptedExists ==
  ASSUME NEW d \in Draws,
         \E i \in 1 .. MaxSamples : InUnit(d[i])
  PROVE  \E i \in 1 .. MaxSamples :
           InUnit(d[i]) /\ \A j \in 1 .. i - 1 : ~InUnit(d[j])
<1> DEFINE T == AcceptedAt(d)
<1>1. T \subseteq Nat /\ T # {}
  BY DEF AcceptedAt
<1>2. PICK x \in T : \A y \in T : ~(<<y, x>> \in OpToRel(<, Nat))
  BY <1>1, NatLessThanWellFounded, WFMin
<1>3. \A j \in 1 .. x - 1 : ~InUnit(d[j])
  <2> SUFFICES ASSUME NEW j \in 1 .. x - 1, InUnit(d[j]) PROVE FALSE
    OBVIOUS
  <2>1. j \in T /\ x \in Nat
    BY <1>1 DEF AcceptedAt
  <2>2. <<j, x>> \in OpToRel(<, Nat)
    BY <2>1 DEF OpToRel
  <2>3. QED
    BY <1>2, <2>1, <2>2
<1>4. QED
  BY <1>3 DEF AcceptedAt

\* The accepted value lies in [0,1] (grid points 0 .. Scale), the fallback
\* 0 included.
LEMMA AcceptedValueInUnit ==
  ASSUME NEW d \in Draws
  PROVE  AcceptedValue(d) \in 0 .. Scale
<1>1. CASE \E i \in 1 .. MaxSamples : InUnit(d[i])
  <2> DEFINE c == CHOOSE i \in 1 .. MaxSamples :
                    InUnit(d[i]) /\ \A j \in 1 .. i - 1 : ~InUnit(d[j])
  <2>1. c \in 1 .. MaxSamples /\ InUnit(d[c])
    BY <1>1, FirstAcceptedExists
  <2>2. d[c] \in DrawValues
    BY <2>1 DEF Draws
  <2>3. d[c] \in 0 .. Scale
    BY <2>1, <2>2 DEF InUnit, DrawValues
  <2>4. QED
    BY <1>1, <2>3 DEF AcceptedValue
<1>2. CASE ~\E i \in 1 .. MaxSamples : InUnit(d[i])
  BY <1>2 DEF AcceptedValue
<1>3. QED
  BY <1>1, <1>2

\* sampleTableIndex returns an index of b.tables whatever the draws, a
\* draw of exactly 1.0 and an exhausted attempt cap included.
THEOREM SampleIndexInRange ==
  ASSUME NEW d \in Draws, NEW n \in Nat \ {0}
  PROVE  SampleTableIndex(d, n) \in 0 .. n - 1
<1>1. AcceptedValue(d) * n \in Nat
  BY AcceptedValueInUnit
<1>2. (AcceptedValue(d) * n) \div Scale \in Nat
  BY <1>1
<1>3. QED
  BY <1>2 DEF SampleTableIndex

\* The first accepted draw, as RefIndex finds it (the least accepted
\* position) and as the loop of sampleTableIndex finds it (the position
\* before which no draw was accepted), is the same draw.
LEMMA FirstAcceptedSame ==
  ASSUME NEW d \in Draws, \E i \in 1 .. MaxSamples : InUnit(d[i])
  PROVE  LET acc == {i \in 1 .. MaxSamples : d[i] # NaN /\ d[i] \in 0 .. Scale}
         IN  /\ acc = AcceptedAt(d) /\ acc # {}
             /\ (CHOOSE i \in acc : \A j \in acc : i <= j)
                = CHOOSE i \in 1 .. MaxSamples :
                    InUnit(d[i]) /\ \A j \in 1 .. i - 1 : ~InUnit(d[j])
<1> DEFINE acc == {i \in 1 .. MaxSamples : d[i] # NaN /\ d[i] \in 0 .. Scale}
           c1 == CHOOSE i \in 1 .. MaxSamples :
                   InUnit(d[i]) /\ \A j \in 1 .. i - 1 : ~InUnit(d[j])
<1>1. acc = AcceptedAt(d)
  <2>1. \A i \in 1 .. MaxSamples : d[i] \in DrawValues
    BY DEF Draws
  <2> QED
    BY <2>1 DEF AcceptedAt, InUnit, DrawValues
<1>2. c1 \in 1 .. MaxSamples /\ InUnit(d[c1])
      /\ \A j \in 1 .. c1 - 1 : ~InUnit(d[j])
  BY FirstAcceptedExists
<1>3. c1 \in acc /\ \A j \in acc : c1 <= j
  BY <1>1, <1>2 DEF AcceptedAt
<1>4. \A i \in acc : (\A j \in acc : i <= j) => i = c1
  BY <1>3
<1>5. (CHOOSE i \in acc : \A j \in acc : i <= j) = c1
  BY <1>3, <1>4
<1> QED
  BY <1>1, <1>3, <1>5

\* The clamped floor of value*numTables is the slice of [0,1] that holds
\* value, the last slice closed on the right: the arithmetic of
\* int(value * float64(numTables)) and its clamp to numTables - 1.
LEMMA ClampedFloorIsSlice ==
  ASSUME NEW v \in 0 .. Scale, NEW n \in Nat \ {0}
  PROVE  LET idx  == (v * n) \div Scale
             high == IF idx >= n THEN n - 1 ELSE idx
             r    == IF high < 0 THEN 0 ELSE high
         IN  r = CHOOSE c \in 0 .. n - 1 :
                   /\ c * Scale <= v * n
                   /\ v * n < (c + 1) * Scale \/ c = n - 1
<1> DEFINE idx  == (v * n) \div Scale
           high == IF idx >= n THEN n - 1 ELSE idx
           r    == IF high < 0 THEN 0 ELSE high
           Slice(c) == /\ c * Scale <= v * n
                       /\ v * n < (c + 1) * Scale \/ c = n - 1
<1>1. idx \in Nat /\ idx * Scale <= v * n /\ v * n < (idx + 1) * Scale
  BY SMT
<1>2. idx <= n
  <2>1. v * n <= Scale * n
    BY SMT
  <2> QED
    BY <1>1, <2>1, SMT
<1>3. r \in 0 .. n - 1 /\ Slice(r)
  <2>1. CASE idx < n
    BY <1>1, <2>1
  <2>2. CASE idx = n
    <3>1. (n - 1) * Scale <= v * n
      BY <1>1, <2>2, SMT
    <3> QED
      BY <2>2, <3>1
  <2> QED
    BY <1>1, <1>2, <2>1, <2>2
<1>4. \A c \in 0 .. n - 1 : Slice(c) => c = r
  <2> SUFFICES ASSUME NEW c \in 0 .. n - 1, Slice(c), c # r PROVE FALSE
    OBVIOUS
  <2>1. CASE c < r
    <3>1. c # n - 1 /\ (c + 1) * Scale <= r * Scale
      BY <1>3, <2>1, SMT
    <3> QED
      BY <1>3, <2>1, <3>1
  <2>2. CASE r < c
    <3>1. r # n - 1 /\ (r + 1) * Scale <= c * Scale
      BY <1>3, <2>2, SMT
    <3> QED
      BY <1>3, <2>2, <3>1
  <2> QED
    BY <1>3, <2>1, <2>2
<1> QED
  BY <1>3, <1>4
=============================================================================
