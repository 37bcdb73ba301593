---------------------------- MODULE SumsProofs ----------------------------
(***************************************************************************)
(* What the recursive function PrefixSums computes, for every sequence of  *)
(* counts.  The induction over the sequence is done by hand: a least       *)
(* counterexample (WFMin on the naturals) contradicts the step.            *)
(***************************************************************************)
EXTENDS Sums, SequenceTheorems, WellFoundedInduction, TLAPS

\* A non-empty set of naturals has a least element.
LEMMA LeastNat ==
  ASSUME NEW S \in SUBSET Nat, S # {}
  PROVE  \E m \in S : \A k \in S : m <= k
<1>1. PICK m \in S : \A k \in S : ~(<<k, m>> \in OpToRel(<, Nat))
  BY NatLessThanWellFounded, WFMin
<1>2. \A k \in S : m <= k
  <2> SUFFICES ASSUME NEW k \in S, k < m PROVE FALSE
    OBVIOUS
  <2>1. <<k, m>> \in OpToRel(<, Nat)
    BY DEF OpToRel
  <2> QED
    BY <1>1, <2>1
<1> QED
  BY <1>2

\* The prefix sums exist as a function into Nat: every prefix 0 .. n of
\* the domain carries one, built from the one of 0 .. n - 1.
LEMMA PrefixSumsExist ==
  ASSUME NEW s \in Seq(Nat)
  PROVE  \E f \in [0 .. Len(s) -> Nat] :
           f[0] = 0 /\ \A k \in 1 .. Len(s) : f[k] = f[k - 1] + s[k]
<1> DEFINE Claim(n) == \E f \in [0 .. n -> Nat] :
                         f[0] = 0 /\ \A k \in 1 .. n : f[k] = f[k - 1] + s[k]
           Bad == {n \in 0 .. Len(s) : ~Claim(n)}
<1> USE DEF Bad
<1>0. Len(s) \in Nat /\ \A k \in 1 .. Len(s) : s[k] \in Nat
  BY LenProperties
<1>1. SUFFICES Bad = {}
  <2>1. Len(s) \in 0 .. Len(s)
    BY <1>0
  <2> QED
    BY <2>1 DEF Claim
<1>2. SUFFICES ASSUME Bad # {} PROVE FALSE
  OBVIOUS
<1>3. PICK m \in Bad : \A k \in Bad : m <= k
  <2>1. Bad \in SUBSET Nat
    BY <1>0
  <2> QED
    BY <1>2, <2>1, LeastNat
<1>4. CASE m = 0
  <2>1. [k \in 0 .. 0 |-> 0] \in [0 .. 0 -> Nat]
        /\ [k \in 0 .. 0 |-> 0][0] = 0
        /\ \A k \in 1 .. 0 : FALSE
    OBVIOUS
  <2>2. Claim(0)
    BY <2>1, Zenon DEF Claim
  <2> QED
    BY <1>3, <1>4, <2>2
<1>5. CASE m # 0
  <2>0. m \in 1 .. Len(s) /\ m - 1 \in 0 .. Len(s)
    BY <1>0, <1>3, <1>5
  <2>1. m - 1 \in 0 .. Len(s) /\ m - 1 \notin Bad /\ m \in 1 .. Len(s)
    <3>1. ~(m <= m - 1)
      BY <2>0
    <3> QED
      BY <2>0, <3>1, <1>3
  <2>2. PICK g \in [0 .. m - 1 -> Nat] :
          g[0] = 0 /\ \A k \in 1 .. m - 1 : g[k] = g[k - 1] + s[k]
    BY <2>1 DEF Claim
  <2> DEFINE f == [k \in 0 .. m |-> IF k = m THEN g[m - 1] + s[m] ELSE g[k]]
  <2> USE DEF f
  <2>3. s[m] \in Nat
    BY <1>0, <2>1
  <2>4. f \in [0 .. m -> Nat]
    BY <1>0, <2>1, <2>2, <2>3
  <2>5. f[0] = 0 /\ \A k \in 1 .. m : f[k] = f[k - 1] + s[k]
    BY <2>2, <1>5
  <2>6. Claim(m)
    BY <2>4, <2>5 DEF Claim
  <2> QED
    BY <1>3, <2>6
<1> QED
  BY <1>4, <1>5

\* PrefixSums(s) is that function: 0 for the empty prefix, and each prefix
\* the one before it plus the next count.
LEMMA PrefixSumsDef ==
  ASSUME NEW s \in Seq(Nat)
  PROVE  /\ PrefixSums(s) \in [0 .. Len(s) -> Nat]
         /\ PrefixSums(s)[0] = 0
         /\ \A k \in 1 .. Len(s) :
              PrefixSums(s)[k] = PrefixSums(s)[k - 1] + s[k]
<1> DEFINE P == PrefixSums(s)
           Eq(h) == h = [k \in 0 .. Len(s) |->
                           IF k = 0 THEN 0 ELSE h[k - 1] + s[k]]
<1> USE DEF P, Eq
<1>0. Len(s) \in Nat /\ \A k \in 1 .. Len(s) : s[k] \in Nat
  BY LenProperties
<1>1. PICK f \in [0 .. Len(s) -> Nat] :
        f[0] = 0 /\ \A k \in 1 .. Len(s) : f[k] = f[k - 1] + s[k]
  BY PrefixSumsExist
<1>2. Eq(f)
  BY <1>1
<1>3. Eq(P)
  BY <1>2 DEF PrefixSums
<1>4. DOMAIN P = 0 .. Len(s) /\ P[0] = 0
      /\ \A k \in 1 .. Len(s) : P[k] = P[k - 1] + s[k]
  <2>1. DOMAIN P = 0 .. Len(s)
    BY <1>3
  <2>2. \A k \in 0 .. Len(s) : P[k] = IF k = 0 THEN 0 ELSE P[k - 1] + s[k]
    BY <1>3
  <2> QED
    BY <1>0, <2>1, <2>2
<1>5. \A n \in 0 .. Len(s) : P[n] \in Nat
  <2> DEFINE Bad == {n \in 0 .. Len(s) : P[n] \notin Nat}
  <2> USE DEF Bad
  <2>1. SUFFICES ASSUME Bad # {} PROVE FALSE
    OBVIOUS
  <2>2. PICK m \in Bad : \A k \in Bad : m <= k
    <3>1. Bad \in SUBSET Nat
      BY <1>0
    <3> QED
      BY <2>1, <3>1, LeastNat
  <2>3. m # 0
    BY <1>4, <2>2
  <2>4. m \in 1 .. Len(s) /\ m - 1 \in 0 .. Len(s) /\ m - 1 \notin Bad
    BY <1>0, <2>2, <2>3
  <2>5. s[m] \in Nat
    BY <1>0, <2>4
  <2> QED
    BY <1>4, <2>2, <2>4, <2>5
<1> QED
  BY <1>3, <1>4, <1>5

\* The sum of a sequence of counts is a natural number.
LEMMA TotalNat ==
  ASSUME NEW s \in Seq(Nat)
  PROVE  Total(s) \in Nat
BY PrefixSumsDef DEF Total
=============================================================================
