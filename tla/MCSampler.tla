----------------------------- MODULE MCSampler -----------------------------
(***************************************************************************)
(* Model-checks sampleTableIndex against a reference definition: every    *)
(* state is one call of the sampler, with the stream of draws it sees and  *)
(* the number of tables, and a step is the next call.                      *)
(***************************************************************************)
EXTENDS Sampler

CONSTANT MaxTables   \* largest len(b.tables) enumerated

ASSUME MaxTablesAssumption == MaxTables \in Nat \ {0}

VARIABLES draws, numTables
vars == <<draws, numTables>>

Init == draws \in Draws /\ numTables \in 1 .. MaxTables

\* The worker calls the sampler again with the next stretch of its stream.
Next == draws' \in Draws /\ numTables' \in 1 .. MaxTables

Spec == Init /\ [][Next]_vars

TypeOK == draws \in Draws /\ numTables \in 1 .. MaxTables

\* Reference: the cell of the partition of [0,1] into numTables equal
\* intervals (the last one closed) that holds the first draw inside [0,1],
\* and cell 0 when no draw of the stream is inside.
RefIndex(d, n) ==
  LET acc == {i \in 1 .. MaxSamples : d[i] # NaN /\ d[i] \in 0 .. Scale}
      first == CHOOSE i \in acc : \A j \in acc : i <= j
  IN  IF acc = {} THEN 0
      ELSE CHOOSE c \in 0 .. n - 1 :
             /\ c * Scale <= d[first] * n
             /\ d[first] * n < (c + 1) * Scale \/ c = n - 1

\* sampleTableIndex returns a valid index of b.tables for every stream,
\* including a draw of exactly 1.0, NaN draws and an exhausted attempt cap.
SamplerIndexInRange == SampleTableIndex(draws, numTables) \in 0 .. numTables - 1

\* sampleTableIndex selects the table whose slice of [0,1] holds the first
\* accepted draw, and table 0 when the attempt cap is exhausted.
SamplerMatchesReference == SampleTableIndex(draws, numTables) = RefIndex(draws, numTables)
=============================================================================
