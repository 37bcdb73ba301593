------------------------ MODULE WeightedBenchProofs ------------------------
(***************************************************************************)
(* Proofs of WeightedBench for every configuration: the type invariant and *)
(* IndexInRange, from an inductive invariant that records what Prepare    *)
(* and Start establish for the workers.                                    *)
(***************************************************************************)
EXTENDS WeightedBench, SamplerProofs, SumsProofs, TLAPS

\* The facts about the constants the proofs use (without the Seq(Nat)
\* conjuncts, which slow the provers down).
LEMMA ConstFacts ==
  /\ Scale \in Nat \ {0} /\ MaxSamples \in Nat \ {0}
  /\ TableCounts \subseteq Nat
  /\ ChanCap \in Nat \ {0} /\ MaxAttempts \in Nat \ {0}
  /\ NumWorkers \in Nat
<1>1. Total(Readers) \in Nat /\ Total(Writers) \in Nat
  BY BenchAssumption, TotalNat
<1> QED
  BY <1>1, SamplerAssumption, BenchAssumption DEF NumWorkers, NumReaders

USE ConstFacts

\* Phases in which Prepare has succeeded.
Prepared == {"prepared", "running", "joined", "closed", "cleaned"}
\* Phases in which Start has been called.
Started == {"running", "joined", "closed", "cleaned"}

\* The inductive invariant: the type invariant, Prepare's guarantee that
\* the table list is not empty once it succeeded, that goroutines exist
\* only once Start runs, that a worker at rpsLimit is below its bound, and
\* IndexInRange.
SafeInv ==
  /\ phase \in Prepared => tables \in Nat \ {0}
  /\ \A w \in Workers : pc[w] # "idle" => phase \in Started
  /\ \A w \in Workers : pc[w] = "limit" => attempts[w] < MaxAttempts
  /\ IndexInRange

IInv == TypeOK /\ SafeInv

LEMMA InitIInv == Init => IInv
<1> SUFFICES ASSUME Init PROVE IInv
  OBVIOUS
<1>1. FlagsTypeOK
  BY DEF Init, FlagsTypeOK
<1>2. StateTypeOK /\ SafeInv
  BY DEF Init, StateTypeOK, SafeInv, IndexInRange, WorkerPcs, Phases, Prepared,
         Started, Workers
<1>3. QED
  BY <1>1, <1>2 DEF IInv, TypeOK

\* The flags only ever change from FALSE to TRUE.
LEMMA FlagsStep == FlagsTypeOK /\ [Next]_vars => FlagsTypeOK'
<1> SUFFICES ASSUME FlagsTypeOK, [Next]_vars PROVE FlagsTypeOK'
  OBVIOUS
<1>1. CASE \E w \in Workers : Worker(w)
  BY <1>1, Zenon DEF FlagsTypeOK, Worker, PassBarrier, LoopTop, RateLimit, CallReturns,
                  SendOp
<1>2. QED
  BY <1>1, Zenon DEF FlagsTypeOK, Next, Driver, Prepare, StartRun, Spawn, StartReturn,
                  Release, Timeout, CloseCollector, Cleanup, AutoTermCancel, Drain,
                  Finished, vars

\* A step of IssueCall keeps the invariant: the phase is one where Prepare
\* has found tables, so the sampled index is valid.
LEMMA IssueCallIInv ==
  ASSUME StateTypeOK, SafeInv, NEW w \in Workers, pc[w] = "limit", IssueCall(w),
         UNCHANGED <<phase, tables, spawned, chan, delivered, wg>>
  PROVE  StateTypeOK' /\ SafeInv'
<1>1. tables \in Nat \ {0}
  BY DEF SafeInv, Prepared, Started, StateTypeOK
<1>2. PICK d \in Draws : tbl' = [tbl EXCEPT ![w] = SampleTableIndex(d, tables)]
  BY DEF IssueCall
<1>3. SampleTableIndex(d, tables) \in 0 .. tables - 1
  BY <1>1, SampleIndexInRange
<1>4. attempts' \in [Workers -> 0 .. MaxAttempts]
  BY DEF StateTypeOK, SafeInv, IssueCall, Workers
<1>5. late' \in [Workers -> Nat] /\ pc' \in [Workers -> WorkerPcs]
  BY DEF StateTypeOK, IssueCall, WorkerPcs, Workers
<1>6. tbl' \in [Workers -> Int]
  BY <1>2, <1>3 DEF StateTypeOK, Workers
<1>7. StateTypeOK'
  BY <1>4, <1>5, <1>6 DEF StateTypeOK
<1>8. SafeInv'
  BY <1>2, <1>3 DEF StateTypeOK, SafeInv, IssueCall, IndexInRange, Workers
<1>9. QED
  BY <1>7, <1>8

LEMMA NextIInv == IInv /\ [Next]_vars => IInv'
<1> SUFFICES ASSUME IInv, [Next]_vars PROVE IInv'
  OBVIOUS
<1>0. FlagsTypeOK'
  BY FlagsStep DEF IInv, TypeOK
<1> SUFFICES StateTypeOK' /\ SafeInv'
  BY <1>0 DEF IInv, TypeOK
<1> USE DEF IInv, TypeOK, StateTypeOK, SafeInv, IndexInRange, WorkerPcs, Phases, Prepared, Started,
            Workers, workerVars
<1>1. CASE Prepare
  BY <1>1 DEF Prepare
<1>2. CASE StartRun
  BY <1>2 DEF StartRun
<1>3. CASE Spawn
  BY <1>3 DEF Spawn
<1>4. CASE StartReturn
  BY <1>4 DEF StartReturn
<1>5. CASE Release
  BY <1>5 DEF Release
<1>6. CASE Timeout
  BY <1>6 DEF Timeout
<1>7. CASE CloseCollector
  BY <1>7 DEF CloseCollector
<1>8. CASE Cleanup
  BY <1>8 DEF Cleanup
<1>9. CASE AutoTermCancel
  BY <1>9 DEF AutoTermCancel
<1>10. CASE Drain
  BY <1>10 DEF Drain
<1>11. ASSUME NEW w \in Workers, Worker(w) PROVE StateTypeOK' /\ SafeInv'
  <2>1. CASE PassBarrier(w)
    BY <2>1 DEF PassBarrier
  <2>2. CASE LoopTop(w)
    <3>1. CASE pc[w] = "top" /\ cancelled /\ Exit(w)
               /\ UNCHANGED <<phase, tables, spawned, chan, tbl, attempts, delivered, late>>
      BY <3>1 DEF Exit
    <3>2. CASE pc[w] = "top" /\ attempts[w] < MaxAttempts
               /\ pc' = [pc EXCEPT ![w] = "limit"] /\ UNCHANGED wg
               /\ UNCHANGED <<phase, tables, spawned, chan, tbl, attempts, delivered, late>>
      BY <3>2
    <3>3. QED
      BY <2>2, <3>1, <3>2 DEF LoopTop
  <2>3. CASE RateLimit(w)
    <3>1. CASE pc[w] = "limit" /\ IssueCall(w) /\ UNCHANGED wg
              /\ UNCHANGED <<phase, tables, spawned, chan, delivered>>
      BY <3>1, IssueCallIInv
    <3>2. CASE pc[w] = "limit" /\ Exit(w) /\ UNCHANGED <<tbl, attempts, late>>
              /\ UNCHANGED <<phase, tables, spawned, chan, delivered>>
      BY <3>2 DEF Exit
    <3>3. QED
      BY <2>3, <3>1, <3>2 DEF RateLimit
  <2>4. CASE CallReturns(w)
    BY <2>4 DEF CallReturns
  <2>5. CASE SendOp(w)
    BY <2>5 DEF SendOp
  <2>6. QED
    BY <1>11, <2>1, <2>2, <2>3, <2>4, <2>5 DEF Worker
<1>12. CASE Finished
  BY <1>12 DEF Finished, vars
<1>13. CASE UNCHANGED vars
  BY <1>13 DEF vars
<1>14. QED
  BY <1>1, <1>2, <1>3, <1>4, <1>5, <1>6, <1>7, <1>8, <1>9, <1>10, <1>11,
     <1>12, <1>13 DEF Next, Driver

\* The type invariant holds in every reachable state of every configuration.
THEOREM TypeCorrect == Spec => []TypeOK
<1>1. IInv => TypeOK
  BY DEF IInv
<1>2. QED
  BY InitIInv, NextIInv, <1>1, PTL DEF Spec

\* Every table a worker looks up is an element of b.tables, for every
\* configuration, table count and stream of draws (IndexInRange).
THEOREM IndexSafety == Spec => []IndexInRange
<1>1. IInv => IndexInRange
  BY DEF IInv, SafeInv
<1>2. QED
  BY InitIInv, NextIInv, <1>1, PTL DEF Spec
=============================================================================
