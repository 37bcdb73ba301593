-------------------- MODULE WeightedBenchLifecycleProofs --------------------
(***************************************************************************)
(* Proofs, for every configuration, of the properties of the worker pool  *)
(* of IcebergWeighted.Start: the WaitGroup counts the live goroutines,     *)
(* Start returns only after all of them returned, one Operation per        *)
(* request, no request before the start barrier opens, at most one late    *)
(* request per worker after cancellation; and that the job implements the *)
(* lifecycle of spec 4.6 (BenchLifecycle).                                 *)
(***************************************************************************)
EXTENDS WeightedBenchProofs, FiniteSetTheorems

USE ConstFacts

\* The goroutines spawned so far are exactly the threadIDs below `spawned`,
\* the WaitGroup counts the live ones, and none is live once Start returned.
LiveInv ==
  /\ \A w \in Workers : pc[w] = "idle" <=> spawned <= w
  /\ WaitGroupCountsLive
  /\ JoinBeforeClose

\* Per-worker accounting: one Operation per returned call; before the
\* barrier opens no goroutine has passed it and none has called; a late
\* call (one issued after cancellation) is issued only from rpsLimit, where
\* no worker stands after a late call, and only once ctx is cancelled.
AccInv ==
  /\ OpAccounting
  /\ ~released => \A w \in Workers : pc[w] \in {"idle", "waiting"} /\ attempts[w] = 0
  /\ \A w \in Workers : late[w] <= 1 /\ (pc[w] = "limit" => late[w] = 0)
  /\ ~cancelled => \A w \in Workers : late[w] = 0

FullInv == IInv /\ LiveInv /\ AccInv

\* Any set of workers is finite.
LEMMA WorkersFinite ==
  ASSUME NEW S \in SUBSET Workers
  PROVE  IsFiniteSet(S)
<1>1. IsFiniteSet(Workers)
  BY FS_Interval DEF Workers
<1>2. QED
  BY <1>1, FS_Subset

\* A goroutine w moving to v leaves the set of live goroutines, or joins
\* it, according to v.
LEMMA LiveStep ==
  ASSUME NEW w \in Workers, NEW v, pc' = [pc EXCEPT ![w] = v],
         pc \in [Workers -> WorkerPcs]
  PROVE  Live' = IF v \in {"idle", "exited"} THEN Live \ {w} ELSE Live \cup {w}
BY DEF Live

\* The goroutine returning leaves the set, and the WaitGroup counts one less.
LEMMA LiveExit ==
  ASSUME NEW w \in Workers, pc' = [pc EXCEPT ![w] = "exited"],
         pc \in [Workers -> WorkerPcs], pc[w] \notin {"idle", "exited"},
         wg = Cardinality(Live), wg' = wg - 1
  PROVE  wg' = Cardinality(Live')
<1>1. Live' = Live \ {w} /\ w \in Live
  BY LiveStep DEF Live
<1>2. IsFiniteSet(Live)
  BY WorkersFinite DEF Live
<1>3. QED
  BY <1>1, <1>2, FS_RemoveElement
\* A spawn adds the new goroutine, and the WaitGroup counts one more.
LEMMA LiveSpawn ==
  ASSUME NEW w \in Workers, pc' = [pc EXCEPT ![w] = "waiting"],
         pc \in [Workers -> WorkerPcs], pc[w] = "idle",
         wg = Cardinality(Live), wg' = wg + 1
  PROVE  wg' = Cardinality(Live')
<1>1. Live' = Live \cup {w} /\ w \notin Live
  BY LiveStep DEF Live
<1>2. IsFiniteSet(Live)
  BY WorkersFinite DEF Live
<1>3. QED
  BY <1>1, <1>2, FS_AddElement

\* When Start's wg.Wait() returns every goroutine has been spawned and none
\* is live, so every one has returned.
LEMMA AllExited ==
  ASSUME pc \in [Workers -> WorkerPcs], spawned = NumWorkers, wg = 0,
         wg = Cardinality(Live),
         \A w \in Workers : pc[w] = "idle" <=> spawned <= w
  PROVE  \A w \in Workers : pc[w] = "exited"
<1>1. Live = {}
  BY WorkersFinite, FS_EmptySet DEF Live
<1>2. \A w \in Workers : pc[w] # "idle"
  BY DEF Workers
<1>3. QED
  BY <1>1, <1>2 DEF Live

\* The steps of runBench, the auto-terminator and the collector keep
\* LiveInv and AccInv.
LEMMA DriverFull ==
  ASSUME FullInv, Driver \/ AutoTermCancel \/ Drain \/ Finished \/ UNCHANGED vars
  PROVE  LiveInv' /\ AccInv'
<1> USE DEF FullInv, IInv, TypeOK, StateTypeOK, SafeInv, Started, LiveInv, AccInv,
            WaitGroupCountsLive, JoinBeforeClose, OpAccounting, workerVars
<1>1. CASE Spawn
  <2>1. spawned \in Workers /\ pc[spawned] = "idle"
    BY <1>1 DEF Spawn, Workers
  <2>2. WaitGroupCountsLive'
    BY <1>1, <2>1, LiveSpawn DEF Spawn
  <2>3. \A w \in Workers : pc'[w] = "idle" <=> spawned' <= w
    BY <1>1, <2>1 DEF Spawn, Workers
  <2>4. QED
    BY <1>1, <2>1, <2>2, <2>3 DEF Spawn
<1>2. CASE StartReturn
  <2>1. \A w \in Workers : pc[w] = "exited"
    BY <1>2, AllExited DEF StartReturn
  <2>2. QED
    BY <1>2, <2>1 DEF StartReturn, Live
<1>3. CASE Prepare
  BY <1>3 DEF Prepare, Live
<1>4. CASE StartRun
  BY <1>4 DEF StartRun, Live
<1>5. CASE Release
  BY <1>5 DEF Release, Live
<1>6. CASE Timeout
  BY <1>6 DEF Timeout, Live
<1>7. CASE CloseCollector
  BY <1>7 DEF CloseCollector, Live
<1>8. CASE Cleanup
  BY <1>8 DEF Cleanup, Live
<1>9. CASE AutoTermCancel
  BY <1>9 DEF AutoTermCancel, Live
<1>10. CASE Drain
  BY <1>10 DEF Drain, Live
<1>11. CASE Finished \/ UNCHANGED vars
  BY <1>11 DEF Finished, vars, Live
<1>12. QED
  BY <1>1, <1>2, <1>3, <1>4, <1>5, <1>6, <1>7, <1>8, <1>9, <1>10, <1>11 DEF Driver
\* The steps of a worker goroutine keep LiveInv and AccInv: a goroutine
\* that is stepping is live, so the job has not joined, and past the
\* barrier, so `wait` is closed.
LEMMA WorkerFull ==
  ASSUME FullInv, NEW w \in Workers, Worker(w)
  PROVE  LiveInv' /\ AccInv'
<1> USE DEF FullInv, IInv, TypeOK, StateTypeOK, SafeInv, LiveInv, AccInv,
            WaitGroupCountsLive, JoinBeforeClose, OpAccounting, WorkerPcs
<1>1. CASE PassBarrier(w)
  <2>1. Live' = Live
    BY <1>1 DEF PassBarrier, Live
  <2>2. QED
    BY <1>1, <2>1 DEF PassBarrier
<1>2. CASE LoopTop(w)
  <2>1. CASE pc[w] = "top" /\ cancelled /\ Exit(w)
             /\ UNCHANGED <<phase, released, cancelled, spawned, tbl, attempts, delivered, late>>
    <3>1. WaitGroupCountsLive'
      BY <2>1, LiveExit DEF Exit
    <3>2. QED
      BY <2>1, <3>1 DEF Exit
  <2>2. CASE pc[w] = "top" /\ ~cancelled /\ pc' = [pc EXCEPT ![w] = "limit"] /\ UNCHANGED wg
             /\ UNCHANGED <<phase, released, cancelled, spawned, tbl, attempts, delivered, late>>
    <3>1. Live' = Live
      BY <2>2 DEF Live
    <3>2. QED
      BY <2>2, <3>1
  <2>3. QED
    BY <1>2, <2>1, <2>2 DEF LoopTop
<1>3. CASE RateLimit(w)
  <2>1. CASE pc[w] = "limit" /\ IssueCall(w) /\ UNCHANGED wg
             /\ UNCHANGED <<phase, released, cancelled, spawned, delivered>>
    <3>1. Live' = Live
      BY <2>1 DEF IssueCall, Live
    <3>2. QED
      BY <2>1, <3>1 DEF IssueCall
  <2>2. CASE pc[w] = "limit" /\ Exit(w) /\ UNCHANGED <<tbl, attempts, late>>
             /\ UNCHANGED <<phase, released, cancelled, spawned, delivered>>
    <3>1. WaitGroupCountsLive'
      BY <2>2, LiveExit DEF Exit
    <3>2. QED
      BY <2>2, <3>1 DEF Exit
  <2>3. QED
    BY <1>3, <2>1, <2>2 DEF RateLimit
<1>4. CASE CallReturns(w)
  <2>1. Live' = Live
    BY <1>4 DEF CallReturns, Live
  <2>2. QED
    BY <1>4, <2>1 DEF CallReturns
<1>5. CASE SendOp(w)
  <2>1. Live' = Live
    BY <1>5 DEF SendOp, Live
  <2>2. QED
    BY <1>5, <2>1 DEF SendOp
<1>6. QED
  BY <1>1, <1>2, <1>3, <1>4, <1>5 DEF Worker
LEMMA InitFull == Init => FullInv
<1> SUFFICES ASSUME Init PROVE FullInv
  OBVIOUS
<1>1. Live = {}
  BY DEF Init, Live
<1>2. LiveInv
  BY <1>1, FS_EmptySet DEF Init, LiveInv, WaitGroupCountsLive, JoinBeforeClose, Workers
<1>3. AccInv
  BY DEF Init, AccInv, OpAccounting
<1>4. QED
  BY <1>2, <1>3, InitIInv DEF FullInv

LEMMA NextFull == FullInv /\ [Next]_vars => FullInv'
<1> SUFFICES ASSUME FullInv, [Next]_vars PROVE FullInv'
  OBVIOUS
<1>1. IInv'
  BY NextIInv DEF FullInv
<1>2. LiveInv' /\ AccInv'
  BY DriverFull, WorkerFull DEF Next
<1>3. QED
  BY <1>1, <1>2 DEF FullInv

\* The WaitGroup of Start counts exactly the goroutines spawned and not yet
\* returned, for every configuration: it never goes negative, and
\* wg.Wait() cannot return while a goroutine runs (WaitGroupCountsLive).
THEOREM WaitGroupSafety == Spec => []WaitGroupCountsLive
<1>1. FullInv => WaitGroupCountsLive
  BY DEF FullInv, LiveInv
<1>2. QED
  BY InitFull, NextFull, <1>1, PTL DEF Spec

\* Start returns, and runBench closes the collector, only after every
\* worker goroutine has returned (JoinBeforeClose).
THEOREM JoinSafety == Spec => []JoinBeforeClose
<1>1. FullInv => JoinBeforeClose
  BY DEF FullInv, LiveInv
<1>2. QED
  BY InitFull, NextFull, <1>1, PTL DEF Spec

\* Every returned request, failed ones included, is sent to the collector
\* exactly once (OpAccounting).
THEOREM AccountingSafety == Spec => []OpAccounting
<1>1. FullInv => OpAccounting
  BY DEF FullInv, AccInv
<1>2. QED
  BY InitFull, NextFull, <1>1, PTL DEF Spec

\* No request is issued before the start barrier `wait` is closed
\* (BarrierHolds).
THEOREM BarrierSafety == Spec => []BarrierHolds
<1>1. FullInv => BarrierHolds
  BY DEF FullInv, AccInv, BarrierHolds
<1>2. QED
  BY InitFull, NextFull, <1>1, PTL DEF Spec

\* After ctx is cancelled each worker issues at most one more request
\* (BoundedAfterCancel).
THEOREM CancelSafety == Spec => []BoundedAfterCancel
<1>1. FullInv => BoundedAfterCancel
  BY DEF FullInv, AccInv, BoundedAfterCancel
<1>2. QED
  BY InitFull, NextFull, <1>1, PTL DEF Spec

-----------------------------------------------------------------------------
(* Refinement: every behaviour of the job is one of BenchLifecycle.        *)

LEMMA InitRefines == Init => Life!Init
<1> SUFFICES ASSUME Init PROVE Life!Init
  OBVIOUS
<1>1. Live = {} /\ {w \in Workers : w < spawned} = {}
  BY DEF Init, Live, Workers
<1>2. QED
  BY <1>1 DEF Init, Life!Init, LifeState

\* The steps that leave the mapped state alone.
LEMMA StutterRefines ==
  ASSUME UNCHANGED <<phase, spawned>>, Live' = Live
  PROVE  UNCHANGED Life!avars
BY DEF Life!avars, LifeState

\* A spawn is the abstract SpawnWorker of the goroutine with that threadID.
LEMMA SpawnRefines ==
  ASSUME StateTypeOK, Spawn, NEW t \in Workers, t = spawned
  PROVE  Life!SpawnWorker(t)
<1>1. spawned' = spawned + 1 /\ pc' = [pc EXCEPT ![t] = "waiting"]
  BY DEF Spawn
<1>2. Live' = Live \cup {t}
  BY <1>1, LiveStep DEF StateTypeOK
<1>3. {w \in Workers : w < spawned'} = {w \in Workers : w < spawned} \cup {t}
  BY <1>1 DEF Workers
<1>4. t \notin {w \in Workers : w < spawned}
  BY DEF Workers
<1>5. QED
  BY <1>2, <1>3, <1>4 DEF Spawn, Life!SpawnWorker, LifeState

\* Start returning is the abstract Join: all spawned, none live.
LEMMA StartReturnRefines ==
  ASSUME StateTypeOK, WaitGroupCountsLive, StartReturn
  PROVE  Life!Join
<1>1. Live = {}
  BY WorkersFinite, FS_EmptySet DEF StartReturn, WaitGroupCountsLive, Live
<1>2. {w \in Workers : w < spawned} = Workers
  BY DEF StartReturn, Workers
<1>3. Live' = Live /\ spawned' = spawned
  BY DEF StartReturn, workerVars, Live
<1>4. LifeState = "Running" /\ LifeState' = "Running"
  BY DEF StartReturn, LifeState
<1>5. QED
  BY <1>1, <1>2, <1>3, <1>4 DEF StartReturn, Life!Join

\* A goroutine returning is the abstract ExitWorker.
LEMMA ExitRefines ==
  ASSUME StateTypeOK, NEW w \in Workers, pc[w] \in {"top", "limit"}, Exit(w),
         UNCHANGED <<phase, spawned>>
  PROVE  Life!ExitWorker(w)
<1>1. Live' = Live \ {w} /\ w \in Live
  BY LiveStep DEF Exit, StateTypeOK, Live
<1>2. QED
  BY <1>1 DEF Life!ExitWorker, LifeState
\* Every step of the job is a step of BenchLifecycle or leaves its state
\* alone.
LEMMA StepRefines == FullInv /\ [Next]_vars => [Life!Next]_(Life!avars)
<1> SUFFICES ASSUME FullInv, [Next]_vars PROVE [Life!Next]_(Life!avars)
  OBVIOUS
<1>0. StateTypeOK /\ WaitGroupCountsLive
  BY DEF FullInv, IInv, TypeOK, LiveInv
<1>1. CASE Prepare
  <2>1. Life!Prepare
    BY <1>1 DEF Prepare, workerVars, Live, Life!Prepare, LifeState
  <2>2. QED
    BY <2>1 DEF Life!Next
<1>2. CASE StartRun
  <2>1. Life!Start
    BY <1>2 DEF StartRun, workerVars, Live, Life!Start, LifeState
  <2>2. QED
    BY <2>1 DEF Life!Next
<1>3. CASE Spawn
  <2>1. spawned \in Workers
    BY <1>0, <1>3 DEF Spawn, StateTypeOK, Workers
  <2>2. PICK t \in Workers : t = spawned
    BY <2>1
  <2>3. Life!SpawnWorker(t)
    BY <1>0, <1>3, <2>2, SpawnRefines
  <2>4. QED
    BY <2>2, <2>3 DEF Life!Next
<1>4. CASE StartReturn
  BY <1>0, <1>4, StartReturnRefines DEF Life!Next
<1>5. CASE Cleanup
  <2>1. Life!Cleanup
    BY <1>5 DEF Cleanup, workerVars, Live, Life!Cleanup, LifeState
  <2>2. QED
    BY <2>1 DEF Life!Next
<1>6. CASE CloseCollector
  BY <1>6 DEF CloseCollector, workerVars, Live, Life!avars, LifeState
<1>7. CASE Release \/ Timeout \/ AutoTermCancel \/ Drain \/ Finished \/ UNCHANGED vars
  <2>1. UNCHANGED <<phase, spawned, pc>>
    BY <1>7 DEF Release, Timeout, AutoTermCancel, Drain, Finished, vars, workerVars
  <2>2. Live' = Live
    BY <2>1 DEF Live
  <2>3. QED
    BY <2>1, <2>2, StutterRefines
<1>8. ASSUME NEW w \in Workers, Worker(w) PROVE [Life!Next]_(Life!avars)
  <2>1. ASSUME pc[w] \in {"top", "limit"}, Exit(w), UNCHANGED <<phase, spawned>>
        PROVE  [Life!Next]_(Life!avars)
    <3>1. Life!ExitWorker(w)
      BY <1>0, <2>1, ExitRefines
    <3>2. QED
      BY <3>1 DEF Life!Next
  <2>2. ASSUME NEW v, pc[w] \notin {"idle", "exited"}, v \notin {"idle", "exited"},
               pc' = [pc EXCEPT ![w] = v], UNCHANGED <<phase, spawned>>
        PROVE  [Life!Next]_(Life!avars)
    <3>1. Live' = Live
      BY <1>0, <2>2 DEF Live, StateTypeOK
    <3>2. QED
      BY <2>2, <3>1, StutterRefines
  <2>3. CASE PassBarrier(w)
    BY <2>3, <2>2 DEF PassBarrier
  <2>4. CASE CallReturns(w)
    BY <2>4, <2>2 DEF CallReturns
  <2>5. CASE SendOp(w)
    BY <2>5, <2>2 DEF SendOp
  <2>6. CASE LoopTop(w)
    <3>1. CASE cancelled /\ Exit(w)
      BY <2>6, <3>1, <2>1 DEF LoopTop
    <3>2. CASE ~cancelled /\ pc' = [pc EXCEPT ![w] = "limit"]
      BY <2>6, <3>2, <2>2 DEF LoopTop
    <3>3. QED
      BY <2>6, <3>1, <3>2 DEF LoopTop
  <2>7. CASE RateLimit(w)
    <3>1. CASE limiter /\ Exit(w)
      BY <2>7, <3>1, <2>1 DEF RateLimit
    <3>2. CASE IssueCall(w)
      BY <2>7, <3>2, <2>2 DEF RateLimit, IssueCall
    <3>3. QED
      BY <2>7, <3>1, <3>2 DEF RateLimit
  <2>8. QED
    BY <1>8, <2>3, <2>4, <2>5, <2>6, <2>7 DEF Worker
<1>9. QED
  BY <1>1, <1>2, <1>3, <1>4, <1>5, <1>6, <1>7, <1>8 DEF Next, Driver

\* The job implements the lifecycle of spec 4.6 for every configuration:
\* no state is skipped, every goroutine is spawned once while Start runs,
\* Start returns only after all of them returned, and Cleanup runs only
\* after Start returned (LifecycleRefined).
THEOREM LifecycleRefinement == Spec => LifecycleRefined
<1>1. Spec => []FullInv
  BY InitFull, NextFull, PTL DEF Spec
<1>2. QED
  BY <1>1, InitRefines, StepRefines, PTL DEF Spec, LifecycleRefined, Life!Spec
=============================================================================
