--------------------------- MODULE WeightedBench ---------------------------
(***************************************************************************)
(* The weighted benchmark IcebergWeighted of pkg/bench: Prepare, Start     *)
(* with its pool of reader and writer goroutines, the start barrier        *)
(* `wait`, the cancellation context, the optional rate limiter and         *)
(* auto-terminator, the collector channel, and Cleanup.                    *)
(*                                                                         *)
(* The driver that calls Prepare, closes `wait`, cancels the context at    *)
(* the end of the run, closes the collector after Start returns and calls  *)
(* Cleanup (runBench), and the collector's draining goroutine, are code of *)
(* the repository outside src/: they are modelled from the spec.           *)
(***************************************************************************)
EXTENDS Integers, Sequences, FiniteSets, Sampler, Sums

CONSTANTS
  Readers,      \* <<Count of each reader distribution>> (b.Readers)
  Writers,      \* <<Count of each writer distribution>> (b.Writers)
  TableCounts,  \* the values len(Tree.AllTables()) can take for the config
  ChanCap,      \* buffer capacity of the collector channel
  MaxAttempts   \* bound on the requests one worker issues in a behaviour

NumReaders == Total(Readers)
NumWorkers == NumReaders + Total(Writers)

\* Goroutines are named by their threadID: readers first, then writers.
Workers == 0 .. NumWorkers - 1

ASSUME BenchAssumption ==
  /\ Readers \in Seq(Nat) /\ Writers \in Seq(Nat)
  /\ TableCounts \subseteq Nat /\ TableCounts # {}
  /\ ChanCap \in Nat \ {0}
  /\ MaxAttempts \in Nat \ {0}

\* Lifecycle of the job as driven by runBench.
Phases == {"created", "prepared", "failed", "running", "joined", "closed", "cleaned"}

\* Where a worker goroutine is: not yet spawned, blocked on <-wait, at the
\* top of its loop, at rpsLimit, inside the REST call, blocked sending the
\* Operation, or returned.
WorkerPcs == {"idle", "waiting", "top", "limit", "call", "send", "exited"}

VARIABLES
  phase,      \* lifecycle phase of the job
  tables,     \* len(b.tables)
  released,   \* `wait` has been closed
  cancelled,  \* ctx.Done() has been closed (timeout or auto-termination)
  limiter,    \* a rate limiter is configured (rpsLimit may block or fail)
  autoTerm,   \* b.AutoTermDur > 0: ctx is wrapped by the auto-terminator
  spawned,    \* threadID in Start: goroutines spawned so far
  wg,         \* counter of the sync.WaitGroup of Start
  pc,         \* pc[w]: where goroutine w is
  tbl,        \* tbl[w]: tableIdx of w's current iteration
  chan,       \* Operations buffered in the collector channel
  attempts,   \* attempts[w]: REST calls w has issued (history)
  delivered,  \* delivered[w]: Operations w has sent to the channel (history)
  late        \* late[w]: calls w issued after ctx was cancelled (history)

vars == <<phase, tables, released, cancelled, limiter, autoTerm, spawned, wg,
          pc, tbl, chan, attempts, delivered, late>>

workerVars == <<pc, tbl, attempts, delivered, late>>

Init ==
  /\ phase = "created"
  /\ tables = 0
  /\ released = FALSE
  /\ cancelled = FALSE
  /\ limiter \in BOOLEAN
  /\ autoTerm \in BOOLEAN
  /\ spawned = 0
  /\ wg = 0
  /\ pc = [w \in Workers |-> "idle"]
  /\ tbl = [w \in Workers |-> 0]
  /\ chan = 0
  /\ attempts = [w \in Workers |-> 0]
  /\ delivered = [w \in Workers |-> 0]
  /\ late = [w \in Workers |-> 0]

-----------------------------------------------------------------------------
(* Prepare, Start and Cleanup.                                             *)

\* Mutation: Prepare without the len(b.tables) == 0 check.
PrepareNoEmptyCheck ==
  /\ phase = "created"
  /\ \E n \in TableCounts, probeOK \in BOOLEAN :
       /\ tables' = n
       /\ phase' = IF probeOK THEN "prepared" ELSE "failed"
  /\ UNCHANGED <<released, cancelled, limiter, autoTerm, spawned, wg, chan, workerVars>>

\* Prepare: build the tree and list its tables; fail when there are none;
\* probe the catalog with GetTable on the first table and fail on error.
Prepare ==
  /\ phase = "created"
  /\ \E n \in TableCounts, probeOK \in BOOLEAN :
       /\ tables' = n
       /\ phase' = IF n = 0 \/ ~probeOK THEN "failed" ELSE "prepared"
  /\ UNCHANGED <<released, cancelled, limiter, autoTerm, spawned, wg, chan, workerVars>>

\* runBench calls Start once Prepare has succeeded; Start wraps ctx with
\* the auto-terminator when AutoTermDur > 0 and enters its spawn loops.
StartRun ==
  /\ phase = "prepared"
  /\ phase' = "running"
  /\ UNCHANGED <<tables, released, cancelled, limiter, autoTerm, spawned, wg, chan, workerVars>>

\* Mutation: the goroutine is spawned without wg.Add(1).
SpawnNoAdd ==
  /\ phase = "running"
  /\ spawned < NumWorkers
  /\ pc' = [pc EXCEPT ![spawned] = "waiting"]
  /\ spawned' = spawned + 1
  /\ UNCHANGED <<phase, tables, released, cancelled, limiter, autoTerm, wg, chan,
                 tbl, attempts, delivered, late>>

\* One iteration of Start's loops over b.Readers then b.Writers:
\* wg.Add(1), `go runReader/runWriter(threadID, ...)`, threadID++.
Spawn ==
  /\ phase = "running"
  /\ spawned < NumWorkers
  /\ wg' = wg + 1
  /\ pc' = [pc EXCEPT ![spawned] = "waiting"]
  /\ spawned' = spawned + 1
  /\ UNCHANGED <<phase, tables, released, cancelled, limiter, autoTerm, chan,
                 tbl, attempts, delivered, late>>

\* Mutation: Start returns without waiting on the WaitGroup.
StartReturnNoWait ==
  /\ phase = "running"
  /\ spawned = NumWorkers
  /\ phase' = "joined"
  /\ UNCHANGED <<tables, released, cancelled, limiter, autoTerm, spawned, wg, chan, workerVars>>

\* wg.Wait() returns once every spawned goroutine has called wg.Done().
StartReturn ==
  /\ phase = "running"
  /\ spawned = NumWorkers
  /\ wg = 0
  /\ phase' = "joined"
  /\ UNCHANGED <<tables, released, cancelled, limiter, autoTerm, spawned, wg, chan, workerVars>>

\* runBench closes `wait` to start all workers at once.
Release ==
  /\ phase = "running"
  /\ ~released
  /\ released' = TRUE
  /\ UNCHANGED <<phase, tables, cancelled, limiter, autoTerm, spawned, wg, chan, workerVars>>

\* The run's duration expires, or the user interrupts: ctx is cancelled.
Timeout ==
  /\ phase = "running"
  /\ ~cancelled
  /\ cancelled' = TRUE
  /\ UNCHANGED <<phase, tables, released, limiter, autoTerm, spawned, wg, chan, workerVars>>

\* The auto-terminator decides the measurement is stable and cancels ctx.
AutoTermCancel ==
  /\ autoTerm
  /\ phase = "running"
  /\ ~cancelled
  /\ cancelled' = TRUE
  /\ UNCHANGED <<phase, tables, released, limiter, autoTerm, spawned, wg, chan, workerVars>>

\* After Start returns, runBench closes the collector.
CloseCollector ==
  /\ phase = "joined"
  /\ phase' = "closed"
  /\ UNCHANGED <<tables, released, cancelled, limiter, autoTerm, spawned, wg, chan, workerVars>>

\* Cleanup only reports status: the weighted benchmark deletes nothing.
Cleanup ==
  /\ phase = "closed"
  /\ phase' = "cleaned"
  /\ UNCHANGED <<tables, released, cancelled, limiter, autoTerm, spawned, wg, chan, workerVars>>

\* The collector's goroutine receives one Operation from the channel.
Drain ==
  /\ chan > 0
  /\ chan' = chan - 1
  /\ UNCHANGED <<phase, tables, released, cancelled, limiter, autoTerm, spawned, wg, workerVars>>

-----------------------------------------------------------------------------
(* One reader or writer goroutine w (runReader / runWriter: the two       *)
(* differ only in the REST call they issue).                               *)

\* The goroutine returns; the deferred wg.Done() runs.
Exit(w) ==
  /\ pc' = [pc EXCEPT ![w] = "exited"]
  /\ wg' = wg - 1

\* Mutation: the goroutine enters its loop without `<-wait`.
PassBarrierNoWait(w) ==
  /\ pc[w] = "waiting"
  /\ pc' = [pc EXCEPT ![w] = "top"]
  /\ UNCHANGED <<phase, tables, released, cancelled, limiter, autoTerm, spawned, wg, chan,
                 tbl, attempts, delivered, late>>

\* `<-wait`: blocked until runBench closes the barrier.
PassBarrier(w) ==
  /\ pc[w] = "waiting"
  /\ released
  /\ pc' = [pc EXCEPT ![w] = "top"]
  /\ UNCHANGED <<phase, tables, released, cancelled, limiter, autoTerm, spawned, wg, chan,
                 tbl, attempts, delivered, late>>

\* Mutation: the loop head without the `case <-done: return` select.
LoopTopNoDoneCheck(w) ==
  /\ pc[w] = "top"
  /\ attempts[w] < MaxAttempts
  /\ pc' = [pc EXCEPT ![w] = "limit"]
  /\ UNCHANGED <<phase, tables, released, cancelled, limiter, autoTerm, spawned, wg, chan,
                 tbl, attempts, delivered, late>>

\* The non-blocking select on ctx.Done() at the top of the loop.  An
\* uncancelled worker that has used up MaxAttempts waits here.
LoopTop(w) ==
  /\ pc[w] = "top"
  /\ \/ /\ cancelled
        /\ Exit(w)
     \/ /\ ~cancelled
        /\ attempts[w] < MaxAttempts
        /\ pc' = [pc EXCEPT ![w] = "limit"]
        /\ UNCHANGED wg
  /\ UNCHANGED <<phase, tables, released, cancelled, limiter, autoTerm, spawned, chan,
                 tbl, attempts, delivered, late>>

\* rpsLimit(ctx) permits the call: sampleTableIndex picks the table and the
\* REST call (GetTable or UpdateTable) is issued with op.Start stamped.
IssueCall(w) ==
  /\ \E d \in Draws : tbl' = [tbl EXCEPT ![w] = SampleTableIndex(d, tables)]
  /\ pc' = [pc EXCEPT ![w] = "call"]
  /\ attempts' = [attempts EXCEPT ![w] = @ + 1]
  /\ late' = [late EXCEPT ![w] = IF cancelled THEN @ + 1 ELSE @]

\* `if b.rpsLimit(ctx) != nil { return }`.  Without a limiter rpsLimit is
\* nil; a limiter's Wait fails once ctx is cancelled, may fail before (the
\* wait would pass the deadline) and otherwise grants the call.
RateLimit(w) ==
  /\ pc[w] = "limit"
  /\ \/ /\ ~limiter
        /\ IssueCall(w)
        /\ UNCHANGED wg
     \/ /\ limiter
        /\ ~cancelled
        /\ IssueCall(w)
        /\ UNCHANGED wg
     \/ /\ limiter
        /\ Exit(w)
        /\ UNCHANGED <<tbl, attempts, late>>
  /\ UNCHANGED <<phase, tables, released, cancelled, limiter, autoTerm, spawned, chan,
                 delivered>>

\* Mutation: a failed request is dropped instead of sent to the collector.
CallReturnsDropErr(w) ==
  /\ pc[w] = "call"
  /\ \E err \in BOOLEAN : pc' = [pc EXCEPT ![w] = IF err THEN "top" ELSE "send"]
  /\ UNCHANGED <<phase, tables, released, cancelled, limiter, autoTerm, spawned, wg, chan,
                 tbl, attempts, delivered, late>>

\* The REST call returns, with success or with any error (cancellation
\* included): op.End is stamped and op.Err set on error, and either way
\* the worker goes on to send op.
CallReturns(w) ==
  /\ pc[w] = "call"
  /\ pc' = [pc EXCEPT ![w] = "send"]
  /\ UNCHANGED <<phase, tables, released, cancelled, limiter, autoTerm, spawned, wg, chan,
                 tbl, attempts, delivered, late>>

\* Mutation: the send does not wait for room in the collector's buffer.
SendOpNoBackpressure(w) ==
  /\ pc[w] = "send"
  /\ chan' = chan + 1
  /\ delivered' = [delivered EXCEPT ![w] = @ + 1]
  /\ pc' = [pc EXCEPT ![w] = "top"]
  /\ tbl' = [tbl EXCEPT ![w] = 0]
  /\ UNCHANGED <<phase, tables, released, cancelled, limiter, autoTerm, spawned, wg,
                 attempts, late>>

\* `rcv <- op`: blocks while the channel's buffer is full.  The iteration's
\* tableIdx goes out of scope (reset to 0).
SendOp(w) ==
  /\ pc[w] = "send"
  /\ chan < ChanCap
  /\ chan' = chan + 1
  /\ delivered' = [delivered EXCEPT ![w] = @ + 1]
  /\ pc' = [pc EXCEPT ![w] = "top"]
  /\ tbl' = [tbl EXCEPT ![w] = 0]
  /\ UNCHANGED <<phase, tables, released, cancelled, limiter, autoTerm, spawned, wg,
                 attempts, late>>

Worker(w) ==
  \/ PassBarrier(w)
  \/ LoopTop(w)
  \/ RateLimit(w)
  \/ CallReturns(w)
  \/ SendOp(w)

\* The run is over: Prepare failed, or Cleanup has returned.
Finished ==
  /\ phase \in {"failed", "cleaned"}
  /\ UNCHANGED vars

Driver ==
  \/ Prepare \/ StartRun \/ Spawn \/ StartReturn \/ Release
  \/ Timeout \/ CloseCollector \/ Cleanup

Next ==
  \/ Driver
  \/ AutoTermCancel
  \/ Drain
  \/ \E w \in Workers : Worker(w)
  \/ Finished

\* Goroutines, the collector and runBench progress; the run's deadline
\* always expires.  The auto-terminator may never fire.
Fairness ==
  /\ WF_vars(Prepare) /\ WF_vars(StartRun) /\ WF_vars(Spawn)
  /\ WF_vars(StartReturn) /\ WF_vars(Release) /\ WF_vars(Timeout)
  /\ WF_vars(CloseCollector) /\ WF_vars(Cleanup)
  /\ WF_vars(Drain)
  /\ \A w \in Workers : WF_vars(Worker(w))

Spec == Init /\ [][Next]_vars

FairSpec == Spec /\ Fairness

-----------------------------------------------------------------------------

\* The type invariant, in two parts: the flags, and the counters and the
\* goroutines' state.
FlagsTypeOK ==
  /\ released \in BOOLEAN /\ cancelled \in BOOLEAN
  /\ limiter \in BOOLEAN /\ autoTerm \in BOOLEAN

StateTypeOK ==
  /\ phase \in Phases
  /\ tables \in Nat
  /\ spawned \in 0 .. NumWorkers
  /\ wg \in Int
  /\ pc \in [Workers -> WorkerPcs]
  /\ tbl \in [Workers -> Int]
  /\ chan \in 0 .. ChanCap
  /\ attempts \in [Workers -> 0 .. MaxAttempts]
  /\ delivered \in [Workers -> Nat]
  /\ late \in [Workers -> Nat]

TypeOK == FlagsTypeOK /\ StateTypeOK

\* Every table a worker looks up is an element of b.tables: the index that
\* sampleTableIndex returned is in 0 .. len(b.tables) - 1 (Prepare refused
\* an empty table list before Start spawned any worker).
IndexInRange ==
  \A w \in Workers : pc[w] \in {"call", "send"} => tbl[w] \in 0 .. tables - 1

\* No request is issued before runBench closes the start barrier `wait`.
BarrierHolds == ~released => \A w \in Workers : attempts[w] = 0

\* Exactly one Operation per request, failed requests included: every call
\* that has returned has been sent to the collector exactly once.
OpAccounting ==
  \A w \in Workers :
    attempts[w] = delivered[w] + (IF pc[w] \in {"call", "send"} THEN 1 ELSE 0)

\* Start returns, and the collector is closed, only after every worker
\* goroutine has returned: no worker can still send on the channel.
JoinBeforeClose ==
  phase \in {"joined", "closed", "cleaned"} => \A w \in Workers : pc[w] = "exited"

\* Once ctx is cancelled each worker issues at most one more request: the
\* one whose loop head it had passed already.
BoundedAfterCancel == \A w \in Workers : late[w] <= 1

\* Every run ends: Prepare fails, or Start returns, the collector is closed
\* and Cleanup runs (workers observe the cancellation, the collector drains).
RunEnds == <>(phase \in {"failed", "cleaned"})

\* The goroutines Start has spawned that have not yet returned.
Live == {w \in Workers : pc[w] \notin {"idle", "exited"}}

\* The WaitGroup counts exactly the live goroutines: wg.Add(1) comes before
\* each `go` and the deferred wg.Done() runs on every return path, so the
\* counter never goes negative (a panic) and wg.Wait() returns only when
\* no goroutine is left.
WaitGroupCountsLive == wg = Cardinality(Live)

-----------------------------------------------------------------------------
(* Refinement of the lifecycle of spec 4.6 (module BenchLifecycle).        *)

\* The lifecycle state runBench's phase stands for: closing the collector
\* happens inside the abstract Running state.
LifeState ==
  CASE phase = "created"  -> "Created"
    [] phase = "prepared" -> "Prepared"
    [] phase = "failed"   -> "Failed"
    [] phase \in {"running", "joined", "closed"} -> "Running"
    [] phase = "cleaned"  -> "Cleaned"

Life == INSTANCE BenchLifecycle
          WITH state   <- LifeState,
               joined  <- phase \in {"joined", "closed", "cleaned"},
               started <- {w \in Workers : w < spawned},
               active  <- Live

\* The job implements the lifecycle of spec 4.6: no state is skipped, Start
\* spawns each goroutine once and returns only after all of them returned,
\* and Cleanup runs only after Start has returned.
LifecycleRefined == Life!Spec

=============================================================================
