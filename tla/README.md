# TLA+ models of the weighted Iceberg benchmark

This directory holds a verification development for the weighted benchmark
`IcebergWeighted` of `pkg/bench` (`src/unnamed/part_000`) and the command-line
entry points of the iceberg benchmarks (`src/cli/iceberg_weighted.go`,
`src/cli/iceberg_commits.go`, `src/unnamed/part_001` for `iceberg-mixed` and
`src/unnamed/part_002` for `iceberg-read`). It contains TLA+ modules, TLC
configurations, and TLAPS proofs. `PROJECT.json` lists the components, runs,
mutants, the map from definitions to source lines, the findings, the hazards,
and the theorems.

## The system

A weighted run goes through these parts:

1. **CLI.** `mainIcebergWeighted` validates its flags with
   `checkIcebergWeightedSyntax`. Any failed check ends the process through
   `console.Fatal`. It then builds one reader and one writer
   `WeightedDistribution` (`Count`, `Mean`, `Variance`) and calls `runBench`.
   The other three commands follow the same shape with their own validators.
2. **runBench** is not under `src/`. It calls `Prepare`, starts `Start` with
   the start barrier `wait`, and closes `wait`. When the run's duration ends
   it cancels the context. After `Start` returns it closes the collector, then
   calls `Cleanup`.
3. **Prepare** loads the table list from the tree generator. It fails when the
   list is empty or the first table cannot be fetched.
4. **Start**
   - It wraps ctx with the auto-terminator when `AutoTermDur > 0`.
   - For every reader distribution, then every writer distribution, it spawns
     `Count` goroutines. Each spawn does `wg.Add(1)` and increments `threadID`.
   - Each goroutine gets its own seed:
     `Seed + (distIdx+1)*1000 + threadID` for readers and
     `Seed + (distIdx+1)*2000 + threadID` for writers.
   - It then waits on `wg.Wait()`.
5. **A goroutine** (`runReader` or `runWriter`) runs these steps:
   - it blocks on `<-wait`;
   - then it loops. Each iteration does a non-blocking check of `ctx.Done()`, then
     `rpsLimit`, picks a table with `sampleTableIndex`, issues one REST call,
     and sends the `Operation` (error included) on the collector channel with a
     blocking send;
   - its deferred `wg.Done()` runs when it returns.
6. **sampleTableIndex** draws from a normal distribution and keeps the first
   draw in [0,1], trying at most 100000 times and falling back to 0. It
   returns `int(v*N)` clamped to `N-1` and to `0`.

## Modules

| Module | Models | State and actions |
|---|---|---|
| `Sampler` | `sampleTableIndex` (189-211) | pure operators `AcceptedValue`, `SampleTableIndex` over a draw stream |
| `WeightedBench` | `Prepare`, `Start`, `runReader`/`runWriter`, `Cleanup`, and the runBench driver (from the spec) | see below |
| `StartLoops` | the two spawn loops of `Start` with `threadID` and the seed (65-89) | `group`, `dist`, `i`, `threadID`, `seeds`; actions `SpawnOne`, `NextDist`, `NextGroup` |
| `BenchLifecycle` | the lifecycle of spec 4.6 (abstract) | `state`, `joined`, `started`, `active`; actions `Prepare`, `Start`, `SpawnWorker`, `ExitWorker`, `Join`, `Cleanup` |
| `IcebergCLI` | `mainX` and `checkXSyntax` of the four commands, and the defaults of their flag tables | flags chosen in `Init`; one action `Main` with a Fatal branch and a build branch |
| `Sums` | the running count of goroutines in `Start` (65-87) | `PrefixSums(s)`, a recursive function, and `Total(s)`; shared by `WeightedBench` and `StartLoops` |
| `MC*` | instances for TLC | constants as definitions |
| `SamplerProofs`, `MCSamplerProofs`, `SumsProofs`, `WeightedBenchProofs`, `WeightedBenchLifecycleProofs`, `StartLoopsProofs`, `IcebergCLIProofs` | TLAPS proofs | |

### Sampler

The draw stream `rng.NormFloat64()*stddev + mean` is abstracted to what the
acceptance test and the scaling can tell apart:

- A draw is an integer `k` standing for `k/Scale`, on a grid that reaches one
  step past [0,1] on each side.
- A draw can also be the model value `NaN`. Every draw is NaN when the
  variance is negative, because `math.Sqrt` of a negative number is NaN, and
  both comparisons of the test are then false.
- `int(v*N)` of a non-negative `v = k/Scale` is `(k*N) \div Scale`.
- The attempt cap 100000 is the constant `MaxSamples`.

### WeightedBench

**Driver state:** `phase` (created, prepared, failed, running, joined, closed,
cleaned), `tables` (`len(b.tables)`), `released` (`wait` is closed), `cancelled`
(ctx is done), `limiter`, `autoTerm`, `spawned`, `wg` (the WaitGroup counter),
and `chan` (Operations buffered in the collector channel).

**State per goroutine:** `pc`, `tbl` (the sampled index), `attempts` (requests
issued), `delivered` (Operations sent) and `late` (requests issued after
cancellation).

**Driver actions:**

| Action | Code |
|---|---|
| `Prepare` | empty table list, or the probe `GetTable` fails |
| `StartRun` | the auto-term wrap |
| `Spawn` | `wg.Add` + `go` |
| `StartReturn` | `wg.Wait` returns |
| `Release`, `Timeout`, `CloseCollector` | runBench |
| `AutoTermCancel` | the auto-terminator |
| `Cleanup` | `Cleanup` |
| `Drain` | the collector's receiving goroutine |

**Goroutine actions:**

| Action | Code |
|---|---|
| `PassBarrier` | `<-wait` |
| `LoopTop` | the `select` on `done` |
| `RateLimit` | `rpsLimit`; includes `IssueCall`, which is `sampleTableIndex` followed by the REST call |
| `CallReturns` | the error, if any, recorded on the op |
| `SendOp` | `rcv <- op` |
| `Exit` | return + deferred `wg.Done()` |

The REST call's result is a nondeterministic success or error, and both go on
to the send. Readers and writers differ only in which call they make, so one
action set models both.

### BenchLifecycle and the refinement

`BenchLifecycle` states what spec 4.6 promises of a job, and nothing of how:

- the state moves Created, Prepared, Running, Cleaned, or stops in Failed;
- while Running and not yet joined, each worker is spawned once;
- a spawned worker exits once;
- `Join` (Start returning) needs every worker spawned and none active;
- `Cleanup` needs `Join` to have happened.

`WeightedBench` defines `Life == INSTANCE BenchLifecycle WITH ...` under this
mapping:

- `state`: the phases running, joined and closed are all Running, because
  closing the collector happens inside the abstract Running state;
- `joined`: the phase is joined, closed or cleaned;
- `started`: the threadIDs below `spawned`;
- `active`: `Live`, the goroutines not idle and not exited.

`LifecycleRefined == Life!Spec` is checked as a TLC property and proved.

### StartLoops

It models the loops exactly: the outer loop over the reader distributions,
then over the writer distributions, and the inner loop over `Count`. Seeds are
unbounded integers. `rand.NewSource` (lines 99/140) reduces a seed modulo
2^31-1, so two seeds that differ by a multiple of 2^31-1 give the same stream;
the offsets differ by far less than that at any realistic worker count, so
distinct seeds stand for distinct streams.

### IcebergCLI

Flag values are abstracted:

- a string flag becomes "empty or not";
- a float becomes a grid point as in `Sampler`, or the model value `NaN`:
  the flag parser accepts "NaN", and the validators' test
  `v < 0.0 || v > 1.0` (`FlagOutOfUnit`) is false for it;
- a variance becomes its sign;
- `checkAnalyze` and `checkBenchmark`, which are not in these files, become
  one Boolean.

Each command's own flags are either all given (any value of the small sets)
or all left at the `Value` of the flag table (`FlagDefaults`). Float defaults
are tenths, so `Scale` is a multiple of 10 and `Tenths(3)` stands for 0.3.
The common flags cover both the default (non-empty URI, empty keys) and every
given value.

Which `Fatal` fires is left out, because every one of them ends the process.

## Runs

| Run | Checks | Shows |
|---|---|---|
| `sampler_reference` (MCSampler.cfg) | `SamplerIndexInRange`, `SamplerMatchesReference` | For all 6^3 streams of 3 draws (grid 1/4 with NaN) and N in 1..5, the index is in range and equals a reference: the bucket of the first accepted draw, or 0. |
| `weighted_bench` (MCWeightedBench.cfg) | `TypeOK`, `IndexInRange`, `BarrierHolds`, `OpAccounting`, `JoinBeforeClose`, `BoundedAfterCancel`, `RunEnds` | 146,256 states, explained below. |
| `weighted_lifecycle` (MCWeightedBenchLifecycle.cfg) | `WaitGroupCountsLive`, `LifecycleRefined` | On the `weighted_bench` instance (under `Spec`), the WaitGroup counter equals the number of live goroutines, and every behaviour is a behaviour of `BenchLifecycle`. |
| `start_loops_cli` (MCStartLoopsCLI.cfg) | `SeedsDistinct`, `SpawnCount` | With the CLI's shape of one reader and one writer distribution, 1001 readers and 2 writers, the spawn count is exact and all seeds are distinct. |
| `start_loops_three_reader_groups` (MCStartLoopsMany.cfg) | `SeedsDistinct` (expected violation) | With reader counts <<1,1,1000>> and writers <<1>>, reader thread 2 and writer thread 1002 both get seed 3044. |
| `cli_validation` (MCIcebergCLI.cfg) | `AcceptedMeetsContractOrNaN`, `DefaultsAccepted` | Every accepted flag combination of the four commands, defaults and NaN included, gives the core the counts, worker total and tree shape it needs, and means and read ratios in [0,1] or NaN. A command given only the URI and the keys is accepted, so every default passes its own validator. |
| `cli_nan_mean` (MCIcebergCLINaN.cfg) | `AcceptedMeetsCoreContract` (expected violation) | A NaN mean (or read ratio) passes the validators and reaches the core. |
| `cli_variance` (MCIcebergCLIVariance.cfg) | `AcceptedVarianceNonNegative` (expected violation) | The weighted command passes a negative variance to the core. |

In `weighted_bench`:

- **`IndexInRange`:** every index a goroutine uses is a valid index of
  `b.tables`.
- **`BarrierHolds`:** no request is made before `wait` is closed.
- **`OpAccounting`:** every returned call, including failed ones, is sent
  exactly once.
- **`JoinBeforeClose`:** Start returns, and the collector closes, only after
  every goroutine has exited.
- **`BoundedAfterCancel`:** after cancellation each goroutine makes at most one
  more request.
- **`RunEnds`:** every run ends.

Every property of a passing run has a mutant in `PROJECT.json`. A mutant is a
plausible bug in the mapped definition, for example:

- `wg.Add` dropped;
- the `done` check dropped;
- the clamp to `N-1` dropped;
- the break in the sampler dropped;
- failed operations dropped;
- the `i` of the inner loop used in place of `threadID`;
- Start returning without `wg.Wait` (breaks `LifecycleRefined`);
- the reader-mean default written as 3.0 (breaks `DefaultsAccepted`).

TLC finds each mutant's property violated.

### Bounds, and why they are enough

**`weighted_bench`:**

- Readers <<1,1>> and Writers <<1>>: three goroutines from two reader
  distributions, so the loops cross a distribution boundary and readers
  interleave with a writer.
- `TableCounts = {0, 2}`: the empty-tree failure, and two tables so that both
  clamps matter.
- `Scale = 2`: draws -1/2, 0, 1/2, 1, 3/2 and NaN, which include the value 1.0
  that only the clamp keeps in range, plus values below and above [0,1].
- `MaxSamples = 2`: both the first and the second draw can be accepted, and the
  fallback is reachable.
- `ChanCap = 1`, so a send can block.
- `MaxAttempts = 2`: each goroutine can finish a request, start a second, and
  see cancellation between the two.

**`start_loops_cli`** uses 1001 readers so that the reader `threadID` passes
1000, the stride between distributions.

**`cli_validation`** uses counts -1, 0 and 1, and floats (in tenths) -0.1,
0, 0.3, 0.5, 0.7, 1 and 1.1, and NaN. These are both ends of [0,1], one step
past each end, the three float defaults and the one value the range test
cannot reject. It also uses variances of each sign and
tree sizes 0 and 1.

**`weighted_lifecycle`** uses the `weighted_bench` constants. It runs under
`Spec`, because a refinement of safety needs no fairness.

### Fairness

`FairSpec` puts weak fairness on these steps:

- every step of runBench;
- the collector's `Drain`;
- every goroutine's steps.

The Go scheduler runs every runnable goroutine. The collector keeps receiving
until it is closed. runBench's duration always expires, so `Timeout` is weakly
fair.

`AutoTermCancel` has no fairness, because the auto-terminator may never fire
(see the hazards). A goroutine that has used up `MaxAttempts` waits at its
loop head until cancellation. This bound stands for the run's unbounded loop.

## Proofs (TLAPS)

- **`SamplerProofs.SampleIndexInRange`:** for every draw stream, every `Scale`
  and `MaxSamples`, and every `N >= 1`, `SampleTableIndex` is in `0..N-1`.
  - Lemma `FirstAcceptedExists` shows that the first accepted draw exists,
    using well-founded induction on Nat (`WFMin`).
  - Lemma `AcceptedValueInUnit` shows that the accepted value lies in
    `0..Scale`.
- **`WeightedBenchProofs.TypeCorrect`** (`Spec => []TypeOK`) and
  **`IndexSafety`** (`Spec => []IndexInRange`), for every configuration.
  - `IndexInRange` is not inductive by itself. The inductive invariant `IInv`
    adds three facts:
    - once Prepare has succeeded, `tables >= 1`;
    - a goroutine exists only after Start began;
    - a goroutine at the limiter has attempts left.
  - With these facts, the sampler theorem applies at `IssueCall`, and the
    `attempts` bound of `TypeOK` is kept. `IInv` was also checked by TLC on
    the `weighted_bench` instance.
  - The proof has one lemma per action group: `FlagsStep` for the Booleans,
    which Zenon handles, and `IssueCallIInv` for the sampling step.
- **`WeightedBenchLifecycleProofs`**, for every configuration:
  - **`WaitGroupSafety`** (`[]WaitGroupCountsLive`);
  - **`JoinSafety`** (`[]JoinBeforeClose`);
  - **`AccountingSafety`** (`[]OpAccounting`);
  - **`BarrierSafety`** (`[]BarrierHolds`);
  - **`CancelSafety`** (`[]BoundedAfterCancel`);
  - **`LifecycleRefinement`** (`Spec => LifecycleRefined`).

  The inductive invariant `FullInv` is `IInv` plus two groups of facts.

  `LiveInv`:
  - a goroutine is idle exactly when its threadID is at least `spawned`;
  - `wg = Cardinality(Live)`;
  - `JoinBeforeClose`.

  `AccInv`:
  - `OpAccounting`;
  - before the barrier opens, every goroutine is idle or waiting and has no
    attempts;
  - `late <= 1`;
  - a worker at the limiter has no late call;
  - before cancellation, no call is late.

  Why the facts are needed:
  - `JoinBeforeClose` follows at `StartReturn` from `spawned = NumWorkers` and
    `wg = 0`. With the counting fact this gives `Live = {}` (lemma
    `AllExited`).
  - The counting fact is kept by `Spawn` (the new goroutine was idle, so it was
    not live: `FS_AddElement`) and by `Exit` (`FS_RemoveElement`).
  - `BoundedAfterCancel` needs the two facts on `late`. A goroutine reaches
    the limiter only through an uncancelled loop head, so it issues a late call
    at most once.

  `FullInv` was first checked by TLC on the `weighted_bench` instance.

  The refinement proof follows the usual layout:
  - `Init` maps to `Life!Init`;
  - under `FullInv` each step maps to a `BenchLifecycle` step or to a stutter:
    - `Spawn` maps to `SpawnWorker(spawned)`;
    - `StartReturn` maps to `Join`, using `Live = {}`;
    - `Exit` maps to `ExitWorker`;
    - `CloseCollector` and the steps of the timer, barrier, collector and
      non-exiting goroutines are stutters.
- **`StartLoopsProofs.SeedsDistinctTwoReaderGroups`:** with at most two
  reader distributions, `Spec => []SeedsDistinct`, for all counts and seeds.
  - The inductive invariant states that every seed handed out so far is below
    the next seed the loops will hand out. In the reader loop, that next seed is
    `Seed + d*1000 + threadID`, where `d` is capped at the last reader
    distribution. In the writer loop, it is `Seed + d*2000 + threadID`.
  - This makes seeds strictly increasing, so each new seed is fresh and the set
    grows by one (`FS_AddElement`).
  - The bound on reader distributions is exactly what lets the last reader seed
    stay below the first writer seed.
  - The CLI builds one reader distribution, so the theorem covers every run of
    the command. The violation run shows that the bound cannot be dropped.

- **`MCSamplerProofs.SampleIndexMatchesReference`:** for every draw stream,
  `Scale`, `MaxSamples` and `N >= 1`, `SampleTableIndex` equals `RefIndex`,
  the slice of [0,1] holding the first accepted draw (0 if none).
  - Lemma `FirstAcceptedSame` shows that the reference's first accepted
    position is the one the sampler's loop stops at.
  - Lemma `ClampedFloorIsSlice` shows that the clamped floor
    `min((v*N) \div Scale, N-1)` is the slice `c` with
    `c*Scale <= v*N < (c+1)*Scale`, or the last slice.
  - `IndexInRangeSafety` and `MatchesReferenceSafety` lift both facts to the
    invariants of the `sampler_reference` run, through `TypeOK`, for every
    `MaxTables`.
- **`SumsProofs`:** `PrefixSums(s)` is the function on `0..Len(s)` with
  value 0 at 0 and `PrefixSums(s)[k] = PrefixSums(s)[k-1] + s[k]`, and
  `Total(s) \in Nat`, for every `s \in Seq(Nat)`. The library's induction
  theorems take an operator parameter, which no installed prover
  instantiates, so the induction is done by hand: a least counterexample
  (`LeastNat`, from `WFMin` on `<`) contradicts the step. With this,
  `NumWorkers \in Nat` is proved rather than assumed.
- **`StartLoopsProofs.SpawnCountSafety`** (`Spec => []SpawnCount`), for all
  counts and seeds. The inductive invariant `CountInv` says that, inside
  group `g` at distribution `dist`, `threadID` is the base of the group
  (0 for readers, `Total(Readers)` for writers) plus
  `PrefixSums(Groups[g])[dist-1] + i`, with `i` below the current count.
  `SpawnOne` adds one to both sides; `NextDist` moves a full count into the
  prefix sum (lemma `PrefixSumsDef`). `CountInv` was checked by TLC on both
  `StartLoops` instances first.
- **`IcebergCLIProofs.ContractSafety`** (`[]AcceptedMeetsContractOrNaN`) and
  **`DefaultsSafety`** (`[]DefaultsAccepted`), for every grid, NaN among the
  float values. `ContractSafety` states what the validators guarantee: the
  core's contract with "in [0,1]" relaxed to "in [0,1] or NaN". The contract
  as spec 6 states it is false (finding 3), so it is the relaxed one that is
  proved. Neither is
  inductive by itself. `CInv` ties the outcome to the validator: a built
  configuration is `BenchConfig` of flags that passed `SyntaxOK`, and a Fatal
  came from flags that failed it. Lemma `SyntaxOKMeetsContract` shows what
  each `checkXSyntax` guarantees of the configuration its main builds.
  Lemma `DefaultsPass` shows that every flag table's defaults pass. `CInv`
  was checked by TLC on the `cli_validation` instance first.

Assumptions used: `SamplerAssumption`, `MaxTablesAssumption`,
`BenchAssumption`, `StartLoopsAssumption` and `IcebergCLIAssumption`
(types of the constants).

**Only model-checked:**

- liveness (`RunEnds`), which needs fairness and ENABLED, both out of the
  prover's reach. `LifecycleRefined` is proved without its fairness
  conjuncts, since `BenchLifecycle` has none.
- `SeedsDistinct` with three or more reader distributions, where it is false
  (the finding below).

## Findings

1. **Seed collision** (`src/unnamed/part_000:70`, run
   `start_loops_three_reader_groups`). `threadID` keeps counting across
   distributions while the reader stride is only 1000. With three or more
   reader distributions, a reader seed can therefore equal a writer seed. This
   contradicts spec 4.1 (b). It is latent: the CLI builds one reader
   distribution, and the theorem above shows that case is safe.
2. **Variance never validated** (`src/cli/iceberg_weighted.go:188`, run
   `cli_variance`). A negative `--reader-variance` or `--writer-variance` is
   accepted. `sampleTableIndex` then rejects all 100000 draws and always returns
   table 0. Spec 3 states `variance >= 0`, and spec 6 assigns validation to
   the CLI.
3. **NaN mean or read ratio accepted** (`src/cli/iceberg_weighted.go:211`,
   `src/unnamed/part_001:186`, run `cli_nan_mean`). `--reader-mean NaN`
   parses to NaN, and `mean < 0.0 || mean > 1.0` is false for NaN, so the
   weighted command hands the core a NaN mean: the sampler then rejects every
   draw and sends every request to table 0. `--read-ratio NaN` passes the
   mixed validator the same way. Spec 6 says the CLI keeps both in [0,1].

## Not modelled

- The REST client, the tree generator, and the mixed, read and commits
  benchmarks are not under `src/`. They appear only as the result of a call or
  the number of tables.
- Help text, usage strings, status output and `getIcebergCommon` are console
  wiring. Of the flag tables, only the defaults that the validators and mains
  read are modelled.
- `checkIcebergCommitsSyntax` accepts a tree of width or depth 0, which the
  read and mixed validators refuse. What the commits benchmark does with such a
  tree is code outside `src/`, so it is listed as a hazard without a property.
- The auto-terminator's statistics are modelled as "may cancel at any time".
- Operation timestamps and file names are formatting.

## Plan for later work

1. Compose `IcebergCLI` with `WeightedBench`, so that accepted flags
   instantiate the bench (counts into `Readers`/`Writers`).
2. Model the rate limiter's token bucket, which is outside `src/`, from spec
   4.5. Today it is modelled only as "may fail".
3. Relate `StartLoops` to `WeightedBench` by a refinement: the loops'
   `threadID` counter to the driver's `spawned`.
