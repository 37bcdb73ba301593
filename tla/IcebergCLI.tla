---------------------------- MODULE IcebergCLI ----------------------------
(***************************************************************************)
(* The command-line entry points of the iceberg benchmarks: each mainX     *)
(* handler runs its checkXSyntax validator, which ends the process with    *)
(* console.Fatal on the first violated condition, then builds the bench    *)
(* configuration from the flags and hands it to runBench.                  *)
(*                                                                         *)
(* A flag value is abstracted to what the validators tell apart: a string  *)
(* flag to whether it is empty, a float to a point k/Scale of a grid one   *)
(* step beyond [0,1] on either side or to NaN (strconv.ParseFloat, which   *)
(* the flag parser calls, accepts "NaN"), a variance to its sign.  Every   *)
(* flag is either given on the command line or keeps the default of its   *)
(* flag table (the environment variables of the keys are unset).  The     *)
(* shared validators checkAnalyze and checkBenchmark (not part of these   *)
(* files) are one Boolean input.  Which Fatal fires is left out: every one *)
(* ends the process the same way.                                          *)
(***************************************************************************)
EXTENDS Integers, Sequences

CONSTANTS
  Scale,         \* resolution of a float flag: k stands for k/Scale
  FloatGrid,     \* values k tried for the float flags
  CountVals,     \* values tried for the --readers and --writers flags
  VarianceVals,  \* values tried for the variance flags (their sign matters)
  WidthVals,     \* values tried for --namespace-width and --namespace-depth
  NaN            \* the float a flag given as "NaN" parses to

ASSUME IcebergCLIAssumption ==
  /\ Scale \in Nat \ {0}
  \* the float defaults are tenths: they lie on the grid
  /\ Scale % 10 = 0
  /\ FloatGrid \subseteq Int
  /\ CountVals \subseteq Int /\ VarianceVals \subseteq Int
  /\ WidthVals \subseteq Int

Commands == {"weighted", "mixed", "read", "commits"}

\* A float flag: grid points in and one step outside [0,1] on both sides,
\* and NaN.
FloatVals == FloatGrid \cup {NaN}

\* The flags every command reads: ctx.NArg() and the three required strings.
CommonFlags == [nargs : {0, 1}, uri : BOOLEAN, accessKey : BOOLEAN,
                secretKey : BOOLEAN, checksOK : BOOLEAN]

\* The extra flags of each command that its validator or main reads.
ExtraFlags(c) ==
  CASE c = "weighted" -> [readers : CountVals, writers : CountVals,
                          readerMean : FloatVals, writerMean : FloatVals,
                          readerVariance : VarianceVals,
                          writerVariance : VarianceVals]
    [] c = "mixed"    -> [width : WidthVals, depth : WidthVals,
                          readRatio : FloatVals]
    [] c = "read"     -> [width : WidthVals, depth : WidthVals]
    [] c = "commits"  -> [width : WidthVals, depth : WidthVals,
                          tableThroughput : CountVals,
                          viewThroughput : CountVals]

\* The value a float flag's default of t tenths stands for.
Tenths(t) == (t * Scale) \div 10

\* Mutation: the reader mean's default written as 3.0 instead of 0.3.
WeightedFlagDefaultsMeanTypo ==
  [readers |-> 8, writers |-> 2, readerMean |-> Tenths(30),
   writerMean |-> Tenths(7), readerVariance |-> 1, writerVariance |-> 1]

\* The Value fields of the weighted command's own flags (icebergWeightedFlags).
\* Of the common string flags the catalog URI has a non-empty default and
\* the two keys the empty one: CommonFlags covers both.
WeightedFlagDefaults ==
  [readers |-> 8, writers |-> 2, readerMean |-> Tenths(3),
   writerMean |-> Tenths(7), readerVariance |-> 1, writerVariance |-> 1]

\* The Value fields of icebergCommitsFlags: a tree 2 wide and 3 deep, and
\* both commit throughputs 0 ("half of --concurrent").
CommitsFlagDefaults ==
  [width |-> 2, depth |-> 3, tableThroughput |-> 0, viewThroughput |-> 0]

\* The defaults of each command's own flags; the mixed and read tables
\* share the tree of the commits table.
FlagDefaults(c) ==
  CASE c = "weighted" -> WeightedFlagDefaults
    [] c = "mixed"    -> [width |-> 2, depth |-> 3, readRatio |-> Tenths(5)]
    [] c = "read"     -> [width |-> 2, depth |-> 3]
    [] c = "commits"  -> CommitsFlagDefaults

VARIABLES
  cmd,     \* the subcommand the user ran
  common,  \* its common flags
  extra,   \* its own flags
  status,  \* "parsed", "fatal" (console.Fatal) or "built" (runBench called)
  config   \* the configuration handed to runBench

vars == <<cmd, common, extra, status, config>>

NoConfig == [kind |-> "none"]

Init ==
  /\ cmd \in Commands
  /\ common \in CommonFlags
  /\ extra \in ExtraFlags(cmd) \cup {FlagDefaults(cmd)}
  /\ status = "parsed"
  /\ config = NoConfig

\* The checks all four validators start with: no positional argument, the
\* catalog URI and both keys non-empty; and the two they end with.
CommonSyntaxOK(f) ==
  /\ f.nargs = 0 /\ f.uri /\ f.accessKey /\ f.secretKey /\ f.checksOK

\* `v < 0.0 || v > 1.0`, the test that ends in Fatal; both comparisons
\* are false for NaN.
FlagOutOfUnit(v) == v # NaN /\ (v < 0 \/ v > Scale)

\* Mutation: the validator without the "at least one reader or writer" check.
WeightedSyntaxOKNoWorkerCheck(f, e) ==
  /\ CommonSyntaxOK(f)
  /\ e.readers >= 0 /\ e.writers >= 0
  /\ ~FlagOutOfUnit(e.readerMean) /\ ~FlagOutOfUnit(e.writerMean)

\* checkIcebergWeightedSyntax: counts non-negative, not both zero, both
\* means in [0,1].  Neither variance is looked at.
WeightedSyntaxOK(f, e) ==
  /\ CommonSyntaxOK(f)
  /\ e.readers >= 0 /\ e.writers >= 0
  /\ ~(e.readers = 0 /\ e.writers = 0)
  /\ ~FlagOutOfUnit(e.readerMean) /\ ~FlagOutOfUnit(e.writerMean)

\* checkIcebergMixedSyntax: a tree at least one wide and deep, a read ratio
\* in [0,1].
MixedSyntaxOK(f, e) ==
  /\ CommonSyntaxOK(f)
  /\ e.width >= 1 /\ e.depth >= 1
  /\ ~FlagOutOfUnit(e.readRatio)

\* checkIcebergReadSyntax: a tree at least one wide and deep.
ReadSyntaxOK(f, e) ==
  /\ CommonSyntaxOK(f)
  /\ e.width >= 1 /\ e.depth >= 1

\* checkIcebergCommitsSyntax: the common checks only.
CommitsSyntaxOK(f, e) == CommonSyntaxOK(f)

SyntaxOK(c, f, e) ==
  CASE c = "weighted" -> WeightedSyntaxOK(f, e)
    [] c = "mixed"    -> MixedSyntaxOK(f, e)
    [] c = "read"     -> ReadSyntaxOK(f, e)
    [] c = "commits"  -> CommitsSyntaxOK(f, e)

\* mainIcebergWeighted builds exactly one reader and one writer
\* WeightedDistribution from the flags.
WeightedConfig(e) ==
  [kind    |-> "weighted",
   readers |-> << [count |-> e.readers, mean |-> e.readerMean,
                   variance |-> e.readerVariance] >>,
   writers |-> << [count |-> e.writers, mean |-> e.writerMean,
                   variance |-> e.writerVariance] >>]

\* The configuration each main hands to runBench.
BenchConfig(c, e) ==
  CASE c = "weighted" -> WeightedConfig(e)
    [] c = "mixed"    -> [kind |-> "mixed", width |-> e.width,
                          depth |-> e.depth, readRatio |-> e.readRatio]
    [] c = "read"     -> [kind |-> "read", width |-> e.width, depth |-> e.depth]
    [] c = "commits"  -> [kind |-> "commits", width |-> e.width,
                          depth |-> e.depth, tableThroughput |-> e.tableThroughput,
                          viewThroughput |-> e.viewThroughput]

\* mainX: checkXSyntax(ctx), which either ends the process or returns, then
\* the configuration is built and runBench is called.
Main ==
  /\ status = "parsed"
  /\ \/ /\ ~SyntaxOK(cmd, common, extra)
        /\ status' = "fatal"
        /\ UNCHANGED config
     \/ /\ SyntaxOK(cmd, common, extra)
        /\ status' = "built"
        /\ config' = BenchConfig(cmd, extra)
  /\ UNCHANGED <<cmd, common, extra>>

\* The process has exited or handed over to runBench.
Finished ==
  /\ status \in {"fatal", "built"}
  /\ UNCHANGED vars

Next == Main \/ Finished

Spec == Init /\ [][Next]_vars

-----------------------------------------------------------------------------
\* The distributions of a weighted configuration.
Dists(cfg) == cfg.readers \o cfg.writers

\* What the benchmark core assumes of a configuration that reaches
\* runBench (spec 6, configuration boundary), with Unit(v) the meaning of
\* "v lies in [0,1]": for the weighted bench non-negative counts adding up
\* to at least one worker and means in [0,1]; for the tree-driven benches a
\* tree at least one wide and deep; for the mixed bench a read ratio in
\* [0,1].
ContractWith(Unit(_)) ==
  status = "built" =>
    /\ config.kind = "weighted" =>
         /\ \A k \in DOMAIN Dists(config) :
              Dists(config)[k].count >= 0 /\ Unit(Dists(config)[k].mean)
         /\ \E k \in DOMAIN Dists(config) : Dists(config)[k].count > 0
    /\ config.kind \in {"mixed", "read"} => config.width >= 1 /\ config.depth >= 1
    /\ config.kind = "mixed" => Unit(config.readRatio)

\* A number in [0,1], as the sampler's mean and the mixed bench's ratio
\* are meant to be.
InUnit(v) == v # NaN /\ 0 <= v /\ v <= Scale

\* Every configuration the CLI hands to runBench meets the core's contract
\* as spec 6 states it: the validators keep every mean and read ratio in
\* [0,1].
AcceptedMeetsCoreContract == ContractWith(InUnit)

\* A number in [0,1], or NaN.
InUnitOrNaN(v) == v = NaN \/ InUnit(v)

\* What the checkXSyntax validators do guarantee of every configuration
\* their mains build: counts, worker totals and tree shape as the core
\* needs them, and every mean and read ratio in [0,1] unless it is NaN,
\* which `v < 0.0 || v > 1.0` lets through.
AcceptedMeetsContractOrNaN == ContractWith(InUnitOrNaN)

\* A command run with nothing but the catalog URI and both keys (and no
\* positional argument) is accepted: every default of its flag table passes
\* its own validator.
DefaultsAccepted ==
  extra = FlagDefaults(cmd) /\ CommonSyntaxOK(common) => status # "fatal"

\* Every Distribution handed to the core has a non-negative variance, the
\* invariant spec 3 states of a Distribution and the sampler property
\* of spec 8 assumes.
AcceptedVarianceNonNegative ==
  status = "built" /\ config.kind = "weighted" =>
    \A k \in DOMAIN Dists(config) : Dists(config)[k].variance >= 0
=============================================================================
