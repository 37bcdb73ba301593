------------------------- MODULE IcebergCLIProofs -------------------------
(***************************************************************************)
(* Proofs about the iceberg command-line entry points, for every grid and  *)
(* every set of flag values.                                               *)
(*                                                                         *)
(* Neither property is inductive by itself: AcceptedMeetsContractOrNaN    *)
(* speaks of the configuration, which mainX builds from the flags, and     *)
(* DefaultsAccepted of the status, which the validator sets from them.     *)
(* CInv ties both to the flags: a built configuration is BenchConfig of    *)
(* flags that passed SyntaxOK, and a Fatal was raised only on flags that   *)
(* failed it.  Each property then follows from a lemma about the           *)
(* validators: what SyntaxOK guarantees of BenchConfig, and that every     *)
(* flag table's defaults pass it.  The contract proved lets a mean or read *)
(* ratio be NaN: `v < 0.0 || v > 1.0` accepts it, and the run cli_nan_mean *)
(* shows the contract without that exception violated.                    *)
(***************************************************************************)
EXTENDS IcebergCLI, TLAPS

\* The inductive invariant: the types, and the outcome agrees with the
\* validator's verdict on the flags.
CInv ==
  /\ cmd \in Commands
  /\ common \in CommonFlags
  /\ extra \in ExtraFlags(cmd) \cup {FlagDefaults(cmd)}
  /\ status \in {"parsed", "fatal", "built"}
  /\ status = "built" =>
       SyntaxOK(cmd, common, extra) /\ config = BenchConfig(cmd, extra)
  /\ status = "fatal" => ~SyntaxOK(cmd, common, extra)

LEMMA InitCInv == Init => CInv
BY DEF Init, CInv

\* Main sets the status from the verdict and builds the configuration
\* only on success; Finished changes nothing.
LEMMA NextCInv == CInv /\ [Next]_vars => CInv'
<1> SUFFICES ASSUME CInv, [Next]_vars PROVE CInv'
  OBVIOUS
<1>1. CASE Main
  BY <1>1 DEF Main, CInv
<1>2. CASE Finished
  BY <1>2 DEF Finished, vars, CInv
<1>3. CASE UNCHANGED vars
  BY <1>3 DEF vars, CInv
<1> QED
  BY <1>1, <1>2, <1>3 DEF Next

\* The flags of each command that the validator compares are integers, or
\* NaN for a float, whether given on the command line or left at their
\* defaults.
LEMMA ExtraInt ==
  ASSUME NEW c \in Commands, NEW e \in ExtraFlags(c) \cup {FlagDefaults(c)}
  PROVE  /\ c = "weighted" =>
              /\ e.readers \in Int /\ e.writers \in Int
              /\ e.readerMean \in Int \cup {NaN}
              /\ e.writerMean \in Int \cup {NaN}
         /\ c \in {"mixed", "read"} => e.width \in Int /\ e.depth \in Int
         /\ c = "mixed" => e.readRatio \in Int \cup {NaN}
<1> USE IcebergCLIAssumption
<1>1. Tenths(3) \in Int /\ Tenths(7) \in Int /\ Tenths(5) \in Int
  BY DEF Tenths
<1> QED
  BY <1>1 DEF Commands, ExtraFlags, FlagDefaults, WeightedFlagDefaults,
             FloatVals

\* What each validator guarantees of the configuration its main builds:
\* the contract of the benchmark core.
LEMMA SyntaxOKMeetsContract ==
  ASSUME NEW c \in Commands, NEW f, NEW e \in ExtraFlags(c) \cup {FlagDefaults(c)},
         SyntaxOK(c, f, e)
  PROVE  LET cfg == BenchConfig(c, e) IN
         /\ cfg.kind = "weighted" =>
              /\ \A k \in DOMAIN Dists(cfg) :
                   Dists(cfg)[k].count >= 0 /\ InUnitOrNaN(Dists(cfg)[k].mean)
              /\ \E k \in DOMAIN Dists(cfg) : Dists(cfg)[k].count > 0
         /\ cfg.kind \in {"mixed", "read"} => cfg.width >= 1 /\ cfg.depth >= 1
         /\ cfg.kind = "mixed" => InUnitOrNaN(cfg.readRatio)
<1>0. /\ c = "weighted" =>
          /\ e.readers \in Int /\ e.writers \in Int
          /\ e.readerMean \in Int \cup {NaN}
          /\ e.writerMean \in Int \cup {NaN}
      /\ c \in {"mixed", "read"} => e.width \in Int /\ e.depth \in Int
      /\ c = "mixed" => e.readRatio \in Int \cup {NaN}
  BY ExtraInt
\* A flag the validator's range test lets through is in [0,1] or NaN.
<1>9. \A v \in Int \cup {NaN} : ~FlagOutOfUnit(v) => InUnitOrNaN(v)
  <2> SUFFICES ASSUME NEW v \in Int \cup {NaN}, ~FlagOutOfUnit(v)
               PROVE  InUnitOrNaN(v)
    OBVIOUS
  <2>1. CASE v = NaN
    BY <2>1 DEF InUnitOrNaN
  <2>2. CASE v # NaN
    <3>1. v \in Int /\ ~(v < 0 \/ v > Scale)
      BY <2>2 DEF FlagOutOfUnit
    <3>2. Scale \in Int
      BY IcebergCLIAssumption
    <3>3. 0 <= v /\ v <= Scale
      BY ONLY <3>1, <3>2
    <3> QED
      BY <2>2, <3>3 DEF InUnitOrNaN, InUnit
  <2> QED
    BY <2>1, <2>2
<1>1. CASE c = "weighted"
  <2> DEFINE r == [count |-> e.readers, mean |-> e.readerMean,
                   variance |-> e.readerVariance]
             w == [count |-> e.writers, mean |-> e.writerMean,
                   variance |-> e.writerVariance]
  <2>0. BenchConfig(c, e) = [kind |-> "weighted", readers |-> <<r>>,
                             writers |-> <<w>>]
    BY <1>1 DEF BenchConfig, WeightedConfig
  <2>1. BenchConfig(c, e).kind = "weighted"
        /\ DOMAIN Dists(BenchConfig(c, e)) = {1, 2}
        /\ Dists(BenchConfig(c, e))[1] = r /\ Dists(BenchConfig(c, e))[2] = w
    BY <2>0 DEF Dists
  <2>2. WeightedSyntaxOK(f, e)
    BY <1>1 DEF SyntaxOK
  <2>3. e.readers >= 0 /\ e.writers >= 0 /\ (e.readers > 0 \/ e.writers > 0)
    BY <1>0, <1>1, <2>2 DEF WeightedSyntaxOK
  <2>4. InUnitOrNaN(e.readerMean) /\ InUnitOrNaN(e.writerMean)
    BY <1>0, <1>1, <1>9, <2>2, Zenon DEF WeightedSyntaxOK
  <2> QED
    BY <2>1, <2>3, <2>4
<1>2. CASE c = "mixed"
  BY <1>0, <1>2, <1>9 DEF SyntaxOK, MixedSyntaxOK, BenchConfig
<1>3. CASE c = "read"
  BY <1>0, <1>3 DEF SyntaxOK, ReadSyntaxOK, BenchConfig
<1>4. CASE c = "commits"
  BY <1>4 DEF BenchConfig
<1> QED
  BY <1>1, <1>2, <1>3, <1>4 DEF Commands

\* Every flag table's defaults pass its validator once the common checks
\* pass: 8 readers and 2 writers, means 0.3 and 0.7, a read ratio of 0.5,
\* a tree 2 wide and 3 deep.
LEMMA DefaultsPass ==
  ASSUME NEW c \in Commands, NEW f, CommonSyntaxOK(f)
  PROVE  SyntaxOK(c, f, FlagDefaults(c))
<1> USE IcebergCLIAssumption
<1>1. ~FlagOutOfUnit(Tenths(3)) /\ ~FlagOutOfUnit(Tenths(7))
      /\ ~FlagOutOfUnit(Tenths(5))
  BY DEF FlagOutOfUnit, Tenths
<1>2. CASE c = "weighted"
  BY <1>1, <1>2 DEF SyntaxOK, FlagDefaults, WeightedFlagDefaults,
                    WeightedSyntaxOK
<1>3. CASE c = "mixed"
  BY <1>1, <1>3 DEF SyntaxOK, FlagDefaults, MixedSyntaxOK
<1>4. CASE c = "read"
  BY <1>4 DEF SyntaxOK, FlagDefaults, ReadSyntaxOK
<1>5. CASE c = "commits"
  BY <1>5 DEF SyntaxOK, FlagDefaults, CommitsSyntaxOK
<1> QED
  BY <1>2, <1>3, <1>4, <1>5 DEF Commands

LEMMA CInvContract == CInv => AcceptedMeetsContractOrNaN
<1> SUFFICES ASSUME CInv, status = "built" PROVE AcceptedMeetsContractOrNaN
  BY DEF AcceptedMeetsContractOrNaN, ContractWith
<1>1. SyntaxOK(cmd, common, extra) /\ config = BenchConfig(cmd, extra)
      /\ cmd \in Commands /\ extra \in ExtraFlags(cmd) \cup {FlagDefaults(cmd)}
  BY DEF CInv
<1> QED
  BY <1>1, SyntaxOKMeetsContract DEF AcceptedMeetsContractOrNaN, ContractWith

LEMMA CInvDefaults == CInv => DefaultsAccepted
BY DefaultsPass DEF CInv, DefaultsAccepted

\* For every flag values whatever, every configuration a main hands to
\* runBench has the counts, worker total and tree shape the benchmark core
\* needs, and every mean and read ratio in [0,1] or NaN: what the
\* checkIceberg*Syntax validators guarantee of the configuration their
\* mains build.  NaN is the one value that escapes them.
THEOREM ContractSafety == Spec => []AcceptedMeetsContractOrNaN
<1>1. Spec => []CInv
  BY InitCInv, NextCInv, PTL DEF Spec
<1> QED
  BY <1>1, CInvContract, PTL

\* No command run on the defaults of its own flag table ends in
\* console.Fatal once the common flags are given: the defaults of
\* icebergWeightedFlags, icebergMixedFlags, icebergReadFlags and
\* icebergCommitsFlags pass their validators for every grid.
THEOREM DefaultsSafety == Spec => []DefaultsAccepted
<1>1. Spec => []CInv
  BY InitCInv, NextCInv, PTL DEF Spec
<1> QED
  BY <1>1, CInvDefaults, PTL
=============================================================================
