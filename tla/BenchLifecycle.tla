--------------------------- MODULE BenchLifecycle ---------------------------
(***************************************************************************)
(* What a benchmark job promises (spec 4.6): it moves through Created,     *)
(* Prepared, Running and Cleaned without skipping a state, or stops in     *)
(* Failed when Prepare fails; Start spawns each worker once, only while it *)
(* runs, and returns only when every worker has been spawned and has       *)
(* exited; Cleanup runs only after Start has returned.                     *)
(***************************************************************************)
EXTENDS FiniteSets

CONSTANT Workers   \* the worker identities of one run

VARIABLES
  state,    \* "Created", "Prepared", "Failed", "Running" or "Cleaned"
  joined,   \* Start has returned
  started,  \* the workers spawned so far
  active    \* the workers spawned that have not exited

avars == <<state, joined, started, active>>

Init ==
  /\ state = "Created"
  /\ joined = FALSE
  /\ started = {}
  /\ active = {}

\* Prepare succeeds, or fails with a configuration or connectivity error.
Prepare ==
  /\ state = "Created"
  /\ state' \in {"Prepared", "Failed"}
  /\ UNCHANGED <<joined, started, active>>

Start ==
  /\ state = "Prepared"
  /\ state' = "Running"
  /\ UNCHANGED <<joined, started, active>>

SpawnWorker(w) ==
  /\ state = "Running"
  /\ ~joined
  /\ w \notin started
  /\ started' = started \cup {w}
  /\ active' = active \cup {w}
  /\ UNCHANGED <<state, joined>>

ExitWorker(w) ==
  /\ w \in active
  /\ active' = active \ {w}
  /\ UNCHANGED <<state, joined, started>>

\* Start returns: every worker was spawned and has exited.
Join ==
  /\ state = "Running"
  /\ ~joined
  /\ started = Workers
  /\ active = {}
  /\ joined' = TRUE
  /\ UNCHANGED <<state, started, active>>

Cleanup ==
  /\ state = "Running"
  /\ joined
  /\ state' = "Cleaned"
  /\ UNCHANGED <<joined, started, active>>

Next ==
  \/ Prepare \/ Start \/ Join \/ Cleanup
  \/ \E w \in Workers : SpawnWorker(w) \/ ExitWorker(w)

Spec == Init /\ [][Next]_avars
=============================================================================
