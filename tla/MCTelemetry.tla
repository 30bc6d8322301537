---------------------------- MODULE MCTelemetry -----------------------------
(* Small instances of Telemetry for TLC. *)
EXTENDS Telemetry, TLC

TelemetrySymmetry == Permutations(Procs) \cup Permutations(Endpoints) \cup Permutations(Pids)

(***************************************************************************)
(* What is not read any more, by a guard, an assignment or a property, is  *)
(* left out of the view.  A child that is not current never is again.      *)
(***************************************************************************)
Live(x) == x # None /\ Exists(x)

\* Somebody may still connect to the endpoint, or be connected, and have its counts applied.
Counted(e) == \/ Live(host[e]) /\ (host[e] \in Others \/ Current(host[e]))
              \/ \E p \in Procs : Current(p) /\ peer[p] = e

\* Its goroutine has ended, and so has the process.
Forgotten(p) == ~Exists(p) /\ pc[p] = "ended"

TelemetryView ==
  <<status, cmd, figures, identity, bearer, children, history, pc,
    [x \in Processes |-> pid[x] # None],
    [p \in Procs |-> IF Forgotten(p) THEN None ELSE pid[p]],
    [p \in Procs |-> IF Current(p) \/ Exists(p) THEN peer[p] ELSE None],
    [p \in Procs |-> IF Current(p) THEN snapshot[p] ELSE None],
    [e \in Endpoints |-> host[e] # None],
    [e \in Endpoints |-> IF Live(host[e]) \/ Counted(e) THEN host[e] ELSE None],
    [e \in Endpoints |-> IF Counted(e) THEN sent[e] ELSE 0]>>
=============================================================================
