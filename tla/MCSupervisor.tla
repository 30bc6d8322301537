---------------------------- MODULE MCSupervisor ----------------------------
(* Small instances of Supervisor for TLC. *)
EXTENDS Supervisor, TLC

\* Children, workers and, where all of them are supported, URLs are interchangeable.
RaceSymmetry == Permutations(Procs) \cup Permutations(Workers) \cup Permutations(Urls)
=============================================================================
