-------------------------- MODULE MCDaemonLifecycle --------------------------
(* DaemonLifecycle on small instances. *)
EXTENDS DaemonLifecycle, TLC

CONSTANTS d1, d2, d3, d4, k1, k2

(* Processes are interchangeable, and so are commands. *)
Alike == Permutations({d1, d2, d3, d4}) \cup Permutations({k1, k2})
=============================================================================
