---------------------------- MODULE MCHostStore ----------------------------
(* HostStore on small instances. *)
EXTENDS HostStore, TLC

CONSTANTS s1, s2, w1

(* Shares are interchangeable. *)
Alike == Permutations({s1, s2})
=============================================================================
