---------------------------- MODULE MCTransfer ----------------------------
(* Transfer on small instances. *)
EXTENDS Transfer, TLC

CONSTANTS v1, v2

Versions == Permutations({v1, v2})
=============================================================================
