------------------------------- MODULE MCRace -------------------------------
(* Race on small instances. *)
EXTENDS Race

CONSTANTS c1, c2, i1
=============================================================================
