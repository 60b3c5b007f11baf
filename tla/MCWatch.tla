------------------------------ MODULE MCWatch ------------------------------
(* Watch on small instances. *)
EXTENDS Watch

CONSTANTS h1
=============================================================================
