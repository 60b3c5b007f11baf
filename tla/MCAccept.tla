------------------------------ MODULE MCAccept ------------------------------
(* Accept on a small instance. *)
EXTENDS Accept

CONSTANTS q1, w1, w2
=============================================================================
