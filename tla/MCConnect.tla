----------------------------- MODULE MCConnect -----------------------------
(* Connect on a small instance. *)
EXTENDS Connect
=============================================================================
