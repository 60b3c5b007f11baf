----------------------------- MODULE MCDataPath -----------------------------
(* DataPath on a small instance. *)
EXTENDS DataPath
=============================================================================
