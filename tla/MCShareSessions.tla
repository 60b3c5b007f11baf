--------------------------- MODULE MCShareSessions ---------------------------
(* ShareSessions on small instances. *)
EXTENDS ShareSessions

CONSTANTS q1, q2, r1
=============================================================================
