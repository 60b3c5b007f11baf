--------------------------- MODULE ShareContract ---------------------------
(***************************************************************************)
(* What a share promises to whoever shares, without goroutines, locks,     *)
(* connections or frames: only members are sent data, a member's download  *)
(* counts once, nobody becomes a member of a share that is used up or      *)
(* being stopped, and nothing is sent when stop has returned.  It does not *)
(* promise that no more than Cap downloads finish: those who were members  *)
(* before the last one finish as well.                                     *)
(***************************************************************************)
EXTENDS Integers

CONSTANTS Session, Cap

VARIABLES
  phase,    \* "offered", "ending", "ended"
  left,     \* downloads left, -1 for no limit
  members,  \* who is served
  sending,  \* those to whom a chunk can be sent now
  finished  \* those whose download was counted

contract == <<phase, left, members, sending, finished>>

Init ==
  /\ phase = "offered" /\ left = (IF Cap > 0 THEN Cap ELSE -1)
  /\ members = {} /\ sending = {} /\ finished = {}

Admit(s) ==
  /\ phase = "offered" /\ left # 0 /\ s \notin members
  /\ members' = members \cup {s}
  /\ UNCHANGED <<phase, left, sending, finished>>

Send(s) ==
  /\ phase # "ended" /\ s \in members \ sending
  /\ sending' = sending \cup {s}
  /\ UNCHANGED <<phase, left, members, finished>>

Sent(s) ==
  /\ s \in sending /\ sending' = sending \ {s}
  /\ UNCHANGED <<phase, left, members, finished>>

Finish(s) ==
  /\ s \in members \ (sending \cup finished)
  /\ finished' = finished \cup {s}
  /\ left' = IF left > 0 THEN left - 1 ELSE left
  /\ UNCHANGED <<phase, members, sending>>

Leave(s) ==
  /\ s \in members
  /\ members' = members \ {s} /\ sending' = sending \ {s}
  /\ finished' = finished \ {s}
  /\ UNCHANGED <<phase, left>>

Stop ==
  /\ phase = "offered" /\ phase' = "ending"
  /\ UNCHANGED <<left, members, sending, finished>>

End ==
  /\ phase = "ending" /\ sending = {} /\ phase' = "ended"
  /\ UNCHANGED <<left, members, sending, finished>>

Next ==
  \/ Stop \/ End
  \/ \E s \in Session : Admit(s) \/ Send(s) \/ Sent(s) \/ Finish(s) \/ Leave(s)

Spec == Init /\ [][Next]_contract
=============================================================================
