-------------------------------- MODULE Race --------------------------------
(***************************************************************************)
(* How the receiver gets its one data stream (transport.Race in            *)
(* internal/transport/race.go; candidates, expectAck and readFrame in      *)
(* internal/peer/peer.go): every candidate dials in a goroutine of its own *)
(* and waits for MANIFEST-ACK, beside a watcher goroutine that closes the  *)
(* connection if the context ends first; the first to succeed wins and     *)
(* cancels the others.                                                     *)
(***************************************************************************)
EXTENDS FiniteSets

CONSTANTS
  Cand,       \* the candidates
  Incoming,   \* those that accept the host's own dial: acknowledged already
  None

ASSUME RaceAssumption ==
  IsFiniteSet(Cand) /\ Incoming \subseteq Cand /\ None \notin Cand

VARIABLES
  pc,        \* of Dial: "dial", "read": in ReadFrame, "acked" and "refused":
             \* it has returned, "ok" and "err": the result is sent
  conn,      \* "none", "open", "closed": by this side, "lost": by the other
  done,      \* readFrame has closed its channel `done`
  watcher,   \* of readFrame's goroutine: "off", "select", "inner", "close", "over"
  expired,   \* the candidate's own timeout passed before it returned
  quit,      \* the user interrupted Receive
  collected, \* results Race has taken from the channel
  winner,
  returned   \* Race has returned

vars == <<pc, conn, done, watcher, expired, quit, collected, winner, returned>>

Final == {"ok", "err"}
raceCancelled == quit \/ winner # None \/ returned
(* The candidate's context: its timeout, the race's, or its own deferred   *)
(* cancel once it has returned.                                            *)
ctxDone(c) == expired[c] \/ raceCancelled \/ pc[c] \in Final

Init ==
  /\ pc = [c \in Cand |-> "dial"] /\ conn = [c \in Cand |-> "none"]
  /\ done = [c \in Cand |-> FALSE] /\ watcher = [c \in Cand |-> "off"]
  /\ expired = [c \in Cand |-> FALSE]
  /\ quit = FALSE /\ collected = {} /\ winner = None /\ returned = FALSE
-----------------------------------------------------------------------------
(* A candidate's goroutine *)

(* Connected, with AUTH sent or the data channel open: readFrame begins. *)
Connected(c) ==
  /\ pc[c] = "dial" /\ c \notin Incoming
  /\ pc' = [pc EXCEPT ![c] = "read"]
  /\ conn' = [conn EXCEPT ![c] = "open"]
  /\ watcher' = [watcher EXCEPT ![c] = "select"]
  /\ UNCHANGED <<done, expired, quit, collected, winner, returned>>

(* Incoming.Accept hands over a stream that is authenticated and ACKed. *)
Accepted(c) ==
  /\ pc[c] = "dial" /\ c \in Incoming
  /\ pc' = [pc EXCEPT ![c] = "ok"]
  /\ conn' = [conn EXCEPT ![c] = "open"]
  /\ UNCHANGED <<done, watcher, expired, quit, collected, winner, returned>>

(* Unreachable, or the context is done; what was open is closed. *)
DialFails(c) ==
  /\ pc[c] = "dial"
  /\ pc' = [pc EXCEPT ![c] = "err"]
  /\ UNCHANGED <<conn, done, watcher, expired, quit, collected, winner, returned>>

(* ReadFrame returns MANIFEST-ACK; a data channel hands it out even after   *)
(* it was closed.                                                          *)
ReadAck(c) ==
  /\ pc[c] = "read"
  /\ pc' = [pc EXCEPT ![c] = "acked"]
  /\ UNCHANGED <<conn, done, watcher, expired, quit, collected, winner, returned>>

(* It returns an error, since the connection is closed, or another frame.  *)
ReadRefused(c) ==
  /\ pc[c] = "read"
  /\ pc' = [pc EXCEPT ![c] = "refused"]
  /\ UNCHANGED <<conn, done, watcher, expired, quit, collected, winner, returned>>

(* close(done); a candidate that was refused closes its connection; the    *)
(* result goes to the channel, and the context is cancelled on the way out.*)
DialReturns(c) ==
  /\ \/ pc[c] = "acked" /\ pc' = [pc EXCEPT ![c] = "ok"] /\ UNCHANGED conn
     \/ /\ pc[c] = "refused" /\ pc' = [pc EXCEPT ![c] = "err"]
        /\ conn' = [conn EXCEPT ![c] = "closed"]
  /\ done' = [done EXCEPT ![c] = TRUE]
  /\ UNCHANGED <<watcher, expired, quit, collected, winner, returned>>

(* The network or the host closes the connection. *)
Lost(c) ==
  /\ conn[c] = "open" /\ conn' = [conn EXCEPT ![c] = "lost"]
  /\ UNCHANGED <<pc, done, watcher, expired, quit, collected, winner, returned>>

(* dialTimeout or rtcTimeout. *)
Expire(c) ==
  /\ ~expired[c] /\ pc[c] \notin Final
  /\ expired' = [expired EXCEPT ![c] = TRUE]
  /\ UNCHANGED <<pc, conn, done, watcher, quit, collected, winner, returned>>
-----------------------------------------------------------------------------
(* readFrame's goroutine *)

Watches(c, a, b) ==
  /\ watcher[c] = a /\ watcher' = [watcher EXCEPT ![c] = b]
  /\ UNCHANGED <<pc, done, expired, quit, collected, winner, returned>>

(* The outer select: with both ready, either. *)
WatchDone(c) == done[c] /\ Watches(c, "select", "over") /\ UNCHANGED conn
WatchCtx(c) == ctxDone(c) /\ Watches(c, "select", "inner") /\ UNCHANGED conn

(* Mutant: the inner select is missing. *)
WatchInnerBlind(c) == Watches(c, "inner", "close") /\ UNCHANGED conn

(* The inner select: the read may have completed just before. *)
WatchInner(c) ==
  Watches(c, "inner", IF done[c] THEN "over" ELSE "close") /\ UNCHANGED conn

(* Mutant: nothing ends the blocked read. *)
WatchNeverCloses(c) == Watches(c, "close", "over") /\ UNCHANGED conn

WatchClose(c) ==
  /\ Watches(c, "close", "over")
  /\ conn' = [conn EXCEPT ![c] = IF @ = "open" THEN "closed" ELSE @]
-----------------------------------------------------------------------------
(* Race *)

(* Mutant: the winner is the last to succeed. *)
CollectLast(c) ==
  /\ pc[c] \in Final /\ c \notin collected
  /\ collected' = collected \cup {c}
  /\ winner' = IF pc[c] = "ok" THEN c ELSE winner
  /\ UNCHANGED <<pc, conn, done, watcher, expired, quit, returned>>

(* A result: the first success wins, any later one is closed. *)
Collect(c) ==
  /\ pc[c] \in Final /\ c \notin collected
  /\ collected' = collected \cup {c}
  /\ IF pc[c] = "ok" /\ winner = None
     THEN winner' = c /\ UNCHANGED conn
     ELSE /\ winner' = winner
          /\ conn' = [conn EXCEPT ![c] = IF @ = "open" THEN "closed" ELSE @]
  /\ UNCHANGED <<pc, done, watcher, expired, quit, returned>>

(* The channel is closed once every candidate has sent its result. *)
RaceReturns ==
  /\ ~returned /\ collected = Cand /\ returned' = TRUE
  /\ UNCHANGED <<pc, conn, done, watcher, expired, quit, collected, winner>>

Interrupt ==
  /\ ~quit /\ ~returned /\ quit' = TRUE
  /\ UNCHANGED <<pc, conn, done, watcher, expired, collected, winner, returned>>
-----------------------------------------------------------------------------
(* What a goroutine does when it can; while it dials or reads, only a      *)
(* context that is done or a connection that is closed makes it return.    *)
Returns(c) ==
  \/ DialReturns(c)
  \/ (ctxDone(c) /\ DialFails(c))
  \/ (conn[c] # "open" /\ ReadRefused(c))
Watch(c) == WatchDone(c) \/ WatchCtx(c) \/ WatchInner(c) \/ WatchClose(c)
Dial(c) ==
  \/ Connected(c) \/ Accepted(c) \/ DialFails(c)
  \/ ReadAck(c) \/ ReadRefused(c) \/ DialReturns(c)
Next ==
  \/ \E c \in Cand : Dial(c) \/ Lost(c) \/ Expire(c) \/ Watch(c) \/ Collect(c)
  \/ RaceReturns \/ Interrupt

Spec == Init /\ [][Next]_vars

(* Goroutines run and timeouts pass; no host has to answer. *)
Fairness ==
  /\ \A c \in Cand : /\ WF_vars(Returns(c)) /\ WF_vars(Watch(c))
                     /\ WF_vars(Expire(c)) /\ WF_vars(Collect(c))
  /\ WF_vars(RaceReturns)

FairSpec == Spec /\ Fairness
-----------------------------------------------------------------------------
(* Properties *)

TypeOK ==
  /\ pc \in [Cand -> {"dial", "read", "acked", "refused", "ok", "err"}]
  /\ conn \in [Cand -> {"none", "open", "closed", "lost"}]
  /\ done \in [Cand -> BOOLEAN] /\ expired \in [Cand -> BOOLEAN]
  /\ watcher \in [Cand -> {"off", "select", "inner", "close", "over"}]
  /\ quit \in BOOLEAN /\ returned \in BOOLEAN
  /\ collected \subseteq Cand /\ winner \in Cand \cup {None}
  /\ winner # None => winner \in collected /\ pc[winner] = "ok"

(* When Race has returned no connection is open but the winner's: no       *)
(* loser, late success or refused candidate keeps a session at the host.   *)
LosersClosed == returned => \A c \in Cand \ {winner} : conn[c] # "open"

(* peer.go:394, "ctx may be cancelled right after a successful read": the  *)
(* winner's connection is never closed because of the cancels that follow  *)
(* its own success; only a timeout or an interrupt that came first can.    *)
OwnCancelHarmless ==
  winner # None /\ conn[winner] = "closed" => expired[winner] \/ quit

(* A host that never answers cannot keep Race from returning. *)
RaceEnds == <>returned
=============================================================================
