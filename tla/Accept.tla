------------------------------- MODULE Accept -------------------------------
(***************************************************************************)
(* The reverse dial (internal/transport/accept.go, with Serve of           *)
(* endpoint.go and webtransport.go): the receiver listens, the host dials  *)
(* it, sends AUTH and MANIFEST-ACK, and the handler of the stream hands it *)
(* to the receive job over an unbuffered channel.  A timer closes streams  *)
(* that stay silent.                                                       *)
(*                                                                         *)
(* Closing an accepted stream ends its write direction only: what the      *)
(* dialer sends can still be read.                                         *)
(*                                                                         *)
(* Names that Race has, too, are given others here, so that one module can *)
(* extend both.                                                            *)
(***************************************************************************)
CONSTANTS
  Stream,   \* streams that the hosts of the share open, on any connection
  Wt,       \* those in a WebTransport session, which ends with its handler
  NoStream

ASSUME AcceptAssumption == Wt \subseteq Stream /\ NoStream \notin Stream

VARIABLES
  at,      \* of handleStream: "auth" and "ack": reading that frame; "authed":
           \* close(authed) is done; "offer": in the select; "held": handed
           \* over, it waits on closed; "out" before and "over" after
  timer,   \* "off", "set", "closing": it found authed open, and will close
  link,    \* the connection below: "up" or "gone"
  shut,    \* the streams closed on this side
  closed,  \* those whose channel `closed` is closed
  job,     \* Receive: "waiting" for a manifest; in "accept"; "has" a stream;
           \* "without" one, in or after a race that another candidate won;
           \* "closed" its stream; "unregistered"; "over": endpoint closed
  got,     \* the stream it has
  late     \* history: streams whose timer fired before their MANIFEST-ACK

acceptVars == <<at, timer, link, shut, closed, job, got, late>>

Authed == {"authed", "offer", "held"}
Registered == job \notin {"unregistered", "over"}

AcceptInit ==
  /\ at = [s \in Stream |-> "out"] /\ timer = [s \in Stream |-> "off"]
  /\ link = [s \in Stream |-> "up"] /\ shut = {} /\ closed = {}
  /\ job = "waiting" /\ got = NoStream /\ late = {}

(* streamConn.Close, with the hook that withOnClose has set by "offer". *)
Closes(s) ==
  /\ shut' = shut \cup {s}
  /\ closed' = IF at[s] \in {"offer", "held"} THEN closed \cup {s} ELSE closed
-----------------------------------------------------------------------------
(* A stream and its handler *)

Moves(s, from, to) == at[s] = from /\ at' = [at EXCEPT ![s] = to]

(* When its handler returns, a WebTransport session is closed. *)
Ends(s, from) ==
  /\ Moves(s, from, "over")
  /\ link' = IF s \in Wt THEN [link EXCEPT ![s] = "gone"] ELSE link

Arrive(s) ==
  /\ job # "over"
  /\ Moves(s, "out", "auth")
  /\ timer' = [timer EXCEPT ![s] = "set"]
  /\ UNCHANGED <<link, shut, closed, job, got, late>>

(* AUTH for a share that is registered now. *)
ReadsAuth(s) ==
  /\ link[s] = "up" /\ Registered
  /\ Moves(s, "auth", "ack")
  /\ UNCHANGED <<timer, link, shut, closed, job, got, late>>

(* Another frame, a proof for no registered share, or no connection: fail; *)
(* the timer stays set.                                                    *)
Fails(s) ==
  /\ \E from \in {"auth", "ack"} : Ends(s, from)
  /\ Closes(s)
  /\ UNCHANGED <<timer, job, got, late>>

(* MANIFEST-ACK: close(authed). *)
ReadsAck(s) ==
  /\ link[s] = "up"
  /\ Moves(s, "ack", "authed")
  /\ UNCHANGED <<timer, link, shut, closed, job, got, late>>

(* timer.Stop, which does not wait for a timer that has fired. *)
StopTimer(s) ==
  /\ Moves(s, "authed", "offer")
  /\ timer' = IF timer[s] = "set" THEN [timer EXCEPT ![s] = "off"] ELSE timer
  /\ UNCHANGED <<link, shut, closed, job, got, late>>

(* Mutant: the timer does not look at authed. *)
TimerBlind(s) ==
  /\ timer[s] = "set"
  /\ timer' = [timer EXCEPT ![s] = "closing"]
  /\ late' = IF at[s] \in Authed THEN late ELSE late \cup {s}
  /\ UNCHANGED <<at, link, shut, closed, job, got>>
(* authTimeout: the timer's select on authed. *)
TimerFires(s) ==
  /\ timer[s] = "set"
  /\ IF at[s] \in Authed
     THEN timer' = [timer EXCEPT ![s] = "off"] /\ late' = late
     ELSE timer' = [timer EXCEPT ![s] = "closing"] /\ late' = late \cup {s}
  /\ UNCHANGED <<at, link, shut, closed, job, got>>

TimerCloses(s) ==
  /\ timer[s] = "closing" /\ timer' = [timer EXCEPT ![s] = "off"]
  /\ Closes(s)
  /\ UNCHANGED <<at, link, job, got, late>>

(* The select on inc.ch: the job is in Accept. *)
HandOver(s) ==
  /\ job = "accept" /\ job' = "has" /\ got' = s
  /\ Moves(s, "offer", "held")
  /\ UNCHANGED <<timer, link, shut, closed, late>>

(* Its other branch, inc.done. *)
Refused(s) ==
  /\ ~Registered
  /\ Ends(s, "offer") /\ Closes(s)
  /\ UNCHANGED <<timer, job, got, late>>

(* <-closed *)
Leave(s) ==
  /\ s \in closed
  /\ Ends(s, "held")
  /\ UNCHANGED <<timer, shut, closed, job, got, late>>

(* The dialer closes its connection, or it is lost. *)
LinkGoes(s) ==
  /\ at[s] # "out" /\ link[s] = "up" /\ link' = [link EXCEPT ![s] = "gone"]
  /\ UNCHANGED <<at, timer, shut, closed, job, got, late>>
-----------------------------------------------------------------------------
(* The receive job *)

(* A manifest with "dial"; the incoming candidate of the race. *)
CallAccept ==
  /\ job = "waiting" /\ job' = "accept"
  /\ UNCHANGED <<at, timer, link, shut, closed, got, late>>

(* The timeout of Accept, or the end of the race; or there is no such      *)
(* candidate, or no manifest.                                              *)
GoesWithout ==
  /\ job \in {"waiting", "accept"} /\ job' = "without"
  /\ UNCHANGED <<at, timer, link, shut, closed, got, late>>

(* Mutant: Race forgets the stream that lost. *)
LosesUnclosed ==
  /\ job = "has" /\ job' = "without" /\ got' = NoStream
  /\ UNCHANGED <<at, timer, link, shut, closed, late>>
(* Race closes a stream that was accepted after another candidate won. *)
Loses ==
  /\ job = "has" /\ job' = "without" /\ got' = NoStream
  /\ Closes(got)
  /\ UNCHANGED <<at, timer, link, late>>

(* Receive returns: conn.Close is the first deferred call... *)
JobReturns ==
  /\ job \in {"has", "without"} /\ job' = "closed" /\ got' = NoStream
  /\ IF job = "has" THEN Closes(got) ELSE UNCHANGED <<shut, closed>>
  /\ UNCHANGED <<at, timer, link, late>>

(* ...then Unregister... *)
Unregister ==
  /\ job = "closed" /\ job' = "unregistered"
  /\ UNCHANGED <<at, timer, link, shut, closed, got, late>>

(* ...and at last the context and the endpoint, with all connections. *)
EndpointCloses ==
  /\ job = "unregistered" /\ job' = "over"
  /\ link' = [s \in Stream |-> "gone"]
  /\ UNCHANGED <<at, timer, shut, closed, got, late>>
-----------------------------------------------------------------------------
Timer(s) == TimerFires(s) \/ TimerCloses(s)
(* What a handler does without the dialer, and it fails when that is gone. *)
Handler(s) ==
  \/ (link[s] = "gone" /\ Fails(s))
  \/ StopTimer(s) \/ HandOver(s) \/ Refused(s) \/ Leave(s)
Job ==
  \/ CallAccept \/ GoesWithout \/ Loses \/ JobReturns
  \/ Unregister \/ EndpointCloses
AcceptNext ==
  \/ Job
  \/ \E s \in Stream :
       \/ Arrive(s) \/ ReadsAuth(s) \/ Fails(s) \/ ReadsAck(s) \/ LinkGoes(s)
       \/ Timer(s) \/ Handler(s)

AcceptSpec == AcceptInit /\ [][AcceptNext]_acceptVars

(* Goroutines and timers run; no dialer has to send anything or to leave,  *)
(* and Receive may take as long as it wants until it returns.              *)
AcceptFairness ==
  /\ WF_acceptVars(Unregister) /\ WF_acceptVars(EndpointCloses)
  /\ \A s \in Stream : WF_acceptVars(Timer(s)) /\ WF_acceptVars(Handler(s))

AcceptFairSpec == AcceptSpec /\ AcceptFairness
-----------------------------------------------------------------------------
(* Properties *)

AcceptTypeOK ==
  /\ at \in [Stream -> {"out", "auth", "ack", "authed", "offer", "held", "over"}]
  /\ timer \in [Stream -> {"off", "set", "closing"}]
  /\ link \in [Stream -> {"up", "gone"}]
  /\ shut \subseteq Stream /\ closed \subseteq Stream /\ late \subseteq Stream
  /\ job \in {"waiting", "accept", "has", "without", "closed", "unregistered", "over"}
  /\ got \in Stream \cup {NoStream}

(* The stream that the job has is open, and its handler is there to keep   *)
(* its WebTransport session, until the job closes it - unless the timer    *)
(* fired before MANIFEST-ACK was read (accept.go:98-104): such a stream is *)
(* handed over although it is closed, or closed after it was handed over.  *)
StreamLives == job = "has" => got \in late \/ (at[got] = "held" /\ got \notin shut)

(* Once Receive returns, every handler does: the one whose stream it used, *)
(* those that came second and wait in the select, those that a race closed *)
(* or refused, and those of silent dialers.                                *)
HandlersEnd ==
  job = "closed" ~> \A s \in Stream : at[s] \in {"out", "over"}
=============================================================================
