--------------------------- MODULE Streams_proofs ---------------------------
(***************************************************************************)
(* The safety properties of the two modules about how the receiver gets its*)
(* one data stream, for any number of candidates (Race) and of streams that*)
(* the hosts open (Accept).                                                *)
(***************************************************************************)
EXTENDS Race, Accept, TLAPS

(***************************************************************************)
(* Race                                                                    *)
(***************************************************************************)
(* Where a candidate, its connection and its watcher are together.         *)
Shape ==
  \A c \in Cand :
    /\ pc[c] = "dial" => conn[c] = "none" /\ watcher[c] = "off"
    /\ pc[c] = "err" => conn[c] # "open"
    /\ watcher[c] # "off" /\ pc[c] \in Final => done[c]

Results ==
  /\ \A c \in collected : pc[c] \in Final /\ (c # winner => conn[c] # "open")
  /\ returned => collected = Cand

(* A watcher that closes, or has closed, the connection of a candidate that*)
(* is not refused has a cause other than this candidate's own success.     *)
Cause(c) == expired[c] \/ quit \/ winner \notin {None, c}
Closing ==
  \A c \in Cand :
    \/ watcher[c] = "close" \/ (watcher[c] = "inner" /\ ~done[c])
    \/ (conn[c] = "closed" /\ pc[c] # "err")
    => Cause(c)

Inv == TypeOK /\ Shape /\ Results /\ Closing
-----------------------------------------------------------------------------
LEMMA InitInv == ASSUME Init PROVE Inv
BY RaceAssumption DEF Init, Inv, TypeOK, Shape, Results, Closing

LEMMA DialKeeps == ASSUME Inv, NEW c \in Cand, Dial(c) PROVE Inv'
<1> USE RaceAssumption DEF Inv, Final
<1>0. winner' = winner /\ quit' = quit /\ expired' = expired /\ collected' = collected
      /\ returned' = returned /\ c \notin collected
      /\ \A d \in Cand \ {c} : /\ pc'[d] = pc[d] /\ conn'[d] = conn[d] /\ done'[d] = done[d]
                               /\ watcher'[d] = watcher[d]
  BY DEF Dial, Connected, Accepted, DialFails, ReadAck, ReadRefused, DialReturns, Results, TypeOK
<1>1. TypeOK'
  BY <1>0 DEF TypeOK, Dial, Connected, Accepted, DialFails, ReadAck, ReadRefused, DialReturns
<1>2. Shape'
  BY <1>0 DEF Shape, TypeOK, Dial, Connected, Accepted, DialFails, ReadAck, ReadRefused, DialReturns
<1>3. Results'
  BY <1>0 DEF Results, TypeOK
<1>4. Closing'
  <2>1. Cause(c)' <=> Cause(c)
    BY <1>0 DEF Cause
  <2>2. \/ watcher'[c] = "close" \/ (watcher'[c] = "inner" /\ ~done'[c])
        \/ (conn'[c] = "closed" /\ pc'[c] # "err")
        => \/ watcher[c] = "close" \/ (watcher[c] = "inner" /\ ~done[c])
           \/ (conn[c] = "closed" /\ pc[c] # "err")
    BY DEF TypeOK, Shape, Dial, Connected, Accepted, DialFails, ReadAck, ReadRefused, DialReturns
  <2> QED BY <1>0, <2>1, <2>2 DEF Closing, Cause
<1> QED BY <1>1, <1>2, <1>3, <1>4

LEMMA WatchKeeps == ASSUME Inv, NEW c \in Cand, Watch(c) PROVE Inv'
<1> USE RaceAssumption DEF Inv, Final, Watch, WatchDone, WatchCtx, WatchInner, WatchClose, Watches
<1>0. UNCHANGED <<pc, done, expired, quit, collected, winner, returned>>
      /\ \A d \in Cand \ {c} : conn'[d] = conn[d] /\ watcher'[d] = watcher[d]
  BY DEF TypeOK
<1>1. TypeOK'
  BY DEF TypeOK
<1>2. Shape' /\ Results'
  BY <1>0 DEF Shape, Results, TypeOK
<1>3. Closing'
  <2>1. Cause(c)' <=> Cause(c)
    BY <1>0 DEF Cause
  <2>2. WatchCtx(c) => done[c] \/ Cause(c)
    <3> SUFFICES ASSUME WatchCtx(c), ~done[c] PROVE Cause(c)
      OBVIOUS
    <3>1. pc[c] \notin Final /\ c \notin collected
      BY DEF Shape, Results, TypeOK
    <3>2. ~returned /\ winner # c
      BY <3>1 DEF Results, TypeOK
    <3> QED BY <3>1, <3>2 DEF ctxDone, raceCancelled, Cause
  <2>3. watcher'[c] \in {"inner", "close"} \/ conn'[c] # conn[c]
        => WatchCtx(c) \/ watcher[c] = "close" \/ (watcher[c] = "inner" /\ ~done[c])
    BY DEF TypeOK
  <2> QED BY <1>0, <2>1, <2>2, <2>3 DEF Closing, Cause, TypeOK
<1> QED BY <1>1, <1>2, <1>3

LEMMA RaceKeeps ==
  ASSUME Inv, NEW c \in Cand, Lost(c) \/ Expire(c) \/ Collect(c) \/ RaceReturns \/ Interrupt
  PROVE  Inv'
<1> USE RaceAssumption DEF Inv, Final, TypeOK, Shape, Results, Closing, Cause
<1>1. CASE Lost(c)
  BY <1>1 DEF Lost
<1>2. CASE Expire(c)
  BY <1>2 DEF Expire
<1>3. CASE Collect(c)
  <2>1. CASE pc[c] = "ok" /\ winner = None
    BY <1>3, <2>1 DEF Collect
  <2>2. CASE ~(pc[c] = "ok" /\ winner = None)
    BY <1>3, <2>2 DEF Collect
  <2> QED BY <2>1, <2>2
<1>4. CASE RaceReturns
  BY <1>4 DEF RaceReturns
<1>5. CASE Interrupt
  BY <1>5 DEF Interrupt
<1> QED BY <1>1, <1>2, <1>3, <1>4, <1>5

LEMMA InvHolds == Spec => []Inv
<1>1. ASSUME Inv, [Next]_vars PROVE Inv'
  <2>1. CASE UNCHANGED vars
    BY <1>1, <2>1 DEF Inv, TypeOK, Shape, Results, Closing, Cause, vars
  <2>2. CASE RaceReturns \/ Interrupt
    <3>1. CASE Cand = {}
      BY <1>1, <2>2, <3>1, RaceAssumption DEF RaceReturns, Interrupt, Inv, TypeOK, Shape, Results, Closing
    <3> QED BY <1>1, <2>2, <3>1, RaceKeeps
  <2> QED BY <1>1, <2>1, <2>2, DialKeeps, WatchKeeps, RaceKeeps DEF Next
<1> QED BY <1>1, InitInv, PTL DEF Spec

(* When Race has returned no connection is open but the winner's           *)
(* (race.go, Race and Candidate.Dial in peer.go).                          *)
THEOREM LosersClosedHolds == Spec => []LosersClosed
<1>1. Inv => LosersClosed
  BY DEF Inv, Results, LosersClosed
<1> QED BY <1>1, InvHolds, PTL

(* The cancels that follow a success never close its own connection        *)
(* (readFrame in peer.go).                                                 *)
THEOREM OwnCancelHarmlessHolds == Spec => []OwnCancelHarmless
<1>1. Inv => OwnCancelHarmless
  BY DEF Inv, TypeOK, Closing, Cause, OwnCancelHarmless
<1> QED BY <1>1, InvHolds, PTL
-----------------------------------------------------------------------------
(***************************************************************************)
(* Accept                                                                  *)
(***************************************************************************)
(* The timer closes only streams that it found silent. *)
TimerLate == \A s \in Stream : timer[s] = "closing" => s \in late

(* Whose stream is closed: a handler's that failed, one the timer found,   *)
(* or the one that the job had.                                            *)
ShutWhy ==
  /\ closed \subseteq shut
  /\ \A s \in shut \ late : at[s] = "over" \/ (at[s] = "held" /\ job # "has")

(* One stream is handed over, once. *)
HeldOnce ==
  /\ \A s \in Stream :
       at[s] = "held" => job \notin {"waiting", "accept"} /\ (job = "has" => got = s)
  /\ job = "has" => got \in Stream /\ (at[got] = "held" \/ got \in late)

AcceptInv == AcceptTypeOK /\ TimerLate /\ ShutWhy /\ HeldOnce
-----------------------------------------------------------------------------
LEMMA AcceptInitInv == ASSUME AcceptInit PROVE AcceptInv
BY AcceptAssumption DEF AcceptInit, AcceptInv, AcceptTypeOK, TimerLate, ShutWhy, HeldOnce

LEMMA StreamKeeps ==
  ASSUME AcceptInv, NEW s \in Stream,
         \/ Arrive(s) \/ ReadsAuth(s) \/ Fails(s) \/ ReadsAck(s) \/ LinkGoes(s)
         \/ StopTimer(s) \/ Refused(s) \/ Leave(s)
  PROVE  AcceptInv'
<1> USE AcceptAssumption
<1> USE DEF AcceptInv, AcceptTypeOK, Moves
<1>1. AcceptTypeOK'
  BY DEF Arrive, ReadsAuth, Fails, ReadsAck, LinkGoes, StopTimer, Refused, Leave, Ends, Closes
<1>2. TimerLate'
  BY DEF TimerLate, Arrive, ReadsAuth, Fails, ReadsAck, LinkGoes, StopTimer, Refused, Leave, Ends, Closes
<1>3. ShutWhy'
  <2>1. CASE Fails(s) \/ Refused(s)
    <3>1. /\ at' = [at EXCEPT ![s] = "over"] /\ shut' = shut \cup {s} /\ closed' \subseteq closed \cup {s}
          /\ UNCHANGED <<job, late>>
      BY <2>1 DEF Fails, Refused, Ends, Closes
    <3> QED BY <3>1 DEF ShutWhy
  <2>2. CASE ~(Fails(s) \/ Refused(s))
    BY <2>2 DEF ShutWhy, Arrive, ReadsAuth, ReadsAck, LinkGoes, StopTimer, Leave, Ends
  <2> QED BY <2>1, <2>2
<1>4. HeldOnce'
  <2>1. CASE Leave(s)
    BY <2>1 DEF HeldOnce, ShutWhy, Leave, Ends
  <2>2. CASE ~Leave(s)
    <3>1. (at[s] # "held" /\ at'[s] # "held") \/ at' = at
      BY <2>2 DEF Arrive, ReadsAuth, Fails, ReadsAck, LinkGoes, StopTimer, Refused, Ends, Closes
    <3>2. UNCHANGED <<job, got, late>>
      BY <2>2 DEF Arrive, ReadsAuth, Fails, ReadsAck, LinkGoes, StopTimer, Refused, Ends, Closes
    <3>3. \A r \in Stream \ {s} : at'[r] = at[r]
      BY <2>2 DEF Arrive, ReadsAuth, Fails, ReadsAck, LinkGoes, StopTimer, Refused, Ends, Closes
    <3> QED BY <3>1, <3>2, <3>3 DEF HeldOnce
  <2> QED BY <2>1, <2>2
<1> QED BY <1>1, <1>2, <1>3, <1>4

LEMMA TimerKeeps == ASSUME AcceptInv, NEW s \in Stream, Timer(s) PROVE AcceptInv'
<1> USE AcceptAssumption
<1> USE DEF AcceptInv, AcceptTypeOK, TimerLate, ShutWhy, HeldOnce
<1>1. CASE TimerFires(s)
  BY <1>1 DEF TimerFires
<1>2. CASE TimerCloses(s)
  <2>1. /\ s \in late /\ shut' = shut \cup {s} /\ closed \subseteq closed'
        /\ closed' \subseteq closed \cup {s}
        /\ timer' = [timer EXCEPT ![s] = "off"] /\ UNCHANGED <<at, link, job, got, late>>
    BY <1>2 DEF TimerCloses, Closes
  <2> QED BY <2>1
<1> QED BY <1>1, <1>2 DEF Timer

LEMMA JobKeeps ==
  ASSUME AcceptInv, Job \/ \E s \in Stream : HandOver(s)
  PROVE  AcceptInv'
<1> USE AcceptAssumption
<1> USE DEF AcceptInv, AcceptTypeOK, TimerLate, ShutWhy, HeldOnce
<1>1. ASSUME NEW s \in Stream, HandOver(s) PROVE AcceptInv'
  BY <1>1 DEF HandOver, Moves
<1>2. CASE CallAccept \/ GoesWithout \/ Unregister \/ EndpointCloses
  BY <1>2 DEF CallAccept, GoesWithout, Unregister, EndpointCloses
<1>3. CASE Loses \/ JobReturns
  <2>1. /\ job' \notin {"waiting", "accept", "has"} /\ got' = NoStream
        /\ job' \in {"without", "closed"} /\ job \in {"has", "without"}
        /\ UNCHANGED <<at, timer, link, late>>
        /\ \/ UNCHANGED <<shut, closed>>
           \/ /\ job = "has" /\ shut' = shut \cup {got}
              /\ closed' \subseteq closed \cup {got}
    BY <1>3 DEF Loses, JobReturns, Closes
  <2> QED BY <2>1
<1> QED BY <1>1, <1>2, <1>3 DEF Job

(* The stream that the job has is open, and its handler is there, unless   *)
(* the timer fired before MANIFEST-ACK was read (handleStream and its      *)
(* timer, accept.go).                                                      *)
THEOREM StreamLivesHolds == AcceptSpec => []StreamLives
<1>1. ASSUME AcceptInv, [AcceptNext]_acceptVars PROVE AcceptInv'
  <2>1. CASE UNCHANGED acceptVars
    BY <1>1, <2>1 DEF AcceptInv, AcceptTypeOK, TimerLate, ShutWhy, HeldOnce, acceptVars
  <2> QED BY <1>1, <2>1, StreamKeeps, TimerKeeps, JobKeeps DEF AcceptNext, Handler
<1>2. AcceptInv => StreamLives
  BY DEF AcceptInv, ShutWhy, HeldOnce, StreamLives
<1> QED BY <1>1, <1>2, AcceptInitInv, PTL DEF AcceptSpec
=============================================================================
