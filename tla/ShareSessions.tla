--------------------------- MODULE ShareSessions ---------------------------
(***************************************************************************)
(* The life of one share on the host (internal/host/share.go, with Remove, *)
(* Close and handleStream of internal/host/host.go): its signaling loop,   *)
(* the data sessions it serves, the count of downloads left, the timers,   *)
(* and stop, which takes all of it down while it runs.                     *)
(*                                                                         *)
(* Every goroutine is cut where it releases sh.mu or h.mu or waits for the *)
(* network.  What the sessions transfer is in Transfer; here a chunk is    *)
(* only read, or not, and written, or not.                                 *)
(***************************************************************************)
EXTENDS Integers, FiniteSets

CONSTANTS
  Session,   \* bound: data connections over the life of the share
  Rtc,       \* those that are WebRTC data channels; the others are QUIC
  Chunks,    \* chunks in the manifest
  Cap        \* Options.MaxDownloads; 0 for no limit

ASSUME SessionsAssumption ==
  /\ Rtc \subseteq Session /\ IsFiniteSet(Session)
  /\ Chunks \in Nat /\ Cap \in Nat

Chunk == 0 .. Chunks - 1

VARIABLES
  place,     \* "starting": start returned, not yet in h.shares; "live": in
             \* h.shares; "gone": taken out
  stopped,   \* Share.stopped
  stopper,   \* the call of stop: "none", "flag", "bye", "close", "src", "returned"
  why,       \* its reason
  snapRtcs, snapSessions,  \* what it still has to close
  cancelled, \* the context of loop and of the WebRTC goroutines
  deleted,   \* api.DeleteShare was called
  loop,      \* "up": waiting in Recv; "answering" an offer; "dialing"; "over"
  expiry, doneTimer,       \* a timer is set and has not fired
  left,      \* Share.downloadsLeft, -1 for no limit
  downloads, \* recorded in Share.downloads (which keeps the last 100)
  known,     \* chunks the Source has hashed
  rtcs,      \* Share.peers: the sessions whose rtc is set
  pc,        \* of the goroutine of each session
  conn,      \* its connection: "none"; "open"; "draining": nothing can be
             \* written, frames can still be read; "closed"
  ask,       \* the REQ it serves: chunks next .. end-1 are left
  last,      \* session.lastRequested
  doneSent,  \* session.doneSent
  late,      \* history: the sessions that registered after stop's snapshot
  orphans    \* history: the sessions whose rtc a peer-join dropped before it

stopVars == <<stopped, stopper, why, snapRtcs, snapSessions, cancelled, deleted>>
timers == <<expiry, doneTimer>>
countVars == <<left, downloads>>
peers == <<rtcs, orphans>>
sessionVars == <<pc, conn, ask, last, doneSent, late>>
vars == <<place, stopVars, loop, timers, countVars, known, peers, sessionVars>>

NoAsk == [next |-> 0, end |-> 0, count |-> 0]
Serving == {"serving", "sending", "write", "reply", "check", "count"}
sessions == {s \in Session : pc[s] \in Serving}     \* Share.sessions
exhausted == stopped \/ left = 0

(* Close on this side.  On a QUIC stream it ends the write direction only, *)
(* and a data channel still hands out what has arrived (conn.go:148-160).  *)
Closed(s) == [conn EXCEPT ![s] = IF @ = "open" THEN "draining" ELSE @]

Init ==
  /\ place = "starting"
  /\ stopped = FALSE /\ stopper = "none" /\ why = "none"
  /\ snapRtcs = {} /\ snapSessions = {} /\ cancelled = FALSE /\ deleted = FALSE
  /\ loop = "up" /\ expiry \in BOOLEAN /\ doneTimer = FALSE
  /\ left = (IF Cap > 0 THEN Cap ELSE -1) /\ downloads = 0
  /\ known = {} /\ rtcs = {}
  /\ pc = [s \in Session |-> "out"] /\ conn = [s \in Session |-> "none"]
  /\ ask = [s \in Session |-> NoAsk]
  /\ last = [s \in Session |-> FALSE] /\ doneSent = [s \in Session |-> FALSE]
  /\ late = {} /\ orphans = {}
-----------------------------------------------------------------------------
(* Host: the map of shares *)

(* Add or resume puts the share in the map, after start has begun to serve *)
Insert ==
  /\ place = "starting" /\ place' = "live"
  /\ UNCHANGED <<stopVars, loop, timers, countVars, known, peers, sessionVars>>

(* Remove: out of the map, under h.mu, and then stop.  If the share is not *)
(* in the map ("no such share") nothing happens.                           *)
Remove(reason) ==
  IF place = "live"
  THEN /\ place' = "gone" /\ stopper' = "flag" /\ why' = reason
       /\ UNCHANGED <<stopped, snapRtcs, snapSessions, cancelled, deleted>>
  ELSE UNCHANGED <<place, stopVars>>

(* The user revokes the share, or Close takes every share ("gone"). *)
Revoke ==
  /\ place = "live"
  /\ \E reason \in {"revoked", "gone"} : Remove(reason)
  /\ UNCHANGED <<loop, timers, countVars, known, peers, sessionVars>>

Expire ==
  /\ expiry /\ expiry' = FALSE
  /\ Remove("expired")
  /\ UNCHANGED <<loop, doneTimer, countVars, known, peers, sessionVars>>

(* The timer of completed, 5 seconds later; Add takes less to insert.  *)
DoneFires ==
  /\ doneTimer /\ place # "starting" /\ doneTimer' = FALSE
  /\ Remove("done")
  /\ UNCHANGED <<loop, expiry, countVars, known, peers, sessionVars>>
-----------------------------------------------------------------------------
(* stop *)

(* Mutant: only the peers are closed. *)
StopFlagNoSessions ==
  /\ stopper = "flag" /\ stopper' = "bye"
  /\ stopped' = TRUE
  /\ snapRtcs' = rtcs /\ snapSessions' = {}
  /\ expiry' = FALSE
  /\ UNCHANGED <<place, why, cancelled, deleted, loop, doneTimer, countVars,
                 known, peers, sessionVars>>

(* Under sh.mu: the flag, the expiry timer, and what is to be closed. *)
StopFlag ==
  /\ stopper = "flag" /\ stopper' = "bye"
  /\ stopped' = TRUE
  /\ snapRtcs' = rtcs /\ snapSessions' = sessions
  /\ expiry' = FALSE
  /\ UNCHANGED <<place, why, cancelled, deleted, loop, doneTimer, countVars,
                 known, peers, sessionVars>>

(* Bye to every peer (5 seconds at most), then the context is cancelled. *)
StopBye ==
  /\ stopper = "bye" /\ stopper' = "close"
  /\ cancelled' = TRUE
  /\ UNCHANGED <<place, stopped, why, snapRtcs, snapSessions, deleted, loop,
                 timers, countVars, known, peers, sessionVars>>

(* The connections are closed one by one, those of the peers first. *)
StopClose ==
  /\ stopper = "close"
  /\ \/ \E s \in snapRtcs : /\ snapRtcs' = snapRtcs \ {s}
                            /\ conn' = Closed(s)
                            /\ UNCHANGED <<snapSessions, stopper>>
     \/ /\ snapRtcs = {}
        /\ \E s \in snapSessions : /\ snapSessions' = snapSessions \ {s}
                                   /\ conn' = Closed(s)
        /\ UNCHANGED <<snapRtcs, stopper>>
     \/ /\ snapRtcs = {} /\ snapSessions = {} /\ stopper' = "src"
        /\ UNCHANGED <<snapRtcs, snapSessions, conn>>
  /\ UNCHANGED <<place, stopped, why, cancelled, deleted, loop, timers, countVars,
                 known, peers, pc, ask, last, doneSent, late>>

(* Source.Close forgets the open files; a later read opens them again. *)
StopReturns ==
  /\ stopper = "src" /\ stopper' = "returned"
  /\ deleted' = (why \in {"revoked", "done"}) /\ why' = "none"
  /\ UNCHANGED <<place, stopped, snapRtcs, snapSessions, cancelled, loop,
                 timers, countVars, known, peers, sessionVars>>
-----------------------------------------------------------------------------
(* The signaling loop *)

(* The server says not-found, gone, unauthorized or replaced. *)
LoopGone ==
  /\ loop \in {"up", "dialing"} /\ ~cancelled /\ loop' = "over"
  /\ Remove("gone")
  /\ UNCHANGED <<timers, countVars, known, peers, sessionVars>>

LoopLost ==
  /\ loop = "up" /\ ~cancelled /\ loop' = "dialing"
  /\ UNCHANGED <<place, stopVars, timers, countVars, known, peers, sessionVars>>

(* DialHost succeeded, perhaps before the context was cancelled. *)
LoopReconnects ==
  /\ loop = "dialing" /\ loop' = "up"
  /\ UNCHANGED <<place, stopVars, timers, countVars, known, peers, sessionVars>>

LoopCancelled ==
  /\ loop \in {"up", "dialing"} /\ cancelled /\ loop' = "over"
  /\ UNCHANGED <<place, stopVars, timers, countVars, known, peers, sessionVars>>

(* A peer's SDP offer; HostAnswer takes its time. *)
Offer(s) ==
  /\ loop = "up" /\ s \in Rtc /\ pc[s] = "out"
  /\ loop' = "answering" /\ pc' = [pc EXCEPT ![s] = "offer"]
  /\ UNCHANGED <<place, stopVars, timers, countVars, known, peers, conn, ask,
                 last, doneSent, late>>

(* HostAnswer failed. *)
OfferFails(s) ==
  /\ loop = "answering" /\ pc[s] = "offer"
  /\ loop' = "up" /\ pc' = [pc EXCEPT ![s] = "over"]
  /\ UNCHANGED <<place, stopVars, timers, countVars, known, peers, conn, ask,
                 last, doneSent, late>>

(* The peer's rtc is set before the answer is sent; if Send fails it is    *)
(* closed, else a goroutine waits for the data channel.                    *)
Answered(s) ==
  /\ loop = "answering" /\ pc[s] = "offer"
  /\ loop' = "up" /\ rtcs' = rtcs \cup {s} /\ UNCHANGED orphans
  /\ \/ pc' = [pc EXCEPT ![s] = "auth"] /\ conn' = [conn EXCEPT ![s] = "open"]
     \/ pc' = [pc EXCEPT ![s] = "over"] /\ UNCHANGED conn
  /\ UNCHANGED <<place, stopVars, timers, countVars, known, ask, last, doneSent, late>>

(* dropPeer: the peer left, said Bye, or sends another offer. *)
DropPeer ==
  /\ loop = "up"
  /\ \E s \in rtcs : rtcs' = rtcs \ {s} /\ conn' = Closed(s)
  /\ UNCHANGED <<place, stopVars, loop, timers, countVars, known, orphans, pc, ask,
                 last, doneSent, late>>

(* A peer is announced, again if the host comes back while it is there:    *)
(* run gives it a fresh entry, and the rtc of the old one is not closed.   *)
PeerJoins ==
  /\ loop = "up"
  /\ \E s \in rtcs : /\ rtcs' = rtcs \ {s}
                     /\ orphans' = IF stopped THEN orphans ELSE orphans \cup {s}
  /\ UNCHANGED <<place, stopVars, loop, timers, countVars, known, sessionVars>>
-----------------------------------------------------------------------------
(* A data session *)

(* The goroutine goes from a to b, and changes nothing else of its own. *)
Moves(s, a, b) ==
  /\ pc[s] = a /\ pc' = [pc EXCEPT ![s] = b]
  /\ UNCHANGED <<place, stopVars, loop, timers, peers>>

(* It returns, closing its connection; serve's defer forgets the session,  *)
(* and all it was.                                                         *)
Ends(s, a) ==
  /\ Moves(s, a, "over") /\ conn' = [conn EXCEPT ![s] = "closed"]
  /\ ask' = [ask EXCEPT ![s] = NoAsk]
  /\ last' = [last EXCEPT ![s] = FALSE]
  /\ doneSent' = [doneSent EXCEPT ![s] = FALSE]
  /\ UNCHANGED <<countVars, known, late>>

Connect(s) ==
  /\ s \notin Rtc /\ Moves(s, "out", "auth")
  /\ conn' = [conn EXCEPT ![s] = "open"]
  /\ UNCHANGED <<countVars, known, ask, last, doneSent, late>>

(* handleStream finds the share in the map by the proof in AUTH; the data  *)
(* channel of a WebRTC peer opens.                                         *)
Authenticate(s) ==
  /\ s \notin Rtc => place = "live"
  /\ Moves(s, "auth", "known")
  /\ UNCHANGED <<countVars, known, conn, ask, last, doneSent, late>>

(* No such share, a bad AUTH, a timeout, or a cancelled context. *)
AuthFails(s) == Ends(s, "auth")

(* exhausted(): the one place where a session may be turned away. *)
Admit(s) ==
  /\ ~exhausted
  /\ Moves(s, "known", "admitted")
  /\ UNCHANGED <<countVars, known, conn, ask, last, doneSent, late>>

TurnAway(s) == exhausted /\ Ends(s, "known")

(* MANIFEST-ACK is written and serve registers the session. *)
Register(s) ==
  /\ conn[s] = "open"
  /\ Moves(s, "admitted", "serving")
  /\ late' = IF stopped THEN late \cup {s} ELSE late
  /\ UNCHANGED <<countVars, known, conn, ask, last, doneSent>>

AckFails(s) == Ends(s, "admitted")

(* The receiver or the network closes the connection.  (Earlier than that: *)
(* AuthFails and AckFails.)                                                *)
Disconnect(s) ==
  /\ s \in sessions /\ conn[s] = "open" /\ conn' = Closed(s)
  /\ UNCHANGED <<place, stopVars, loop, timers, countVars, known, peers, pc, ask,
                 last, doneSent, late>>

(* A data channel is drained; the receiver of a QUIC stream closes it when *)
(* it reads its end, or falls silent for the idle timeout.                 *)
Drained(s) ==
  /\ s \in sessions /\ conn[s] = "draining"
  /\ conn' = [conn EXCEPT ![s] = "closed"]
  /\ UNCHANGED <<place, stopVars, loop, timers, countVars, known, peers, pc, ask,
                 last, doneSent, late>>

ReadFails(s) == conn[s] = "closed" /\ Ends(s, "serving")

(* REQ first, count; outside the file it is an error. *)
TakeReq(s) ==
  /\ conn[s] # "closed"
  /\ \E first \in 0 .. Chunks, count \in 0 .. Chunks + 1 :
       IF first + count > Chunks
       THEN Ends(s, "serving")
       ELSE /\ Moves(s, "serving", "sending")
            /\ ask' = [ask EXCEPT ![s] = [next |-> first, end |-> first + count,
                                          count |-> count]]
            /\ UNCHANGED <<countVars, known, conn, last, doneSent, late>>

(* Mutant: the flag is not looked at. *)
NextChunkUnchecked(s) ==
  /\ ask[s].next < ask[s].end
  /\ Moves(s, "sending", "write")
  /\ known' = known \cup {ask[s].next}
  /\ UNCHANGED <<countVars, conn, ask, last, doneSent, late>>

(* isStopped is FALSE, and the chunk is read. *)
NextChunk(s) ==
  /\ ask[s].next < ask[s].end /\ ~stopped
  /\ Moves(s, "sending", "write")
  /\ known' = known \cup {ask[s].next}
  /\ UNCHANGED <<countVars, conn, ask, last, doneSent, late>>

Refuse(s) == ask[s].next < ask[s].end /\ stopped /\ Ends(s, "sending")

WriteChunk(s) ==
  /\ conn[s] = "open"
  /\ Moves(s, "write", "sending")
  /\ ask' = [ask EXCEPT ![s].next = @ + 1]
  /\ UNCHANGED <<countVars, known, conn, last, doneSent, late>>

WriteFails(s) == conn[s] # "open" /\ Ends(s, "write")

ReqServed(s) ==
  /\ ask[s].next = ask[s].end
  /\ Moves(s, "sending", "check")
  /\ last' = [last EXCEPT ![s] = @ \/ (ask[s].count > 0 /\ ask[s].end = Chunks)]
  /\ ask' = [ask EXCEPT ![s] = NoAsk]
  /\ UNCHANGED <<countVars, known, conn, doneSent, late>>

(* HASH-REQ: what is not known is read, then the reply is written. *)
TakeHashReq(s) ==
  /\ conn[s] # "closed"
  /\ Moves(s, "serving", "reply")
  /\ \E a, b \in 0 .. Chunks : known' = known \cup (a .. b - 1)
  /\ UNCHANGED <<countVars, conn, ask, last, doneSent, late>>

WriteHash(s) ==
  /\ conn[s] = "open"
  /\ Moves(s, "reply", "check")
  /\ UNCHANGED <<countVars, known, conn, ask, last, doneSent, late>>

HashFails(s) == conn[s] # "open" /\ Ends(s, "reply")

(* CANCEL, or a frame serve does not know. *)
TakeOther(s) ==
  /\ conn[s] # "closed"
  /\ Moves(s, "serving", "check")
  /\ UNCHANGED <<countVars, known, conn, ask, last, doneSent, late>>

(* Mutant: DONE is sent and counted again for every frame. *)
MayFinishAgain(s) == (last[s] \/ Chunks = 0) /\ known = Chunk
MayFinish(s) == ~doneSent[s] /\ (last[s] \/ Chunks = 0) /\ known = Chunk

NotDone(s) ==
  /\ ~MayFinish(s)
  /\ Moves(s, "check", "serving")
  /\ UNCHANGED <<countVars, known, conn, ask, last, doneSent, late>>

SendDone(s) ==
  /\ MayFinish(s) /\ conn[s] = "open"
  /\ Moves(s, "check", "count")
  /\ doneSent' = [doneSent EXCEPT ![s] = TRUE]
  /\ UNCHANGED <<countVars, known, conn, ask, last, late>>

DoneFails(s) == MayFinish(s) /\ conn[s] # "open" /\ Ends(s, "check")

(* Mutant: the timer is set by the download that finds none left. *)
countedLate(n) == [left |-> IF n > 0 THEN n - 1 ELSE n, last |-> n = 0]
(* Mutant: the count goes below 0, where it means "no limit". *)
countedBelow(n) == [left |-> n - 1, last |-> n - 1 = 0]
(* What completed makes of downloadsLeft, and whether that was the last. *)
counted(n) ==
  LET m == IF n > 0 THEN n - 1 ELSE n IN [left |-> m, last |-> m = 0]

(* completed, under sh.mu; its save is in HostStore. *)
Completed(s) ==
  /\ pc[s] = "count" /\ pc' = [pc EXCEPT ![s] = "serving"]
  /\ left' = counted(left).left /\ downloads' = downloads + 1
  /\ doneTimer' = (doneTimer \/ counted(left).last)
  /\ UNCHANGED <<place, stopVars, loop, expiry, known, peers, conn, ask, last,
                 doneSent, late>>
-----------------------------------------------------------------------------
HostNext == Insert \/ Revoke \/ Expire \/ DoneFires
StopNext == StopFlag \/ StopBye \/ StopClose \/ StopReturns
LoopNext ==
  \/ LoopGone \/ LoopLost \/ LoopReconnects \/ LoopCancelled \/ DropPeer \/ PeerJoins
  \/ \E s \in Session : Offer(s) \/ OfferFails(s) \/ Answered(s)
Entry(s) ==
  \/ Authenticate(s) \/ AuthFails(s) \/ Admit(s) \/ TurnAway(s)
  \/ Register(s) \/ AckFails(s)
Peer(s) ==
  \/ Connect(s) \/ Disconnect(s) \/ TakeReq(s) \/ TakeHashReq(s) \/ TakeOther(s)
Serve(s) ==
  \/ ReadFails(s) \/ NextChunk(s) \/ Refuse(s) \/ WriteChunk(s)
  \/ WriteFails(s) \/ ReqServed(s) \/ WriteHash(s) \/ HashFails(s) \/ NotDone(s) \/ SendDone(s)
  \/ DoneFails(s) \/ Completed(s)
Next ==
  \/ HostNext \/ StopNext \/ LoopNext
  \/ \E s \in Session : Entry(s) \/ Peer(s) \/ Drained(s) \/ Serve(s)

Spec == Init /\ [][Next]_vars

(* Goroutines that can go on do, and the timers fire; nobody has to        *)
(* connect, ask, revoke or let the share expire.                           *)
Fairness ==
  /\ WF_vars(Insert) /\ WF_vars(DoneFires) /\ WF_vars(StopNext)
  /\ WF_vars(LoopCancelled)
  /\ \A s \in Session :
       /\ WF_vars(OfferFails(s) \/ Answered(s) \/ Entry(s) \/ Serve(s))
       /\ WF_vars(Drained(s))

FairSpec == Spec /\ Fairness
-----------------------------------------------------------------------------
(* Properties *)

TypeOK ==
  /\ place \in {"starting", "live", "gone"}
  /\ stopped \in BOOLEAN /\ cancelled \in BOOLEAN /\ deleted \in BOOLEAN
  /\ stopper \in {"none", "flag", "bye", "close", "src", "returned"}
  /\ why \in {"none", "revoked", "gone", "expired", "done"}
  /\ snapRtcs \subseteq Rtc /\ snapSessions \subseteq Session
  /\ loop \in {"up", "answering", "dialing", "over"}
  /\ expiry \in BOOLEAN /\ doneTimer \in BOOLEAN
  /\ left \in -1 .. Cap /\ downloads \in Nat
  /\ known \subseteq Chunk /\ rtcs \subseteq Rtc
  /\ pc \in [Session -> {"out", "offer", "auth", "known", "admitted", "over"}
                        \cup Serving]
  /\ conn \in [Session -> {"none", "open", "draining", "closed"}]
  /\ ask \in [Session -> [next : 0 .. Chunks, end : 0 .. Chunks,
                          count : 0 .. Chunks]]
  /\ last \in [Session -> BOOLEAN] /\ doneSent \in [Session -> BOOLEAN]
  /\ late \subseteq Session /\ orphans \subseteq Rtc

(* The downloads left and the downloads recorded agree, however many       *)
(* sessions finish at once; a limit that is reached stays reached, and     *)
(* never turns into -1, "no limit".                                        *)
CapAccounting ==
  /\ Cap = 0 => left = -1
  /\ Cap > 0 => left = IF downloads < Cap THEN Cap - downloads ELSE 0

(* What stop cannot reach: a session that registered after the snapshot,   *)
(* and whose connection no peer's entry held then, because it is QUIC or   *)
(* because a peer-join had dropped it.                                     *)
Beyond == late \ (Rtc \ orphans)

(* When stop has returned every other session is closed: those of the      *)
(* snapshot, and a WebRTC one that registered behind it, since its peer had*)
(* the connection before it was admitted.                                  *)
StopClosesSessions ==
  stopper = "returned" => \A s \in sessions \ Beyond : conn[s] # "open"

(* The share whose last download was counted leaves the map. *)
ExhaustedLeaves == left = 0 ~> place = "gone"

(* After stop all those sessions end, whatever their receivers still ask.  *)
SessionsEnd == stopped ~> sessions \subseteq Beyond

(* What ShareContract promises holds of the goroutines, at each of their   *)
(* steps: a session that looked at the flag before stop set it, or that    *)
(* registers behind its snapshot, sends nothing when stop has returned;    *)
(* nobody is admitted to a share that is used up; and a download counts    *)
(* once, however often DONE could be sent.                                 *)
Contract == INSTANCE ShareContract WITH
  phase <- IF stopper = "returned" THEN "ended" ELSE IF stopped THEN "ending" ELSE "offered",
  members <- {s \in Session : pc[s] \in Serving \cup {"admitted"}},
  sending <- {s \in Session : pc[s] = "write" /\ conn[s] = "open"},
  finished <- {s \in Session : doneSent[s] /\ pc[s] # "count"}

KeepsContract == Contract!Spec
=============================================================================
