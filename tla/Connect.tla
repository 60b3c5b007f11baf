------------------------------ MODULE Connect ------------------------------
(***************************************************************************)
(* How Receive gets from a link to a manifest, and hears that the host has *)
(* gone (Receive in internal/peer/peer.go, internal/signal/client.go, the  *)
(* HELLO handler of internal/host/share.go): one goroutine reads the       *)
(* signaling socket and puts what it reads into four channels of fixed     *)
(* size; Receive takes from them, from different ones at different times.  *)
(***************************************************************************)
EXTENDS Naturals, Sequences

CONSTANTS
  OnlineCap,  \* cap(hostOnline)
  RtcCap,     \* cap(rtcMsgs)
  MaxRtc,     \* SDP and ICE messages the host sends
  MaxFlaps    \* times the host goes away

ASSUME ConnectAssumption ==
  /\ OnlineCap \in Nat \ {0} /\ RtcCap \in Nat \ {0}
  /\ MaxRtc \in Nat /\ MaxFlaps \in Nat

VARIABLES
  pc,         \* Receive: "wait", "race", "run", "cut": the stream of the
              \* download has ended, "returned"
  gor,        \* the goroutine: "recv", "put": blocked on rtcMsgs, "over"
  sock,       \* "up", "dead": nothing arrives and nobody closed it, "closed"
  inbox,      \* frames that arrived and were not read
  manifestCh, rtcMsgs, hostOnline, errCh,   \* the channels
  host,       \* the host is connected to the server
  hellos,     \* HELLO messages on their way to it
  hearing,    \* its signaling loop is in refreshPublic
  said,       \* history: the host said Bye
  missed,     \* history: a host-online was dropped, with none before it waiting
  mute,       \* history: the host that is there could not send its manifest
  flaps, rtcSent

vars == <<pc, gor, sock, inbox, manifestCh, rtcMsgs, hostOnline, errCh, host,
          hellos, hearing, said, missed, mute, flaps, rtcSent>>
chans == <<manifestCh, rtcMsgs, hostOnline, errCh>>
hostVars == <<host, hellos, hearing, said, missed, mute, flaps, rtcSent>>

ctxDone == pc = "returned"
Frame == {"host-online", "host-offline", "manifest", "rtc", "bye", "error"}

(* DialPeer has returned: HELLO was sent if the welcome says that the host *)
(* is there.  A frame that came before the welcome is kept for Recv.       *)
Init ==
  /\ pc = "wait" /\ gor = "recv" /\ sock = "up"
  /\ inbox \in {<<>>, <<"host-online">>}
  /\ manifestCh = <<>> /\ rtcMsgs = 0 /\ hostOnline = <<>> /\ errCh = <<>>
  /\ host \in BOOLEAN /\ hellos = IF host THEN 1 ELSE 0
  /\ hearing = FALSE /\ said = FALSE /\ missed = FALSE /\ mute = FALSE
  /\ flaps = 0 /\ rtcSent = 0
-----------------------------------------------------------------------------
(* The server and the host *)

Arrive(frames) == inbox' = IF sock = "up" THEN inbox \o frames ELSE inbox

(* It crashes, loses its socket, or stops the share and says so. *)
HostLeaves(bye) ==
  /\ host /\ flaps < MaxFlaps
  /\ host' = FALSE /\ hellos' = 0 /\ hearing' = FALSE /\ mute' = FALSE
  /\ said' = (said \/ (bye /\ sock = "up")) /\ flaps' = flaps + 1
  /\ Arrive(IF bye THEN <<"bye", "host-offline">> ELSE <<"host-offline">>)
  /\ UNCHANGED <<pc, gor, sock, chans, missed, rtcSent>>

HostComes ==
  /\ ~host /\ host' = TRUE
  /\ Arrive(<<"host-online">>)
  /\ UNCHANGED <<pc, gor, sock, chans, hellos, hearing, said, missed, mute, flaps,
                 rtcSent>>

(* Share.handle: the proof is right, and the host asks its STUN servers... *)
HostHears ==
  /\ hellos > 0 /\ ~hearing
  /\ hellos' = hellos - 1 /\ hearing' = TRUE
  /\ UNCHANGED <<pc, gor, sock, inbox, chans, host, said, missed, mute, flaps, rtcSent>>

(* ...before it sends its manifest.  Send refuses more than 48 KiB, which  *)
(* the list of the files of a folder may be, and the handler ignores it:   *)
(* the receiver hears nothing.                                             *)
HostAnswers ==
  /\ hearing /\ hearing' = FALSE
  /\ \/ Arrive(<<"manifest">>) /\ UNCHANGED mute
     \/ mute' = TRUE /\ UNCHANGED inbox
  /\ UNCHANGED <<pc, gor, sock, chans, host, hellos, said, missed, flaps, rtcSent>>

(* The answer to our offer, and the ICE candidates after it. *)
HostTrickles ==
  /\ host /\ pc \in {"race", "run", "cut"} /\ rtcSent < MaxRtc
  /\ rtcSent' = rtcSent + 1
  /\ Arrive(<<"rtc">>)
  /\ UNCHANGED <<pc, gor, sock, chans, host, hellos, hearing, said,
                 missed, mute, flaps>>

(* The server closes the socket or sends an error frame other than         *)
(* "unroutable".                                                           *)
ServerEnds ==
  /\ sock = "up" /\ sock' = "closed"
  /\ inbox' = Append(inbox, "error")
  /\ UNCHANGED <<pc, gor, chans, hostVars>>

(* A proxy keeps the TCP connection of a server that is gone. *)
SocketDies ==
  /\ sock = "up" /\ sock' = "dead"
  /\ UNCHANGED <<pc, gor, inbox, chans, hostVars>>
-----------------------------------------------------------------------------
(* The goroutine *)

Reads(f) == gor = "recv" /\ inbox # <<>> /\ Head(inbox) = f /\ inbox' = Tail(inbox)
(* A send in a select with a default: dropped if the channel is full. *)
Offer(ch, cap, v) == IF Len(ch) < cap THEN Append(ch, v) ELSE ch

ReadPresence(f) ==
  /\ f \in {"host-online", "host-offline"} /\ Reads(f)
  /\ hostOnline' = Offer(hostOnline, OnlineCap, f = "host-online")
  /\ missed' = (missed \/ (/\ f = "host-online" /\ Len(hostOnline) = OnlineCap
                          /\ \A i \in 1 .. OnlineCap : ~hostOnline[i]))
  /\ UNCHANGED <<pc, gor, sock, manifestCh, rtcMsgs, errCh, host, hellos,
                 hearing, said, mute, flaps, rtcSent>>

ReadManifest ==
  /\ Reads("manifest")
  /\ manifestCh' = Offer(manifestCh, 1, "manifest")
  /\ UNCHANGED <<pc, gor, sock, rtcMsgs, hostOnline, errCh, hostVars>>

ReadRtc ==
  /\ Reads("rtc")
  /\ gor' = "put"
  /\ UNCHANGED <<pc, sock, chans, hostVars>>

(* This send has no default: it waits for room... *)
Put ==
  /\ gor = "put" /\ rtcMsgs < RtcCap
  /\ gor' = "recv" /\ rtcMsgs' = rtcMsgs + 1
  /\ UNCHANGED <<pc, sock, inbox, manifestCh, hostOnline, errCh, hostVars>>

(* Mutant: the send waits for room only. *)
PutForever == FALSE
(* ...or for the end of Receive. *)
PutCancelled ==
  /\ gor = "put" /\ ctxDone
  /\ gor' = "over"
  /\ UNCHANGED <<pc, sock, inbox, chans, hostVars>>

ReadBye ==
  /\ Reads("bye")
  /\ errCh' = Offer(errCh, 1, "bye")
  /\ UNCHANGED <<pc, gor, sock, manifestCh, rtcMsgs, hostOnline, hostVars>>

(* Mutant: the goroutine returns without a word. *)
ReadErrorSilent ==
  /\ Reads("error")
  /\ gor' = "over"
  /\ UNCHANGED <<pc, sock, chans, hostVars>>
ReadError ==
  /\ Reads("error")
  /\ errCh' = Offer(errCh, 1, "error") /\ gor' = "over"
  /\ UNCHANGED <<pc, sock, manifestCh, rtcMsgs, hostOnline, hostVars>>

(* Mutant: Recv waits for as long as the connection looks open. *)
RecvFailsOnCancel ==
  /\ gor = "recv" /\ ctxDone
  /\ errCh' = Offer(errCh, 1, "error") /\ gor' = "over"
  /\ UNCHANGED <<pc, sock, inbox, manifestCh, rtcMsgs, hostOnline, hostVars>>
(* Recv fails: Receive has returned; or 75 s without a frame, which is     *)
(* more than two pings of a live server leave.                             *)
RecvFails ==
  /\ gor = "recv" /\ (ctxDone \/ (sock = "dead" /\ inbox = <<>>))
  /\ errCh' = Offer(errCh, 1, "error") /\ gor' = "over"
  /\ UNCHANGED <<pc, sock, inbox, manifestCh, rtcMsgs, hostOnline, hostVars>>
-----------------------------------------------------------------------------
(* Receive *)

(* From anywhere: an interrupt, or a file that cannot be opened; the       *)
(* deferred calls cancel the context and close the socket.                 *)
Quit ==
  /\ pc # "returned" /\ pc' = "returned"
  /\ UNCHANGED <<gor, sock, inbox, chans, hostVars>>

TakeManifest ==
  /\ pc = "wait" /\ manifestCh # <<>>
  /\ pc' = "race" /\ manifestCh' = Tail(manifestCh)
  /\ UNCHANGED <<gor, sock, inbox, rtcMsgs, hostOnline, errCh, hostVars>>

(* Mutant: HELLO is sent to the host of the welcome only. *)
TakeOnlineSilent ==
  /\ pc = "wait" /\ hostOnline # <<>>
  /\ hostOnline' = Tail(hostOnline)
  /\ UNCHANGED <<pc, gor, sock, inbox, manifestCh, rtcMsgs, errCh, hostVars>>
(* HELLO again; it is lost if the host is gone, or the socket is.          *)
TakeOnline ==
  /\ pc = "wait" /\ hostOnline # <<>>
  /\ hostOnline' = Tail(hostOnline)
  /\ hellos' = IF Head(hostOnline) /\ host /\ sock = "up" THEN hellos + 1 ELSE hellos
  /\ UNCHANGED <<pc, gor, sock, inbox, manifestCh, rtcMsgs, errCh, host,
                 hearing, said, missed, mute, flaps, rtcSent>>

HelloFails ==
  /\ pc = "wait" /\ hostOnline # <<>> /\ Head(hostOnline) /\ sock # "up"
  /\ hostOnline' = Tail(hostOnline) /\ pc' = "returned"
  /\ UNCHANGED <<gor, sock, inbox, manifestCh, rtcMsgs, errCh, hostVars>>

(* helloTimeout *)
GiveUp ==
  /\ pc = "wait" /\ pc' = "returned"
  /\ UNCHANGED <<gor, sock, inbox, chans, hostVars>>

TakeErr ==
  /\ pc = "wait" /\ errCh # <<>>
  /\ pc' = "returned" /\ errCh' = Tail(errCh)
  /\ UNCHANGED <<gor, sock, inbox, manifestCh, rtcMsgs, hostOnline, hostVars>>

(* Only the WebRTC candidate reads rtcMsgs, and only during the race.      *)
ReadMsg ==
  /\ pc = "race" /\ rtcMsgs > 0
  /\ rtcMsgs' = rtcMsgs - 1
  /\ UNCHANGED <<pc, gor, sock, inbox, manifestCh, hostOnline, errCh, hostVars>>

(* transport.Race returns, see module Race. *)
RaceReturns ==
  /\ pc = "race" /\ pc' \in {"run", "returned"}
  /\ UNCHANGED <<gor, sock, inbox, chans, hostVars>>

(* The host closes the stream, or the connection is lost.                  *)
StreamEnds ==
  /\ pc = "run" /\ pc' = "cut"
  /\ UNCHANGED <<gor, sock, inbox, chans, hostVars>>

(* readFrame fails, and only then run looks whether something was said     *)
(* that explains it.                                                       *)
ReadFails ==
  /\ pc = "cut" /\ pc' = "returned"
  /\ errCh' = IF errCh # <<>> THEN Tail(errCh) ELSE errCh
  /\ UNCHANGED <<gor, sock, inbox, manifestCh, rtcMsgs, hostOnline, hostVars>>

(* The download ends with what had come, see module Transfer. *)
RunReturns ==
  /\ pc \in {"run", "cut"} /\ pc' = "returned"
  /\ UNCHANGED <<gor, sock, inbox, chans, hostVars>>
-----------------------------------------------------------------------------
HostNext == HostComes \/ HostHears \/ HostAnswers \/ HostTrickles \/ (\E b \in BOOLEAN : HostLeaves(b))
Goroutine ==
  \/ \E f \in Frame : ReadPresence(f)
  \/ ReadManifest \/ ReadRtc \/ Put \/ PutCancelled \/ ReadBye \/ ReadError \/ RecvFails
Select == TakeManifest \/ TakeOnline \/ HelloFails \/ TakeErr
Next ==
  \/ HostNext \/ ServerEnds \/ SocketDies
  \/ Goroutine
  \/ Select \/ Quit \/ GiveUp \/ ReadMsg \/ RaceReturns
  \/ StreamEnds \/ ReadFails \/ RunReturns

Spec == Init /\ [][Next]_vars

(* Goroutines that can go on do; a host that is there hears and answers;   *)
(* the race ends, and a read of a stream that has ended fails.  No timeout  *)
(* of Receive is needed, no interrupt, and no download has to end.         *)
Fairness ==
  /\ WF_vars(HostHears) /\ WF_vars(HostAnswers)
  /\ WF_vars(Goroutine) /\ WF_vars(Select) /\ WF_vars(RaceReturns)
  /\ WF_vars(ReadFails)

FairSpec == Spec /\ Fairness
-----------------------------------------------------------------------------
(* Properties *)

TypeOK ==
  /\ pc \in {"wait", "race", "run", "cut", "returned"}
  /\ gor \in {"recv", "put", "over"} /\ sock \in {"up", "dead", "closed"}
  /\ inbox \in Seq(Frame)
  /\ manifestCh \in Seq({"manifest"}) /\ Len(manifestCh) <= 1
  /\ rtcMsgs \in 0 .. RtcCap
  /\ hostOnline \in Seq(BOOLEAN) /\ Len(hostOnline) <= OnlineCap
  /\ errCh \in Seq({"bye", "error"}) /\ Len(errCh) <= 1
  /\ host \in BOOLEAN /\ hellos \in Nat /\ hearing \in BOOLEAN
  /\ said \in BOOLEAN /\ missed \in BOOLEAN /\ mute \in BOOLEAN
  /\ flaps \in 0 .. MaxFlaps /\ rtcSent \in 0 .. MaxRtc

(* A frame that arrived and is not read yet. *)
Unread(f) == \E k \in DOMAIN inbox : inbox[k] = f

(* As long as Receive waits and the host is there, it is asked: a HELLO is *)
(* on the way, or the host works at its answer, or the answer or the       *)
(* presence that makes Receive ask again is somewhere between the socket   *)
(* and the select - unless that found hostOnline full of host-offline, or  *)
(* this host was asked and its manifest was too long to be sent            *)
(* (peer.go:134-138, 199-207; share.go:355).                               *)
AskUnderWay ==
  pc = "wait" /\ host /\ sock = "up" /\ ~missed /\ ~mute =>
    \/ hellos > 0 \/ hearing \/ Unread("manifest") \/ manifestCh # <<>>
    \/ Unread("host-online") \/ \E k \in DOMAIN hostOnline : hostOnline[k]

(* As long as Receive does not know that the host or its socket has gone,  *)
(* the news is in errCh, or there is a goroutine to read it, or to time out*)
(* (peer.go:122-166): no frame of the end is dropped or left unread.       *)
EndUnderWay ==
  (said \/ sock # "up") /\ pc # "returned" =>
    \/ errCh # <<>>
    \/ gor # "over" /\ (Unread("bye") \/ Unread("error") \/ sock = "dead")

(* A host that came to stay is asked, although a HELLO to a host that just *)
(* left is lost and frames are dropped when hostOnline is full: what loses *)
(* the host is only a channel full of host-offline (peer.go:136).  Its     *)
(* answer ends the wait; if it is too long to be sent (share.go:355),      *)
(* nothing but helloTimeout does.                                          *)
HostIsAsked == <>[](host /\ sock = "up") => <>(pc # "wait" \/ missed \/ mute)

(* A Receive that waits, races or whose stream has ended comes to its end  *)
(* when the host says Bye or the signaling socket is gone, also one that   *)
(* nobody closed; only a download over a stream that lives goes on.  The   *)
(* exception is a goroutine stuck on an SDP or ICE message that nobody     *)
(* reads any more (peer.go:157).                                           *)
EndIsHeard == (said \/ sock # "up") ~> (pc \in {"run", "returned"} \/ gor = "put")

(* The goroutine does not outlive Receive, also when it was stuck.         *)
GoroutineEnds == pc = "returned" ~> gor = "over"
=============================================================================
