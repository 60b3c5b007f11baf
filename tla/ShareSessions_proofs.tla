------------------------ MODULE ShareSessions_proofs ------------------------
(***************************************************************************)
(* The safety properties of ShareSessions for any sessions, chunks and     *)
(* download limit, and that it implements ShareContract.  The inductive    *)
(* invariant, Inv, is about who can still be sent data while stop runs.    *)
(***************************************************************************)
EXTENDS ShareSessions, TLAPS

(* Those that were admitted and did not end: the members of the contract.  *)
Admitted == {s \in Session : pc[s] \in Serving \cup {"admitted"}}
IsOpen(s) == conn[s] = "open"

StopOrder ==
  /\ place # "gone" => stopper = "none"
  /\ stopped <=> stopper \notin {"none", "flag"}
  /\ stopper \in {"src", "returned"} => snapRtcs = {} /\ snapSessions = {}

(* What stop has still to close: the sessions of its snapshot...           *)
SessionsListed ==
  /\ ~stopped => late = {}
  /\ stopped => \A s \in sessions \ late : IsOpen(s) => s \in snapSessions
(* ...and the peers of its snapshot, which were peers before they were     *)
(* admitted, but for those whose rtc a peer-join has dropped.              *)
PeersListed ==
  /\ ~stopped => \A s \in Rtc :
       IsOpen(s) /\ pc[s] \in {"auth", "known", "admitted"} \cup Serving => s \in rtcs \cup orphans
  /\ stopped => \A s \in Rtc : IsOpen(s) /\ s \in Admitted => s \in snapRtcs \cup orphans

(* Only WebRTC peers make offers.                                          *)
Offering == \A s \in Session : pc[s] = "offer" => s \in Rtc

(* A session that is late never gets a chunk; one at a chunk has more of   *)
(* its REQ to serve; DONE is counted for those who serve.                  *)
LateUnserved == \A s \in late : pc[s] # "write"
AskLeft == \A s \in Session : pc[s] = "write" => ask[s].next < ask[s].end
DoneServing ==
  \A s \in Session : /\ doneSent[s] => pc[s] \in Serving
                     /\ pc[s] = "count" => doneSent[s]

Stopping == StopOrder /\ SessionsListed /\ PeersListed /\ LateUnserved
Serves == Offering /\ AskLeft /\ DoneServing
Inv == TypeOK /\ CapAccounting /\ Stopping /\ Serves
-----------------------------------------------------------------------------
(* Types and the count *)

LEMMA InitInv == ASSUME Init PROVE Inv
<1> USE SessionsAssumption DEF Init
<1>1. TypeOK
  <2>1. left \in -1 .. Cap /\ downloads \in Nat
    OBVIOUS
  <2>2. ask \in [Session -> [next : 0 .. Chunks, end : 0 .. Chunks, count : 0 .. Chunks]]
    BY DEF NoAsk
  <2>3. snapRtcs \subseteq Rtc /\ snapSessions \subseteq Session /\ known \subseteq Chunk
        /\ rtcs \subseteq Rtc /\ late \subseteq Session /\ orphans \subseteq Rtc
    OBVIOUS
  <2> QED BY <2>1, <2>2, <2>3 DEF TypeOK, Serving
<1>2. CapAccounting /\ StopOrder
  BY DEF CapAccounting, StopOrder
<1>3. SessionsListed /\ PeersListed
  BY DEF SessionsListed, PeersListed, IsOpen
<1>4. Offering /\ LateUnserved /\ AskLeft /\ DoneServing
  BY DEF Offering, LateUnserved, AskLeft, DoneServing
<1> QED BY <1>1, <1>2, <1>3, <1>4 DEF Inv, Stopping, Serves

LEMMA RemoveTypes ==
  ASSUME TypeOK, NEW reason \in {"revoked", "gone", "expired", "done"}, Remove(reason)
  PROVE  /\ place' \in {"starting", "live", "gone"}
         /\ stopper' \in {"none", "flag", "bye", "close", "src", "returned"}
         /\ why' \in {"none", "revoked", "gone", "expired", "done"}
         /\ UNCHANGED <<stopped, snapRtcs, snapSessions, cancelled, deleted>>
BY DEF TypeOK, Remove, stopVars

LEMMA HostTypes == ASSUME TypeOK, HostNext \/ StopNext PROVE TypeOK'
<1> USE DEF TypeOK, timers, countVars, peers, sessionVars
<1>1. CASE Insert
  BY <1>1 DEF Insert, stopVars
<1>2. CASE Revoke
  BY <1>2, RemoveTypes DEF Revoke
<1>3. CASE Expire
  BY <1>3, RemoveTypes DEF Expire
<1>4. CASE DoneFires
  BY <1>4, RemoveTypes DEF DoneFires
<1>5. CASE StopFlag
  <2>1. snapRtcs' \subseteq Rtc /\ snapSessions' \subseteq Session
    BY <1>5 DEF StopFlag, sessions
  <2> QED BY <1>5, <2>1 DEF StopFlag
<1>8. CASE StopBye
  BY <1>8 DEF StopBye
<1>7. CASE StopReturns
  <2>1. deleted' \in BOOLEAN
    BY <1>7 DEF StopReturns
  <2>2. why' = "none" /\ stopper' = "returned"
    BY <1>7 DEF StopReturns
  <2> QED BY <1>7, <2>1, <2>2 DEF StopReturns
<1>6. CASE StopClose
  BY <1>6 DEF StopClose, Closed
<1> QED BY <1>1, <1>2, <1>3, <1>4, <1>5, <1>6, <1>7, <1>8 DEF HostNext, StopNext

LEMMA LoopTypes == ASSUME TypeOK, Offering, LoopNext PROVE TypeOK'
<1> USE DEF TypeOK, timers, countVars, peers, sessionVars
<1>1. CASE LoopGone
  BY <1>1, RemoveTypes DEF LoopGone
<1>2. CASE LoopLost \/ LoopReconnects \/ LoopCancelled
  BY <1>2 DEF LoopLost, LoopReconnects, LoopCancelled, stopVars
<1>3. CASE DropPeer
  <2>1. PICK s \in rtcs : rtcs' = rtcs \ {s} /\ conn' = Closed(s)
    BY <1>3 DEF DropPeer
  <2>2. s \in Session
    BY SessionsAssumption
  <2> QED BY <1>3, <2>1, <2>2 DEF DropPeer, Closed, stopVars
<1>6. CASE PeerJoins
  <2>1. PICK s \in rtcs : /\ rtcs' = rtcs \ {s}
                          /\ orphans' = IF stopped THEN orphans ELSE orphans \cup {s}
    BY <1>6 DEF PeerJoins
  <2> QED BY <1>6, <2>1 DEF PeerJoins, stopVars
<1>4. ASSUME NEW s \in Session, Offer(s) \/ OfferFails(s) PROVE TypeOK'
  BY <1>4 DEF Offer, OfferFails, stopVars
<1>5. ASSUME NEW s \in Session, Answered(s) PROVE TypeOK'
  <2>1. rtcs' \subseteq Rtc /\ UNCHANGED orphans
    BY <1>5 DEF Answered, Offering
  <2>2. /\ pc' \in [Session -> {"out", "offer", "auth", "known", "admitted", "over"} \cup Serving]
        /\ conn' \in [Session -> {"none", "open", "draining", "closed"}]
    BY <1>5 DEF Answered
  <2> QED BY <1>5, <2>1, <2>2 DEF Answered, stopVars
<1> QED BY <1>1, <1>2, <1>3, <1>4, <1>5, <1>6 DEF LoopNext

LEMMA MovesTypes ==
  ASSUME TypeOK, NEW s \in Session, NEW a, NEW b, Moves(s, a, b),
         b \in {"out", "offer", "auth", "known", "admitted", "over"} \cup Serving,
         countVars' = countVars,
         known' \subseteq Chunk,
         conn' \in [Session -> {"none", "open", "draining", "closed"}],
         ask' \in [Session -> [next : 0 .. Chunks, end : 0 .. Chunks, count : 0 .. Chunks]],
         last' \in [Session -> BOOLEAN],
         doneSent' \in [Session -> BOOLEAN],
         late' \subseteq Session
  PROVE  TypeOK'
<1>1. pc' \in [Session -> {"out", "offer", "auth", "known", "admitted", "over"} \cup Serving]
  BY DEF TypeOK, Moves
<1>2. UNCHANGED <<place, stopped, stopper, why, snapRtcs, snapSessions, cancelled, deleted,
                  loop, expiry, doneTimer, rtcs, orphans, left, downloads>>
  BY DEF Moves, stopVars, timers, countVars, peers
<1> QED BY <1>1, <1>2 DEF TypeOK

LEMMA EndsTypes ==
  ASSUME TypeOK, NEW s \in Session, NEW a, Ends(s, a)
  PROVE  TypeOK'
<1>1. ask' \in [Session -> [next : 0 .. Chunks, end : 0 .. Chunks, count : 0 .. Chunks]]
  BY SessionsAssumption DEF TypeOK, Ends, NoAsk
<1>2. last' \in [Session -> BOOLEAN] /\ doneSent' \in [Session -> BOOLEAN]
  BY DEF TypeOK, Ends
<1>3. conn' \in [Session -> {"none", "open", "draining", "closed"}]
  BY DEF TypeOK, Ends
<1>4. Moves(s, a, "over") /\ UNCHANGED <<countVars, known, late>>
  BY DEF Ends
<1> QED BY <1>1, <1>2, <1>3, <1>4, MovesTypes DEF TypeOK

LEMMA EntryTypes == ASSUME TypeOK, NEW s \in Session, Entry(s) PROVE TypeOK'
<1>1. CASE AuthFails(s) \/ TurnAway(s) \/ AckFails(s)
  BY <1>1, EndsTypes DEF AuthFails, TurnAway, AckFails
<1>2. CASE Authenticate(s)
  BY <1>2, MovesTypes DEF Authenticate, TypeOK
<1>3. CASE Admit(s)
  BY <1>3, MovesTypes DEF Admit, TypeOK
<1>4. CASE Register(s)
  <2>1. late' \subseteq Session
    BY <1>4 DEF Register, TypeOK
  <2> QED BY <1>4, <2>1, MovesTypes DEF Register, TypeOK, Serving
<1> QED BY <1>1, <1>2, <1>3, <1>4 DEF Entry

LEMMA PeerTypes == ASSUME TypeOK, NEW s \in Session, Peer(s) \/ Drained(s) PROVE TypeOK'
<1>1. CASE Connect(s)
  <2>1. conn' \in [Session -> {"none", "open", "draining", "closed"}]
    BY <1>1 DEF Connect, TypeOK
  <2> QED BY <1>1, <2>1, MovesTypes DEF Connect, TypeOK
<1>2. CASE Disconnect(s) \/ Drained(s)
  BY <1>2 DEF Disconnect, Drained, Closed, TypeOK, stopVars, timers, countVars, peers
<1>3. CASE TakeReq(s)
  <2>1. PICK first \in 0 .. Chunks, count \in 0 .. Chunks + 1 :
          IF first + count > Chunks
          THEN Ends(s, "serving")
          ELSE /\ Moves(s, "serving", "sending")
               /\ ask' = [ask EXCEPT ![s] = [next |-> first, end |-> first + count,
                                             count |-> count]]
               /\ UNCHANGED <<countVars, known, conn, last, doneSent, late>>
    BY <1>3 DEF TakeReq
  <2>2. CASE first + count > Chunks
    BY <2>1, <2>2, EndsTypes
  <2>3. CASE ~(first + count > Chunks)
    <3>1. [next |-> first, end |-> first + count, count |-> count]
            \in [next : 0 .. Chunks, end : 0 .. Chunks, count : 0 .. Chunks]
      BY <2>3, SessionsAssumption
    <3>2. ask' \in [Session -> [next : 0 .. Chunks, end : 0 .. Chunks, count : 0 .. Chunks]]
      BY <2>1, <2>3, <3>1 DEF TypeOK
    <3>3. Moves(s, "serving", "sending") /\ UNCHANGED <<countVars, known, conn, last, doneSent, late>>
      BY <2>1, <2>3
    <3> QED BY <3>2, <3>3, MovesTypes DEF TypeOK, Serving
  <2> QED BY <2>2, <2>3
<1>4. CASE TakeHashReq(s)
  <2>1. known' \subseteq Chunk
    BY <1>4, SessionsAssumption DEF TakeHashReq, TypeOK, Chunk
  <2> QED BY <1>4, <2>1, MovesTypes DEF TakeHashReq, TypeOK, Serving
<1>5. CASE TakeOther(s)
  BY <1>5, MovesTypes DEF TakeOther, TypeOK, Serving
<1> QED BY <1>1, <1>2, <1>3, <1>4, <1>5 DEF Peer

LEMMA ServeTypes == ASSUME TypeOK, AskLeft, NEW s \in Session, Serve(s) PROVE TypeOK'
<1>1. CASE ReadFails(s) \/ Refuse(s) \/ WriteFails(s) \/ HashFails(s) \/ DoneFails(s)
  BY <1>1, EndsTypes DEF ReadFails, Refuse, WriteFails, HashFails, DoneFails
<1>2. CASE NextChunk(s)
  <2>0. ask[s].next \in 0 .. Chunks /\ ask[s].end \in 0 .. Chunks
    BY DEF TypeOK
  <2>1. known' \subseteq Chunk
    <3>1. ask[s].next \in Chunk
      BY <1>2, <2>0, SessionsAssumption DEF NextChunk, Chunk
    <3> QED BY <1>2, <3>1 DEF NextChunk, TypeOK
  <2> QED BY <1>2, <2>1, MovesTypes DEF NextChunk, TypeOK, Serving
<1>3. CASE WriteChunk(s)
  <2>1. ask[s].next < ask[s].end
    BY <1>3 DEF AskLeft, WriteChunk, Moves
  <2>2. ask' \in [Session -> [next : 0 .. Chunks, end : 0 .. Chunks, count : 0 .. Chunks]]
    BY <1>3, <2>1, SessionsAssumption DEF WriteChunk, TypeOK
  <2> QED BY <1>3, <2>2, MovesTypes DEF WriteChunk, TypeOK, Serving
<1>4. CASE ReqServed(s)
  <2>1. ask' \in [Session -> [next : 0 .. Chunks, end : 0 .. Chunks, count : 0 .. Chunks]]
    BY <1>4, SessionsAssumption DEF ReqServed, TypeOK, NoAsk
  <2>2. last' \in [Session -> BOOLEAN]
    BY <1>4 DEF ReqServed, TypeOK
  <2> QED BY <1>4, <2>1, <2>2, MovesTypes DEF ReqServed, TypeOK, Serving
<1>5. CASE WriteHash(s)
  BY <1>5, MovesTypes DEF WriteHash, TypeOK, Serving
<1>6. CASE NotDone(s)
  BY <1>6, MovesTypes DEF NotDone, TypeOK, Serving
<1>7. CASE SendDone(s)
  <2>1. doneSent' \in [Session -> BOOLEAN]
    BY <1>7 DEF SendDone, TypeOK
  <2> QED BY <1>7, <2>1, MovesTypes DEF SendDone, TypeOK, Serving
<1>8. CASE Completed(s)
  <2>1. left' \in -1 .. Cap /\ downloads' \in Nat
    BY <1>8, SessionsAssumption DEF Completed, TypeOK, counted
  <2>2. doneTimer' \in BOOLEAN
    BY <1>8 DEF Completed, TypeOK, counted
  <2>3. pc' \in [Session -> {"out", "offer", "auth", "known", "admitted", "over"} \cup Serving]
    BY <1>8 DEF Completed, TypeOK, Serving
  <2> QED BY <1>8, <2>1, <2>2, <2>3 DEF Completed, TypeOK, stopVars, peers
<1> QED BY <1>1, <1>2, <1>3, <1>4, <1>5, <1>6, <1>7, <1>8 DEF Serve

LEMMA NextTypes == ASSUME TypeOK, Offering, AskLeft, [Next]_vars PROVE TypeOK'
<1>1. CASE UNCHANGED vars
  BY <1>1 DEF TypeOK, vars, stopVars, timers, countVars, peers, sessionVars
<1> QED BY <1>1, HostTypes, LoopTypes, EntryTypes, PeerTypes, ServeTypes DEF Next
-----------------------------------------------------------------------------
(* The steps of the host, of stop and of the loop *)

LEMMA RemoveKeeps ==
  ASSUME Inv, NEW reason, Remove(reason)
  PROVE  StopOrder' /\ UNCHANGED <<stopped, snapRtcs, snapSessions>>
BY DEF Inv, Stopping, TypeOK, StopOrder, Remove, stopVars

LEMMA HostStopping == ASSUME Inv, HostNext PROVE Stopping' /\ Serves'
<1>1. StopOrder' /\ UNCHANGED <<stopped, snapRtcs, snapSessions, peers, sessionVars>>
  <2>1. CASE Insert
    BY <2>1 DEF Insert, stopVars, Inv, Stopping, StopOrder
  <2>2. CASE Revoke \/ Expire \/ DoneFires
    BY <2>2, RemoveKeeps DEF Revoke, Expire, DoneFires
  <2> QED BY <2>1, <2>2 DEF HostNext
<1> QED BY <1>1 DEF Inv, Stopping, Serves, SessionsListed, PeersListed, Offering, LateUnserved,
  AskLeft, DoneServing, peers, sessionVars, sessions, Admitted, IsOpen

LEMMA StopStopping == ASSUME Inv, StopNext PROVE Stopping' /\ Serves'
<1> USE DEF Inv, Stopping, TypeOK
<1>0. UNCHANGED <<pc, ask, doneSent, late, rtcs, orphans>>
  BY DEF StopNext, StopFlag, StopBye, StopClose, StopReturns, peers, sessionVars
<1>1. Serves' /\ LateUnserved'
  BY <1>0 DEF Serves, Offering, AskLeft, DoneServing, LateUnserved
<1>2. CASE StopFlag
  <2>1. StopOrder'
    BY <1>2 DEF StopFlag, StopOrder
  <2>2. SessionsListed'
    BY <1>2 DEF StopFlag, StopOrder, SessionsListed, sessions, IsOpen, sessionVars
  <2>3. PeersListed'
    BY <1>0, <1>2 DEF StopFlag, StopOrder, PeersListed, Admitted, IsOpen, sessionVars
  <2> QED BY <1>1, <2>1, <2>2, <2>3
<1>3. CASE StopBye \/ StopReturns
  BY <1>0, <1>1, <1>3 DEF StopBye, StopReturns, StopOrder, SessionsListed, PeersListed, sessions,
    Admitted, IsOpen, sessionVars
<1>4. CASE StopClose
  <2>1. StopOrder' /\ stopped' = stopped /\ stopped
    BY <1>4 DEF StopClose, StopOrder
  <2>2. \/ UNCHANGED <<snapRtcs, snapSessions, conn>>
        \/ \E s \in snapRtcs : /\ snapRtcs' = snapRtcs \ {s} /\ snapSessions' = snapSessions
                               /\ conn' = Closed(s)
        \/ \E s \in snapSessions : /\ snapSessions' = snapSessions \ {s} /\ snapRtcs' = snapRtcs
                                   /\ conn' = Closed(s)
    BY <1>4 DEF StopClose
  <2>3. SessionsListed'
    BY <1>0, <2>1, <2>2 DEF SessionsListed, sessions, IsOpen, Closed
  <2>4. PeersListed'
    BY <1>0, <2>1, <2>2 DEF PeersListed, Admitted, IsOpen, Closed
  <2> QED BY <1>1, <2>1, <2>3, <2>4
<1> QED BY <1>2, <1>3, <1>4 DEF StopNext

LEMMA LoopStopping == ASSUME Inv, LoopNext PROVE Stopping' /\ Serves'
<1> USE DEF Inv, Stopping, TypeOK
<1>1. CASE LoopGone \/ LoopLost \/ LoopReconnects \/ LoopCancelled
  <2>1. StopOrder' /\ UNCHANGED <<stopped, snapRtcs, snapSessions, peers, sessionVars>>
    <3>1. CASE LoopGone
      BY <3>1, RemoveKeeps DEF LoopGone
    <3>2. CASE LoopLost \/ LoopReconnects \/ LoopCancelled
      BY <3>2 DEF LoopLost, LoopReconnects, LoopCancelled, stopVars, StopOrder
    <3> QED BY <1>1, <3>1, <3>2
  <2> QED BY <2>1 DEF Serves, SessionsListed, PeersListed, Offering, LateUnserved,
    AskLeft, DoneServing, peers, sessionVars, sessions, Admitted, IsOpen
<1>2. CASE DropPeer
  <2>1. PICK s \in rtcs : rtcs' = rtcs \ {s} /\ conn' = Closed(s)
    BY <1>2 DEF DropPeer
  <2>2. UNCHANGED <<place, stopped, stopper, snapRtcs, snapSessions, orphans, pc, ask, doneSent,
                    late>>
    BY <1>2 DEF DropPeer, stopVars
  <2>3. StopOrder' /\ LateUnserved' /\ Serves'
    BY <2>2 DEF StopOrder, LateUnserved, Serves, Offering, AskLeft, DoneServing
  <2>4. SessionsListed'
    BY <2>1, <2>2 DEF SessionsListed, sessions, IsOpen, Closed
  <2>5. PeersListed'
    BY <2>1, <2>2, SessionsAssumption DEF PeersListed, Admitted, IsOpen, Closed
  <2> QED BY <2>3, <2>4, <2>5
<1>4. CASE PeerJoins
  <2>1. PICK s \in rtcs : /\ rtcs' = rtcs \ {s}
                          /\ orphans' = IF stopped THEN orphans ELSE orphans \cup {s}
    BY <1>4 DEF PeerJoins
  <2>2. UNCHANGED <<place, stopped, stopper, snapRtcs, snapSessions, sessionVars>>
    BY <1>4 DEF PeerJoins, stopVars
  <2>3. StopOrder' /\ LateUnserved' /\ Serves' /\ SessionsListed'
    BY <2>2 DEF StopOrder, LateUnserved, Serves, Offering, AskLeft, DoneServing, SessionsListed,
      sessions, IsOpen, sessionVars
  <2>4. PeersListed'
    BY <2>1, <2>2 DEF PeersListed, Admitted, IsOpen, sessionVars
  <2> QED BY <2>3, <2>4
<1>3. ASSUME NEW s \in Session, Offer(s) \/ OfferFails(s) \/ Answered(s)
      PROVE  Stopping' /\ Serves'
  <2>1. /\ UNCHANGED <<place, stopped, stopper, snapRtcs, snapSessions, orphans, ask, doneSent, late>>
        /\ pc[s] \in {"out", "offer"}
        /\ \E p \in {"offer", "auth", "over"} :
             /\ pc' = [pc EXCEPT ![s] = p]
             /\ p = "offer" => s \in Rtc
             /\ p = "auth" => s \in rtcs'
        /\ rtcs \subseteq rtcs'
        /\ \A r \in Session \ {s} : conn'[r] = conn[r]
    BY <1>3 DEF Offer, OfferFails, Answered, stopVars, peers
  <2>2. StopOrder' /\ LateUnserved'
    BY <2>1 DEF StopOrder, LateUnserved
  <2>3. Serves'
    BY <2>1 DEF Serves, Offering, AskLeft, DoneServing, Serving
  <2>4. SessionsListed'
    BY <2>1 DEF SessionsListed, sessions, IsOpen, Serving
  <2>5. PeersListed'
    BY <2>1, SessionsAssumption DEF PeersListed, Admitted, IsOpen, Serving
  <2> QED BY <2>2, <2>3, <2>4, <2>5
<1> QED BY <1>1, <1>2, <1>3, <1>4 DEF LoopNext
-----------------------------------------------------------------------------
(* The steps of a session *)

(* A session that goes on without becoming a member, and leaves the others *)
(* and what stop has listed alone.                                         *)
OfSession(s) ==
  /\ UNCHANGED <<place, stopped, stopper, snapRtcs, snapSessions, rtcs, orphans>>
  /\ \A r \in Session \ {s} :
       /\ pc'[r] = pc[r] /\ conn'[r] = conn[r]
       /\ ask'[r] = ask[r] /\ doneSent'[r] = doneSent[r]

LEMMA MovesOfSession ==
  ASSUME TypeOK, NEW s \in Session, Entry(s) \/ Peer(s) \/ Drained(s) \/ Serve(s)
  PROVE  OfSession(s)
<1> USE DEF TypeOK, OfSession
<1>1. ASSUME NEW a, Ends(s, a) PROVE OfSession(s)
  BY <1>1 DEF Ends, Moves, stopVars, peers
<1>2. CASE Entry(s)
  BY <1>1, <1>2 DEF Entry, Authenticate, AuthFails, Admit, TurnAway, Register, AckFails,
    Moves, stopVars, peers
<1>3. CASE Peer(s) \/ Drained(s)
  BY <1>1, <1>3 DEF Peer, Drained, Connect, Disconnect, Closed, TakeReq, TakeHashReq, TakeOther,
    Moves, stopVars, peers
<1>4. CASE Serve(s)
  BY <1>1, <1>4 DEF Serve, ReadFails, NextChunk, Refuse, WriteChunk, WriteFails, ReqServed,
    WriteHash, HashFails, NotDone, SendDone, DoneFails, Completed, Moves, stopVars, peers
<1> QED BY <1>2, <1>3, <1>4

(* What a step does to its own session, for the parts of Inv.              *)
LEMMA Stays ==
  ASSUME Inv, NEW s \in Session, OfSession(s), late' = late,
         pc'[s] \notin {"offer", "admitted", "write"} \/ pc'[s] = pc[s],
         pc'[s] \in Serving => pc[s] \in Serving,
         pc'[s] \in {"auth", "known"} => pc[s] \in {"auth", "known"} \/ s \notin Rtc,
         conn'[s] = "open" => conn[s] = "open" \/ (pc'[s] = "auth" /\ s \notin Rtc)
  PROVE  StopOrder' /\ SessionsListed' /\ PeersListed' /\ LateUnserved' /\ Offering'
<1> USE DEF Inv, Stopping, Serves, OfSession, TypeOK
<1>1. StopOrder' /\ LateUnserved' /\ Offering'
  BY DEF StopOrder, LateUnserved, Offering
<1>2. SessionsListed'
  BY DEF SessionsListed, sessions, IsOpen, Serving
<1>3. PeersListed'
  BY SessionsAssumption DEF PeersListed, Admitted, IsOpen, Serving
<1> QED BY <1>1, <1>2, <1>3

LEMMA EndsStopping ==
  ASSUME Inv, NEW s \in Session, NEW a, Ends(s, a), OfSession(s)
  PROVE  Stopping' /\ Serves'
<1>1. /\ pc'[s] = "over" /\ conn'[s] = "closed" /\ late' = late /\ ~doneSent'[s]
  BY DEF Ends, Moves, Inv, TypeOK
<1>2. AskLeft' /\ DoneServing'
  BY <1>1 DEF Inv, Serves, AskLeft, DoneServing, OfSession, Serving
<1> QED BY <1>1, <1>2, Stays DEF Stopping, Serves, Serving

LEMMA EntryStopping == ASSUME Inv, NEW s \in Session, Entry(s) PROVE Stopping' /\ Serves'
<1>0. OfSession(s)
  BY MovesOfSession DEF Inv
<1>1. CASE AuthFails(s) \/ TurnAway(s) \/ AckFails(s)
  BY <1>0, <1>1, EndsStopping DEF AuthFails, TurnAway, AckFails
<1> USE DEF Inv, TypeOK
<1>2. CASE Authenticate(s)
  <2>1. pc[s] = "auth" /\ pc'[s] = "known" /\ UNCHANGED <<conn, ask, doneSent, late>>
    BY <1>2 DEF Authenticate, Moves
  <2>2. AskLeft' /\ DoneServing'
    BY <1>0, <2>1 DEF Serves, AskLeft, DoneServing, OfSession, Serving
  <2> QED BY <1>0, <2>1, <2>2, Stays DEF Stopping, Serves, Serving
<1>3. CASE Admit(s)
  <2>1. pc[s] = "known" /\ pc' = [pc EXCEPT ![s] = "admitted"]
        /\ UNCHANGED <<conn, ask, doneSent, late>> /\ ~stopped
    BY <1>3 DEF Admit, Moves, exhausted
  <2>2. AskLeft' /\ DoneServing' /\ Offering'
    BY <1>0, <2>1 DEF Serves, AskLeft, DoneServing, Offering, OfSession, Serving
  <2>3. StopOrder' /\ SessionsListed' /\ LateUnserved'
    BY <1>0, <2>1 DEF Stopping, StopOrder, SessionsListed, LateUnserved, OfSession
  <2>4. PeersListed'
    BY <1>0, <2>1 DEF Stopping, PeersListed, OfSession, IsOpen, Serving
  <2> QED BY <2>2, <2>3, <2>4 DEF Stopping, Serves
<1>4. CASE Register(s)
  <2>1. /\ pc[s] = "admitted" /\ pc' = [pc EXCEPT ![s] = "serving"]
        /\ late' = (IF stopped THEN late \cup {s} ELSE late)
        /\ UNCHANGED <<conn, ask, doneSent>>
    BY <1>4 DEF Register, Moves
  <2>2. AskLeft' /\ DoneServing' /\ Offering'
    BY <1>0, <2>1 DEF Serves, AskLeft, DoneServing, Offering, OfSession, Serving
  <2>3. StopOrder' /\ LateUnserved'
    BY <1>0, <2>1 DEF Stopping, StopOrder, LateUnserved, OfSession
  <2>4. SessionsListed'
    BY <1>0, <2>1 DEF Stopping, SessionsListed, OfSession, IsOpen, sessions
  <2>5. PeersListed'
    BY <1>0, <2>1, SessionsAssumption DEF Stopping, PeersListed, OfSession, IsOpen, Admitted, Serving
  <2> QED BY <2>2, <2>3, <2>4, <2>5 DEF Stopping, Serves
<1> QED BY <1>1, <1>2, <1>3, <1>4 DEF Entry

LEMMA PeerStopping ==
  ASSUME Inv, NEW s \in Session, Peer(s) \/ Drained(s) PROVE Stopping' /\ Serves'
<1>0. OfSession(s)
  BY MovesOfSession DEF Inv
<1> USE DEF Inv, TypeOK
<1>1. CASE Connect(s)
  <2>1. pc[s] = "out" /\ pc'[s] = "auth" /\ s \notin Rtc /\ UNCHANGED <<ask, doneSent, late>>
    BY <1>1 DEF Connect, Moves
  <2>2. AskLeft' /\ DoneServing'
    BY <1>0, <2>1 DEF Serves, AskLeft, DoneServing, OfSession, Serving
  <2> QED BY <1>0, <2>1, <2>2, Stays DEF Stopping, Serves, Serving
<1>2. CASE Disconnect(s) \/ Drained(s)
  <2>1. UNCHANGED <<pc, ask, doneSent, late>> /\ conn'[s] # "open"
    BY <1>2 DEF Disconnect, Drained, Closed
  <2>2. AskLeft' /\ DoneServing'
    BY <2>1 DEF Serves, AskLeft, DoneServing
  <2> QED BY <1>0, <2>1, <2>2, Stays DEF Stopping, Serves, Serving
<1>3. CASE TakeReq(s) \/ TakeHashReq(s) \/ TakeOther(s)
  <2>1. \/ Ends(s, "serving")
        \/ /\ pc[s] = "serving" /\ pc'[s] \in {"sending", "reply", "check"}
           /\ UNCHANGED <<conn, doneSent, late>>
    BY <1>3 DEF TakeReq, TakeHashReq, TakeOther, Moves
  <2>2. CASE Ends(s, "serving")
    BY <1>0, <2>2, EndsStopping
  <2>3. CASE pc[s] = "serving" /\ pc'[s] \in {"sending", "reply", "check"}
             /\ UNCHANGED <<conn, doneSent, late>>
    <3>1. AskLeft' /\ DoneServing'
      BY <1>0, <2>3 DEF Serves, AskLeft, DoneServing, OfSession, Serving
    <3> QED BY <1>0, <2>3, <3>1, Stays DEF Stopping, Serves, Serving
  <2> QED BY <2>1, <2>2, <2>3
<1> QED BY <1>1, <1>2, <1>3 DEF Peer

LEMMA ServeStopping == ASSUME Inv, NEW s \in Session, Serve(s) PROVE Stopping' /\ Serves'
<1>0. OfSession(s)
  BY MovesOfSession DEF Inv
<1>1. CASE ReadFails(s) \/ Refuse(s) \/ WriteFails(s) \/ HashFails(s) \/ DoneFails(s)
  BY <1>0, <1>1, EndsStopping DEF ReadFails, Refuse, WriteFails, HashFails, DoneFails
<1> USE DEF Inv, TypeOK
<1>2. CASE NextChunk(s)
  <2>1. pc[s] = "sending" /\ pc' = [pc EXCEPT ![s] = "write"] /\ ~stopped
        /\ ask[s].next < ask[s].end /\ UNCHANGED <<conn, ask, doneSent, late>>
    BY <1>2 DEF NextChunk, Moves
  <2>2. Serves'
    BY <2>1 DEF Serves, AskLeft, DoneServing, Offering, Serving
  <2>3. StopOrder' /\ SessionsListed' /\ LateUnserved'
    BY <1>0, <2>1 DEF Stopping, StopOrder, SessionsListed, LateUnserved, OfSession
  <2>4. PeersListed'
    BY <1>0, <2>1 DEF Stopping, PeersListed, OfSession, IsOpen, Serving
  <2> QED BY <2>2, <2>3, <2>4 DEF Stopping
<1>3. CASE WriteChunk(s) \/ ReqServed(s) \/ WriteHash(s) \/ NotDone(s)
  <2>1. /\ pc[s] \in {"write", "sending", "reply", "check"}
        /\ pc'[s] \in {"sending", "check", "serving"}
        /\ UNCHANGED <<conn, doneSent, late>>
    BY <1>3 DEF WriteChunk, ReqServed, WriteHash, NotDone, Moves
  <2>2. AskLeft' /\ DoneServing'
    BY <1>0, <2>1 DEF Serves, AskLeft, DoneServing, OfSession, Serving
  <2> QED BY <1>0, <2>1, <2>2, Stays DEF Stopping, Serves, Serving
<1>4. CASE SendDone(s) \/ Completed(s)
  <2>1. /\ \/ pc[s] = "check" /\ pc'[s] = "count" /\ doneSent'[s]
           \/ pc[s] = "count" /\ pc'[s] = "serving" /\ doneSent' = doneSent
        /\ UNCHANGED <<conn, ask, late>>
    BY <1>4 DEF SendDone, Completed, Moves
  <2>2. AskLeft' /\ DoneServing'
    BY <1>0, <2>1 DEF Serves, AskLeft, DoneServing, OfSession, Serving
  <2> QED BY <1>0, <2>1, <2>2, Stays DEF Stopping, Serves, Serving
<1> QED BY <1>1, <1>2, <1>3, <1>4 DEF Serve
-----------------------------------------------------------------------------
(* Only completed counts. *)
LEMMA NextCount == ASSUME TypeOK, CapAccounting, [Next]_vars PROVE CapAccounting'
<1>1. ASSUME UNCHANGED countVars PROVE CapAccounting'
  BY <1>1 DEF CapAccounting, countVars
<1>2. ASSUME NEW s \in Session, Completed(s) PROVE CapAccounting'
  BY <1>2, SessionsAssumption DEF Completed, CapAccounting, counted, TypeOK
<1>3. CASE HostNext \/ StopNext \/ LoopNext
  BY <1>1, <1>3 DEF HostNext, StopNext, LoopNext, Insert, Revoke, Expire, DoneFires, StopFlag,
    StopBye, StopClose, StopReturns, LoopGone, LoopLost, LoopReconnects, LoopCancelled, DropPeer,
    PeerJoins, Offer, OfferFails, Answered, countVars
<1>4. ASSUME NEW s \in Session, Entry(s) \/ Peer(s) \/ Drained(s) PROVE CapAccounting'
  BY <1>1, <1>4 DEF Entry, Peer, Drained, Authenticate, AuthFails, Admit, TurnAway, Register,
    AckFails, Connect, Disconnect, TakeReq, TakeHashReq, TakeOther, Ends
<1>5. ASSUME NEW s \in Session, Serve(s) PROVE CapAccounting'
  BY <1>1, <1>2, <1>5 DEF Serve, ReadFails, NextChunk, Refuse, WriteChunk, WriteFails, ReqServed,
    WriteHash, HashFails, NotDone, SendDone, DoneFails, Ends
<1> QED BY <1>1, <1>3, <1>4, <1>5 DEF Next, vars

LEMMA NextInv == ASSUME Inv, [Next]_vars PROVE Inv'
<1>1. CASE UNCHANGED vars
  BY <1>1 DEF Inv, Stopping, Serves, TypeOK, CapAccounting, StopOrder, SessionsListed, PeersListed,
    Offering, LateUnserved, AskLeft, DoneServing, sessions, Admitted, IsOpen,
    vars, stopVars, timers, countVars, peers, sessionVars
<1>2. TypeOK'
  BY NextTypes DEF Inv, Serves
<1>3. CapAccounting'
  BY NextCount DEF Inv
<1>4. CASE Next
  BY <1>2, <1>3, <1>4, HostStopping, StopStopping, LoopStopping, EntryStopping, PeerStopping,
    ServeStopping DEF Next, Inv
<1> QED BY <1>1, <1>4

LEMMA InvHolds == Spec => []Inv
BY InitInv, NextInv, PTL DEF Spec

(* The count of downloads left and the downloads recorded agree, however   *)
(* many sessions finish at once (completed, share.go).                     *)
THEOREM CapAccountingHolds == Spec => []CapAccounting
<1>1. Inv => CapAccounting
  BY DEF Inv
<1> QED BY <1>1, InvHolds, PTL

(* When stop has returned every session is closed but those it cannot      *)
(* reach: registered behind its snapshot, over QUIC or over a connection   *)
(* whose peer's entry a peer-join had replaced (stop and run, share.go).   *)
THEOREM StopClosesSessionsHolds == Spec => []StopClosesSessions
<1>1. Inv => StopClosesSessions
  <2> SUFFICES ASSUME Inv, stopper = "returned",
                      NEW s \in sessions \ Beyond
               PROVE  conn[s] # "open"
    BY DEF StopClosesSessions
  <2>1. stopped /\ snapRtcs = {} /\ snapSessions = {}
    BY DEF Inv, Stopping, StopOrder
  <2>2. CASE s \notin late
    BY <2>1, <2>2 DEF Inv, Stopping, SessionsListed, IsOpen
  <2>3. CASE s \in Rtc \ orphans
    BY <2>1, <2>3 DEF Inv, Stopping, PeersListed, IsOpen, Admitted, sessions
  <2> QED BY <2>2, <2>3 DEF Beyond
<1> QED BY <1>1, InvHolds, PTL
-----------------------------------------------------------------------------
(* The refinement *)

phaseBar == IF stopper = "returned" THEN "ended" ELSE IF stopped THEN "ending" ELSE "offered"
sendingBar == {s \in Session : pc[s] = "write" /\ conn[s] = "open"}
finishedBar == {s \in Session : doneSent[s] /\ pc[s] # "count"}
Step == [Contract!Next]_Contract!contract

(* A step that no client of the share can see.                             *)
LEMMA Stutter ==
  ASSUME UNCHANGED <<phaseBar, left, Admitted, sendingBar, finishedBar>> PROVE Step
BY DEF Step, Contract!contract, phaseBar, Admitted, sendingBar, finishedBar

LEMMA StopSteps == ASSUME Inv, StopFlag \/ StopBye \/ StopReturns PROVE Step
<1>1. UNCHANGED <<left, Admitted, sendingBar, finishedBar>>
  BY DEF StopFlag, StopBye, StopReturns, countVars, sessionVars, Admitted, sendingBar, finishedBar
<1> USE DEF Inv, Stopping, StopOrder
<1>2. CASE StopFlag
  <2>1. phaseBar = "offered" /\ phaseBar' = "ending"
    BY <1>2 DEF StopFlag, phaseBar
  <2>2. Contract!Stop
    BY <1>1, <2>1 DEF Contract!Stop, phaseBar, Admitted, sendingBar, finishedBar
  <2> QED BY <2>2 DEF Step, Contract!Next
<1>3. CASE StopBye
  <2>1. phaseBar' = phaseBar
    BY <1>3 DEF StopBye, phaseBar
  <2> QED BY <1>1, <2>1, Stutter
<1>4. CASE StopReturns
  <2>1. phaseBar = "ending" /\ phaseBar' = "ended"
    BY <1>4 DEF StopReturns, phaseBar
  <2>2. sendingBar = {}
    BY <1>4 DEF StopReturns, sendingBar, SessionsListed, LateUnserved, sessions, Serving, IsOpen
  <2>3. Contract!End
    BY <1>1, <2>1, <2>2 DEF Contract!End, phaseBar, Admitted, sendingBar, finishedBar
  <2> QED BY <2>3 DEF Step, Contract!Next
<1> QED BY <1>2, <1>3, <1>4

(* A connection is closed, and nothing else: no chunk can be sent there.   *)
LEMMA CloseSteps ==
  ASSUME Inv, NEW s \in Session, UNCHANGED <<phaseBar, left, pc, doneSent>>,
         \A r \in Session \ {s} : conn'[r] = conn[r], conn'[s] # "open"
  PROVE  Step
<1>1. UNCHANGED <<phaseBar, left, Admitted, finishedBar>>
  BY DEF Admitted, finishedBar
<1>2. sendingBar' = sendingBar \ {s}
  BY DEF sendingBar
<1>3. CASE s \in sendingBar
  <2>1. Contract!Sent(s)
    BY <1>1, <1>2, <1>3 DEF Contract!Sent, phaseBar, Admitted, sendingBar, finishedBar
  <2> QED BY <2>1 DEF Step, Contract!Next
<1>4. CASE s \notin sendingBar
  BY <1>1, <1>2, <1>4, Stutter
<1> QED BY <1>3, <1>4

LEMMA StopCloseSteps == ASSUME Inv, StopClose PROVE Step
<1>1. UNCHANGED <<phaseBar, left, pc, doneSent>>
  BY DEF StopClose, phaseBar, countVars, Inv, Stopping, StopOrder
<1>2. CASE UNCHANGED conn
  BY <1>1, <1>2, Stutter DEF Admitted, sendingBar, finishedBar
<1>3. ASSUME NEW s \in Session, conn' = Closed(s) PROVE Step
  <2>1. conn'[s] # "open" /\ \A r \in Session \ {s} : conn'[r] = conn[r]
    BY <1>3 DEF Closed, Inv, TypeOK
  <2> QED BY <1>1, <2>1, CloseSteps
<1> QED BY <1>2, <1>3, SessionsAssumption DEF StopClose, Inv, TypeOK

LEMMA HostSteps == ASSUME Inv, HostNext \/ LoopNext PROVE Step
<1>1. UNCHANGED <<phaseBar, left, doneSent>>
  <2>1. ASSUME NEW reason, Remove(reason) PROVE phaseBar' = phaseBar
    BY <2>1 DEF Remove, phaseBar, stopVars, Inv, Stopping, StopOrder
  <2> QED BY <2>1 DEF HostNext, LoopNext, Insert, Revoke, Expire, DoneFires, LoopGone, LoopLost,
        LoopReconnects, LoopCancelled, DropPeer, PeerJoins, Offer, OfferFails, Answered, phaseBar, stopVars,
        countVars, sessionVars
<1>2. CASE HostNext \/ LoopGone \/ LoopLost \/ LoopReconnects \/ LoopCancelled \/ PeerJoins
  <2>1. UNCHANGED <<pc, conn>>
    BY <1>2 DEF HostNext, Insert, Revoke, Expire, DoneFires, LoopGone, LoopLost,
        LoopReconnects, LoopCancelled, PeerJoins, sessionVars
  <2> QED BY <1>1, <2>1, Stutter DEF Admitted, sendingBar, finishedBar
<1>3. CASE DropPeer
  <2>1. PICK s \in rtcs : conn' = Closed(s) /\ pc' = pc
    BY <1>3 DEF DropPeer
  <2>2. s \in Session
    BY SessionsAssumption DEF Inv, TypeOK
  <2>3. conn'[s] # "open" /\ \A r \in Session \ {s} : conn'[r] = conn[r]
    BY <2>1, <2>2 DEF Closed, Inv, TypeOK
  <2> QED BY <1>1, <2>1, <2>2, <2>3, CloseSteps
<1>4. ASSUME NEW s \in Session, Offer(s) \/ OfferFails(s) \/ Answered(s) PROVE Step
  <2>1. /\ pc[s] \in {"out", "offer"} /\ pc'[s] \in {"offer", "auth", "over"}
        /\ \A r \in Session \ {s} : pc'[r] = pc[r] /\ conn'[r] = conn[r]
        /\ doneSent' = doneSent
    BY <1>4 DEF Offer, OfferFails, Answered, Inv, TypeOK
  <2>2. UNCHANGED <<Admitted, sendingBar, finishedBar>>
    BY <2>1 DEF Admitted, sendingBar, finishedBar, Serving, Inv, Serves, DoneServing
  <2> QED BY <1>1, <2>2, Stutter
<1> QED BY <1>2, <1>3, <1>4 DEF LoopNext

LEMMA EndsSteps ==
  ASSUME Inv, NEW s \in Session, NEW a, Ends(s, a), OfSession(s) PROVE Step
<1>1. /\ pc'[s] = "over" /\ ~doneSent'[s] /\ left' = left
      /\ phaseBar' = phaseBar
  BY DEF Ends, Moves, Inv, TypeOK, countVars, stopVars, phaseBar
<1>2. /\ Admitted' = Admitted \ {s} /\ sendingBar' = sendingBar \ {s}
      /\ finishedBar' = finishedBar \ {s}
  BY <1>1 DEF Admitted, sendingBar, finishedBar, Serving, OfSession
<1>3. CASE s \in Admitted
  <2>1. Contract!Leave(s)
    BY <1>1, <1>2, <1>3 DEF Contract!Leave, phaseBar, Admitted, sendingBar, finishedBar
  <2> QED BY <2>1 DEF Step, Contract!Next
<1>4. CASE s \notin Admitted
  <2>1. UNCHANGED <<Admitted, sendingBar, finishedBar>>
    BY <1>2, <1>4 DEF Admitted, sendingBar, finishedBar, Serving, Inv, Serves, DoneServing
  <2> QED BY <1>1, <2>1, Stutter
<1> QED BY <1>3, <1>4

LEMMA SessionSteps ==
  ASSUME Inv, NEW s \in Session, Entry(s) \/ Peer(s) \/ Drained(s) \/ Serve(s) PROVE Step
<1>0. OfSession(s) /\ phaseBar' = phaseBar
  BY MovesOfSession DEF Inv, OfSession, phaseBar
<1>1. ASSUME NEW a, Ends(s, a) PROVE Step
  BY <1>0, <1>1, EndsSteps
<1> USE DEF Inv, TypeOK
<1>2. CASE Admit(s)
  <2>1. /\ pc[s] = "known" /\ pc'[s] = "admitted" /\ ~stopped /\ left # 0
        /\ left' = left /\ UNCHANGED <<conn, doneSent>>
    BY <1>2 DEF Admit, exhausted, Moves, countVars
  <2>2. phaseBar = "offered"
    BY <2>1 DEF phaseBar, Stopping, StopOrder
  <2>3. s \notin Admitted /\ Admitted' = Admitted \cup {s}
    BY <1>0, <2>1 DEF Admitted, Serving, OfSession
  <2>4. UNCHANGED <<sendingBar, finishedBar>>
    BY <1>0, <2>1 DEF sendingBar, finishedBar, OfSession
  <2>5. Contract!Admit(s)
    BY <1>0, <2>1, <2>2, <2>3, <2>4 DEF Contract!Admit, phaseBar, Admitted, sendingBar, finishedBar
  <2> QED BY <2>5 DEF Step, Contract!Next
<1>3. CASE NextChunk(s)
  <2>1. /\ pc[s] = "sending" /\ pc'[s] = "write" /\ ~stopped
        /\ left' = left /\ UNCHANGED <<conn, doneSent>>
    BY <1>3 DEF NextChunk, Moves, countVars
  <2>2. phaseBar # "ended"
    BY <2>1 DEF phaseBar, Stopping, StopOrder
  <2>3. s \in Admitted \ sendingBar /\ UNCHANGED <<Admitted, finishedBar>>
    BY <1>0, <2>1 DEF Admitted, sendingBar, finishedBar, Serving, OfSession
  <2>4. CASE conn[s] = "open"
    <3>1. sendingBar' = sendingBar \cup {s}
      BY <1>0, <2>1, <2>4 DEF sendingBar, OfSession
    <3>2. Contract!Send(s)
      BY <1>0, <2>1, <2>2, <2>3, <3>1 DEF Contract!Send, phaseBar, Admitted, sendingBar, finishedBar
    <3> QED BY <3>2 DEF Step, Contract!Next
  <2>5. CASE conn[s] # "open"
    <3>1. sendingBar' = sendingBar
      BY <1>0, <2>1, <2>5 DEF sendingBar, OfSession
    <3> QED BY <1>0, <2>1, <2>3, <3>1, Stutter
  <2> QED BY <2>4, <2>5
<1>4. CASE WriteChunk(s)
  <2>1. /\ pc[s] = "write" /\ pc'[s] = "sending" /\ conn[s] = "open"
        /\ left' = left /\ UNCHANGED <<conn, doneSent>>
    BY <1>4 DEF WriteChunk, Moves, countVars
  <2>2. s \in sendingBar /\ sendingBar' = sendingBar \ {s} /\ UNCHANGED <<Admitted, finishedBar>>
    BY <1>0, <2>1 DEF Admitted, sendingBar, finishedBar, Serving, OfSession
  <2>3. Contract!Sent(s)
    BY <1>0, <2>1, <2>2 DEF Contract!Sent, phaseBar, Admitted, sendingBar, finishedBar
  <2> QED BY <2>3 DEF Step, Contract!Next
<1>5. CASE Completed(s)
  <2>1. /\ pc[s] = "count" /\ pc'[s] = "serving" /\ doneSent[s]
        /\ left' = (IF left > 0 THEN left - 1 ELSE left) /\ UNCHANGED <<conn, doneSent>>
    BY <1>5 DEF Completed, counted, Serves, DoneServing
  <2>2. s \in Admitted \ (sendingBar \cup finishedBar) /\ UNCHANGED <<Admitted, sendingBar>>
    BY <1>0, <2>1 DEF Admitted, sendingBar, finishedBar, Serving, OfSession
  <2>3. finishedBar' = finishedBar \cup {s}
    BY <1>0, <2>1 DEF finishedBar, OfSession
  <2>4. Contract!Finish(s)
    BY <1>0, <2>1, <2>2, <2>3 DEF Contract!Finish, phaseBar, Admitted, sendingBar, finishedBar
  <2> QED BY <2>4 DEF Step, Contract!Next
<1>6. CASE SendDone(s)
  <2>1. pc[s] = "check" /\ pc'[s] = "count" /\ ~doneSent[s] /\ left' = left /\ conn' = conn
    BY <1>6 DEF SendDone, MayFinish, Moves, countVars
  <2>2. UNCHANGED <<Admitted, sendingBar, finishedBar>>
    BY <1>0, <2>1 DEF Admitted, sendingBar, finishedBar, Serving, OfSession
  <2> QED BY <1>0, <2>1, <2>2, Stutter
<1>7. CASE Connect(s) \/ Authenticate(s)
  <2>1. pc[s] \in {"out", "auth"} /\ pc'[s] \in {"auth", "known"} /\ left' = left
        /\ UNCHANGED doneSent
    BY <1>7 DEF Connect, Authenticate, Moves, countVars
  <2>2. UNCHANGED <<Admitted, sendingBar, finishedBar>>
    BY <1>0, <2>1 DEF Admitted, sendingBar, finishedBar, Serving, OfSession
  <2> QED BY <1>0, <2>1, <2>2, Stutter
<1>8. CASE Disconnect(s) \/ Drained(s)
  <2>1. UNCHANGED <<pc, doneSent, left>> /\ conn'[s] # "open"
    BY <1>8 DEF Disconnect, Drained, Closed, countVars
  <2> QED BY <1>0, <2>1, CloseSteps DEF OfSession
<1>9. CASE Register(s) \/ TakeReq(s) \/ TakeHashReq(s) \/ TakeOther(s) \/ ReqServed(s)
           \/ WriteHash(s) \/ NotDone(s)
  <2>1. \/ Ends(s, "serving")
        \/ /\ pc[s] \in {"admitted", "serving", "sending", "reply", "check"}
           /\ pc'[s] \in {"serving", "sending", "reply", "check"}
           /\ left' = left /\ UNCHANGED doneSent
    BY <1>9 DEF Register, TakeReq, TakeHashReq, TakeOther, ReqServed, WriteHash, NotDone, Moves, countVars
  <2>2. CASE /\ pc[s] \in {"admitted", "serving", "sending", "reply", "check"}
             /\ pc'[s] \in {"serving", "sending", "reply", "check"}
             /\ left' = left /\ UNCHANGED doneSent
    <3>1. UNCHANGED <<Admitted, sendingBar, finishedBar>>
      BY <1>0, <2>2 DEF Admitted, sendingBar, finishedBar, Serving, OfSession
    <3> QED BY <1>0, <2>2, <3>1, Stutter
  <2> QED BY <1>1, <2>1, <2>2
<1> QED
  BY <1>1, <1>2, <1>3, <1>4, <1>5, <1>6, <1>7, <1>8, <1>9 DEF Entry, AuthFails, TurnAway, AckFails,
    Peer, Serve, ReadFails, Refuse, WriteFails, HashFails, DoneFails

(* The goroutines keep what ShareContract promises: only members are sent  *)
(* data, a download counts once, nobody is admitted to a share that is     *)
(* used up or stopping, and nothing is sent when stop has returned.        *)
THEOREM ContractKept == Spec => KeepsContract
<1>1. Init => Contract!Init
  BY DEF Init, Contract!Init, Serving
<1>2. Inv /\ [Next]_vars => Step
  <2>1. CASE UNCHANGED vars
    BY <2>1, Stutter DEF vars, stopVars, countVars, sessionVars, phaseBar, Admitted, sendingBar, finishedBar
  <2> QED BY <2>1, StopSteps, StopCloseSteps, HostSteps, SessionSteps DEF Next, StopNext
<1> QED BY <1>1, <1>2, InvHolds, PTL DEF Spec, Step, KeepsContract, Contract!Spec
=============================================================================
