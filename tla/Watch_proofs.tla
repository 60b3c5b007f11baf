---------------------------- MODULE Watch_proofs ----------------------------
(* Proofs about Watch, for any publishers and capacities. *)
EXTENDS Watch, SequenceTheorems, TLAPS

(* TypeOK in three parts, each for the prover that can do it. *)
Places ==
  /\ proc \in {"up", "stopping", "closed", "down"}
  /\ mine \in {"none", "live", "revoked", "expired", "kept"}
  /\ pub \in [Publisher -> {"idle", "snapshot", "push"}]
  /\ stream \in {"none", "registered", "first", "streaming", "ended"}
  /\ view \in {"none", "asked", "attached", "over", "lost", "left"}
Flags ==
  /\ receiver \in BOOLEAN /\ busy \in BOOLEAN /\ asleep \in BOOLEAN /\ dropped \in BOOLEAN
  /\ snap \in [Publisher -> BOOLEAN]
Buffers ==
  /\ ch \in Seq(BOOLEAN) /\ Len(ch) <= SubCap
  /\ sent \in Seq(BOOLEAN) /\ Len(sent) <= ClientCap

LEMMA TypeParts == TypeOK <=> Places /\ Flags /\ Buffers
BY DEF TypeOK, Places, Flags, Buffers

LEMMA PlacesKept == ASSUME Places, [Next]_vars PROVE Places'
<1> USE WatchAssumption DEF Places, Publisher
<1>1. CASE ShareNext
  BY <1>1 DEF ShareNext, AddMine, Expire, Activity, Tick, OtherChange, Revoke, CtrlC, Call,
       hostVars, pubVars, streamVars, viewVars
<1>2. CASE PublishNext
  BY <1>2 DEF PublishNext, Snapshot, Push, Pushed, hostVars, streamVars, viewVars
<1>3. CASE DaemonNext
  BY <1>3 DEF DaemonNext, Shutdown, Close, Exit, Subscribe, TakeFirst, SentFirst, Forward, StreamEnds,
       hostVars, pubVars, streamVars, viewVars
<1>4. CASE ViewNext
  BY <1>4 DEF ViewNext, Attach, ReadSnapshot, LoseDaemon, Leave, Suspend,
       hostVars, pubVars, streamVars, viewVars
<1>5. CASE UNCHANGED vars
  BY <1>5 DEF vars, hostVars, pubVars, streamVars, viewVars
<1> QED BY <1>1, <1>2, <1>3, <1>4, <1>5 DEF Next

LEMMA FlagsKept == ASSUME Flags, [Next]_vars PROVE Flags'
<1> USE DEF Flags
<1>1. CASE ShareNext
  BY <1>1, Zenon DEF ShareNext, AddMine, Expire, Activity, Tick, OtherChange, Revoke, CtrlC, Call,
       hostVars, pubVars, streamVars, viewVars
<1>2. CASE PublishNext
  BY <1>2, Zenon DEF PublishNext, Snapshot, Push, Pushed, hostVars, streamVars, viewVars
<1>3. CASE DaemonNext
  BY <1>3, Zenon DEF DaemonNext, Shutdown, Close, Exit, Subscribe, TakeFirst, SentFirst, Forward, StreamEnds,
       hostVars, pubVars, streamVars, viewVars
<1>4. CASE ViewNext
  BY <1>4, Zenon DEF ViewNext, Attach, ReadSnapshot, LoseDaemon, Leave, Suspend,
       hostVars, pubVars, streamVars, viewVars
<1>5. CASE UNCHANGED vars
  BY <1>5, Zenon DEF vars, hostVars, pubVars, streamVars, viewVars
<1> QED BY <1>1, <1>2, <1>3, <1>4, <1>5 DEF Next

(* What a step does to the two buffers between publish and the view. *)
LEMMA BuffersChange ==
  ASSUME [Next]_vars
  PROVE  \/ UNCHANGED <<ch, sent>>
         \/ \E p \in Publisher : Push(p) /\ UNCHANGED sent
         \/ ch' = <<>> /\ sent' \in {sent, <<>>}
         \/ TakeFirst /\ UNCHANGED ch
         \/ Forward
         \/ sent # <<>> /\ sent' = Tail(sent) /\ UNCHANGED ch
<1>1. CASE ShareNext
  BY <1>1, Zenon DEF ShareNext, AddMine, Expire, Activity, Tick, OtherChange, Revoke, CtrlC, streamVars
<1>2. CASE PublishNext
  BY <1>2 DEF PublishNext, Snapshot, Push, Pushed, streamVars
<1>3. CASE DaemonNext
  BY <1>3 DEF DaemonNext, Shutdown, Close, Exit, Subscribe, TakeFirst, SentFirst, StreamEnds, streamVars
<1>4. CASE ViewNext
  BY <1>4 DEF ViewNext, Attach, ReadSnapshot, LoseDaemon, Leave, Suspend, streamVars
<1>5. CASE UNCHANGED vars
  BY <1>5 DEF vars, streamVars
<1> QED BY <1>1, <1>2, <1>3, <1>4, <1>5 DEF Next

LEMMA BuffersKept == ASSUME Flags, Buffers, [Next]_vars PROVE Buffers'
<1> USE WatchAssumption DEF Buffers
<1>1. ASSUME NEW p \in Publisher, Push(p), UNCHANGED sent PROVE Buffers'
  <2>1. snap[p] \in BOOLEAN
    BY DEF Flags
  <2>2. Append(ch, snap[p]) \in Seq(BOOLEAN) /\ Len(Append(ch, snap[p])) = Len(ch) + 1
    BY <2>1, AppendProperties, Zenon
  <2> HIDE <2>1
  <2>3. (ch' = ch) \/ (ch' = Append(ch, snap[p]) /\ Len(ch) < SubCap)
    BY <1>1, Zenon DEF Push
  <2> QED BY <1>1, <2>2, <2>3
<1>2. ASSUME TakeFirst, UNCHANGED ch PROVE Buffers'
  <2>1. (mine = "live") \in BOOLEAN
    OBVIOUS
  <2>2. <<mine = "live">> \in Seq(BOOLEAN) /\ Len(<<mine = "live">>) = 1
    BY <2>1
  <2> QED BY <1>2, <2>2 DEF TakeFirst
<1>3. ASSUME Forward PROVE Buffers'
  <2>1. ch # <<>> /\ Len(sent) < ClientCap /\ sent' = Append(sent, Head(ch)) /\ ch' = Tail(ch)
    BY <1>3 DEF Forward
  <2>2. Head(ch) \in BOOLEAN /\ Tail(ch) \in Seq(BOOLEAN) /\ Len(Tail(ch)) = Len(ch) - 1
    BY <2>1, HeadTailProperties, Zenon
  <2> DEFINE B == BOOLEAN
  <2>5. sent \in Seq(B) /\ Head(ch) \in B
    BY <2>2, Zenon
  <2> HIDE DEF B
  <2> PICK h \in B : h = Head(ch)
    BY <2>5, Zenon
  <2>3. Append(sent, h) \in Seq(B) /\ Len(Append(sent, h)) = Len(sent) + 1
    BY <2>5, AppendProperties, Zenon
  <2>4. sent' = Append(sent, h)
    BY <2>1, Zenon
  <2> QED BY <2>1, <2>2, <2>3, <2>4 DEF B
<1>4. ASSUME sent # <<>>, sent' = Tail(sent), UNCHANGED ch PROVE Buffers'
  <2>1. Tail(sent) \in Seq(BOOLEAN) /\ Len(Tail(sent)) = Len(sent) - 1
    BY <1>4, HeadTailProperties, Zenon
  <2> QED BY <1>4, <2>1
<1>5. ASSUME ch' = <<>>, sent' \in {sent, <<>>} PROVE Buffers'
  <2>1. <<>> \in Seq(BOOLEAN) /\ Len(<<>>) = 0
    BY EmptySeq, LenProperties
  <2>2. sent' = sent \/ sent' = <<>>
    BY <1>5, Zenon
  <2>3. ch' \in Seq(BOOLEAN) /\ sent' \in Seq(BOOLEAN)
    BY <1>5, <2>1, <2>2, Zenon
  <2>4. Len(ch') = 0 /\ (Len(sent') = 0 \/ Len(sent') = Len(sent))
    BY <1>5, <2>1, <2>2, Zenon
  <2>5. 0 <= SubCap /\ 0 <= ClientCap
    OBVIOUS
  <2> HIDE DEF Buffers
  <2>6. Len(ch') <= SubCap /\ Len(sent') <= ClientCap
    BY <2>4, <2>5 DEF Buffers
  <2> QED BY <2>3, <2>6 DEF Buffers
<1>6. ASSUME UNCHANGED <<ch, sent>> PROVE Buffers'
  BY <1>6
<1> QED BY BuffersChange, <1>1, <1>2, <1>3, <1>4, <1>5, <1>6

(* Types, and the bounds: publish never overruns the channel of a          *)
(* subscriber (server.go:326-331).                                         *)
THEOREM TypeCorrect == Spec => []TypeOK
<1>1. Init => Places /\ Buffers
  BY WatchAssumption DEF Init, Places, Buffers, Publisher
<1>2. Init => Flags
  BY Zenon DEF Init, Flags
<1>3. TypeOK /\ [Next]_vars => TypeOK'
  BY TypeParts, PlacesKept, FlagsKept, BuffersKept, PTL
<1> QED BY <1>1, <1>2, <1>3, TypeParts, PTL DEF Spec
-----------------------------------------------------------------------------
(* A view that is not attached has not subscribed. *)
NotYet == view \in {"none", "asked"} => stream = "none"

(* The news of a revocation, by where it is. *)
Coming == \E p \in Publisher : pub[p] = "snapshot" \/ (pub[p] = "push" /\ ~snap[p])
Queued == \E k \in DOMAIN ch : ~ch[k]
Sent == \E k \in DOMAIN sent : ~sent[k]
Still == stream \in {"none", "registered", "ended"}

LEMMA RevokeParts ==
  RevokeUnderWay <=> (mine = "revoked" /\ view = "attached" /\ ~dropped => Still \/ Coming \/ Queued \/ Sent)
BY DEF RevokeUnderWay, Coming, Queued, Sent, Still

LEMMA NotYetKept == ASSUME NotYet, [Next]_vars PROVE NotYet'
<1> USE DEF NotYet
<1>1. CASE ShareNext
  BY <1>1 DEF ShareNext, AddMine, Expire, Activity, Tick, OtherChange, Revoke, CtrlC, Awake, streamVars, viewVars
<1>2. CASE PublishNext
  BY <1>2 DEF PublishNext, Snapshot, Push, Pushed, streamVars, viewVars
<1>3. CASE DaemonNext
  BY <1>3 DEF DaemonNext, Shutdown, Close, Exit, Subscribe, TakeFirst, SentFirst, Forward, StreamEnds,
       streamVars, viewVars, subscribed
<1>4. CASE ViewNext
  BY <1>4 DEF ViewNext, Attach, ReadSnapshot, LoseDaemon, Leave, Suspend, streamVars, viewVars, Awake
<1>5. CASE UNCHANGED vars
  BY <1>5 DEF vars, streamVars, viewVars
<1> QED BY <1>1, <1>2, <1>3, <1>4, <1>5 DEF Next

(* Elements of a sequence that is lengthened or shortened by one. *)
LEMMA AppendKeeps ==
  ASSUME NEW S, NEW s \in Seq(S), NEW e \in S
  PROVE  /\ \A k \in DOMAIN s : k \in DOMAIN Append(s, e) /\ Append(s, e)[k] = s[k]
         /\ Len(s) + 1 \in DOMAIN Append(s, e) /\ Append(s, e)[Len(s) + 1] = e
BY AppendProperties, LenProperties

LEMMA TailKeeps ==
  ASSUME NEW S, NEW s \in Seq(S), s # <<>>
  PROVE  \A k \in DOMAIN s : k = 1 \/ (k - 1 \in DOMAIN Tail(s) /\ Tail(s)[k - 1] = s[k])
BY HeadTailProperties, LenProperties

LEMMA PushTells ==
  ASSUME Places, Flags, Buffers, NEW p \in Publisher, Push(p), ~dropped',
         Still \/ Coming \/ Queued \/ Sent
  PROVE  Still' \/ Coming' \/ Queued' \/ Sent'
<1>1. /\ pub[p] = "push" /\ pub' = [pub EXCEPT ![p] = "idle"] /\ snap' = [snap EXCEPT ![p] = FALSE]
      /\ stream' = stream /\ sent' = sent
  BY DEF Push, Pushed
<1>2. \/ ch' = Append(ch, snap[p])
      \/ ch' = ch /\ (snap[p] \/ ~subscribed)
  BY DEF Push
<1>3. CASE Still
  BY <1>1, <1>3 DEF Still
<1>4. CASE Sent
  BY <1>1, <1>4 DEF Sent
<1> DEFINE B == BOOLEAN
<1>5. ch \in Seq(B) /\ snap[p] \in B
  BY Zenon DEF Buffers, Flags
<1>6. CASE Queued
  <2> PICK k \in DOMAIN ch : ~ch[k]
    BY <1>6 DEF Queued
  <2> HIDE DEF B
  <2>1. k \in DOMAIN Append(ch, snap[p]) /\ Append(ch, snap[p])[k] = ch[k]
    BY <1>5, AppendKeeps
  <2>2. k \in DOMAIN ch' /\ ch'[k] = ch[k]
    BY <1>2, <2>1, Zenon
  <2> QED BY <2>2 DEF Queued
<1>7. CASE Coming
  <2> PICK q \in Publisher : pub[q] = "snapshot" \/ (pub[q] = "push" /\ ~snap[q])
    BY <1>7 DEF Coming
  <2>1. CASE q # p
    <3>1. pub'[q] = pub[q] /\ snap'[q] = snap[q]
      BY <1>1, <2>1 DEF Places, Flags
    <3> QED BY <3>1 DEF Coming
  <2>2. CASE q = p /\ ch' = Append(ch, snap[p])
    <3> HIDE DEF B
    <3>1. Len(ch) + 1 \in DOMAIN ch' /\ ch'[Len(ch) + 1] = snap[p]
      BY <1>5, <2>2, AppendKeeps
    <3>2. ~snap[p]
      BY <1>1, <2>2
    <3> QED BY <3>1, <3>2 DEF Queued
  <2>3. CASE q = p /\ ~subscribed
    BY <1>1, <2>3 DEF subscribed, Still, Places
  <2>4. q = p => ~snap[p]
    BY <1>1
  <2> QED BY <1>2, <2>1, <2>2, <2>3, <2>4
<1> QED BY <1>3, <1>4, <1>6, <1>7

LEMMA ForwardTells ==
  ASSUME Buffers, Forward, Coming \/ Queued \/ Sent
  PROVE  Coming' \/ Queued' \/ Sent'
<1>1. /\ UNCHANGED <<pub, snap>> /\ ch # <<>>
      /\ sent' = Append(sent, Head(ch)) /\ ch' = Tail(ch)
  BY DEF Forward, pubVars
<1> DEFINE B == BOOLEAN
<1>2. ch \in Seq(B) /\ sent \in Seq(B)
  BY Zenon DEF Buffers
<1> HIDE DEF B
<1>3. Head(ch) \in B /\ Head(ch) = ch[1]
  BY <1>1, <1>2, HeadTailProperties
<1>4. CASE Coming
  BY <1>1, <1>4 DEF Coming
<1>5. CASE Sent
  <2> PICK k \in DOMAIN sent : ~sent[k]
    BY <1>5 DEF Sent
  <2>1. k \in DOMAIN sent' /\ sent'[k] = sent[k]
    BY <1>1, <1>2, <1>3, AppendKeeps
  <2> QED BY <2>1 DEF Sent
<1>6. CASE Queued
  <2> PICK k \in DOMAIN ch : ~ch[k]
    BY <1>6 DEF Queued
  <2>1. CASE k = 1
    <3>1. Len(sent) + 1 \in DOMAIN sent' /\ sent'[Len(sent) + 1] = ch[1]
      BY <1>1, <1>2, <1>3, AppendKeeps
    <3> QED BY <2>1, <3>1 DEF Sent
  <2>2. CASE k # 1
    <3>1. k - 1 \in DOMAIN ch' /\ ch'[k - 1] = ch[k]
      BY <1>1, <1>2, <2>2, TailKeeps
    <3> QED BY <3>1 DEF Queued
  <2> QED BY <2>1, <2>2
<1> QED BY <1>4, <1>5, <1>6

LEMMA ReadTells ==
  ASSUME Buffers, ReadSnapshot, view' = "attached", Still \/ Coming \/ Queued \/ Sent
  PROVE  Still' \/ Coming' \/ Queued' \/ Sent'
<1>1. /\ UNCHANGED <<pub, snap, stream, ch>> /\ sent # <<>> /\ sent' = Tail(sent)
  BY DEF ReadSnapshot, pubVars
<1>6. Head(sent)
  BY DEF ReadSnapshot
<1> DEFINE B == BOOLEAN
<1>2. sent \in Seq(B)
  BY Zenon DEF Buffers
<1> HIDE DEF B
<1>3. Head(sent) = sent[1]
  BY <1>1, <1>2, HeadTailProperties
<1>4. CASE Sent
  <2> PICK k \in DOMAIN sent : ~sent[k]
    BY <1>4 DEF Sent
  <2>1. k # 1
    BY <1>3, <1>6
  <2>2. k - 1 \in DOMAIN sent' /\ sent'[k - 1] = sent[k]
    BY <1>1, <1>2, <2>1, TailKeeps
  <2> QED BY <2>2 DEF Sent
<1>5. CASE Still \/ Coming \/ Queued
  BY <1>1, <1>5 DEF Still, Coming, Queued
<1> QED BY <1>4, <1>5

LEMMA RevokeKept ==
  ASSUME TypeOK, NotYet, RevokeUnderWay, [Next]_vars
  PROVE  RevokeUnderWay'
<1> SUFFICES ASSUME mine' = "revoked", view' = "attached", ~dropped'
             PROVE  Still' \/ Coming' \/ Queued' \/ Sent'
  BY DEF RevokeUnderWay, Coming, Queued, Sent, Still
<1>1. Places /\ Flags /\ Buffers
  BY TypeParts
<1>2. ASSUME NEW p \in Publisher, Call(p) PROVE Coming'
  BY <1>1, <1>2 DEF Call, Coming, Places
<1>3. mine = "revoked" /\ view = "attached" /\ ~dropped => Still \/ Coming \/ Queued \/ Sent
  BY RevokeParts
<1>4. ASSUME UNCHANGED <<mine, view, dropped, stream, pub, snap, ch, sent>>
      PROVE  Still' \/ Coming' \/ Queued' \/ Sent'
  BY <1>3, <1>4 DEF Still, Coming, Queued, Sent
<1>5. CASE ShareNext
  <2>1. Poster \in Publisher /\ Ticker \in Publisher /\ Handler \subseteq Publisher
    BY DEF Publisher
  <2>2. CASE AddMine \/ Expire
    BY <2>2 DEF AddMine, Expire
  <2>3. CASE Activity
    BY <1>4, <2>3 DEF Activity, pubVars, streamVars, viewVars
  <2>4. CASE Tick \/ \E p \in Handler : OtherChange(p) \/ Revoke(p) \/ CtrlC(p)
    BY <1>2, <2>1, <2>4 DEF Tick, OtherChange, Revoke, CtrlC
  <2> QED BY <1>5, <2>2, <2>3, <2>4 DEF ShareNext
<1>6. CASE PublishNext
  <2> PICK p \in Publisher : Snapshot(p) \/ Push(p)
    BY <1>6 DEF PublishNext
  <2>1. CASE Snapshot(p)
    <3>1. mine = "revoked" /\ pub' = [pub EXCEPT ![p] = "push"]
      BY <2>1 DEF Snapshot, hostVars
    <3>2. ~snap'[p]
      BY <1>1, <2>1, <3>1 DEF Snapshot, Flags
    <3>3. pub'[p] = "push"
      BY <1>1, <3>1 DEF Places
    <3> QED BY <3>2, <3>3 DEF Coming
  <2>2. CASE Push(p)
    <3>1. UNCHANGED <<mine, view>> /\ ~dropped
      BY <2>2 DEF Push, Pushed, hostVars, viewVars
    <3> QED BY <1>1, <1>3, <2>2, <3>1, PushTells
  <2> QED BY <2>1, <2>2
<1>7. CASE DaemonNext
  <2>1. CASE Shutdown \/ Close
    <3>1. UNCHANGED <<mine, view, dropped, stream, pub, snap, ch, sent>>
      BY <2>1 DEF Shutdown, Close, hostVars, pubVars, streamVars, viewVars
    <3> QED BY <1>4, <3>1
  <2>2. CASE Exit \/ Subscribe
    BY <2>2 DEF Exit, Subscribe, Still
  <2>3. CASE TakeFirst
    <3>1. mine = "revoked" /\ sent' = <<mine = "live">>
      BY <2>3 DEF TakeFirst, hostVars
    <3>3. sent' = <<FALSE>>
      BY <3>1
    <3>2. 1 \in DOMAIN sent' /\ ~sent'[1]
      BY <3>3
    <3> QED BY <3>2 DEF Sent
  <2>4. CASE SentFirst
    BY <1>3, <2>4 DEF SentFirst, hostVars, pubVars, viewVars, Still, Coming, Queued, Sent
  <2>5. CASE Forward
    <3>1. UNCHANGED <<mine, view, dropped>> /\ stream = "streaming"
      BY <2>5 DEF Forward, hostVars, viewVars
    <3> QED BY <1>1, <1>3, <2>5, <3>1, ForwardTells DEF Still
  <2>6. CASE StreamEnds
    BY <2>6 DEF StreamEnds, viewVars
  <2> QED BY <1>7, <2>1, <2>2, <2>3, <2>4, <2>5, <2>6 DEF DaemonNext
<1>8. CASE ViewNext
  <2>1. CASE Attach
    BY <2>1 DEF Attach, NotYet, Still, streamVars
  <2>2. CASE ReadSnapshot
    <3>1. mine = "revoked" /\ view = "attached" /\ ~dropped
      BY <2>2 DEF ReadSnapshot, Awake, hostVars
    <3> QED BY <1>1, <1>3, <2>2, <3>1, ReadTells
  <2>3. CASE LoseDaemon \/ Leave
    BY <2>3 DEF LoseDaemon, Leave
  <2>4. CASE Suspend
    BY <1>4, <2>4 DEF Suspend, hostVars, pubVars, streamVars
  <2> QED BY <1>8, <2>1, <2>2, <2>3, <2>4 DEF ViewNext
<1>9. CASE UNCHANGED vars
  BY <1>4, <1>9 DEF vars, hostVars, pubVars, streamVars, viewVars
<1> QED BY <1>5, <1>6, <1>7, <1>8, <1>9 DEF Next

(* The news of a revocation is not lost between publish and the view, for  *)
(* any number of publishers and any capacities (server.go:291-331).        *)
THEOREM RevokeUnderWayHolds == Spec => []RevokeUnderWay
<1>1. Init => NotYet /\ RevokeUnderWay
  BY DEF Init, NotYet, RevokeUnderWay
<1>2. TypeOK /\ NotYet /\ RevokeUnderWay /\ [Next]_vars => (NotYet /\ RevokeUnderWay)'
  BY NotYetKept, RevokeKept
<1> QED BY <1>1, <1>2, TypeCorrect, PTL DEF Spec
=============================================================================
