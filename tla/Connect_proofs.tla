--------------------------- MODULE Connect_proofs ---------------------------
(* Proofs about Connect, for any capacities and bounds. *)
EXTENDS Connect, SequenceTheorems, TLAPS

(* TypeOK in three parts, each for the prover that can do it. *)
Places ==
  /\ pc \in {"wait", "race", "run", "cut", "returned"}
  /\ gor \in {"recv", "put", "over"} /\ sock \in {"up", "dead", "closed"}
  /\ hellos \in Nat /\ flaps \in 0 .. MaxFlaps /\ rtcSent \in 0 .. MaxRtc
  /\ rtcMsgs \in 0 .. RtcCap
Flags ==
  /\ host \in BOOLEAN /\ hearing \in BOOLEAN
  /\ said \in BOOLEAN /\ missed \in BOOLEAN /\ mute \in BOOLEAN
Queues ==
  /\ inbox \in Seq(Frame)
  /\ manifestCh \in Seq({"manifest"}) /\ Len(manifestCh) <= 1
  /\ errCh \in Seq({"bye", "error"}) /\ Len(errCh) <= 1
Online == hostOnline \in Seq(BOOLEAN) /\ Len(hostOnline) <= OnlineCap

LEMMA TypeParts == TypeOK <=> Places /\ Flags /\ Queues /\ Online
BY DEF TypeOK, Places, Flags, Queues, Online
-----------------------------------------------------------------------------
(* Sequences *)

LEMMA OfferTo ==
  ASSUME NEW S, NEW s \in Seq(S), NEW v \in S, NEW cap \in Nat, Len(s) <= cap
  PROVE  Offer(s, cap, v) \in Seq(S) /\ Len(Offer(s, cap, v)) <= cap
<1>1. Append(s, v) \in Seq(S) /\ Len(Append(s, v)) = Len(s) + 1
  BY AppendProperties
<1>2. Len(s) \in Nat
  BY LenProperties
<1> QED BY <1>1, <1>2 DEF Offer

LEMMA TailOf ==
  ASSUME NEW S, NEW s \in Seq(S), s # <<>>, NEW cap \in Nat, Len(s) <= cap
  PROVE  Tail(s) \in Seq(S) /\ Len(Tail(s)) <= cap
<1>1. Len(Tail(s)) = Len(s) - 1 /\ Tail(s) \in Seq(S) /\ Len(s) \in Nat
  BY HeadTailProperties, LenProperties
<1> QED BY <1>1

(* What a step does to each channel. *)
LEMMA Steps ==
  ASSUME [Next]_vars
  PROVE  /\ \/ inbox' = inbox
            \/ sock = "up" /\ \E b \in {<<"bye", "host-offline">>, <<"host-offline">>, <<"host-online">>,
                                         <<"manifest">>, <<"rtc">>, <<"error">>} : inbox' = inbox \o b
            \/ inbox # <<>> /\ inbox' = Tail(inbox)
         /\ \/ manifestCh' = manifestCh
            \/ manifestCh' = Offer(manifestCh, 1, "manifest")
            \/ manifestCh # <<>> /\ manifestCh' = Tail(manifestCh)
         /\ \/ errCh' = errCh
            \/ \E e \in {"bye", "error"} : errCh' = Offer(errCh, 1, e)
            \/ errCh # <<>> /\ errCh' = Tail(errCh)
         /\ \/ hostOnline' = hostOnline
            \/ \E f \in {"host-online", "host-offline"} : hostOnline' = Offer(hostOnline, OnlineCap, f = "host-online")
            \/ hostOnline # <<>> /\ hostOnline' = Tail(hostOnline)
<1>1. CASE HostNext
  BY <1>1 DEF HostNext, HostComes, HostHears, HostAnswers, HostTrickles, HostLeaves, Arrive, chans
<1>2. CASE ServerEnds
  BY <1>2 DEF ServerEnds, chans
<1>3. CASE SocketDies
  BY <1>3 DEF SocketDies, chans
<1>4. CASE Goroutine
  BY <1>4, Zenon DEF Goroutine, ReadPresence, ReadManifest, ReadRtc, Put, PutCancelled, ReadBye, ReadError,
       RecvFails, Reads, chans
<1>5. CASE Select \/ Quit \/ GiveUp \/ ReadMsg \/ RaceReturns \/ StreamEnds \/ ReadFails \/ RunReturns
  BY <1>5, Zenon DEF Select, TakeManifest, TakeOnline, HelloFails, TakeErr, Quit, GiveUp, ReadMsg, RaceReturns,
       StreamEnds, ReadFails, RunReturns, chans
<1>6. CASE UNCHANGED vars
  BY <1>6 DEF vars
<1> QED BY <1>1, <1>2, <1>3, <1>4, <1>5, <1>6 DEF Next
-----------------------------------------------------------------------------
(* Each part is kept *)

LEMMA PlacesKept == Places /\ [Next]_vars => Places'
<1> SUFFICES ASSUME Places, [Next]_vars PROVE Places'
  OBVIOUS
<1> USE ConnectAssumption DEF Places
<1>1. CASE HostNext
  BY <1>1 DEF HostNext, HostComes, HostHears, HostAnswers, HostTrickles, HostLeaves, chans
<1>2. CASE ServerEnds \/ SocketDies
  BY <1>2 DEF ServerEnds, SocketDies, chans, hostVars
<1>3. CASE Goroutine
  BY <1>3 DEF Goroutine, ReadPresence, ReadManifest, ReadRtc, Put, PutCancelled, ReadBye, ReadError,
       RecvFails, Reads, chans, hostVars
<1>4. CASE Select
  <2>1. CASE TakeOnline
    <3>1. hellos' = hellos + 1 \/ hellos' = hellos
      BY <2>1, Zenon DEF TakeOnline
    <3>2. UNCHANGED <<pc, gor, sock, flaps, rtcSent, rtcMsgs>>
      BY <2>1, Zenon DEF TakeOnline
    <3> QED BY <3>1, <3>2
  <2> QED BY <1>4, <2>1 DEF Select, TakeManifest, HelloFails, TakeErr, chans, hostVars
<1>5. CASE Quit \/ GiveUp \/ ReadMsg \/ RaceReturns \/ StreamEnds \/ ReadFails \/ RunReturns
  BY <1>5 DEF Quit, GiveUp, ReadMsg, RaceReturns, StreamEnds, ReadFails, RunReturns, chans, hostVars
<1>6. CASE UNCHANGED vars
  BY <1>6 DEF vars
<1> QED BY <1>1, <1>2, <1>3, <1>4, <1>5, <1>6 DEF Next

LEMMA FlagsKept == Flags /\ [Next]_vars => Flags'
<1> SUFFICES ASSUME Flags, [Next]_vars PROVE Flags'
  OBVIOUS
<1>1. host' \in BOOLEAN
  BY Zenon DEF Flags, Next, HostNext, HostComes, HostHears, HostAnswers, HostTrickles, HostLeaves, ServerEnds,
       SocketDies, Goroutine, ReadPresence, ReadManifest, ReadRtc, Put, PutCancelled, ReadBye, ReadError,
       RecvFails, Select, TakeManifest, TakeOnline, HelloFails, TakeErr, Quit, GiveUp, ReadMsg, RaceReturns,
       StreamEnds, ReadFails, RunReturns, hostVars, vars
<1>2. hearing' \in BOOLEAN
  BY Zenon DEF Flags, Next, HostNext, HostComes, HostHears, HostAnswers, HostTrickles, HostLeaves, ServerEnds,
       SocketDies, Goroutine, ReadPresence, ReadManifest, ReadRtc, Put, PutCancelled, ReadBye, ReadError,
       RecvFails, Select, TakeManifest, TakeOnline, HelloFails, TakeErr, Quit, GiveUp, ReadMsg, RaceReturns,
       StreamEnds, ReadFails, RunReturns, hostVars, vars
<1>3. said' \in BOOLEAN
  BY Zenon DEF Flags, Next, HostNext, HostComes, HostHears, HostAnswers, HostTrickles, HostLeaves, ServerEnds,
       SocketDies, Goroutine, ReadPresence, ReadManifest, ReadRtc, Put, PutCancelled, ReadBye, ReadError,
       RecvFails, Select, TakeManifest, TakeOnline, HelloFails, TakeErr, Quit, GiveUp, ReadMsg, RaceReturns,
       StreamEnds, ReadFails, RunReturns, hostVars, vars
<1>4. missed' \in BOOLEAN
  BY Zenon DEF Flags, Next, HostNext, HostComes, HostHears, HostAnswers, HostTrickles, HostLeaves, ServerEnds,
       SocketDies, Goroutine, ReadPresence, ReadManifest, ReadRtc, Put, PutCancelled, ReadBye, ReadError,
       RecvFails, Select, TakeManifest, TakeOnline, HelloFails, TakeErr, Quit, GiveUp, ReadMsg, RaceReturns,
       StreamEnds, ReadFails, RunReturns, hostVars, vars
<1>5. mute' \in BOOLEAN
  BY Zenon DEF Flags, Next, HostNext, HostComes, HostHears, HostAnswers, HostTrickles, HostLeaves, ServerEnds,
       SocketDies, Goroutine, ReadPresence, ReadManifest, ReadRtc, Put, PutCancelled, ReadBye, ReadError,
       RecvFails, Select, TakeManifest, TakeOnline, HelloFails, TakeErr, Quit, GiveUp, ReadMsg, RaceReturns,
       StreamEnds, ReadFails, RunReturns, hostVars, vars
<1> QED BY <1>1, <1>2, <1>3, <1>4, <1>5 DEF Flags

LEMMA QueuesKept == Queues /\ [Next]_vars => Queues'
<1> SUFFICES ASSUME Queues, [Next]_vars PROVE Queues'
  OBVIOUS
<1>1. inbox' \in Seq(Frame)
  <2>1. \A b \in {<<"bye", "host-offline">>, <<"host-offline">>, <<"host-online">>,
                  <<"manifest">>, <<"rtc">>, <<"error">>} : b \in Seq(Frame)
    <3>1. \A x \in Frame : <<x>> \in Seq(Frame)
      OBVIOUS
    <3>2. \A x, y \in Frame : <<x, y>> \in Seq(Frame)
      OBVIOUS
    <3> QED BY <3>1, <3>2 DEF Frame
  <2>2. \A b \in Seq(Frame) : inbox \o b \in Seq(Frame)
    BY ConcatProperties DEF Queues
  <2>3. inbox # <<>> => Tail(inbox) \in Seq(Frame)
    BY HeadTailProperties DEF Queues
  <2> QED BY <2>1, <2>2, <2>3, Steps DEF Queues
<1>2. manifestCh' \in Seq({"manifest"}) /\ Len(manifestCh') <= 1
  BY Steps, OfferTo, TailOf DEF Queues
<1>3. errCh' \in Seq({"bye", "error"}) /\ Len(errCh') <= 1
  <2>1. \A e \in {"bye", "error"} : Offer(errCh, 1, e) \in Seq({"bye", "error"}) /\ Len(Offer(errCh, 1, e)) <= 1
    BY OfferTo DEF Queues
  <2>2. errCh # <<>> => Tail(errCh) \in Seq({"bye", "error"}) /\ Len(Tail(errCh)) <= 1
    BY TailOf DEF Queues
  <2> QED BY <2>1, <2>2, Steps DEF Queues
<1> QED BY <1>1, <1>2, <1>3 DEF Queues

LEMMA OnlineKept == Online /\ [Next]_vars => Online'
<1> SUFFICES ASSUME Online, [Next]_vars PROVE Online'
  OBVIOUS
<1> DEFINE B == BOOLEAN
<1>0. hostOnline \in Seq(B) /\ Len(hostOnline) <= OnlineCap
  BY DEF Online
<1>1. \A f : (f = "host-online") \in B
  BY Zenon
<1>q. OnlineCap \in Nat
  BY ConnectAssumption
<1> HIDE DEF B
<1>2. \A f : Offer(hostOnline, OnlineCap, f = "host-online") \in Seq(B)
             /\ Len(Offer(hostOnline, OnlineCap, f = "host-online")) <= OnlineCap
  BY <1>0, <1>1, <1>q, OfferTo, Zenon
<1>3. hostOnline # <<>> => Tail(hostOnline) \in Seq(B) /\ Len(Tail(hostOnline)) <= OnlineCap
  BY <1>0, <1>q, TailOf, Zenon
<1>4. hostOnline' \in Seq(B) /\ Len(hostOnline') <= OnlineCap
  BY <1>0, <1>2, <1>3, Steps, Zenon
<1> QED BY <1>4 DEF Online, B

-----------------------------------------------------------------------------
(* What a channel holds *)

Has(s, v) == \E k \in DOMAIN s : s[k] = v

LEMMA HasConcat ==
  ASSUME NEW S, NEW s \in Seq(S), NEW t \in Seq(S), NEW v
  PROVE  Has(s \o t, v) <=> Has(s, v) \/ Has(t, v)
<1>1. /\ DOMAIN s = 1 .. Len(s) /\ Len(s) \in Nat /\ DOMAIN t = 1 .. Len(t) /\ Len(t) \in Nat
      /\ DOMAIN (s \o t) = 1 .. Len(s) + Len(t)
  BY ConcatProperties, LenProperties
<1>2. \A i \in 1 .. Len(s) + Len(t) : (s \o t)[i] = IF i <= Len(s) THEN s[i] ELSE t[i - Len(s)]
  BY ConcatProperties
<1>3. Has(s, v) => Has(s \o t, v)
  BY <1>1, <1>2 DEF Has
<1>4. ASSUME NEW k \in DOMAIN t, t[k] = v PROVE Has(s \o t, v)
  <2>1. k + Len(s) \in 1 .. Len(s) + Len(t) /\ ~(k + Len(s) <= Len(s)) /\ (k + Len(s)) - Len(s) = k
    BY <1>1, <1>4
  <2>2. (s \o t)[k + Len(s)] = v
    BY <1>2, <1>4, <2>1
  <2> QED BY <2>1, <2>2, <1>1 DEF Has
<1>5. ASSUME NEW k \in DOMAIN (s \o t), (s \o t)[k] = v PROVE Has(s, v) \/ Has(t, v)
  <2>1. k \in 1 .. Len(s) + Len(t) /\ (k <= Len(s) => k \in DOMAIN s) /\ (~(k <= Len(s)) => k - Len(s) \in DOMAIN t)
    BY <1>1, <1>5
  <2> QED BY <1>2, <1>5, <2>1 DEF Has
<1> QED BY <1>3, <1>4, <1>5 DEF Has

LEMMA HasOne == ASSUME NEW v, NEW w PROVE Has(<<v>>, w) <=> v = w
BY DEF Has

LEMMA HasAppend ==
  ASSUME NEW S, NEW s \in Seq(S), NEW x \in S, NEW v
  PROVE  Has(Append(s, x), v) <=> Has(s, v) \/ x = v
<1>1. Append(s, x) = s \o <<x>> /\ <<x>> \in Seq(S)
  OBVIOUS
<1>2. Has(s \o <<x>>, v) <=> Has(s, v) \/ Has(<<x>>, v)
  BY <1>1, HasConcat, Zenon
<1> QED BY <1>1, <1>2, HasOne, Zenon

LEMMA HasTail ==
  ASSUME NEW S, NEW s \in Seq(S), s # <<>>, NEW v
  PROVE  Has(s, v) <=> Head(s) = v \/ Has(Tail(s), v)
<1>1. Tail(s) \in Seq(S) /\ <<Head(s)>> \in Seq(S) /\ s = <<Head(s)>> \o Tail(s)
  BY HeadTailProperties
<1>2. Has(<<Head(s)>> \o Tail(s), v) <=> Has(<<Head(s)>>, v) \/ Has(Tail(s), v)
  BY <1>1, HasConcat
<1>3. Has(<<Head(s)>>, v) <=> Head(s) = v
  BY HasOne
<1> QED BY <1>1, <1>2, <1>3

LEMMA HasNone == ASSUME NEW v PROVE ~Has(<<>>, v)
BY DEF Has

(* The inbox after a frame came, and after one was read. *)
LEMMA InboxSteps ==
  ASSUME Queues
  PROVE  /\ \A f : Unread(f) <=> Has(inbox, f)
         /\ \A b \in Seq(Frame) : \A f : Has(inbox \o b, f) <=> Has(inbox, f) \/ Has(b, f)
         /\ \A g, f : Reads(g) /\ Has(inbox, f) /\ f # g => Has(inbox', f)
<1>1. \A f : Unread(f) <=> Has(inbox, f)
  BY DEF Unread, Has
<1>2. \A b \in Seq(Frame) : \A f : Has(inbox \o b, f) <=> Has(inbox, f) \/ Has(b, f)
  BY HasConcat DEF Queues
<1>3. ASSUME NEW g, NEW f, Reads(g), Has(inbox, f), f # g PROVE Has(inbox', f)
  <2>1. inbox # <<>> /\ Head(inbox) = g /\ inbox' = Tail(inbox) /\ inbox \in Seq(Frame)
    BY <1>3, Zenon DEF Reads, Queues
  <2>2. Has(inbox, f) <=> Head(inbox) = f \/ Has(Tail(inbox), f)
    BY <2>1, HasTail, Zenon
  <2> QED BY <2>1, <2>2, <1>3
<1> QED BY <1>1, <1>2, <1>3, Zenon

(* hostOnline holds a host-online. *)
News == \E k \in DOMAIN hostOnline : hostOnline[k]

LEMMA NewsIs ==
  ASSUME Online
  PROVE  /\ News <=> Has(hostOnline, TRUE)
         /\ \A f : Has(hostOnline, TRUE) => Has(Offer(hostOnline, OnlineCap, f = "host-online"), TRUE)
         /\ \/ Has(hostOnline, TRUE)
            \/ Has(Offer(hostOnline, OnlineCap, TRUE), TRUE)
            \/ Len(hostOnline) = OnlineCap /\ \A i \in 1 .. OnlineCap : ~hostOnline[i]
         /\ hostOnline # <<>> /\ Has(hostOnline, TRUE) => Head(hostOnline) \/ Has(Tail(hostOnline), TRUE)
<1> DEFINE B == BOOLEAN
<1>0. hostOnline \in Seq(B) /\ Len(hostOnline) <= OnlineCap /\ OnlineCap \in Nat
  BY ConnectAssumption DEF Online
<1>d. Len(hostOnline) \in Nat /\ DOMAIN hostOnline = 1 .. Len(hostOnline)
  <2> HIDE DEF B
  <2> QED BY <1>0, LenProperties
<1>e. \A k \in DOMAIN hostOnline : hostOnline[k] \in BOOLEAN
  <2>1. \A k \in DOMAIN hostOnline : hostOnline[k] \in B
    <3> HIDE DEF B
    <3> QED BY <1>0, <1>d, ElementOfSeq
  <2> QED BY <2>1
<1>1. News <=> Has(hostOnline, TRUE)
  BY <1>e, Zenon DEF News, Has
<1>b. \A f : (f = "host-online") \in B
  BY Zenon
<1>t. TRUE \in B
  BY Zenon
<1>2. \A f : Has(hostOnline, TRUE) => Has(Offer(hostOnline, OnlineCap, f = "host-online"), TRUE)
  <2> HIDE DEF B
  <2>1. \A x \in B : Has(Append(hostOnline, x), TRUE) <=> Has(hostOnline, TRUE) \/ x = TRUE
    BY <1>0, HasAppend, Zenon
  <2> QED BY <2>1, <1>b, Zenon DEF Offer
<1>3. \/ Has(hostOnline, TRUE)
      \/ Has(Offer(hostOnline, OnlineCap, TRUE), TRUE)
      \/ Len(hostOnline) = OnlineCap /\ \A i \in 1 .. OnlineCap : ~hostOnline[i]
  <2>1. CASE Len(hostOnline) < OnlineCap
    <3> HIDE DEF B
    <3>1. Has(Append(hostOnline, TRUE), TRUE)
      BY <1>0, <1>t, HasAppend, Zenon
    <3> QED BY <3>1, <2>1, Zenon DEF Offer
  <2>2. CASE ~(Len(hostOnline) < OnlineCap)
    <3>1. Len(hostOnline) = OnlineCap
      <4>1. Len(hostOnline) <= OnlineCap /\ OnlineCap \in Nat /\ Len(hostOnline) \in Nat
        BY <1>0, <1>d, Zenon
      <4> QED BY <2>2, <4>1
    <3>2. DOMAIN hostOnline = 1 .. OnlineCap
      BY <3>1, <1>d, Zenon
    <3> QED BY <3>1, <3>2, <1>1, Zenon DEF News
  <2> QED BY <2>1, <2>2
<1>4. hostOnline # <<>> /\ Has(hostOnline, TRUE) => Head(hostOnline) \/ Has(Tail(hostOnline), TRUE)
  <2> HIDE DEF B
  <2>1. hostOnline # <<>> => (Has(hostOnline, TRUE) <=> Head(hostOnline) = TRUE \/ Has(Tail(hostOnline), TRUE))
    BY <1>0, HasTail, Zenon
  <2> QED BY <2>1, Zenon
<1> QED BY <1>1, <1>2, <1>3, <1>4, Zenon
-----------------------------------------------------------------------------
(* AskUnderWay *)

Parts == Places /\ Flags /\ Queues /\ Online
Waits == pc = "wait" /\ host /\ sock = "up" /\ ~missed /\ ~mute
AskOut == hellos > 0 \/ hearing \/ manifestCh # <<>>
AskIn == Has(inbox, "manifest") \/ Has(inbox, "host-online")

LEMMA AskIs == Parts => (AskUnderWay <=> (Waits => AskOut \/ AskIn \/ Has(hostOnline, TRUE)))
<1> SUFFICES ASSUME Parts PROVE AskUnderWay <=> (Waits => AskOut \/ AskIn \/ Has(hostOnline, TRUE))
  OBVIOUS
<1>1. (\E k \in DOMAIN hostOnline : hostOnline[k]) <=> Has(hostOnline, TRUE)
  BY NewsIs, Zenon DEF News, Parts
<1>2. Unread("manifest") <=> Has(inbox, "manifest")
  BY InboxSteps, Zenon DEF Parts
<1>3. Unread("host-online") <=> Has(inbox, "host-online")
  BY InboxSteps, Zenon DEF Parts
<1> QED BY <1>1, <1>2, <1>3, Zenon DEF AskUnderWay, Waits, AskOut, AskIn

LEMMA AskKept ==
  ASSUME Parts, Parts', AskUnderWay, [Next]_vars
  PROVE  AskUnderWay'
<1> DEFINE Has3 == Has(hostOnline, TRUE)
<1>0. Waits => AskOut \/ AskIn \/ Has3
  BY AskIs
<1>g. (Waits' => AskOut' \/ AskIn' \/ Has3') => AskUnderWay'
  <2>1. Parts' => (AskUnderWay' <=> (Waits' => AskOut' \/ AskIn' \/ Has3'))
    BY AskIs, PTL
  <2> QED BY <2>1
<1> SUFFICES Waits' => AskOut' \/ AskIn' \/ Has3'
  BY <1>g
<1>c. \A b \in Seq(Frame) : \A f : Has(inbox \o b, f) <=> Has(inbox, f) \/ Has(b, f)
  BY InboxSteps DEF Parts
<1>r. \A g, f : Reads(g) /\ Has(inbox, f) /\ f # g => Has(inbox', f)
  BY InboxSteps, Zenon DEF Parts
<1>f. \A b \in {<<"bye", "host-offline">>, <<"host-offline">>, <<"manifest">>, <<"host-online">>, <<"rtc">>} :
        b \in Seq(Frame)
  <2>1. \A x, y \in Frame : <<x, y>> \in Seq(Frame) /\ <<x>> \in Seq(Frame)
    OBVIOUS
  <2> QED BY <2>1 DEF Frame
<1>h. Has(<<"manifest">>, "manifest") /\ Has(<<"host-online">>, "host-online")
  BY HasOne
<1>1. CASE HostComes
  <2>1. sock' = sock /\ (sock = "up" => inbox' = inbox \o <<"host-online">>)
    BY <1>1, Zenon DEF HostComes, Arrive
  <2>2. sock' = "up" => Has(inbox', "host-online")
    BY <2>1, <1>c, <1>f, <1>h
  <2> QED BY <2>2, Zenon DEF Waits, AskIn
<1>2. CASE HostHears
  BY <1>2, Zenon DEF HostHears, AskOut
<1>3. CASE HostAnswers
  <2>1. sock' = sock /\ (sock = "up" => inbox' = inbox \o <<"manifest">> \/ mute')
    BY <1>3, Zenon DEF HostAnswers, Arrive
  <2>2. sock' = "up" => Has(inbox', "manifest") \/ mute'
    BY <2>1, <1>c, <1>f, <1>h
  <2> QED BY <2>2, Zenon DEF Waits, AskIn
<1>4. CASE HostTrickles
  BY <1>4, Zenon DEF HostTrickles, Waits, Arrive, chans, AskOut, AskIn
<1>5. CASE \E b \in BOOLEAN : HostLeaves(b)
  BY <1>5, Zenon DEF HostLeaves, Waits
<1>6. CASE ServerEnds \/ SocketDies
  <2>1. sock' # "up"
    BY <1>6 DEF ServerEnds, SocketDies
  <2> QED BY <2>1, Zenon DEF Waits
<1>7. ASSUME NEW fr \in Frame, ReadPresence(fr) PROVE Waits' => AskOut' \/ AskIn' \/ Has3'
  <2>0. Reads(fr) /\ fr \in {"host-online", "host-offline"}
        /\ hostOnline' = Offer(hostOnline, OnlineCap, fr = "host-online")
        /\ UNCHANGED <<pc, host, sock, mute, hellos, hearing, manifestCh>>
    BY <1>7, Zenon DEF ReadPresence
  <2>m. missed' = (missed \/ (/\ fr = "host-online" /\ Len(hostOnline) = OnlineCap
                          /\ \A i \in 1 .. OnlineCap : ~hostOnline[i]))
    BY <1>7, Zenon DEF ReadPresence
  <2>1. Waits' => Waits
    BY <2>0, <2>m, Zenon DEF Waits
  <2>2. AskOut => AskOut'
    BY <2>0, Zenon DEF AskOut
  <2>3. Has(inbox, "manifest") => Has(inbox', "manifest")
    <3>1. fr # "manifest"
      BY <2>0
    <3> QED BY <3>1, <2>0, <1>r, Zenon
  <2>4. Has3 => Has3'
    BY <2>0, NewsIs, Zenon DEF Parts
  <2>5. CASE fr = "host-online"
    <3>1. Offer(hostOnline, OnlineCap, TRUE) = hostOnline'
      BY <2>0, <2>5, Zenon
    <3>2. Has3 \/ Has3' \/ (Len(hostOnline) = OnlineCap /\ \A i \in 1 .. OnlineCap : ~hostOnline[i])
      BY <3>1, NewsIs, Zenon DEF Parts
    <3>3. Has3' \/ missed'
      BY <3>2, <2>4, <2>m, <2>5, Zenon
    <3> QED BY <3>3, Zenon DEF Waits
  <2>6. CASE fr # "host-online"
    <3>1. Has(inbox, "host-online") => Has(inbox', "host-online")
      BY <2>6, <2>0, <1>r, Zenon
    <3> QED BY <3>1, <2>1, <2>2, <2>3, <2>4, <1>0, Zenon DEF AskIn
  <2> QED BY <2>5, <2>6
<1>8. CASE ReadManifest
  <2>1. manifestCh' = Offer(manifestCh, 1, "manifest")
    BY <1>8 DEF ReadManifest
  <2>2. Len(manifestCh) \in Nat /\ Append(manifestCh, "manifest") # <<>> /\ (manifestCh = <<>> => Len(manifestCh) = 0)
    BY AppendProperties, LenProperties DEF Parts, Queues
  <2>3. manifestCh' # <<>>
    BY <2>1, <2>2 DEF Offer
  <2> QED BY <2>3, Zenon DEF AskOut
<1>9. CASE ReadRtc \/ ReadBye \/ ReadError
  <2>1. \E g \in {"rtc", "bye", "error"} : Reads(g)
    BY <1>9, Zenon DEF ReadRtc, ReadBye, ReadError
  <2>2. UNCHANGED <<pc, host, sock, missed, mute, hellos, hearing, manifestCh, hostOnline>>
    BY <1>9, Zenon DEF ReadRtc, ReadBye, ReadError, hostVars, chans
  <2>3. /\ Has(inbox, "manifest") => Has(inbox', "manifest")
        /\ Has(inbox, "host-online") => Has(inbox', "host-online")
    BY <2>1, <1>r
  <2> QED BY <2>2, <2>3, <1>0, Zenon DEF Waits, AskOut, AskIn
<1>10. CASE Put \/ PutCancelled \/ RecvFails \/ HelloFails \/ TakeErr \/ Quit \/ GiveUp \/ ReadMsg
            \/ RaceReturns \/ StreamEnds \/ ReadFails \/ RunReturns \/ UNCHANGED vars
  <2>1. UNCHANGED <<host, sock, missed, mute, hellos, hearing, manifestCh, inbox>>
    BY <1>10, Zenon DEF Put, PutCancelled, RecvFails, HelloFails, TakeErr, Quit, GiveUp, ReadMsg, RaceReturns,
         StreamEnds, ReadFails, RunReturns, vars, hostVars, chans
  <2>2. pc' = "wait" => UNCHANGED <<pc, hostOnline>>
    <3>1. CASE Quit \/ GiveUp \/ RaceReturns \/ StreamEnds \/ ReadFails \/ RunReturns \/ TakeErr \/ HelloFails
      BY <3>1 DEF Quit, GiveUp, RaceReturns, StreamEnds, ReadFails, RunReturns, TakeErr, HelloFails
    <3>2. CASE Put \/ PutCancelled \/ RecvFails \/ ReadMsg \/ UNCHANGED vars
      BY <3>2, Zenon DEF Put, PutCancelled, RecvFails, ReadMsg, vars, chans
    <3> QED BY <1>10, <3>1, <3>2
  <2> QED BY <2>1, <2>2, <1>0, Zenon DEF Waits, AskOut, AskIn
<1>11. CASE TakeManifest
  BY <1>11 DEF TakeManifest, Waits
<1>12. CASE TakeOnline
  <2>1. UNCHANGED <<pc, host, sock, missed, mute, hearing, manifestCh, inbox>>
    BY <1>12, Zenon DEF TakeOnline
  <2>2. hostOnline # <<>> /\ hostOnline' = Tail(hostOnline)
    BY <1>12, Zenon DEF TakeOnline
  <2>3. hellos' = IF Head(hostOnline) /\ host /\ sock = "up" THEN hellos + 1 ELSE hellos
    BY <1>12, Zenon DEF TakeOnline
  <2>4. Has3 => Head(hostOnline) \/ Has3'
    BY <2>2, NewsIs, Zenon DEF Parts
  <2>5. CASE Head(hostOnline) /\ host /\ sock = "up"
    <3>1. hellos' = hellos + 1
      BY <2>3, <2>5, Zenon
    <3>2. hellos' > 0
      BY <3>1 DEF Parts, Places
    <3> QED BY <3>2, Zenon DEF AskOut
  <2>6. CASE ~(Head(hostOnline) /\ host /\ sock = "up")
    <3>1. hellos' = hellos
      BY <2>3, <2>6, Zenon
    <3> QED BY <3>1, <2>1, <2>4, <2>6, <1>0, Zenon DEF Waits, AskOut, AskIn
  <2> QED BY <2>5, <2>6, Zenon
<1> QED BY <1>1, <1>2, <1>3, <1>4, <1>5, <1>6, <1>7, <1>8, <1>9, <1>10, <1>11, <1>12
        DEF Next, HostNext, Goroutine, Select

LEMMA PartsKept == Parts /\ [Next]_vars => Parts'
BY PlacesKept, FlagsKept, QueuesKept, OnlineKept DEF Parts

LEMMA InitParts == Init => Parts
<1> SUFFICES ASSUME Init PROVE Parts
  OBVIOUS
<1>1. Places
  BY ConnectAssumption DEF Init, Places
<1>2. Flags
  BY Zenon DEF Init, Flags
<1>3. Queues
  <2>1. "host-online" \in Frame /\ <<>> \in Seq(Frame) /\ \A x \in Frame : <<x>> \in Seq(Frame)
    BY DEF Frame
  <2>2. inbox \in {<<>>, <<"host-online">>} /\ manifestCh = <<>> /\ errCh = <<>>
    BY Zenon DEF Init
  <2>3. <<>> \in Seq({"manifest"}) /\ <<>> \in Seq({"bye", "error"}) /\ Len(<<>>) = 0
    OBVIOUS
  <2>4. inbox \in Seq(Frame)
    BY <2>1, <2>2
  <2>5. manifestCh \in Seq({"manifest"}) /\ errCh \in Seq({"bye", "error"})
    BY <2>2, <2>3, Zenon
  <2>6. Len(manifestCh) <= 1 /\ Len(errCh) <= 1
    BY <2>2
  <2> QED BY <2>4, <2>5, <2>6 DEF Queues
<1>4. Online
  BY ConnectAssumption DEF Init, Online
<1> QED BY <1>1, <1>2, <1>3, <1>4 DEF Parts

(* Every channel holds what it may and never more than fits: peer.go:117-120. *)
THEOREM TypeCorrect == Spec => []TypeOK
<1>1. Parts => TypeOK
  BY TypeParts DEF Parts
<1> QED BY <1>1, InitParts, PartsKept, PTL DEF Spec

(* As long as Receive waits and the host is there, a HELLO, the host's     *)
(* answer to it, or the presence that makes Receive say HELLO again, is    *)
(* under way, unless that was dropped or this host was asked and could not *)
(* send its manifest: peer.go:130-150, 199-213, the HELLO case of          *)
(* Share.handle (share.go:341-355) and Send (client.go:154-161).           *)
THEOREM AskUnderWayHolds == Spec => []AskUnderWay
<1>1. Init => AskUnderWay
  <2> SUFFICES ASSUME Init, host PROVE hellos > 0
    BY Zenon DEF AskUnderWay
  <2> QED BY DEF Init
<1>2. Parts /\ AskUnderWay /\ [Next]_vars => Parts' /\ AskUnderWay'
  BY PartsKept, AskKept
<1> QED BY <1>1, <1>2, InitParts, PTL DEF Spec
-----------------------------------------------------------------------------
(* EndUnderWay *)

(* The goroutine does not end without a word to Receive. *)
Told == gor = "over" => pc = "returned" \/ errCh # <<>>
Ended == (said \/ sock # "up") /\ pc # "returned"
Heard == gor # "over" /\ (Has(inbox, "bye") \/ Has(inbox, "error") \/ sock = "dead")

Informed == errCh # <<>> \/ Heard

LEMMA EndIs == Parts => (EndUnderWay <=> (Ended => Informed))
BY InboxSteps, Zenon DEF EndUnderWay, Ended, Informed, Heard, Parts

LEMMA OfferedErr ==
  ASSUME Parts
  PROVE  \A e \in {"bye", "error"} : Offer(errCh, 1, e) # <<>>
<1> SUFFICES ASSUME NEW e \in {"bye", "error"} PROVE Offer(errCh, 1, e) # <<>>
  OBVIOUS
<1>1. Len(errCh) \in Nat /\ Append(errCh, e) # <<>> /\ (errCh = <<>> => Len(errCh) = 0)
  BY AppendProperties, LenProperties DEF Parts, Queues
<1> QED BY <1>1 DEF Offer

LEMMA ToldKept ==
  ASSUME Parts, Told, [Next]_vars
  PROVE  Told'
<1>1. CASE ReadError \/ RecvFails \/ ReadBye
  <2>1. \E e \in {"bye", "error"} : errCh' = Offer(errCh, 1, e)
    BY <1>1, Zenon DEF ReadError, RecvFails, ReadBye
  <2> QED BY <2>1, OfferedErr DEF Told
<1>2. CASE PutCancelled
  BY <1>2, Zenon DEF PutCancelled, ctxDone, Told
<1>3. CASE TakeErr \/ Quit \/ GiveUp \/ ReadFails \/ RunReturns \/ HelloFails
  BY <1>3, Zenon DEF TakeErr, Quit, GiveUp, ReadFails, RunReturns, HelloFails, Told
<1>4. CASE RaceReturns \/ StreamEnds \/ TakeManifest \/ TakeOnline
  <2>1. UNCHANGED <<gor, errCh>> /\ pc # "returned"
    BY <1>4 DEF RaceReturns, StreamEnds, TakeManifest, TakeOnline, chans
  <2> QED BY <2>1, Zenon DEF Told
<1>5. CASE Put \/ ReadRtc
  <2>1. gor' # "over"
    BY <1>5 DEF Put, ReadRtc
  <2> QED BY <2>1 DEF Told
<1>6. CASE HostNext \/ ServerEnds \/ SocketDies \/ ReadManifest \/ (\E f \in Frame : ReadPresence(f)) \/ ReadMsg \/ UNCHANGED vars
  <2>1. UNCHANGED <<gor, errCh, pc>>
    BY <1>6, Zenon DEF HostNext, HostComes, HostHears, HostAnswers, HostTrickles, HostLeaves, ServerEnds,
         SocketDies, ReadManifest, ReadPresence, ReadMsg, vars, chans
  <2> QED BY <2>1, Zenon DEF Told
<1> QED BY <1>1, <1>2, <1>3, <1>4, <1>5, <1>6 DEF Next, Goroutine, Select

LEMMA EndKept ==
  ASSUME Parts, Parts', Told, EndUnderWay, [Next]_vars
  PROVE  EndUnderWay'
<1>0. Ended => Informed
  BY EndIs
<1>g. (Ended' => Informed') => EndUnderWay'
  <2>1. Parts' => (EndUnderWay' <=> (Ended' => Informed'))
    BY EndIs, PTL
  <2> QED BY <2>1
<1> SUFFICES Ended' => Informed'
  BY <1>g
<1>c. \A b \in Seq(Frame) : \A f : Has(inbox \o b, f) <=> Has(inbox, f) \/ Has(b, f)
  BY InboxSteps DEF Parts
<1>r. \A g, f : Reads(g) /\ Has(inbox, f) /\ f # g => Has(inbox', f)
  BY InboxSteps, Zenon DEF Parts
<1>f. \A b \in {<<"bye", "host-offline">>, <<"host-offline">>, <<"manifest">>, <<"host-online">>, <<"rtc">>,
                <<"error">>} : b \in Seq(Frame)
  <2>1. \A x, y \in Frame : <<x, y>> \in Seq(Frame) /\ <<x>> \in Seq(Frame)
    OBVIOUS
  <2> QED BY <2>1 DEF Frame
<1>1. CASE HostNext
  <2>1. UNCHANGED <<pc, gor, sock, errCh>>
    BY <1>1, Zenon DEF HostNext, HostComes, HostHears, HostAnswers, HostTrickles, HostLeaves, chans
  <2>2. \A f : Has(inbox, f) => Has(inbox', f)
    <3>1. inbox' = inbox \/ \E b \in {<<"bye", "host-offline">>, <<"host-offline">>, <<"manifest">>,
                                      <<"host-online">>, <<"rtc">>} : inbox' = inbox \o b
      BY <1>1, Zenon DEF HostNext, HostComes, HostHears, HostAnswers, HostTrickles, HostLeaves, Arrive, chans
    <3> QED BY <3>1, <1>c, <1>f
  <2>3. said' = said \/ (sock = "up" /\ Has(inbox', "bye"))
    <3>1. CASE \E b \in BOOLEAN : HostLeaves(b)
      <4> PICK b \in BOOLEAN : HostLeaves(b)
        BY <3>1
      <4>1. CASE b /\ sock = "up"
        <5>1. inbox' = inbox \o <<"bye", "host-offline">>
          BY <4>1, Zenon DEF HostLeaves, Arrive
        <5>2. Has(<<"bye", "host-offline">>, "bye")
          BY DEF Has
        <5> QED BY <5>1, <5>2, <4>1, <1>c, <1>f
      <4>2. CASE ~(b /\ sock = "up")
        <5>1. said' = said \/ said' = FALSE \/ said' = TRUE
          BY FlagsKept, Zenon DEF Parts, Flags
        <5>2. said \in BOOLEAN /\ said' = (said \/ (b /\ sock = "up"))
          BY Zenon DEF Parts, Flags, HostLeaves
        <5> QED BY <5>2, <4>2, Zenon
      <4> QED BY <4>1, <4>2, Zenon
    <3>2. CASE HostComes \/ HostHears \/ HostAnswers \/ HostTrickles
      BY <3>2, Zenon DEF HostComes, HostHears, HostAnswers, HostTrickles
    <3> QED BY <1>1, <3>1, <3>2, Zenon DEF HostNext
  <2> QED BY <2>1, <2>2, <2>3, <1>0, Zenon DEF Ended, Informed, Heard, Told
<1>2. CASE ServerEnds
  <2>1. inbox' = Append(inbox, "error") /\ UNCHANGED <<gor, errCh, pc>>
    BY <1>2, Zenon DEF ServerEnds, chans
  <2>2. Has(inbox', "error")
    BY <2>1, HasAppend DEF Parts, Queues, Frame
  <2> QED BY <2>1, <2>2, Zenon DEF Ended, Informed, Heard, Told
<1>3. CASE SocketDies
  BY <1>3, Zenon DEF SocketDies, chans, Ended, Informed, Heard, Told
<1>4. CASE ReadError \/ RecvFails \/ ReadBye
  <2>1. \E e \in {"bye", "error"} : errCh' = Offer(errCh, 1, e)
    BY <1>4, Zenon DEF ReadError, RecvFails, ReadBye
  <2> QED BY <2>1, OfferedErr DEF Informed
<1>5. CASE TakeErr \/ Quit \/ GiveUp \/ ReadFails \/ RunReturns \/ HelloFails \/ PutCancelled
  BY <1>5, Zenon DEF TakeErr, Quit, GiveUp, ReadFails, RunReturns, HelloFails, PutCancelled, ctxDone, Ended
<1>6. CASE ReadManifest \/ ReadRtc \/ \E f \in Frame : ReadPresence(f)
  <2>1. \E g \in {"manifest", "rtc", "host-online", "host-offline"} : Reads(g)
    BY <1>6, Zenon DEF ReadManifest, ReadRtc, ReadPresence
  <2>2. UNCHANGED <<pc, sock, said, errCh>>
    BY <1>6, Zenon DEF ReadManifest, ReadRtc, ReadPresence, chans, hostVars
  <2>3. gor' # "over"
    BY <1>6 DEF ReadManifest, ReadRtc, ReadPresence, Reads
  <2>4. (Has(inbox, "bye") => Has(inbox', "bye")) /\ (Has(inbox, "error") => Has(inbox', "error"))
    BY <2>1, <1>r
  <2> QED BY <2>2, <2>3, <2>4, <1>0, Zenon DEF Ended, Informed, Heard
<1>7. CASE Put \/ RaceReturns \/ StreamEnds \/ TakeManifest \/ TakeOnline \/ ReadMsg \/ UNCHANGED vars
  <2>1. UNCHANGED <<sock, said, errCh, inbox>>
    BY <1>7, Zenon DEF Put, RaceReturns, StreamEnds, TakeManifest, TakeOnline, ReadMsg, vars, hostVars, chans
  <2>2. pc' = pc \/ pc # "returned"
    BY <1>7 DEF Put, RaceReturns, StreamEnds, TakeManifest, TakeOnline, ReadMsg, vars
  <2>3. gor' = gor \/ gor' # "over"
    BY <1>7 DEF Put, RaceReturns, StreamEnds, TakeManifest, TakeOnline, ReadMsg, vars, chans
  <2> QED BY <2>1, <2>2, <2>3, <1>0, Zenon DEF Ended, Informed, Heard
<1> QED BY <1>1, <1>2, <1>3, <1>4, <1>5, <1>6, <1>7 DEF Next, Goroutine, Select

(* As long as Receive does not know that the host said Bye, or that its    *)
(* signaling socket is gone, the news is in errCh or the goroutine is      *)
(* there to bring it: peer.go:122-166.                                     *)
THEOREM EndUnderWayHolds == Spec => []EndUnderWay
<1>1. Init => Told /\ EndUnderWay
  BY DEF Init, Told, EndUnderWay
<1>2. Parts /\ Told /\ EndUnderWay /\ [Next]_vars => Parts' /\ Told' /\ EndUnderWay'
  BY PartsKept, ToldKept, EndKept
<1> QED BY <1>1, <1>2, InitParts, PTL DEF Spec
=============================================================================
