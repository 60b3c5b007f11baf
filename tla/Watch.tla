------------------------------- MODULE Watch -------------------------------
(***************************************************************************)
(* The attached view of `beeline share --wait` (cmd/beeline/wait.go) and   *)
(* the events it follows (events, publish and ticker of                    *)
(* internal/daemon/server.go).  The daemon pushes snapshots of its shares  *)
(* into a channel per subscriber and drops those that find it full; the    *)
(* view is over when a snapshot does not list its share.                   *)
(*                                                                         *)
(* There is one view, of one share; the other shares, the receive jobs and *)
(* the other clients appear by what they make the daemon do.  A snapshot is*)
(* TRUE if it lists the share.                                             *)
(***************************************************************************)
EXTENDS Naturals, Sequences

CONSTANTS
  Handler,    \* goroutines that publish: handlers, receive jobs, Restore
  Poster,     \* the handler of the view's POST /shares
  Ticker,     \* the goroutine of ticker
  SubCap,     \* capacity of a subscriber's channel (8 in the code)
  ClientCap   \* bound: snapshots written to the stream and not yet taken by
              \* the view (socket buffers, the scanner, a channel of 4)

ASSUME WatchAssumption ==
  /\ SubCap \in Nat \ {0} /\ ClientCap \in Nat \ {0}
  /\ Poster # Ticker /\ {Poster, Ticker} \cap Handler = {}

Publisher == Handler \cup {Poster, Ticker}

VARIABLES
  proc,      \* "up"; "stopping": Run's context is cancelled; "closed": Close
             \* emptied the map; "down"
  mine,      \* the share: "none", "live", "revoked", "expired" (also used up,
             \* or gone at the server), "kept": taken by Close, still saved
  receiver,  \* a receiver is connected to it
  busy,      \* another share has a receiver, or a receive job runs
  pub, snap, \* each publisher in publish, and the snapshot it took
  stream,    \* the handler of events: "none", "registered": in s.subs,
             \* "first": writing the first snapshot, "streaming", "ended"
  ch,        \* the subscriber's channel
  sent,      \* written and not yet taken by the view
  view,      \* "none", "asked", "attached", "over", "lost", "left"
  asleep,    \* the view does not run: suspended, or its terminal is stopped
  dropped    \* history: a snapshot without the share was dropped

hostVars == <<mine, receiver, busy>>
pubVars == <<pub, snap>>
streamVars == <<stream, ch, sent, dropped>>
viewVars == <<view, asleep>>
vars == <<proc, hostVars, pubVars, streamVars, viewVars>>

Running == proc # "down"

(* Mutant: the channel is registered after the first snapshot. *)
subscribedLate == stream = "streaming"

(* s.subs has the channel. *)
subscribed == stream \in {"registered", "first", "streaming"}

Init ==
  /\ proc = "up"
  /\ mine = "none" /\ receiver = FALSE /\ busy = FALSE
  /\ pub = [p \in Publisher |-> "idle"] /\ snap = [p \in Publisher |-> FALSE]
  /\ stream = "none" /\ ch = <<>> /\ sent = <<>> /\ dropped = FALSE
  /\ view = "none" /\ asleep = FALSE
-----------------------------------------------------------------------------
(* publish *)

(* p calls publish. *)
Call(p) ==
  /\ pub[p] = "idle" /\ pub' = [pub EXCEPT ![p] = "snapshot"]
  /\ UNCHANGED snap

(* The snapshot, under h.mu. *)
Snapshot(p) ==
  /\ pub[p] = "snapshot"
  /\ pub' = [pub EXCEPT ![p] = "push"]
  /\ snap' = [snap EXCEPT ![p] = mine = "live"]
  /\ UNCHANGED <<proc, hostVars, streamVars, viewVars>>

Pushed(p) ==
  /\ pub[p] = "push"
  /\ pub' = [pub EXCEPT ![p] = "idle"] /\ snap' = [snap EXCEPT ![p] = FALSE]
  /\ UNCHANGED <<proc, hostVars, stream, sent, viewVars>>

(* Mutant: a push waits until the subscriber has room. *)
PushBlocking(p) ==
  /\ subscribed => Len(ch) < SubCap
  /\ Pushed(p)
  /\ ch' = IF subscribed THEN Append(ch, snap[p]) ELSE ch
  /\ UNCHANGED dropped

(* To every subscriber, under s.mu; one whose channel is full gets nothing.*)
Push(p) ==
  /\ Pushed(p)
  /\ IF subscribed /\ Len(ch) < SubCap
     THEN ch' = Append(ch, snap[p]) /\ UNCHANGED dropped
     ELSE UNCHANGED ch /\ dropped' = (dropped \/ (subscribed /\ ~snap[p]))
-----------------------------------------------------------------------------
(* The shares *)

(* The view's POST: Add has put the share in the map. *)
AddMine ==
  /\ Running /\ view = "none"
  /\ view' = "asked" /\ mine' = "live"
  /\ Call(Poster)
  /\ UNCHANGED <<proc, receiver, busy, streamVars, asleep>>

(* Another share is added or revoked, a job or Restore ends. *)
OtherChange(p) ==
  /\ Running /\ Call(p)
  /\ UNCHANGED <<proc, hostVars, streamVars, viewVars>>

(* DELETE from another client. *)
Revoke(p) ==
  /\ Running /\ mine = "live"
  /\ mine' = "revoked" /\ receiver' = FALSE
  /\ Call(p)
  /\ UNCHANGED <<proc, busy, streamVars, viewVars>>

(* Remove by a timer (expired, downloads used up) or by the signaling loop *)
(* (gone, replaced): nothing is published.                                 *)
Expire ==
  /\ Running /\ mine = "live"
  /\ mine' = "expired" /\ receiver' = FALSE
  /\ UNCHANGED <<proc, busy, pubVars, streamVars, viewVars>>

(* A receiver connects or leaves; another share or a job does. *)
Activity ==
  /\ Running
  /\ \/ mine = "live" /\ receiver' = ~receiver /\ UNCHANGED busy
     \/ busy' = ~busy /\ UNCHANGED receiver
  /\ UNCHANGED <<proc, mine, pubVars, streamVars, viewVars>>

(* Mutant: only the share that is being watched counts. *)
activeHere == receiver

(* Something is moving. *)
active == receiver \/ busy

(* Once a second, until ticker sees the context cancelled. *)
Tick ==
  /\ Running /\ active
  /\ Call(Ticker)
  /\ UNCHANGED <<proc, hostVars, streamVars, viewVars>>
-----------------------------------------------------------------------------
(* The daemon's end *)

Shutdown ==
  /\ proc = "up" /\ proc' = "stopping"
  /\ UNCHANGED <<hostVars, pubVars, streamVars, viewVars>>

(* Serve has returned; handlers run on.  Close takes the shares out of the *)
(* map and leaves them in the file.                                        *)
Close ==
  /\ proc = "stopping" /\ proc' = "closed"
  /\ mine' = IF mine = "live" THEN "kept" ELSE mine
  /\ receiver' = FALSE
  /\ UNCHANGED <<busy, pubVars, streamVars, viewVars>>

Exit ==
  /\ proc = "closed" /\ proc' = "down"
  /\ receiver' = FALSE /\ busy' = FALSE
  /\ mine' = IF mine = "live" THEN "kept" ELSE mine
  /\ pub' = [p \in Publisher |-> "idle"] /\ snap' = [p \in Publisher |-> FALSE]
  /\ ch' = <<>> /\ stream' = IF stream = "none" THEN "none" ELSE "ended"
  /\ UNCHANGED <<sent, dropped, viewVars>>
-----------------------------------------------------------------------------
(* events *)

(* The view's GET arrives; the listener is open until Shutdown. *)
Subscribe ==
  /\ view = "attached" /\ stream = "none" /\ proc = "up"
  /\ stream' = "registered"
  /\ UNCHANGED <<proc, hostVars, pubVars, ch, sent, dropped, viewVars>>

(* The first snapshot is taken, and goes straight to the stream. *)
TakeFirst ==
  /\ stream = "registered" /\ stream' = "first"
  /\ sent' = <<mine = "live">>
  /\ UNCHANGED <<proc, hostVars, pubVars, ch, dropped, viewVars>>

SentFirst ==
  /\ stream = "first" /\ stream' = "streaming"
  /\ UNCHANGED <<proc, hostVars, pubVars, ch, sent, dropped, viewVars>>

(* What arrives in the channel is written; the write waits for the client. *)
Forward ==
  /\ stream = "streaming" /\ ch # <<>> /\ Len(sent) < ClientCap
  /\ sent' = Append(sent, Head(ch)) /\ ch' = Tail(ch)
  /\ UNCHANGED <<proc, hostVars, pubVars, stream, dropped, viewVars>>

(* Mutant: the handler looks only when it has something to write. *)
StreamEndsOnWrite ==
  /\ subscribed /\ view # "attached" /\ ch # <<>>
  /\ stream' = "ended" /\ ch' = <<>> /\ sent' = <<>>
  /\ UNCHANGED <<proc, hostVars, pubVars, dropped, viewVars>>

(* The client is gone: the request's context ends, or the write fails. *)
StreamEnds ==
  /\ subscribed /\ view # "attached"
  /\ stream' = "ended" /\ ch' = <<>> /\ sent' = <<>>
  /\ UNCHANGED <<proc, hostVars, pubVars, dropped, viewVars>>
-----------------------------------------------------------------------------
(* The view *)

Awake == view = "attached" /\ ~asleep

(* The POST is answered after publish; waitShare begins.  (Where the daemon*)
(* ended first, LoseDaemon follows: the command fails either way.)         *)
Attach ==
  /\ view = "asked" /\ pub[Poster] = "idle"
  /\ view' = "attached"
  /\ UNCHANGED <<proc, hostVars, pubVars, streamVars, asleep>>

(* One turn of waitShare with a snapshot. *)
ReadSnapshot ==
  /\ Awake /\ sent # <<>>
  /\ view' = IF Head(sent) THEN "attached" ELSE "over"
  /\ sent' = Tail(sent)
  /\ UNCHANGED <<proc, hostVars, pubVars, stream, ch, dropped, asleep>>

(* followEvents has returned: no daemon to connect to, or its end. *)
LoseDaemon ==
  /\ Awake
  /\ \/ stream = "none" /\ proc # "up"
     \/ stream = "ended"
  /\ view' = "lost"
  /\ UNCHANGED <<proc, hostVars, pubVars, streamVars, asleep>>

(* ctrl-c: the view revokes its share and exits. *)
CtrlC(p) ==
  /\ Awake /\ view' = "left"
  /\ proc = "up" /\ mine = "live" /\ mine' = "revoked" /\ receiver' = FALSE
  /\ Call(p)
  /\ UNCHANGED <<proc, busy, streamVars, asleep>>

(* d, or a ctrl-c whose DELETE fails: the share stays as it is. *)
Leave ==
  /\ Awake /\ view' = "left"
  /\ UNCHANGED <<proc, hostVars, pubVars, streamVars, asleep>>

Suspend ==
  /\ view = "attached" /\ asleep' = ~asleep
  /\ UNCHANGED <<proc, hostVars, pubVars, streamVars, view>>
-----------------------------------------------------------------------------
ShareNext ==
  \/ AddMine \/ Expire \/ Activity \/ Tick
  \/ \E p \in Handler : OtherChange(p) \/ Revoke(p) \/ CtrlC(p)
PublishNext == \E p \in Publisher : Snapshot(p) \/ Push(p)
DaemonNext == \/ Shutdown \/ Close \/ Exit \/ Subscribe \/ TakeFirst \/ SentFirst
              \/ Forward \/ StreamEnds
ViewNext == Attach \/ ReadSnapshot \/ LoseDaemon \/ Leave \/ Suspend
Next == ShareNext \/ PublishNext \/ DaemonNext \/ ViewNext

Spec == Init /\ [][Next]_vars

(* Goroutines that can go on do, the ticker ticks, and the view takes what *)
(* there is unless it sleeps.  Nobody has to change a share, press a key or*)
(* wake the view.                                                          *)
Fairness ==
  /\ \A p \in Publisher : WF_vars(Snapshot(p)) /\ WF_vars(Push(p))
  /\ WF_vars(Tick) /\ WF_vars(Close) /\ WF_vars(Exit)
  /\ WF_vars(Subscribe) /\ WF_vars(TakeFirst) /\ WF_vars(SentFirst)
  /\ WF_vars(Forward) /\ WF_vars(StreamEnds)
  /\ WF_vars(Attach) /\ WF_vars(ReadSnapshot) /\ WF_vars(LoseDaemon)

FairSpec == Spec /\ Fairness
-----------------------------------------------------------------------------
(* Properties *)

TypeOK ==
  /\ proc \in {"up", "stopping", "closed", "down"}
  /\ mine \in {"none", "live", "revoked", "expired", "kept"}
  /\ receiver \in BOOLEAN /\ busy \in BOOLEAN
  /\ pub \in [Publisher -> {"idle", "snapshot", "push"}]
  /\ snap \in [Publisher -> BOOLEAN]
  /\ stream \in {"none", "registered", "first", "streaming", "ended"}
  /\ ch \in Seq(BOOLEAN) /\ Len(ch) <= SubCap
  /\ sent \in Seq(BOOLEAN) /\ Len(sent) <= ClientCap
  /\ view \in {"none", "asked", "attached", "over", "lost", "left"}
  /\ asleep \in BOOLEAN /\ dropped \in BOOLEAN

Gone == mine \in {"revoked", "expired"}

(* As long as a view does not know that its share is revoked, the news is  *)
(* on its way to it: a snapshot is still to be taken, or one without the   *)
(* share is about to be pushed, in the channel or in the stream, unless it *)
(* found the channel full (server.go:291-306, 323-331).                    *)
RevokeUnderWay ==
  mine = "revoked" /\ view = "attached" /\ ~dropped =>
    \/ stream \in {"none", "registered", "ended"}
    \/ \E p \in Publisher : pub[p] = "snapshot" \/ (pub[p] = "push" /\ ~snap[p])
    \/ \E k \in DOMAIN ch : ~ch[k]
    \/ \E k \in DOMAIN sent : ~sent[k]

(* A view whose share is revoked over the API learns it, also when the     *)
(* revocation falls between its POST, its GET and the first snapshot,      *)
(* unless the snapshot found the channel full (server.go:291-306, 326-330).*)
RevokeIsSeen ==
  <>[]~asleep => (mine = "revoked" /\ ~dropped ~> view # "attached" \/ dropped)

(* As long as anything moves, a view learns that its share is over however *)
(* it ended and whatever was dropped (server.go:334-368).                  *)
BusyViewLearns == <>[](busy /\ ~asleep) => (Gone ~> view # "attached")

(* A view that sleeps for ever, its stream full, holds up no handler, job  *)
(* or ticker of the daemon (server.go:326-331).                            *)
PublishReturns == \A p \in Publisher : pub[p] = "push" ~> pub[p] = "idle"

(* The channel of a view that is over, left or lost leaves s.subs          *)
(* (server.go:294-298).                                                    *)
SubscriberLeaves == view \in {"over", "lost", "left"} ~> ~subscribed
=============================================================================
