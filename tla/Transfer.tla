------------------------------ MODULE Transfer ------------------------------
(***************************************************************************)
(* One download of one share: the receiver's chunk scheduler               *)
(* (internal/peer/peer.go, type receiver), the sink with its resumable     *)
(* sidecar (internal/manifest/sink.go), the host's chunk source with its   *)
(* hash cache (internal/manifest/source.go) and the host's serve loop      *)
(* (internal/host/share.go), joined by one data stream.                    *)
(*                                                                         *)
(* A WebRTC data channel is opened unordered (transport/webrtc.go:51) and  *)
(* a QUIC stream is ordered.  The frames in flight are sets from which any *)
(* member may be delivered next: every order either transport can produce. *)
(* No frame is lost or duplicated while the stream lives; the stream as a  *)
(* whole may be lost at any moment.                                        *)
(***************************************************************************)
EXTENDS Integers, Sequences, FiniteSets

CONSTANTS
  Chunks,        \* Layout.Chunks(): chunks in the manifest
  HashWindow,    \* chunks per HASH window (256)
  InFlight,      \* chunks requested and not yet received, at most (64)
  MaxAttempts,   \* failed verifications of one chunk before giving up (3)
  SaveEvery,     \* chunks written between two sidecar saves (64)
  Pieces,        \* DATA frames that carry one chunk (wire.SplitData)
  Val,           \* what one piece of the host's file can contain
  None,          \* never written, not known, nil
  MaxRuns,       \* bound: `beeline get` started this often
  MaxEdits,      \* bound: edits of the shared file
  MaxRestarts,   \* bound: restarts of the hosting daemon
  MaxDeletes     \* bound: deletions of the partial destination file

ASSUME ConstantsAssumption ==
  /\ Chunks \in Nat /\ HashWindow \in Nat \ {0} /\ InFlight \in Nat \ {0}
  /\ MaxAttempts \in Nat /\ SaveEvery \in Nat \ {0} /\ Pieces \in Nat \ {0}
  /\ MaxRuns \in Nat /\ MaxEdits \in Nat /\ MaxRestarts \in Nat
  /\ MaxDeletes \in Nat
  /\ None \notin Val

Chunk == 0 .. Chunks - 1
Piece == 1 .. Pieces
Data == [Piece -> Val \cup {None}]       \* the bytes of one chunk
Sum(d) == <<"sha256", d>>                \* SHA-256, free of collisions
Hash == {Sum(d) : d \in Data}
Root(hs) == <<"root", hs>>               \* SHA-256 over all chunk hashes
Roots == {Root(hs) : hs \in [Chunk -> Hash \cup {None}]}

ASSUME NoneAssumption == None \notin Hash /\ None \notin Roots

Windows == (Chunks + HashWindow - 1) \div HashWindow
WindowIds == 0 .. Windows - 1
WindowOf(i) == i \div HashWindow
(* Mutant: the last window is not clipped to the file. *)
windowSizeUnclipped(w) == HashWindow
windowSize(w) == IF Chunks - w * HashWindow > HashWindow
                 THEN HashWindow ELSE Chunks - w * HashWindow
Window(w) == w * HashWindow .. w * HashWindow + windowSize(w) - 1

(* A REQ frame asks for chunks first .. first+count-1. *)
Req == {[first |-> a, count |-> n] : a \in Chunk, n \in 1 .. Chunks}
ReqChunks(r) == r.first .. r.first + r.count - 1

VARIABLES
  \* host: the file, the Source's hash cache and the session
  file,          \* [Chunk -> Val]: the current bytes (every piece alike)
  srcHave,       \* Source.have: chunks whose hash is cached
  srcHash,       \* Source.hashes
  stopped,       \* Share.stopped
  serving,       \* the REQ being served: chunks next .. end-1 are left
  lastRequested, \* session.lastRequested
  doneSent,      \* session.doneSent
  \* frames in flight
  reqs, hashReqs, datas, hashReplies, dones, errors,
  \* receiver: struct receiver and struct Sink, in memory
  phase, queue, outstanding, partial, attempts, winRecv, winState,
  verified, root, bitmap, hashes, dirty,
  \* receiver: on disk
  disk, sidecar,
  \* how the last run that failed ended, and counters
  outcome, heldLast, runs, edits, restarts, deletes

sourceVars == <<file, srcHave, srcHash, stopped>>
sessionVars == <<serving, lastRequested, doneSent>>
toHost == <<reqs, hashReqs>>
toPeer == <<datas, hashReplies, dones, errors>>
schedVars == <<queue, outstanding, partial, attempts, winRecv, winState,
               verified, root>>
sinkVars == <<bitmap, hashes, dirty>>
diskVars == <<disk, sidecar>>
bounds == <<runs, edits, restarts, deletes>>
vars == <<sourceVars, sessionVars, toHost, toPeer, phase, schedVars, sinkVars,
          diskVars, outcome, heldLast, bounds>>

Whole(v) == [p \in Piece |-> v]
Blank == [p \in Piece |-> None]
NoPartial == [buf |-> Blank, have |-> 0]
Idle == [next |-> 0, end |-> 0]
Outcomes == {"none", "lost", "gaveup", "unconfirmed", "ended", "mismatch"}

-----------------------------------------------------------------------------
(* Helpers of the receiver *)

(* The indexes of S in increasing order: what the loops of Missing and     *)
(* Verify append.  A set with exactly one member.                          *)
Ascending(S) ==
  {s \in [1 .. Cardinality(S) -> S] :
     /\ \A a, b \in DOMAIN s : a < b => s[a] < s[b]
     /\ \A i \in S : \E a \in DOMAIN s : s[a] = i}

(* Mutant: fill asks for the whole queue at once. *)
FillCountUnlimited(q, out) == Len(q)

(* fill: how many chunks of queue q are requested when `out` are           *)
(* outstanding, and the REQ frames: one per maximal run of consecutive     *)
(* indexes at the front of the queue.                                      *)
FillCount(q, out) ==
  IF InFlight - out < Len(q)
  THEN IF InFlight - out > 0 THEN InFlight - out ELSE 0
  ELSE Len(q)

(* Mutant: a run may begin inside another, so chunks are asked for twice. *)
IsRunOverlapping(q, k, a, b) ==
  /\ \A c \in a .. b : q[c] = q[a] + (c - a)
  /\ b = k \/ q[b + 1] # q[b] + 1

IsRun(q, k, a, b) ==
  /\ \A c \in a .. b : q[c] = q[a] + (c - a)
  /\ a = 1 \/ q[a] # q[a - 1] + 1
  /\ b = k \/ q[b + 1] # q[b] + 1

FillReqs(q, k) ==
  {[first |-> q[ab[1]], count |-> ab[2] - ab[1] + 1] :
     ab \in {xy \in (1 .. k) \X (1 .. k) :
               xy[1] <= xy[2] /\ IsRun(q, k, xy[1], xy[2])}}

fill(q, out, rs) ==
  LET k == FillCount(q, out)
  IN  /\ queue' = SubSeq(q, k + 1, Len(q))
      /\ outstanding' = out + k
      /\ reqs' = rs \cup FillReqs(q, k)

allVerified == bitmap = Chunk /\ verified = Windows
finished == allVerified /\ root # None

(* Leaving run: memory and the stream are gone. *)
Forget ==
  /\ queue' = <<>> /\ outstanding' = 0
  /\ partial' = [i \in Chunk |-> NoPartial]
  /\ attempts' = [i \in Chunk |-> 0]
  /\ winRecv' = [w \in WindowIds |-> 0]
  /\ winState' = [w \in WindowIds |-> 0]
  /\ verified' = 0 /\ root' = None
  /\ bitmap' = {} /\ hashes' = [i \in Chunk |-> None] /\ dirty' = 0

CloseStream ==
  /\ reqs' = {} /\ hashReqs' = {} /\ datas' = {} /\ hashReplies' = {}
  /\ dones' = {} /\ errors' = {}
  /\ serving' = Idle /\ lastRequested' = FALSE /\ doneSent' = FALSE

(* What SaveSidecar puts on disk: bits b and hashes h, renamed into place, *)
(* so that a crash finds the old sidecar or the new one.                   *)
SaveSidecar(b, h) == [bitmap |-> b, hashes |-> h]

(* What OpenSink starts from: the sidecar, if there is one. *)
OpenSink ==
  IF sidecar = None THEN SaveSidecar({}, [i \in Chunk |-> None]) ELSE sidecar

(* run returned an error: Suspend saves the sidecar (bits b, the current   *)
(* hashes) and Receive returns.                                            *)
FailRun(why, b) ==
  /\ phase' = "idle" /\ outcome' = why
  /\ sidecar' = SaveSidecar(b, hashes)
  /\ Forget /\ CloseStream
  /\ UNCHANGED <<sourceVars, disk, heldLast, bounds>>
-----------------------------------------------------------------------------
Init ==
  /\ \E v \in Val : file = [i \in Chunk |-> v]
  /\ srcHave = {} /\ srcHash = [i \in Chunk |-> None] /\ stopped = FALSE
  /\ serving = Idle /\ lastRequested = FALSE /\ doneSent = FALSE
  /\ reqs = {} /\ hashReqs = {} /\ datas = {} /\ hashReplies = {}
  /\ dones = {} /\ errors = {}
  /\ phase = "idle" /\ queue = <<>> /\ outstanding = 0
  /\ partial = [i \in Chunk |-> NoPartial]
  /\ attempts = [i \in Chunk |-> 0]
  /\ winRecv = [w \in WindowIds |-> 0]
  /\ winState = [w \in WindowIds |-> 0]
  /\ verified = 0 /\ root = None
  /\ bitmap = {} /\ hashes = [i \in Chunk |-> None] /\ dirty = 0
  /\ disk = [i \in Chunk |-> Blank] /\ sidecar = None
  /\ outcome = "none" /\ heldLast = FALSE
  /\ runs = 0 /\ edits = 0 /\ restarts = 0 /\ deletes = 0
-----------------------------------------------------------------------------
(* Receiver *)

(* OpenSink loads a sidecar if there is one and saves it again; a stream   *)
(* wins the race; run counts the chunks already held, asks for the hashes  *)
(* of the windows that are already complete, and fills.  With no chunks at *)
(* all it sends HASH-REQ 0+0, which asks for "window" 0.                   *)
StartRun ==
  /\ phase = "idle" /\ runs < MaxRuns
  /\ LET held == OpenSink.bitmap
         hs == OpenSink.hashes
         recv == [w \in WindowIds |-> Cardinality(Window(w) \cap held)]
         full == {w \in WindowIds : recv[w] = windowSize(w)}
     IN /\ bitmap' = held /\ hashes' = hs /\ dirty' = 0
        /\ sidecar' = SaveSidecar(held, hs)
        /\ partial' = [i \in Chunk |-> NoPartial]
        /\ attempts' = [i \in Chunk |-> 0]
        /\ winRecv' = recv
        /\ winState' = [w \in WindowIds |-> IF w \in full THEN 1 ELSE 0]
        /\ hashReqs' = full \cup (IF Chunks = 0 THEN {0} ELSE {})
        /\ heldLast' = (Chunks - 1 \in held)
        /\ \E q \in Ascending(Chunk \ held) : fill(q, 0, {})
  /\ verified' = 0 /\ root' = None
  /\ phase' = "running" /\ outcome' = "none" /\ runs' = runs + 1
  /\ UNCHANGED <<sourceVars, sessionVars, toPeer, disk, edits, restarts, deletes>>

(* Mutant: every frame gets a new buffer (the test for nil inverted). *)
AssembledAnew(d) == [Blank EXCEPT ![d.piece] = d.val]

(* The buffer of d's chunk with d's payload copied into it. *)
Assembled(d) == [partial[d.index].buf EXCEPT ![d.piece] = d.val]

(* Mutant: WriteChunk returns after the first segment. *)
WrittenFirstSegment(i, buf) == [disk EXCEPT ![i][1] = buf[1]]

(* WriteChunk's WriteAt calls: the whole of buf goes to its place on disk. *)
Written(i, buf) == [disk EXCEPT ![i] = buf]

(* onData, a piece that does not complete its chunk. *)
OnDataPart ==
  /\ phase = "running" /\ ~finished
  /\ \E d \in datas :
       LET p == partial[d.index]
       IN /\ p.have + 1 < Pieces
          /\ partial' = [partial EXCEPT ![d.index] =
                           [buf |-> Assembled(d), have |-> p.have + 1]]
          /\ datas' = datas \ {d}
  /\ fill(queue, outstanding, reqs)
  /\ UNCHANGED <<sourceVars, sessionVars, hashReqs, hashReplies, dones, errors,
                 phase, attempts, winRecv, winState, verified, root, sinkVars,
                 diskVars, outcome, heldLast, bounds>>

(* onData, the piece that completes the chunk: WriteChunk stores it,       *)
(* records its hash, sets its bit and now and then saves the sidecar; a    *)
(* window that became complete gets its HASH-REQ.                          *)
OnDataChunk ==
  /\ phase = "running" /\ ~finished
  /\ \E d \in datas :
       LET i == d.index
           buf == Assembled(d)
           w == WindowOf(i)
           ask == winRecv[w] + 1 = windowSize(w) /\ winState[w] = 0
           flush == dirty + 1 >= SaveEvery
       IN /\ partial[i].have + 1 >= Pieces
          /\ partial' = [partial EXCEPT ![i] = NoPartial]
          /\ disk' = Written(i, buf)
          /\ hashes' = [hashes EXCEPT ![i] = Sum(buf)]
          /\ bitmap' = bitmap \cup {i}
          /\ dirty' = IF flush THEN 0 ELSE dirty + 1
          /\ sidecar' = IF flush THEN SaveSidecar(bitmap', hashes') ELSE sidecar
          /\ winRecv' = [winRecv EXCEPT ![w] = @ + 1]
          /\ winState' = IF ask THEN [winState EXCEPT ![w] = 1] ELSE winState
          /\ hashReqs' = IF ask THEN hashReqs \cup {w} ELSE hashReqs
          /\ datas' = datas \ {d}
          /\ fill(queue, outstanding - 1, reqs)
  /\ UNCHANGED <<sourceVars, sessionVars, hashReplies, dones, errors, phase,
                 attempts, verified, root, outcome, heldLast, bounds>>

(* Sink.Verify: the held chunks of the window whose hash is not the host's *)
Verify(h) == {i \in Window(h.win) \cap bitmap : hashes[i] # h.hs[i]}

(* onHash with nothing to complain about.  With no chunks at all the frame *)
(* is ignored.                                                             *)
OnHashGood ==
  /\ phase = "running" /\ ~finished
  /\ \E h \in hashReplies :
       /\ Chunks > 0 => Verify(h) = {}
       /\ IF Chunks > 0 /\ winState[h.win] # 2
          THEN /\ winState' = [winState EXCEPT ![h.win] = 2]
               /\ verified' = verified + 1
          ELSE UNCHANGED <<winState, verified>>
       /\ hashReplies' = hashReplies \ {h}
  /\ fill(queue, outstanding, reqs)
  /\ UNCHANGED <<sourceVars, sessionVars, hashReqs, datas, dones, errors, phase,
                 partial, attempts, winRecv, root, sinkVars, diskVars, outcome,
                 heldLast, bounds>>

(* onHash with bad chunks, each still allowed another attempt: their bits  *)
(* are cleared (in memory only) and they go to the front of the queue.     *)
OnHashBad ==
  /\ phase = "running" /\ ~finished /\ Chunks > 0
  /\ \E h \in hashReplies :
       LET bad == Verify(h)
       IN /\ bad # {}
          /\ \A i \in bad : attempts[i] + 1 <= MaxAttempts
          /\ attempts' = [i \in Chunk |-> IF i \in bad THEN attempts[i] + 1
                                          ELSE attempts[i]]
          /\ bitmap' = bitmap \ bad
          /\ winState' = [winState EXCEPT ![h.win] = 0]
          /\ winRecv' = [winRecv EXCEPT ![h.win] = @ - Cardinality(bad)]
          /\ hashReplies' = hashReplies \ {h}
          /\ \E b \in Ascending(bad) : fill(b \o queue, outstanding, reqs)
  /\ UNCHANGED <<sourceVars, sessionVars, hashReqs, datas, dones, errors, phase,
                 partial, verified, root, hashes, dirty, diskVars, outcome,
                 heldLast, bounds>>

(* onHash when some chunk failed once too often: run returns an error. *)
OnHashGiveUp ==
  /\ phase = "running" /\ ~finished /\ Chunks > 0
  /\ \E h \in hashReplies :
       LET bad == Verify(h)
       IN /\ \E i \in bad : attempts[i] + 1 > MaxAttempts
          /\ FailRun("gaveup", bitmap \ bad)

OnDone ==
  /\ phase = "running" /\ ~finished
  /\ \E r \in dones : root' = r /\ dones' = dones \ {r}
  /\ fill(queue, outstanding, reqs)
  /\ UNCHANGED <<sourceVars, sessionVars, hashReqs, datas, hashReplies, errors,
                 phase, partial, attempts, winRecv, winState, verified, sinkVars,
                 diskVars, outcome, heldLast, bounds>>

(* An ERROR frame ends the run. *)
OnError ==
  /\ phase = "running" /\ ~finished /\ errors # {}
  /\ FailRun("ended", bitmap)

(* Nothing is in flight in either direction and the host has no frame to   *)
(* work on: whatever the receiver still waits for will never come.         *)
Quiet ==
  /\ reqs = {} /\ hashReqs = {} /\ serving.next = serving.end
  /\ datas = {} /\ hashReplies = {} /\ dones = {} /\ errors = {}

(* doneTimer: everything is verified and DONE has not come.  (A DONE that  *)
(* is merely late by doneTimeout is StreamLost.)                           *)
DoneTimeout ==
  /\ phase = "running" /\ allVerified /\ root = None /\ Quiet
  /\ FailRun("unconfirmed", bitmap)

(* The stream breaks, the user cancels, or the host says bye: readFrame or *)
(* WriteFrame fails.  A write that fails in the middle of a handler leaves *)
(* what this step after the handler leaves.                                *)
StreamLost ==
  /\ phase = "running" /\ ~finished
  /\ FailRun("lost", bitmap)

(* The loop ended: the roots are compared, and Finish removes the sidecar. *)
CheckRoot ==
  /\ phase = "running" /\ finished
  /\ IF Root(hashes) = root
     THEN /\ phase' = "done" /\ sidecar' = None
          /\ CloseStream
          /\ UNCHANGED <<sourceVars, schedVars, sinkVars, disk, outcome,
                         heldLast, bounds>>
     ELSE FailRun("mismatch", bitmap)

(* The receiving process dies: memory is lost, the disk is as it is. *)
Crash ==
  /\ phase = "running"
  /\ phase' = "idle" /\ outcome' = "lost"
  /\ Forget /\ CloseStream
  /\ UNCHANGED <<sourceVars, diskVars, heldLast, bounds>>

(* ... or in the middle of WriteChunk, with any part of the chunk written. *)
CrashInWriteChunk ==
  /\ phase = "running" /\ ~finished
  /\ \E d \in datas, new \in SUBSET Piece :
       LET buf == Assembled(d)
       IN /\ partial[d.index].have + 1 >= Pieces
          /\ disk' = [disk EXCEPT ![d.index] =
                        [k \in Piece |-> IF k \in new THEN buf[k] ELSE @[k]]]
  /\ phase' = "idle" /\ outcome' = "lost"
  /\ Forget /\ CloseStream
  /\ UNCHANGED <<sourceVars, sidecar, heldLast, bounds>>

(* The user deletes the partial file but not the sidecar beside it; the    *)
(* next OpenSink creates it again, blank.                                  *)
DeletePartial ==
  /\ phase = "idle" /\ sidecar # None /\ deletes < MaxDeletes
  /\ disk' = [i \in Chunk |-> Blank] /\ deletes' = deletes + 1
  /\ UNCHANGED <<sourceVars, sessionVars, toHost, toPeer, phase, schedVars,
                 sinkVars, sidecar, outcome, heldLast, runs, edits, restarts>>
-----------------------------------------------------------------------------
(* Host *)

(* Mutant: ReadChunk records the hash of every read, not of the first. *)
CachedLatest(S) == [i \in Chunk |-> IF i \in S THEN Sum(Whole(file[i]))
                                    ELSE srcHash[i]]

(* Source.ReadChunk caches the hash of the first read only. *)
Cached(S) == [i \in Chunk |-> IF i \in S \ srcHave THEN Sum(Whole(file[i]))
                              ELSE srcHash[i]]

(* Mutant: doneSent is set as soon as the last chunk was requested. *)
MaybeDoneEarly(last, have, hs) ==
  LET now == ~doneSent /\ (last \/ Chunks = 0) /\ have = Chunk
  IN  /\ doneSent' = (doneSent \/ last)
      /\ dones' = IF now THEN dones \cup {Root(hs)} ELSE dones

(* The end of every turn of serve's loop: DONE once the last chunk was     *)
(* requested on this stream and every hash is known.                       *)
MaybeDone(last, have, hs) ==
  LET now == ~doneSent /\ (last \/ Chunks = 0) /\ have = Chunk
  IN  /\ doneSent' = (doneSent \/ now)
      /\ dones' = IF now THEN dones \cup {Root(hs)} ELSE dones

HostIdle == phase = "running" /\ serving.next = serving.end /\ errors = {}

(* serve reads a REQ.  Its range is within the file: see TypeOK. *)
TakeReq ==
  /\ HostIdle
  /\ \E r \in reqs :
       /\ serving' = [next |-> r.first, end |-> r.first + r.count]
       /\ reqs' = reqs \ {r}
  /\ UNCHANGED <<sourceVars, lastRequested, doneSent, hashReqs, toPeer, phase,
                 schedVars, sinkVars, diskVars, outcome, heldLast, bounds>>

(* serve reads, hashes and sends one chunk; dcConn splits it in Pieces. *)
ServeChunk ==
  /\ phase = "running" /\ serving.next < serving.end /\ ~stopped
  /\ LET i == serving.next
         over == i + 1 = serving.end
         last == lastRequested \/ (over /\ serving.end = Chunks)
     IN /\ srcHave' = srcHave \cup {i} /\ srcHash' = Cached({i})
        /\ datas' = datas \cup
             {[index |-> i, piece |-> p, val |-> file[i]] : p \in Piece}
        /\ serving' = [serving EXCEPT !.next = i + 1]
        /\ lastRequested' = last
        /\ IF over THEN MaybeDone(last, srcHave', srcHash')
                   ELSE UNCHANGED <<doneSent, dones>>
  /\ UNCHANGED <<file, stopped, toHost, hashReplies, errors, phase, schedVars,
                 sinkVars, diskVars, outcome, heldLast, bounds>>

(* ... unless the share was stopped: ERROR, and the session is over. *)
RefuseChunk ==
  /\ phase = "running" /\ serving.next < serving.end /\ stopped
  /\ errors' = {"revoked"} /\ serving' = Idle
  /\ UNCHANGED <<sourceVars, lastRequested, doneSent, toHost, datas, hashReplies,
                 dones, phase, schedVars, sinkVars, diskVars, outcome, heldLast,
                 bounds>>

(* serve answers a HASH-REQ; Source.Hashes reads what it does not know. *)
ServeHashReq ==
  /\ HostIdle
  /\ \E w \in hashReqs :
       LET S == Window(w)
       IN /\ srcHave' = srcHave \cup S /\ srcHash' = Cached(S)
          /\ hashReplies' = hashReplies \cup
               {[win |-> w, hs |-> [i \in S |-> srcHash'[i]]]}
          /\ hashReqs' = hashReqs \ {w}
          /\ MaybeDone(lastRequested, srcHave', srcHash')
  /\ UNCHANGED <<file, stopped, serving, lastRequested, reqs, datas, errors,
                 phase, schedVars, sinkVars, diskVars, outcome, heldLast, bounds>>

(* Another receiver's session, or what is left of an earlier one of ours,  *)
(* reads a chunk of the same Source.                                       *)
OtherSessionReads ==
  /\ \E i \in Chunk \ srcHave :
       srcHave' = srcHave \cup {i} /\ srcHash' = Cached({i})
  /\ UNCHANGED <<file, stopped, sessionVars, toHost, toPeer, phase, schedVars,
                 sinkVars, diskVars, outcome, heldLast, bounds>>

(* Share.stop raises the flag first; closing the stream is StreamLost. *)
Stop ==
  /\ ~stopped /\ stopped' = TRUE
  /\ UNCHANGED <<file, srcHave, srcHash, sessionVars, toHost, toPeer, phase,
                 schedVars, sinkVars, diskVars, outcome, heldLast, bounds>>

(* The user changes the shared file, keeping its length. *)
EditFile ==
  /\ edits < MaxEdits /\ edits' = edits + 1
  /\ \E i \in Chunk, v \in Val : v # file[i] /\ file' = [file EXCEPT ![i] = v]
  /\ UNCHANGED <<srcHave, srcHash, stopped, sessionVars, toHost, toPeer, phase,
                 schedVars, sinkVars, diskVars, outcome, heldLast, runs,
                 restarts, deletes>>

(* The daemon restarts between two runs and re-hosts the share: a new      *)
(* Source, which knows no hash, and a new Share, which is not stopped.     *)
(* (During a run: StreamLost first.)                                       *)
HostRestart ==
  /\ phase = "idle" /\ restarts < MaxRestarts
  /\ restarts' = restarts + 1
  /\ srcHave' = {} /\ srcHash' = [i \in Chunk |-> None] /\ stopped' = FALSE
  /\ UNCHANGED <<file, sessionVars, toHost, toPeer, phase, schedVars,
                 sinkVars, diskVars, outcome, heldLast, runs, edits, deletes>>
-----------------------------------------------------------------------------
ReceiverNext ==
  \/ StartRun \/ OnDataPart \/ OnDataChunk
  \/ OnHashGood \/ OnHashBad \/ OnHashGiveUp
  \/ OnDone \/ OnError \/ DoneTimeout \/ StreamLost \/ CheckRoot
  \/ Crash \/ CrashInWriteChunk \/ DeletePartial
HostNext ==
  \/ TakeReq \/ ServeChunk \/ RefuseChunk \/ ServeHashReq
  \/ OtherSessionReads \/ Stop \/ EditFile \/ HostRestart
Next == ReceiverNext \/ HostNext

Spec == Init /\ [][Next]_vars

(* Both processes are always running, so a step of theirs that stays       *)
(* possible is taken: a frame that is in flight is read, the loop that is  *)
(* over checks the root, and the timer that is armed fires.                *)
Fairness ==
  /\ WF_vars(OnDataPart) /\ WF_vars(OnDataChunk)
  /\ WF_vars(OnHashGood \/ OnHashBad \/ OnHashGiveUp)
  /\ WF_vars(OnDone) /\ WF_vars(OnError) /\ WF_vars(DoneTimeout)
  /\ WF_vars(CheckRoot)
  /\ WF_vars(TakeReq) /\ WF_vars(ServeChunk \/ RefuseChunk)
  /\ WF_vars(ServeHashReq)

FairSpec == Spec /\ Fairness
-----------------------------------------------------------------------------
(* Properties *)

HashReply == UNION {[win : {w}, hs : [Window(w) -> Hash \cup {None}]] :
                      w \in {0} \cup WindowIds}

(* Every variable has its type; every REQ range lies within the file, so   *)
(* serve's "chunk out of range" error never answers this receiver; and no  *)
(* more than InFlight chunks are ever outstanding.                         *)
TypeOK ==
  /\ file \in [Chunk -> Val]
  /\ srcHave \subseteq Chunk /\ srcHash \in [Chunk -> Hash \cup {None}]
  /\ stopped \in BOOLEAN
  /\ serving \in [next : 0 .. Chunks, end : 0 .. Chunks]
  /\ lastRequested \in BOOLEAN /\ doneSent \in BOOLEAN
  /\ reqs \subseteq Req /\ \A r \in reqs : r.first + r.count <= Chunks
  /\ hashReqs \subseteq {0} \cup WindowIds
  /\ datas \subseteq [index : Chunk, piece : Piece, val : Val]
  /\ hashReplies \subseteq HashReply
  /\ dones \subseteq Roots /\ errors \subseteq {"revoked"}
  /\ phase \in {"idle", "running", "done"}
  /\ queue \in Seq(Chunk) /\ outstanding \in Int /\ outstanding <= InFlight
  /\ partial \in [Chunk -> [buf : Data, have : Nat]]
  /\ attempts \in [Chunk -> 0 .. MaxAttempts]
  /\ winRecv \in [WindowIds -> Int] /\ winState \in [WindowIds -> 0 .. 2]
  /\ verified \in Nat /\ root \in Roots \cup {None}
  /\ bitmap \subseteq Chunk /\ hashes \in [Chunk -> Hash \cup {None}]
  /\ dirty \in Nat
  /\ disk \in [Chunk -> Data]
  /\ sidecar \in {None} \cup [bitmap : SUBSET Chunk,
                              hashes : [Chunk -> Hash \cup {None}]]
  /\ outcome \in Outcomes /\ heldLast \in BOOLEAN
  /\ runs \in Nat /\ edits \in Nat /\ restarts \in Nat /\ deletes \in Nat

(* The "root hash mismatch" error at the end of run is never reached: once *)
(* every window is verified against the host's hashes and DONE has come,   *)
(* the receiver's root is the host's, whatever edits, restarts, retries,   *)
(* resumed sidecars and delivery orders came before.                       *)
RootAlwaysMatches == finished => Root(hashes) = root

DiskRoot == Root([i \in Chunk |-> Sum(disk[i])])

(* A finished download has on disk, chunk by chunk, bytes whose hashes     *)
(* make up the root the host confirmed, across crashes in the middle of a  *)
(* write, resumed runs, an edit and restarts of the host (unless the       *)
(* partial file was deleted from under its sidecar, or the file was edited *)
(* and edited back).                                                       *)
Integrity == phase = "done" /\ deletes = 0 /\ edits <= 1 => DiskRoot = root

(* The chunks between REQ and the last DATA frame. *)
AwaitedReqs == UNION {ReqChunks(r) : r \in reqs}
AwaitedServing == serving.next .. serving.end - 1
AwaitedData == {d.index : d \in datas} \cup {i \in Chunk : partial[i].have > 0}
Awaited == AwaitedReqs \cup AwaitedServing \cup AwaitedData

(* Nothing is forgotten and nothing asked for twice: in a live stream each *)
(* chunk is held, or queued exactly once, or asked for and on its way;     *)
(* `outstanding` counts the last kind and winRecv the chunks held.         *)
ChunkAccounting ==
  (phase = "running" /\ errors = {}) =>
    /\ Chunk = bitmap \cup Awaited \cup {queue[k] : k \in DOMAIN queue}
    /\ Len(queue) = Cardinality(Chunk \ (bitmap \cup Awaited))
    /\ outstanding = Cardinality(Awaited)
    /\ bitmap \cap Awaited = {}
    /\ \A w \in WindowIds : winRecv[w] = Cardinality(Window(w) \cap bitmap)

(* The receiver never waits for a frame nobody will send, save DONE: while *)
(* some chunk is not verified, a frame is in flight or the host is at work.*)
NeverStuck == phase = "running" /\ Quiet => allVerified

(* DONE fails to come only when the run began with the last chunk already  *)
(* in the sidecar: serve sends DONE only on a stream that asked for it.    *)
UnconfirmedOnlyOnResume == outcome = "unconfirmed" => heldLast

(* A receiver gives up on a chunk only if the shared file was changed:     *)
(* reordered pieces, retries and resumed runs alone never fail a chunk.    *)
GiveUpOnlyIfEdited == outcome = "gaveup" => edits > 0

(* Within a run, a verified window stays verified, and the hashes of its   *)
(* chunks never change again: no late or repeated DATA overwrites it.      *)
VerifiedStaysVerified ==
  [][\A w \in WindowIds :
       (phase = "running" /\ phase' # "idle" /\ winState[w] = 2) =>
          /\ winState'[w] = 2
          /\ \A i \in Window(w) : hashes'[i] = hashes[i] /\ disk'[i] = disk[i]]_vars

(* What is left to do: attempts of chunks; and, for every kind of frame,   *)
(* what has still to be sent or received in it.                            *)
AttemptsLeft == {ik \in Chunk \X (1 .. MaxAttempts) : attempts[ik[1]] < ik[2]}

ToAsk == {queue[k] : k \in DOMAIN queue}
ToTake == ToAsk \cup AwaitedReqs
ToServe == ToTake \cup AwaitedServing
ToReceive == (ToServe \X Piece) \cup {<<d.index, d.piece>> : d \in datas}
ToHash == hashReqs \cup {w \in WindowIds : winState[w] = 0}
ToVerify == ToHash \cup {h.win : h \in hashReplies}
ToConfirm == {m \in {"DONE"} : ~doneSent \/ dones # {}}
WorkLeft == <<ToAsk, ToTake, ToServe, ToReceive, ToHash, ToVerify, ToConfirm>>

(* No run goes on for ever: every step of the receiver or the session uses *)
(* up an attempt of some chunk or, with as many attempts left as before,   *)
(* leaves less work and brings none back.  All these sets are finite.      *)
WorkRunsOut ==
  [][(phase = "running" /\ phase' = "running"
        /\ <<sessionVars, toHost, toPeer, schedVars>>' #
             <<sessionVars, toHost, toPeer, schedVars>>) =>
       \/ AttemptsLeft' \subseteq AttemptsLeft /\ AttemptsLeft' # AttemptsLeft
       \/ /\ AttemptsLeft' = AttemptsLeft /\ WorkLeft' # WorkLeft
          /\ \A k \in DOMAIN WorkLeft : WorkLeft'[k] \subseteq WorkLeft[k]]_vars

(* What Download promises holds of the receiver, the sink and the source:  *)
(* a verified window is not written again, the host's hash of a chunk does *)
(* not change while its daemon lives, no run ends in "root hash mismatch", *)
(* and a run that succeeds has verified everything.                        *)
fileBar == [i \in Chunk |-> Sum(Whole(file[i]))]
goodBar == UNION {Window(w) : w \in {x \in WindowIds : winState[x] = 2}}

Promise == INSTANCE Download WITH
  Parts <- {Window(w) : w \in WindowIds},
  Failures <- {"lost", "gaveup", "unconfirmed", "ended"},
  Untold <- None,
  file <- fileBar,
  told <- srcHash,
  good <- goodBar

KeepsPromise == Promise!Spec

(* Every run of the receiver comes to an end. *)
RunEnds == phase = "running" ~> phase # "running"

(* README.md:24, "Resumes from <dest>.beeline-part if present": a run that *)
(* has everything, from this run and the ones before, gets its DONE.       *)
Confirmed == outcome # "unconfirmed"
-----------------------------------------------------------------------------
(* The inductive invariant behind RootAlwaysMatches.                       *)

(* A HASH reply in flight repeats the host's cache; DONE, in flight or     *)
(* received, is the root of the complete cache.                            *)
RepliesFromCache ==
  /\ \A h \in hashReplies : \A i \in Window(h.win) :
       i \in srcHave /\ h.hs[i] = srcHash[i]
  /\ \A r \in dones \cup ({root} \ {None}) : srcHave = Chunk /\ r = Root(srcHash)

(* A window is asked about at most once at a time, only when all its       *)
(* chunks are held, and the counters count.                                *)
WindowsCounted ==
  /\ \A w \in WindowIds :
       /\ (w \in hashReqs \/ \E h \in hashReplies : h.win = w) => winState[w] = 1
       /\ w \in hashReqs => \A h \in hashReplies : h.win # w
       /\ winState[w] # 0 => Window(w) \subseteq bitmap
       /\ winState[w] = 2 => \A i \in Window(w) :
                               i \in srcHave /\ hashes[i] = srcHash[i]
       /\ winRecv[w] = Cardinality(Window(w) \cap bitmap)
  /\ verified = Cardinality({w \in WindowIds : winState[w] = 2})

(* A chunk is at one place at a time: held, queued, in one REQ, about to   *)
(* be served, or in DATA frames and the buffer they fill.                  *)
OnePlace ==
  /\ \A a, b \in DOMAIN queue : queue[a] = queue[b] => a = b
  /\ \A a \in DOMAIN queue : queue[a] \notin bitmap \cup Awaited
  /\ Awaited \cap bitmap = {}
  /\ \A r1, r2 \in reqs : r1 # r2 => ReqChunks(r1) \cap ReqChunks(r2) = {}
  /\ AwaitedReqs \cap AwaitedServing = {}
  /\ AwaitedReqs \cap AwaitedData = {}
  /\ AwaitedServing \cap AwaitedData = {}

(* What of a chunk is not in the buffer is still in flight, once. *)
InBuffer(i) == {p \in Piece : \A d \in datas : d.index = i => d.piece # p}
PiecesOnce ==
  /\ \A i \in AwaitedData : partial[i].have = Cardinality(InBuffer(i))
  /\ \A d, e \in datas : d.index = e.index /\ d.piece = e.piece => d = e

(* Between runs there is no stream and the receiver remembers nothing. *)
StreamOnlyWhileRunning ==
  /\ phase # "running" =>
       /\ reqs = {} /\ hashReqs = {} /\ datas = {} /\ hashReplies = {}
       /\ dones = {} /\ errors = {} /\ serving = Idle
  /\ phase = "idle" =>
       root = None /\ winState = [w \in WindowIds |-> 0] /\ bitmap = {}

(* RootAlwaysMatches made inductive: the five facts above together say     *)
(* that every step of either side leaves verified hashes equal to the      *)
(* host's cache, which never changes during a stream.                      *)
RootInv ==
  /\ RepliesFromCache /\ WindowsCounted /\ OnePlace /\ PiecesOnce
  /\ StreamOnlyWhileRunning
=============================================================================
