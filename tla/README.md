# A TLA+ verification of the beeline CLI

`beeline` shares a file from one machine to another. `beeline share` registers
a path with a background daemon, which prints a link; `beeline get <link>`
fetches the file in chunks, over QUIC or a WebRTC data channel, straight from
that daemon. A server relays signaling messages and nothing else.

This directory holds TLA+ models of that program, the TLC runs that check them
on small instances and theorems that TLAPS checks for every value of the
constants. Line numbers refer to the sources under `src/internal/` unless
another directory is named.

    tlc -workers 2 -config Transfer_safety.cfg MCTransfer
    tlapm Transfer_proofs.tla

## 1. The system

| component | source | state | operations |
|---|---|---|---|
| receiver: scheduler | `peer/peer.go:413-609` | queue, outstanding, partial chunks, attempts, window counters, root | `run`, `fill`, `onData`, `onHash`, DONE timer |
| receiver: transport race | `transport/race.go`, `peer/peer.go:281-411` | a result per candidate, the winner | `Race`, `Dial` of each candidate, `readFrame` with its watcher |
| receiver: connecting | `peer/peer.go:56-279` | the manifest, channels from the signaling goroutine | HELLO, manifest, host-online, SDP/ICE/Bye dispatch |
| sink | `manifest/sink.go` | bitmap, hashes, dirty count; file and sidecar on disk | `OpenSink`, `WriteChunk`, `Verify`, `SaveSidecar`, `Suspend`, `Finish` |
| source | `manifest/source.go` | which chunks were hashed, and their hashes | `ReadChunk`, `Hashes`, `AllKnown`, `Root` |
| share | `host/share.go` | stopped, sessions, peers, downloads left, timers, signaling socket | `start`, `loop`, `handle`, `serve`, `completed`, `stop` |
| host | `host/host.go` | the map of shares, pending entries, certificate, address | `Add`, `Remove`, `Close`, `handleStream`, certificate rotation |
| store | `host/store.go` | `shares.json` and its temporary file | `save`, `Restore`, `retryPending` |
| daemon: server | `daemon/server.go` | subscribers, receive jobs | `Run`, HTTP handlers, `publish`, `ticker` |
| daemon: lifecycle | `daemon/client.go`, `daemon/server.go`, `src/cmd/beeline/main.go` | the socket file, the processes | `Run`, `Ensure`, `Start`, `Stop`; `daemon`, `restart`, `update` |
| attached view | `src/cmd/beeline/wait.go` | last snapshot | `followEvents`, `waitShare` |
| reverse dial | `transport/accept.go`, `transport/endpoint.go` | acceptors, a handler and a timer per stream | `handleStream`, `Register`, `Accept`, `Unregister` |
| connections | `transport/conn.go`, `transport/webrtc.go` | a stream or a data channel | framing, split into messages, `Close` |
| address limiter | `transport/authlimit.go` | counters per address | `Allow`, `Fail` |
| wire, layout | `wire/wire.go`, `manifest/layout.go` | none | encoding, chunk arithmetic |
| links | `link/` | none | keys and proofs |
| signaling, API client, port mapping, update, MCP, configuration | `signal/`, `api/`, `portmap/`, `update/`, `mcp/`, `config/`, `ui/` | a socket, a mapping, none | thin clients |

How they interact. The receiver and a session of the share exchange frames on
one stream: REQ asks for a run of chunks and DATA answers, HASH-REQ asks for the
hashes of a window and HASH answers, DONE carries the root over all hashes. The
sessions of one share run in goroutines of their own and share the `Source`, the
`stopped` flag and the count of downloads left, under `Share.mu`. HTTP handlers,
timers, sessions and signaling loops all call `Host.Remove` and `Host.save`, and
share the map under `Host.mu` and the file under no lock. The daemon's client
knows the daemon by its socket only. Receiver and host find each other through
the signaling server: HELLO, the manifest, offers and answers, Bye; and the host
may be told to dial the receiver, which hands the stream it accepts to the race.

What is hard, and what makes each part correct:

- **Transfer.** Frames arrive in any order; chunks are retried; the receiver
  can die between a write and the sidecar that records it; the file can be
  edited and the host restarted in between. No chunk may be forgotten or asked
  for twice, a verified chunk must stay, a finished download must be what its
  root says, and every run must end.
- **Race.** Candidates succeed at once, and a timeout or cancel races a read
  that just completed. Exactly one stream survives, and it is open.
- **Share.** Sessions are admitted, served and counted while others do the
  same and while `stop` takes everything down. Limits hold, nothing is served
  after `stop`, nothing is left behind.
- **Host and store.** Saves overlap, and the daemon can stop at any system
  call. Each share has one home, and no share is lost by a restart.
- **View.** A subscriber must learn that its share is over, and one that reads
  nothing must block nobody.
- **Daemon lifecycle.** Only a status request keeps two daemons apart. Stops,
  restarts and updates must leave one daemon that commands reach.
- **Connecting.** One goroutine feeds four bounded channels and drops or blocks
  when one is full. A host that is there must be asked, an end must be heard,
  the goroutine must not be left behind.
- **Reverse dial.** A stream is handed from its handler to the job under a
  timer that closes silent streams; it must be open and stay so, and no handler
  may outlive the job.
- **Data path.** Bytes pass through file segments, one reused buffer, frames,
  messages and a reassembly buffer; each must end up where it belongs.

`PROJECT.json` lists the hazards one by one, at the line where each one bites,
with the properties that watch it or the reason why none does yet.

## 2. The modules

| module | models | built on |
|---|---|---|
| `Transfer` | one download: scheduler, sink, source, the session it talks to | refines `Download` |
| `Download` | what `get` promises of a destination, without frames, queues and sidecars | |
| `Race` | how the receiver gets its stream | |
| `Connect` | how the receiver gets a manifest, and hears of the end | |
| `Accept` | streams that the host opens at the receiver | |
| `ShareSessions` | the host's side of many downloads, and `stop` | refines `ShareContract` |
| `ShareContract` | what a share promises, without goroutines | |
| `HostStore` | the host over several lives of the daemon, and `shares.json` | |
| `DaemonLifecycle` | daemon processes, commands and the socket | |
| `Watch` | snapshots, and the view of an attached terminal | |
| `DataPath` | the bytes on their way from file to file | EXTENDS `Layout`, `Wire` |
| `Layout`, `Wire` | chunk arithmetic; frames: operators, no state | |

The cuts between them are the ones of the code: `Connect` reduces the race and
the download to their return; `StartRun` of `Transfer` begins where `Race`
returned a stream; `Accept` is what the incoming candidate of `Race` waits for.
`Completed` is in both host modules, once for the count among sessions and once
for the save. `DaemonLifecycle` has of a daemon the order in
which it asks, removes, listens, closes and unlinks, and no share; `HostStore` has the shares
of one daemon at a time, and how `shares.json` is written. `Watch` sees a share
only as listed or not listed.

Each `MC` module declares the model values of its runs and, where runs use one, a
symmetry definition; the `.cfg` files set the constants. Definitions marked *Mutant* are
plausible wrong versions of the definition after them. No specification uses
them; they are there to show that each property notices such a change.

### Transfer

| model | code |
|---|---|
| `file`, `srcHave`, `srcHash` | the shared file; `Source.have`, `Source.hashes` |
| `stopped`, `serving`, `lastRequested`, `doneSent` | `Share.stopped`; the loop over a REQ in `serve`; `session.lastRequested`, `session.doneSent` |
| `reqs` ... `errors` | the frames in flight, a set per type |
| `queue` ... `root` | the fields of `receiver` |
| `bitmap`, `hashes`, `dirty`; `disk`, `sidecar` | the fields of `Sink`; the destination file and `.beeline-part` |
| `StartRun` | `OpenSink`, then `run` up to its loop |
| `OnDataPart`, `OnDataChunk` | `onData` without and with a completed chunk, then `fill` |
| `OnHashGood`, `OnHashBad`, `OnHashGiveUp` | the outcomes of `onHash` |
| `OnDone`, `OnError`, `DoneTimeout`, `StreamLost` | the other ways through the loop |
| `CheckRoot` | the end of `run`, and `Finish` |
| `TakeReq`, `ServeChunk`, `RefuseChunk`, `ServeHashReq` | `serve`; the test for DONE at the end of each turn is in `MaybeDone` |
| `OtherSessionReads`, `Stop`, `HostRestart` | another session of the share, `stop`, a daemon that re-hosts it |
| `Crash`, `CrashInWriteChunk`, `EditFile`, `DeletePartial` | the environment |

Abstractions. A chunk is a tuple of `Pieces` values, all alike in the source.
SHA-256 is an injective function, and the root an injective function of the
hashes. Frames in flight are sets: a data channel is unordered
(`transport/webrtc.go:51`), and what a QUIC stream delivers is among the orders a
set allows. A handler and the `fill` after it are one step, and a write that
fails in it is `StreamLost` after it: both leave the state that `Suspend` saves.
`doneTimer` fires only when nothing is in flight any more; a DONE that is only
late is `StreamLost`. `serve`'s error for a range outside the file is left out
because `TypeOK` says this receiver never asks for one. A read of the shared
file that fails (`host/share.go:482-486, 496-500`) is an ERROR and the end of the session, which
to the receiver is `RefuseChunk` or `StreamLost`. Not modelled: a crash
inside `OpenSink`, and a shared file that changes its length.

`Download` says the same without frames, queue, attempts, counters and sidecar. `Promise`
maps a file of values to their hashes (`fileBar`), the source's cache to `told`, and the
windows whose `winState` is 2 to `good` (`goodBar`); the other variables are the same. A DATA frame
that completes a chunk is a `Write`, a HASH without complaints a `Verify`, a
run that ends without success, by an error or a crash, a `Fail`, the end of `run` a `Finish`, a
hash that `Source` computes a `Read`; requests, pieces, DONE and a window that failed
are stutters.

### HostStore

| model | code |
|---|---|
| `proc` | the daemon: up, its context cancelled, `Close` done, down |
| `live`, `left`, `closing`, `pending` | `Host.shares`, `Share.downloadsLeft`, the shares `Close` took, `Host.pending` |
| `rpc`, `todo`, `again` | the goroutine of `Restore` and `retryPending`, its local variables |
| `saver`, `tmp`, `file` | each call of `save`; `shares.json.tmp` and `shares.json` |
| `SaveSnapshot`, `SaveCreate`, `SaveWrite`, `SaveRename` | `save`, cut at its unlock and at each system call |
| `Add`, `Remove`, `Completed` | what handlers, timers and sessions do before they call `save` |
| `Load`, `Drop`, `Resume`, `Transient`, `Publish`, `SaveRestored`, `SavedRestored`, `Retry`, `RetryEnds` | `Restore`, `resume`, `retryPending` |
| `Start`, `Shutdown`, `Close`, `Exit`, `Kill` | `Run`, `POST /shutdown`, `Host.Close`, the end of the process |

`saver[p].at` follows the file that `p` has open when another save renames it.
A kill ends the process, not the machine: what was written is in the file.
`os.WriteFile` and `os.Rename` fail only where another save makes them fail. The
history variables `lone`, `whole`, `early` name the circumstances under which a
property is claimed.

### ShareSessions

| model | code |
|---|---|
| `place` | between `start` and the insertion, in `Host.shares`, out of it |
| `stopper`, `why`, `snapRtcs`, `snapSessions`, `cancelled`, `deleted` | one call of `stop`, its locals and what it did |
| `loop` | the goroutine of `loop`: receiving, answering an offer, reconnecting, over |
| `expiry`, `doneTimer` | `Share.expiry`; the timer of `completed` |
| `left`, `downloads`, `known` | `downloadsLeft`, `len(downloads)`, the hashed chunks |
| `rtcs` | the connections in `Share.peers` |
| `pc`, `conn`, `ask`, `last`, `doneSent` | the goroutine of each session, its connection, the REQ it serves, its flags |
| `Connect` ... `Register` | `handleStream` for QUIC, the goroutine in `handle` for WebRTC |
| `TakeReq` ... `Completed` | `serve`, cut at each read and write, and at each use of `sh.mu` |
| `StopFlag`, `StopBye`, `StopClose`, `StopReturns` | `stop`, cut at the unlock and between connections |
| `LoopGone` ... `PeerJoins` | `loop`, `run`, `handle`, `dropPeer` |

`Close` on a QUIC stream ends the write direction only, and a data channel that
was closed still hands out what has arrived (`transport/conn.go:148-160`): such a
connection is "draining" before it is "closed". `Source.Close` forgets the open
files and a later read opens them again, so it stops nobody. Writing one chunk
is a step: a frame that is being written when `stop` returns counts as written
before. A peer-join for a peer that is there, which the server sends again when
the host reconnects, replaces its entry and leaves its connection open
(`PeerJoins`); `orphans` is the history of those dropped so before `stop` looked.
`KeepsContract` is the refinement: `phase` is `stopper` and `stopped`,
`members` those between their admission and the end of `serve`, `sending` those
at a chunk with an open connection, `finished` those whose DONE was counted.
Only one call of `stop` exists because `Remove` takes the share out of
the map first. `DoneFires` assumes that `Add` reaches the insertion within the
five seconds of the timer. A share whose `newShare` fails never existed.

### Race

| model | code |
|---|---|
| `pc`, `conn` | the goroutine of each candidate, the connection it opened |
| `done`, `watcher` | `readFrame`'s channel and its goroutine, with both selects as steps |
| `expired`, `quit` | the timeout of the candidate; ctrl-c |
| `collected`, `winner`, `returned` | the loop of `Race` |

A read can return its frame although the connection was closed, because a data
channel is drained first. `DialFails` stands for every reason a candidate can
have before it reads.

### Watch

| model | code |
|---|---|
| `mine`, `receiver`, `busy` | the view's share in `Host.shares`; whether it has a receiver; whether anything else moves |
| `pub`, `snap` | each goroutine inside `publish`, cut between the snapshot and `s.mu` |
| `stream`, `ch`, `sent` | the handler of `events`, its channel in `s.subs`, what it wrote |
| `view`, `asleep` | the loop of `waitShare`; a view that is suspended |
| `AddMine`, `Revoke`, `OtherChange`, `Tick` | `addShare`, `revoke`, every other caller of `publish`, `ticker` |
| `Expire` | `Remove` from a timer or the signaling loop, which publishes nothing |
| `Snapshot`, `Push` | `publish` |
| `Subscribe`, `TakeFirst`, `SentFirst`, `Forward`, `StreamEnds` | `events` |
| `Shutdown`, `Close`, `Exit` | `shutdown`, `Host.Close`, the end of `Run` |
| `Attach`, `ReadSnapshot`, `LoseDaemon`, `CtrlC`, `Leave` | the end of `cmdShare`, the cases of `waitShare`, `followEvents` |

A snapshot is one bit, whether it lists the share: it is all on which `waitShare`
branches; progress and finished downloads are only drawn. `CtrlC` is the key and
the handling of its DELETE in one step, since the view reads nothing in between.
A view that is killed is `Leave`.

### DaemonLifecycle

| model | code |
|---|---|
| `pc` | each daemon in `Run`: before its question, before and after `os.Remove`, `host.New`, listening, closing, `Host.Close`, before the last `os.Remove` |
| `path`, `port` | whose socket file `daemon.sock` is; who holds the configured UDP port |
| `op`, `cpc`, `target` | a command, how far it is, the daemon that took its `/shutdown` |
| `overlap` | history: a daemon asked while another was starting or ending, and one has run since |
| `Launch` ... `Withdraw` | `Run` up to its listener, or to where it gives up |
| `StopListening` ... `RemoveSocket` | the end of `Run` |
| `NothingToRestart` ... `StartReturns` | `Ensure`, `Start`, `Stop` and the commands that call them |

A daemon that is interrupted hears no answer to its question, because the
request takes the cancelled context. The waits of `Start` and `Stop` are polls with
a limit; in the model they may end too early at any time (`StopTimeout`,
`StartReturns`). `Restore` runs beside the listener and is in `HostStore`.

### Connect

| model | code |
|---|---|
| `pc`, `gor` | `Receive`: waiting, in the race, in a download, or in one whose stream ended ("cut"); its signaling goroutine, which may be blocked on `rtcMsgs` |
| `manifestCh`, `rtcMsgs`, `hostOnline`, `errCh` | the four channels |
| `sock`, `inbox` | the socket: up, silent or closed; what was not read |
| `host`, `hellos`, `hearing` | the host and its HELLO handler, cut at `refreshPublic` |
| `missed`, `mute` | history: a host-online was dropped; the host that is there could not send its manifest |
| `ReadPresence` ... `RecvFails` | the goroutine |
| `TakeManifest` ... `RunReturns` | `Receive`, up to what the race and the download return |
| `StreamEnds`, `ReadFails` | a read of the download fails, and only then `run` looks at `errCh` |

`Send` refuses a payload above 48 KiB, and `HostAnswers` may meet that limit with
any manifest: the length of the list of files is not in the model.

### Accept

| model | code |
|---|---|
| `at`, `timer` | each `handleStream` and its `AfterFunc`, cut between the check and the `Close` |
| `shut`, `closed`, `link` | streams closed on this side; their channel; the connection below |
| `job`, `got` | `Receive`: registered, in `Accept`, with a stream or without, unregistered |

`Close` of an accepted stream ends its write direction only, so it does not end
a read; a silent stream is over when its connection is.

### Layout, Wire, DataPath

`Layout` has `ChunkSpan`, `fileAt` and `segments`; `Wire` has `Encode`, the
parser of a byte stream (`Read`), `Decode` and `SplitData`. Both are operators
with the names of the code, and every number is one of bytes; constants of the
code are constants of the module, so that a run can make them small. `DataPath` strings
them together: `ReadChunk` fills the buffer that `serve` uses again for every
chunk, `WriteFrame` appends to a stream or adds messages to a data channel,
`ReadStream` and `ReadMessage` parse and reassemble. Every byte of a shared
file is different, so a byte in a wrong place is seen. `Decode` of the model refuses any
bytes behind a frame; the code asks its reader of 4096 bytes whether any are
left (`wire/wire.go:189-195`), and does not see those behind a payload that was
read past it. No host sends such a message.

## 3. The runs

| run | instance | shows |
|---|---|---|
| `transfer` | 3 chunks of 2 pieces, windows of 2, 2 in flight, 3 runs, 1 edit, 1 restart, 1 deletion | `TypeOK`, `ChunkAccounting`, `NeverStuck`, `Integrity`, `GiveUpOnlyIfEdited`, `UnconfirmedOnlyOnResume` |
| `transfer_ends` | 3 chunks, 2 runs, 1 edit, 1 restart, fairness | `WorkRunsOut`, `RunEnds`, the refinement `KeepsPromise` |
| `store_memory` | 2 shares, 1 worker, 2 lives | `OneHome`, `PendingIsRetried`, `FileReadable`, `FileCurrent`, `RestartKeepsShares` |
| `share_stop` | a QUIC and a WebRTC session, 1 chunk, limit 1 | `CapAccounting`, `StopClosesSessions`, the refinement `KeepsContract` |
| `share_ends` | two QUIC sessions, an empty file, limit 2, fairness | `SessionsEnd`, `ExhaustedLeaves` |
| `race` | 2 dialing candidates, 1 incoming, fairness | `LosersClosed`, `OwnCancelHarmless`, `RaceEnds` |
| `watch` | a handler besides the poster and the ticker, a channel of 2, a stream of 1, fairness | `RevokeUnderWay`, `RevokeIsSeen`, `BusyViewLearns`, `PublishReturns`, `SubscriberLeaves` |
| `daemon` | 4 daemons, 2 commands | `Undisturbed`, `RestartReplaces` |
| `connect` | `hostOnline` of 2, `rtcMsgs` of 1, 2 messages, a host that leaves twice, fairness | `AskUnderWay`, `EndUnderWay`, `HostIsAsked`, `EndIsHeard`, `GoroutineEnds` |
| `accept` | a QUIC stream and two in WebTransport sessions, fairness | `StreamLives`, `HandlersEnd` |
| `data_path` | up to 3 files and 5 bytes, chunks of 3, messages of 15, 1 other frame | `Copied`, `NothingRefused`, `HeardAsSaid` |

One more run, `transfer_unconfirmed`, ends in a violation on purpose: a resume
that holds the last chunk already never gets DONE, although the repository's
README says that `get` resumes. `PROJECT.json` "findings" quotes the line.

What the code does besides, and the models show, where a reader may not expect
it:

- A save of a session that ends during `Close`, or of a handler while
  `Restore` or `retryPending` holds the entries, writes `shares.json` without them
  (`host/share.go:546`, `host/store.go:110`); `RestartKeepsShares` excludes these
  two windows and overlapping saves, and nothing else.
- Sessions admitted before the last download finishes are served to the end, so
  more than the limit may complete; `ShareContract` says so.
- A share whose signaling loop ends before `Add` has inserted it stays listed
  (`host/host.go:230`).
- A peer-join replaces the entry of its peer and closes nothing (`host/share.go:313-316`):
  a WebRTC session whose connection is in no entry any more, and which registers
  after `stop` took its snapshot of the sessions, is closed by nobody. Like a QUIC
  session that registers then, it gets no data.
- A share that expires publishes nothing (`host/share.go:202`): a view learns of
  it with the next snapshot that something else causes.
- The last `os.Remove` of a daemon removes whatever socket is there
  (`daemon/server.go:128`), also that of its successor. `daemon restart` starts the
  next one when the socket answers no more, which is before `Close` of the
  first has stopped its shares.
- A manifest above 48 KiB is not sent (`signal/client.go:159`), the host's handler ignores it
  (`host/share.go:355`), and nothing limits the list of the files of a folder:
  the receiver waits until `helloTimeout`.
- A download whose stream lives goes on when the host said Bye or the socket is
  lost: `run` looks at `errCh` only after a read has failed (`peer/peer.go:481-487`).
- The timer of `handleStream` may fire before MANIFEST-ACK is read, and the
  stream is then handed over closed (`transport/accept.go:98-104`). It also does not end
  the handler of a silent stream, since `Close` leaves the read direction open.
- When a file got shorter than its manifest, `ReadChunk` sends what its buffer
  held before in place of the missing bytes (`manifest/source.go:134`). The
  receiver's hashes agree with the host's, which hashed the same buffer.
- A host-online that finds its channel full is dropped (`peer/peer.go:136`), an
  SDP or ICE message that finds its channel full stops the goroutine until
  `Receive` returns (`peer/peer.go:157`), and of several manifests the first is kept
  (`peer/peer.go:151`).

The guards of some properties name circumstances in which the code promises
less. `FileReadable` and `FileCurrent` speak of saves that ran alone: of two that
overlap the older snapshot may be renamed last (`store.go:48-70`). `whole` in
`FileCurrent` leaves out saves made while `retryPending` holds the entries
(`store.go:164`) or after `Close` took the shares. `OwnCancelHarmless` leaves out
a timeout of the winner itself, which may fire between the read of its frame and
`close(done)` (`peer.go:396-401`). `RevokeIsSeen` leaves out a snapshot that found
the channel full. `Integrity` leaves out a partial file that was deleted beside
its sidecar (`sink.go:49-74` makes it again, blank), and a shared file that was edited and edited back
around two restarts of the host: a crash between the two writes of
`sink.go:169-188` leaves a new chunk under an old hash, and the old hash is then
right again. `StopClosesSessions` and `SessionsEnd` leave out sessions that
register after `stop` took its snapshot (`Beyond`) over QUIC, or over a WebRTC connection that
a peer-join had dropped by then; they get no data. `Undisturbed` claims
nothing once a daemon has asked its question while another was between its own
question and its listener, or on its way out: that is what the question cannot
see. It claims all of it again when no daemon of those that ran since is left.
What two daemons do to one `shares.json` meanwhile is in no module.
`RestartKeepsShares` leaves out the saves named above, and what came before the load (`early`).
`AskUnderWay` and `HostIsAsked` leave out a host-online that was dropped, and a host that
could not send its manifest; `EndIsHeard` a goroutine that is stuck and
a download that goes on, `StreamLives` a stream whose timer came first, `Copied`
the bytes behind the end of a file that got shorter.

Bounds, and why they are enough. The window does not divide the file, so the
last one is short, and REQ runs are cut by the limit on what is in flight as
well as by gaps in what is held. `SaveEvery` 2 leaves chunks that are on disk and
not in the sidecar. `MaxAttempts` 1 has a retry and a giving-up. Two pieces are
what `OnDataPart` needs. Two runs are needed for a resume and three for a resume
of a resume; one edit and one restart make the host's hashes and the receiver's
differ in every way one chunk can. `HostStore` needs two shares for a file that
loses one of them, two savers (the worker and the re-hosting goroutine) to
overlap, two lives for a restart. Two sessions compete for one count; both kinds
of connection, and a chunk to serve, meet `stop` in `share_stop`. `share_ends`
has two QUIC sessions and no chunk, to keep the liveness check small: that a
WebRTC session ends, too, is not checked there.
Two candidates race; the third is the one that needs no answer. In `watch` the
channel of 8 is one of 2 and what a stream can hold is 1, so that a channel
fills up, drops and is drained within few steps; a handler, the poster and the
ticker give every order of two snapshots with a third between them. Of four daemons
two overlap, one starts beside them or after them, and one more finds what they
left; two commands start and stop against each other. `hostOnline` of 4 is one of 2, and
a host that leaves and comes back fills it; `rtcMsgs` of 64 is one of 1. Of three
streams one is taken, one waits behind it and one is silent. Three files let a
chunk span two and an empty one lie between, before or behind them; five bytes in
chunks of three leave a short chunk, and a message of 15 carries two bytes of
DATA, so that a chunk is split unevenly. HASH is always of two hashes, so that the
256 of a real window fit a message is not shown; and with one other
frame a run cannot confuse the order of two: that order rests on the theorem `HeardAsSaidHolds`.

`CHECK_DEADLOCK FALSE` is set everywhere, since each model may come to rest: the
bounded number of runs or lives is used up, a share is stopped and its sessions
are over, a race has returned. Where something must go on, a liveness property
says so. Symmetry is used only in runs without a liveness property.

Fairness. `Transfer`: both processes run, so a frame in flight is read (if it is
not, the stream breaks, and then the run ends too), a chunk being served is
written, the root is checked and the armed timer fires. Nobody has to start a
run, edit, stop or crash. `ShareSessions`: goroutines that can go on do, a
connection that was closed on this side is seen closed by its reader sooner or
later (QUIC's idle timeout), the insertion follows `start`, and the timer of
`completed` fires. No receiver has to ask and nobody has to revoke. `Watch`: goroutines go
on, the ticker ticks, and a view that is awake reads; nobody has to press a key,
change a share or wake a view. `Race`: the goroutines run and timeouts pass, and a dial ends when its context does. No host
has to answer. `Connect`: the goroutine, the selects of `Receive` and the HELLO
handler go on, a race returns, and a read that failed is acted on; no timeout of `Receive` is used, and nobody has to
come back or finish. `Accept`: handlers and timers go on, and `Receive`, once it
has closed its stream, unregisters and closes the endpoint, which takes the
connections with it. All of it is weak
fairness of steps that stay possible.

## 4. The proofs

A theorem `XHolds` states the property `X`; the property of any other is in brackets.

| module | theorems |
|---|---|
| `Transfer_proofs` | `TypeCorrect` (`TypeOK`), `RootInvariant`, `RootMatches` (`RootAlwaysMatches`), `VerifiedKept` (`VerifiedStaysVerified`), `PromiseKept` (`KeepsPromise`), `WorkRunsOutHolds`, `WorkFinite`, `GiveUpOnlyIfEditedHolds`, `ProgressInvariant`, `ChunkAccountingHolds`, `NeverStuckHolds`, `UnconfirmedHolds` (`UnconfirmedOnlyOnResume`), `IntegrityHolds` |
| `HostStore_proofs` | `OneHomeHolds`, `PendingIsRetriedHolds`, `FileReadableHolds`, `FileCurrentHolds`, `RestartKeepsSharesHolds` |
| `ShareSessions_proofs` | `CapAccountingHolds`, `StopClosesSessionsHolds`, `ContractKept` (`KeepsContract`) |
| `Streams_proofs` | `LosersClosedHolds`, `OwnCancelHarmlessHolds`, `StreamLivesHolds` |
| `DaemonLifecycle_proofs` | `UndisturbedHolds`, `RestartReplacesHolds` |
| `Watch_proofs` | `TypeCorrect`, `RevokeUnderWayHolds` |
| `Connect_proofs` | `TypeCorrect`, `AskUnderWayHolds`, `EndUnderWayHolds` |
| `DataPath_proofs` | `CopiedHolds`, `NothingRefusedHolds`, `HeardAsSaidHolds` |

`Transfer_proofs` proves `Spec => []TypeOK`, then `Spec => []RootInv` and from
it `Spec => []RootAlwaysMatches`, for all chunk
counts, window sizes, limits, numbers of pieces, runs, edits, restarts and
deletions. They assume `ConstantsAssumption` and `NoneAssumption` (the numbers
are natural numbers, windows and limits positive, `None` is not a value, a hash
or a root), and that hashes and roots are injective, which is how `Sum` and
`Root` are defined.

`TypeOK` is nearly inductive; what it takes are facts about `fill` (its runs lie
within the queue's chunks, and it never takes more than the limit leaves) and
about windows (a chunk lies in the window `WindowOf` names, the last one
included).

`RootAlwaysMatches` says the check at the end of `run` never fails. It is not
inductive: the step that could break it is a DATA frame that overwrites a chunk
whose window is verified. `RootInv` excludes that frame. `OnePlace` says a chunk
is held, or queued once, or in one REQ, or being served, or in flight, and never
two of these; so a chunk that is held is not on its way. `PiecesOnce` says the
same of the pieces, without which a buffer could fill up from repeated ones.
`WindowsCounted` says a window is asked about only when all of it is held, and
that a verified window agrees with the host's cache; `RepliesFromCache` says
what HASH and DONE carry is that cache, which never changes while a stream
lives, since the cache keeps the first hash and a restart breaks the stream.
`StreamOnlyWhileRunning` starts each run from nothing. Together they give: when
`verified` counts every window, all hashes equal the cache, and the root that
came with DONE is the root of that cache.

The rest of the module proves the other properties of `Transfer` that are not
liveness, each from `RootInv` and an invariant of its own that TLC had checked on
the instance of the run `transfer` before:

- `VerifiedStaysVerified` needs no more: a chunk that arrives is not held
  (`OnePlace`), so it lies in no verified window, and a HASH that arrives is about
  a window that waits for it.
- `GiveUpOnlyIfEdited` follows from `Unedited`: until the first edit every hash in
  the cache, in memory and in the sidecar, and every piece in flight or in a
  buffer, is of the file, so `Verify` finds nothing. `TwoVersions` says the same of
  one edit: all of it is of the bytes before or after, and a buffer that fills up
  is wholly of one of them.
- `ProgressInv` is what the scheduler owes: `Covered` (every chunk is held, on its
  way or queued), `Counted` and `Filled` (what is outstanding, queued and held adds
  up, and requests go out while there is room), `Asked` (a complete window has been
  asked about, and the answer is awaited), `DoneOwed` and `LastServed` (DONE is
  decided again after each request and answer). It gives `ChunkAccounting`,
  `NeverStuck` and `UnconfirmedOnlyOnResume`. That `fill` loses no chunk needs the
  longest run of consecutive indexes around one; it is the least index of a set,
  which is had from the well-foundedness of `<`, where an induction would need a
  predicate as a parameter.
- `Integrity` follows from `DiskTrue`, under its own condition (one edit, no
  deletion): a hash in memory or in the sidecar is that of the bytes on disk, or it
  is outdated and the host's cache says otherwise, so that its window cannot be
  verified (`Sound`). The hard case is a chunk that is written again while the
  sidecar still holds its old hash: there the host has rejected that hash, and the
  bytes that come are of the file as it is now (`Rejected`), so a crash that tears
  the write leaves either the same bytes or a hash the next run rejects.

- `KeepsPromise` is the refinement. `RootAlwaysMatches` makes `CheckRoot` a `Finish`
  and never a failure for differing roots, `VerifiedStaysVerified` and its lemmas keep every
  write, the torn one of a crash included, outside of what `Download` has as `good`,
  and `RepliesFromCache` says that what a HASH verifies is what the host told.
  One fact is new, `CacheExact`: the source knows the hash of exactly the chunks it has
  read. With it every read of the host is a `Read`, which tells what was not told before.
  `RootAlwaysMatches` and `VerifiedStaysVerified` follow from this invariant and are
  not checked by a run again.
- `WorkRunsOut` is a variant. A step of the receiver or the session uses up an attempt
  (`AttemptsLeft` gets smaller, and nothing in a run makes it grow), or leaves it and
  takes something from one of the seven sets of `WorkLeft` without adding to another:
  a chunk goes from the queue to a REQ, to `serving`, to its DATA frames, and a window
  from waiting to HASH-REQ, to HASH, to verified, and each set holds what its stage and
  those before it still have to handle. Each stage needs `OnePlace` (a chunk that has been passed
  on is not behind as well), and `OnlyOnce` (one DONE, and one HASH-REQ
  for a manifest without chunks). `WorkFinite` says that all these sets
  are finite, so the order is well-founded: a run takes finitely many steps of its own, and
  by `NeverStuck` and the DONE timer it does not wait for nothing. That is the safety half of `RunEnds`;
  that steps which stay possible are taken, fairness, is TLC's part.

`HostStore_proofs` proves all five properties of `HostStore` for any number of shares,
workers and lives. `Rehosting` says what the goroutine holds where:
it saves only at "saving" and holds entries only while it tries them, when
nothing is pending. `OwnFile` is the argument for the file: a save that is alone
has the temporary file to itself, from the truncation to the rename, and nobody
has `shares.json` open afterwards; without the last part a late writer could tear
what was published. `Current` follows the snapshot: as long as no save is due and
nothing is in hand, the file, or the snapshot on its way to it, is what memory
holds. `KnownIds` (ids are never reused, and a save that began before the load is
remembered in `early`) and `OwedIsKept` (the snapshot that will replace the file
lacks no id of the file that memory still holds) give `RestartKeepsShares`; with
`Unique`, which extends `OneHome` to snapshots and files, they give `OneHome`.

`ShareSessions_proofs` proves `CapAccounting` and `StopClosesSessions`, and that
`ShareSessions` implements `ShareContract`, for any sessions, chunks and limit.
The invariant follows what `stop` still has to close: a session is in its
snapshot, or late, or a WebRTC peer whose connection is in the peers until it is closed, unless a
peer-join dropped it before `stop` looked (`orphans`);
and a session that is late is never at a chunk, because it looks at the flag
before each one. The refinement has one step per action, each a step of the
contract or a stutter; that `End` finds nobody sending is the invariant.

`Streams_proofs` is about the two modules on the receiver's one stream; it extends
both, which is why `Accept` has names of its own (`at`, `AcceptInit`). It proves `LosersClosed` and
`OwnCancelHarmless` for any candidates: a
watcher that is about to close a stream that was not refused has a cause, a
timeout, an interrupt or another winner. It proves `StreamLives` for
any streams: one is handed over, and who closed a stream is accounted for.
`DaemonLifecycle_proofs` proves `Undisturbed` and `RestartReplaces`
for any finite number of daemons and commands: without an overlap one daemon runs,
a file lies there only when it listens or nobody does, and the port is its own.
An overlap ends with the last process, and what that one leaves is a file of nobody
and no port: for this the invariant says also during an overlap that a port has a
holder that is there (`Holder`). A daemon that took a `/shutdown` goes its way to the end
and answers nobody again once it has closed its listener.

`Watch_proofs` proves `TypeOK` and `RevokeUnderWay` for any handlers and capacities.
`RevokeUnderWay` is the safety half of `RevokeIsSeen`: a view that is attached and
whose share was revoked has a stream still to open or to be told of its end, or a
snapshot without the share is being published, in its channel or on its
connection, unless one was dropped at the full channel. It is inductive together
with `TypeOK` and `NotYet`: a view that is not attached has no stream. Without
`NotYet` a view could attach with an old stream from which the news is gone. The
steps that move the news say where it goes: from a publisher to the channel, to
the stream (`ForwardTells`), to the view, which then leaves (`ReadTells`).

`Connect_proofs` proves `TypeOK`, `AskUnderWay` and `EndUnderWay` for any capacities and
any number of presence changes and messages. They are the safety halves of
`HostIsAsked` and `EndIsHeard`: as long as `Receive` waits for a host that is
there and can send its manifest, what makes the manifest come is somewhere on its way; as long as it does not know
that the host or the socket has gone, the news is in `errCh`, or unread with a goroutine
left to read it. `AskUnderWay` is inductive with `TypeOK`: a host-online that does
not fit finds another one waiting, or sets `missed`, and a manifest that does not
fit finds one (`NewsIs`). `EndUnderWay` needs `Told`: the goroutine ends only with
`errCh` filled or `Receive` returned; without it the last message could be
unread for ever.

`DataPath_proofs` proves `Copied`, `NothingRefused` and `HeardAsSaid` for any files,
sizes of chunks and messages, and shortened files; the largest share has less
than 2^30 chunks, so that an index fits in its four bytes. It has three parts.

- Of `Layout`: the prefix sums of `starts`, the file `fileAt` finds although
  empty files share a start, and that the segments of a range lie in
  their files, follow each other, and have every byte of the range once. `starts`
  and `segments` are recursive functions; that they have values is taken from their
  definitions by the well-foundedness of `<` (a least counterexample), where an
  induction would need a predicate as a parameter.
- Of `Wire`: a number of two or four bytes is read as it was put, and for each frame the
  host sends, `Read` of any byte string that agrees with its encoding as far as it goes gives
  the frame and the rest, or "eof" when bytes are missing. `SplitData` cuts a chunk
  into messages within the limit that lie side by side and have each byte once.
- The invariant `Inv` of the state. On a stream (`OnStream`, `Flying`) the bytes
  not yet read are the encodings of whole frames, each a right chunk or the next
  of what was said, cut short only when the connection was lost. On a data
  channel (`OnChannel`) every message is a right part of a chunk that was asked for or
  something said, no two cover the same byte (`Disjoint`), and for every chunk
  `have` is the number of bytes that have come and these are right in its buffer
  (`Joined`): so the buffer is full exactly when the last part has come, in
  whatever order. `Right` is what a byte of a chunk must be, and leaves open the
  bytes behind the end of a shortened file. `CopiedTo` and `HeardOk` carry this to
  the receiver's files and to what it heard, and `Errors` says that "eof" on a lost
  connection is the only error.

The assumptions are the named `ASSUME`s of the modules: numbers are natural,
identities differ from `None`, the re-hosting goroutine is not a worker, sets of
daemons and commands are finite, a chunk index and a payload length fit their bytes,
and the largest control frame fits a message. Each is checked by TLC in the runs.

`RootInv` and the type invariants of `Watch` and `Connect` are proved and not among the
runs' properties, since the properties they serve are.

Model-checked only: every liveness property, since these provers have neither
fairness nor ENABLED. Nothing is proved of what TLC's runs bound in time
or memory, nor of the violation that `transfer_unconfirmed` shows.

## 5. What is not modelled

Cryptography (link keys, proofs, sealed signaling payloads, certificates) has no
state to explore. STUN and hole punching are a race inside third-party code.
Port mapping is a renewal loop around third-party clients. The address
limiter counts in windows of wall-clock time that nothing else reads. The
server's own behaviour is outside the repository. Argument parsing, progress
display, the MCP front end and the three calls of the API client keep no state.
Self-update is modelled as a command that restarts the daemon, not in what it
downloads and replaces. Pacing of a data channel by `bufferedAmount` is left out.
`refreshPublic` and `rotateCerts` replace one value under a lock.
`PROJECT.json` "components" gives each part's status and reason.

## 6. Plan

Done, in this order: `Transfer` and its proofs, `HostStore`, `ShareSessions`,
`Race`, `Watch`; then `DaemonLifecycle`, `Connect`, `Accept`, `Layout`, `Wire`, `DataPath`,
`ShareContract` with its refinement, the proofs about the host, the race, the
reverse dial, the daemon, the rest of the transfer, the view, connecting, and the
way of the bytes; and `Download` with its refinement, and the variant of a run.

What is left, by what it would add:

1. Self-update (`update/update.go:176-183`, `src/cmd/beeline/main.go:164-200`): two updates that run
   at once share `.beeline.new`, and one may rename what the other is still writing;
   an update that was cut, and a daemon that starts while it is replaced.
2. The cache of the release check (`update/update.go:256-288`): it is written in place
   by commands that end at any time, and only when GitHub has answered.
3. Port mapping (`portmap/portmap.go:53-152`): the renewal of a lease against `Close`,
   which deletes the mapping without waiting for a renewal under way.
4. The address limiter, with its windows as steps of a clock.
5. The composition of `HostStore` and `DaemonLifecycle`: two daemons that write
   one `shares.json`.
