-------------------------- MODULE DaemonLifecycle --------------------------
(***************************************************************************)
(* The daemon processes and the one unix socket they share                 *)
(* (internal/daemon/client.go and server.go, cmd/beeline/main.go): `share` *)
(* starts a daemon if none answers, `daemon stop`, `daemon restart` and    *)
(* `update` stop it and start the next one, and Run tells a running daemon *)
(* from a leftover socket file by asking it for its status.  Nothing but   *)
(* that question keeps two daemons apart.                                  *)
(***************************************************************************)
EXTENDS FiniteSets

CONSTANTS
  Daemon,   \* processes of `beeline daemon`, each started at most once
  Client,   \* commands, each run once
  None

ASSUME LifecycleAssumption ==
  /\ IsFiniteSet(Daemon) /\ IsFiniteSet(Client)
  /\ None \notin Daemon

VARIABLES
  pc,     \* of a daemon in Run, see Places
  path,   \* the daemon that made the socket file, dead or alive; or None
  port,   \* the daemon that holds the configured UDP port, or None
  quit,   \* the daemons whose rctx is cancelled: /shutdown, or a signal
  overlap,\* history: a daemon asked while another was starting or ending,
          \* and since then there was always one that runs
  op,     \* what a command is
  cpc,    \* how far it is
  target  \* the daemon that took its /shutdown

vars == <<pc, path, port, quit, overlap, op, cpc, target>>
clientVars == <<op, cpc, target>>

Op == {"share", "stop", "restart", "update"}
(* A daemon runs through these in their order; "exit": the process is over.*)
(* "check": before its Status call; "remove": nobody answered; "new": the  *)
(* file is removed; "listen": host.New returned; "serving": it answers;    *)
(* "closing": its listener is closed; "unlink": host.Close returned;       *)
(* "blocked": Listen failed, and host.Close is under way.                  *)
Places == {"unborn", "check", "remove", "new", "listen", "serving", "closing",
           "unlink", "blocked", "exit"}
Listening(d) == pc[d] = "serving"
(* Past the check, and not answering on the socket. *)
Silent(d) == pc[d] \in {"remove", "new", "listen", "closing", "unlink", "blocked"}
Running(d) == Silent(d) \/ Listening(d)
Alive(d) == pc[d] \notin {"unborn", "exit"}
(* Those whose answer d cannot hear: an interrupted process hears none.    *)
Unheard(d) ==
  {e \in Daemon \ {d} : Silent(e) \/ (d \in quit /\ Listening(e))}

(* Who answers GET /status: the daemon whose listener the path leads to.   *)
Answers(d) == path = d /\ Listening(d)
NoAnswer == \A d \in Daemon : ~Answers(d)

Init ==
  /\ pc = [d \in Daemon |-> "unborn"] /\ path = None /\ port = None
  /\ quit = {} /\ overlap = FALSE
  /\ op \in [Client -> Op]
  /\ cpc = [k \in Client |-> IF op[k] = "update" THEN "ask" ELSE "status"]
  /\ target = [k \in Client |-> None]
-----------------------------------------------------------------------------
(* A daemon process: Run *)

Moves(d, from, to) == pc[d] = from /\ pc' = [pc EXCEPT ![d] = to]

(* Whoever holds a port loses it when its endpoint closes. *)
released(d) == IF port = d THEN None ELSE port

(* The process is over; an overlap is, when no daemon is left. *)
Over(d) ==
  /\ pc' = [pc EXCEPT ![d] = "exit"]
  /\ port' = released(d) /\ quit' = quit \ {d}
  /\ overlap' = (overlap /\ \E e \in Daemon \ {d} : Running(e))

(* `beeline daemon` in a terminal. *)
Launch(d) ==
  /\ Moves(d, "unborn", "check")
  /\ UNCHANGED <<path, port, quit, overlap, clientVars>>

Refused(d) ==
  /\ ~NoAnswer /\ d \notin quit
  /\ pc[d] = "check" /\ Over(d)
  /\ UNCHANGED <<path, clientVars>>

(* Mutant: Run does not ask whether a daemon answers. *)
PassesUnasked(d) ==
  /\ Moves(d, "check", "remove")
  /\ overlap' = (overlap \/ Unheard(d) # {})
  /\ UNCHANGED <<path, port, quit, clientVars>>
(* Nobody answers; or the process was interrupted, and Status returns the  *)
(* error of its context whoever is there.                                  *)
Passes(d) ==
  /\ NoAnswer \/ d \in quit
  /\ Moves(d, "check", "remove")
  /\ overlap' = (overlap \/ Unheard(d) # {})
  /\ UNCHANGED <<path, port, quit, clientVars>>

RemoveStale(d) ==
  /\ Moves(d, "remove", "new")
  /\ path' = None
  /\ UNCHANGED <<port, quit, overlap, clientVars>>

(* host.New binds the UDP port, or an ephemeral one if it is taken. *)
New(d) ==
  /\ Moves(d, "new", "listen")
  /\ port' = IF port = None THEN d ELSE port
  /\ UNCHANGED <<path, quit, overlap, clientVars>>

NewFails(d) ==
  /\ pc[d] = "new" /\ Over(d)
  /\ UNCHANGED <<path, clientVars>>

(* From here it answers; Restore, in HostStore, goes on beside it. *)
Listen(d) ==
  /\ path = None
  /\ Moves(d, "listen", "serving")
  /\ path' = d
  /\ UNCHANGED <<port, quit, overlap, clientVars>>

(* The path exists: h.Close. *)
ListenFails(d) ==
  /\ path # None
  /\ Moves(d, "listen", "blocked")
  /\ UNCHANGED <<path, port, quit, overlap, clientVars>>

(* Run returns without removing the file. *)
Withdraw(d) ==
  /\ pc[d] = "blocked" /\ Over(d)
  /\ UNCHANGED <<path, clientVars>>

(* srv.Shutdown closes the listener, and net.UnixListener unlinks its path,*)
(* whoever made the file that is there now.                                *)
StopListening(d) ==
  /\ d \in quit /\ Listening(d)
  /\ pc' = [pc EXCEPT ![d] = "closing"]
  /\ path' = None
  /\ UNCHANGED <<port, quit, overlap, clientVars>>

(* h.Close: every share was stopped, for up to 5 s each, then the endpoint.*)
HostClosed(d) ==
  /\ Moves(d, "closing", "unlink")
  /\ port' = released(d)
  /\ UNCHANGED <<path, quit, overlap, clientVars>>

(* os.Remove(cfg.Socket), again whoever made the file. *)
RemoveSocket(d) ==
  /\ pc[d] = "unlink" /\ Over(d)
  /\ path' = None
  /\ UNCHANGED clientVars

(* SIGINT or SIGTERM. *)
Interrupt(d) ==
  /\ Alive(d) /\ d \notin quit
  /\ quit' = quit \cup {d}
  /\ UNCHANGED <<pc, path, port, overlap, clientVars>>

(* A kill or a power failure: the socket file stays. *)
Kill(d) ==
  /\ Alive(d) /\ Over(d)
  /\ UNCHANGED <<path, clientVars>>
-----------------------------------------------------------------------------
(* A command *)

(* What a command was and whom it stopped is forgotten when it is over. *)
Goes(k, from, to) ==
  /\ cpc[k] = from /\ cpc' = [cpc EXCEPT ![k] = to]
  /\ op' = IF to = "over" THEN [op EXCEPT ![k] = "none"] ELSE op
  /\ target' = IF to = "over" THEN [target EXCEPT ![k] = None] ELSE target

(* cmdUpdate leaves it at the new binary if no daemon runs, and goes on as *)
(* a restart otherwise.                                                    *)
NothingToRestart(k) ==
  /\ NoAnswer
  /\ Goes(k, "ask", "over")
  /\ UNCHANGED <<pc, path, port, quit, overlap>>

RestartUpdated(k) ==
  /\ ~NoAnswer
  /\ cpc[k] = "ask" /\ cpc' = [cpc EXCEPT ![k] = "status"]
  /\ op' = [op EXCEPT ![k] = "restart"]
  /\ UNCHANGED <<pc, path, port, quit, overlap, target>>

(* The Status call of Ensure and of Stop. *)
StatusOk(k) ==
  /\ ~NoAnswer
  /\ Goes(k, "status", IF op[k] = "share" THEN "over" ELSE "shutdown")
  /\ UNCHANGED <<pc, path, port, quit, overlap>>

(* Start launches a process. *)
Start(k, d, from) ==
  /\ NoAnswer /\ op[k] # "stop"
  /\ Goes(k, from, "starting")
  /\ Moves(d, "unborn", "check")
  /\ UNCHANGED <<path, port, quit, overlap>>

(* Nobody answers Stop, or its poll any more. *)
Stopped(k, from) ==
  /\ NoAnswer /\ op[k] = "stop"
  /\ Goes(k, from, "over")
  /\ UNCHANGED <<pc, path, port, quit, overlap>>

(* Mutant: Stop does not wait for the socket to stop answering. *)
ShutdownHasty(k, d) ==
  /\ Answers(d)
  /\ \E e \in Daemon : Moves(e, "unborn", "check")
  /\ cpc[k] = "shutdown" /\ op[k] # "stop"
  /\ cpc' = [cpc EXCEPT ![k] = "starting"]
  /\ quit' = quit \cup {d}
  /\ target' = [target EXCEPT ![k] = d]
  /\ UNCHANGED <<op, path, port, overlap>>
(* POST /shutdown; the daemon cancels itself 100 ms after the reply. *)
Shutdown(k, d) ==
  /\ Answers(d)
  /\ cpc[k] = "shutdown" /\ cpc' = [cpc EXCEPT ![k] = "stopping"]
  /\ quit' = quit \cup {d}
  /\ target' = [target EXCEPT ![k] = d]
  /\ UNCHANGED <<op, pc, path, port, overlap>>

ShutdownFails(k) ==
  /\ NoAnswer
  /\ Goes(k, "shutdown", "over")
  /\ UNCHANGED <<pc, path, port, quit, overlap>>

(* "daemon did not stop within 5s" *)
StopTimeout(k) ==
  /\ ~NoAnswer
  /\ Goes(k, "stopping", "over")
  /\ UNCHANGED <<pc, path, port, quit, overlap>>

(* Start's poll is answered, by its process or another, and the command    *)
(* goes on to requests that change nothing here; or 5 s are over: host.New *)
(* alone may take longer.                                                  *)
StartReturns(k) ==
  /\ Goes(k, "starting", "over")
  /\ UNCHANGED <<pc, path, port, quit, overlap>>
-----------------------------------------------------------------------------
Run(d) ==
  \/ Refused(d) \/ Passes(d) \/ RemoveStale(d) \/ New(d) \/ NewFails(d)
  \/ Listen(d) \/ ListenFails(d) \/ Withdraw(d) \/ StopListening(d)
  \/ HostClosed(d) \/ RemoveSocket(d)
Command(k) ==
  \/ NothingToRestart(k) \/ RestartUpdated(k) \/ StatusOk(k) \/ ShutdownFails(k)
  \/ StopTimeout(k) \/ StartReturns(k)
  \/ \E from \in {"status", "stopping"} :
       Stopped(k, from) \/ \E d \in Daemon : Start(k, d, from)
  \/ \E d \in Daemon : Shutdown(k, d)
Next ==
  \/ \E d \in Daemon : Run(d) \/ Launch(d) \/ Interrupt(d) \/ Kill(d)
  \/ \E k \in Client : Command(k)

Spec == Init /\ [][Next]_vars
-----------------------------------------------------------------------------
(* Properties *)

TypeOK ==
  /\ pc \in [Daemon -> Places]
  /\ path \in Daemon \cup {None} /\ port \in Daemon \cup {None}
  /\ quit \subseteq Daemon /\ overlap \in BOOLEAN
  /\ op \in [Client -> Op \cup {"none"}]
  /\ cpc \in [Client -> {"ask", "status", "shutdown", "stopping", "starting", "over"}]
  /\ target \in [Client -> Daemon \cup {None}]

(* The parts of Undisturbed: at most one daemon runs; the one that listens *)
(* is the one the commands reach, at the configured port; none is kept     *)
(* from listening by the file that a killed one left.                      *)
Alone == \A d, e \in Daemon : Running(d) /\ Running(e) => d = e
Reached == \A d \in Daemon : Listening(d) => path = d /\ port = d
Unblocked == \A d \in Daemon : pc[d] # "blocked"

(* However commands, signals, kills and restarts interleave, a daemon is   *)
(* disturbed only if one asked whether anybody answers while another was   *)
(* between its own question and its listener, or on its way out            *)
(* (server.go:84): the removals of RemoveStale, StopListening and          *)
(* RemoveSocket, none of which looks whose file it is, take otherwise only *)
(* a file of its own or a dead one.  And when the daemons of an overlap are*)
(* gone, nothing they leave behind disturbs the next.                      *)
Undisturbed == ~overlap => Alone /\ Reached /\ Unblocked

(* `daemon restart` and `update` start a daemon, and take its answers for  *)
(* their report, only when the one that took their /shutdown can answer no *)
(* more, also when several of them run at once.                            *)
RestartReplaces ==
  \A k \in Client :
    cpc[k] = "starting" /\ target[k] # None => ~Answers(target[k])
=============================================================================
