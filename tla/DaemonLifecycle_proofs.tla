----------------------- MODULE DaemonLifecycle_proofs -----------------------
(***************************************************************************)
(* The properties of DaemonLifecycle for any number of daemons and         *)
(* commands.  One inductive invariant, Inv, says where the one daemon that *)
(* runs is with the file and the port, as long as there is no overlap, and *)
(* that the port is always held by a process that is there; a second one,  *)
(* Taken, where a daemon is once a command has sent it its /shutdown.      *)
(***************************************************************************)
EXTENDS DaemonLifecycle, TLAPS

(* Where a daemon has the UDP port; where no socket file can be. *)
Bound == {"listen", "serving", "closing"}
Fileless == {"new", "listen", "closing", "unlink"}

Holder == port # None => pc[port] \in Bound \cup {"blocked"}
PortHeld == \A d \in Daemon : pc[d] \in Bound => port = d
NoFile == \A d \in Daemon : pc[d] \in Fileless => path = None
OneFile == \A d \in Daemon : Listening(d) => path = d

Calm == Alone /\ Unblocked /\ PortHeld /\ NoFile /\ OneFile
Inv == TypeOK /\ Holder /\ (~overlap => Calm)
-----------------------------------------------------------------------------
LEMMA InitTypeOK == ASSUME Init PROVE TypeOK
BY LifecycleAssumption DEF Init, TypeOK, Op, Places

LEMMA NextTypeOK == ASSUME TypeOK, [Next]_vars PROVE TypeOK'
<1> USE DEF TypeOK, Places, Op
<1>1. CASE UNCHANGED vars
  BY <1>1 DEF vars, clientVars
<1>2. ASSUME NEW d \in Daemon, Run(d) PROVE TypeOK'
  BY <1>2 DEF Run, Refused, Passes, RemoveStale, New, NewFails, Listen,
    ListenFails, Withdraw, StopListening, HostClosed, RemoveSocket, Over, Moves,
    released, clientVars
<1>3. ASSUME NEW d \in Daemon, Launch(d) \/ Interrupt(d) \/ Kill(d) PROVE TypeOK'
  BY <1>3 DEF Launch, Interrupt, Kill, Over, Moves, released, clientVars
<1>4. ASSUME NEW k \in Client, Command(k) PROVE TypeOK'
  <2>1. CASE NothingToRestart(k) \/ RestartUpdated(k) \/ StatusOk(k)
    BY <2>1 DEF NothingToRestart, RestartUpdated, StatusOk, Goes
  <2>2. CASE ShutdownFails(k) \/ StopTimeout(k) \/ StartReturns(k)
    BY <2>2 DEF ShutdownFails, StopTimeout, StartReturns, Goes
  <2>3. ASSUME NEW from \in {"status", "stopping"}, Stopped(k, from) PROVE TypeOK'
    BY <2>3 DEF Stopped, Goes
  <2>4. ASSUME NEW from \in {"status", "stopping"}, NEW d \in Daemon, Start(k, d, from)
        PROVE  TypeOK'
    BY <2>4 DEF Start, Goes, Moves
  <2>5. ASSUME NEW d \in Daemon, Shutdown(k, d) PROVE TypeOK'
    BY <2>5 DEF Shutdown
  <2> QED BY <1>4, <2>1, <2>2, <2>3, <2>4, <2>5 DEF Command
<1> QED BY <1>1, <1>2, <1>3, <1>4 DEF Next

(* Variables keep their types: the state that the model gives every daemon *)
(* and command is one the code has (internal/daemon).                      *)
THEOREM TypeCorrect == Spec => []TypeOK
BY InitTypeOK, NextTypeOK, PTL DEF Spec
-----------------------------------------------------------------------------
(* The port, whatever overlaps: it is lost with the process that holds it. *)

LEMMA NextHolder == ASSUME TypeOK, Holder, [Next]_vars PROVE Holder'
<1> USE DEF TypeOK, Holder, Bound
<1> USE LifecycleAssumption
<1>1. CASE UNCHANGED vars
  BY <1>1 DEF vars
<1>2. ASSUME NEW d \in Daemon, Refused(d) \/ Passes(d) \/ RemoveStale(d) \/ New(d)
      PROVE  Holder'
  BY <1>2 DEF Refused, Passes, RemoveStale, New, Over, Moves, released
<1>3. ASSUME NEW d \in Daemon, NewFails(d) \/ Listen(d) \/ ListenFails(d) \/ Withdraw(d)
      PROVE  Holder'
  BY <1>3 DEF NewFails, Listen, ListenFails, Withdraw, Over, Moves, released
<1>4. ASSUME NEW d \in Daemon, StopListening(d) \/ HostClosed(d) \/ RemoveSocket(d)
      PROVE  Holder'
  BY <1>4 DEF StopListening, HostClosed, RemoveSocket, Over, Moves, released, Listening
<1>5. ASSUME NEW d \in Daemon, Launch(d) \/ Interrupt(d) \/ Kill(d) PROVE Holder'
  BY <1>5 DEF Launch, Interrupt, Kill, Over, Moves, released
<1>6. ASSUME NEW k \in Client, Command(k) PROVE Holder'
  BY <1>6 DEF Command, NothingToRestart, RestartUpdated, StatusOk, ShutdownFails,
    StopTimeout, StartReturns, Stopped, Start, Shutdown, Moves
<1> QED BY <1>1, <1>2, <1>3, <1>4, <1>5, <1>6 DEF Next, Run
-----------------------------------------------------------------------------
(* A step of a daemon.  TypeOK, Holder and Calm hold before it, and no     *)
(* daemon asked in it while another was silent.                            *)

LEMMA InitCalm == ASSUME Init PROVE Holder /\ Calm
BY LifecycleAssumption DEF Init, Calm, Alone, Unblocked, PortHeld, NoFile,
  OneFile, Holder, Running, Silent, Listening, Bound, Fileless

(* The question that Run asks keeps the daemons apart.                     *)
LEMMA PassesCalm ==
  ASSUME TypeOK, Calm, NEW d \in Daemon, Passes(d), ~overlap'
  PROVE  Calm'
<1> USE DEF Calm, Passes, Moves, TypeOK, clientVars
<1>1. \A e \in Daemon \ {d} : ~Running(e)
  BY DEF Unheard, NoAnswer, Answers, OneFile, Running
<1>2. pc' = [pc EXCEPT ![d] = "remove"] /\ pc[d] = "check"
  OBVIOUS
<1>3. Alone'
  BY <1>1, <1>2 DEF Alone, Running, Silent, Listening
<1>4. Unblocked'
  BY <1>2 DEF Unblocked
<1>5. PortHeld' /\ NoFile' /\ OneFile'
  BY <1>2, LifecycleAssumption DEF PortHeld, NoFile, OneFile, Listening, Bound, Fileless
<1> QED BY <1>3, <1>4, <1>5

(* From there to its listener a daemon is alone: the file it removes is of *)
(* no daemon that runs, and the port is free.                              *)
LEMMA StartCalm ==
  ASSUME TypeOK, Holder, Calm, NEW d \in Daemon,
         RemoveStale(d) \/ New(d) \/ Listen(d)
  PROVE  Calm'
<1> USE DEF Calm, Moves, TypeOK, clientVars
<1> USE LifecycleAssumption
<1>0. Running(d) /\ \A e \in Daemon \ {d} : ~Running(e)
  BY DEF RemoveStale, New, Listen, Alone, Running, Silent
<1> USE DEF Alone, Unblocked, PortHeld, NoFile, OneFile, Running, Silent,
            Listening, Bound, Fileless
<1>1. CASE RemoveStale(d)
  BY <1>0, <1>1 DEF RemoveStale
<1>2. CASE New(d)
  BY <1>0, <1>2 DEF New, Holder
<1>3. CASE Listen(d)
  BY <1>0, <1>3 DEF Listen
<1> QED BY <1>1, <1>2, <1>3

(* And so it is on its way out.                                            *)
LEMMA EndCalm ==
  ASSUME TypeOK, Calm, NEW d \in Daemon, StopListening(d) \/ HostClosed(d)
  PROVE  Calm'
<1> USE DEF Calm, Moves, TypeOK, clientVars
<1> USE LifecycleAssumption
<1>0. Running(d) /\ \A e \in Daemon \ {d} : ~Running(e)
  BY DEF StopListening, HostClosed, Alone, Running, Silent, Listening
<1> USE DEF Alone, Unblocked, PortHeld, NoFile, OneFile, Running, Silent,
            Listening, Bound, Fileless, released
<1>1. CASE StopListening(d)
  BY <1>0, <1>1 DEF StopListening
<1>2. CASE HostClosed(d)
  BY <1>0, <1>2 DEF HostClosed
<1> QED BY <1>1, <1>2

(* No daemon finds a file in its way.                                      *)
LEMMA NeverBlocked ==
  ASSUME TypeOK, Calm, NEW d \in Daemon
  PROVE  ~ListenFails(d) /\ ~Withdraw(d)
BY DEF TypeOK, Calm, NoFile, Fileless, Unblocked, ListenFails, Withdraw, Moves

Leaves(d) == Refused(d) \/ NewFails(d) \/ Withdraw(d) \/ RemoveSocket(d) \/ Kill(d)

(* A process that ends leaves the others as they were; and if it was the   *)
(* last of an overlap, what it leaves is nobody's file and no port.        *)
LEMMA LeaveCalm ==
  ASSUME TypeOK, Inv, NEW d \in Daemon, Leaves(d), ~overlap'
  PROVE  Calm'
<1> USE DEF TypeOK
<1>1. /\ Over(d)
      /\ \/ path' = path
         \/ pc[d] = "unlink" /\ path' = None
  BY DEF Leaves, Refused, NewFails, Withdraw, RemoveSocket, Kill
<1>2. pc' = [pc EXCEPT ![d] = "exit"] /\ port' = released(d)
  BY <1>1 DEF Over
<1>3. CASE overlap
  <2>1. \A e \in Daemon \ {d} : ~Running(e)
    BY <1>1, <1>3 DEF Over
  <2>2. \A e \in Daemon : ~Running(e)'
    BY <1>2, <2>1 DEF Running, Silent, Listening
  <2>3. \A e \in Daemon : pc'[e] \notin Bound \cup Fileless \cup {"blocked"}
    BY <2>2 DEF Running, Silent, Listening, Bound, Fileless
  <2> QED BY <2>2, <2>3 DEF Calm, Alone, Unblocked, PortHeld, NoFile, OneFile,
            Running
<1>4. CASE ~overlap
  <2>1. Calm
    BY <1>4 DEF Inv
  <2>2. \A e \in Daemon : pc'[e] = IF e = d THEN "exit" ELSE pc[e]
    BY <1>2
  <2>3. pc[d] = "unlink" => \A e \in Daemon \ {d} : ~Running(e)
    BY <2>1 DEF Calm, Alone, Running, Silent
  <2>4. Alone' /\ Unblocked'
    BY <2>1, <2>2 DEF Calm, Alone, Unblocked, Running, Silent, Listening
  <2>5. PortHeld'
    BY <1>2, <2>1, <2>2 DEF Calm, PortHeld, released, Bound
  <2>6. NoFile' /\ OneFile'
    BY <1>1, <2>1, <2>2, <2>3 DEF Calm, NoFile, OneFile, Listening, Running, Fileless
  <2> QED BY <2>4, <2>5, <2>6 DEF Calm
<1> QED BY <1>3, <1>4

(* What happens at any time.                                               *)
LEMMA AnytimeCalm ==
  ASSUME TypeOK, Calm, NEW d \in Daemon, Launch(d) \/ Interrupt(d)
  PROVE  Calm'
<1> USE DEF Calm, Moves, TypeOK, clientVars
<1> USE LifecycleAssumption
<1> USE DEF Alone, Unblocked, PortHeld, NoFile, OneFile, Running, Silent,
            Listening, Bound, Fileless
<1>1. CASE Launch(d)
  BY <1>1 DEF Launch
<1>2. CASE Interrupt(d)
  BY <1>2 DEF Interrupt
<1> QED BY <1>1, <1>2

(* A command starts at most a process that has asked nothing yet, or       *)
(* cancels one.                                                            *)
LEMMA CommandCalm ==
  ASSUME TypeOK, Calm, NEW k \in Client, Command(k)
  PROVE  Calm'
<1> USE DEF Calm, Moves, TypeOK
<1>1. /\ \/ pc' = pc
         \/ \E d \in Daemon : pc[d] = "unborn" /\ pc' = [pc EXCEPT ![d] = "check"]
      /\ UNCHANGED <<path, port>>
  BY DEF Command, NothingToRestart, RestartUpdated, StatusOk, ShutdownFails,
    StopTimeout, StartReturns, Stopped, Start, Shutdown
<1> USE DEF Alone, Unblocked, PortHeld, NoFile, OneFile, Running, Silent,
            Listening, Bound, Fileless
<1>2. CASE pc' = pc
  BY <1>1, <1>2
<1>3. ASSUME NEW d \in Daemon, pc[d] = "unborn", pc' = [pc EXCEPT ![d] = "check"]
      PROVE  Calm'
  BY <1>1, <1>3, LifecycleAssumption
<1> QED BY <1>1, <1>2, <1>3

(* An overlap ends only with a process.                                    *)
LEMMA OverlapStays ==
  ASSUME TypeOK, [Next]_vars, ~overlap'
  PROVE  ~overlap \/ \E d \in Daemon : Leaves(d)
BY DEF TypeOK, Next, Run, Command, Leaves, Passes, RemoveStale, New, Listen,
  ListenFails, StopListening, HostClosed, Launch, Interrupt, NothingToRestart,
  RestartUpdated, StatusOk, ShutdownFails, StopTimeout, StartReturns, Stopped,
  Start, Shutdown, vars

LEMMA NextInv == ASSUME Inv, [Next]_vars PROVE Inv'
<1>1. TypeOK' /\ Holder'
  BY NextTypeOK, NextHolder DEF Inv
<1> SUFFICES ASSUME ~overlap' PROVE Calm'
  BY <1>1 DEF Inv
<1>2. CASE \E d \in Daemon : Leaves(d)
  BY <1>2, LeaveCalm DEF Inv
<1>3. CASE ~\E d \in Daemon : Leaves(d)
  <2>1. TypeOK /\ Holder /\ Calm
    BY <1>3, OverlapStays DEF Inv
  <2>2. ASSUME NEW d \in Daemon, Run(d) PROVE Calm'
    BY <1>3, <2>1, <2>2, PassesCalm, StartCalm, EndCalm, NeverBlocked DEF Run, Leaves
  <2>3. ASSUME NEW d \in Daemon, Launch(d) \/ Interrupt(d) \/ Kill(d) PROVE Calm'
    BY <1>3, <2>1, <2>3, AnytimeCalm DEF Leaves
  <2>4. CASE UNCHANGED vars
    BY <2>1, <2>4 DEF vars, Calm, Alone, Unblocked, PortHeld, NoFile, OneFile,
      Running, Silent, Listening
  <2> QED BY <2>1, <2>2, <2>3, <2>4, CommandCalm DEF Next
<1> QED BY <1>2, <1>3

LEMMA InvHolds == Spec => []Inv
<1>1. Init => Inv
  BY InitTypeOK, InitCalm DEF Inv
<1> QED BY <1>1, NextInv, PTL DEF Spec

(* A daemon is disturbed only if one asked while another was between its   *)
(* own question and its listener, or on its way out (server.go:84), and one *)
(* of those that ran at the time or since is still there.                  *)
THEOREM UndisturbedHolds == Spec => []Undisturbed
<1>1. Inv => Undisturbed
  BY DEF Inv, Calm, Undisturbed, Reached, OneFile, PortHeld, Bound, Listening
<1> QED BY <1>1, InvHolds, PTL

-----------------------------------------------------------------------------
(* Restarts, whatever overlaps *)

(* A daemon that took a command's /shutdown was listening then, and never  *)
(* listens a second time; the command that started the next one saw that   *)
(* it answers no more.                                                     *)
Early == {"unborn", "check", "remove", "new", "listen"}
Taken ==
  \A k \in Client : target[k] # None =>
    /\ pc[target[k]] \notin Early
    /\ cpc[k] = "starting" => ~Answers(target[k])

LEMMA DaemonTaken ==
  ASSUME TypeOK, Taken, NEW d \in Daemon,
         Run(d) \/ Launch(d) \/ Interrupt(d) \/ Kill(d)
  PROVE  Taken'
<1> SUFFICES ASSUME NEW k \in Client, target[k] # None
             PROVE  /\ target' = target /\ cpc' = cpc
                    /\ pc'[target[k]] \notin Early
                    /\ Answers(target[k])' => Answers(target[k])
  BY LifecycleAssumption DEF Taken, TypeOK, Run, Refused, Passes, RemoveStale,
    New, NewFails, Listen, ListenFails, Withdraw, StopListening, HostClosed,
    RemoveSocket, Launch, Interrupt, Kill, clientVars
<1> USE DEF Taken, TypeOK, Early, Answers, Listening, Moves, clientVars
<1>1. CASE Refused(d) \/ Passes(d) \/ Launch(d) \/ Interrupt(d) \/ Kill(d)
  BY <1>1 DEF Refused, Passes, Launch, Interrupt, Kill, Over
<1>2. CASE RemoveStale(d) \/ New(d) \/ NewFails(d) \/ Listen(d) \/ ListenFails(d)
  BY <1>2, LifecycleAssumption DEF RemoveStale, New, NewFails, Listen, ListenFails, Over
<1>3. CASE Withdraw(d)
  BY <1>3 DEF Withdraw, Over
<1>4. CASE StopListening(d) \/ HostClosed(d) \/ RemoveSocket(d)
  BY <1>4, LifecycleAssumption DEF StopListening, HostClosed, RemoveSocket, Over
<1> QED BY <1>1, <1>2, <1>3, <1>4 DEF Run

LEMMA CommandTaken ==
  ASSUME TypeOK, Taken, NEW k \in Client, Command(k)
  PROVE  Taken'
<1> USE DEF TypeOK, Taken, Early, Answers, Listening, Moves
<1> USE LifecycleAssumption
<1>1. CASE NothingToRestart(k) \/ RestartUpdated(k) \/ StatusOk(k)
  BY <1>1 DEF NothingToRestart, RestartUpdated, StatusOk, Goes
<1>2. CASE ShutdownFails(k) \/ StopTimeout(k) \/ StartReturns(k)
  BY <1>2 DEF ShutdownFails, StopTimeout, StartReturns, Goes
<1>3. ASSUME NEW from \in {"status", "stopping"}, Stopped(k, from) PROVE Taken'
  BY <1>3 DEF Stopped, Goes
<1>4. ASSUME NEW from \in {"status", "stopping"}, NEW d \in Daemon, Start(k, d, from)
      PROVE  Taken'
  <2>1. /\ pc[d] = "unborn" /\ pc' = [pc EXCEPT ![d] = "check"]
        /\ target' = target /\ path' = path
        /\ \A j \in Client \ {k} : cpc'[j] = cpc[j]
        /\ \A e \in Daemon : ~Answers(e)
    BY <1>4 DEF Start, Goes, NoAnswer
  <2> QED BY <2>1
<1>5. ASSUME NEW d \in Daemon, Shutdown(k, d) PROVE Taken'
  BY <1>5 DEF Shutdown
<1> QED BY <1>1, <1>2, <1>3, <1>4, <1>5 DEF Command

(* `daemon restart` and `update` report on the next daemon only when the   *)
(* one that took their /shutdown can answer no more (client.go, Stop).     *)
THEOREM RestartReplacesHolds == Spec => []RestartReplaces
<1>1. Init => Taken
  BY DEF Init, Taken
<1>2. TypeOK /\ Taken /\ [Next]_vars => Taken'
  <2>1. ASSUME Taken, UNCHANGED vars PROVE Taken'
    BY <2>1 DEF Taken, Answers, Listening, vars, clientVars
  <2> QED BY <2>1, DaemonTaken, CommandTaken DEF Next
<1>3. Taken => RestartReplaces
  BY DEF Taken, RestartReplaces
<1> QED BY <1>1, <1>2, <1>3, TypeCorrect, PTL DEF Spec
=============================================================================
