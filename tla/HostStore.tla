----------------------------- MODULE HostStore -----------------------------
(***************************************************************************)
(* The daemon's shares across restarts (internal/host/store.go with Add,   *)
(* Remove and Close of internal/host/host.go and completed of              *)
(* internal/host/share.go): the live shares, the saved entries that could  *)
(* not be re-hosted yet, the goroutine that re-hosts them, and shares.json,*)
(* which every change rewrites from a snapshot, in a goroutine of its own. *)
(*                                                                         *)
(* h.mu covers the snapshot of save but not the file: any number of saves  *)
(* may be under way, all through the one name shares.json.tmp.             *)
(***************************************************************************)
EXTENDS Integers, FiniteSets

CONSTANTS
  Share,        \* share ids, each registered at most once
  Cap,          \* downloads a new share allows
  Worker,       \* bound: HTTP handlers, timers and sessions that save at once
  Restorer,     \* the goroutine of Restore and then retryPending
  MaxLives      \* bound: times the daemon is started

ASSUME StoreAssumption ==
  /\ Cap \in Nat \ {0} /\ MaxLives \in Nat
  /\ Restorer \notin Worker

Saved == [id : Share, left : 0 .. Cap]     \* one entry of shares.json
(* What a file is: absent, truncated and not yet written, not JSON, or the *)
(* JSON of some entries.                                                   *)
Json(S) == [text |-> "json", entries |-> S]
NoFile == [text |-> "none", entries |-> {}]
Empty == [text |-> "empty", entries |-> {}]
Torn == [text |-> "torn", entries |-> {}]
File == {NoFile, Empty, Torn} \cup {Json(S) : S \in SUBSET Saved}

Saver == Worker \cup {Restorer}
Ids(S) == {e.id : e \in S}

VARIABLES
  proc,     \* "up"; "stopping": Run's context is cancelled; "closed": Close
            \* emptied the map, the process still runs; "down"
  live,     \* ids in h.shares
  left,     \* Share.downloadsLeft of the shares in live and closing
  closing,  \* shares that Close took from the map, being stopped
  pending,  \* h.pending
  rpc,      \* the re-hosting goroutine: "off", "load", "restore", "retry",
            \* "publish": about to save, "saving", "wait"
  todo,     \* its entries not tried yet
  again,    \* its entries that failed for a transient reason
  saver,    \* the call of save of each goroutine
  tmp, file,\* shares.json.tmp and shares.json
  \* history
  born,     \* ids ever registered
  gone,     \* ids removed or dropped in this life
  owed,     \* ids of this daemon that were in the file at Close
  lone,     \* no other save was under way during the one that last
            \* replaced the file
  whole,    \* and its snapshot missed no entry being re-hosted, nor the
            \* shares that Close took
  early,    \* a save began before the file was loaded, in some life
  lives

memVars == <<live, left, closing, pending>>
restoreVars == <<rpc, todo, again>>
fileVars == <<tmp, file>>
histVars == <<born, gone, owed, lone, whole, early, lives>>
vars == <<proc, memVars, restoreVars, saver, fileVars, histVars>>

Running == proc # "down"
(* How far a call of save is; where the file is that it has open; history: *)
(* no other is under way since its snapshot, which missed nothing.         *)
Save(pc, snap, alone, all) ==
  [pc |-> pc, snap |-> snap, at |-> "gone", alone |-> alone, all |-> all]
NoSave == Save("idle", {}, TRUE, TRUE)

(* Mutant: what could not be re-hosted yet is left out. *)
SnapshotLive == {[id |-> s, left |-> left[s]] : s \in live}
(* What save writes: every live share and every pending entry. *)
Snapshot == {[id |-> s, left |-> left[s]] : s \in live} \cup pending

(* Goroutine p calls save. *)
Call(p) == saver' = [saver EXCEPT ![p] = Save("snapshot", {}, TRUE, TRUE)]

(* The process is gone, and its memory with it; the files stay. *)
Die ==
  /\ proc' = "down"
  /\ live' = {} /\ left' = [s \in Share |-> 0] /\ closing' = {} /\ pending' = {}
  /\ rpc' = "off" /\ todo' = {} /\ again' = {}
  /\ saver' = [p \in Saver |-> NoSave]
  /\ gone' = {}

Init ==
  /\ proc = "down" /\ live = {} /\ left = [s \in Share |-> 0]
  /\ closing = {} /\ pending = {}
  /\ rpc = "off" /\ todo = {} /\ again = {}
  /\ saver = [p \in Saver |-> NoSave]
  /\ tmp = NoFile /\ file = NoFile
  /\ born = {} /\ gone = {} /\ owed = {} /\ lone = TRUE /\ whole = TRUE
  /\ early = FALSE /\ lives = 0
-----------------------------------------------------------------------------
(* The daemon's life *)

(* host.New, and Run starts the goroutine of Restore. *)
Start ==
  /\ proc = "down" /\ lives < MaxLives
  /\ proc' = "up" /\ rpc' = "load" /\ lives' = lives + 1
  /\ owed' = {}
  /\ UNCHANGED <<memVars, todo, again, saver, fileVars, born, gone, lone, whole,
                 early>>

(* `beeline daemon stop`, restart or a signal: Run's context is cancelled. *)
Shutdown ==
  /\ proc = "up" /\ proc' = "stopping"
  /\ UNCHANGED <<memVars, restoreVars, saver, fileVars, histVars>>

(* Close takes every share out of the map; nothing is saved. *)
Close ==
  /\ proc = "stopping" /\ proc' = "closed"
  /\ closing' = live /\ live' = {}
  /\ owed' = (live \cup Ids(pending \cup todo \cup again)) \cap Ids(file.entries)
  /\ UNCHANGED <<left, pending, restoreVars, saver, fileVars, born, gone, lone,
                 whole, early, lives>>

(* Run returned: whatever still runs ends with the process. *)
Exit ==
  /\ proc = "closed"
  /\ Die
  /\ UNCHANGED <<fileVars, born, owed, lone, whole, early, lives>>

(* The process is killed at any point, between any two system calls. *)
Kill ==
  /\ Running
  /\ Die /\ owed' = {}
  /\ UNCHANGED <<fileVars, born, lone, whole, early, lives>>
-----------------------------------------------------------------------------
(* save, called by p *)

UnderWay(q) == saver[q].pc \in {"create", "write", "rename"}

(* The snapshot, under h.mu. *)
SaveSnapshot(p) ==
  /\ saver[p].pc = "snapshot"
  /\ saver' = [q \in Saver |->
       IF q = p
       THEN Save("create", Snapshot, \A o \in Saver \ {p} : ~UnderWay(o),
                 todo \cup again = {} /\ proc # "closed")
       ELSE IF UnderWay(q) THEN [saver[q] EXCEPT !.alone = FALSE] ELSE saver[q]]
  /\ early' = (early \/ rpc = "load")
  /\ UNCHANGED <<proc, memVars, restoreVars, fileVars, born, gone, owed, lone,
                 whole, lives>>

(* Mutant: shares.json itself is rewritten. *)
SaveCreateInPlace(p) ==
  /\ saver[p].pc = "create"
  /\ file' = Empty
  /\ saver' = [saver EXCEPT ![p].pc = "write", ![p].at = "file"]
  /\ UNCHANGED <<proc, memVars, restoreVars, tmp, histVars>>

(* os.WriteFile opens the temporary file: created, or truncated where it is*)
SaveCreate(p) ==
  /\ saver[p].pc = "create"
  /\ tmp' = Empty
  /\ saver' = [saver EXCEPT ![p].pc = "write", ![p].at = "tmp"]
  /\ UNCHANGED <<proc, memVars, restoreVars, file, histVars>>

(* Writing b, from offset 0, to a file that holds c: what a longer c leaves*)
(* behind b makes it unreadable.                                           *)
Overwritten(c, b) == IF c \in {Empty, Json(b)} THEN {Json(b)} ELSE {Json(b), Torn}

(* Another save may have renamed the file p has open, or replaced it. *)
SaveWrite(p) ==
  /\ saver[p].pc = "write"
  /\ CASE saver[p].at = "tmp"  -> tmp' \in Overwritten(tmp, saver[p].snap) /\ file' = file
       [] saver[p].at = "file" -> file' \in Overwritten(file, saver[p].snap) /\ tmp' = tmp
       [] saver[p].at = "gone" -> UNCHANGED fileVars
  /\ saver' = [saver EXCEPT ![p].pc = "rename"]
  /\ UNCHANGED <<proc, memVars, restoreVars, histVars>>

Renamed(at) == CASE at = "tmp" -> "file" [] at = "file" -> "gone" [] at = "gone" -> "gone"

(* os.Rename; it fails if another save's rename came first. *)
SaveRename(p) ==
  /\ saver[p].pc = "rename"
  /\ IF tmp # NoFile
     THEN /\ file' = tmp /\ tmp' = NoFile
          /\ saver' = [q \in Saver |-> IF q = p THEN NoSave
                                       ELSE [saver[q] EXCEPT !.at = Renamed(@)]]
     ELSE /\ saver' = [saver EXCEPT ![p] = NoSave]
          /\ UNCHANGED fileVars
  /\ lone' = saver[p].alone /\ whole' = saver[p].all
  /\ UNCHANGED <<proc, memVars, restoreVars, born, gone, owed, early, lives>>
-----------------------------------------------------------------------------
(* Handlers, timers and sessions *)

(* Add, after newShare has registered the share and opened signaling. *)
Add(p) ==
  /\ Running /\ p \in Worker /\ saver[p].pc = "idle"
  /\ \E s \in Share \ born :
       /\ live' = live \cup {s} /\ left' = [left EXCEPT ![s] = Cap]
       /\ born' = born \cup {s}
  /\ Call(p)
  /\ UNCHANGED <<proc, closing, pending, restoreVars, fileVars, gone, owed, lone,
                 whole, early, lives>>

(* Remove: revoked, expired, exhausted or replaced.  A pending share is not*)
(* in the map, so removing it changes nothing.                             *)
Remove(p) ==
  /\ Running /\ p \in Worker /\ saver[p].pc = "idle"
  /\ \E s \in live : /\ live' = live \ {s} /\ gone' = gone \cup {s}
                      /\ left' = [left EXCEPT ![s] = 0]
  /\ Call(p)
  /\ UNCHANGED <<proc, closing, pending, restoreVars, fileVars, born, owed,
                 lone, whole, early, lives>>

(* Mutant: completed counts the download and does not save. *)
CompletedUnsaved(p) ==
  /\ Running /\ p \in Worker /\ saver[p].pc = "idle"
  /\ \E s \in live \cup closing :
       left' = [left EXCEPT ![s] = IF @ > 0 THEN @ - 1 ELSE @]
  /\ UNCHANGED <<proc, live, closing, pending, restoreVars, saver, fileVars, histVars>>

(* completed: a session has sent DONE, perhaps of a share that was removed *)
(* meanwhile, whose count nobody reads.  (At 0 it also arms the timer that *)
(* calls Remove.)                                                          *)
Completed(p) ==
  /\ Running /\ p \in Worker /\ saver[p].pc = "idle"
  /\ \/ \E s \in live \cup closing :
          left' = [left EXCEPT ![s] = IF @ > 0 THEN @ - 1 ELSE @]
     \/ gone # {} /\ UNCHANGED left
  /\ Call(p)
  /\ UNCHANGED <<proc, live, closing, pending, restoreVars, fileVars, histVars>>
-----------------------------------------------------------------------------
(* Restore, then retryPending *)

(* loadSaved.  A file that does not parse ends Restore. *)
Load ==
  /\ Running /\ rpc = "load"
  /\ todo' = file.entries
  /\ rpc' = IF file.entries = {} THEN "off" ELSE "restore"
  /\ UNCHANGED <<proc, memVars, again, saver, fileVars, histVars>>

(* Dropped: expired, its path gone or no download left (Restore only), or  *)
(* the server says not-found, gone or unauthorized.                        *)
Drop ==
  /\ rpc \in {"restore", "retry"}
  /\ \E e \in todo : todo' = todo \ {e} /\ gone' = gone \cup {e.id}
  /\ UNCHANGED <<proc, memVars, rpc, again, saver, fileVars, born, owed, lone,
                 whole, early, lives>>

(* Re-hosted: back in the map with what it had left. *)
Resume ==
  /\ rpc \in {"restore", "retry"}
  /\ \E e \in todo :
       /\ rpc = "restore" => e.left > 0
       /\ todo' = todo \ {e}
       /\ live' = live \cup {e.id} /\ left' = [left EXCEPT ![e.id] = e.left]
  /\ UNCHANGED <<proc, closing, pending, rpc, again, saver, fileVars, histVars>>

(* A transient failure; after Shutdown, the cancelled context. *)
Transient ==
  /\ rpc \in {"restore", "retry"}
  /\ \E e \in todo :
       /\ rpc = "restore" => e.left > 0
       /\ todo' = todo \ {e} /\ again' = again \cup {e}
  /\ UNCHANGED <<proc, memVars, rpc, saver, fileVars, histVars>>

(* All were tried: what failed goes to h.pending. *)
Publish ==
  /\ rpc \in {"restore", "retry"} /\ todo = {}
  /\ pending' = again /\ again' = {}
  /\ rpc' = "publish"
  /\ UNCHANGED <<proc, live, left, closing, todo, saver, fileVars, histVars>>

SaveRestored ==
  /\ rpc = "publish" /\ rpc' = "saving"
  /\ Call(Restorer)
  /\ UNCHANGED <<proc, memVars, todo, again, fileVars, histVars>>

(* Mutant: no retry if some share is live. *)
SavedRestoredNoRetry ==
  /\ rpc = "saving" /\ saver[Restorer].pc = "idle"
  /\ rpc' = IF pending = {} \/ live # {} THEN "off" ELSE "wait"
  /\ UNCHANGED <<proc, memVars, todo, again, saver, fileVars, histVars>>

(* After its save the goroutine goes on as long as something is pending. *)
SavedRestored ==
  /\ rpc = "saving" /\ saver[Restorer].pc = "idle"
  /\ rpc' = IF pending = {} THEN "off" ELSE "wait"
  /\ UNCHANGED <<proc, memVars, todo, again, saver, fileVars, histVars>>

(* Mutant: the pending entries are tried but stay pending. *)
RetryKeeping ==
  /\ rpc = "wait" /\ rpc' = "retry"
  /\ todo' = pending /\ pending' = pending
  /\ UNCHANGED <<proc, live, left, closing, again, saver, fileVars, histVars>>

(* The timer fires: the entries leave h.pending while they are tried. *)
Retry ==
  /\ rpc = "wait" /\ rpc' = "retry"
  /\ todo' = pending /\ pending' = {}
  /\ UNCHANGED <<proc, live, left, closing, again, saver, fileVars, histVars>>

(* The context is cancelled first. *)
RetryEnds ==
  /\ rpc = "wait" /\ proc \in {"stopping", "closed"}
  /\ rpc' = "off"
  /\ UNCHANGED <<proc, memVars, todo, again, saver, fileVars, histVars>>
-----------------------------------------------------------------------------
LifeNext == Start \/ Shutdown \/ Close \/ Exit \/ Kill
SaveNext ==
  \E p \in Saver : SaveSnapshot(p) \/ SaveCreate(p) \/ SaveWrite(p) \/ SaveRename(p)
WorkNext == \E p \in Worker : Add(p) \/ Remove(p) \/ Completed(p)
RestoreNext ==
  \/ Load \/ Drop \/ Resume \/ Transient \/ Publish \/ SaveRestored
  \/ SavedRestored \/ Retry \/ RetryEnds
Next == LifeNext \/ SaveNext \/ WorkNext \/ RestoreNext

Spec == Init /\ [][Next]_vars
-----------------------------------------------------------------------------
(* Properties *)

TypeOK ==
  /\ proc \in {"up", "stopping", "closed", "down"}
  /\ live \subseteq Share /\ closing \subseteq Share
  /\ left \in [Share -> 0 .. Cap]
  /\ pending \subseteq Saved /\ todo \subseteq Saved /\ again \subseteq Saved
  /\ rpc \in {"off", "load", "restore", "retry", "publish", "saving", "wait"}
  /\ saver \in [Saver -> [pc : {"idle", "snapshot", "create", "write", "rename"},
                          snap : SUBSET Saved, at : {"tmp", "file", "gone"},
                          alone : BOOLEAN, all : BOOLEAN]]
  /\ tmp \in File /\ file \in File
  /\ born \subseteq Share /\ gone \subseteq Share /\ owed \subseteq Share
  /\ lone \in BOOLEAN /\ whole \in BOOLEAN /\ early \in BOOLEAN
  /\ lives \in 0 .. MaxLives

(* Each id once. *)
Distinct(S) == \A e, f \in S : e.id = f.id => e = f

(* A share is at one place: live, pending, or in the hands of the goroutine*)
(* that re-hosts it; and one that was removed or dropped is at none, so no *)
(* retry brings back a share the user revoked in this life of the daemon.  *)
OneHome ==
  ~early =>
    /\ Distinct(pending \cup todo \cup again)
    /\ Ids(pending) \cap Ids(todo \cup again) = {}
    /\ Ids(todo) \cap Ids(again) = {}
    /\ live \cap Ids(pending \cup todo \cup again) = {}
    /\ gone \cap (live \cup Ids(pending \cup todo \cup again)) = {}

(* As long as the daemon runs, something pending has a goroutine that will *)
(* try it again (store.go:148-150).                                        *)
PendingIsRetried == proc = "up" /\ pending # {} => rpc \in {"publish", "saving", "wait"}

(* Saves that do not overlap replace shares.json in one step: at any moment*)
(* a crash leaves a file that parses.                                      *)
FileReadable == lone => file \notin {Torn, Empty}

Saving == \E p \in Saver : saver[p].pc # "idle"
Settled == proc = "up" /\ rpc \in {"off", "wait"} /\ ~Saving

(* After a save that ran alone and looked when nothing was being re-hosted,*)
(* the file says what the daemon has in memory: the shares, the entries to *)
(* retry, and the downloads left of each; also after a restart.            *)
FileCurrent == Settled /\ lone /\ whole => file.entries = Snapshot

(* server.go:170-171, "Shares are not revoked: they are persisted and      *)
(* re-hosted by the next daemon": what was in the file when Close began is *)
(* there for the next daemon - unless the last save ran beside another, or *)
(* took its snapshot while entries were being re-hosted (store.go:110, 154)*)
(* or after Close had emptied the map (share.go:546).                      *)
RestartKeepsShares ==
  proc = "down" /\ lone /\ whole /\ ~early => owed \subseteq Ids(file.entries)
=============================================================================
