-------------------------- MODULE HostStore_proofs --------------------------
(***************************************************************************)
(* The safety properties of HostStore for any number of shares, workers,   *)
(* downloads and lives of the daemon.                                      *)
(***************************************************************************)
EXTENDS HostStore, TLAPS

SaveRecord == [pc : {"idle", "snapshot", "create", "write", "rename"},
               snap : SUBSET Saved, at : {"tmp", "file", "gone"},
               alone : BOOLEAN, all : BOOLEAN]
Called == Save("snapshot", {}, TRUE, TRUE)
-----------------------------------------------------------------------------
(* Files and types *)

LEMMA JsonFile == \A S \in SUBSET Saved : Json(S) \in File /\ Json(S).entries = S /\ Json(S).text = "json"
BY DEF File, Json

LEMMA FileFacts ==
  /\ \A f \in File : f.entries \in SUBSET Saved
  /\ \A f \in File : f \in {NoFile, Empty, Torn} => f.entries = {}
  /\ NoFile \in File /\ Empty \in File /\ Torn \in File
  /\ \A S \in SUBSET Saved : Json(S) \notin {NoFile, Empty, Torn}
  /\ NoFile # Empty /\ NoFile # Torn
BY DEF File, Json, NoFile, Empty, Torn

LEMMA IdsType == \A S \in SUBSET Saved : Ids(S) \in SUBSET Share
BY DEF Ids, Saved

LEMMA SaverTypes == NoSave \in SaveRecord /\ Called \in SaveRecord
BY DEF NoSave, Called, Save, SaveRecord

LEMMA SnapshotType == ASSUME TypeOK PROVE Snapshot \in SUBSET Saved
<1>1. \A s \in live : [id |-> s, left |-> left[s]] \in Saved
  BY DEF TypeOK, Saved
<1> QED BY <1>1 DEF Snapshot, TypeOK

LEMMA OverwrittenFile ==
  ASSUME NEW c \in File, NEW b \in SUBSET Saved, NEW f \in Overwritten(c, b)
  PROVE  f \in File /\ (f = Json(b) \/ f = Torn) /\ (c = Empty => f = Json(b))
BY JsonFile, FileFacts DEF Overwritten

(* A call of save: p is about to take its snapshot. *)
LEMMA CallFacts ==
  ASSUME TypeOK, NEW p \in Saver, Call(p)
  PROVE  /\ saver' = [saver EXCEPT ![p] = Called]
         /\ saver' \in [Saver -> SaveRecord]
<1>1. saver' = [saver EXCEPT ![p] = Called]
  BY DEF Call, Called
<1> QED BY <1>1, SaverTypes DEF TypeOK, SaveRecord

LEMMA InitTypes == ASSUME Init PROVE TypeOK
<1>1. left \in [Share -> 0 .. Cap]
  BY StoreAssumption DEF Init
<1>2. saver \in [Saver -> SaveRecord]
  BY SaverTypes DEF Init
<1>3. proc = "down" /\ rpc = "off" /\ tmp = NoFile /\ file = NoFile /\ lone /\ whole /\ ~early /\ lives = 0
      /\ live = {} /\ closing = {} /\ pending = {} /\ todo = {} /\ again = {}
      /\ born = {} /\ gone = {} /\ owed = {}
  BY DEF Init
<1>4. lone \in BOOLEAN /\ whole \in BOOLEAN /\ early \in BOOLEAN
  BY DEF Init
<1> QED BY <1>1, <1>2, <1>3, <1>4, FileFacts, StoreAssumption DEF TypeOK, SaveRecord

LEMMA LifeTypes == ASSUME TypeOK, LifeNext PROVE TypeOK'
<1> USE StoreAssumption
<1> USE DEF TypeOK, memVars, restoreVars, fileVars, histVars
<1>1. CASE Start
  BY <1>1 DEF Start
<1>2. CASE Shutdown
  BY <1>2 DEF Shutdown
<1>3. CASE Close
  <2>1. Ids(file.entries) \subseteq Share
    BY FileFacts, IdsType
  <2> QED BY <1>3, <2>1 DEF Close
<1>4. CASE Exit \/ Kill
  <2>1. left' \in [Share -> 0 .. Cap] /\ saver' \in [Saver -> SaveRecord]
    BY <1>4, SaverTypes DEF Exit, Kill, Die
  <2> QED BY <1>4, <2>1 DEF Exit, Kill, Die, SaveRecord
<1> QED BY <1>1, <1>2, <1>3, <1>4 DEF LifeNext

LEMMA WorkTypes == ASSUME TypeOK, WorkNext PROVE TypeOK'
<1> USE StoreAssumption
<1> USE DEF TypeOK, memVars, restoreVars, fileVars, histVars
<1> SUFFICES ASSUME NEW p \in Worker, Add(p) \/ Remove(p) \/ Completed(p) PROVE TypeOK'
  BY DEF WorkNext
<1>1. p \in Saver /\ Call(p)
  BY DEF Saver, Add, Remove, Completed
<1>2. saver' \in [Saver -> SaveRecord]
  BY <1>1, CallFacts
<1>3. CASE Add(p)
  BY <1>2, <1>3 DEF Add, SaveRecord
<1>4. CASE Remove(p)
  BY <1>2, <1>4 DEF Remove, SaveRecord
<1>5. CASE Completed(p)
  BY <1>2, <1>5 DEF Completed, SaveRecord
<1> QED BY <1>3, <1>4, <1>5

LEMMA RestoreTypes == ASSUME TypeOK, RestoreNext PROVE TypeOK'
<1> USE StoreAssumption
<1> USE DEF TypeOK, memVars, restoreVars, fileVars, histVars
<1>1. CASE Load
  BY <1>1, FileFacts DEF Load
<1>2. CASE Drop
  BY <1>2 DEF Drop, Saved
<1>3. CASE Resume
  BY <1>3 DEF Resume, Saved
<1>4. CASE Transient \/ Publish
  BY <1>4 DEF Transient, Publish
<1>5. CASE SaveRestored
  <2>1. saver' \in [Saver -> SaveRecord]
    BY <1>5, CallFacts DEF SaveRestored, Saver
  <2> QED BY <1>5, <2>1 DEF SaveRestored, SaveRecord
<1>6. CASE SavedRestored \/ Retry \/ RetryEnds
  BY <1>6 DEF SavedRestored, Retry, RetryEnds
<1> QED BY <1>1, <1>2, <1>3, <1>4, <1>5, <1>6 DEF RestoreNext
-----------------------------------------------------------------------------
(* What the steps of save do *)

LEMMA SnapshotStep ==
  ASSUME TypeOK, NEW p \in Saver, SaveSnapshot(p)
  PROVE  /\ saver' \in [Saver -> SaveRecord]
         /\ saver[p].pc = "snapshot" /\ saver'[p].pc = "create" /\ saver'[p].snap = Snapshot
         /\ saver'[p].at = "gone"
         /\ saver'[p].alone => \A q \in Saver \ {p} : ~UnderWay(q)
         /\ saver'[p].all => todo \cup again = {} /\ proc # "closed"
         /\ \A q \in Saver \ {p} :
              /\ saver'[q].pc = saver[q].pc /\ saver'[q].snap = saver[q].snap
              /\ saver'[q].at = saver[q].at /\ saver'[q].all = saver[q].all
              /\ saver'[q].alone => saver[q].alone /\ ~UnderWay(q)
<1> DEFINE a == \A o \in Saver \ {p} : ~UnderWay(o)
           w == todo \cup again = {} /\ proc # "closed"
           R == Save("create", Snapshot, a, w)
           other(q) == IF UnderWay(q) THEN [saver[q] EXCEPT !.alone = FALSE] ELSE saver[q]
<1>1. saver' = [q \in Saver |-> IF q = p THEN R ELSE other(q)] /\ saver[p].pc = "snapshot"
  BY DEF SaveSnapshot
<1>2. a \in BOOLEAN /\ w \in BOOLEAN
  OBVIOUS
<1>3. R \in SaveRecord /\ R.pc = "create" /\ R.snap = Snapshot /\ R.at = "gone" /\ R.alone = a /\ R.all = w
  <2> HIDE DEF a, w
  <2> QED BY <1>2, SnapshotType DEF Save, SaveRecord
<1>4. ASSUME NEW q \in Saver
      PROVE  /\ other(q) \in SaveRecord
             /\ other(q).pc = saver[q].pc /\ other(q).snap = saver[q].snap
             /\ other(q).at = saver[q].at /\ other(q).all = saver[q].all
             /\ other(q).alone => saver[q].alone /\ ~UnderWay(q)
  <2>1. saver[q] \in SaveRecord
    BY DEF TypeOK, SaveRecord
  <2> QED BY <2>1 DEF SaveRecord
<1> HIDE DEF R, other
<1> QED BY <1>1, <1>3, <1>4

(* The steps between it and the end of save. *)
LEMMA CreateStep ==
  ASSUME TypeOK, NEW p \in Saver, SaveCreate(p)
  PROVE  /\ saver' \in [Saver -> SaveRecord]
         /\ saver[p].pc = "create" /\ saver'[p].pc = "write" /\ saver'[p].at = "tmp"
         /\ saver'[p].snap = saver[p].snap /\ saver'[p].all = saver[p].all
         /\ saver'[p].alone = saver[p].alone
         /\ \A q \in Saver \ {p} : saver'[q] = saver[q]
         /\ tmp' = Empty /\ file' = file
<1>1. saver[p] \in SaveRecord
  BY DEF TypeOK, SaveRecord
<1>2. saver' = [saver EXCEPT ![p] = [saver[p] EXCEPT !.pc = "write", !.at = "tmp"]]
  BY DEF SaveCreate, TypeOK
<1> QED BY <1>1, <1>2 DEF TypeOK, SaveCreate, SaveRecord

LEMMA WriteStep ==
  ASSUME TypeOK, NEW p \in Saver, SaveWrite(p)
  PROVE  /\ saver' \in [Saver -> SaveRecord]
         /\ saver[p].pc = "write" /\ saver'[p].pc = "rename" /\ saver'[p].at = saver[p].at
         /\ saver'[p].snap = saver[p].snap /\ saver'[p].all = saver[p].all
         /\ saver'[p].alone = saver[p].alone
         /\ \A q \in Saver \ {p} : saver'[q] = saver[q]
         /\ \/ saver[p].at = "tmp" /\ tmp' \in Overwritten(tmp, saver[p].snap) /\ file' = file
            \/ saver[p].at = "file" /\ file' \in Overwritten(file, saver[p].snap) /\ tmp' = tmp
            \/ saver[p].at = "gone" /\ tmp' = tmp /\ file' = file
         /\ saver[p].snap \in SUBSET Saved
<1>1. saver[p] \in SaveRecord
  BY DEF TypeOK, SaveRecord
<1>2. saver' = [saver EXCEPT ![p] = [saver[p] EXCEPT !.pc = "rename"]]
  BY DEF SaveWrite, TypeOK
<1>3. \/ saver[p].at = "tmp" /\ tmp' \in Overwritten(tmp, saver[p].snap) /\ file' = file
      \/ saver[p].at = "file" /\ file' \in Overwritten(file, saver[p].snap) /\ tmp' = tmp
      \/ saver[p].at = "gone" /\ tmp' = tmp /\ file' = file
  BY <1>1 DEF SaveWrite, SaveRecord, fileVars
<1>4. saver[p].pc = "write"
  BY DEF SaveWrite
<1> QED BY <1>1, <1>2, <1>3, <1>4 DEF TypeOK, SaveRecord

LEMMA RenameStep ==
  ASSUME TypeOK, NEW p \in Saver, SaveRename(p)
  PROVE  /\ saver' \in [Saver -> SaveRecord]
         /\ saver[p].pc = "rename" /\ saver'[p] = NoSave
         /\ \A q \in Saver \ {p} :
              /\ saver'[q].pc = saver[q].pc /\ saver'[q].snap = saver[q].snap
              /\ saver'[q].all = saver[q].all /\ saver'[q].alone = saver[q].alone
              /\ saver'[q].at = saver[q].at \/ saver'[q].at = Renamed(saver[q].at)
         /\ \/ tmp # NoFile /\ file' = tmp /\ tmp' = NoFile
            \/ tmp = NoFile /\ file' = file /\ tmp' = tmp
         /\ lone' = saver[p].alone /\ whole' = saver[p].all
<1>1. \A q \in Saver : saver[q] \in SaveRecord
  BY DEF TypeOK, SaveRecord
<1> DEFINE other(q) == [saver[q] EXCEPT !.at = Renamed(@)]
<1>2. ASSUME NEW q \in Saver
      PROVE  /\ other(q) \in SaveRecord
             /\ other(q).pc = saver[q].pc /\ other(q).snap = saver[q].snap
             /\ other(q).all = saver[q].all /\ other(q).alone = saver[q].alone
             /\ other(q).at = Renamed(saver[q].at)
  BY <1>1 DEF SaveRecord, Renamed
<1>3. \/ /\ tmp # NoFile /\ file' = tmp /\ tmp' = NoFile
         /\ saver' = [q \in Saver |-> IF q = p THEN NoSave ELSE other(q)]
      \/ tmp = NoFile /\ saver' = [saver EXCEPT ![p] = NoSave] /\ file' = file /\ tmp' = tmp
  BY DEF SaveRename, fileVars
<1>4. saver[p].pc = "rename" /\ lone' = saver[p].alone /\ whole' = saver[p].all
  BY DEF SaveRename
<1>5. saver \in [Saver -> SaveRecord]
  BY DEF TypeOK, SaveRecord
<1> HIDE DEF other
<1>6. CASE tmp # NoFile
  BY <1>2, <1>3, <1>4, <1>6, SaverTypes
<1>7. CASE tmp = NoFile
  BY <1>3, <1>4, <1>5, <1>7, SaverTypes
<1> QED BY <1>6, <1>7

LEMMA SaveTypes == ASSUME TypeOK, NEW p \in Saver,
                          SaveSnapshot(p) \/ SaveCreate(p) \/ SaveWrite(p) \/ SaveRename(p)
                   PROVE  TypeOK'
<1> USE DEF memVars, restoreVars, fileVars, histVars
<1>1. CASE SaveSnapshot(p)
  <2>1. saver' \in [Saver -> SaveRecord]
    BY <1>1, SnapshotStep
  <2>2. early' \in BOOLEAN
    BY <1>1 DEF SaveSnapshot, TypeOK
  <2> QED BY <1>1, <2>1, <2>2 DEF SaveSnapshot, TypeOK, SaveRecord
<1>2. CASE SaveCreate(p)
  <2>1. saver' \in [Saver -> SaveRecord] /\ tmp' \in File
    BY <1>2, CreateStep, FileFacts
  <2> QED BY <1>2, <2>1 DEF SaveCreate, TypeOK, SaveRecord
<1>3. CASE SaveWrite(p)
  <2>1. saver' \in [Saver -> SaveRecord] /\ tmp' \in File /\ file' \in File
    BY <1>3, WriteStep, OverwrittenFile DEF TypeOK
  <2> QED BY <1>3, <2>1 DEF SaveWrite, TypeOK, SaveRecord
<1>4. CASE SaveRename(p)
  <2>1. saver' \in [Saver -> SaveRecord] /\ tmp' \in File /\ file' \in File
    BY <1>4, RenameStep, FileFacts DEF TypeOK
  <2>2. lone' \in BOOLEAN /\ whole' \in BOOLEAN
    BY <1>4 DEF SaveRename, TypeOK
  <2> QED BY <1>4, <2>1, <2>2 DEF SaveRename, TypeOK, SaveRecord
<1> QED BY <1>1, <1>2, <1>3, <1>4

LEMMA NextTypes == ASSUME TypeOK, [Next]_vars PROVE TypeOK'
<1>1. CASE UNCHANGED vars
  BY <1>1 DEF TypeOK, vars, memVars, restoreVars, fileVars, histVars
<1> QED BY <1>1, LifeTypes, WorkTypes, RestoreTypes, SaveTypes DEF Next, SaveNext

(* Every state the daemon reaches has its types. *)
THEOREM TypeCorrect == Spec => []TypeOK
BY InitTypes, NextTypes, PTL DEF Spec
-----------------------------------------------------------------------------
(* The inductive invariant *)

(* A daemon that is down holds nothing; the goroutine that re-hosts saves  *)
(* only at "saving", and has entries in its hands only while it tries them,*)
(* when nothing is pending.                                                *)
Rehosting ==
  /\ proc = "down" => /\ live = {} /\ pending = {} /\ gone = {} /\ rpc = "off"
                      /\ \A p \in Saver : saver[p] = NoSave
  /\ saver[Restorer].pc # "idle" => rpc = "saving"
  /\ rpc \notin {"restore", "retry"} => todo = {} /\ again = {}
  /\ rpc \in {"load", "restore", "retry"} => pending = {}
  /\ PendingIsRetried

(* A save that runs alone has the temporary file for itself: nobody writes *)
(* what its rename will publish, nor, afterwards, what it has published.   *)
OwnFile ==
  /\ \A p, q \in Saver : p # q /\ UnderWay(p) /\ UnderWay(q) => ~saver[p].alone
  /\ \A p \in Saver : saver[p].pc \notin {"write", "rename"} => saver[p].at = "gone"
  /\ \A p \in Saver : saver[p].pc = "write" /\ saver[p].alone => saver[p].at = "tmp" /\ tmp = Empty
  /\ \A p \in Saver : saver[p].pc = "rename" /\ saver[p].alone => tmp = Json(saver[p].snap)
  /\ lone => \A p \in Saver : saver[p].at # "file"
  /\ FileReadable

(* A save is about to take its snapshot, or will be before anything is     *)
(* settled: until then the file may lag behind.                            *)
Due == \E p \in Saver : saver[p].pc = "snapshot"
InHand == rpc \in {"restore", "retry", "publish"}
Lagging == proc # "up" \/ Due \/ InHand

(* The file, or the snapshot on its way to it, is what memory holds.       *)
Current ==
  /\ ~Lagging /\ lone /\ whole /\ (\A p \in Saver : ~UnderWay(p)) =>
       file.entries = Snapshot \/ (rpc = "load" /\ Snapshot = {})
  /\ \A p \in Saver :
       ~Lagging /\ UnderWay(p) /\ saver[p].alone /\ saver[p].all => saver[p].snap = Snapshot
-----------------------------------------------------------------------------
(* A worker calls save and is not the goroutine that re-hosts. *)
LEMMA WorkStep ==
  ASSUME TypeOK, WorkNext
  PROVE  \E p \in Worker :
           /\ p \in Saver /\ p # Restorer /\ proc # "down" /\ saver[p].pc = "idle"
           /\ saver' = [saver EXCEPT ![p] = Called] /\ saver'[p] = Called
           /\ UNCHANGED <<proc, pending, rpc, todo, again, tmp, file, lone, whole, early, owed>>
<1>1. PICK p \in Worker : Add(p) \/ Remove(p) \/ Completed(p)
  BY DEF WorkNext
<1>2. p \in Saver /\ p # Restorer
  BY StoreAssumption DEF Saver
<1>3. proc # "down" /\ saver[p].pc = "idle" /\ Call(p)
      /\ UNCHANGED <<proc, pending, rpc, todo, again, tmp, file, lone, whole, early, owed>>
  BY <1>1 DEF Add, Remove, Completed, Running, restoreVars, fileVars, histVars
<1>4. saver' = [saver EXCEPT ![p] = Called]
  BY <1>2, <1>3, CallFacts
<1>5. saver'[p] = Called
  BY <1>2, <1>4 DEF TypeOK
<1> QED BY <1>2, <1>3, <1>4, <1>5

LEMMA RehostingInit == ASSUME Init PROVE Rehosting
BY DEF Init, Rehosting, NoSave, Save, PendingIsRetried, Saver

LEMMA RehostingNext == ASSUME TypeOK, Rehosting, [Next]_vars PROVE Rehosting'
<1> USE DEF Rehosting, PendingIsRetried
<1>0. Restorer \in Saver /\ NoSave.pc = "idle" /\ Called.pc = "snapshot"
  BY DEF Saver, NoSave, Called, Save
<1>1. CASE UNCHANGED vars
  BY <1>1 DEF vars, memVars, restoreVars, fileVars, histVars
<1>2. CASE Start
  BY <1>0, <1>2 DEF Start, memVars
<1>3. CASE Shutdown \/ Close
  BY <1>3 DEF Shutdown, Close, memVars, restoreVars
<1>4. CASE Exit \/ Kill
  BY <1>0, <1>4 DEF Exit, Kill, Die
<1>5. CASE WorkNext
  <2>1. PICK p \in Worker : /\ p \in Saver /\ p # Restorer /\ proc # "down"
                            /\ saver' = [saver EXCEPT ![p] = Called]
                            /\ UNCHANGED <<proc, pending, rpc, todo, again>>
    BY <1>5, WorkStep
  <2>2. saver'[Restorer] = saver[Restorer]
    BY <2>1, <1>0 DEF TypeOK
  <2> QED BY <2>1, <2>2
<1>6. ASSUME NEW p \in Saver, SaveSnapshot(p) \/ SaveCreate(p) \/ SaveWrite(p) \/ SaveRename(p)
      PROVE  Rehosting'
  <2>1. saver[p].pc # "idle" /\ UNCHANGED <<proc, live, pending, rpc, todo, again, gone>>
    BY <1>6 DEF SaveSnapshot, SaveCreate, SaveWrite, SaveRename, memVars, restoreVars, histVars
  <2>2. proc # "down"
    BY <2>1, <1>0
  <2>3. saver'[Restorer].pc # "idle" => saver[Restorer].pc # "idle"
    BY <1>6, <1>0, SnapshotStep, CreateStep, WriteStep, RenameStep, <2>1
  <2> QED BY <2>1, <2>2, <2>3
<1>7. CASE RestoreNext
  <2>1. proc' = proc /\ proc # "down"
    BY <1>7 DEF RestoreNext, Load, Drop, Resume, Transient, Publish, SaveRestored, SavedRestored,
                Retry, RetryEnds
  <2>2. CASE SaveRestored
    BY <2>1, <2>2 DEF SaveRestored, memVars
  <2>3. CASE Load \/ Drop \/ Resume \/ Transient \/ Publish
    BY <2>1, <2>3 DEF Load, Drop, Resume, Transient, Publish, memVars
  <2>4. CASE SavedRestored \/ Retry \/ RetryEnds
    BY <2>1, <2>4 DEF SavedRestored, Retry, RetryEnds, memVars
  <2> QED BY <1>7, <2>2, <2>3, <2>4 DEF RestoreNext
<1> QED BY <1>1, <1>2, <1>3, <1>4, <1>5, <1>6, <1>7 DEF Next, LifeNext, SaveNext
-----------------------------------------------------------------------------
LEMMA OwnFileInit == ASSUME Init PROVE OwnFile
<1>1. \A p \in Saver : saver[p] = NoSave
  BY DEF Init
<1>2. NoSave.pc = "idle" /\ NoSave.at = "gone"
  BY DEF NoSave, Save
<1> QED BY <1>1, <1>2, FileFacts DEF Init, OwnFile, UnderWay, FileReadable

(* What the steps outside save do to the saves and the files. *)
LEMMA OutsideSave ==
  ASSUME TypeOK, Rehosting, UNCHANGED vars \/ LifeNext \/ WorkNext \/ RestoreNext
  PROVE  /\ tmp' = tmp /\ file' = file /\ lone' = lone /\ whole' = whole /\ early' = early
         /\ \A p \in Saver : saver'[p] = saver[p] \/ saver'[p] = NoSave \/ saver'[p] = Called
         /\ NoSave.pc = "idle" /\ NoSave.at = "gone" /\ Called.pc = "snapshot" /\ Called.at = "gone"
<1> USE DEF memVars, restoreVars, fileVars, histVars
<1>1. NoSave.pc = "idle" /\ NoSave.at = "gone" /\ Called.pc = "snapshot" /\ Called.at = "gone"
  BY DEF NoSave, Called, Save
<1>2. CASE UNCHANGED vars
  BY <1>1, <1>2 DEF vars
<1>3. CASE LifeNext
  BY <1>1, <1>3 DEF LifeNext, Start, Shutdown, Close, Exit, Kill, Die
<1>4. CASE WorkNext
  <2>1. PICK p \in Worker : /\ saver' = [saver EXCEPT ![p] = Called]
                            /\ UNCHANGED <<tmp, file, lone, whole, early>>
    BY <1>4, WorkStep
  <2> QED BY <1>1, <2>1 DEF TypeOK
<1>5. CASE RestoreNext
  <2>1. CASE SaveRestored
    <3>1. saver' = [saver EXCEPT ![Restorer] = Called]
      BY <2>1, CallFacts DEF SaveRestored, Saver
    <3> QED BY <1>1, <2>1, <3>1 DEF TypeOK, SaveRestored
  <2>2. CASE Load \/ Drop \/ Resume \/ Transient \/ Publish \/ SavedRestored \/ Retry \/ RetryEnds
    BY <1>1, <2>2 DEF Load, Drop, Resume, Transient, Publish, SavedRestored, Retry, RetryEnds
  <2> QED BY <1>5, <2>1, <2>2 DEF RestoreNext
<1> QED BY <1>2, <1>3, <1>4, <1>5

LEMMA OwnFileNext == ASSUME TypeOK, Rehosting, OwnFile, [Next]_vars PROVE OwnFile'
<1> USE DEF OwnFile, UnderWay, FileReadable
<1>1. CASE UNCHANGED vars \/ LifeNext \/ WorkNext \/ RestoreNext
  BY <1>1, OutsideSave
<1>2. ASSUME NEW p \in Saver, SaveSnapshot(p) PROVE OwnFile'
  <2>1. UNCHANGED <<tmp, file, lone>>
    BY <1>2 DEF SaveSnapshot, fileVars
  <2> QED BY <1>2, <2>1, SnapshotStep
<1>3. ASSUME NEW p \in Saver, SaveCreate(p) PROVE OwnFile'
  <2>1. lone' = lone
    BY <1>3 DEF SaveCreate, histVars
  <2> QED BY <1>3, <2>1, CreateStep
<1>4. ASSUME NEW p \in Saver, SaveWrite(p) PROVE OwnFile'
  <2>1. lone' = lone
    BY <1>4 DEF SaveWrite, histVars
  <2>2. saver[p].alone => tmp' = Json(saver[p].snap)
    BY <1>4, WriteStep, OverwrittenFile, FileFacts
  <2>3. lone => file' = file
    BY <1>4, WriteStep
  <2> QED BY <1>4, <2>1, <2>2, <2>3, WriteStep
<1>5. ASSUME NEW p \in Saver, SaveRename(p) PROVE OwnFile'
  <2>1. saver'[p].pc = "idle" /\ saver'[p].at = "gone" /\ saver[p].pc = "rename"
    BY <1>5, RenameStep DEF NoSave, Save
  <2>2. ASSUME saver[p].alone
        PROVE  tmp = Json(saver[p].snap) /\ tmp \notin {NoFile, Torn, Empty} /\ file' = tmp
    <3>1. saver[p].snap \in SUBSET Saved
      BY DEF TypeOK
    <3>2. tmp = Json(saver[p].snap)
      BY <2>1, <2>2
    <3> QED BY <1>5, <3>1, <3>2, FileFacts, RenameStep
  <2>3. ASSUME NEW q \in Saver \ {p}, saver[q].pc \notin {"write", "rename"}
        PROVE  saver'[q].at = "gone"
    BY <1>5, <2>3, RenameStep DEF Renamed
  <2>4. ASSUME NEW q \in Saver \ {p}, UnderWay(q) PROVE ~saver[p].alone /\ ~saver'[q].alone
    BY <1>5, <2>1, <2>4, RenameStep
  <2> QED BY <1>5, <2>1, <2>2, <2>3, <2>4, RenameStep
<1> QED BY <1>1, <1>2, <1>3, <1>4, <1>5 DEF Next, SaveNext
-----------------------------------------------------------------------------
LEMMA CurrentInit == ASSUME Init PROVE Current
BY DEF Init, Current, Lagging, UnderWay, NoSave, Save

(* What changes memory leaves the file lagging, or there is nothing to say *)
(* in it yet.                                                              *)
LEMMA CurrentOutside ==
  ASSUME TypeOK, Rehosting, Current, UNCHANGED vars \/ LifeNext \/ WorkNext \/ RestoreNext
  PROVE  Current'
<1> USE DEF memVars, restoreVars, fileVars, histVars
<1>0. /\ file' = file /\ lone' = lone /\ whole' = whole
      /\ \A p \in Saver : saver'[p] = saver[p] \/ saver'[p] = NoSave \/ saver'[p] = Called
      /\ NoSave.pc = "idle" /\ Called.pc = "snapshot"
  BY OutsideSave
<1>1. ASSUME saver' = saver, Snapshot' = Snapshot, proc' = proc, InHand' <=> InHand,
             rpc = "load" /\ Snapshot = {} => rpc' = "load" \/ file.entries = {} \/ Lagging'
      PROVE  Current'
  <2>1. (Lagging' <=> Lagging) /\ \A p \in Saver : UnderWay(p)' <=> UnderWay(p)
    BY <1>1 DEF Lagging, Due, UnderWay
  <2> QED BY <1>0, <1>1, <2>1 DEF Current
<1>2. ASSUME Lagging' PROVE Current'
  BY <1>2 DEF Current
<1>3. CASE UNCHANGED vars
  BY <1>1, <1>3 DEF vars, Snapshot, InHand
<1>4. CASE Start
  <2>1. Snapshot' = {} /\ rpc' = "load" /\ saver' = saver /\ \A p \in Saver : ~UnderWay(p)
    BY <1>0, <1>4 DEF Start, Rehosting, Snapshot, UnderWay
  <2> QED BY <2>1 DEF Current, UnderWay
<1>5. CASE Shutdown \/ Close \/ Exit \/ Kill
  <2>1. proc' # "up"
    BY <1>5 DEF Shutdown, Close, Exit, Kill, Die
  <2> QED BY <1>2, <2>1 DEF Lagging
<1>6. CASE WorkNext
  <2>1. \E p \in Saver : saver'[p] = Called
    BY <1>6, WorkStep
  <2> QED BY <1>0, <1>2, <2>1 DEF Lagging, Due
<1>7. CASE Load
  <2>1. saver' = saver /\ Snapshot' = Snapshot /\ proc' = proc /\ ~InHand
    BY <1>7 DEF Load, Snapshot, InHand
  <2>2. CASE file.entries = {}
    <3>1. ~InHand'
      BY <1>7, <2>2 DEF Load, InHand
    <3> QED BY <1>1, <2>1, <2>2, <3>1
  <2>3. CASE file.entries # {}
    <3>1. InHand'
      BY <1>7, <2>3 DEF Load, InHand
    <3> QED BY <1>2, <3>1 DEF Lagging
  <2> QED BY <2>2, <2>3
<1>8. CASE Drop \/ Resume \/ Transient \/ Publish \/ Retry
  <2>1. InHand'
    BY <1>8 DEF Drop, Resume, Transient, Publish, Retry, InHand
  <2> QED BY <1>2, <2>1 DEF Lagging
<1>9. CASE SaveRestored
  <2>1. saver'[Restorer] = Called
    BY <1>9, CallFacts DEF SaveRestored, Saver, TypeOK
  <2>2. Restorer \in Saver
    BY DEF Saver
  <2> QED BY <1>0, <1>2, <2>1, <2>2 DEF Lagging, Due
<1>10. CASE SavedRestored \/ RetryEnds
  <2>1. saver' = saver /\ Snapshot' = Snapshot /\ proc' = proc /\ ~InHand /\ ~InHand' /\ rpc # "load"
    BY <1>10 DEF SavedRestored, RetryEnds, Snapshot, InHand
  <2> QED BY <1>1, <2>1
<1> QED BY <1>3, <1>4, <1>5, <1>6, <1>7, <1>8, <1>9, <1>10 DEF LifeNext, RestoreNext

LEMMA CurrentNext == ASSUME TypeOK, Rehosting, OwnFile, Current, [Next]_vars PROVE Current'
<1> USE DEF memVars, restoreVars, fileVars, histVars
<1>1. CASE UNCHANGED vars \/ LifeNext \/ WorkNext \/ RestoreNext
  BY <1>1, CurrentOutside
<1>2. ASSUME NEW p \in Saver, SaveSnapshot(p) \/ SaveCreate(p) \/ SaveWrite(p) \/ SaveRename(p)
      PROVE  Snapshot' = Snapshot /\ proc' = proc /\ rpc' = rpc
  BY <1>2 DEF SaveSnapshot, SaveCreate, SaveWrite, SaveRename, Snapshot
<1>3. ASSUME NEW p \in Saver, SaveSnapshot(p) PROVE Current'
  <2>1. UnderWay(p)' /\ saver'[p].snap = Snapshot /\ Snapshot' = Snapshot
    BY <1>2, <1>3, SnapshotStep DEF UnderWay
  <2>2. ASSUME NEW q \in Saver \ {p} PROVE ~(UnderWay(q)' /\ saver'[q].alone)
    BY <1>3, <2>2, SnapshotStep DEF UnderWay
  <2> QED BY <2>1, <2>2 DEF Current
<1>4. ASSUME NEW p \in Saver, SaveCreate(p) \/ SaveWrite(p) PROVE Current'
  <2>1. /\ UnderWay(p) /\ UnderWay(p)' /\ saver'[p].pc # "snapshot"
        /\ saver'[p].snap = saver[p].snap /\ saver'[p].alone = saver[p].alone
        /\ saver'[p].all = saver[p].all /\ \A q \in Saver \ {p} : saver'[q] = saver[q]
    BY <1>4, CreateStep, WriteStep DEF UnderWay
  <2>2. Lagging' <=> Lagging
    BY <1>2, <1>4, <2>1 DEF Lagging, Due, InHand, UnderWay
  <2> QED BY <1>2, <1>4, <2>1, <2>2 DEF Current, UnderWay
<1>5. ASSUME NEW p \in Saver, SaveRename(p) PROVE Current'
  <2>1. /\ UnderWay(p) /\ saver[p].pc = "rename" /\ saver'[p].pc = "idle"
        /\ lone' = saver[p].alone /\ whole' = saver[p].all
        /\ \A q \in Saver \ {p} :
             /\ saver'[q].pc = saver[q].pc /\ saver'[q].snap = saver[q].snap
             /\ saver'[q].all = saver[q].all /\ saver'[q].alone = saver[q].alone
    BY <1>5, RenameStep DEF UnderWay, NoSave, Save
  <2>2. Lagging' <=> Lagging
    BY <1>2, <1>5, <2>1 DEF Lagging, Due, InHand, UnderWay
  <2>3. ASSUME saver[p].alone, saver[p].all, ~Lagging PROVE file'.entries = Snapshot
    <3>1. saver[p].snap \in SUBSET Saved
      BY DEF TypeOK
    <3>2. saver[p].snap = Snapshot
      BY <2>1, <2>3 DEF Current
    <3>3. tmp = Json(saver[p].snap)
      BY <2>1, <2>3 DEF OwnFile
    <3>4. tmp # NoFile /\ tmp.entries = saver[p].snap
      BY <3>1, <3>3, JsonFile, FileFacts
    <3>5. file' = tmp
      BY <1>5, <3>4, RenameStep
    <3> QED BY <3>2, <3>4, <3>5
  <2>4. \A q \in Saver : UnderWay(q)' => UnderWay(q) /\ q # p
    BY <2>1 DEF UnderWay
  <2> QED BY <1>2, <1>5, <2>1, <2>2, <2>3, <2>4 DEF Current
<1> QED BY <1>1, <1>3, <1>4, <1>5 DEF Next, SaveNext
-----------------------------------------------------------------------------
Safe == TypeOK /\ Rehosting /\ OwnFile /\ Current

LEMMA SafeHolds == Spec => []Safe
<1>1. Init => Safe
  BY InitTypes, RehostingInit, OwnFileInit, CurrentInit DEF Safe
<1>2. Safe /\ [Next]_vars => Safe'
  BY NextTypes, RehostingNext, OwnFileNext, CurrentNext DEF Safe
<1> QED BY <1>1, <1>2, PTL DEF Spec

(* PendingIsRetried: while the daemon runs, entries that could not be      *)
(* re-hosted have a goroutine that will try them again.                    *)
THEOREM PendingIsRetriedHolds == Spec => []PendingIsRetried
<1>1. Safe => PendingIsRetried
  BY DEF Safe, Rehosting
<1> QED BY <1>1, SafeHolds, PTL

(* FileReadable: at any moment, saves that do not overlap leave a          *)
(* shares.json that parses, whatever number of them have run.              *)
THEOREM FileReadableHolds == Spec => []FileReadable
<1>1. Safe => FileReadable
  BY DEF Safe, OwnFile
<1> QED BY <1>1, SafeHolds, PTL

(* FileCurrent: once nothing is being saved or re-hosted, and the last save*)
(* ran alone, the file says what the daemon has in memory.                 *)
THEOREM FileCurrentHolds == Spec => []FileCurrent
<1>1. Safe => FileCurrent
  BY DEF Safe, Current, FileCurrent, Settled, Saving, Lagging, Due, InHand, UnderWay
<1> QED BY <1>1, SafeHolds, PTL
-----------------------------------------------------------------------------
(* Shares across a restart *)
Held == live \cup Ids(pending \cup todo \cup again)
OnDisk(p) == Ids(file.entries) \cup Ids(tmp.entries) \cup Ids(saver[p].snap)

(* Ids are never reused, and the next daemon reads what no save has touched*)
(* since it started.                                                       *)
KnownIds ==
  /\ Held \cup gone \subseteq born
  /\ \A p \in Saver : OnDisk(p) \subseteq born
  /\ rpc = "load" /\ ~early => \A p \in Saver : ~UnderWay(p)

(* What Close must leave in the file: the snapshot that is about to replace*)
(* it lacks no id of the file that the daemon still holds.                 *)
OwedIsKept ==
  /\ proc \in {"up", "stopping"} => owed = {}
  /\ proc \in {"closed", "down"} /\ lone /\ whole /\ ~early => owed \subseteq Ids(file.entries)
  /\ ~early => \A p \in Saver : UnderWay(p) /\ saver[p].alone /\ saver[p].all =>
       /\ proc \in {"up", "stopping"} => Ids(file.entries) \cap Held \subseteq Ids(saver[p].snap)
       /\ proc = "closed" => owed \subseteq Ids(saver[p].snap)

(* One entry for each id, in memory, in every snapshot and in the files;   *)
(* and what is not loaded yet is neither live nor gone.                    *)
Unique ==
  /\ OneHome
  /\ ~early => /\ Distinct(file.entries) /\ Distinct(tmp.entries)
               /\ \A p \in Saver : Distinct(saver[p].snap)
               /\ rpc = "load" => (live \cup gone) \cap Ids(file.entries) = {}

LEMMA IdsFacts ==
  /\ Ids({}) = {}
  /\ \A S, T : Ids(S \cup T) = Ids(S) \cup Ids(T)
  /\ \A S, T : S \subseteq T => Ids(S) \subseteq Ids(T)
  /\ \A S : \A e \in S : e.id \in Ids(S) /\ Ids(S \cup {e}) = Ids(S)
  /\ \A S : \A s \in Ids(S) : \E e \in S : e.id = s
BY DEF Ids

LEMMA SnapshotIds == Ids(Snapshot) = live \cup Ids(pending)
<1> DEFINE L == {[id |-> s, left |-> left[s]] : s \in live}
<1>1. Ids(L) = live
  <2>1. ASSUME NEW s \in live PROVE s \in Ids(L)
    <3>1. [id |-> s, left |-> left[s]] \in L /\ [id |-> s, left |-> left[s]].id = s
      OBVIOUS
    <3> QED BY <3>1 DEF Ids
  <2>2. ASSUME NEW s \in Ids(L) PROVE s \in live
    BY <2>2 DEF Ids
  <2> QED BY <2>1, <2>2
<1> QED BY <1>1, IdsFacts DEF Snapshot

(* Only Add and Load bring ids into memory, and only what memory holds is  *)
(* removed or dropped.                                                     *)
LEMMA HeldStep ==
  ASSUME TypeOK, Rehosting, [Next]_vars
  PROVE  /\ born \subseteq born' /\ gone' \subseteq gone \cup Held
         /\ \/ Held' \subseteq Held
            \/ WorkNext /\ Held' \subseteq Held \cup (born' \ born)
            \/ Load /\ Held' \subseteq Held \cup Ids(file.entries)
<1> USE DEF memVars, restoreVars, fileVars, histVars
<1>1. CASE UNCHANGED vars
  BY <1>1 DEF vars, Held
<1>2. CASE LifeNext
  <2>1. CASE Start \/ Shutdown
    BY <2>1 DEF Start, Shutdown, Rehosting, Held
  <2>2. CASE Close
    BY <2>2 DEF Close, Held
  <2>3. CASE Exit \/ Kill
    BY <2>3, IdsFacts DEF Exit, Kill, Die, Held
  <2> QED BY <1>2, <2>1, <2>2, <2>3 DEF LifeNext
<1>3. CASE WorkNext
  BY <1>3 DEF WorkNext, Add, Remove, Completed, Held
<1>4. ASSUME NEW p \in Saver, SaveSnapshot(p) \/ SaveCreate(p) \/ SaveWrite(p) \/ SaveRename(p)
      PROVE  Held' = Held /\ born' = born /\ gone' = gone
  BY <1>4 DEF SaveSnapshot, SaveCreate, SaveWrite, SaveRename, Held
<1>5. CASE RestoreNext
  <2>1. CASE Load
    <3>1. Held' = live \cup Ids(pending \cup file.entries \cup again) /\ born' = born /\ gone' = gone
      BY <2>1 DEF Load, Held
    <3>2. Held' = live \cup Ids(pending) \cup Ids(file.entries) \cup Ids(again)
      <4>1. Ids((pending \cup file.entries) \cup again) = Ids(pending \cup file.entries) \cup Ids(again)
        BY IdsFacts
      <4>2. Ids(pending \cup file.entries) = Ids(pending) \cup Ids(file.entries)
        BY IdsFacts
      <4> QED BY <3>1, <4>1, <4>2
    <3>3. Ids(pending) \cup Ids(again) \subseteq Ids(pending \cup todo \cup again)
      BY IdsFacts
    <3> QED BY <2>1, <3>1, <3>2, <3>3 DEF Held
  <2>2. CASE Drop
    <3>1. PICK e \in todo : todo' = todo \ {e} /\ gone' = gone \cup {e.id}
      BY <2>2 DEF Drop
    <3>2. e.id \in Held /\ Ids(todo \ {e}) \subseteq Ids(todo)
      BY IdsFacts DEF Held
    <3> QED BY <2>2, <3>1, <3>2, IdsFacts DEF Drop, Held
  <2>3. CASE Resume
    <3>1. PICK e \in todo : todo' = todo \ {e} /\ live' = live \cup {e.id}
      BY <2>3 DEF Resume
    <3>2. e.id \in Held /\ Ids(todo \ {e}) \subseteq Ids(todo)
      BY IdsFacts DEF Held
    <3> QED BY <2>3, <3>1, <3>2, IdsFacts DEF Resume, Held
  <2>4. CASE Transient
    <3>1. PICK e \in todo : todo' = todo \ {e} /\ again' = again \cup {e}
      BY <2>4 DEF Transient
    <3>2. pending \cup todo' \cup again' = pending \cup todo \cup again
      BY <2>4, <3>1 DEF Transient
    <3> QED BY <2>4, <3>2 DEF Transient, Held
  <2>5. CASE Publish \/ Retry
    <3>1. pending' \cup todo' \cup again' \subseteq pending \cup todo \cup again
      BY <2>5 DEF Publish, Retry
    <3>2. live' = live /\ born' = born /\ gone' = gone
      BY <2>5 DEF Publish, Retry
    <3> QED BY <3>1, <3>2, IdsFacts DEF Held
  <2>6. CASE SaveRestored \/ SavedRestored \/ RetryEnds
    BY <2>6 DEF SaveRestored, SavedRestored, RetryEnds, Held
  <2> QED BY <1>5, <2>1, <2>2, <2>3, <2>4, <2>5, <2>6 DEF RestoreNext
<1> QED BY <1>1, <1>2, <1>3, <1>4, <1>5 DEF Next, SaveNext

(* What the files hold after a step of save was in a file or a snapshot.   *)
LEMMA SaveStep ==
  ASSUME TypeOK, NEW p \in Saver, SaveSnapshot(p) \/ SaveCreate(p) \/ SaveWrite(p) \/ SaveRename(p)
  PROVE  /\ UNCHANGED <<proc, live, pending, rpc, todo, again, born, gone, owed>>
         /\ file'.entries \in {file.entries, tmp.entries, saver[p].snap, {}}
         /\ tmp'.entries \in {tmp.entries, saver[p].snap, {}}
         /\ \A q \in Saver \ {p} : saver'[q].snap = saver[q].snap
         /\ saver'[p].snap \in {saver[p].snap, Snapshot, {}}
<1> USE DEF memVars, restoreVars, fileVars, histVars
<1>1. UNCHANGED <<proc, live, pending, rpc, todo, again, born, gone, owed>>
  BY DEF SaveSnapshot, SaveCreate, SaveWrite, SaveRename
<1>2. CASE SaveSnapshot(p)
  <2>1. tmp' = tmp /\ file' = file
    BY <1>2 DEF SaveSnapshot
  <2> QED BY <1>1, <1>2, <2>1, SnapshotStep
<1>3. CASE SaveCreate(p)
  BY <1>1, <1>3, CreateStep, FileFacts
<1>4. CASE SaveWrite(p)
  <2>1. \A c \in File, b \in SUBSET Saved : \A f \in Overwritten(c, b) : f.entries \in {b, {}}
    BY OverwrittenFile, JsonFile, FileFacts
  <2> QED BY <1>1, <1>4, <2>1, WriteStep DEF TypeOK
<1>5. CASE SaveRename(p)
  <2>1. NoSave.snap = {}
    BY DEF NoSave, Save
  <2> QED BY <1>1, <1>5, <2>1, RenameStep, FileFacts
<1> QED BY <1>2, <1>3, <1>4, <1>5

LEMMA KnownIdsInit == ASSUME Init PROVE KnownIds
<1>1. NoSave.snap = {} /\ NoSave.pc = "idle"
  BY DEF NoSave, Save
<1> QED BY <1>1, IdsFacts, FileFacts DEF Init, KnownIds, Held, OnDisk, UnderWay

LEMMA KnownIdsNext == ASSUME TypeOK, Rehosting, KnownIds, [Next]_vars PROVE KnownIds'
<1>1. born \subseteq born' /\ (Held \cup gone)' \subseteq born'
  <2>1. Ids(file.entries) \subseteq born /\ Held \cup gone \subseteq born
    BY DEF KnownIds, OnDisk, Saver
  <2> QED BY <2>1, HeldStep
<1>2. CASE UNCHANGED vars \/ LifeNext \/ WorkNext \/ RestoreNext
  <2>1. NoSave.snap = {} /\ Called.snap = {}
    BY DEF NoSave, Called, Save
  <2>2. \A p \in Saver : Ids(saver'[p].snap) \subseteq Ids(saver[p].snap)
    BY <1>2, <2>1, OutsideSave, IdsFacts
  <2>3. \A p \in Saver : OnDisk(p)' \subseteq born'
    BY <1>1, <1>2, <2>2, OutsideSave DEF OnDisk, KnownIds
  <2>4. \A p \in Saver : UnderWay(p)' => UnderWay(p)
    BY <1>2, OutsideSave DEF UnderWay
  <2>5. rpc' = "load" => rpc = "load" \/ \A p \in Saver : ~UnderWay(p)'
    <3>1. ASSUME rpc' = "load", rpc # "load" PROVE Start
      BY <1>2, <3>1 DEF vars, memVars, restoreVars, LifeNext, Shutdown, Close, Exit, Kill, Die, WorkNext,
         Add, Remove, Completed, RestoreNext, Load, Drop, Resume, Transient, Publish, SaveRestored,
         SavedRestored, Retry, RetryEnds
    <3>2. ASSUME Start PROVE \A p \in Saver : ~UnderWay(p)'
      BY <3>2 DEF Start, Rehosting, UnderWay, NoSave, Save
    <3> QED BY <3>1, <3>2
  <2> QED BY <1>1, <1>2, <2>3, <2>4, <2>5, OutsideSave DEF KnownIds
<1>3. ASSUME NEW p \in Saver, SaveSnapshot(p) \/ SaveCreate(p) \/ SaveWrite(p) \/ SaveRename(p)
      PROVE  KnownIds'
  <2>1. Ids(Snapshot) \subseteq born
    BY SnapshotIds, IdsFacts DEF KnownIds, Held
  <2>2. ASSUME NEW q \in Saver PROVE OnDisk(q)' \subseteq born'
    <3>1. /\ Ids(file.entries) \subseteq born /\ Ids(tmp.entries) \subseteq born
          /\ Ids(saver[p].snap) \subseteq born /\ Ids(saver[q].snap) \subseteq born /\ Ids({}) \subseteq born
      BY IdsFacts DEF KnownIds, OnDisk
    <3>2. /\ Ids(file'.entries) \subseteq born /\ Ids(tmp'.entries) \subseteq born
          /\ Ids(saver'[q].snap) \subseteq born
      BY <1>3, <2>1, <3>1, SaveStep
    <3> QED BY <1>1, <3>2 DEF OnDisk
  <2>3. CASE SaveSnapshot(p)
    <3>1. rpc' = rpc /\ early' = (early \/ rpc = "load")
      BY <2>3 DEF SaveSnapshot, restoreVars
    <3> QED BY <1>1, <2>2, <3>1 DEF KnownIds
  <2>4. CASE SaveCreate(p) \/ SaveWrite(p) \/ SaveRename(p)
    <3>1. UnderWay(p) /\ rpc' = rpc /\ early' = early
      BY <2>4 DEF SaveCreate, SaveWrite, SaveRename, UnderWay, restoreVars, histVars
    <3> QED BY <1>1, <2>2, <3>1 DEF KnownIds
  <2> QED BY <1>3, <2>3, <2>4
<1> QED BY <1>2, <1>3 DEF Next, SaveNext
-----------------------------------------------------------------------------
LEMMA OwedInit == ASSUME Init PROVE OwedIsKept
<1>1. NoSave.pc = "idle"
  BY DEF NoSave, Save
<1> QED BY <1>1 DEF Init, OwedIsKept, UnderWay

LEMMA OwedOutside ==
  ASSUME TypeOK, Rehosting, KnownIds, OwedIsKept,
         UNCHANGED vars \/ LifeNext \/ WorkNext \/ RestoreNext
  PROVE  OwedIsKept'
<1> USE DEF memVars, restoreVars, fileVars, histVars
<1>0. /\ file' = file /\ lone' = lone /\ whole' = whole /\ early' = early
      /\ \A p \in Saver : UnderWay(p)' => saver'[p] = saver[p] /\ UnderWay(p)
  BY OutsideSave DEF UnderWay
<1>1. CASE Start
  <2>1. \A p \in Saver : ~UnderWay(p)'
    BY <1>1 DEF Start, Rehosting, UnderWay, NoSave, Save
  <2> QED BY <1>1, <2>1 DEF Start, OwedIsKept
<1>2. CASE Close
  <2>1. proc = "stopping" /\ proc' = "closed" /\ owed' = Held \cap Ids(file.entries)
    BY <1>2 DEF Close, Held
  <2> QED BY <1>0, <2>1 DEF OwedIsKept
<1>3. CASE Exit \/ Kill
  <2>1. \A p \in Saver : ~UnderWay(p)'
    BY <1>3 DEF Exit, Kill, Die, UnderWay, NoSave, Save
  <2>2. proc' = "down" /\ (owed' = {} \/ (proc = "closed" /\ owed' = owed))
    BY <1>3 DEF Exit, Kill, Die
  <2> QED BY <1>0, <2>1, <2>2 DEF OwedIsKept
<1>4. CASE UNCHANGED vars \/ Shutdown \/ WorkNext \/ RestoreNext
  <2>1. owed' = owed /\ (proc' = proc \/ (proc = "up" /\ proc' = "stopping"))
    <3>1. CASE WorkNext
      BY <3>1, WorkStep
    <3>2. CASE UNCHANGED vars \/ Shutdown
      BY <3>2 DEF vars, Shutdown
    <3>3. CASE RestoreNext
      BY <3>3 DEF RestoreNext, Load, Drop, Resume, Transient, Publish, SaveRestored, SavedRestored,
         Retry, RetryEnds
    <3> QED BY <1>4, <3>1, <3>2, <3>3
  <2>2. ASSUME ~early, NEW p \in Saver, UnderWay(p)
        PROVE  Ids(file.entries) \cap Held' \subseteq Held
    <3>1. Ids(file.entries) \subseteq born /\ rpc # "load"
      BY <2>2 DEF KnownIds, OnDisk
    <3>2. ~Load
      BY <3>1 DEF Load
    <3>3. [Next]_vars
      BY <1>4 DEF Next, LifeNext
    <3> QED BY <3>1, <3>2, <3>3, HeldStep
  <2> QED BY <1>0, <2>1, <2>2 DEF OwedIsKept
<1> QED BY <1>1, <1>2, <1>3, <1>4 DEF LifeNext

LEMMA OwedNext ==
  ASSUME TypeOK, Rehosting, OwnFile, KnownIds, OwedIsKept, [Next]_vars
  PROVE  OwedIsKept'
<1>1. CASE UNCHANGED vars \/ LifeNext \/ WorkNext \/ RestoreNext
  BY <1>1, OwedOutside
<1>2. ASSUME NEW p \in Saver, SaveSnapshot(p) \/ SaveCreate(p) \/ SaveWrite(p) \/ SaveRename(p)
      PROVE  /\ proc' = proc /\ owed' = owed /\ Held' = Held
             /\ (\A q \in Saver : ~UnderWay(q)) \/ proc \in {"up", "stopping", "closed"}
             /\ early => early'
  <2>1. NoSave.pc = "idle" /\ saver[p].pc # "idle"
    BY <1>2 DEF NoSave, Save, SaveSnapshot, SaveCreate, SaveWrite, SaveRename
  <2>2. proc # "down"
    BY <2>1 DEF Rehosting
  <2>3. early => early'
    BY <1>2 DEF SaveSnapshot, SaveCreate, SaveWrite, SaveRename, histVars
  <2> QED BY <1>2, <2>2, <2>3, SaveStep DEF Held, TypeOK
<1>3. ASSUME NEW p \in Saver, SaveSnapshot(p) PROVE OwedIsKept'
  <2>1. file' = file /\ lone' = lone /\ whole' = whole
    BY <1>3 DEF SaveSnapshot, fileVars
  <2>2. ASSUME NEW q \in Saver \ {p} PROVE ~(UnderWay(q)' /\ saver'[q].alone)
    BY <1>3, <2>2, SnapshotStep DEF UnderWay
  <2>3. ASSUME saver'[p].all PROVE proc # "closed" /\ Held = Ids(saver'[p].snap)
    <3>1. proc # "closed" /\ todo = {} /\ again = {} /\ saver'[p].snap = Snapshot
      BY <1>3, <2>3, SnapshotStep
    <3>2. pending \cup todo \cup again = pending
      BY <3>1
    <3> QED BY <3>1, <3>2, SnapshotIds DEF Held
  <2> QED BY <1>2, <1>3, <2>1, <2>2, <2>3 DEF OwedIsKept
<1>4. ASSUME NEW p \in Saver, SaveCreate(p) \/ SaveWrite(p) PROVE OwedIsKept'
  <2>1. UnderWay(p)
    BY <1>4 DEF SaveCreate, SaveWrite, UnderWay
  <2>2. lone' = lone /\ whole' = whole
    BY <1>4 DEF SaveCreate, SaveWrite, histVars
  <2>3. \A q \in Saver : saver'[q].snap = saver[q].snap /\ saver'[q].alone = saver[q].alone
                         /\ saver'[q].all = saver[q].all /\ (UnderWay(q)' => UnderWay(q))
    BY <1>4, CreateStep, WriteStep DEF UnderWay
  <2>4. file' = file \/ saver[p].at = "file"
    BY <1>4, CreateStep, WriteStep
  <2>5. CASE file' = file
    BY <1>2, <1>4, <2>2, <2>3, <2>5 DEF OwedIsKept
  <2>6. CASE saver[p].at = "file" /\ file' # file
    <3>1. ~lone /\ ~saver[p].alone
      BY <1>4, <2>1, <2>6, CreateStep, WriteStep DEF OwnFile
    <3>2. \A q \in Saver : ~(UnderWay(q) /\ saver[q].alone)
      BY <2>1, <3>1 DEF OwnFile
    <3> QED BY <1>2, <1>4, <2>2, <2>3, <3>1, <3>2 DEF OwedIsKept
  <2> QED BY <2>4, <2>5, <2>6
<1>5. ASSUME NEW p \in Saver, SaveRename(p) PROVE OwedIsKept'
  <2>1. /\ UnderWay(p) /\ saver[p].pc = "rename" /\ ~UnderWay(p)'
        /\ lone' = saver[p].alone /\ whole' = saver[p].all
        /\ \A q \in Saver \ {p} :
             /\ saver'[q].snap = saver[q].snap /\ saver'[q].alone = saver[q].alone
             /\ UnderWay(q)' <=> UnderWay(q)
    BY <1>5, RenameStep DEF UnderWay, NoSave, Save
  <2>2. early' = early
    BY <1>5 DEF SaveRename
  <2>3. CASE ~saver[p].alone
    <3>1. ASSUME NEW q \in Saver \ {p} PROVE ~(UnderWay(q)' /\ saver'[q].alone)
      BY <2>1, <3>1 DEF OwnFile
    <3> QED BY <1>2, <1>5, <2>1, <2>3, <3>1 DEF OwedIsKept
  <2>4. CASE saver[p].alone
    <3>1. \A q \in Saver : ~UnderWay(q)'
      BY <2>1, <2>4 DEF OwnFile
    <3>2. file'.entries = saver[p].snap
      <4>1. tmp = Json(saver[p].snap) /\ saver[p].snap \in SUBSET Saved
        BY <2>1, <2>4 DEF OwnFile, TypeOK
      <4>2. tmp # NoFile /\ tmp.entries = saver[p].snap
        BY <4>1, JsonFile, FileFacts
      <4> QED BY <1>5, <4>2, RenameStep
    <3>3. proc \in {"up", "stopping", "closed"}
      BY <1>2, <1>5, <2>1
    <3> QED BY <1>2, <1>5, <2>1, <2>2, <2>4, <3>1, <3>2, <3>3 DEF OwedIsKept
  <2> QED BY <2>3, <2>4
<1> QED BY <1>1, <1>3, <1>4, <1>5 DEF Next, SaveNext

(* RestartKeepsShares: what the file held of the daemon's shares when Close*)
(* began is there for the next daemon.                                     *)
THEOREM RestartKeepsSharesHolds == Spec => []RestartKeepsShares
<1> DEFINE I == TypeOK /\ Rehosting /\ OwnFile /\ KnownIds /\ OwedIsKept
<1>1. Init => I
  BY InitTypes, RehostingInit, OwnFileInit, KnownIdsInit, OwedInit
<1>2. I /\ [Next]_vars => I'
  BY NextTypes, RehostingNext, OwnFileNext, KnownIdsNext, OwedNext
<1>3. I => RestartKeepsShares
  BY DEF OwedIsKept, RestartKeepsShares
<1> QED BY <1>1, <1>2, <1>3, PTL DEF Spec
-----------------------------------------------------------------------------
(* An entry taken out of todo leaves its id nowhere among the entries.     *)
LEMMA TakeOne ==
  ASSUME NEW P, NEW T, NEW A, NEW e \in T, Distinct(P \cup T \cup A),
         Ids(P) \cap Ids(T \cup A) = {}, Ids(T) \cap Ids(A) = {}
  PROVE  /\ e.id \notin Ids(P \cup (T \ {e}) \cup A)
         /\ Distinct(P \cup (T \ {e}) \cup A)
         /\ Ids(P) \cap Ids((T \ {e}) \cup A) = {}
         /\ Ids(T \ {e}) \cap Ids(A) = {}
<1>1. e.id \in Ids(T) /\ Ids(T) \subseteq Ids(T \cup A)
  BY IdsFacts
<1>2. ASSUME e.id \in Ids(P \cup (T \ {e}) \cup A) PROVE FALSE
  <2>1. PICK f \in P \cup (T \ {e}) \cup A : f.id = e.id
    BY <1>2, IdsFacts
  <2>2. f = e
    BY <2>1 DEF Distinct
  <2>3. e \in P \/ e \in A
    BY <2>1, <2>2
  <2>4. e.id \in Ids(P) \/ e.id \in Ids(A)
    BY <2>3, IdsFacts
  <2> QED BY <1>1, <2>4
<1>3. Distinct(P \cup (T \ {e}) \cup A)
  BY DEF Distinct
<1>4. Ids((T \ {e}) \cup A) \subseteq Ids(T \cup A) /\ Ids(T \ {e}) \subseteq Ids(T)
  BY IdsFacts
<1> QED BY <1>2, <1>3, <1>4

LEMMA UniqueInit == ASSUME Init PROVE Unique
<1>1. \A p \in Saver : saver[p] = NoSave /\ NoSave.snap = {}
  BY DEF Init, NoSave, Save
<1>2. tmp.entries = {} /\ file.entries = {}
  BY FileFacts DEF Init
<1> QED BY <1>1, <1>2, IdsFacts DEF Init, Unique, OneHome, Distinct

(* The places of memory, for the steps that move entries between them.     *)
LEMMA OneHomeWork ==
  ASSUME TypeOK, KnownIds, Unique, WorkNext, ~early
  PROVE  OneHome' /\ (rpc = "load" => (live' \cup gone') \cap Ids(file.entries) = {})
<1> USE DEF restoreVars, memVars
<1>1. PICK p \in Worker : Add(p) \/ Remove(p) \/ Completed(p)
  BY DEF WorkNext
<1>2. pending' = pending /\ todo' = todo /\ again' = again
  BY <1>1 DEF Add, Remove, Completed
<1>3. live \cap gone = {} /\ live \cup gone \subseteq born
  BY DEF Unique, OneHome, KnownIds, Held
<1>4. \/ \E s \in Share \ born : live' = live \cup {s} /\ gone' = gone
      \/ \E s \in live : live' = live \ {s} /\ gone' = gone \cup {s}
      \/ live' = live /\ gone' = gone
  BY <1>1 DEF Add, Remove, Completed, histVars
<1>5. live' \cup gone' \subseteq live \cup gone \cup (Share \ born)
  BY <1>4
<1>6. gone' \cap live' = {}
  BY <1>3, <1>4
<1>7. Ids(pending \cup todo \cup again) \subseteq born /\ Ids(file.entries) \subseteq born
  BY DEF KnownIds, Held, OnDisk, Saver
<1> QED BY <1>2, <1>5, <1>6, <1>7 DEF Unique, OneHome

LEMMA OneHomeRestore ==
  ASSUME TypeOK, Rehosting, Unique, RestoreNext, ~early
  PROVE  OneHome' /\ rpc' # "load"
<1> USE DEF restoreVars, memVars
<1>0. OneHome /\ Distinct(file.entries) /\ (rpc = "load" => (live \cup gone) \cap Ids(file.entries) = {})
  BY DEF Unique
<1>1. CASE Load
  <2>1. pending' = {} /\ again' = {} /\ todo' = file.entries /\ live' = live /\ gone' = gone
    BY <1>1 DEF Load, Rehosting, histVars
  <2>2. {} \cup file.entries \cup {} = file.entries /\ file.entries \cup {} = file.entries
    OBVIOUS
  <2> QED BY <1>0, <1>1, <2>1, <2>2, IdsFacts DEF Load, OneHome
<1>2. CASE Drop
  <2>1. PICK e \in todo : todo' = todo \ {e} /\ gone' = gone \cup {e.id}
    BY <1>2 DEF Drop
  <2>2. e.id \notin live
    <3>1. e.id \in Ids(pending \cup todo \cup again)
      BY IdsFacts
    <3> QED BY <1>0, <3>1 DEF OneHome
  <2>3. /\ e.id \notin Ids(pending \cup (todo \ {e}) \cup again)
        /\ Distinct(pending \cup (todo \ {e}) \cup again)
        /\ Ids(pending) \cap Ids((todo \ {e}) \cup again) = {}
        /\ Ids(todo \ {e}) \cap Ids(again) = {}
    BY <1>0, TakeOne DEF OneHome
  <2>4. Ids(pending \cup (todo \ {e}) \cup again) \subseteq Ids(pending \cup todo \cup again)
    BY IdsFacts
  <2>5. pending' = pending /\ again' = again /\ live' = live /\ rpc' = rpc /\ rpc \in {"restore", "retry"}
    BY <1>2 DEF Drop, histVars
  <2>6. /\ Distinct(pending' \cup todo' \cup again')
        /\ Ids(pending') \cap Ids(todo' \cup again') = {} /\ Ids(todo') \cap Ids(again') = {}
    BY <2>1, <2>3, <2>5
  <2>7. live' \cap Ids(pending' \cup todo' \cup again') = {}
    BY <1>0, <2>1, <2>3, <2>4, <2>5 DEF OneHome
  <2>8. gone' \cap (live' \cup Ids(pending' \cup todo' \cup again')) = {}
    BY <1>0, <2>1, <2>2, <2>3, <2>4, <2>5, ZenonT(60) DEF OneHome
  <2> QED BY <2>5, <2>6, <2>7, <2>8 DEF OneHome
<1>3. CASE Resume
  <2>1. PICK e \in todo : todo' = todo \ {e} /\ live' = live \cup {e.id}
    BY <1>3 DEF Resume
  <2>2. e.id \notin gone
    <3>1. e.id \in Ids(pending \cup todo \cup again)
      BY IdsFacts
    <3> QED BY <1>0, <3>1 DEF OneHome
  <2>3. /\ e.id \notin Ids(pending \cup (todo \ {e}) \cup again)
        /\ Distinct(pending \cup (todo \ {e}) \cup again)
        /\ Ids(pending) \cap Ids((todo \ {e}) \cup again) = {}
        /\ Ids(todo \ {e}) \cap Ids(again) = {}
    BY <1>0, TakeOne DEF OneHome
  <2>4. Ids(pending \cup (todo \ {e}) \cup again) \subseteq Ids(pending \cup todo \cup again)
    BY IdsFacts
  <2>5. pending' = pending /\ again' = again /\ gone' = gone /\ rpc' = rpc /\ rpc \in {"restore", "retry"}
    BY <1>3 DEF Resume, histVars
  <2>6. /\ Distinct(pending' \cup todo' \cup again')
        /\ Ids(pending') \cap Ids(todo' \cup again') = {} /\ Ids(todo') \cap Ids(again') = {}
    BY <2>1, <2>3, <2>5
  <2>7. live' \cap Ids(pending' \cup todo' \cup again') = {}
    BY <1>0, <2>1, <2>3, <2>4, <2>5 DEF OneHome
  <2>8. gone' \cap (live' \cup Ids(pending' \cup todo' \cup again')) = {}
    BY <1>0, <2>1, <2>2, <2>3, <2>4, <2>5, ZenonT(60) DEF OneHome
  <2> QED BY <2>5, <2>6, <2>7, <2>8 DEF OneHome
<1>4. CASE Transient
  <2>1. PICK e \in todo : todo' = todo \ {e} /\ again' = again \cup {e}
    BY <1>4 DEF Transient
  <2>2. /\ pending' = pending /\ live' = live /\ gone' = gone
        /\ pending' \cup todo' \cup again' = pending \cup todo \cup again
        /\ todo' \cup again' = todo \cup again
    BY <1>4, <2>1 DEF Transient, histVars
  <2>3. Ids(todo') \cap Ids(again') = {}
    <3>1. e.id \notin Ids(pending \cup (todo \ {e}) \cup again) /\ Ids(todo \ {e}) \cap Ids(again) = {}
      BY <1>0, TakeOne DEF OneHome
    <3>2. Ids(todo \ {e}) \subseteq Ids(pending \cup (todo \ {e}) \cup again)
      BY IdsFacts
    <3>3. Ids(again \cup {e}) = Ids(again) \cup {e.id}
      BY DEF Ids
    <3> QED BY <2>1, <3>1, <3>2, <3>3
  <2> QED BY <1>0, <1>4, <2>2, <2>3 DEF Transient, OneHome
<1>5. CASE Publish
  <2>1. /\ pending = {} /\ todo = {} /\ todo' = {} /\ again' = {} /\ pending' = again
        /\ live' = live /\ gone' = gone
    BY <1>5 DEF Publish, Rehosting, histVars
  <2>2. pending' \cup todo' \cup again' = pending \cup todo \cup again
    BY <2>1
  <2> QED BY <1>0, <1>5, <2>1, <2>2, IdsFacts DEF Publish, OneHome
<1>6. CASE Retry
  <2>1. /\ todo = {} /\ again = {} /\ again' = {} /\ pending' = {} /\ todo' = pending
        /\ live' = live /\ gone' = gone
    BY <1>6 DEF Retry, Rehosting, histVars
  <2>2. pending' \cup todo' \cup again' = pending \cup todo \cup again
    BY <2>1
  <2> QED BY <1>0, <1>6, <2>1, <2>2, IdsFacts DEF Retry, OneHome
<1>7. CASE SaveRestored \/ SavedRestored \/ RetryEnds
  BY <1>0, <1>7 DEF SaveRestored, SavedRestored, RetryEnds, OneHome, histVars
<1> QED BY <1>1, <1>2, <1>3, <1>4, <1>5, <1>6, <1>7 DEF RestoreNext

LEMMA UniqueNext ==
  ASSUME TypeOK, Rehosting, KnownIds, Unique, [Next]_vars
  PROVE  Unique'
<1>1. CASE UNCHANGED vars \/ LifeNext \/ WorkNext \/ RestoreNext
  <2>1. \A p \in Saver : saver'[p].snap \in {saver[p].snap, {}}
    <3>1. NoSave.snap = {} /\ Called.snap = {}
      BY DEF NoSave, Called, Save
    <3> QED BY <1>1, <3>1, OutsideSave
  <2>2. tmp' = tmp /\ file' = file /\ early' = early
    BY <1>1, OutsideSave
  <2>3. ~early => OneHome' /\ (rpc' = "load" => (live' \cup gone') \cap Ids(file.entries) = {})
    <3>1. CASE WorkNext
      <4>1. rpc' = rpc
        BY <3>1, WorkStep
      <4> QED BY <3>1, <4>1, OneHomeWork
    <3>2. CASE RestoreNext
      BY <3>2, OneHomeRestore
    <3>3. CASE UNCHANGED vars \/ Shutdown
      BY <3>3 DEF vars, Shutdown, memVars, restoreVars, fileVars, histVars, Unique, OneHome
    <3>4. CASE Start \/ Close \/ Exit \/ Kill
      BY <3>4, IdsFacts DEF Start, Close, Exit, Kill, Die, memVars, restoreVars, fileVars, histVars,
         Unique, OneHome, Distinct, Rehosting
    <3> QED BY <1>1, <3>1, <3>2, <3>3, <3>4 DEF LifeNext
  <2>4. early' => OneHome'
    BY DEF OneHome
  <2>5. Distinct({})
    BY DEF Distinct
  <2> QED BY <2>1, <2>2, <2>3, <2>4, <2>5 DEF Unique
<1>2. ASSUME NEW p \in Saver, SaveSnapshot(p) \/ SaveCreate(p) \/ SaveWrite(p) \/ SaveRename(p)
      PROVE  Unique'
  <2>1. early \/ early' \/ rpc # "load"
    <3>1. CASE SaveSnapshot(p)
      BY <3>1 DEF SaveSnapshot
    <3>2. CASE SaveCreate(p) \/ SaveWrite(p) \/ SaveRename(p)
      BY <3>2 DEF SaveCreate, SaveWrite, SaveRename, KnownIds, UnderWay
    <3> QED BY <1>2, <3>1, <3>2
  <2>2. early => early'
    BY <1>2 DEF SaveSnapshot, SaveCreate, SaveWrite, SaveRename, histVars
  <2>3. OneHome'
    BY <1>2, <2>2, SaveStep DEF Unique, OneHome
  <2>4. ASSUME ~early PROVE Distinct(Snapshot)
    <3>1. Distinct(pending) /\ live \cap Ids(pending) = {}
      <4>1. Ids(pending) \subseteq Ids(pending \cup todo \cup again)
        BY IdsFacts
      <4> QED BY <2>4, <4>1 DEF Unique, OneHome, Distinct
    <3> DEFINE L == {[id |-> s, left |-> left[s]] : s \in live}
    <3>2. \A e \in L : e.id \in live /\ e = [id |-> e.id, left |-> left[e.id]]
      OBVIOUS
    <3>3. \A e \in pending : e.id \in Ids(pending)
      BY IdsFacts
    <3>4. Snapshot = L \cup pending
      BY DEF Snapshot
    <3> HIDE DEF L
    <3>5. ASSUME NEW e \in L, NEW f \in L, e.id = f.id PROVE e = f
      BY <3>2, <3>5
    <3>6. ASSUME NEW e \in L, NEW f \in pending PROVE e.id # f.id
      BY <3>1, <3>2, <3>3
    <3> QED BY <3>1, <3>4, <3>5, <3>6 DEF Distinct
  <2>5. ASSUME ~early', NEW q \in Saver
        PROVE  Distinct(file'.entries) /\ Distinct(tmp'.entries) /\ Distinct(saver'[q].snap)
    <3>1. Distinct({})
      BY DEF Distinct
    <3>2. /\ Distinct(file.entries) /\ Distinct(tmp.entries) /\ Distinct(saver[p].snap)
          /\ Distinct(saver[q].snap)
      BY <2>2, <2>5 DEF Unique
    <3> QED BY <1>2, <2>2, <2>4, <2>5, <3>1, <3>2, SaveStep
  <2>6. rpc' = rpc
    BY <1>2, SaveStep
  <2> QED BY <2>1, <2>2, <2>3, <2>5, <2>6 DEF Unique, Saver
<1> QED BY <1>1, <1>2 DEF Next, SaveNext

(* OneHome: a share is live, pending or being re-hosted, never two of them,*)
(* and what was removed or dropped is none.                                *)
THEOREM OneHomeHolds == Spec => []OneHome
<1> DEFINE I == TypeOK /\ Rehosting /\ KnownIds /\ Unique
<1>1. Init => I
  BY InitTypes, RehostingInit, KnownIdsInit, UniqueInit
<1>2. I /\ [Next]_vars => I'
  BY NextTypes, RehostingNext, KnownIdsNext, UniqueNext
<1>3. I => OneHome
  BY DEF Unique
<1> QED BY <1>1, <1>2, <1>3, PTL DEF Spec
=============================================================================
