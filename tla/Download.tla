------------------------------ MODULE Download ------------------------------
(***************************************************************************)
(* What `beeline get` promises of one destination, without frames, queues, *)
(* windows in flight, attempts or sidecars: the host tells one hash of     *)
(* each chunk as long as its daemon lives; bytes may change only where     *)
(* they are not verified yet; what is verified has the hash the host told; *)
(* a run fails for a reason a user can have met, never because the roots   *)
(* differ; and one that succeeds has every chunk verified, and the host's  *)
(* hashes for its own.                                                     *)
(***************************************************************************)
EXTENDS Naturals

CONSTANTS
  Chunk,
  Parts,     \* the sets of chunks that are verified together
  Failures,  \* the ways a run may fail
  Untold     \* the host has not read the chunk yet

VARIABLES
  phase,     \* "idle", "running", "done"
  outcome,   \* how the last run failed, or "none"
  file,      \* the hash of each chunk the host would read now
  told,      \* the hash the host answers with
  good,      \* the chunks verified in this run
  hashes,    \* what the receiver recorded
  disk       \* what is in the destination

promise == <<phase, outcome, file, told, good, hashes, disk>>

Init ==
  /\ phase = "idle" /\ outcome = "none" /\ good = {}
  /\ told = [i \in Chunk |-> Untold]

(* One chunk of f at most has another value. *)
ChangesAt(f, S) == f' = f \/ \E i \in S : f' = [f EXCEPT ![i] = f'[i]]

Read ==
  /\ \E S \in SUBSET {i \in Chunk : told[i] = Untold} :
       told' = [i \in Chunk |-> IF i \in S THEN file[i] ELSE told[i]]
  /\ UNCHANGED <<phase, outcome, file, good, hashes, disk>>

Edit == UNCHANGED <<phase, outcome, told, good, hashes, disk>>

Restart ==
  /\ phase = "idle" /\ told' = [i \in Chunk |-> Untold]
  /\ UNCHANGED <<phase, outcome, file, good, hashes, disk>>

Begin ==
  /\ phase = "idle" /\ phase' = "running" /\ outcome' = "none"
  /\ UNCHANGED <<file, told, good, disk>>

Write ==
  /\ phase = "running"
  /\ ChangesAt(disk, Chunk \ good) /\ ChangesAt(hashes, Chunk \ good)
  /\ UNCHANGED <<phase, outcome, file, told, good>>

Verify ==
  /\ phase = "running"
  /\ \E P \in Parts :
       /\ \A i \in P : told[i] # Untold /\ hashes[i] = told[i]
       /\ good' = good \cup P
  /\ UNCHANGED <<phase, outcome, file, told, hashes, disk>>

Fail ==
  /\ phase = "running" /\ phase' = "idle" /\ outcome' \in Failures
  /\ good' = {} /\ ChangesAt(disk, Chunk \ good)
  /\ UNCHANGED <<file, told>>

Finish ==
  /\ phase = "running" /\ phase' = "done"
  /\ good = Chunk /\ hashes = told /\ \A i \in Chunk : told[i] # Untold
  /\ UNCHANGED <<outcome, file, told, good, hashes, disk>>

Delete ==
  /\ phase = "idle"
  /\ UNCHANGED <<phase, outcome, file, told, good, hashes>>

Next ==
  \/ Read \/ Edit \/ Restart
  \/ Begin \/ Write \/ Verify \/ Fail \/ Finish \/ Delete

Spec == Init /\ [][Next]_promise
=============================================================================
