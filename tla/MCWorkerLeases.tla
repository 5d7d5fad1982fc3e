--------------------------- MODULE MCWorkerLeases ---------------------------
(* Small instances of WorkerLeases for TLC, with a run that a fixture       *)
(* queued and one that the commands create.  A behaviour is either about    *)
(* two workers that lease their tasks, without run control, or about run    *)
(* control, with one worker that may also go offline, and whose polls may   *)
(* be rolled back, and one lease.acquire command.                           *)
EXTENDS WorkerLeases, TLC

CONSTANT Plays

VARIABLE play

MCInit == play \in Plays /\ Init

MCNext ==
    /\ UNCHANGED play
    /\ Next
    /\ play = "leases" =>
         /\ UNCHANGED controlled
         /\ \A w \in Workers : worker'[w].status # "offline"
         /\ \A p \in Workers \X Runs : reportFile'[p] # LostLease
    /\ play = "control" =>
         /\ Cardinality({w \in Workers : worker'[w].status # "none"}) <= 1
         /\ Cardinality(acquired') <= 1

MCSpec == MCInit /\ [][MCNext]_<<vars, play>>

(* Workers and leases are interchangeable. *)
Symmetry == Permutations(Workers) \cup Permutations(LeaseIds)
=============================================================================
