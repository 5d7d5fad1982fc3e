-------------------------- MODULE MCGatedExecution --------------------------
(***************************************************************************)
(* Instances of GatedExecution for TLC.  A behaviour is either about two   *)
(* callers at once, beside workers that lease the task and with all         *)
(* approvals given, or about one caller at a time whose gate is read while  *)
(* the approvals change.                                                    *)
(***************************************************************************)
EXTENDS GatedExecution, TLC

CONSTANT Plays

VARIABLE play

Calling == {c \in Clients : InCall(c)}

AllApproved == decision = "approved" /\ approvalGate = "pass" /\ liveGate = "pass"

MCInit == play \in Plays /\ ExecutionInit

MCNext ==
    /\ UNCHANGED play
    /\ ExecutionNext
    /\ play = "callers" /\ Calling' # {} => AllApproved'
    /\ play = "approvals" => Cardinality(Calling') <= 1 /\ UNCHANGED acquired

MCSpec == MCInit /\ [][MCNext]_<<allVars, play>>

(* Dry-run runs are WorkerLeases's business; here they only cost states. *)
ExecutionRunsOnly == \A r \in Runs : ~run[r].dry

Symmetry == Permutations(Clients) \cup Permutations(LeaseIds)
=============================================================================
