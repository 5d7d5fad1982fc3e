---------------------------- MODULE ApprovalState ---------------------------
(***************************************************************************)
(* What the approval records and gate results of one workflow version look *)
(* like to those who act on them: the latest decision and the latest       *)
(* result of the two gates BuildExecutionApprovalGate reads.               *)
(***************************************************************************)
VARIABLES
    decision,      \* decision of the latest approval record
    approvalGate,  \* status of the latest approval_gate result
    liveGate,      \* status of the latest live_mapping_gate result
    everApproved   \* some approval record has decision 'approved'

approvalVars == <<decision, approvalGate, liveGate, everApproved>>

Decisions == {"none", "approved", "rejected"}

GateStatuses == {"none", "pass", "blocked"}

(* What the two reading queries of the execution gate can answer. *)
TypeOK ==
    /\ decision \in Decisions
    /\ approvalGate \in GateStatuses
    /\ liveGate \in GateStatuses
    /\ everApproved \in BOOLEAN

Init ==
    /\ decision = "none"
    /\ approvalGate = "none"
    /\ liveGate = "none"
    /\ everApproved = FALSE

(* An approval record is committed; a later one may already be there. *)
Decide(d) ==
    /\ d \in {"approved", "rejected"}
    /\ everApproved' = (everApproved \/ d = "approved")
    /\ decision' \in {d, decision} \ {"none"}
    /\ UNCHANGED <<approvalGate, liveGate>>

(* A gate result is committed.  It says what was so when the gate looked:
   a gate passes only if an approval had been recorded.                    *)
ApprovalGate(status) ==
    /\ status \in {"pass", "blocked"}
    /\ status = "pass" => everApproved
    /\ approvalGate' \in {status, approvalGate} \ {"none"}
    /\ UNCHANGED <<decision, liveGate, everApproved>>

LiveMappingGate(status) ==
    /\ status \in {"pass", "blocked"}
    /\ status = "pass" => everApproved
    /\ liveGate' \in {status, liveGate} \ {"none"}
    /\ UNCHANGED <<decision, approvalGate, everApproved>>

Next ==
    \/ \E d \in Decisions : Decide(d)
    \/ \E status \in GateStatuses : ApprovalGate(status) \/ LiveMappingGate(status)

Spec == Init /\ [][Next]_approvalVars
=============================================================================
