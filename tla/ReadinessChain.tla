---------------------------- MODULE ReadinessChain ----------------------------
(***************************************************************************)
(* The evaluators that decide how far a managed project's workflow may be  *)
(* taken over, as functions of what was read from the database:            *)
(*                                                                         *)
(*   verification bundle -> cutover readiness -> authoring cutover         *)
(*   compatibility contract -> shim readiness -> shim apply                *)
(*   shim readiness, evidence, proofs -> forwarding readiness -> apply     *)
(*                                                                         *)
(* A view v is a record of query results (see View in CutoverChain).       *)
(* Items whose status is fixed by the plan the program prints (planned     *)
(* files, forbidden paths, rollback steps, target policy) always pass and  *)
(* are left out; explicit_edit_approval, which is always blocked, is not.  *)
(***************************************************************************)
EXTENDS Naturals, FiniteSets

CONSTANT None   \* no such row

EvidenceKeys == {"readonly_smoke", "projection_schema", "worktree_review"}
ContractCommands == {"workflow status", "workflow doctor", "workflow init", "workflow open",
                     "task-loop status", "task-loop run"}

statusBool(ok) == IF ok THEN "pass" ELSE "warn"

(* combineStatus, combineShimReadinessStatus, combineExecutionCutoverStatus: *)
(* the worst status wins.                                                  *)
Combine(statuses) ==
    CASE "blocked" \in statuses -> "blocked"
      [] "fail" \in statuses /\ "blocked" \notin statuses -> "fail"
      [] "warn" \in statuses /\ statuses \cap {"blocked", "fail"} = {} -> "warn"
      [] OTHER -> "pass"

Statuses(items) == {items[k] : k \in DOMAIN items}
Blocked(items) == {k \in DOMAIN items : items[k] = "blocked"}

----------------------------------------------------------------------------
(* The verification bundle *)

(* ProjectImportDiffFromSummary.  The latest import and its predecessor    *)
(* come from two queries.                                                  *)
ProjectImportDiff(v) ==
    CASE v.latest = None -> "no_import"
      [] v.latest # None /\ v.previous = None -> "no_previous"
      [] OTHER -> IF v.latest.hash = v.previous.hash THEN "unchanged" ELSE "changed"

(* EvaluateV02PhaseGate: a doctor report of any overall status will do;    *)
(* its drift and stage coverage checks must pass, and a warning of the     *)
(* configuration drift or native doctor check is accepted.                 *)
V02PhaseGate(v) ==
    /\ v.latest # None /\ v.previous # None
    /\ v.mirror
    /\ v.doctor # None
    /\ v.doctor.drift = "pass"
    /\ v.doctor.config \in {"pass", "warn"}
    /\ v.doctor.stages = "pass"
    /\ ProjectImportDiff(v) = "unchanged"
    /\ v.doctor.native \in {"pass", "warn"}

----------------------------------------------------------------------------
(* Compatibility and the shim *)

(* evaluateCompatibilityCommand; the contract's summary is read by queries *)
(* of its own.  (The permission to run the native doctor chooses between   *)
(* forwarding and the status fallback, and leaves the status the same.)    *)
CompatibilityCommand(v, command) ==
    IF command \in {"task-loop run", "workflow init"} THEN "pass" ELSE statusBool(v.shimMirror)

(* CompatibilityContractFromSummary. *)
CompatibilityContract(v) == Combine({CompatibilityCommand(v, c) : c \in ContractCommands})

(* shimEvidenceReadinessItem: the latest evidence of the key must say pass. *)
EvidenceItem(v, key) == IF v.evidence[key] = "pass" THEN "pass" ELSE "blocked"

(* ShimReadinessFromPreviewWithEvidence. *)
ShimReadiness(v) ==
    [compatibility_contract |-> CompatibilityContract(v),
     status_projection      |-> statusBool(v.shimMirror),
     readonly_smoke         |-> EvidenceItem(v, "readonly_smoke"),
     projection_schema      |-> EvidenceItem(v, "projection_schema"),
     worktree_review        |-> EvidenceItem(v, "worktree_review"),
     explicit_edit_approval |-> "blocked"]

(* ShimAuthorizationSnapshotHash: the readiness items, and not the events  *)
(* they were read from.                                                    *)
ShimAuthorizationHash(v) == ShimReadiness(v)

(* shimApplyPacketFromAuthorization: what an operator sends back, approved *)
(* or not; the packet's key is made from the hash alone.                   *)
ShimApplyPacket(v, approved) == [hash |-> ShimAuthorizationHash(v), approved |-> approved]

(* BuildShimApplyGate. *)
ShimApplyGate(v, packet) ==
    /\ Blocked(ShimReadiness(v)) = {"explicit_edit_approval"}
    /\ packet.hash = ShimAuthorizationHash(v)
    /\ packet.approved

(* BuildShimApplyPacketPreview. *)
ShimPacketPreview(v, packet) ==
    CASE ShimApplyGate(v, packet) -> "ready"
      [] ~ShimApplyGate(v, packet) /\ Blocked(ShimReadiness(v)) # {"explicit_edit_approval"} -> "blocked"
      [] OTHER -> "needs_approval"

----------------------------------------------------------------------------
(* Execution forwarding *)

(* executionForwardingShimReadinessAfterApply: a recorded shim apply       *)
(* stands for the explicit approval.                                       *)
ShimAfterApply(v) ==
    IF v.shimApplied THEN [ShimReadiness(v) EXCEPT !.explicit_edit_approval = "pass"]
                     ELSE ShimReadiness(v)

PassOrBlocked(ok) == IF ok THEN "pass" ELSE "blocked"

(* addCommandEvidence: both the queue and the worker command have run. *)
CommandEvidence(v, required) == PassOrBlocked(required \subseteq v.commands)

(* addExecutionForwardingLegacyNonWriteProof. *)
LegacyNonWriteProof(v) == PassOrBlocked(v.pathProof # None /\ v.pathProof.complete)

(* addExecutionForwardingRollbackProof: the proof must be complete, and    *)
(* name the facts of a rollback.                                           *)
RollbackProof(v) ==
    PassOrBlocked(v.rollbackProof # None /\ v.rollbackProof.complete /\ v.rollbackProof.rollbackFacts)

(* buildExecutionForwardingV1Readiness. *)
ForwardingReadiness(v) ==
    [read_only_shim             |-> PassOrBlocked(Combine(Statuses(ShimAfterApply(v))) = "pass"),
     read_only_verify_evidence  |-> CommandEvidence(v, {"verify queue", "verify"}),
     artifact_evidence          |-> CommandEvidence(v, {"artifact queue", "artifact write"}),
     legacy_non_write_proof     |-> LegacyNonWriteProof(v),
     rollback_to_read_only_shim |-> RollbackProof(v)]

(* executionForwardingV1Expected...: references to the events of the       *)
(* proofs read.                                                            *)
ProofRef(proof) == IF proof = None THEN None ELSE proof.id
ProofRefs(v) == [path |-> ProofRef(v.pathProof), rollback |-> ProofRef(v.rollbackProof)]

(* ExecutionForwardingV1ReadinessSnapshotHash. *)
ForwardingHash(v) == [items |-> ForwardingReadiness(v), refs |-> ProofRefs(v)]

(* executionForwardingV1ApplyPacketFromPreview. *)
ForwardingPacket(v, approved) ==
    [hash |-> ForwardingHash(v), refs |-> ProofRefs(v), approved |-> approved]

(* Variant: the packet's proofs are not compared with the latest ones. *)
ForwardingGateAnyProof(v, packet) ==
    /\ Statuses(ForwardingReadiness(v)) = {"pass"}
    /\ packet.hash.items = ForwardingReadiness(v)
    /\ None \notin {packet.refs.path, packet.refs.rollback}
    /\ packet.approved

(* BuildExecutionForwardingV1ApplyGate. *)
ForwardingGate(v, packet) ==
    /\ Statuses(ForwardingReadiness(v)) = {"pass"}
    /\ packet.hash = ForwardingHash(v)
    /\ packet.refs = ProofRefs(v)
    /\ None \notin {packet.refs.path, packet.refs.rollback}
    /\ packet.approved

(* BuildExecutionForwardingV1ApplyPacketPreview. *)
ForwardingPacketPreview(v, packet) ==
    CASE ForwardingGate(v, packet) -> "ready"
      [] ~ForwardingGate(v, packet) /\ Statuses(ForwardingReadiness(v)) # {"pass"} -> "blocked"
      [] OTHER -> "needs_approval"

----------------------------------------------------------------------------
(* Authoring cutover *)

(* latestGateFromList over ListGateResults' newest rows. *)
GatePasses(v, gate) == v.gates[gate] = "pass"

(* ProjectCutoverReadinessFromParts and EvaluateCutoverPhaseGate: every    *)
(* item passes, or is a warning of the compatibility contract.             *)
CutoverPhaseGate(v) ==
    /\ V02PhaseGate(v)
    /\ CompatibilityContract(v) \in {"pass", "warn"}
    /\ GatePasses(v, "approval")
    /\ GatePasses(v, "live_mapping")

(* evaluateCutoverApply, for the version as it was read before the         *)
(* transaction: cut over already, or not.                                  *)
CutoverVerdict(v, cutOver) ==
    CASE cutOver -> "already_applied"
      [] ~cutOver /\ CutoverPhaseGate(v) /\ GatePasses(v, "cutover_readiness") -> "applied"
      [] OTHER -> "blocked"
==============================================================================
