---------------------------- MODULE ReleaseChain ----------------------------
(***************************************************************************)
(* The chain of read-only evaluations behind a release, as functions:      *)
(* readiness, remediation, acceptance, exceptions, final gate, evidence    *)
(* bundle, package, distribution, publish gate, publish approval, rollout. *)
(* Each link translates the statuses of the one before it.                 *)
(*                                                                         *)
(* A project is a record of what the readers query:                        *)
(*   artifacts    the artifacts, by backend and by whether hash, size and  *)
(*                reference metadata are as recorded                       *)
(*   unaudited    the audit requirements with a required action missing    *)
(*   permission   the verdict of the permission policy doctor              *)
(*   conformance  the verdict of the conformance check                     *)
(***************************************************************************)
EXTENDS Naturals, FiniteSets

Backends == {"local", "external_project", "s3", "other"}
Artifacts == [backend : Backends, intact : BOOLEAN]
Verdicts == {"pass", "warn", "fail"}
Readiness == {"ready", "needs_attention", "blocked"}

(* The items of a readiness report; backup_manifest and the others are keyed
   by project where there are several.                                     *)
Items == {"backup", "restore", "audit", "permission", "artifact", "conformance"}

(* The items whose gap a release exception may cover. *)
AcceptanceType(i) ==
    CASE i = "restore"  -> "metadata_only_history"
      [] i = "audit"    -> "future_only_gap"
      [] i = "artifact" -> "archive_exception"
      [] OTHER          -> "none"

Acceptable == {i \in Items : AcceptanceType(i) # "none"}

-----------------------------------------------------------------------------
(* Folding a status into a report keeps the worst. *)
releaseReadinessStatusRank(s) ==
    CASE s = "blocked" -> 3 [] s = "needs_attention" -> 2 [] s = "ready" -> 1 [] OTHER -> 0

Worst(S) ==
    CHOOSE s \in S \cup {"ready"} :
        \A t \in S : releaseReadinessStatusRank(t) =< releaseReadinessStatusRank(s)

(* Integrity of one artifact: what is stored is compared with its record; a
   reference is never read.                                                *)
checkArtifactIntegrity(a) ==
    CASE a.backend \in {"local", "s3"}   -> IF a.intact THEN "pass" ELSE "fail"
      [] a.backend = "external_project"  -> IF a.intact THEN "skipped" ELSE "warn"
      [] OTHER                           -> "warn"

BuildArtifactIntegrityReport(A) ==
    LET checks == {checkArtifactIntegrity(a) : a \in A}
    IN  CASE "fail" \in checks                    -> "fail"
          [] checks \cap {"warn", "skipped"} # {} -> "warn"
          [] OTHER                                -> "pass"

(* Artifact metadata in the backup manifest; references stay outside it. *)
checkRestoreArtifactInventory(A) ==
    CASE A = {}                                          -> "blocked"
      [] \E a \in A : a.backend = "external_project"     -> "needs_attention"
      [] OTHER                                           -> "ready"

restorePlanItemFromArtifactIntegrity(verdict) ==
    CASE verdict = "fail" -> "blocked" [] verdict = "warn" -> "needs_attention" [] OTHER -> "ready"

(* The manifest's own shape and guardrails are as BackupManifest writes them. *)
RestorePlan(A) ==
    Worst({checkRestoreArtifactInventory(A),
           restorePlanItemFromArtifactIntegrity(BuildArtifactIntegrityReport(A))})

BuildAuditCoverage(unaudited) == IF unaudited = {} THEN "pass" ELSE "warn"

releaseStatusFromPassWarnFail(v) ==
    CASE v \in {"pass", "ready"}                        -> "ready"
      [] v \in {"warn", "needs_attention", "skipped"}   -> "needs_attention"
      [] OTHER                                          -> "blocked"

(* The status of each item of a readiness report; BackupManifest reports
   ready whenever it can be read.                                          *)
ReleaseItems(f) ==
    [i \in Items |->
        CASE i = "backup"      -> "ready"
          [] i = "restore"     -> RestorePlan(f.artifacts)
          [] i = "audit"       -> releaseStatusFromPassWarnFail(BuildAuditCoverage(f.unaudited))
          [] i = "permission"  -> releaseStatusFromPassWarnFail(f.permission)
          [] i = "artifact"    -> releaseStatusFromPassWarnFail(
                                      BuildArtifactIntegrityReport(f.artifacts))
          [] i = "conformance" -> releaseStatusFromPassWarnFail(f.conformance)]

BuildReleaseReadiness(items) == Worst({items[i] : i \in Items})

(* A remediation action for every item that is not ready. *)
BuildReleaseRemediationPlan(items) == {i \in Items : items[i] # "ready"}

(* What the owner of a remediation action may decide. *)
acceptanceDecisionForAction(i, status) ==
    CASE status = "ready"      -> "ready"
      [] status = "blocked"    -> "not_acceptable"
      [] i \in Acceptable      -> "needs_decision"
      [] OTHER                 -> "not_acceptable"

BuildReleaseAcceptancePreview(items) ==
    [i \in BuildReleaseRemediationPlan(items) |-> acceptanceDecisionForAction(i, items[i])]

(* No item, no action: a plan for a ready report has one action, ready itself,
   and a gate without items passes.

   The acceptance gate: a gap passes when an effective exception for the item,
   of its acceptance type and fingerprint, is among exceptions.            *)
acceptanceGateItemForDecision(i, decision, exceptions) ==
    CASE decision = "ready"                                -> [status |-> "pass", decision |-> "ready"]
      [] decision = "needs_decision" /\ i \in exceptions   -> [status |-> "pass", decision |-> "ready"]
      [] OTHER                                             -> [status |-> "blocked", decision |-> decision]

BuildReleaseAcceptanceGateWithExceptions(preview, exceptions) ==
    [i \in DOMAIN preview |-> acceptanceGateItemForDecision(i, preview[i], exceptions)]

AcceptanceGate(items, exceptions) ==
    BuildReleaseAcceptanceGateWithExceptions(BuildReleaseAcceptancePreview(items), exceptions)

(* The status of a gate whose items pass or block. *)
GateStatus(gate) == IF \E i \in DOMAIN gate : gate[i].status = "blocked" THEN "blocked" ELSE "pass"

-----------------------------------------------------------------------------
(* The drafts an exception may be requested from. *)
BuildReleaseExceptionRecordPreview(gate) ==
    [i \in DOMAIN gate |->
        CASE gate[i].decision = "needs_decision" -> "draft"
          [] gate[i].decision = "ready"          -> "not_required"
          [] OTHER                               -> "blocked"]

BuildReleaseExceptionSchemaPreview(drafts) ==
    IF \E i \in DOMAIN drafts : drafts[i] = "blocked" THEN "blocked" ELSE "needs_approval"

(* approval is the status of the migration approval, effective whether it is
   for this build's content.                                               *)
releaseExceptionMigrationApprovalItem(schema, approval, effective) ==
    IF schema = "needs_approval" /\ approval = "approved" /\ effective THEN "pass" ELSE "blocked"

BuildReleaseExceptionApplyPreview(migrationGate) ==
    IF migrationGate = "blocked" THEN "blocked" ELSE "ready"

-----------------------------------------------------------------------------
releaseFinalReadinessItem(readiness, acceptance) ==
    IF readiness = "ready" \/ (readiness = "needs_attention" /\ acceptance = "pass")
    THEN "pass" ELSE "blocked"

releaseAcceptanceGateRequiresExceptionApply(gate) ==
    \/ GateStatus(gate) # "pass"
    \/ \E i \in DOMAIN gate : gate[i].decision # "ready"

releaseFinalExceptionApplyItem(gate, apply) ==
    IF apply = "blocked" /\ releaseAcceptanceGateRequiresExceptionApply(gate)
    THEN "blocked" ELSE "pass"

(* readiness, gate and apply were read one after the other. *)
BuildReleaseFinalGate(readiness, gate, apply) ==
    IF /\ releaseFinalReadinessItem(readiness, GateStatus(gate)) = "pass"
       /\ GateStatus(gate) = "pass"
       /\ releaseFinalExceptionApplyItem(gate, apply) = "pass"
    THEN "pass" ELSE "blocked"

(* A gap in the audit coverage read for the bundle counts as covered once the
   final gate, read before it, passes.                                     *)
releaseEvidenceAuditItem(coverage, final) ==
    CASE coverage = "fail"                     -> "blocked"
      [] coverage = "warn" /\ final # "pass"   -> "needs_attention"
      [] OTHER                                 -> "ready"

BuildReleaseEvidenceBundle(final, coverage) ==
    Worst({IF final = "blocked" THEN "blocked" ELSE "ready",
           releaseEvidenceAuditItem(coverage, final)})

(* The manifest and one file for each item of the bundle. *)
BuildReleasePackagePreview(bundle) == Worst({bundle})

(* The package and three channels. *)
BuildReleaseDistributionPreview(package) ==
    CASE package \in {"blocked", "needs_attention"} -> package [] OTHER -> "ready"

BuildReleasePublishGate(distribution) == IF distribution = "ready" THEN "pass" ELSE "blocked"

(* No publish approval can be recorded yet. *)
BuildReleasePublishApprovalPreview(publish) ==
    IF publish = "pass" THEN "needs_approval" ELSE "blocked"

BuildReleaseRolloutPlanPreview(publishApproval) ==
    CASE publishApproval \in {"blocked", "needs_approval"} -> publishApproval [] OTHER -> "ready"

=============================================================================
