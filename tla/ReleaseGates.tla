---------------------------- MODULE ReleaseGates ----------------------------
(***************************************************************************)
(* One evaluation of the release publish gate, beside everything that may  *)
(* change under it.  The gates hold no transaction: the final gate reads a *)
(* readiness report, the acceptance gate reads another one, the approval   *)
(* of migration 000012 and the exceptions, the exception apply preview     *)
(* reads all that again, and the evidence bundle reads the audit coverage  *)
(* once more.                                                              *)
(***************************************************************************)
EXTENDS ReleaseExceptions, Sequences

CONSTANT Scopes   \* scopes an evaluation may have: "project", "platform"

VARIABLES
    reader,   \* the evaluation: what it has read and concluded
    moments   \* history: what was so at some moment of the evaluation

vars == <<exceptionVars, reader, moments>>

(* The queries of a readiness report, in order. *)
Report == <<"restore", "audit", "permission", "artifact", "conformance">>

AllReady == [i \in Items |-> "ready"]

NotStarted ==
    [phase |-> "idle", scope |-> "project", at |-> 1, items |-> AllReady,
     readiness |-> "ready", gate |-> [i \in {} |-> "ready"], apply |-> "ready",
     enabled |-> FALSE, late |-> {}, quiet |-> TRUE, verdict |-> "none",
     rollout |-> "none"]

NoMoment == [ready |-> {}, gap |-> {}, inForce |-> {}, enabled |-> FALSE]

(* A phase of the evaluation is a readiness report and what follows it. *)
TypeOK ==
    /\ ExceptionsTypeOK
    /\ reader.phase \in {"idle", "readiness", "acceptance", "apply", "audit", "done"}
    /\ reader.scope \in Scopes \cup {"project"}
    /\ reader.at \in 1..8
    /\ reader.items \in [Items -> Readiness]
    /\ reader.readiness \in Readiness
    /\ DOMAIN reader.gate \subseteq Items
    /\ reader.apply \in {"ready", "needs_approval", "blocked"}
    /\ reader.late \subseteq Acceptable
    /\ reader.verdict \in {"none", "pass", "blocked"}
    /\ reader.rollout \in {"none", "ready", "needs_approval", "blocked"}
    /\ moments.ready \cup moments.gap \cup moments.inForce \subseteq Items

Init ==
    /\ ExceptionsInit
    /\ reader = NotStarted
    /\ moments = NoMoment

-----------------------------------------------------------------------------
(* GeneratedAt is fixed when the evaluation starts, and expiry is judged as of
   then: an exception that expires on the way still counts.                *)
InForceAtStart ==
    {i \in Acceptable : /\ records[i].status = "approved"
                        /\ ~records[i].expired \/ i \in reader.late}

Now ==
    LET items == ReleaseItems(facts)
    IN  [ready   |-> {i \in Items : items[i] = "ready"},
         gap     |-> {i \in Items : items[i] = "needs_attention"},
         inForce |-> InForceAtStart,
         enabled |-> Enabled]

Join(m, n) ==
    [ready   |-> m.ready \cup n.ready,
     gap     |-> m.gap \cup n.gap,
     inForce |-> m.inForce \cup n.inForce,
     enabled |-> m.enabled \/ n.enabled]

Running == reader.phase \notin {"idle", "done"}

Start(scope) ==
    /\ reader.phase = "idle"
    /\ reader' = [NotStarted EXCEPT !.phase = "readiness", !.scope = scope]
    /\ UNCHANGED exceptionVars
    /\ moments' = Now'

Read(r) ==
    /\ reader' = r
    /\ UNCHANGED <<exceptionVars, moments>>

(* One query of a readiness report; the final gate's own report ends in its
   status.                                                                 *)
ReadItem ==
    LET i == Report[reader.at]
        items == [reader.items EXCEPT ![i] = ReleaseItems(facts)[i]]
    IN  /\ reader.phase \in {"readiness", "acceptance", "apply"}
        /\ reader.at =< Len(Report)
        /\ Read(IF reader.phase = "readiness" /\ reader.at = Len(Report)
                THEN [reader EXCEPT !.phase = "acceptance", !.at = 1, !.items = AllReady,
                                    !.readiness = BuildReleaseReadiness(items)]
                ELSE [reader EXCEPT !.at = @ + 1, !.items = items])

(* Variant: the approval of the migration is not asked for. *)
ReadApprovalApplied ==
    /\ reader.phase \in {"acceptance", "apply"}
    /\ reader.at = Len(Report) + 1
    /\ Read([reader EXCEPT !.at = @ + 1,
                           !.enabled = reader.scope = "project" /\ migrated # NoContent])

(* Exceptions belong to a project: an evaluation of the platform has none. *)
ReadApproval ==
    /\ reader.phase \in {"acceptance", "apply"}
    /\ reader.at = Len(Report) + 1
    /\ Read([reader EXCEPT !.at = @ + 1, !.enabled = reader.scope = "project" /\ Enabled])

(* The acceptance gate has what it needs; the preview goes on from there. *)
ReadExceptions ==
    LET gate == AcceptanceGate(reader.items, IF reader.enabled THEN InForceAtStart ELSE {})
    IN  /\ reader.phase \in {"acceptance", "apply"}
        /\ reader.at = Len(Report) + 2
        /\ Read(IF reader.phase = "acceptance"
                THEN [reader EXCEPT !.phase = "apply", !.at = 1, !.items = AllReady,
                                    !.enabled = FALSE, !.gate = gate]
                ELSE [reader EXCEPT !.at = @ + 1, !.items = AllReady, !.enabled = FALSE,
                                    !.apply = BuildReleaseExceptionSchemaPreview(
                                                  BuildReleaseExceptionRecordPreview(gate))])

(* The migration approval gate reads the approval once more. *)
ReadMigrationApproval ==
    /\ reader.phase = "apply"
    /\ reader.at = Len(Report) + 3
    /\ Read([reader EXCEPT !.phase = "audit", !.at = 1,
                           !.apply = BuildReleaseExceptionApplyPreview(
                               releaseExceptionMigrationApprovalItem(
                                   reader.apply, approval.status, ApprovalEffective))])

(* The bundle reads the audit coverage; package, distribution, publish gate,
   publish approval and rollout plan are functions of the bundle.          *)
ReadCoverage ==
    LET final == BuildReleaseFinalGate(reader.readiness, reader.gate, reader.apply)
        bundle == BuildReleaseEvidenceBundle(final, BuildAuditCoverage(facts.unaudited))
        publish == BuildReleasePublishGate(
                       BuildReleaseDistributionPreview(BuildReleasePackagePreview(bundle)))
    IN  /\ reader.phase = "audit"
        /\ Read([reader EXCEPT !.phase = "done",
                               !.verdict = publish,
                               !.rollout = BuildReleaseRolloutPlanPreview(
                                               BuildReleasePublishApprovalPreview(publish))])

(* Anything else that happens, which the history sees. *)
Meanwhile ==
    LET expired == {i \in Acceptable : records'[i].expired /\ ~records[i].expired}
        late == reader.late \cup expired
        unseen == <<facts, records, approval, migrated>>' = <<facts, records, approval, migrated>>
    IN  /\ ExceptionsNext
        /\ IF Running
           THEN /\ reader' = [reader EXCEPT !.late = late, !.quiet = @ /\ unseen]
                /\ moments' = Join(moments, Now')
           ELSE UNCHANGED <<reader, moments>>

Next ==
    \/ \E s \in Scopes : Start(s)
    \/ ReadItem
    \/ ReadApproval
    \/ ReadExceptions
    \/ ReadMigrationApproval
    \/ ReadCoverage
    \/ (reader.phase # "done" /\ Meanwhile)

Spec == Init /\ [][Next]_vars

-----------------------------------------------------------------------------
MayBeCovered(i) ==
    /\ reader.scope = "project"
    /\ moments.enabled
    /\ i \in Acceptable \cap moments.gap \cap moments.inForce

(* Whatever changed between its twenty queries, an evaluation lets a release
   through only if each item was ready at some moment of the evaluation, or
   was a gap that may be accepted and, for a project, an approved exception
   in force then covered it.  A rollout asks for nothing less.             *)
PublishIsJustified ==
    reader.verdict = "pass" \/ reader.rollout \in {"ready", "needs_approval"} =>
        \A i \in Items :
            \/ i \in moments.ready
            \/ MayBeCovered(i)

(* If nothing changed on the way, the chain of eleven evaluations says what
   its first link could have said: every item is ready or is covered.      *)
QuietVerdictIsExact ==
    reader.phase = "done" /\ reader.quiet =>
        (reader.verdict = "pass" <=>
            \A i \in Items :
                \/ i \in moments.ready
                \/ MayBeCovered(i))

(* The publish gate passes nothing it should not, and nothing stops a release
   whose items are ready or covered all along (BuildReleasePublishGate).   *)
VerdictIsRight == TypeOK /\ PublishIsJustified /\ QuietVerdictIsExact

=============================================================================
