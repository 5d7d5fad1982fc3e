--------------------------- MODULE CompletionAudit ---------------------------
(***************************************************************************)
(* The completion audit, the snapshot that seals it and the readiness of   *)
(* that snapshot.  None of them reads in a transaction: an evaluation asks *)
(* for the gates, for the latest proof of every kind and for the current   *)
(* bindings one query after the other, beside commands that record proofs  *)
(* and changes to what the proofs are bound to.                            *)
(***************************************************************************)
EXTENDS CompletionProofs, Sequences, SequencesExt

CONSTANTS
    Labels,         \* release candidate labels
    MaxSnapshots    \* bound: snapshots recorded

VARIABLES
    snapshots,   \* the snapshot events, latest last
    audit,       \* the evaluation in progress
    been         \* history: the latest proofs and the facts of its moments

vars == <<proofVars, snapshots, audit, been>>

(* The queries of CompletionAudit, in order: a kind stands for its latest
   proof.  Freshness is judged as of the first.                            *)
Reads ==
    <<"generatedAt", "identity", "finalGate", "bundle", "cutover", "boundary", "operations", "smoke",
      "protectedPath", "projection", "archive", "shimRetirement", "executionCutover",
      "validation", "sourceAlignment", "source", "taskMatrix", "tasks", "securityClosure",
      "security", "backupRestore", "manifest", "restorePlan", "artifacts",
      "releasePackaging">>

(* The readiness of a snapshot asks for the snapshot and the bundle first and
   for the status projection once more; a release candidate is sealed with the
   bundle as it is after the audit.                                        *)
Plan(purpose) ==
    CASE purpose \in {"audit", "fixture"} -> Reads
      [] purpose = "release_candidate" -> Reads \o <<"sealedBundle">>
      [] purpose = "readiness" -> <<"snapshot", "sealedBundle">> \o Reads \o <<"packageA">>

Status(v) == IF v = "bad" THEN "bad" ELSE "good"

(* What a query returns now.  The hash of the backup manifest covers the row
   count of every table; the restore plan computes the manifest again.     *)
Query(q) ==
    CASE q \in Kinds -> LatestId(q)
      [] q \in Facts -> facts[q]
      [] q \in {"bundle", "sealedBundle"} -> facts.release
      [] q = "finalGate" -> Status(facts.release)
      [] q = "boundary" -> Status(facts.security)
      [] q \in {"manifest", "restorePlan"} -> rows
      [] q = "packageA" -> facts.projection
      [] q = "generatedAt" -> horizon
      [] q = "snapshot" -> Len(snapshots)

Purposes == {"audit", "readiness", "fixture", "release_candidate"}

NotStarted == [state |-> "idle"]

NoMoment == [latest |-> [k \in play.kinds |-> {}], facts |-> [f \in play.facts |-> {}],
             quiet |-> TRUE]

TypeOK ==
    /\ ProofsTypeOK
    /\ \A s \in Range(snapshots) : s.class \in {"fixture", "release_candidate"} /\ s.label \in Labels
    /\ audit.state \in {"idle", "reading", "sealing", "done"}
    /\ audit.state # "idle" =>
         /\ audit.purpose \in Purposes
         /\ DOMAIN audit.seen \subseteq Range(Plan(audit.purpose))
    /\ \A k \in play.kinds : been.latest[k] \subseteq {p.id : p \in proofs} \cup {0}
    /\ \A f \in play.facts : been.facts[f] \subseteq Values(f)

Init ==
    /\ ProofsInit
    /\ snapshots = <<>>
    /\ audit = NotStarted
    /\ been = NoMoment

-----------------------------------------------------------------------------
(* What a proof must say for the item it belongs to to be complete. *)
Proof(kind, id) == CHOOSE p \in proofs : p.kind = kind /\ p.id = id

RecordedComplete(p) ==
    /\ p.request.status \in Good(p.kind)
    /\ p.request.traceable

validationProofCompletesAudit(p) ==
    RecordedComplete(p) /\ p.request.facts /\ p.request.binding = InScope

archiveProofCompletesAudit(p) ==
    RecordedComplete(p) /\ p.request.facts /\ p.request.approved /\ p.request.binding = InScope

shimRetirementProofCompletesAudit(p) ==
    RecordedComplete(p) /\ p.request.facts /\ p.request.approved /\ p.request.binding = InScope

executionCutoverProofCompletesAudit(p) ==
    RecordedComplete(p) /\ p.request.facts /\ p.request.approved /\ p.request.binding = InScope

sourceAlignmentProofCompletesAudit(p) ==
    RecordedComplete(p) /\ p.request.facts /\ p.request.binding \in Versions

taskMatrixProofCompletesAudit(p) ==
    RecordedComplete(p) /\ p.request.facts /\ p.request.binding \in Versions

securityClosureProofCompletesAudit(p) ==
    RecordedComplete(p) /\ p.request.facts /\ p.request.binding \in Versions

backupRestoreProofCompletesAudit(p) ==
    RecordedComplete(p) /\ p.request.facts /\ p.request.binding \in Versions

releasePackagingProofCompletesAudit(p) ==
    RecordedComplete(p) /\ p.request.facts /\ p.request.binding \in Versions

protectedPathProofCompletesAudit(p) ==
    /\ RecordedComplete(p)
    /\ p.request.binding = InScope
    /\ p.request.status = "authorized" => p.request.approved

CompletesAudit(p) ==
    CASE p.kind = "validation" -> validationProofCompletesAudit(p)
      [] p.kind = "archive" -> archiveProofCompletesAudit(p)
      [] p.kind = "shimRetirement" -> shimRetirementProofCompletesAudit(p)
      [] p.kind = "executionCutover" -> executionCutoverProofCompletesAudit(p)
      [] p.kind = "sourceAlignment" -> sourceAlignmentProofCompletesAudit(p)
      [] p.kind = "taskMatrix" -> taskMatrixProofCompletesAudit(p)
      [] p.kind = "securityClosure" -> securityClosureProofCompletesAudit(p)
      [] p.kind = "backupRestore" -> backupRestoreProofCompletesAudit(p)
      [] p.kind = "releasePackaging" -> releasePackagingProofCompletesAudit(p)
      [] p.kind = "protectedPath" -> protectedPathProofCompletesAudit(p)
      [] p.kind = "smoke" -> RecordedComplete(p)

(* The latest proof an evaluation has seen of a kind completes. *)
Complete(seen, kind) == seen[kind] # 0 /\ CompletesAudit(Proof(kind, seen[kind]))

ProofBlocked(seen, kind) ==
    seen[kind] # 0 /\ Proof(kind, seen[kind]).request.status = "blocked"

Binding(seen, kind) == Proof(kind, seen[kind]).request.binding

Item(complete, blocked) ==
    IF complete THEN "complete" ELSE IF blocked THEN "blocked" ELSE "incomplete"

(* A proof that completes but no longer matches blocks its item. *)
BoundItem(seen, kind, current) ==
    Item(Complete(seen, kind) /\ current, Complete(seen, kind) \/ ProofBlocked(seen, kind))

sourceAlignmentProofCurrentBindingBlockers(seen) ==
    Binding(seen, "sourceAlignment") # seen.source

taskMatrixProofCurrentBindingBlockers(seen) == Binding(seen, "taskMatrix") # seen.tasks

securityClosureProofCurrentBindingBlockers(seen) ==
    Binding(seen, "securityClosure") # seen.security

(* The hash of the manifest is compared with the restore plan's, never with
   the proof's: recording the proof appended rows.                         *)
backupRestoreProofCurrentBindingBlockers(seen) ==
    \/ seen.manifest # seen.restorePlan
    \/ Binding(seen, "backupRestore") # seen.artifacts

releasePackagingProofBundleBindingBlockers(seen) ==
    Binding(seen, "releasePackaging") # seen.bundle

completionSourceAlignmentItem(seen) ==
    BoundItem(seen, "sourceAlignment", ~sourceAlignmentProofCurrentBindingBlockers(seen))

completionTaskMatrixItem(seen) ==
    BoundItem(seen, "taskMatrix", ~taskMatrixProofCurrentBindingBlockers(seen))

completionCommandAPISmokeItem(seen) ==
    Item(Complete(seen, "validation"), ProofBlocked(seen, "validation"))

(* The identity of the real project blocks; anything else is incomplete. *)
completionAreaMatrixDogfoodItem(seen) ==
    Item(/\ seen.identity # "bad" /\ seen.projection # "bad"
         /\ \A k \in {"archive", "shimRetirement", "executionCutover"} : Complete(seen, k),
         seen.identity = "bad")

completionReleasePackagingItem(seen) ==
    Item(/\ Complete(seen, "releasePackaging")
         /\ seen.finalGate # "bad"
         /\ ~releasePackagingProofBundleBindingBlockers(seen),
         ~Complete(seen, "releasePackaging") /\ ProofBlocked(seen, "releasePackaging"))

completionBackupRestoreItem(seen) ==
    BoundItem(seen, "backupRestore", ~backupRestoreProofCurrentBindingBlockers(seen))

(* BuildOperationsReadiness: a failed smoke run blocks, a stale one needs
   attention.                                                              *)
Smoke(seen) == Proof("smoke", seen.smoke)

operationsLocalSmokeProofFreshness(seen) == Smoke(seen).at >= seen.generatedAt

completionOperationsItem(seen) ==
    Item(/\ seen.operations # "bad"
         /\ Complete(seen, "smoke")
         /\ operationsLocalSmokeProofFreshness(seen),
         seen.operations = "bad" \/ (seen.smoke # 0 /\ Smoke(seen).request.status # "pass"))

completionSecurityItem(seen) ==
    IF seen.boundary = "bad" THEN "blocked"
    ELSE BoundItem(seen, "securityClosure", ~securityClosureProofCurrentBindingBlockers(seen))

completionProtectedPathProofItem(seen) == Item(Complete(seen, "protectedPath"), TRUE)

Items(seen) ==
    [E1 |-> completionSourceAlignmentItem(seen), E2 |-> completionTaskMatrixItem(seen),
     E3 |-> completionCommandAPISmokeItem(seen), E4 |-> completionAreaMatrixDogfoodItem(seen),
     E5 |-> completionReleasePackagingItem(seen), E6 |-> completionBackupRestoreItem(seen),
     E7 |-> completionOperationsItem(seen), E8 |-> completionSecurityItem(seen),
     E9 |-> completionProtectedPathProofItem(seen)]

(* combineCompletionAuditStatus: blocked before incomplete before complete. *)
BuildCompletionAudit(seen) ==
    LET statuses == Range(Items(seen))
    IN  Item(statuses = {"complete"}, "blocked" \in statuses)

(* The hash leaves out when the audit was made and what every write changes. *)
completionAuditHash(seen) ==
    [items |-> Items(seen),
     parts |-> [q \in Range(Reads) \ {"generatedAt", "manifest", "restorePlan"} |-> seen[q]]]

-----------------------------------------------------------------------------
(* A snapshot seals a complete audit, and its proofs with it. *)
Snapshot(a) ==
    [class |-> a.purpose, label |-> a.label, hash |-> completionAuditHash(a.seen),
     ids |-> [k \in Kinds |-> a.seen[k]],
     bundle |-> IF a.purpose = "release_candidate" THEN a.seen.sealedBundle ELSE "none"]

(* Only the real project has release candidates. *)
buildCompletionAuditSnapshot(a) ==
    /\ BuildCompletionAudit(a.seen) = "complete"
    /\ a.purpose = "release_candidate" => a.record # "bad" /\ a.seen.sealedBundle # "bad"


(* Ready: the latest snapshot is a release candidate whose audit, proofs and
   bundle are the current ones.                                            *)
buildCompletionAuditSnapshotReadiness(a) ==
    /\ a.record # "bad"
    /\ a.seen.snapshot # 0
    /\ LET latest == snapshots[a.seen.snapshot]
       IN  /\ latest.class = "release_candidate"
           /\ latest.hash = completionAuditHash(a.seen)
           /\ latest.ids = [k \in Kinds |-> a.seen[k]]
           /\ latest.bundle = a.seen.sealedBundle
    /\ a.seen.packageA # "bad"

Verdict(a) ==
    CASE a.purpose = "audit" -> BuildCompletionAudit(a.seen)
      [] a.purpose = "readiness" ->
           IF buildCompletionAuditSnapshotReadiness(a) THEN "ready" ELSE "blocked"
      [] OTHER -> IF buildCompletionAuditSnapshot(a) THEN "accepted" ELSE "refused"

-----------------------------------------------------------------------------
(* The proofs and the facts of this moment, for the history. *)
Latest == [k \in Kinds |-> LatestId(k)]

Moment(latest, now, quiet) ==
    [latest |-> [k \in play.kinds |-> been.latest[k] \cup {latest[k]}],
     facts |-> [f \in play.facts |-> been.facts[f] \cup {now[f]}],
     quiet |-> quiet]

(* What cannot change in this behaviour may as well be read at once. *)
Changing(q) ==
    \/ q \in play.kinds \cup play.facts \cup {"manifest", "restorePlan", "snapshot"}
    \/ q \in {"finalGate", "bundle", "sealedBundle"} /\ "release" \in play.facts
    \/ q = "boundary" /\ "security" \in play.facts
    \/ q = "packageA" /\ "projection" \in play.facts
    \/ q = "generatedAt" /\ "smoke" \in play.kinds

Start(purpose, label) ==
    /\ audit = NotStarted
    /\ purpose \in {"fixture", "release_candidate"} => Len(snapshots) < MaxSnapshots
    /\ audit' = [state |-> "reading", purpose |-> purpose, label |-> label,
                 record |-> facts.identity, seen |-> <<>>, verdict |-> "none"]
    /\ been' = Moment(Latest, facts, TRUE)
    /\ UNCHANGED <<proofVars, snapshots>>

(* The next query; the last one brings the verdict. *)
Read ==
    LET plan == Plan(audit.purpose)
        left == SelectSeq(plan, LAMBDA x : Changing(x) /\ x \notin DOMAIN audit.seen)
        known == [q \in Range(plan) \ Range(Tail(left)) |->
                    IF q \in DOMAIN audit.seen THEN audit.seen[q] ELSE Query(q)]
        read == [audit EXCEPT !.seen = known]
    IN  /\ audit.state = "reading"
        /\ IF Len(left) > 1
           THEN audit' = [audit EXCEPT !.seen = @ @@ (left[1] :> Query(left[1]))]
           ELSE audit' = [read EXCEPT !.verdict = Verdict(read),
                                      !.state = IF Verdict(read) = "accepted"
                                                THEN "sealing" ELSE "done"]
        /\ UNCHANGED <<proofVars, snapshots, been>>

(* RecordCompletionAuditSnapshot's transaction.  The key is made of the label,
   the class, the audit's hash and the bundle's.                           *)
Seal ==
    LET snapshot == Snapshot(audit)
    IN  /\ audit.state = "sealing"
        /\ IF snapshot \in Range(snapshots) THEN UNCHANGED <<snapshots, rows>>
           ELSE snapshots' = Append(snapshots, snapshot) /\ rows' = rows + 1
        /\ audit' = [audit EXCEPT !.state = "done"]
        /\ UNCHANGED <<play, proofs, calls, facts, clock, horizon, changes, been>>

Finish ==
    /\ audit.state = "done"
    /\ audit' = NotStarted
    /\ been' = NoMoment
    /\ UNCHANGED <<proofVars, snapshots>>

(* A command or a change, which the history of a running evaluation sees. *)
Meanwhile ==
    /\ audit.state # "done"
    /\ ProofsNext
    /\ UNCHANGED <<snapshots, audit>>
    /\ IF audit.state # "idle"
       THEN been' = Moment(Latest', facts',
                           been.quiet /\ UNCHANGED <<proofs, facts, rows, horizon>>)
       ELSE UNCHANGED been

Next ==
    \/ \E purpose \in Purposes, label \in Labels : Start(purpose, label)
    \/ Read
    \/ Seal
    \/ Finish
    \/ Meanwhile

Spec == Init /\ [][Next]_vars

-----------------------------------------------------------------------------
(* What a proof was accepted for it is still good for: every proof recorded as
   complete, clean, authorized or pass meets what the audit asks of the proofs
   of its kind, so that no command reports a closed item the audit reopens. *)
AcceptedProofsComplete ==
    \A p \in proofs : p.request.status \in Good(p.kind) => CompletesAudit(p)

(* The proofs an evaluation relies on, and what they must have been. *)
WasLatest(k) == IF k \in play.kinds THEN been.latest[k] ELSE {LatestId(k)}

WasFact(f) == IF f \in play.facts THEN been.facts[f] ELSE {facts[f]}

Justified(ids) ==
    \A k \in Kinds :
      /\ ids[k] \in WasLatest(k) \ {0}
      /\ LET p == Proof(k, ids[k])
         IN  /\ CompletesAudit(p)
             /\ k \in DOMAIN BoundTo => p.request.binding \in WasFact(BoundTo[k])

(* An audit is complete, a snapshot sealed and a snapshot ready only on proofs
   each of which was the latest of its kind, complete and bound to the project
   as it was at some moment of the evaluation: whatever is recorded or changed
   between two queries, no replaced or outdated proof counts.              *)
VerdictIsJustified ==
    audit.state = "done" =>
      /\ audit.verdict \in {"complete", "accepted"} => Justified([k \in Kinds |-> audit.seen[k]])
      /\ audit.verdict = "ready" =>
           LET s == snapshots[audit.seen.snapshot]
           IN  s.class = "release_candidate" /\ Justified(s.ids) /\ s.bundle \in WasFact("release")

(* The evidence as it stands, without reference to any evaluation. *)
EvidenceStands ==
    /\ \A f \in Facts \ {"cutover"} : facts[f] # "bad"
    /\ \A k \in Kinds : \E p \in LatestEventByType(k) :
         /\ CompletesAudit(p)
         /\ k \in DOMAIN BoundTo => p.request.binding = facts[BoundTo[k]]
         /\ k = "smoke" => p.at >= horizon

(* When nothing happens during an evaluation its verdict is exact: an audit is
   complete if and only if the evidence stands, and the latest snapshot is
   ready if and only if it is a release candidate sealed over the very proofs,
   bundle, status projection and cutover state that stand.  In particular the
   rows that recording the snapshot itself and any later command append do not
   make it stale.                                                          *)
QuietVerdictIsExact ==
    (audit.state = "done" /\ been.quiet) =>
      /\ audit.purpose = "audit" => (audit.verdict = "complete" <=> EvidenceStands)
      /\ audit.purpose = "readiness" =>
           (audit.verdict = "ready" <=>
              /\ EvidenceStands
              /\ snapshots # <<>>
              /\ LET s == Last(snapshots)
                 IN  /\ s.class = "release_candidate"
                     /\ s.ids = Latest
                     /\ s.bundle = facts.release
                     /\ s.hash.parts.projection = facts.projection
                     /\ s.hash.parts.cutover = facts.cutover)

(* No verdict rests on replaced or outdated proofs, and one given while nothing
   happened is exact (BuildCompletionAudit, the snapshot commands).        *)
VerdictIsRight == TypeOK /\ VerdictIsJustified /\ QuietVerdictIsExact

=============================================================================
