-------------------------- MODULE CompletionProofs --------------------------
(***************************************************************************)
(* The proofs the completion audit consumes.  Eleven commands record a     *)
(* proof, each of its own kind, all in one way: the options are validated  *)
(* first; then one transaction reserves the idempotency key, inserts the   *)
(* event, the audit event and the response, or replays the response of the *)
(* same request.  The proof that counts is the latest event of its kind.   *)
(***************************************************************************)
EXTENDS Integers, TLC

CONSTANTS
    Calls,        \* commands that may run at a time
    Requests(_),  \* what a caller may ask to record of a kind
    Keys,         \* idempotency keys a caller may give
    Versions,     \* values a fact of the project may have and a proof bind to
    NoBinding,    \* a request that binds to nothing
    Plays         \* what may change in a behaviour: the kinds and the facts that
                  \* may, and bounds on the records begun and the facts changed

VARIABLES
    play,       \* what may change in this behaviour
    proofs,     \* the proof events
    calls,      \* the commands in progress
    facts,      \* what the current bindings are computed from
    rows,       \* rows ever appended: what the backup manifest's hash covers
    clock,      \* transactions begun
    horizon,    \* begin of the freshness window, as a value of clock
    changes     \* changes made

proofVars == <<play, proofs, calls, facts, rows, clock, horizon, changes>>

(* A fact that is "bad" cannot be bound to: a blocked gate, an open capability,
   a failed artifact, a file that cannot be read.                          *)
Facts ==
    {"identity", "release", "cutover", "security", "operations", "projection",
     "source", "tasks", "artifacts"}
Values(f) ==
    {"bad"} \cup IF f \in {"identity", "operations"} THEN {"good"} ELSE Versions

(* The fact the proof of a kind is bound to; the other kinds are bound to a
   scope that is fixed in the code.                                        *)
BoundTo ==
    [sourceAlignment |-> "source", taskMatrix |-> "tasks", securityClosure |-> "security",
     backupRestore |-> "artifacts", releasePackaging |-> "release"]

Kinds ==
    {"validation", "archive", "shimRetirement", "executionCutover", "protectedPath", "smoke"}
      \cup DOMAIN BoundTo

InScope == "scope"

Good(kind) == CASE kind = "protectedPath" -> {"clean", "authorized"}
                [] kind = "smoke" -> {"pass"}
                [] OTHER -> {"complete"}

Statuses(kind) == CASE kind = "protectedPath" -> {"clean", "authorized", "dirty", "blocked"}
                    [] kind = "smoke" -> {"pass", "fail"}
                    [] OTHER -> {"complete", "incomplete", "blocked"}

Request ==
    [status: UNION {Statuses(k) : k \in Kinds},
     facts: BOOLEAN, traceable: BOOLEAN, approved: BOOLEAN,
     binding: Versions \cup {InScope, NoBinding}, key: Keys \cup {"default"}]

Idle == [state |-> "idle"]

ProofsTypeOK ==
    /\ play \in Plays
    /\ \A p \in proofs : /\ p.kind \in Kinds /\ p.request \in Request
                         /\ p.id \in Nat \ {0} /\ p.at \in 0..clock
    /\ DOMAIN calls = Calls
    /\ \A f \in Facts : facts[f] \in Values(f)
    /\ rows \in Nat /\ clock \in 0..play.records /\ horizon \in 0..(clock + 1)
    /\ changes \in 0..play.changes

-----------------------------------------------------------------------------
(* Latest by creation, which is the start of the transaction, then by id. *)
LatestEventByType(kind) ==
    LET mine == {p \in proofs : p.kind = kind}
    IN  {p \in mine : \A q \in mine : q.at < p.at \/ (q.at = p.at /\ q.id =< p.id)}

LatestId(kind) == IF LatestEventByType(kind) = {} THEN 0
                  ELSE (CHOOSE p \in LatestEventByType(kind) : TRUE).id

(* The request of a proof that closes its item, bound to v. *)
Settled(kind, v) ==
    [status |-> CASE kind = "protectedPath" -> "clean" [] kind = "smoke" -> "pass"
                  [] OTHER -> "complete",
     facts |-> TRUE, traceable |-> TRUE, approved |-> TRUE,
     binding |-> IF kind \in DOMAIN BoundTo THEN v ELSE InScope, key |-> "default"]

(* The project has recorded its proofs, but for one at most.  Ids are compared
   within a kind only.                                                     *)
ProofsInit ==
    LET v == CHOOSE v \in Versions : TRUE
    IN  \E absent \in {{}} \cup {{k} : k \in Kinds} :
          /\ play \in {x \in Plays : absent \subseteq x.kinds}
          /\ facts = [f \in Facts |-> IF v \in Values(f) THEN v ELSE "good"]
          /\ proofs = {[kind |-> k, request |-> Settled(k, v), id |-> 1, at |-> 0]
                         : k \in Kinds \ absent}
          /\ calls = [c \in Calls |-> Idle]
          /\ rows = 1 /\ clock = 0 /\ horizon = 0 /\ changes = 0

-----------------------------------------------------------------------------
(* requireProofEvidenceForStatus: a status that closes an item needs a summary
   and an evidence URI; a complete proof also needs every required fact.   *)
requireProofEvidenceForStatus(kind, r) == r.status \in Good(kind) => r.traceable

CompleteHasFacts(r) == r.status = "complete" => r.facts

(* requireCompleteProofReviewEvidence: an approved review of a
   release-candidate URI.                                                  *)
requireCompleteProofReviewEvidence(r) == r.status = "complete" => r.approved

ScopeBound(r) == r.status = "complete" => r.binding = InScope

(* A binding somebody computed: of the right shape, of whatever moment. *)
WellFormedBinding(r) == r.status = "complete" => r.binding \in Versions

(* Validation has ended: the transaction begins, which dates the event. *)
Begin(c, kind, r) ==
    /\ calls[c] = Idle
    /\ r.status \in Statuses(kind)
    /\ requireProofEvidenceForStatus(kind, r)
    /\ clock' = clock + 1
    /\ calls' = [calls EXCEPT ![c] = [state |-> "recording", kind |-> kind,
                                     request |-> r, at |-> clock + 1]]
    /\ UNCHANGED <<play, proofs, facts, rows, horizon, changes>>

RecordValidationProof(c, r) ==
    CompleteHasFacts(r) /\ ScopeBound(r) /\ Begin(c, "validation", r)

(* Variant: the review of an archive proof is not asked for. *)
RecordArchiveProofUnreviewed(c, r) ==
    CompleteHasFacts(r) /\ ScopeBound(r) /\ Begin(c, "archive", r)

RecordArchiveProof(c, r) ==
    /\ CompleteHasFacts(r) /\ ScopeBound(r) /\ requireCompleteProofReviewEvidence(r)
    /\ Begin(c, "archive", r)

RecordShimRetirementProof(c, r) ==
    /\ CompleteHasFacts(r) /\ ScopeBound(r) /\ requireCompleteProofReviewEvidence(r)
    /\ Begin(c, "shimRetirement", r)

RecordExecutionCutoverProof(c, r) ==
    /\ CompleteHasFacts(r) /\ ScopeBound(r) /\ requireCompleteProofReviewEvidence(r)
    /\ Begin(c, "executionCutover", r)

(* Only here is the binding compared with the current one, read from the files
   before the transaction begins.                                          *)
RecordSourceAlignmentProof(c, r) ==
    /\ CompleteHasFacts(r) /\ WellFormedBinding(r)
    /\ r.status = "complete" => r.binding = facts.source
    /\ Begin(c, "sourceAlignment", r)

RecordTaskMatrixProof(c, r) ==
    CompleteHasFacts(r) /\ WellFormedBinding(r) /\ Begin(c, "taskMatrix", r)

RecordSecurityClosureProof(c, r) ==
    CompleteHasFacts(r) /\ WellFormedBinding(r) /\ Begin(c, "securityClosure", r)

RecordBackupRestoreProof(c, r) ==
    CompleteHasFacts(r) /\ WellFormedBinding(r) /\ Begin(c, "backupRestore", r)

RecordReleasePackagingProof(c, r) ==
    CompleteHasFacts(r) /\ WellFormedBinding(r) /\ Begin(c, "releasePackaging", r)

(* A clean proof carries no git status output, an authorized one carries what
   was authorized; both cover the protected paths the code lists.          *)
RecordProtectedPathProof(c, r) ==
    /\ r.status = "authorized" => r.approved
    /\ r.status \in Good("protectedPath") => r.binding = InScope
    /\ Begin(c, "protectedPath", r)

RecordOperationsSmokeProof(c, r) == Begin(c, "smoke", r)

(* The default key is the request itself. *)
IdempotencyKey(kind, r) == <<kind, IF r.key = "default" THEN r ELSE r.key>>

(* The transaction: a new key inserts the command, event, audit event and
   response; a known one replays the response if the request is the same and
   fails otherwise.                                                        *)
Commit(c) ==
    LET call == calls[c]
        key == IdempotencyKey(call.kind, call.request)
    IN  /\ call.state = "recording"
        /\ calls' = [calls EXCEPT ![c] = Idle]
        /\ IF key \in {IdempotencyKey(p.kind, p.request) : p \in proofs}
           THEN UNCHANGED <<proofs, rows>>
           ELSE /\ rows' = rows + 1
                /\ proofs' = proofs \cup {[kind |-> call.kind, request |-> call.request,
                                           id |-> rows', at |-> call.at]}
        /\ UNCHANGED <<play, facts, clock, horizon, changes>>

(* A file is edited, a permission, an artifact or the release changes; none of
   these writes is a proof, but those in the database append rows.         *)
ChangeFact(f, v) ==
    /\ changes < play.changes
    /\ facts[f] # v
    /\ facts' = [facts EXCEPT ![f] = v]
    /\ changes' = changes + 1
    /\ rows' = IF f \in {"source", "tasks"} THEN rows ELSE rows + 1
    /\ UNCHANGED <<play, proofs, calls, clock, horizon>>

(* A day passes: the smoke proofs recorded so far are no longer fresh. *)
DayPasses ==
    /\ changes < play.changes
    /\ "smoke" \in play.kinds
    /\ horizon' = clock + 1
    /\ horizon # horizon'
    /\ changes' = changes + 1
    /\ UNCHANGED <<play, proofs, calls, facts, rows, clock>>

Recording(kind) == kind \in play.kinds /\ clock < play.records

Record(c) ==
    \/ Recording("validation") /\ \E r \in Requests("validation") : RecordValidationProof(c, r)
    \/ Recording("archive") /\ \E r \in Requests("archive") : RecordArchiveProof(c, r)
    \/ Recording("shimRetirement") /\ \E r \in Requests("shimRetirement") : RecordShimRetirementProof(c, r)
    \/ Recording("executionCutover") /\ \E r \in Requests("executionCutover") : RecordExecutionCutoverProof(c, r)
    \/ Recording("sourceAlignment") /\ \E r \in Requests("sourceAlignment") : RecordSourceAlignmentProof(c, r)
    \/ Recording("taskMatrix") /\ \E r \in Requests("taskMatrix") : RecordTaskMatrixProof(c, r)
    \/ Recording("securityClosure") /\ \E r \in Requests("securityClosure") : RecordSecurityClosureProof(c, r)
    \/ Recording("backupRestore") /\ \E r \in Requests("backupRestore") : RecordBackupRestoreProof(c, r)
    \/ Recording("releasePackaging") /\ \E r \in Requests("releasePackaging") : RecordReleasePackagingProof(c, r)
    \/ Recording("protectedPath") /\ \E r \in Requests("protectedPath") : RecordProtectedPathProof(c, r)
    \/ Recording("smoke") /\ \E r \in Requests("smoke") : RecordOperationsSmokeProof(c, r)

ProofsNext ==
    \/ \E c \in Calls : Record(c)
    \/ \E c \in Calls : Commit(c)
    \/ \E f \in play.facts : \E v \in Values(f) : ChangeFact(f, v)
    \/ DayPasses

=============================================================================
