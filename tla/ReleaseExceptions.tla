------------------------- MODULE ReleaseExceptions --------------------------
(***************************************************************************)
(* The release exceptions of one project: requested from a draft of the    *)
(* record preview, approved or revoked, and in force until they expire.    *)
(* Each command checks the migration approval (and a request its draft)    *)
(* with queries of its own, then changes the record in one transaction     *)
(* that reserves the idempotency key.                                      *)
(***************************************************************************)
EXTENDS ExceptionMigration, ReleaseChain

CONSTANTS
    OwnContent,    \* 000012 as the running build has it
    Calls,         \* commands sent
    Keys,          \* idempotency keys callers choose
    ArtifactSets,  \* the artifacts the project may have
    ItemsRequested, \* the items exceptions are requested for
    Reported,      \* the verdicts the doctors may come to report
    Requirements,  \* audit requirements that may still lack an action
    MaxDecisions,  \* bound on the decisions about the migration
    MaxChanges     \* bound on the changes of the project

ASSUME ReleaseExceptionsAssumption ==
    /\ OwnContent \in Contents
    /\ NoContent \notin Contents
    /\ \A A \in ArtifactSets : A \subseteq Artifacts
    /\ ItemsRequested \subseteq Acceptable
    /\ Reported \subseteq Verdicts
    /\ MaxDecisions \in Nat
    /\ MaxChanges \in Nat

VARIABLES
    facts,      \* the project, as the evaluations read it
    records,    \* release_exceptions, by the item they are for
    commands,   \* completed commands: type, item and key
    call,       \* the commands in progress
    decisions,  \* decisions about the migration so far
    changes     \* changes of the project so far

exceptionVars == <<migrationVars, facts, records, commands, call, decisions, changes>>

NoCall == [phase |-> "none", op |-> "request", item |-> "restore", key |-> CHOOSE k \in Keys : TRUE]

Done == [NoCall EXCEPT !.phase = "done"]

ExceptionsTypeOK ==
    /\ approval \in [status : {"none", "approved", "revoked"}, hash : Contents \cup {NoContent}]
    /\ migrated \in Contents \cup {NoContent}
    /\ facts \in [artifacts : ArtifactSets, unaudited : SUBSET Requirements,
                  permission : Verdicts, conformance : Verdicts]
    /\ records \in [Acceptable -> [status : {"none", "requested", "approved", "revoked"},
                                   expired : BOOLEAN]]
    /\ commands \subseteq [op : {"request", "approve", "revoke"}, item : Acceptable, key : Keys]
    /\ call \in [Calls -> [phase : {"none", "draft", "commit", "done"}, key : Keys,
                           op : {"request", "approve", "revoke"}, item : Acceptable]]

(* A new database, or one in which exceptions have been in use: 000012 was
   approved and applied, and an exception is in force.                     *)
ExceptionsInit ==
    /\ \/ /\ MigrationInit
          /\ records = [i \in Acceptable |-> [status |-> "none", expired |-> FALSE]]
       \/ /\ approval = [status |-> "approved", hash |-> OwnContent]
          /\ migrated = OwnContent
          /\ approved = {OwnContent}
          /\ \E e \in ItemsRequested :
                records = [i \in Acceptable |->
                             [status |-> IF i = e THEN "approved" ELSE "none", expired |-> FALSE]]
    /\ facts \in [artifacts : ArtifactSets, unaudited : {Requirements},
                  permission : {"pass"}, conformance : {"pass"}]
    /\ commands = {}
    /\ call = [c \in Calls |-> NoCall]
    /\ decisions = 0
    /\ changes = 0

-----------------------------------------------------------------------------
ApprovalEffective == approval = [status |-> "approved", hash |-> OwnContent]

(* Exceptions count while the migration is applied and its approval stands. *)
Enabled == ApprovalEffective /\ migrated # NoContent

EffectiveReleaseExceptions ==
    {i \in Acceptable : records[i].status = "approved" /\ ~records[i].expired}

(* The exceptions the acceptance gate of the project looks at. *)
ExceptionsConsidered == IF Enabled THEN EffectiveReleaseExceptions ELSE {}

Drafts ==
    BuildReleaseExceptionRecordPreview(AcceptanceGate(ReleaseItems(facts), ExceptionsConsidered))

(* The approval is looked at first. *)
Send(c, op, i, k) ==
    /\ call[c].phase = "none"
    /\ migrated # NoContent
    /\ op # "revoke" => ApprovalEffective
    /\ call' = [call EXCEPT ![c] = [phase |-> IF op = "request" THEN "draft" ELSE "commit",
                                    op |-> op, item |-> i, key |-> k]]
    /\ UNCHANGED <<migrationVars, facts, records, commands, decisions, changes>>

(* A request needs a draft; without one it fails. *)
ReadDraft(c) ==
    LET i == call[c].item
    IN  /\ call[c].phase = "draft"
        /\ call' = [call EXCEPT ![c] = IF i \in DOMAIN Drafts /\ Drafts[i] = "draft"
                                       THEN [@ EXCEPT !.phase = "commit"] ELSE Done]
        /\ UNCHANGED <<migrationVars, facts, records, commands, decisions, changes>>

Command(c) == [op |-> call[c].op, item |-> call[c].item, key |-> call[c].key]

(* upsertRequestedReleaseException takes over only a record that has ended;
   validateReleaseExceptionTransition allows the rest.                     *)
TransitionAllowed(op, status) ==
    CASE op = "request" -> status \in {"none", "revoked"}
      [] op = "approve" -> status = "requested"
      [] op = "revoke"  -> status \in {"requested", "approved"}

(* The record after the command; a request brings its own expiry. *)
Changed(op, record) ==
    CASE op = "request" -> [status |-> "requested", expired |-> FALSE]
      [] op = "approve" -> [record EXCEPT !.status = "approved"]
      [] op = "revoke"  -> [record EXCEPT !.status = "revoked"]

(* The transaction: a repeated key replays, a transition that is not allowed
   rolls back, and else record, audit event and response commit together.  *)
Commit(c) ==
    LET i == call[c].item
        op == call[c].op
        fresh == Command(c) \notin commands /\ TransitionAllowed(op, records[i].status)
    IN  /\ call[c].phase = "commit"
        /\ records' = IF fresh THEN [records EXCEPT ![i] = Changed(op, records[i])] ELSE records
        /\ commands' = IF fresh THEN commands \cup {Command(c)} ELSE commands
        /\ call' = [call EXCEPT ![c] = Done]
        /\ UNCHANGED <<migrationVars, facts, decisions, changes>>

(* Time passes expires_at of an exception that has one. *)
Expire(i) ==
    /\ records[i].status \in {"requested", "approved"}
    /\ ~records[i].expired
    /\ records' = [records EXCEPT ![i].expired = TRUE]
    /\ UNCHANGED <<migrationVars, facts, commands, call, decisions, changes>>

(* The project changes: artifacts, configuration and profile either way, the
   audit trail, which is append-only, only for the better.                 *)
ChangeProject ==
    /\ changes < MaxChanges
    /\ changes' = changes + 1
    /\ \/ \E A \in ArtifactSets : facts' = [facts EXCEPT !.artifacts = A]
       \/ \E U \in SUBSET facts.unaudited : facts' = [facts EXCEPT !.unaudited = U]
       \/ \E v \in Reported : facts' = [facts EXCEPT !.permission = v]
       \/ \E v \in Reported : facts' = [facts EXCEPT !.conformance = v]
    /\ facts' # facts
    /\ UNCHANGED <<migrationVars, records, commands, call, decisions>>

DecideMigration ==
    /\ decisions < MaxDecisions
    /\ decisions' = decisions + 1
    /\ \E h \in Contents : ApproveMigration(h) \/ RevokeMigration(h)
    /\ UNCHANGED <<facts, records, commands, call, changes>>

Migrate ==
    /\ \E h \in Contents : ApplyMigration(h)
    /\ UNCHANGED <<facts, records, commands, call, decisions, changes>>

ExceptionsNext ==
    \/ \E c \in Calls, op \in {"request", "approve", "revoke"}, i \in ItemsRequested, k \in Keys :
          Send(c, op, i, k)
    \/ \E c \in Calls : ReadDraft(c) \/ Commit(c)
    \/ \E i \in Acceptable : Expire(i)
    \/ ChangeProject
    \/ DecideMigration
    \/ Migrate

=============================================================================
