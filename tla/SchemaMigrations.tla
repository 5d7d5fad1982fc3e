-------------------------- MODULE SchemaMigrations --------------------------
(***************************************************************************)
(* The schema migrations of internal/migrate: `migrate up`, run by several *)
(* processes of several builds, the approval and the out-of-band apply of  *)
(* the release exception migration (000012), and the checksums that        *)
(* migration 000013 adds to schema_migrations.                             *)
(*                                                                         *)
(* Five migrations stand for the twenty: core for those before the ledger  *)
(* migration 000011, then ledger, exceptions, checksums, and later for     *)
(* those after 000013.                                                     *)
(***************************************************************************)
EXTENDS Naturals, Sequences, FiniteSets

CONSTANTS
    Procs,         \* processes that run migration commands
    Builds,        \* builds of areaflow they may be
    HashOf,        \* the content of each migration a build embeds
    MaxRuns,       \* bound on the migrate up and apply runs
    MaxDecisions,  \* bound on the approvals, revocations and attestations
    Absent,        \* no row in schema_migrations
    NoHash         \* a row whose sha256 is NULL

Migrations == {"core", "ledger", "exceptions", "checksums", "later"}

(* List sorts the migrations by name. *)
Order == <<"core", "ledger", "exceptions", "checksums", "later">>

Hashes == UNION {{HashOf[b][m] : m \in DOMAIN HashOf[b]} : b \in Builds}

(* Migrations are only added at the end, so that a build has the first few;
   one that can apply 000012 alone has it.                                 *)
ASSUME SchemaMigrationsAssumption ==
    /\ Builds # {}
    /\ \A b \in Builds : \E n \in 3..5 : DOMAIN HashOf[b] = {Order[i] : i \in 1..n}
    /\ MaxRuns \in Nat
    /\ MaxDecisions \in Nat
    /\ Absent \notin Hashes
    /\ NoHash \notin Hashes \cup {Absent}

VARIABLES
    applied,    \* schema_migrations: the row of each migration, by its sha256
    approval,   \* the remediation row of 000012 in migration_ledger
    proc,       \* the migration command each process is running
    runs,       \* runs so far
    decisions,  \* approvals, revocations and attestations so far
    content,    \* history: the content that was applied
    attested,   \* history: rows whose hash an attestation filled in
    approved    \* history: the contents of 000012 that Approve has approved

vars == <<applied, approval, proc, runs, decisions, content, attested, approved>>

Idle == [pc |-> "idle", build |-> CHOOSE b \in Builds : TRUE, op |-> "up", at |-> 1,
         mine |-> {}, columns |-> FALSE]

(* Every process is at some point of a command of some build. *)
TypeOK ==
    /\ applied \in [Migrations -> Hashes \cup {Absent, NoHash}]
    /\ approval \in [status : {"none", "approved", "revoked", "ready"},
                     hash : Hashes \cup {NoHash}]
    /\ proc \in [Procs -> [pc : {"idle", "examine", "check", "apply", "commit", "record"},
                           build : Builds, op : {"up", "one"}, at : 1..Len(Order),
                           mine : SUBSET Migrations, columns : BOOLEAN]]
    /\ runs \in 0..MaxRuns
    /\ decisions \in 0..MaxDecisions
    /\ content \in [Migrations -> Hashes \cup {Absent}]
    /\ attested \subseteq Migrations
    /\ approved \subseteq Hashes

-----------------------------------------------------------------------------
Init ==
    /\ applied = [m \in Migrations |-> Absent]
    /\ approval = [status |-> "none", hash |-> NoHash]
    /\ proc = [p \in Procs |-> Idle]
    /\ runs = 0
    /\ decisions = 0
    /\ content = [m \in Migrations |-> Absent]
    /\ attested = {}
    /\ approved = {}

isApplied(m) == applied[m] # Absent

checksumColumnsExist == isApplied("checksums")

(* No recorded hash differs from the build's own. *)
rejectChecksumMismatch(b) ==
    checksumColumnsExist =>
        \A m \in DOMAIN HashOf[b] : applied[m] \in {Absent, NoHash, HashOf[b][m]}

(* Variant: rows without a hash are not counted. *)
requireNoMismatch(b) ==
    /\ checksumColumnsExist
    /\ rejectChecksumMismatch(b)

requireVerifiedChecksums(b) ==
    /\ checksumColumnsExist
    /\ rejectChecksumMismatch(b)
    /\ \A m \in Migrations : applied[m] # NoHash

approvalAllowsMigration(b) ==
    approval = [status |-> "approved", hash |-> HashOf[b]["exceptions"]]

(* What `migrate status` reports of a migration. *)
Statuses(b) ==
    [m \in DOMAIN HashOf[b] |->
        IF ~isApplied(m) THEN "pending"
        ELSE IF ~checksumColumnsExist \/ applied[m] = NoHash THEN "legacy_unverified"
        ELSE IF applied[m] = HashOf[b][m] THEN "verified" ELSE "mismatch"]

Set(p, f) == proc' = [proc EXCEPT ![p] = f]

(* The process moves on to pc; with "idle" its command ends. *)
Goto(p, pc) == Set(p, IF pc = "idle" THEN Idle ELSE [proc[p] EXCEPT !.pc = pc])

(* The loop of Up goes on to the next migration of the build. *)
NextMigration(p) ==
    LET later == {i \in (proc[p].at + 1)..Len(Order) : Order[i] \in DOMAIN HashOf[proc[p].build]}
    IN  IF proc[p].op = "one" \/ later = {}
        THEN Idle
        ELSE [proc[p] EXCEPT !.pc = "examine",
                             !.at = CHOOSE i \in later : \A j \in later : i <= j]

At(p) == Order[proc[p].at]

Begin(p, b, op, at) ==
    /\ proc[p].pc = "idle"
    /\ runs < MaxRuns
    /\ runs' = runs + 1
    /\ Set(p, [Idle EXCEPT !.pc = "examine", !.build = b, !.op = op, !.at = at])

(* migrate up: refused at once when a recorded hash is not this build's. *)
Up(p, b) ==
    /\ rejectChecksumMismatch(b)
    /\ Begin(p, b, "up", 1)
    /\ UNCHANGED <<applied, approval, decisions, content, attested, approved>>

(* release exceptions migration apply: 000012 alone, whatever else is applied. *)
ApplyApproved(p, b) ==
    /\ Begin(p, b, "one", 3)
    /\ UNCHANGED <<applied, approval, decisions, content, attested, approved>>

(* isApplied, by a query of its own. *)
Examine(p) ==
    /\ proc[p].pc = "examine"
    /\ IF isApplied(At(p)) THEN Set(p, NextMigration(p)) ELSE Goto(p, "check")
    /\ UNCHANGED <<applied, approval, runs, decisions, content, attested, approved>>

(* Up stops before a later migration while a row is unverified, and passes
   over 000012 unless it is approved as this build has it; ApplyApproved
   stops there.                                                            *)
Check(p) ==
    LET b == proc[p].build
    IN  /\ proc[p].pc = "check"
        /\ CASE At(p) = "later"      -> Goto(p, IF requireVerifiedChecksums(b)
                                                THEN "apply" ELSE "idle")
             [] At(p) = "exceptions" -> IF approvalAllowsMigration(b)
                                        THEN Goto(p, "apply")
                                        ELSE Set(p, NextMigration(p))
             [] OTHER                -> Goto(p, "apply")
        /\ UNCHANGED <<applied, approval, runs, decisions, content, attested, approved>>

(* The migration's SQL, and whether the row will carry a hash. *)
ApplySQL(p) ==
    /\ proc[p].pc = "apply"
    /\ Set(p, [proc[p] EXCEPT !.pc = "commit",
                              !.columns = checksumColumnsExist \/ At(p) = "checksums"])
    /\ UNCHANGED <<applied, approval, runs, decisions, content, attested, approved>>

(* Variant: the evidence is replaced. *)
replaceMigrationLedgerPhase(b) ==
    [status |-> "ready", hash |-> HashOf[b]["exceptions"]]

(* recordMigrationLedgerPhase on the remediation row: the evidence is merged,
   so an approval or a revocation recorded there stays.                    *)
recordMigrationLedgerPhase(b) ==
    [status |-> IF approval.status = "none" THEN "ready" ELSE approval.status,
     hash   |-> HashOf[b]["exceptions"]]

(* The rest of the transaction of apply: the row of schema_migrations, whose
   primary key fails a second apply, the ledger, and the commit.           *)
Apply(p) ==
    LET m == At(p)
        h == HashOf[proc[p].build][m]
    IN  /\ proc[p].pc = "commit"
        /\ IF isApplied(m)
           THEN /\ Goto(p, "idle")
                /\ UNCHANGED <<applied, approval, content>>
           ELSE /\ applied' = [applied EXCEPT ![m] = IF proc[p].columns THEN h ELSE NoHash]
                /\ content' = [content EXCEPT ![m] = h]
                /\ approval' = IF m = "exceptions"
                               THEN recordMigrationLedgerPhase(proc[p].build)
                               ELSE approval
                /\ Set(p, IF m = "checksums"
                          THEN [proc[p] EXCEPT !.pc = "record"]
                          ELSE [NextMigration(p) EXCEPT !.mine =
                                   IF proc[p].op = "up" /\ NextMigration(p) # Idle
                                   THEN proc[p].mine \cup {m} ELSE {}])
        /\ UNCHANGED <<runs, decisions, attested, approved>>

(* recordAppliedRunHashes: one statement for each migration this run applied
   before the columns existed.                                             *)
RecordAppliedRunHash(p) ==
    /\ proc[p].pc = "record"
    /\ \/ \E m \in proc[p].mine :
            /\ applied' = [applied EXCEPT ![m] = IF applied[m] = NoHash
                                                 THEN HashOf[proc[p].build][m]
                                                 ELSE applied[m]]
            /\ Set(p, [proc[p] EXCEPT !.mine = @ \ {m}])
       \/ /\ proc[p].mine = {}
          /\ Set(p, NextMigration(p))
          /\ UNCHANGED applied
    /\ UNCHANGED <<approval, runs, decisions, content, attested, approved>>

(* The process dies or loses the database: its transaction, if any, is
   rolled back, and what it had in mind is lost.                           *)
Crash(p) ==
    /\ proc[p].pc # "idle"
    /\ Goto(p, "idle")
    /\ UNCHANGED <<applied, approval, runs, decisions, content, attested, approved>>

Decide ==
    /\ decisions < MaxDecisions
    /\ decisions' = decisions + 1

(* Needs the table that migration 000011 creates. *)
Approve(b) ==
    /\ Decide
    /\ isApplied("ledger")
    /\ approval' = [status |-> "approved", hash |-> HashOf[b]["exceptions"]]
    /\ approved' = approved \cup {HashOf[b]["exceptions"]}
    /\ UNCHANGED <<applied, proc, runs, content, attested>>

Revoke(b) ==
    /\ Decide
    /\ approval.status # "none"
    /\ approval' = [status |-> "revoked", hash |-> HashOf[b]["exceptions"]]
    /\ UNCHANGED <<applied, proc, runs, content, attested, approved>>

(* An operator vouches for every row without a hash with the build they run. *)
AttestLegacyHashes(b) ==
    LET legacy == {m \in Migrations : applied[m] = NoHash}
    IN  /\ Decide
        /\ checksumColumnsExist
        /\ \A m \in Migrations : isApplied(m) => m \in DOMAIN HashOf[b]
        /\ rejectChecksumMismatch(b)
        /\ applied' = [m \in Migrations |-> IF m \in legacy THEN HashOf[b][m] ELSE applied[m]]
        /\ attested' = attested \cup legacy
        /\ UNCHANGED <<approval, proc, runs, content, approved>>

Next ==
    \/ \E p \in Procs, b \in Builds : Up(p, b) \/ ApplyApproved(p, b)
    \/ \E p \in Procs :
          Examine(p) \/ Check(p) \/ ApplySQL(p) \/ Apply(p) \/ RecordAppliedRunHash(p) \/ Crash(p)
    \/ \E b \in Builds : Approve(b) \/ Revoke(b) \/ AttestLegacyHashes(b)

Spec == Init /\ [][Next]_vars

-----------------------------------------------------------------------------
(* The content of 000012 that was applied had been approved by Approve, hash
   for hash, whoever applied it: Up or ApplyApproved, of whatever build.   *)
ExceptionsWereApproved ==
    isApplied("exceptions") => content["exceptions"] \in approved

(* Whatever crashed and whichever processes raced, migrations are applied in
   the order of their names, except 000012, which only needs the ledger.   *)
AppliedInOrder ==
    \A i, j \in 1..Len(Order) :
        i < j /\ isApplied(Order[j]) /\ Order[i] # "exceptions"
            => isApplied(Order[i])

(* A migration that `migrate status` reports as verified is, byte for byte,
   the one that was applied, unless an operator vouched for it.            *)
VerifiedIsApplied ==
    \A b \in Builds, m \in Migrations \ attested :
        m \in DOMAIN HashOf[b] /\ Statuses(b)[m] = "verified" => content[m] = HashOf[b][m]

(* Once a migration after 000013 is applied every row has its hash: a crash
   between 000013 and recordAppliedRunHashes stops later migrations until
   the rows are attested.  Only 000012, applied out of band beside 000013,
   can still turn up without one.                                          *)
LaterAppliedVerified ==
    isApplied("later") => \A m \in Migrations \ {"exceptions"} : applied[m] # NoHash

(* Crashes, races and builds that differ leave the schema accounted for: what
   was applied is in order and approved, and a hash on record tells the truth
   (Up, ApplyApproved, requireVerifiedChecksums, recordAppliedRunHashes).  *)
SchemaIsAccounted ==
    ExceptionsWereApproved /\ AppliedInOrder /\ VerifiedIsApplied /\ LaterAppliedVerified

(* To the rest of the system, all this is one decision row and at most one
   apply of an approved content: applying neither loses an approval nor
   brings a revoked one back.                                              *)
Migration ==
    INSTANCE ExceptionMigration
        WITH Contents <- {HashOf[b]["exceptions"] : b \in Builds},
             NoContent <- NoHash,
             migrated <- IF isApplied("exceptions") THEN content["exceptions"] ELSE NoHash

ImplementsExceptionMigration == Migration!MigrationSpec

=============================================================================
