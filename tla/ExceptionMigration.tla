------------------------- MODULE ExceptionMigration -------------------------
(***************************************************************************)
(* What the rest of AreaFlow may assume of migration 000012, which creates *)
(* release_exceptions: decisions about it follow each other in one row of  *)
(* migration_ledger, and it is applied at most once, with a content that   *)
(* had been approved, which leaves the decision as it was.                 *)
(***************************************************************************)
CONSTANTS
    Contents,   \* contents of 000012 in the builds of areaflow
    NoContent   \* not applied, or no decision yet

VARIABLES
    approval,   \* the decision recorded: its status and the content it is for
    migrated,   \* the content that was applied
    approved    \* history: the contents that have been approved

migrationVars == <<approval, migrated, approved>>

MigrationInit ==
    /\ approval = [status |-> "none", hash |-> NoContent]
    /\ migrated = NoContent
    /\ approved = {}

ApproveMigration(h) ==
    /\ approval' = [status |-> "approved", hash |-> h]
    /\ approved' = approved \cup {h}
    /\ UNCHANGED migrated

RevokeMigration(h) ==
    /\ approval.status # "none"
    /\ approval' = [status |-> "revoked", hash |-> h]
    /\ UNCHANGED <<migrated, approved>>

(* The approval was looked at some time before. *)
ApplyMigration(h) ==
    /\ h \in approved
    /\ migrated = NoContent
    /\ migrated' = h
    /\ approval' = [approval EXCEPT !.hash = h]
    /\ UNCHANGED approved

MigrationNext ==
    \E h \in Contents : ApproveMigration(h) \/ RevokeMigration(h) \/ ApplyMigration(h)

MigrationSpec == MigrationInit /\ [][MigrationNext]_migrationVars

=============================================================================
