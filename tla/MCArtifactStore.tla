-------------------------- MODULE MCArtifactStore ---------------------------
(***************************************************************************)
(* Instances of ArtifactMigration and BackupPackages for TLC, one at a     *)
(* time: what is not played stays as it is.  Migration: an artifact on the *)
(* local disk, and two places copies may go to, another directory of the   *)
(* local backend and the bucket.  Backup: one package directory, an        *)
(* artifact on the local disk and another that is in the bucket or is not  *)
(* there yet.                                                              *)
(***************************************************************************)
EXTENDS ArtifactMigration, BackupPackages, TLC

CONSTANTS
    bucket,
    FirstDrill,
    Plays,   \* the parts that are played, "migration" and "backup"
    Budget   \* bound on what happens besides one backup and one drill

VARIABLE play

MCBackendOf == [u \in URIs |-> IF u = bucket THEN "s3" ELSE "local"]
MCDatabaseOf == [p \in Packages |-> "areaflow_drill"]

MCInit ==
    /\ Init
    /\ BackupInit
    /\ play \in Plays
    /\ source.rows[1] = "local"
    /\ source.rows[2] \in (IF play = "backup" THEN {"none", "s3"} ELSE {"none"})

MCNext ==
    \/ /\ play = "migration"
       /\ Next
       /\ UNCHANGED <<play, backupVars>>
    \/ /\ play = "backup"
       /\ BackupNext
       /\ UNCHANGED <<play, vars>>

MCSpec == MCInit /\ [][MCNext]_<<play, vars, backupVars>>

(* Drill runners are alike: the first is used while it is free. *)
FirstRunner == \A d \in DrillRunners : drill[d] # Nothing /\ drill[d].id = 1 => d = FirstDrill

One(b) == IF b THEN 1 ELSE 0

WithinBudget ==
    /\ FirstRunner
    /\ wrote + mishaps + cleanups + One(created > 1) + One(drilled > 1) <= Budget

Symmetry == Permutations(Copiers) \cup Permutations(Creators)

=============================================================================
