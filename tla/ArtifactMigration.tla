------------------------- MODULE ArtifactMigration --------------------------
(***************************************************************************)
(* Moving one artifact between storage backends: copy, activate, complete  *)
(* the observation, and the reads that go on meanwhile.                    *)
(*                                                                         *)
(* A copy reads the artifact, writes the target and reads it back before   *)
(* its transaction; activation and completion are one transaction each,    *)
(* under the lock of the artifact.  The content has one hash throughout,   *)
(* so of what is stored at a URI only this matters: nothing, the content,  *)
(* or something else.                                                      *)
(***************************************************************************)
EXTENDS Naturals, Sequences, FiniteSets

CONSTANTS
    Copiers,         \* processes that run artifact migration copy
    Original,        \* the URI the artifact was created at
    Targets,         \* the URIs copies go to, one for each backend and root
    BackendOf,       \* the backend of each URI: "local" or "s3"
    MaxCopies,       \* bound on the copies
    MaxActivations,  \* bound on the activations
    MaxFaults        \* bound on the losses of content and the crashes

URIs == Targets \cup {Original}

ASSUME ArtifactMigrationAssumption ==
    /\ IsFiniteSet(Copiers)
    /\ Original \notin Targets
    /\ BackendOf \in [URIs -> {"local", "s3"}]
    /\ \A n \in {MaxCopies, MaxActivations, MaxFaults} : n \in Nat

VARIABLES
    store,        \* what each URI holds: "absent", "intact" or "torn"
    artifact,     \* the row of artifacts: where it is, its migration status
    due,          \* the observation deadline recorded there has passed
    locations,    \* artifact_locations, in the order of their ids
    copier,       \* the copy each process is at
    copies,       \* copies so far
    activations,  \* activations so far
    faults        \* faults so far

vars == <<store, artifact, due, locations, copier, copies, activations, faults>>

Roles == {"primary", "migration_candidate", "migration_source"}
Idle == [pc |-> "idle", source |-> Original, target |-> Original]

(* The tables and the stores hold what the commands put there. *)
TypeOK ==
    /\ store \in [URIs -> {"absent", "intact", "torn"}]
    /\ artifact \in [uri : URIs, status : {"none", "observing", "stable"}]
    /\ due \in BOOLEAN
    /\ locations \in Seq([role : Roles, uri : URIs, verified : BOOLEAN,
                          status : {"retained", "verified", "observing", "stable"}])
    /\ copier \in [Copiers -> [pc : {"idle", "write", "writing", "verify", "commit"},
                               source : URIs, target : URIs]]
    /\ copies \in 0..MaxCopies
    /\ activations \in 0..MaxActivations
    /\ faults \in 0..MaxFaults

Init ==
    /\ store = [u \in URIs |-> IF u = Original THEN "intact" ELSE "absent"]
    /\ artifact = [uri |-> Original, status |-> "none"]
    /\ due = FALSE
    /\ locations = <<>>
    /\ copier = [c \in Copiers |-> Idle]
    /\ copies = 0
    /\ activations = 0
    /\ faults = 0

Ids == 1..Len(locations)

-----------------------------------------------------------------------------
(* INSERT ... ON CONFLICT (artifact_id, location_role, uri) DO UPDATE: a row
   of that role and URI takes the new values, and keeps its verified_at when
   the new one is null.                                                    *)
upsertArtifactLocation(rows, role, uri, verified, status) ==
    LET same == {i \in 1..Len(rows) : rows[i].role = role /\ rows[i].uri = uri}
    IN  IF same = {}
        THEN Append(rows, [role |-> role, uri |-> uri, verified |-> verified, status |-> status])
        ELSE [i \in 1..Len(rows) |->
                IF i \in same
                THEN [rows[i] EXCEPT !.verified = @ \/ verified, !.status = status]
                ELSE rows[i]]

Step(c, pc) == copier' = [copier EXCEPT ![c].pc = pc]

(* The record is read and its content read and checked: no other location is
   tried.                                                                  *)
CopyRead(c, t) ==
    /\ copier[c].pc = "idle"
    /\ copies < MaxCopies
    /\ copies' = copies + 1
    /\ store[artifact.uri] = "intact"
    /\ copier' = [copier EXCEPT ![c] = [pc |-> "write", source |-> artifact.uri, target |-> t]]
    /\ UNCHANGED <<store, artifact, due, locations, activations, faults>>

(* Content someone counts on: a recorded location, or a copy that was verified. *)
Relied(u) ==
    \/ \E i \in Ids : locations[i].uri = u
    \/ \E c \in Copiers : copier[c].pc = "commit" /\ copier[c].target = u

(* PutObject is one request with a checksum.  os.WriteFile truncates the file
   first, and may leave something else there, which is a fault when it ruins
   content that was relied on.                                             *)
CopyWrite(c) ==
    LET t == copier[c].target
    IN  /\ \/ /\ copier[c].pc = "write"
              /\ BackendOf[t] = "local"
              /\ store' = [store EXCEPT ![t] = "torn"]
              /\ Step(c, "writing")
              /\ UNCHANGED faults
           \/ /\ \/ copier[c].pc = "write" /\ BackendOf[t] = "s3"
                 \/ copier[c].pc = "writing"
              /\ store' = [store EXCEPT ![t] = "intact"]
              /\ Step(c, "verify")
              /\ UNCHANGED faults
           \/ /\ copier[c].pc = "writing"
              /\ Relied(t) => faults < MaxFaults
              /\ faults' = IF Relied(t) THEN faults + 1 ELSE faults
              /\ Step(c, "verify")
              /\ UNCHANGED store
        /\ UNCHANGED <<artifact, due, locations, copies, activations>>

(* Variant: what was written is not read back. *)
CopyVerifyNot(c) ==
    /\ copier[c].pc = "verify"
    /\ Step(c, "commit")
    /\ UNCHANGED <<store, artifact, due, locations, copies, activations, faults>>

(* The target is read back, and the copy fails unless it holds the content. *)
CopyVerify(c) ==
    /\ copier[c].pc = "verify"
    /\ IF store[copier[c].target] = "intact"
       THEN Step(c, "commit")
       ELSE copier' = [copier EXCEPT ![c] = Idle]
    /\ UNCHANGED <<store, artifact, due, locations, copies, activations, faults>>

(* The transaction: where the content was read, and where it is now too. *)
CopyCommit(c) ==
    /\ copier[c].pc = "commit"
    /\ locations' = upsertArtifactLocation(
                        upsertArtifactLocation(locations, "migration_source",
                                               copier[c].source, FALSE, "retained"),
                        "migration_candidate", copier[c].target, TRUE, "verified")
    /\ copier' = [copier EXCEPT ![c] = Idle]
    /\ UNCHANGED <<store, artifact, due, copies, activations, faults>>

(* The rows after the promotion of location t. *)
Promoted(t) ==
    [i \in Ids |->
        IF i = t
        THEN [locations[i] EXCEPT !.role = "primary", !.status = "observing"]
        ELSE [locations[i] EXCEPT !.role = IF @ = "primary" THEN "migration_source" ELSE @,
                                  !.status = "retained"]]

SameRow(a, b) == a.role = b.role /\ a.uri = b.uri

(* The unique index on role and URI refuses the promotion.  (It may also refuse
   one it would accept as a whole, as rows are updated one by one.)        *)
Refused(t) == \E i, j \in Ids : i < j /\ SameRow(Promoted(t)[i], Promoted(t)[j])

(* Variant: the location that was primary keeps its role. *)
ActivateBeside(t) ==
    /\ activations < MaxActivations
    /\ locations[t].verified
    /\ activations' = activations + 1
    /\ locations' = [locations EXCEPT ![t].role = "primary", ![t].status = "observing"]
    /\ artifact' = [uri |-> locations[t].uri, status |-> "observing"]
    /\ due' = FALSE
    /\ UNCHANGED <<store, copier, copies, faults>>

(* The location the artifact was at is kept: a row for it is only marked. *)
Retain(rows, uri) ==
    LET same == {i \in 1..Len(rows) : rows[i].role = "migration_source" /\ rows[i].uri = uri}
    IN  IF same = {}
        THEN Append(rows, [role |-> "migration_source", uri |-> uri, verified |-> TRUE,
                           status |-> "retained"])
        ELSE [i \in 1..Len(rows) |->
                IF i \in same THEN [rows[i] EXCEPT !.status = "retained"] ELSE rows[i]]

(* Activation makes a verified location the primary one and points the artifact
   to it; the new deadline is in the future.                               *)
ActivateArtifactLocation(t) ==
    /\ activations < MaxActivations
    /\ locations[t].verified
    /\ ~Refused(t)
    /\ activations' = activations + 1
    /\ locations' = Retain(Promoted(t), artifact.uri)
    /\ artifact' = [uri |-> locations[t].uri, status |-> "observing"]
    /\ due' = FALSE
    /\ UNCHANGED <<store, copier, copies, faults>>

PassDeadline ==
    /\ artifact.status = "observing"
    /\ ~due
    /\ due' = TRUE
    /\ UNCHANGED <<store, artifact, locations, copier, copies, activations, faults>>

(* A stable artifact is left as it is. *)
CompleteArtifactObservation ==
    LET primary == {i \in Ids : locations[i].role = "primary" /\ locations[i].verified}
    IN  /\ artifact.status = "observing"
        /\ due
        /\ Cardinality(primary) = 1
        /\ locations' = [i \in Ids |-> IF i \in primary
                                       THEN [locations[i] EXCEPT !.status = "stable"]
                                       ELSE locations[i]]
        /\ artifact' = [artifact EXCEPT !.status = "stable"]
        /\ UNCHANGED <<store, due, copier, copies, activations, faults>>

(* Content is lost or damaged where it is stored. *)
LoseContent(u) ==
    /\ faults < MaxFaults
    /\ store[u] = "intact"
    /\ store' = [store EXCEPT ![u] = "torn"]
    /\ faults' = faults + 1
    /\ UNCHANGED <<artifact, due, locations, copier, copies, activations>>

Crash(c) ==
    /\ faults < MaxFaults
    /\ copier[c].pc # "idle"
    /\ copier' = [copier EXCEPT ![c] = Idle]
    /\ faults' = faults + 1
    /\ UNCHANGED <<store, artifact, due, locations, copies, activations>>

Next ==
    \/ \E c \in Copiers, t \in Targets : CopyRead(c, t)
    \/ \E c \in Copiers : CopyWrite(c) \/ CopyVerify(c) \/ CopyCommit(c) \/ Crash(c)
    \/ \E t \in Ids : ActivateArtifactLocation(t)
    \/ PassDeadline
    \/ CompleteArtifactObservation
    \/ \E u \in URIs : LoseContent(u)

Spec == Init /\ [][Next]_vars

-----------------------------------------------------------------------------
(* GetArtifactContent finds the content: where the artifact points, or at a
   location it falls back to, a source only during the observation.        *)
GetArtifactContent ==
    \/ store[artifact.uri] = "intact"
    \/ \E i \in Ids :
          /\ locations[i].uri # artifact.uri
          /\ locations[i].role = "migration_source" => artifact.status = "observing"
          /\ store[locations[i].uri] = "intact"

(* What the inventory reports with backend b as the target: the location of
   that backend is the primary one if there is one, else the one verified
   last.                                                                   *)
artifactMigrationStatus(b) ==
    LET there == {i \in Ids : BackendOf[locations[i].uri] = b}
        primary == {i \in there : locations[i].role = "primary"}
    IN  IF primary # {}
        THEN LET status == locations[CHOOSE i \in primary : TRUE].status
             IN  IF status \in {"observing", "stable"} THEN status ELSE "activated"
        ELSE IF \E i \in there : locations[i].verified THEN "verified" ELSE "pending"

(* However copies that read the artifact before an activation end after it,
   the artifact and its locations agree: once activated, there is one primary
   location, verified, it is where the artifact points, and it is observing or
   stable as the artifact is, so that completion always finds its one row. *)
OnePrimary ==
    LET primary == {i \in Ids : locations[i].role = "primary"}
    IN  IF artifact.status = "none"
        THEN primary = {}
        ELSE /\ Cardinality(primary) = 1
             /\ \A i \in primary : locations[i] = [role |-> "primary", uri |-> artifact.uri,
                                                   verified |-> TRUE, status |-> artifact.status]

(* The inventory reports an artifact as activated for the backend it is at and
   for no other.                                                           *)
InventoryIsRight ==
    \A b \in {"local", "s3"} :
        IF artifact.status # "none" /\ BackendOf[artifact.uri] = b
        THEN artifactMigrationStatus(b) = artifact.status
        ELSE artifactMigrationStatus(b) \in {"pending", "verified"}

(* Whatever the order of copies, activations and completions, the artifact, its
   locations and the inventory tell the same (ActivateArtifactLocation,
   CompleteArtifactObservation, artifactMigrationStatus).                  *)
LocationsAgree == OnePrimary /\ InventoryIsRight

(* Copies in the middle of overwriting the location the artifact points to. *)
InPlace == {c \in Copiers : copier[c].pc = "writing" /\ copier[c].target = artifact.uri}

(* The content can be read throughout a migration, whatever bad copies the
   read-back caught; during the observation it can be read even if one location
   is lost, one copy crashes or one copy is overwriting the primary location.
   (A stable artifact has no such reserve.)                                *)
ReadableThroughout ==
    faults + Cardinality(InPlace) <= (IF artifact.status = "observing" THEN 1 ELSE 0)
        => GetArtifactContent

=============================================================================
