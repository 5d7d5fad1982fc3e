--------------------------- MODULE BackupPackages ---------------------------
(***************************************************************************)
(* Backup packages: backup create dumps the database, counts its tables and *)
(* copies the local artifacts into a directory, with a manifest at the end; *)
(* backup drill verifies the package and restores it beside the source.     *)
(*                                                                         *)
(* --quiesced is the operator's word: nothing stops the writers.  Each step *)
(* below is one statement, external program or file operation, so writers,  *)
(* other backups and other drills come in between, and processes may stop.  *)
(* An artifact's content never changes, so of a file only this matters:     *)
(* absent, intact, or something else.                                       *)
(***************************************************************************)
EXTENDS Naturals, Sequences, FiniteSets

CONSTANTS
    Creators,      \* processes that run backup create
    DrillRunners,  \* processes that run backup drill
    Packages,      \* the package directories
    DatabaseOf,    \* the drill database of each package
    LastArtifact,  \* artifacts have ids 1..LastArtifact
    MaxCreates,    \* bound on the backups
    MaxDrills,     \* bound on the drills
    MaxWrites,     \* bound on the commands that write artifacts
    MaxMishaps,    \* bound on damage, losses, failures and crashes
    MaxCleanups,   \* bound on the operator's cleaning up after drills
    Nothing,       \* no process step, no dump, no manifest, no database
    Garbled        \* a dump or a manifest that is not what was written

ArtifactIds == 1..LastArtifact
DrillDatabases == {DatabaseOf[p] : p \in Packages}

ASSUME BackupAssumption ==
    \A n \in {LastArtifact, MaxCreates, MaxDrills, MaxWrites, MaxMishaps, MaxCleanups} :
        n \in Nat

VARIABLES
    source,     \* the database: the backend of each artifact row, the audit rows
    disk,       \* the local artifact files
    packages,   \* what the package directories hold
    creator,    \* the backup each process is at
    drill,      \* the drill each process is at
    databases,  \* the drill databases: whose, and what was restored
    roots,      \* the artifact root drills of a package restore to
    audits,     \* the audit rows of drills
    outcomes,   \* what the drills told their callers
    created,    \* backups so far
    drilled,    \* drills so far
    wrote,      \* writes so far
    mishaps,    \* mishaps so far
    cleanups    \* clean-ups so far

sourceVars == <<source, disk, wrote>>
drillVars == <<drill, databases, roots, audits, outcomes, drilled, cleanups>>
backupVars == <<sourceVars, packages, creator, drillVars, created, mishaps>>

Backends == {"none", "local", "s3"}
FileStates == {"absent", "intact", "damaged"}
NoFiles == [a \in ArtifactIds |-> "absent"]
Tables == <<"artifacts", "audit_events">>

(* count( * ) of a table, in the database or in what was restored of it. *)
RowCount(db, table) ==
    IF table = "artifacts" THEN Cardinality({a \in ArtifactIds : db.rows[a] # "none"})
    ELSE db.audits

Snapshots == [rows : [ArtifactIds -> Backends], audits : 0..(MaxWrites + MaxDrills)]
Emptied == [made |-> FALSE, dump |-> Nothing, files |-> NoFiles, manifest |-> Nothing]

(* Two ghosts: late, whether a writer came between the last count and the
   listing of the artifacts; quiet, whether none came since the dump.      *)
Manifests ==
    [dump : Snapshots \cup {Garbled},
     counts : [1..2 -> 0..(MaxWrites + MaxDrills + LastArtifact)],
     files : [ArtifactIds -> {"none", "included", "missing", "referenced"}],
     late : BOOLEAN, quiet : BOOLEAN]

(* Directories, databases and processes hold what the commands put there. *)
BackupTypeOK ==
    /\ source \in Snapshots
    /\ disk \in [ArtifactIds -> FileStates]
    /\ \A p \in Packages :
         /\ packages[p].made \in BOOLEAN
         /\ packages[p].dump \in Snapshots \cup {Nothing, Garbled}
         /\ packages[p].files \in [ArtifactIds -> FileStates]
         /\ packages[p].manifest \in Manifests \cup {Nothing, Garbled}
    /\ \A n \in DrillDatabases : databases[n] # Nothing =>
         databases[n].content \in Snapshots \cup {Nothing}
    /\ roots \in [Packages -> [ArtifactIds -> FileStates]]
    /\ \A x \in audits : x.decision \in {"allowed", "blocked"} /\ x.drill \in 1..drilled
    /\ \A c \in Creators : creator[c] # Nothing => creator[c].manifest \in Manifests
    /\ \A d \in DrillRunners : drill[d] # Nothing => drill[d].manifest \in Manifests

(* Some artifacts are there already, one of them perhaps in the bucket. *)
BackupInit ==
    /\ source \in [rows : [ArtifactIds -> Backends], audits : {0}]
    /\ disk = [a \in ArtifactIds |-> IF source.rows[a] = "local" THEN "intact" ELSE "absent"]
    /\ packages = [p \in Packages |-> Emptied]
    /\ creator = [c \in Creators |-> Nothing]
    /\ drill = [d \in DrillRunners |-> Nothing]
    /\ databases = [n \in DrillDatabases |-> Nothing]
    /\ roots = [p \in Packages |-> NoFiles]
    /\ audits = {}
    /\ outcomes = {}
    /\ created = 0
    /\ drilled = 0
    /\ wrote = 0
    /\ mishaps = 0
    /\ cleanups = 0

-----------------------------------------------------------------------------
(* The writers.  A command that stores an artifact, or moves one to the bucket,
   adds audit rows in the same transaction.                                *)
Noticed(c) ==
    IF creator[c] = Nothing THEN Nothing
    ELSE [creator[c] EXCEPT !.manifest.late = @ \/ creator[c].pc = "list",
                            !.manifest.quiet = @ /\ creator[c].pc \notin {"hash", "count", "list"}]

WriterWrites(a, backend) ==
    /\ wrote < MaxWrites
    /\ wrote' = wrote + 1
    /\ <<source.rows[a], backend>> \in {<<"none", "local">>, <<"local", "s3">>}
    /\ source' = [rows |-> [source.rows EXCEPT ![a] = backend], audits |-> source.audits + 1]
    /\ disk' = [disk EXCEPT ![a] = IF backend = "local" THEN "intact" ELSE @]
    /\ creator' = [c \in Creators |-> Noticed(c)]
    /\ UNCHANGED <<packages, drillVars, created, mishaps>>

-----------------------------------------------------------------------------
(* Create *)
CreateAt(c, pc) == creator[c] # Nothing /\ creator[c].pc = pc

(* A ghost: the package was written to while these drills were at it. *)
Tamper(p) ==
    drill' = [d \in DrillRunners |->
                IF drill[d] = Nothing THEN Nothing
                ELSE [drill[d] EXCEPT !.tampered = @ \/ drill[d].package = p]]

NewCreate(p) ==
    [pc |-> "mkdir", package |-> p, counted |-> 0, copied |-> 0,
     list |-> [a \in ArtifactIds |-> "none"],
     manifest |-> [dump |-> Garbled, counts |-> <<0, 0>>, late |-> FALSE, quiet |-> TRUE,
                   files |-> [a \in ArtifactIds |-> "none"]]]

(* The destination must be empty; the process that finds it so creates its
   directories next.                                                       *)
StartCreate(c, p) ==
    /\ creator[c] = Nothing
    /\ packages[p] = Emptied
    /\ created < MaxCreates
    /\ created' = created + 1
    /\ creator' = [creator EXCEPT ![c] = NewCreate(p)]
    /\ UNCHANGED <<sourceVars, packages, drillVars, mishaps>>

MakeDirectory(c) ==
    /\ CreateAt(c, "mkdir")
    /\ packages' = [packages EXCEPT ![creator[c].package].made = TRUE]
    /\ creator' = [creator EXCEPT ![c].pc = "dump"]
    /\ UNCHANGED <<sourceVars, drillVars, created, mishaps>>

(* pg_dump sees one snapshot, and overwrites a file that is there. *)
runPGDump(c) ==
    /\ CreateAt(c, "dump")
    /\ packages' = [packages EXCEPT ![creator[c].package].dump = source]
    /\ creator' = [creator EXCEPT ![c].pc = "hash"]
    /\ Tamper(creator[c].package)
    /\ UNCHANGED <<sourceVars, databases, roots, audits, outcomes, drilled, cleanups, created, mishaps>>

(* pg_restore --list reads no more than the table of contents; the hash is of
   the file as it is now.                                                  *)
validatePGDump(c) ==
    /\ CreateAt(c, "hash")
    /\ creator' = [creator EXCEPT ![c].pc = "count",
                                  ![c].manifest.dump = packages[creator[c].package].dump]
    /\ UNCHANGED <<sourceVars, packages, drillVars, created, mishaps>>

(* The tables are counted one query at a time, in the order of their names. *)
tableCounts(c) ==
    /\ CreateAt(c, "count")
    /\ LET i == creator[c].counted + 1
       IN  creator' = [creator EXCEPT ![c].counted = i,
                                      ![c].pc = IF i = Len(Tables) THEN "list" ELSE "count",
                                      ![c].manifest.counts[i] = RowCount(source, Tables[i])]
    /\ UNCHANGED <<sourceVars, packages, drillVars, created, mishaps>>

ListArtifacts(c) ==
    /\ CreateAt(c, "list")
    /\ creator' = [creator EXCEPT ![c].pc = "copy", ![c].list = source.rows]
    /\ UNCHANGED <<sourceVars, packages, drillVars, created, mishaps>>

(* One artifact of the list.  A file that differs from its row, or is in the
   package already, ends the backup (FailCreate).                          *)
copyArtifactFiles(c) ==
    /\ CreateAt(c, "copy")
    /\ creator[c].copied < LastArtifact
    /\ LET a == creator[c].copied + 1
           p == creator[c].package
           status == CASE creator[c].list[a] = "none" -> "none"
                       [] creator[c].list[a] = "s3" -> "referenced"
                       [] creator[c].list[a] = "local" /\ disk[a] = "absent" -> "missing"
                       [] creator[c].list[a] = "local" /\ disk[a] # "absent" -> "included"
       IN  /\ status = "included" => disk[a] = "intact" /\ packages[p].files[a] = "absent"
           /\ packages' = IF status = "included"
                          THEN [packages EXCEPT ![p].files[a] = disk[a]]
                          ELSE packages
           /\ creator' = [creator EXCEPT ![c].copied = a, ![c].manifest.files[a] = status]
    /\ UNCHANGED <<sourceVars, drillVars, created, mishaps>>

(* Variant: the manifest is written before the files are copied. *)
writeManifestFirst(c) ==
    /\ CreateAt(c, "copy")
    /\ packages' = [packages EXCEPT ![creator[c].package].manifest =
         [creator[c].manifest EXCEPT !.files = [a \in ArtifactIds |->
            IF creator[c].list[a] = "local" THEN "included" ELSE "none"]]]
    /\ creator' = [creator EXCEPT ![c] = Nothing]
    /\ UNCHANGED <<sourceVars, drillVars, created, mishaps>>

(* The manifest, with its own hash in it, is the last file the drill needs. *)
writeManifest(c) ==
    /\ CreateAt(c, "copy")
    /\ creator[c].copied = LastArtifact
    /\ packages' = [packages EXCEPT ![creator[c].package].manifest = creator[c].manifest]
    /\ creator' = [creator EXCEPT ![c] = Nothing]
    /\ UNCHANGED <<sourceVars, drillVars, created, mishaps>>

(* An error of the database, a program or a file, or the end of the process:
   what is in the directory stays there, half a manifest perhaps.          *)
FailCreate(c) ==
    /\ creator[c] # Nothing
    /\ creator' = [creator EXCEPT ![c] = Nothing]
    /\ \/ UNCHANGED packages
       \/ /\ CreateAt(c, "copy") /\ creator[c].copied = LastArtifact
          /\ packages' = [packages EXCEPT ![creator[c].package].manifest = Garbled]
    /\ UNCHANGED <<sourceVars, drillVars, created, mishaps>>

-----------------------------------------------------------------------------
(* Drill *)
DrillAt(d, pc) == drill[d] # Nothing /\ drill[d].pc = pc
NameOf(d) == DatabaseOf[drill[d].package]

(* Every return after the manifest is verified goes through the deferred
   audit.  The reason is a ghost.                                          *)
Blocked(d, reason) ==
    drill' = [drill EXCEPT ![d].pc = "audit", ![d].status = "blocked", ![d].reason = reason]

Passes(d, pc) == drill' = [drill EXCEPT ![d].pc = pc]

(* readAndVerifyManifest: without a manifest that has its own hash, the drill
   is an error and nothing is recorded.                                    *)
StartDrill(d, p) ==
    /\ drill[d] = Nothing
    /\ drilled < MaxDrills
    /\ drilled' = drilled + 1
    /\ IF packages[p].manifest \in {Nothing, Garbled}
       THEN /\ outcomes' = outcomes \cup {[drill |-> drilled', told |-> "error", recorded |-> FALSE]}
            /\ UNCHANGED drill
       ELSE /\ drill' = [drill EXCEPT ![d] =
                 [pc |-> "check", package |-> p, id |-> drilled', manifest |-> packages[p].manifest,
                  status |-> "blocked", reason |-> "none", copied |-> 0, tampered |-> FALSE]]
            /\ UNCHANGED outcomes
    /\ UNCHANGED <<sourceVars, packages, creator, databases, roots, audits, cleanups, created, mishaps>>

(* Nothing may be missing, and the dump and every included file have the hash
   the manifest gives them.                                                *)
CheckPackage(d) ==
    /\ DrillAt(d, "check")
    /\ LET manifest == drill[d].manifest
           package == packages[drill[d].package]
       IN  IF \E a \in ArtifactIds : manifest.files[a] = "missing" THEN Blocked(d, "missing")
           ELSE IF \/ package.dump # manifest.dump
                   \/ \E a \in ArtifactIds : manifest.files[a] = "included" /\ package.files[a] # "intact"
           THEN Blocked(d, "damaged")
           ELSE Passes(d, "exists")
    /\ UNCHANGED <<sourceVars, packages, creator, databases, roots, audits, outcomes, drilled, cleanups,
                   created, mishaps>>

CheckExists(d) ==
    /\ DrillAt(d, "exists")
    /\ IF databases[NameOf(d)] # Nothing THEN Blocked(d, "exists") ELSE Passes(d, "create")
    /\ UNCHANGED <<sourceVars, packages, creator, databases, roots, audits, outcomes, drilled, cleanups,
                   created, mishaps>>

(* CREATE DATABASE fails if another drill was faster. *)
CreateDatabase(d) ==
    /\ DrillAt(d, "create")
    /\ IF databases[NameOf(d)] # Nothing
       THEN Blocked(d, "exists") /\ UNCHANGED databases
       ELSE /\ databases' = [databases EXCEPT ![NameOf(d)] = [by |-> drill[d].id, content |-> Nothing]]
            /\ Passes(d, "restore")
    /\ UNCHANGED <<sourceVars, packages, creator, roots, audits, outcomes, drilled, cleanups, created,
                   mishaps>>

(* pg_restore --exit-on-error reads the dump again. *)
runPGRestore(d) ==
    /\ DrillAt(d, "restore")
    /\ LET dump == packages[drill[d].package].dump
       IN  IF dump \in {Nothing, Garbled}
           THEN Blocked(d, "damaged") /\ UNCHANGED databases
           ELSE /\ databases' = [databases EXCEPT ![NameOf(d)].content = dump]
                /\ Passes(d, "verify")
    /\ UNCHANGED <<sourceVars, packages, creator, roots, audits, outcomes, drilled, cleanups, created,
                   mishaps>>

(* Variant: the restored tables are not counted. *)
verifyRestoredNothing(d) ==
    /\ DrillAt(d, "verify")
    /\ Passes(d, "copy")
    /\ UNCHANGED <<sourceVars, packages, creator, databases, roots, audits, outcomes, drilled, cleanups,
                   created, mishaps>>

verifyRestoredDatabase(d) ==
    /\ DrillAt(d, "verify")
    /\ IF \A i \in DOMAIN Tables :
            RowCount(databases[NameOf(d)].content, Tables[i]) = drill[d].manifest.counts[i]
       THEN Passes(d, "copy")
       ELSE Blocked(d, "counts")
    /\ UNCHANGED <<sourceVars, packages, creator, databases, roots, audits, outcomes, drilled, cleanups,
                   created, mishaps>>

(* One included file goes to the artifact root, where nothing of its name may
   be; it is not hashed again.                                             *)
RestoreArtifact(d) ==
    /\ DrillAt(d, "copy")
    /\ drill[d].copied < LastArtifact
    /\ LET a == drill[d].copied + 1
           p == drill[d].package
       IN  IF drill[d].manifest.files[a] # "included"
           THEN drill' = [drill EXCEPT ![d].copied = a] /\ UNCHANGED roots
           ELSE IF roots[p][a] # "absent" THEN Blocked(d, "exists") /\ UNCHANGED roots
           ELSE /\ roots' = [roots EXCEPT ![p][a] = packages[p].files[a]]
                /\ drill' = [drill EXCEPT ![d].copied = a]
    /\ UNCHANGED <<sourceVars, packages, creator, databases, audits, outcomes, drilled, cleanups, created,
                   mishaps>>

PassDrill(d) ==
    /\ DrillAt(d, "copy")
    /\ drill[d].copied = LastArtifact
    /\ drill' = [drill EXCEPT ![d].pc = "audit", ![d].status = "pass"]
    /\ UNCHANGED <<sourceVars, packages, creator, databases, roots, audits, outcomes, drilled, cleanups,
                   created, mishaps>>

(* The deferred audit; when it fails, so does the drill.  The row is one more
   in the source, under whatever backup is going on.                       *)
recordDrillAudit(d, works) ==
    /\ DrillAt(d, "audit")
    /\ ~works => mishaps < MaxMishaps
    /\ audits' = IF works
                 THEN audits \cup {[drill |-> drill[d].id,
                        decision |-> IF drill[d].status = "pass" THEN "allowed" ELSE "blocked"]}
                 ELSE audits
    /\ source' = IF works THEN [source EXCEPT !.audits = @ + 1] ELSE source
    /\ creator' = IF works THEN [c \in Creators |-> Noticed(c)] ELSE creator
    /\ outcomes' = outcomes \cup {[drill |-> drill[d].id, recorded |-> works,
                      told |-> IF drill[d].status = "pass" /\ works THEN "pass" ELSE "error"]}
    /\ drill' = [drill EXCEPT ![d] = Nothing]
    /\ mishaps' = IF works THEN mishaps ELSE mishaps + 1
    /\ UNCHANGED <<disk, wrote, packages, databases, roots, drilled, cleanups, created>>

(* A connection, a program or a file fails at any step. *)
FailDrill(d) ==
    /\ drill[d] # Nothing /\ drill[d].pc # "audit"
    /\ mishaps < MaxMishaps
    /\ mishaps' = mishaps + 1
    /\ Blocked(d, "failed")
    /\ UNCHANGED <<sourceVars, packages, creator, databases, roots, audits, outcomes, drilled, cleanups,
                   created>>

(* The process ends: the database and the files it made stay. *)
CrashDrill(d) ==
    /\ drill[d] # Nothing
    /\ mishaps < MaxMishaps
    /\ mishaps' = mishaps + 1
    /\ drill' = [drill EXCEPT ![d] = Nothing]
    /\ UNCHANGED <<sourceVars, packages, creator, databases, roots, audits, outcomes, drilled, cleanups,
                   created>>

-----------------------------------------------------------------------------
(* What happens around the commands. *)
DamagePackage(p) ==
    /\ mishaps < MaxMishaps
    /\ mishaps' = mishaps + 1
    /\ \/ /\ packages[p].dump # Nothing
          /\ packages' = [packages EXCEPT ![p].dump = Garbled]
       \/ \E a \in ArtifactIds :
            /\ packages[p].files[a] # "absent"
            /\ packages' = [packages EXCEPT ![p].files[a] = "damaged"]
    /\ Tamper(p)
    /\ UNCHANGED <<sourceVars, creator, databases, roots, audits, outcomes, drilled, cleanups, created>>

LoseArtifact(a) ==
    /\ mishaps < MaxMishaps
    /\ mishaps' = mishaps + 1
    /\ disk[a] = "intact"
    /\ \E kind \in {"absent", "damaged"} : disk' = [disk EXCEPT ![a] = kind]
    /\ UNCHANGED <<source, wrote, packages, creator, drillVars, created>>

(* The operator drops the database of a drill that is over, with or without
   the files it restored.                                                  *)
CleanUp(p) ==
    /\ cleanups < MaxCleanups
    /\ cleanups' = cleanups + 1
    /\ \A d \in DrillRunners : drill[d] # Nothing => NameOf(d) # DatabaseOf[p]
    /\ databases[DatabaseOf[p]] # Nothing
    /\ databases' = [databases EXCEPT ![DatabaseOf[p]] = Nothing]
    /\ roots' \in {roots, [roots EXCEPT ![p] = NoFiles]}
    /\ UNCHANGED <<sourceVars, packages, creator, drill, audits, outcomes, drilled, created, mishaps>>

CreateStep(c) ==
    \/ \E p \in Packages : StartCreate(c, p)
    \/ MakeDirectory(c)
    \/ runPGDump(c)
    \/ validatePGDump(c)
    \/ tableCounts(c)
    \/ ListArtifacts(c)
    \/ copyArtifactFiles(c)
    \/ writeManifest(c)
    \/ FailCreate(c)

DrillStep(d) ==
    \/ \E p \in Packages : StartDrill(d, p)
    \/ CheckPackage(d)
    \/ CheckExists(d)
    \/ CreateDatabase(d)
    \/ runPGRestore(d)
    \/ verifyRestoredDatabase(d)
    \/ RestoreArtifact(d)
    \/ PassDrill(d)
    \/ \E works \in BOOLEAN : recordDrillAudit(d, works)
    \/ FailDrill(d)
    \/ CrashDrill(d)

BackupNext ==
    \/ \E a \in ArtifactIds, backend \in {"local", "s3"} : WriterWrites(a, backend)
    \/ \E c \in Creators : CreateStep(c)
    \/ \E d \in DrillRunners : DrillStep(d)
    \/ \E p \in Packages : DamagePackage(p) \/ CleanUp(p)
    \/ \E a \in ArtifactIds : LoseArtifact(a)

-----------------------------------------------------------------------------
(* A package with a manifest is whole: the dump and the files the manifest
   lists are those it was written with, wherever a backup stopped, unless the
   package was damaged or two backups went to one directory.               *)
PackageIsWhole ==
    \A p \in Packages : packages[p].manifest \notin {Nothing, Garbled} =>
        \/ mishaps > 0 \/ created > 1
        \/ /\ packages[p].dump = packages[p].manifest.dump
           /\ \A a \in ArtifactIds :
                packages[p].manifest.files[a] = "included" => packages[p].files[a] = "intact"

(* When a drill passes, every artifact that is local in the restored database
   is in the restored root, intact.  The counts catch writers that were not
   stopped; they miss the one that comes after the last count, and nothing
   sees damage to a file after its hash was checked.                       *)
RestoredIsComplete ==
    \A d \in DrillRunners : DrillAt(d, "audit") /\ drill[d].status = "pass" =>
        \/ drill[d].manifest.late \/ drill[d].tampered
        \/ \A a \in ArtifactIds :
             databases[NameOf(d)].content.rows[a] = "local" => roots[drill[d].package][a] = "intact"

(* Two drills never restore into one database. *)
DrillsKeepApart ==
    \A d \in DrillRunners :
        \/ DrillAt(d, "restore") \/ DrillAt(d, "verify") \/ DrillAt(d, "copy")
        \/ DrillAt(d, "audit") /\ drill[d].status = "pass"
        => databases[NameOf(d)] # Nothing /\ databases[NameOf(d)].by = drill[d].id

(* The audit tells what happened: a caller who is told of a pass finds it in
   the audit, and of the drills that are told as errors all that verified a
   manifest and could write are there as blocked.                          *)
AuditTellsOutcome ==
    \A o \in outcomes :
        LET decisions == {x.decision : x \in {y \in audits : y.drill = o.drill}}
        IN  /\ o.told = "pass" <=> decisions = {"allowed"}
            /\ o.told = "error" /\ o.recorded => decisions = {"blocked"}

(* A package made while nobody wrote passes its drill, unless a local file was
   missing, something failed or was damaged, or an earlier drill's database
   or files are still there.                                               *)
QuietPackagePasses ==
    \A d \in DrillRunners : DrillAt(d, "audit") /\ drill[d].status = "blocked" =>
        \/ ~drill[d].manifest.quiet
        \/ drill[d].reason \in {"missing", "failed", "exists"}
        \/ drill[d].tampered
        \/ drill[d].reason = "damaged" /\ (mishaps > 0 \/ created > 1)

(* A backup can be relied on: a package is whole, and one that was made while
   nobody wrote passes its drill (Create, Drill).                          *)
PackagesAreSound == BackupTypeOK /\ PackageIsWhole /\ QuietPackagePasses

(* A drill that passes has restored everything, into a database of its own,
   and what is told of a drill is what the audit says (Drill,
   recordDrillAudit).                                                      *)
DrillsAreTrue == RestoredIsComplete /\ DrillsKeepApart /\ AuditTellsOutcome

=============================================================================
