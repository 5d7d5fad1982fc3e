---------------------------- MODULE MetadataIndex ----------------------------
(***************************************************************************)
(* The read-only mirror of a managed project's workflow metadata:          *)
(*                                                                         *)
(*   - the adapter reads the project's tree into a snapshot;               *)
(*   - an import replaces the metadata index (imported workflow versions,  *)
(*     residuals, external artifact rows) by the snapshot in one           *)
(*     transaction, and adds an import snapshot row;                       *)
(*   - the doctor compares the tree with the index and records a report;   *)
(*   - registering the project replaces its configuration and permissions. *)
(*                                                                         *)
(* Imports are modelled statement by statement under READ COMMITTED: a     *)
(* DELETE sees the rows committed when it starts, waits for the ones       *)
(* another transaction is deleting, and skips the ones that are gone; an   *)
(* INSERT waits for, and then fails on, a row with its unique key.  Every  *)
(* import has a key of its own (importIdempotencyKey); the reservation of  *)
(* a key and its replay are CommandLedger's.                               *)
(***************************************************************************)
EXTENDS Naturals, FiniteSets, Sequences, FiniteSetsExt

CONSTANTS
    Imports,     \* calls of ImportProject
    Trees,       \* the states the project's tree can be in
    Configs,     \* the contents areaflow.yaml can have
    NoTree,      \* no import, or a tree that was not read
    NoConfig,    \* no active configuration
    Labels,      \* the labels of workflow versions
    MaxEdits     \* bound: how often the tree or areaflow.yaml is edited

(* A tree: what its status summary says, its version labels, the residuals *)
(* its ledgers list (linked to a version, or global), how many files the   *)
(* artifact index takes from it, whether it covers every profile stage and *)
(* whether its ledgers and progress file can be read at all.               *)
TreeType == [status: Nat, labels: SUBSET Labels,
             residuals: SUBSET {"linked", "global"}, files: Nat,
             staged: BOOLEAN, readable: BOOLEAN]
(* A configuration: may status files be written, and may the native        *)
(* workflow doctor run.                                                    *)
ConfigType == [writeStatus: BOOLEAN, native: {"allowed", "capability_off", "denied"}]

ASSUME TreesAssumption == Trees \subseteq TreeType /\ NoTree \notin Trees
ASSUME ConfigsAssumption == Configs \subseteq ConfigType /\ NoConfig \notin Configs
ASSUME LabelsAssumption == IsFiniteSet(Labels)
ASSUME ImportsAssumption == IsFiniteSet(Imports)

VARIABLES
    tree,      \* the project's tree
    yaml,      \* its areaflow.yaml
    config,    \* the active configuration (and permissions) in the database
    rows,      \* the index: table -> the imports that have rows in it
    authored,  \* labels of authored workflow versions
    imp,       \* per import: its call
    began,     \* the imports in the order their transactions began
    doctor,    \* the doctor's run
    report,    \* the latest doctor report
    edits      \* edits of the tree and of areaflow.yaml so far

indexVars == <<tree, yaml, config, rows, authored, imp, began, doctor, report, edits>>

----------------------------------------------------------------------------
(* The adapter's snapshot *)

(* snapshotHash: the source hash is a hash of the status summary, which    *)
(* has the versions, the task counts and the number of residuals, and not  *)
(* the files the artifact index lists.                                     *)
SourceHash(t) == <<t.status, t.labels, Cardinality(t.residuals)>>
NoHash == <<>>

(* The rows an import of tree t has in a table. *)
RowsOf(t, table) ==
    CASE table = "versions"  -> Cardinality(t.labels)
      [] table = "residuals" -> Cardinality(t.residuals)
      [] table = "artifacts" -> t.files

Tables == {"artifacts", "residuals", "versions"}

(* Residual rows are told apart by whether they go with their version. *)
RowKeys(i, table) ==
    IF table = "residuals" THEN {<<i, kind>> : kind \in imp[i].tree.residuals}
    ELSE {r \in {<<i, "all">>} : RowsOf(imp[i].tree, table) > 0}

NoReport == [check \in {} |-> "none"]
DoctorIdle == [pc |-> "idle", inventory |-> [table \in {} |-> 0], latest |-> NoHash,
               current |-> NoTree, checks |-> NoReport, quiet |-> TRUE]

(* When the tree, the index or the configuration changes, a doctor at work *)
(* is not quiet any more.                                                  *)
Disturb == doctor' = [doctor EXCEPT !.quiet = @ /\ doctor.pc \in {"idle", "recorded"}]

----------------------------------------------------------------------------
(* The import transaction *)

Idle == [pc |-> "idle", tree |-> NoTree, seen |-> {}, deleted |-> [table \in Tables |-> {}]]
Active(i) == imp[i].pc \notin {"idle", "done", "failed"}
Committed == {i \in Imports : imp[i].pc = "done"}

(* The rows import j has inserted and not committed. *)
Inserted(j) ==
    [table \in Tables |->
        IF \/ table = "versions" /\ imp[j].pc \in {"insert_residuals", "insert_artifacts"}
           \/ table = "residuals" /\ imp[j].pc = "insert_artifacts"
        THEN RowKeys(j, table) ELSE {}]

(* ImportProject, up to its transaction: the tree is loaded first, and a   *)
(* tree that cannot be read ends the call.  The transaction's start is the *)
(* time its snapshot row will carry.                                       *)
LoadTree(i) ==
    /\ imp[i].pc = "idle"
    /\ imp' = [imp EXCEPT ![i].pc = IF tree.readable THEN "begin" ELSE "failed",
                          ![i].tree = IF tree.readable THEN tree ELSE NoTree]
    /\ UNCHANGED <<tree, yaml, config, rows, authored, began, doctor, report, edits>>

BeginImport(i) ==
    /\ imp[i].pc = "begin"
    /\ imp' = [imp EXCEPT ![i].pc = "clear_artifacts"]
    /\ began' = Append(began, i)
    /\ UNCHANGED <<tree, yaml, config, rows, authored, doctor, report, edits>>

Clearing == [clear_artifacts |-> "artifacts", clear_residuals |-> "residuals",
             clear_versions |-> "versions"]
Waiting == [wait_artifacts |-> "artifacts", wait_residuals |-> "residuals",
            wait_versions |-> "versions"]

AfterClear == [artifacts |-> "clear_residuals", residuals |-> "clear_versions",
               versions |-> "insert_versions"]

(* clearCurrentImportIndex: three DELETEs.  Each starts by seeing the      *)
(* imported rows committed now (an authored version is not one) ...        *)
StartClear(i) ==
    /\ imp[i].pc \in DOMAIN Clearing
    /\ LET table == Clearing[imp[i].pc] IN
       imp' = [imp EXCEPT ![i].pc = CHOOSE pc \in DOMAIN Waiting : Waiting[pc] = table,
                          ![i].seen = rows[table] \ imp[i].deleted[table]]
    /\ UNCHANGED <<tree, yaml, config, rows, authored, began, doctor, report, edits>>

(* ... and ends when no other transaction holds one of them; deleting a    *)
(* version takes its linked residuals along.                               *)
FinishClear(i) ==
    /\ imp[i].pc \in DOMAIN Waiting
    /\ LET table == Waiting[imp[i].pc]
           gone  == imp[i].seen \cap rows[table]
           with  == IF table = "versions"
                    THEN {r \in rows["residuals"] : r[2] = "linked" /\ <<r[1], "all">> \in gone}
                    ELSE {} IN
       /\ \A j \in Imports \ {i} : Active(j) => imp[j].deleted[table] \cap imp[i].seen = {}
       /\ \A j \in Imports \ {i} : Active(j) => imp[j].deleted["residuals"] \cap with = {}
       /\ imp' = [imp EXCEPT ![i].pc = AfterClear[table],
                             ![i].seen = {},
                             ![i].deleted = [t \in Tables |->
                                 @[t] \cup (IF t = table THEN gone ELSE {})
                                      \cup (IF t = "residuals" THEN with ELSE {})]]
    /\ UNCHANGED <<tree, yaml, config, rows, authored, began, doctor, report, edits>>

(* The rows of a table that share a unique key with a row import i inserts. *)
(* Version labels and residual keys are unique in the project.             *)
SameKey(i, r, table) ==
    IF table = "residuals" THEN r[2] \in imp[i].tree.residuals
    ELSE imp[r[1]].tree.labels \cap imp[i].tree.labels # {}

Conflicts(i, table) ==
    {r \in rows[table] \ imp[i].deleted[table] : r[1] # i /\ SameKey(i, r, table)}

(* Variant: an INSERT waits for every import under way. *)
MustWaitForAny(i, table) == \E j \in Imports \ {i} : Active(j)

(* An INSERT waits for the transactions that delete or insert its key. *)
MustWait(i, table) ==
    \E j \in Imports \ {i} :
        /\ Active(j)
        /\ \/ imp[j].deleted[table] \cap Conflicts(i, table) # {}
           \/ \E r \in Inserted(j)[table] : SameKey(i, r, table)

(* Variant: the INSERT takes over the row that has the label. *)
InsertVersionsOverOthers(i) ==
    /\ imp[i].pc = "insert_versions"
    /\ ~MustWait(i, "versions")
    /\ imp' = [imp EXCEPT ![i].pc = "insert_residuals"]
    /\ UNCHANGED <<tree, yaml, config, rows, authored, began, doctor, report, edits>>

(* upsertVersion for every version: the label of an authored version, or   *)
(* of another import's, fails the transaction.                             *)
InsertVersions(i) ==
    /\ imp[i].pc = "insert_versions"
    /\ ~MustWait(i, "versions")
    /\ imp' = [imp EXCEPT ![i].pc =
                  IF Conflicts(i, "versions") # {} \/ authored \cap imp[i].tree.labels # {}
                  THEN "failed" ELSE "insert_residuals"]
    /\ UNCHANGED <<tree, yaml, config, rows, authored, began, doctor, report, edits>>

(* upsertResidual for every residual. *)
InsertResiduals(i) ==
    /\ imp[i].pc = "insert_residuals"
    /\ ~MustWait(i, "residuals")
    /\ imp' = [imp EXCEPT ![i].pc =
                  IF Conflicts(i, "residuals") # {} THEN "failed" ELSE "insert_artifacts"]
    /\ UNCHANGED <<tree, yaml, config, rows, authored, began, doctor, report, edits>>

(* insertArtifact for every file (no unique key stands in its way), the    *)
(* snapshot row, event, audit event and response, and the commit.          *)
CommitImport(i) ==
    /\ imp[i].pc = "insert_artifacts"
    /\ rows' = [table \in Tables |-> (rows[table] \ imp[i].deleted[table]) \cup RowKeys(i, table)]
    /\ imp' = [imp EXCEPT ![i].pc = "done"]
    /\ Disturb
    /\ UNCHANGED <<tree, yaml, config, authored, began, report, edits>>

(* A statement fails or the process stops: the transaction is rolled back. *)
FailImport(i) ==
    /\ Active(i)
    /\ imp' = [imp EXCEPT ![i].pc = "failed"]
    /\ UNCHANGED <<tree, yaml, config, rows, authored, began, doctor, report, edits>>

----------------------------------------------------------------------------
(* What the other components read *)

(* LatestImportSnapshot: of the committed import snapshots the one whose    *)
(* transaction began last.                                                 *)
LatestImport ==
    LET done == {k \in DOMAIN began : began[k] \in Committed} IN
    IF done = {} THEN NoHash
    ELSE SourceHash(imp[began[CHOOSE k \in done : \A m \in done : m <= k]].tree)

(* ImportInventory counts the imported rows and snapshots in one query. *)
Total(f) == MapThenSumSet(LAMBDA x : f[x], DOMAIN f)
RowCount(table) == Total([i \in {r[1] : r \in rows[table]} |-> RowsOf(imp[i].tree, table)])
ImportInventory ==
    [versions  |-> RowCount("versions"),
     residuals |-> Cardinality(rows["residuals"]),
     artifacts |-> RowCount("artifacts"),
     snapshots |-> Cardinality(Committed)]

----------------------------------------------------------------------------
(* The doctor: AreaMatrixWithLoader reads in this order, one query or one  *)
(* walk of the tree at a time, and then records its report.                *)

If(holds, otherwise) == IF holds THEN "pass" ELSE otherwise

(* The checks made so far and some more. *)
Joined(checks, more) ==
    [c \in DOMAIN checks \cup DOMAIN more |->
        IF c \in DOMAIN checks THEN checks[c] ELSE more[c]]

(* OverallStatus. *)
OverallStatus(checks) ==
    CASE \E c \in DOMAIN checks : checks[c] = "fail" -> "fail"
      [] \A c \in DOMAIN checks : checks[c] = "pass" -> "pass"
      [] OTHER -> "warn"

(* The inventory and the latest import snapshot. *)
DoctorReadsIndex ==
    /\ doctor.pc \in {"idle", "recorded"}
    /\ doctor' = [DoctorIdle EXCEPT !.pc = "latest", !.inventory = ImportInventory]
    /\ UNCHANGED <<tree, yaml, config, rows, authored, imp, began, report, edits>>

DoctorReadsLatest ==
    /\ doctor.pc = "latest"
    /\ doctor' = [doctor EXCEPT !.pc = "load", !.latest = LatestImport]
    /\ UNCHANGED <<tree, yaml, config, rows, authored, imp, began, report, edits>>

InventoryChecks(inventory, latest) ==
    [db_inventory    |-> If(inventory.snapshots > 0 /\ inventory.versions > 0, "fail"),
     import_snapshot |-> If(latest # NoHash, "fail")]

(* The tree is loaded; when it cannot be, the report ends here. *)
DoctorLoads ==
    /\ doctor.pc = "load"
    /\ LET first == InventoryChecks(doctor.inventory, doctor.latest) IN
       doctor' = IF tree.readable
                 THEN [doctor EXCEPT !.pc = "second_load", !.current = tree,
                                     !.checks = Joined(first, [source_snapshot |-> "pass"])]
                 ELSE [doctor EXCEPT !.pc = "record",
                                     !.checks = Joined(first, [source_snapshot |-> "fail"])]
    /\ UNCHANGED <<tree, yaml, config, rows, authored, imp, began, report, edits>>

(* verifyAdapterIdempotency loads it again; verifyHashDrift. *)
DoctorLoadsAgain ==
    /\ doctor.pc = "second_load"
    /\ doctor' = [doctor EXCEPT !.pc = "config", !.checks = Joined(@,
         [import_idempotency |->
              If(tree.readable /\ SourceHash(tree) = SourceHash(doctor.current), "warn"),
          hash_drift |-> If(doctor.latest = SourceHash(doctor.current), "fail")])]
    /\ UNCHANGED <<tree, yaml, config, rows, authored, imp, began, report, edits>>

(* Variant: an index with too few or too many artifact rows is a warning. *)
DoctorChecksConfigLenient ==
    /\ doctor.pc = "config"
    /\ LET consistent(table, n) == If(n = RowsOf(doctor.current, table), "fail") IN
       doctor' = [doctor EXCEPT !.pc = "native", !.checks = Joined(@,
         [project_config_drift |-> If(config = yaml, "warn"),
          version_consistency  |-> consistent("versions", doctor.inventory.versions),
          residual_consistency |-> consistent("residuals", doctor.inventory.residuals),
          artifact_consistency |-> If(doctor.inventory.artifacts = RowsOf(doctor.current, "artifacts"), "warn"),
          stage_coverage       |-> If(doctor.current.staged, "warn")])]
    /\ UNCHANGED <<tree, yaml, config, rows, authored, imp, began, report, edits>>

(* verifyProjectConfigDrift, verifyInventoryConsistency, verifyStageCoverage. *)
DoctorChecksConfig ==
    /\ doctor.pc = "config"
    /\ LET consistent(table, n) == If(n = RowsOf(doctor.current, table), "fail") IN
       doctor' = [doctor EXCEPT !.pc = "native", !.checks = Joined(@,
         [project_config_drift |-> If(config = yaml, "warn"),
          version_consistency  |-> consistent("versions", doctor.inventory.versions),
          residual_consistency |-> consistent("residuals", doctor.inventory.residuals),
          artifact_consistency |-> consistent("artifacts", doctor.inventory.artifacts),
          stage_coverage       |-> If(doctor.current.staged, "warn")])]
    /\ UNCHANGED <<tree, yaml, config, rows, authored, imp, began, report, edits>>

(* verifyNativeWorkflowDoctor: skipped with a warning unless the command   *)
(* is allowed (--allow-native stands in for the capability), else the      *)
(* command's exit status decides.                                          *)
NativeAllowed(allowNative) ==
    /\ config # NoConfig
    /\ config.native = "allowed" \/ (allowNative /\ config.native = "capability_off")

DoctorRunsNative ==
    /\ doctor.pc = "native"
    /\ \E allowNative \in BOOLEAN, outcome \in {"pass", "fail"} :
         doctor' = [doctor EXCEPT !.pc = "record", !.checks = Joined(@,
           [native_workflow_doctor |-> IF NativeAllowed(allowNative) THEN outcome ELSE "warn"])]
    /\ UNCHANGED <<tree, yaml, config, rows, authored, imp, began, report, edits>>

(* RecordDoctorReport: the event every later reader takes as the latest. *)
RecordDoctorReport ==
    /\ doctor.pc = "record"
    /\ report' = doctor.checks
    /\ doctor' = [DoctorIdle EXCEPT !.pc = "recorded", !.checks = doctor.checks]
    /\ UNCHANGED <<tree, yaml, config, rows, authored, imp, began, edits>>

----------------------------------------------------------------------------
(* Registration and the environment *)

(* UpsertFromConfig: one transaction, serialised by the project's row,     *)
(* replaces connections, permissions, scheduling policy and the active     *)
(* configuration.                                                          *)
UpsertFromConfig ==
    /\ config # yaml
    /\ config' = yaml
    /\ Disturb
    /\ UNCHANGED <<tree, yaml, rows, authored, imp, began, report, edits>>

EditTree ==
    /\ edits < MaxEdits
    /\ tree' \in Trees \ {tree}
    /\ edits' = edits + 1
    /\ Disturb
    /\ UNCHANGED <<yaml, config, rows, authored, imp, began, report>>

EditYaml ==
    /\ edits < MaxEdits
    /\ yaml' \in Configs \ {yaml}
    /\ edits' = edits + 1
    /\ Disturb
    /\ UNCHANGED <<tree, config, rows, authored, imp, began, report>>

(* A workflow version is authored under a label no version has.  (An       *)
(* import that holds the label uncommitted makes it wait.)                 *)
AuthorVersion(label) ==
    /\ label \notin authored
    /\ \A r \in rows["versions"] : label \notin imp[r[1]].tree.labels
    /\ \A j \in Imports : Active(j) =>
          \A r \in Inserted(j)["versions"] : label \notin imp[j].tree.labels
    /\ authored' = authored \cup {label}
    /\ UNCHANGED <<tree, yaml, config, rows, imp, began, doctor, report, edits>>

IndexInit ==
    /\ tree \in Trees
    /\ yaml \in Configs
    /\ config = NoConfig
    /\ rows = [table \in Tables |-> {}]
    /\ authored = {}
    /\ imp = [i \in Imports |-> Idle]
    /\ began = <<>>
    /\ doctor = DoctorIdle
    /\ report = NoReport
    /\ edits = 0

ImportStep(i) ==
    \/ LoadTree(i) \/ BeginImport(i) \/ StartClear(i) \/ FinishClear(i)
    \/ InsertVersions(i) \/ InsertResiduals(i) \/ CommitImport(i)

DoctorStep ==
    \/ DoctorReadsIndex \/ DoctorReadsLatest \/ DoctorLoads \/ DoctorLoadsAgain
    \/ DoctorChecksConfig \/ DoctorRunsNative \/ RecordDoctorReport

IndexNext ==
    \/ \E i \in Imports : ImportStep(i) \/ FailImport(i)
    \/ DoctorStep
    \/ UpsertFromConfig \/ EditTree \/ EditYaml
    \/ \E label \in Labels : AuthorVersion(label)

----------------------------------------------------------------------------
(* Properties *)

(* Any two states of the project's tree have a version label in common. *)
LabelShared ==
    \A s, t \in Trees : s.readable /\ t.readable => s.labels \cap t.labels # {}

(* Once an import has committed, the versions in the index are one         *)
(* import's and no others, with all its residuals and artifact rows, no    *)
(* residual of another version hangs about, and no label of it is also an  *)
(* authored version's, however imports overlap, fail or meet a version     *)
(* authored meanwhile.  (clearCurrentImportIndex and the unique indexes    *)
(* and foreign keys of 000001_v0_1_core.sql.  Only a label they share      *)
(* makes overlapping imports meet at the unique index; without one both    *)
(* would stay.  Global residuals and artifact rows of an import that       *)
(* committed between two DELETEs may stay.)                                *)
IndexIsWhole ==
    LabelShared /\ Committed # {} =>
        \E i \in Committed :
            /\ rows["versions"] = RowKeys(i, "versions")
            /\ RowKeys(i, "residuals") \subseteq rows["residuals"]
            /\ RowKeys(i, "artifacts") \subseteq rows["artifacts"]
            /\ \A r \in rows["residuals"] : r[2] = "linked" => r[1] = i
            /\ authored \cap imp[i].tree.labels = {}

(* The tree has versions, and is what the latest import snapshot and the   *)
(* index say.  (An index without versions is never in order: a project of  *)
(* none fails db_inventory.)                                               *)
Mirrored ==
    /\ tree.readable /\ tree.labels # {}
    /\ LatestImport = SourceHash(tree)
    /\ \A table \in Tables : ImportInventory[table] = RowsOf(tree, table)

(* A doctor during whose run nothing changed fails exactly when the tree   *)
(* is not mirrored, or its native command fails: the reads that            *)
(* AreaMatrixWithLoader makes one after the other amount to one look.      *)
QuietDoctorIsExact ==
    [][doctor.pc = "record" /\ doctor'.pc = "recorded" /\ doctor.quiet =>
         (OverallStatus(report') # "fail" <=>
             Mirrored /\ report'["native_workflow_doctor"] # "fail")]_indexVars

(* Every import transaction ends: the waits of its DELETEs and INSERTs for *)
(* other imports' rows resolve.                                            *)
ImportsEnd == \A i \in Imports : imp[i].pc = "begin" ~> imp[i].pc \in {"done", "failed"}
==============================================================================
