------------------------- MODULE ProjectMirrorProofs -------------------------
(***************************************************************************)
(* What the mirror of a project keeps, for any number of imports and of    *)
(* applies, any trees, configurations and contents: the index is one       *)
(* import's, and the status file is replaced only as approved.             *)
(***************************************************************************)
EXTENDS StatusProjection, FiniteSetTheorems, WellFoundedInduction, TLAPS

ImportPcs ==
    {"idle", "begin", "clear_artifacts", "wait_artifacts", "clear_residuals",
     "wait_residuals", "clear_versions", "wait_versions", "insert_versions",
     "insert_residuals", "insert_artifacts", "done", "failed"}

RowSet == Imports \X {"all", "linked", "global"}

ImportCalls ==
    [pc : ImportPcs, tree : Trees \cup {NoTree}, seen : SUBSET RowSet,
     deleted : [Tables -> SUBSET RowSet]]

Grades(checks) == \A c \in DOMAIN checks : checks[c] \in {"pass", "warn", "fail"}

IndexTypes ==
    /\ tree \in Trees /\ yaml \in Configs /\ config \in Configs \cup {NoConfig}
    /\ rows \in [Tables -> SUBSET RowSet]
    /\ imp \in [Imports -> ImportCalls]
    /\ "checks" \in DOMAIN doctor /\ Grades(doctor.checks) /\ Grades(report)

(* An import at work or done has a tree that could be read. *)
TreesRead ==
    \A i \in Imports : imp[i].pc \notin {"idle", "failed"} =>
        imp[i].tree \in Trees /\ imp[i].tree.readable

(* The rows of the index, and those a transaction deletes, were committed. *)
RowsCommitted ==
    \A r \in RowSet :
        \/ \E table \in Tables : r \in rows[table]
        \/ \E i \in Imports, table \in Tables : r \in imp[i].deleted[table]
        => r[1] \in Committed

(* Who deletes a version deletes its linked residuals. *)
LinkedGo ==
    \A i, k \in Imports :
        /\ <<k, "all">> \in imp[i].deleted["versions"]
        /\ <<k, "linked">> \in rows["residuals"]
        => <<k, "linked">> \in imp[i].deleted["residuals"]

Inserting(i) == imp[i].pc \in {"insert_residuals", "insert_artifacts"}

(* One import at a time has versions to commit; it has deleted every other
   version, and no authored one has a label of its.                        *)
OneInserts ==
    /\ \A i, j \in Imports : Inserting(i) /\ Inserting(j) => i = j
    /\ \A i \in Imports : Inserting(i) =>
         /\ rows["versions"] \subseteq imp[i].deleted["versions"]
         /\ authored \cap imp[i].tree.labels = {}

(* The inductive invariant of the index. *)
IndexInv ==
    /\ IndexTypes
    /\ TreesRead
    /\ RowsCommitted
    /\ LinkedGo
    /\ LabelShared => OneInserts
    /\ IndexIsWhole

-----------------------------------------------------------------------------
(* An empty index keeps the invariant. *)
LEMMA IndexInitially == IndexInit => IndexInv
  <1> SUFFICES ASSUME IndexInit PROVE IndexInv
    BY Zenon
  <1>1. IndexTypes
    BY Zenon DEF IndexInit, IndexTypes, ImportCalls, ImportPcs, Idle, Grades, DoctorIdle, NoReport
  <1>2. \A i \in Imports : imp[i].pc = "idle" /\ imp[i].deleted = [table \in Tables |-> {}]
    BY Zenon DEF IndexInit, Idle
  <1>3. TreesRead /\ OneInserts
    BY <1>2, Zenon DEF TreesRead, OneInserts, Inserting
  <1>4. RowsCommitted /\ LinkedGo
    BY <1>2, Zenon DEF IndexInit, RowsCommitted, LinkedGo, Tables
  <1>5. IndexIsWhole
    BY <1>2, Zenon DEF IndexIsWhole, Committed
  <1> QED
    BY <1>1, <1>3, <1>4, <1>5, Zenon DEF IndexInv

(* A tree that could be read has a label, since it shares one with itself;
   so its import has a version row.                                        *)
LEMMA VersionRow ==
    ASSUME IndexInv, LabelShared, NEW i \in Imports, imp[i].pc \notin {"idle", "failed"}
    PROVE  RowKeys(i, "versions") = {<<i, "all">>}
  <1>1. imp[i].tree \in Trees /\ imp[i].tree.readable
    BY Zenon DEF IndexInv, TreesRead
  <1>2. imp[i].tree.labels # {} /\ imp[i].tree.labels \subseteq Labels
    BY <1>1, TreesAssumption, Zenon DEF LabelShared, TreeType
  <1>3. Cardinality(imp[i].tree.labels) \in Nat /\ Cardinality(imp[i].tree.labels) # 0
    BY <1>2, LabelsAssumption, FS_Subset, FS_EmptySet, FS_CardinalityType, Zenon
  <1> QED
    BY <1>3 DEF RowKeys, RowsOf

(* Two trees that could be read share a label. *)
LEMMA LabelsMeet ==
    ASSUME IndexInv, LabelShared, NEW i \in Imports, NEW j \in Imports,
           imp[i].pc \notin {"idle", "failed"}, imp[j].pc \notin {"idle", "failed"}
    PROVE  imp[i].tree.labels \cap imp[j].tree.labels # {}
  BY Zenon DEF IndexInv, TreesRead, LabelShared

(* A step that leaves the rows, the imports and the authored versions alone
   keeps what is said about them.                                          *)
LEMMA IndexFrame ==
    ASSUME IndexInv, UNCHANGED <<rows, authored, imp>>, IndexTypes'
    PROVE  IndexInv'
  <1>1. TreesRead' /\ RowsCommitted' /\ LinkedGo'
    BY Zenon DEF IndexInv, TreesRead, RowsCommitted, LinkedGo, Committed
  <1>2. (LabelShared => OneInserts)'
    BY Zenon DEF IndexInv, OneInserts, Inserting, LabelShared
  <1>3. IndexIsWhole'
    BY Zenon DEF IndexInv, IndexIsWhole, Committed, RowKeys, RowsOf, LabelShared
  <1> QED
    BY <1>1, <1>2, <1>3, Zenon DEF IndexInv

(* The committed imports stay as they are, and no import joins them. *)
CommittedStay == Committed' = Committed /\ \A x \in Committed : imp'[x] = imp[x]

(* An import i whose call becomes c, with no version inserted, nothing
   committed and no rows changed.                                          *)
LEMMA CallFrame ==
    ASSUME IndexInv, NEW i \in Imports, NEW c \in ImportCalls,
           imp' = [imp EXCEPT ![i] = c], imp[i].pc # "done", c.pc # "done",
           UNCHANGED <<tree, yaml, config, rows, authored, report>>,
           DOMAIN doctor' = DOMAIN doctor, Grades(doctor'.checks),
           c.pc \notin {"idle", "failed"} => c.tree \in Trees /\ c.tree.readable,
           \A r \in RowSet : (\E table \in Tables : r \in c.deleted[table]) => r[1] \in Committed,
           \A k \in Imports :
               <<k, "all">> \in c.deleted["versions"] /\ <<k, "linked">> \in rows["residuals"]
               => <<k, "linked">> \in c.deleted["residuals"],
           LabelShared /\ c.pc \in {"insert_residuals", "insert_artifacts"} =>
               /\ \A j \in Imports : Inserting(j) => i = j
               /\ rows["versions"] \subseteq c.deleted["versions"]
               /\ authored \cap c.tree.labels = {}
    PROVE  IndexInv' /\ CommittedStay
  <1>1. imp'[i] = c /\ \A j \in Imports \ {i} : imp'[j] = imp[j]
    BY Zenon DEF IndexInv, IndexTypes
  <1>2. IndexTypes'
    BY Zenon DEF IndexInv, IndexTypes, Grades
  <1>3. TreesRead'
    BY <1>1, Zenon DEF IndexInv, TreesRead
  <1>4. Committed' = Committed
    BY <1>1 DEF Committed
  <1>5. RowsCommitted'
    BY <1>1, <1>4 DEF IndexInv, RowsCommitted
  <1>6. LinkedGo'
    BY <1>1, Zenon DEF IndexInv, LinkedGo
  <1>7. ASSUME LabelShared PROVE OneInserts'
    <2>1. \A j \in Imports \ {i} : Inserting(j)' <=> Inserting(j)
      BY <1>1, Zenon DEF Inserting
    <2>2. Inserting(i)' <=> c.pc \in {"insert_residuals", "insert_artifacts"}
      BY <1>1, Zenon DEF Inserting
    <2>3. \A j, k \in Imports : Inserting(j)' /\ Inserting(k)' => j = k
      BY <1>7, <2>1, <2>2, Zenon DEF IndexInv, OneInserts
    <2>4. ASSUME NEW j \in Imports, Inserting(j)'
          PROVE  /\ rows'["versions"] \subseteq imp'[j].deleted["versions"]
                 /\ authored' \cap imp'[j].tree.labels = {}
      <3>1. CASE j = i
        BY <1>1, <1>7, <2>2, <2>4, <3>1, Zenon
      <3>2. CASE j # i
        BY <1>1, <1>7, <2>1, <2>4, <3>2, Zenon DEF IndexInv, OneInserts
      <3> QED
        BY <3>1, <3>2, Zenon
    <2> QED
      BY <2>3, <2>4, Zenon DEF OneInserts
  <1>8. IndexIsWhole'
    <2>1. ASSUME NEW j \in Committed
          PROVE  /\ imp'[j] = imp[j]
                 /\ RowKeys(j, "versions")' = RowKeys(j, "versions")
                 /\ RowKeys(j, "residuals")' = RowKeys(j, "residuals")
                 /\ RowKeys(j, "artifacts")' = RowKeys(j, "artifacts")
      <3>1. j \in Imports \ {i}
        BY Zenon DEF Committed
      <3>2. imp'[j] = imp[j]
        BY <1>1, <3>1, Zenon
      <3> QED
        BY <3>2, Zenon DEF RowKeys, RowsOf
    <2> QED
      BY <1>4, <2>1 DEF IndexInv, IndexIsWhole, LabelShared
  <1>9. CommittedStay
    BY <1>1, <1>4, Zenon DEF CommittedStay, Committed
  <1> QED
    BY <1>2, <1>3, <1>5, <1>6, <1>7, <1>8, <1>9, Zenon DEF IndexInv, LabelShared

-----------------------------------------------------------------------------
(* Loading the tree, beginning the transaction and starting a DELETE change
   nothing but the import's own call.                                      *)
LEMMA LoadTreeInv ==
    ASSUME IndexInv, NEW i \in Imports, LoadTree(i) PROVE IndexInv' /\ CommittedStay
  <1> DEFINE c == [imp[i] EXCEPT !.pc = IF tree.readable THEN "begin" ELSE "failed",
                                 !.tree = IF tree.readable THEN tree ELSE NoTree]
  <1>1. imp[i] \in ImportCalls /\ imp[i].pc = "idle" /\ tree \in Trees
    BY Zenon DEF IndexInv, IndexTypes, LoadTree
  <1>2. c \in ImportCalls /\ c.deleted = imp[i].deleted
    BY <1>1, Zenon DEF ImportCalls, ImportPcs
  <1>3. c.pc \in {"begin", "failed"} /\ (c.pc = "begin" => c.tree = tree /\ tree.readable)
    BY <1>1, Zenon DEF ImportCalls
  <1>4. imp' = [imp EXCEPT ![i] = c]
    BY <1>1, Zenon DEF LoadTree, IndexInv, IndexTypes, ImportCalls
  <1> HIDE DEF c
  <1>5. UNCHANGED <<tree, yaml, config, rows, authored, doctor, report>>
    BY Zenon DEF LoadTree
  <1>6. Grades(doctor'.checks)
    BY <1>5, Zenon DEF IndexInv, IndexTypes
  <1>7. \A r \in RowSet : (\E table \in Tables : r \in c.deleted[table]) => r[1] \in Committed
    BY <1>2, Zenon DEF IndexInv, RowsCommitted
  <1>8. \A k \in Imports :
          <<k, "all">> \in c.deleted["versions"] /\ <<k, "linked">> \in rows["residuals"]
          => <<k, "linked">> \in c.deleted["residuals"]
    BY <1>2, Zenon DEF IndexInv, LinkedGo
  <1> QED
    BY <1>1, <1>2, <1>3, <1>4, <1>5, <1>6, <1>7, <1>8, CallFrame, Zenon

LEMMA BeginImportInv ==
    ASSUME IndexInv, NEW i \in Imports, BeginImport(i) PROVE IndexInv' /\ CommittedStay
  <1> DEFINE c == [imp[i] EXCEPT !.pc = "clear_artifacts"]
  <1>1. imp[i] \in ImportCalls /\ imp[i].pc = "begin"
    BY Zenon DEF IndexInv, IndexTypes, BeginImport
  <1>2. c \in ImportCalls /\ c.deleted = imp[i].deleted
    BY <1>1, Zenon DEF ImportCalls, ImportPcs
  <1>3. c.pc = "clear_artifacts" /\ c.tree = imp[i].tree
    BY <1>1, Zenon DEF ImportCalls
  <1>4. imp' = [imp EXCEPT ![i] = c]
    BY <1>1, Zenon DEF BeginImport, IndexInv, IndexTypes, ImportCalls
  <1> HIDE DEF c
  <1>5. UNCHANGED <<tree, yaml, config, rows, authored, doctor, report>>
    BY Zenon DEF BeginImport
  <1>6. Grades(doctor'.checks)
    BY <1>5, Zenon DEF IndexInv, IndexTypes
  <1>7. \A r \in RowSet : (\E table \in Tables : r \in c.deleted[table]) => r[1] \in Committed
    BY <1>2, Zenon DEF IndexInv, RowsCommitted
  <1>8. \A k \in Imports :
          <<k, "all">> \in c.deleted["versions"] /\ <<k, "linked">> \in rows["residuals"]
          => <<k, "linked">> \in c.deleted["residuals"]
    BY <1>2, Zenon DEF IndexInv, LinkedGo
  <1>9. c.tree \in Trees /\ c.tree.readable
    BY <1>1, <1>3, Zenon DEF IndexInv, TreesRead
  <1> QED
    BY <1>1, <1>2, <1>3, <1>4, <1>5, <1>6, <1>7, <1>8, <1>9, CallFrame, Zenon

LEMMA StartClearInv ==
    ASSUME IndexInv, NEW i \in Imports, StartClear(i) PROVE IndexInv' /\ CommittedStay
  <1> DEFINE table == Clearing[imp[i].pc]
             wait  == CHOOSE pc \in DOMAIN Waiting : Waiting[pc] = table
             c == [imp[i] EXCEPT !.pc = wait, !.seen = rows[table] \ imp[i].deleted[table]]
  <1>1. /\ imp[i] \in ImportCalls
        /\ imp[i].pc \in {"clear_artifacts", "clear_residuals", "clear_versions"}
    BY Zenon DEF IndexInv, IndexTypes, StartClear, Clearing
  <1>2. table \in Tables
    BY <1>1 DEF Clearing, Tables
  <1>3. wait \in {"wait_artifacts", "wait_residuals", "wait_versions"}
    <2>1. DOMAIN Waiting = {"wait_artifacts", "wait_residuals", "wait_versions"}
      BY Zenon DEF Waiting
    <2>2. \E pc \in DOMAIN Waiting : Waiting[pc] = table
      BY <1>2, Zenon DEF Waiting, Tables
    <2> QED
      BY <2>1, <2>2, Zenon
  <1>4. imp' = [imp EXCEPT ![i].pc = wait, ![i].seen = rows[table] \ imp[i].deleted[table]]
    BY Zenon DEF StartClear
  <1>5. rows[table] \subseteq RowSet
    BY <1>2, Zenon DEF IndexInv, IndexTypes
  <1> HIDE DEF table, wait
  <1>12. imp' = [imp EXCEPT ![i] = c]
    BY <1>1, <1>4, Zenon DEF IndexInv, IndexTypes, ImportCalls
  <1>6. c \in ImportCalls /\ c.deleted = imp[i].deleted /\ c.pc = wait /\ c.tree = imp[i].tree
    BY <1>1, <1>3, <1>5, Zenon DEF ImportCalls, ImportPcs
  <1> HIDE DEF c
  <1>7. UNCHANGED <<tree, yaml, config, rows, authored, doctor, report>>
    BY Zenon DEF StartClear
  <1>8. Grades(doctor'.checks)
    BY <1>7, Zenon DEF IndexInv, IndexTypes
  <1>9. \A r \in RowSet : (\E t \in Tables : r \in c.deleted[t]) => r[1] \in Committed
    BY <1>6, Zenon DEF IndexInv, RowsCommitted
  <1>10. \A k \in Imports :
           <<k, "all">> \in c.deleted["versions"] /\ <<k, "linked">> \in rows["residuals"]
           => <<k, "linked">> \in c.deleted["residuals"]
    BY <1>6, Zenon DEF IndexInv, LinkedGo
  <1>11. c.tree \in Trees /\ c.tree.readable
    BY <1>1, <1>6, Zenon DEF IndexInv, TreesRead
  <1> QED
    BY <1>1, <1>3, <1>6, <1>7, <1>8, <1>9, <1>10, <1>11, <1>12, CallFrame, Zenon

LEMMA FailImportInv ==
    ASSUME IndexInv, NEW i \in Imports, FailImport(i) PROVE IndexInv' /\ CommittedStay
  <1> DEFINE c == [imp[i] EXCEPT !.pc = "failed"]
  <1>1. imp[i] \in ImportCalls /\ imp[i].pc \notin {"idle", "done", "failed"}
    BY Zenon DEF IndexInv, IndexTypes, FailImport, Active
  <1>2. c \in ImportCalls /\ c.deleted = imp[i].deleted /\ c.pc = "failed"
    BY <1>1, Zenon DEF ImportCalls, ImportPcs
  <1>3. imp' = [imp EXCEPT ![i] = c]
    BY <1>1, Zenon DEF FailImport, IndexInv, IndexTypes, ImportCalls
  <1> HIDE DEF c
  <1>4. UNCHANGED <<tree, yaml, config, rows, authored, doctor, report>>
    BY Zenon DEF FailImport
  <1>5. Grades(doctor'.checks)
    BY <1>4, Zenon DEF IndexInv, IndexTypes
  <1>6. \A r \in RowSet : (\E table \in Tables : r \in c.deleted[table]) => r[1] \in Committed
    BY <1>2, Zenon DEF IndexInv, RowsCommitted
  <1>7. \A k \in Imports :
          <<k, "all">> \in c.deleted["versions"] /\ <<k, "linked">> \in rows["residuals"]
          => <<k, "linked">> \in c.deleted["residuals"]
    BY <1>2, Zenon DEF IndexInv, LinkedGo
  <1> QED
    BY <1>1, <1>2, <1>3, <1>4, <1>5, <1>6, <1>7, CallFrame, Zenon

(* A DELETE takes rows that are in the index, and deleting a version takes its
   linked residuals along.                                                 *)
LEMMA FinishClearInv ==
    ASSUME IndexInv, NEW i \in Imports, FinishClear(i) PROVE IndexInv' /\ CommittedStay
  <1> DEFINE table == Waiting[imp[i].pc]
             gone == imp[i].seen \cap rows[table]
             with == IF table = "versions"
                     THEN {r \in rows["residuals"] : r[2] = "linked" /\ <<r[1], "all">> \in gone}
                     ELSE {}
             old == imp[i].deleted
             new == [t \in Tables |->
                        old[t] \cup (IF t = table THEN gone ELSE {})
                               \cup (IF t = "residuals" THEN with ELSE {})]
             c == [imp[i] EXCEPT !.pc = AfterClear[table], !.seen = {}, !.deleted = new]
  <1>1. /\ imp[i] \in ImportCalls
        /\ imp[i].pc \in {"wait_artifacts", "wait_residuals", "wait_versions"}
    BY Zenon DEF IndexInv, IndexTypes, FinishClear, Waiting
  <1>2. table \in Tables
    BY <1>1 DEF Waiting, Tables
  <1>3. imp' = [imp EXCEPT ![i].pc = AfterClear[table],
                           ![i].seen = {},
                           ![i].deleted = new]
    BY Zenon DEF FinishClear
  <1>4. /\ gone \subseteq rows[table]
        /\ with \subseteq rows["residuals"]
        /\ table = "versions" =>
             \A k \in Imports : <<k, "all">> \in gone /\ <<k, "linked">> \in rows["residuals"]
                => <<k, "linked">> \in with
    BY Zenon
  <1>5. AfterClear[table] \in {"clear_residuals", "clear_versions", "insert_versions"}
    BY <1>2 DEF AfterClear, Tables
  <1>6. /\ rows \in [Tables -> SUBSET RowSet]
        /\ old \in [Tables -> SUBSET RowSet]
        /\ "residuals" \in Tables /\ "versions" \in Tables
    BY <1>1, Zenon DEF IndexInv, IndexTypes, ImportCalls, Tables
  <1> HIDE DEF table, gone, with
  <1>7. /\ new \in [Tables -> SUBSET RowSet]
        /\ \A t \in Tables :
             new[t] = old[t] \cup (IF t = table THEN gone ELSE {})
                             \cup (IF t = "residuals" THEN with ELSE {})
    BY <1>2, <1>4, <1>6, Zenon
  <1>8. imp' = [imp EXCEPT ![i] = c]
    BY <1>1, <1>3, Zenon DEF IndexInv, IndexTypes, ImportCalls
  <1> HIDE DEF new
  <1>9. c \in ImportCalls /\ c.deleted = new /\ c.pc = AfterClear[table] /\ c.tree = imp[i].tree
    BY <1>1, <1>5, <1>7, Zenon DEF ImportCalls, ImportPcs
  <1> HIDE DEF c
  <1>10. UNCHANGED <<tree, yaml, config, rows, authored, doctor, report>>
    BY Zenon DEF FinishClear
  <1>11. Grades(doctor'.checks)
    BY <1>10, Zenon DEF IndexInv, IndexTypes
  <1>12. ASSUME NEW r \in RowSet, NEW t \in Tables, r \in c.deleted[t] PROVE r[1] \in Committed
    <2>1. r \in old[t] \/ r \in rows[table] \/ r \in rows["residuals"]
      BY <1>4, <1>7, <1>9, <1>12
    <2> QED
      BY <1>2, <1>6, <2>1, Zenon DEF IndexInv, RowsCommitted
  <1>13. ASSUME NEW k \in Imports, <<k, "all">> \in c.deleted["versions"],
                <<k, "linked">> \in rows["residuals"]
         PROVE  <<k, "linked">> \in c.deleted["residuals"]
    <2>1. CASE <<k, "all">> \in old["versions"]
      <3>1. <<k, "linked">> \in old["residuals"]
        BY <1>13, <2>1, Zenon DEF IndexInv, LinkedGo
      <3> QED
        BY <1>6, <1>7, <1>9, <3>1, Zenon
    <2>2. CASE <<k, "all">> \notin old["versions"]
      <3>1. table = "versions" /\ <<k, "all">> \in gone
        BY <1>6, <1>7, <1>9, <1>13, <2>2, Zenon
      <3> QED
        BY <1>4, <1>6, <1>7, <1>9, <1>13, <3>1, Zenon
    <2> QED
      BY <2>1, <2>2, Zenon
  <1>14. c.tree \in Trees /\ c.tree.readable
    BY <1>1, <1>9, Zenon DEF IndexInv, TreesRead
  <1> QED
    BY <1>1, <1>5, <1>8, <1>9, <1>10, <1>11, <1>12, <1>13, <1>14, CallFrame, Zenon

(* An INSERT of versions goes through only when no other import has inserted
   and every version left is one the import deleted.                       *)
LEMMA InsertVersionsInv ==
    ASSUME IndexInv, NEW i \in Imports, InsertVersions(i) PROVE IndexInv' /\ CommittedStay
  <1> DEFINE next == IF Conflicts(i, "versions") # {} \/ authored \cap imp[i].tree.labels # {}
                     THEN "failed" ELSE "insert_residuals"
             c == [imp[i] EXCEPT !.pc = next]
  <1>1. imp[i] \in ImportCalls /\ imp[i].pc = "insert_versions"
    BY Zenon DEF IndexInv, IndexTypes, InsertVersions
  <1>2. imp' = [imp EXCEPT ![i].pc = next]
    BY Zenon DEF InsertVersions
  <1>3. /\ next \in {"failed", "insert_residuals"}
        /\ next = "insert_residuals" =>
             Conflicts(i, "versions") = {} /\ authored \cap imp[i].tree.labels = {}
    BY Zenon
  <1> HIDE DEF next
  <1>4. imp' = [imp EXCEPT ![i] = c]
    BY <1>1, <1>2, Zenon DEF IndexInv, IndexTypes, ImportCalls
  <1>5. /\ c \in ImportCalls /\ c.deleted = imp[i].deleted /\ c.pc = next
        /\ c.tree = imp[i].tree
    BY <1>1, <1>3, Zenon DEF ImportCalls, ImportPcs
  <1> HIDE DEF c
  <1>6. UNCHANGED <<tree, yaml, config, rows, authored, doctor, report>>
    BY Zenon DEF InsertVersions
  <1>7. Grades(doctor'.checks)
    BY <1>6, Zenon DEF IndexInv, IndexTypes
  <1>8. \A r \in RowSet : (\E table \in Tables : r \in c.deleted[table]) => r[1] \in Committed
    BY <1>5, Zenon DEF IndexInv, RowsCommitted
  <1>9. \A k \in Imports :
          <<k, "all">> \in c.deleted["versions"] /\ <<k, "linked">> \in rows["residuals"]
          => <<k, "linked">> \in c.deleted["residuals"]
    BY <1>5, Zenon DEF IndexInv, LinkedGo
  <1>10. c.tree \in Trees /\ c.tree.readable
    BY <1>1, <1>5, Zenon DEF IndexInv, TreesRead
  <1>11. ASSUME LabelShared, NEW j \in Imports, Inserting(j) PROVE i = j
    <2> SUFFICES ASSUME i # j PROVE FALSE
      BY Zenon
    <2>1. Active(j) /\ imp[j].pc \notin {"idle", "failed"}
      BY <1>11, Zenon DEF Inserting, Active
    <2>2. RowKeys(j, "versions") = {<<j, "all">>}
      BY <1>11, <2>1, VersionRow, Zenon
    <2>3. Inserted(j)["versions"] = {<<j, "all">>}
      BY <1>11, <2>2, Zenon DEF Inserted, Inserting, Tables
    <2>4. SameKey(i, <<j, "all">>, "versions")
      BY <1>1, <1>11, <2>1, LabelsMeet, Zenon DEF SameKey
    <2> QED
      BY <2>1, <2>3, <2>4, Zenon DEF InsertVersions, MustWait
  <1>12. ASSUME LabelShared, c.pc = "insert_residuals", NEW r \in rows["versions"]
         PROVE  r \in c.deleted["versions"]
    <2> SUFFICES ASSUME r \notin imp[i].deleted["versions"] PROVE FALSE
      BY <1>5, Zenon
    <2>1. r \in RowSet /\ r[1] \in Imports /\ "versions" \in Tables
      BY <1>12, Zenon DEF IndexInv, IndexTypes, Tables, RowSet
    <2>2. r[1] \in Committed
      BY <2>1, Zenon DEF IndexInv, RowsCommitted
    <2>3. imp[r[1]].pc = "done" /\ r[1] # i
      BY <1>1, <2>2, Zenon DEF Committed
    <2>4. SameKey(i, r, "versions")
      BY <1>1, <1>12, <2>1, <2>3, LabelsMeet, Zenon DEF SameKey
    <2>5. r \in Conflicts(i, "versions")
      BY <2>3, <2>4, Zenon DEF Conflicts
    <2> QED
      BY <1>3, <1>5, <1>12, <2>5, Zenon
  <1> QED
    BY <1>1, <1>3, <1>4, <1>5, <1>6, <1>7, <1>8, <1>9, <1>10, <1>11, <1>12, CallFrame, Zenon

LEMMA InsertResidualsInv ==
    ASSUME IndexInv, NEW i \in Imports, InsertResiduals(i) PROVE IndexInv' /\ CommittedStay
  <1> DEFINE next == IF Conflicts(i, "residuals") # {} THEN "failed" ELSE "insert_artifacts"
             c == [imp[i] EXCEPT !.pc = next]
  <1>1. imp[i] \in ImportCalls /\ imp[i].pc = "insert_residuals" /\ Inserting(i)
    BY Zenon DEF IndexInv, IndexTypes, InsertResiduals, Inserting
  <1>2. imp' = [imp EXCEPT ![i].pc = next]
    BY Zenon DEF InsertResiduals
  <1>3. next \in {"failed", "insert_artifacts"}
    BY Zenon
  <1> HIDE DEF next
  <1>4. imp' = [imp EXCEPT ![i] = c]
    BY <1>1, <1>2, Zenon DEF IndexInv, IndexTypes, ImportCalls
  <1>5. /\ c \in ImportCalls /\ c.deleted = imp[i].deleted /\ c.pc = next
        /\ c.tree = imp[i].tree
    BY <1>1, <1>3, Zenon DEF ImportCalls, ImportPcs
  <1> HIDE DEF c
  <1>6. UNCHANGED <<tree, yaml, config, rows, authored, doctor, report>>
    BY Zenon DEF InsertResiduals
  <1>7. Grades(doctor'.checks)
    BY <1>6, Zenon DEF IndexInv, IndexTypes
  <1>8. \A r \in RowSet : (\E table \in Tables : r \in c.deleted[table]) => r[1] \in Committed
    BY <1>5, Zenon DEF IndexInv, RowsCommitted
  <1>9. \A k \in Imports :
          <<k, "all">> \in c.deleted["versions"] /\ <<k, "linked">> \in rows["residuals"]
          => <<k, "linked">> \in c.deleted["residuals"]
    BY <1>5, Zenon DEF IndexInv, LinkedGo
  <1>10. c.tree \in Trees /\ c.tree.readable
    BY <1>1, <1>5, Zenon DEF IndexInv, TreesRead
  <1>11. LabelShared =>
           /\ \A j \in Imports : Inserting(j) => i = j
           /\ rows["versions"] \subseteq c.deleted["versions"]
           /\ authored \cap c.tree.labels = {}
    BY <1>1, <1>5, Zenon DEF IndexInv, OneInserts
  <1> QED
    BY <1>1, <1>3, <1>4, <1>5, <1>6, <1>7, <1>8, <1>9, <1>10, <1>11, CallFrame, Zenon

(* The commit: what the import deleted is gone and what it inserted is there,
   so of the versions only its own are left, and of the linked residuals too. *)
LEMMA CommitImportInv ==
    ASSUME IndexInv, NEW i \in Imports, CommitImport(i) PROVE IndexInv'
  <1> DEFINE c == [imp[i] EXCEPT !.pc = "done"]
  <1>1. /\ imp[i] \in ImportCalls /\ imp[i].pc = "insert_artifacts" /\ Inserting(i)
        /\ imp[i].tree \in Trees /\ imp[i].tree.readable
    BY Zenon DEF IndexInv, IndexTypes, CommitImport, Inserting, TreesRead
  <1>2. c \in ImportCalls /\ c.deleted = imp[i].deleted /\ c.pc = "done" /\ c.tree = imp[i].tree
    BY <1>1, Zenon DEF ImportCalls, ImportPcs
  <1>3. imp' = [imp EXCEPT ![i] = c]
    BY <1>1, Zenon DEF CommitImport, IndexInv, IndexTypes, ImportCalls
  <1>4. imp'[i] = c /\ \A j \in Imports \ {i} : imp'[j] = imp[j]
    BY <1>3, Zenon DEF IndexInv, IndexTypes
  <1> HIDE DEF c
  <1>5. /\ UNCHANGED <<tree, yaml, config, authored, report>>
        /\ \A table \in Tables :
             rows'[table] = (rows[table] \ imp[i].deleted[table]) \cup RowKeys(i, table)
        /\ rows' = [table \in Tables |->
                       (rows[table] \ imp[i].deleted[table]) \cup RowKeys(i, table)]
    BY Zenon DEF CommitImport
  <1>6. \A table \in Tables :
          RowKeys(i, table) \subseteq {<<i, "all">>, <<i, "linked">>, <<i, "global">>}
    <2>1. imp[i].tree.residuals \subseteq {"linked", "global"}
      BY <1>1, TreesAssumption, Zenon DEF TreeType
    <2>2. RowKeys(i, "residuals") = {<<i, kind>> : kind \in imp[i].tree.residuals}
      BY Zenon DEF RowKeys
    <2>3. ASSUME NEW table \in {"artifacts", "versions"}
          PROVE  RowKeys(i, table) \subseteq {<<i, "all">>}
      BY Zenon DEF RowKeys
    <2> QED
      BY <2>1, <2>2, <2>3 DEF Tables
  <1>7. IndexTypes'
    <2>1. rows' \in [Tables -> SUBSET RowSet]
      BY <1>5, <1>6 DEF IndexInv, IndexTypes, RowSet
    <2>2. imp' \in [Imports -> ImportCalls]
      BY <1>2, <1>3, Zenon DEF IndexInv, IndexTypes
    <2>3. doctor'.checks = doctor.checks /\ DOMAIN doctor' = DOMAIN doctor
      <3>1. doctor' = [doctor EXCEPT !.quiet = doctor.quiet /\ doctor.pc \in {"idle", "recorded"}]
        BY Zenon DEF CommitImport, Disturb
      <3> QED
        BY <3>1
    <2> QED
      BY <1>5, <2>1, <2>2, <2>3, Zenon DEF IndexInv, IndexTypes
  <1>8. TreesRead'
    BY <1>1, <1>2, <1>4, Zenon DEF IndexInv, TreesRead
  <1>9. Committed' = Committed \cup {i} /\ i \notin Committed
    BY <1>1, <1>2, <1>4, Zenon DEF Committed
  <1>10. RowsCommitted'
    <2> SUFFICES ASSUME NEW r \in RowSet,
                        \/ \E table \in Tables : r \in rows'[table]
                        \/ \E j \in Imports, table \in Tables : r \in imp'[j].deleted[table]
                 PROVE  r[1] \in Committed'
      BY Zenon DEF RowsCommitted
    <2>1. ASSUME NEW table \in Tables, r \in rows'[table] PROVE r[1] \in Committed'
      <3>1. r \in rows[table] \/ r[1] = i
        BY <1>5, <1>6, <2>1
      <3> QED
        BY <1>9, <3>1, Zenon DEF IndexInv, RowsCommitted
    <2>2. ASSUME NEW j \in Imports, NEW table \in Tables, r \in imp'[j].deleted[table]
          PROVE  r[1] \in Committed'
      <3>1. imp'[j].deleted = imp[j].deleted
        BY <1>2, <1>4, Zenon
      <3> QED
        BY <1>9, <2>2, <3>1, Zenon DEF IndexInv, RowsCommitted
    <2> QED
      BY <2>1, <2>2, Zenon
  <1>11. LinkedGo'
    <2> SUFFICES ASSUME NEW j \in Imports, NEW k \in Imports,
                        <<k, "all">> \in imp'[j].deleted["versions"],
                        <<k, "linked">> \in rows'["residuals"]
                 PROVE  <<k, "linked">> \in imp'[j].deleted["residuals"]
      BY Zenon DEF LinkedGo
    <2>1. imp'[j].deleted = imp[j].deleted /\ "versions" \in Tables /\ "residuals" \in Tables
      BY <1>2, <1>4, Zenon DEF Tables
    <2>2. <<k, "all">> \in RowSet /\ <<k, "all">>[1] = k
      BY Zenon DEF RowSet
    <2>3. k \in Committed
      BY <2>1, <2>2, Zenon DEF IndexInv, RowsCommitted
    <2>4. <<k, "linked">> \in rows["residuals"]
      BY <1>5, <1>6, <1>9, <2>1, <2>3, Zenon
    <2> QED
      BY <2>1, <2>4, Zenon DEF IndexInv, LinkedGo
  <1>12. ASSUME LabelShared PROVE OneInserts'
    <2>1. \A j \in Imports : Inserting(j) => j = i
      BY <1>1, <1>12, Zenon DEF IndexInv, OneInserts
    <2>2. \A j \in Imports : ~Inserting(j)'
      BY <1>2, <1>4, <2>1, Zenon DEF Inserting
    <2> QED
      BY <2>2, Zenon DEF OneInserts
  <1>13. ASSUME LabelShared
         PROVE  /\ rows'["versions"] = RowKeys(i, "versions")
                /\ \A r \in rows'["residuals"] : r[2] = "linked" => r[1] = i
                /\ authored' \cap imp[i].tree.labels = {}
    <2>1. rows["versions"] \subseteq imp[i].deleted["versions"]
      BY <1>1, <1>13, Zenon DEF IndexInv, OneInserts
    <2>2. rows'["versions"] = RowKeys(i, "versions")
      BY <1>5, <2>1, Zenon DEF Tables
    <2>3. ASSUME NEW r \in rows'["residuals"], r[2] = "linked", r[1] # i PROVE FALSE
      <3>1. r \in rows["residuals"] /\ r \notin imp[i].deleted["residuals"] /\ r \in RowSet
        BY <1>5, <1>6, <2>3 DEF Tables, IndexInv, IndexTypes
      <3>2. r[1] \in Committed /\ r = <<r[1], "linked">> /\ r[1] \in Imports
        BY <2>3, <3>1 DEF IndexInv, RowsCommitted, Tables, RowSet
      <3>3. PICK k \in Committed : /\ rows["versions"] = RowKeys(k, "versions")
                                   /\ \A q \in rows["residuals"] : q[2] = "linked" => q[1] = k
        BY <1>13, <3>2, Zenon DEF IndexInv, IndexIsWhole
      <3>4. r[1] = k /\ k \in Imports /\ imp[k].pc = "done"
        BY <2>3, <3>1, <3>3, Zenon DEF Committed
      <3>5. <<k, "all">> \in rows["versions"]
        BY <1>13, <3>3, <3>4, VersionRow, Zenon
      <3> QED
        BY <2>1, <3>1, <3>2, <3>4, <3>5, Zenon DEF IndexInv, LinkedGo
    <2>4. authored' \cap imp[i].tree.labels = {}
      BY <1>1, <1>5, <1>13, Zenon DEF IndexInv, OneInserts
    <2> QED
      BY <2>2, <2>3, <2>4, Zenon
  <1>14. IndexIsWhole'
    <2> SUFFICES ASSUME LabelShared PROVE IndexIsWhole'
      BY Zenon DEF IndexIsWhole, LabelShared
    <2>1. /\ RowKeys(i, "versions")' = RowKeys(i, "versions")
          /\ RowKeys(i, "residuals")' = RowKeys(i, "residuals")
          /\ RowKeys(i, "artifacts")' = RowKeys(i, "artifacts")
      <3>1. imp'[i].tree = imp[i].tree
        BY <1>2, <1>4, Zenon
      <3> QED
        BY <3>1, Zenon DEF RowKeys, RowsOf
    <2>2. /\ RowKeys(i, "residuals") \subseteq rows'["residuals"]
          /\ RowKeys(i, "artifacts") \subseteq rows'["artifacts"]
      BY <1>5, Zenon DEF Tables
    <2>3. imp'[i].tree = imp[i].tree /\ i \in Committed'
      BY <1>2, <1>4, <1>9, Zenon
    <2> QED
      BY <1>13, <2>1, <2>2, <2>3, Zenon DEF IndexIsWhole
  <1> QED
    BY <1>7, <1>8, <1>10, <1>11, <1>12, <1>14, Zenon DEF IndexInv, LabelShared

(* A version is authored under a label that no version of the index has and
   none that an import has inserted.                                       *)
LEMMA AuthorVersionInv ==
    ASSUME IndexInv, NEW label \in Labels, AuthorVersion(label) PROVE IndexInv'
  <1>1. /\ UNCHANGED <<tree, yaml, config, rows, imp, doctor, report>>
        /\ authored' = authored \cup {label}
    BY Zenon DEF AuthorVersion
  <1>2. IndexTypes' /\ TreesRead' /\ RowsCommitted' /\ LinkedGo'
    BY <1>1, Zenon DEF IndexInv, IndexTypes, TreesRead, RowsCommitted, LinkedGo, Committed
  <1>3. ASSUME LabelShared PROVE OneInserts'
    <2>1. ASSUME NEW j \in Imports, Inserting(j) PROVE label \notin imp[j].tree.labels
      <3>1. Active(j) /\ imp[j].pc \notin {"idle", "failed"}
        BY <2>1, Zenon DEF Inserting, Active
      <3>2. RowKeys(j, "versions") = {<<j, "all">>}
        BY <1>3, <3>1, VersionRow, Zenon
      <3>3. Inserted(j)["versions"] = {<<j, "all">>}
        BY <2>1, <3>2, Zenon DEF Inserted, Inserting, Tables
      <3> QED
        BY <3>1, <3>3, Zenon DEF AuthorVersion
    <2> QED
      BY <1>1, <1>3, <2>1, Zenon DEF IndexInv, OneInserts, Inserting
  <1>4. IndexIsWhole'
    <2> SUFFICES ASSUME LabelShared, Committed # {} PROVE IndexIsWhole'
      BY <1>1, Zenon DEF IndexIsWhole, LabelShared, Committed
    <2>1. PICK i \in Committed :
            /\ rows["versions"] = RowKeys(i, "versions")
            /\ RowKeys(i, "residuals") \subseteq rows["residuals"]
            /\ RowKeys(i, "artifacts") \subseteq rows["artifacts"]
            /\ \A r \in rows["residuals"] : r[2] = "linked" => r[1] = i
            /\ authored \cap imp[i].tree.labels = {}
      BY Zenon DEF IndexInv, IndexIsWhole
    <2>2. i \in Imports /\ imp[i].pc = "done"
      BY Zenon DEF Committed
    <2>3. <<i, "all">> \in rows["versions"]
      BY <2>1, <2>2, VersionRow, Zenon
    <2>4. label \notin imp[i].tree.labels
      BY <2>3, Zenon DEF AuthorVersion
    <2>5. /\ RowKeys(i, "versions")' = RowKeys(i, "versions")
          /\ RowKeys(i, "residuals")' = RowKeys(i, "residuals")
          /\ RowKeys(i, "artifacts")' = RowKeys(i, "artifacts")
          /\ Committed' = Committed
      BY <1>1, Zenon DEF RowKeys, RowsOf, Committed
    <2> QED
      BY <1>1, <2>1, <2>4, <2>5, Zenon DEF IndexIsWhole
  <1> QED
    BY <1>2, <1>3, <1>4, Zenon DEF IndexInv, LabelShared

-----------------------------------------------------------------------------
(* Every check of the doctor is a grade. *)
LEMMA GradesJoin ==
    ASSUME NEW f, NEW g, Grades(f), Grades(g) PROVE Grades(Joined(f, g))
  BY Zenon DEF Grades, Joined

LEMMA GradesGiven ==
    ASSUME NEW holds, NEW otherwise \in {"warn", "fail"}
    PROVE  If(holds, otherwise) \in {"pass", "warn", "fail"}
  BY Zenon DEF If

(* The doctor only reads the index, and grades what it finds. *)
LEMMA DoctorStepInv ==
    ASSUME IndexInv, DoctorStep PROVE IndexInv'
  <1>1. UNCHANGED <<tree, yaml, config, rows, authored, imp>>
    BY Zenon DEF DoctorStep, DoctorReadsIndex, DoctorReadsLatest, DoctorLoads, DoctorLoadsAgain,
           DoctorChecksConfig, DoctorRunsNative, RecordDoctorReport
  <1>2. "checks" \in DOMAIN doctor /\ Grades(doctor.checks) /\ Grades(report)
    BY Zenon DEF IndexInv, IndexTypes
  <1>3. "checks" \in DOMAIN doctor' /\ Grades(doctor'.checks) /\ Grades(report')
    <2>1. CASE DoctorReadsIndex
      BY <1>2, <2>1, Zenon DEF DoctorReadsIndex, DoctorIdle, NoReport, Grades
    <2>2. CASE DoctorReadsLatest
      <3>1. doctor' = [doctor EXCEPT !.pc = "load", !.latest = LatestImport]
        BY <2>2, Zenon DEF DoctorReadsLatest
      <3>2. doctor'.checks = doctor.checks /\ DOMAIN doctor' = DOMAIN doctor
        BY <3>1
      <3> QED
        BY <1>2, <2>2, <3>2, Zenon DEF DoctorReadsLatest
    <2>3. CASE DoctorLoads
      <3> DEFINE first == InventoryChecks(doctor.inventory, doctor.latest)
      <3>1. Grades(first)
        BY GradesGiven DEF InventoryChecks, Grades
      <3>2. Grades([source_snapshot |-> "pass"]) /\ Grades([source_snapshot |-> "fail"])
        BY DEF Grades
      <3>3. \/ doctor' = [doctor EXCEPT !.pc = "second_load", !.current = tree,
                                       !.checks = Joined(first, [source_snapshot |-> "pass"])]
            \/ doctor' = [doctor EXCEPT !.pc = "record",
                                       !.checks = Joined(first, [source_snapshot |-> "fail"])]
        BY <2>3, Zenon DEF DoctorLoads
      <3> HIDE DEF first
      <3>4. \/ doctor'.checks = Joined(first, [source_snapshot |-> "pass"])
            \/ doctor'.checks = Joined(first, [source_snapshot |-> "fail"])
        BY <3>3, <1>2, Zenon
      <3>5. DOMAIN doctor' = DOMAIN doctor /\ report' = report
        BY <2>3, <3>3, Zenon DEF DoctorLoads
      <3> QED
        BY <1>2, <3>1, <3>2, <3>4, <3>5, GradesJoin, Zenon
    <2>4. CASE DoctorLoadsAgain
      <3> DEFINE more == [import_idempotency |->
                              If(tree.readable /\ SourceHash(tree) = SourceHash(doctor.current), "warn"),
                          hash_drift |-> If(doctor.latest = SourceHash(doctor.current), "fail")]
      <3>1. Grades(more)
        BY GradesGiven DEF Grades
      <3>2. doctor' = [doctor EXCEPT !.pc = "config", !.checks = Joined(@, more)] /\ report' = report
        BY <2>4, Zenon DEF DoctorLoadsAgain
      <3> HIDE DEF more
      <3> QED
        BY <1>2, <3>1, <3>2, GradesJoin, Zenon
    <2>5. CASE DoctorChecksConfig
      <3> DEFINE consistent(table, n) == If(n = RowsOf(doctor.current, table), "fail")
                 more == [project_config_drift |-> If(config = yaml, "warn"),
                          version_consistency  |-> consistent("versions", doctor.inventory.versions),
                          residual_consistency |-> consistent("residuals", doctor.inventory.residuals),
                          artifact_consistency |-> consistent("artifacts", doctor.inventory.artifacts),
                          stage_coverage       |-> If(doctor.current.staged, "warn")]
      <3>1. Grades(more)
        BY SMTT(30), GradesGiven DEF Grades
      <3>2. doctor' = [doctor EXCEPT !.pc = "native", !.checks = Joined(@, more)] /\ report' = report
        BY <2>5, Zenon DEF DoctorChecksConfig
      <3> HIDE DEF more
      <3> QED
        BY <1>2, <3>1, <3>2, GradesJoin, Zenon
    <2>6. CASE DoctorRunsNative
      <3>1. PICK allowNative \in BOOLEAN, outcome \in {"pass", "fail"} :
              doctor' = [doctor EXCEPT !.pc = "record", !.checks = Joined(@,
                [native_workflow_doctor |-> IF NativeAllowed(allowNative) THEN outcome ELSE "warn"])]
        BY <2>6, Zenon DEF DoctorRunsNative
      <3> DEFINE more == [native_workflow_doctor |->
                              IF NativeAllowed(allowNative) THEN outcome ELSE "warn"]
      <3>2. Grades(more)
        BY DEF Grades
      <3>3. doctor' = [doctor EXCEPT !.pc = "record", !.checks = Joined(@, more)] /\ report' = report
        BY <2>6, <3>1, Zenon DEF DoctorRunsNative
      <3> HIDE DEF more
      <3> QED
        BY <1>2, <3>2, <3>3, GradesJoin, Zenon
    <2>7. CASE RecordDoctorReport
      BY <1>2, <2>7, Zenon DEF RecordDoctorReport, DoctorIdle
    <2> QED
      BY <2>1, <2>2, <2>3, <2>4, <2>5, <2>6, <2>7, Zenon DEF DoctorStep
  <1>4. IndexTypes'
    BY <1>1, <1>3, Zenon DEF IndexInv, IndexTypes
  <1> QED
    BY <1>1, <1>4, IndexFrame, Zenon

(* Registering the project and editing its files. *)
LEMMA EnvironmentInv ==
    ASSUME IndexInv, UpsertFromConfig \/ EditTree \/ EditYaml PROVE IndexInv'
  <1>1. UNCHANGED <<rows, authored, imp, report>>
    BY Zenon DEF UpsertFromConfig, EditTree, EditYaml
  <1>2. tree' \in Trees /\ yaml' \in Configs /\ config' \in Configs \cup {NoConfig}
    BY Zenon DEF UpsertFromConfig, EditTree, EditYaml, IndexInv, IndexTypes
  <1>3. doctor'.checks = doctor.checks /\ DOMAIN doctor' = DOMAIN doctor
    <2>1. doctor' = [doctor EXCEPT !.quiet = doctor.quiet /\ doctor.pc \in {"idle", "recorded"}]
      BY Zenon DEF UpsertFromConfig, EditTree, EditYaml, Disturb
    <2> QED
      BY <2>1
  <1>4. IndexTypes'
    BY <1>1, <1>2, <1>3, Zenon DEF IndexInv, IndexTypes
  <1> QED
    BY <1>1, <1>4, IndexFrame, Zenon

(* Every step of the index keeps the invariant. *)
LEMMA IndexNextInv ==
    ASSUME IndexInv, [IndexNext]_indexVars PROVE IndexInv'
  <1>1. CASE UNCHANGED indexVars
    <2>1. IndexTypes'
      BY <1>1, Zenon DEF IndexInv, IndexTypes, indexVars
    <2> QED
      BY <1>1, <2>1, IndexFrame, Zenon DEF indexVars
  <1>2. ASSUME NEW i \in Imports, ImportStep(i) \/ FailImport(i) PROVE IndexInv'
    BY <1>2, LoadTreeInv, BeginImportInv, StartClearInv, FinishClearInv, InsertVersionsInv,
       InsertResidualsInv, CommitImportInv, FailImportInv, Zenon DEF ImportStep
  <1>3. ASSUME NEW label \in Labels, AuthorVersion(label) PROVE IndexInv'
    BY <1>3, AuthorVersionInv, Zenon
  <1> QED
    BY <1>1, <1>2, <1>3, DoctorStepInv, EnvironmentInv, Zenon DEF IndexNext


-----------------------------------------------------------------------------
(* The status file. *)

IsCall(c) ==
    DOMAIN c = {"pc", "packet", "snap", "gate", "pre", "wrote", "outcome", "final", "late"}

Early == {"idle", "drafted", "snapshotted", "gated", "capture"}
Captured == {"fingerprint", "write"}
Past == {"verify", "after", "record", "done"}

(* A content f the call of a has seen: it was there at the capture, or came
   after it.                                                               *)
Known(c, content, f) == f = content \/ f \in c.late

(* What a wrote, or found already written, is in the file unless it was
   changed since.                                                          *)
Wrote(c, a, f) ==
    /\ c.wrote = Doc(c.snap, a) \/ Known(c, c.pre, c.wrote)
    /\ Known(c, c.wrote, f)

Written(c) == c.pc = "after" \/ (c.pc = "record" /\ c.outcome = "written")

(* What is true of the call c of apply a while f is in the file. *)
CallInv(c, a, f) ==
    /\ IsCall(c)
    /\ c.pc \in Early \cup Captured \cup Past
    /\ c.outcome \in {"none", "replayed", "blocked", "written", "failed", "rollback_failed", "lost"}
    /\ c.pc \in Early => c.pre = NoContent /\ c.late = {}
    /\ c.pc \in Captured \cup {"verify"} \/ Written(c) => c.pre = c.packet.before /\ c.pre # NoContent
    /\ c.pc \in Captured => Known(c, c.pre, f)
    /\ c.pc = "verify" \/ Written(c) => Wrote(c, a, f)
    /\ Written(c) => StableDocument(c.wrote, c.snap)
    /\ c.pc = "record" => c.outcome \in {"blocked", "written"}
    /\ c.pc = "record" /\ c.outcome = "blocked" /\ c.pre # NoContent => Known(c, c.pre, f)
    /\ c.pc = "done" /\ c.late = {} =>
         /\ c.outcome = "written" => c.final = c.wrote /\ StableDocument(c.final, c.snap)
         /\ c.outcome \in {"blocked", "failed"} /\ c.pre # NoContent => c.final = c.pre

(* The inductive invariant of the projection. *)
ProjectionInv ==
    /\ paths \in Prints
    /\ file # NoContent
    /\ cmd = [a \in Applies |-> cmd[a]]
    /\ \A a \in Applies : CallInv(cmd[a], a, file)
    /\ \A p \in projections : p.by \in Applies /\ p.state \in {"blocked", "written"}
    /\ \A o \in overwrote : o.by \in Applies /\ cmd[o.by].pc \in Past
    /\ OnlyApprovedOverwritten

(* Before any apply. *)
LEMMA ProjectionInitially == ProjectionInit => ProjectionInv
  <1> SUFFICES ASSUME ProjectionInit PROVE ProjectionInv
    BY Zenon
  <1>1. file # NoContent
    BY DEF ProjectionInit, Missing, Note, NoContent
  <1>2. ASSUME NEW a \in Applies PROVE CallInv(NoCall, a, file)
    BY Zenon DEF CallInv, NoCall, IsCall, Early, Captured, Past, Written
  <1> QED
    BY <1>1, <1>2, Zenon DEF ProjectionInit, ProjectionInv, OnlyApprovedOverwritten

(* The content g comes into the file: a call that has captured its preimage
   has it as late, and to every other it makes no difference.              *)
LEMMA LateCall ==
    ASSUME NEW a, NEW c, NEW f, NEW g, CallInv(c, a, f), NEW d,
           d = IF /\ c.pc \in {"capture", "fingerprint", "write", "verify", "after", "record"}
                  /\ c.pre # NoContent
               THEN [c EXCEPT !.late = @ \cup {g}] ELSE c
    PROVE  CallInv(d, a, g) /\ d.pc = c.pc /\ d.packet = c.packet /\ d.snap = c.snap
  <1>1. CASE /\ c.pc \in {"capture", "fingerprint", "write", "verify", "after", "record"}
             /\ c.pre # NoContent
    <2>1. d = [c EXCEPT !.late = c.late \cup {g}]
      BY <1>1, Zenon
    <2>2. /\ d.pc = c.pc /\ d.packet = c.packet /\ d.snap = c.snap /\ d.gate = c.gate
          /\ d.pre = c.pre /\ d.wrote = c.wrote /\ d.outcome = c.outcome /\ d.final = c.final
          /\ d.late = c.late \cup {g}
      BY <2>1, Zenon DEF CallInv, IsCall
    <2>3. IsCall(d)
      BY <2>1, Zenon DEF CallInv, IsCall
    <2>4. c.pc \notin Early /\ c.pc # "done"
      BY <1>1, Zenon DEF CallInv, Early
    <2>5. Known(d, d.pre, g) /\ Known(d, d.wrote, g)
      BY <2>2, Zenon DEF Known
    <2>6. Known(c, c.pre, c.wrote) => Known(d, d.pre, d.wrote)
      BY <2>2, Zenon DEF Known
    <2>7. Written(d) <=> Written(c)
      BY <2>2, Zenon DEF Written
    <2>8. Wrote(c, a, f) => Wrote(d, a, g)
      BY <2>2, <2>5, <2>6, Zenon DEF Wrote
    <2> QED
      BY <2>2, <2>3, <2>4, <2>5, <2>7, <2>8, Zenon DEF CallInv
  <1>2. CASE ~(/\ c.pc \in {"capture", "fingerprint", "write", "verify", "after", "record"}
               /\ c.pre # NoContent)
    <2>1. d = c
      BY <1>2, Zenon
    <2>2. c.pc \notin Captured \cup {"verify", "after"} /\ ~Written(c)
      BY <1>2, Zenon DEF CallInv, Captured, Written
    <2>3. ~(c.pc = "record" /\ c.outcome = "blocked" /\ c.pre # NoContent)
      BY <1>2, Zenon
    <2> QED
      BY <2>1, <2>2, <2>3, Zenon DEF CallInv
  <1> QED
    BY <1>1, <1>2, Zenon

(* The call of a becomes c and the file stays. *)
LEMMA KeepInv ==
    ASSUME ProjectionInv, NEW a \in Applies, NEW c, Keep(a, c), CallInv(c, a, file),
           cmd[a].pc \in Past =>
               c.pc \in Past /\ c.packet = cmd[a].packet /\ c.snap = cmd[a].snap,
           UNCHANGED paths,
           \A p \in projections' : p.by \in Applies /\ p.state \in {"blocked", "written"}
    PROVE  ProjectionInv'
  <1>1. /\ cmd' = [x \in Applies |-> cmd'[x]]
        /\ cmd'[a] = c
        /\ \A x \in Applies \ {a} : cmd'[x] = cmd[x]
        /\ file' = file /\ overwrote' = overwrote
    BY Zenon DEF ProjectionInv, Keep
  <1>2. ASSUME NEW x \in Applies PROVE CallInv(cmd'[x], x, file')
    BY <1>1, Zenon DEF ProjectionInv
  <1>3. ASSUME NEW o \in overwrote'
        PROVE  /\ o.by \in Applies /\ cmd'[o.by].pc \in Past
               /\ \/ o.was = cmd'[o.by].packet.before
                  \/ o.was = Doc(cmd'[o.by].snap, o.by)
                  \/ o.fresh
    <2>1. /\ o.by \in Applies /\ cmd[o.by].pc \in Past
          /\ \/ o.was = cmd[o.by].packet.before
             \/ o.was = Doc(cmd[o.by].snap, o.by)
             \/ o.fresh
      BY <1>1, Zenon DEF ProjectionInv, OnlyApprovedOverwritten
    <2>2. /\ cmd'[o.by].pc \in Past /\ cmd'[o.by].packet = cmd[o.by].packet
          /\ cmd'[o.by].snap = cmd[o.by].snap
      BY <1>1, <2>1, Zenon
    <2> QED
      BY <2>1, <2>2, Zenon
  <1>4. OnlyApprovedOverwritten'
    BY <1>3, Zenon DEF OnlyApprovedOverwritten
  <1> QED
    BY <1>1, <1>2, <1>3, <1>4, Zenon DEF ProjectionInv

(* What another call becomes when content comes into the file. *)
LEMMA SeenLateCall ==
    ASSUME ProjectionInv, NEW content, NEW x \in Applies
    PROVE  LET d == SeenLate(content, cmd)[x] IN
           /\ CallInv(d, x, content)
           /\ d.pc = cmd[x].pc /\ d.packet = cmd[x].packet /\ d.snap = cmd[x].snap
  <1> DEFINE d == SeenLate(content, cmd)[x]
  <1>1. d = IF /\ cmd[x].pc \in {"capture", "fingerprint", "write", "verify", "after", "record"}
               /\ cmd[x].pre # NoContent
            THEN [cmd[x] EXCEPT !.late = @ \cup {content}] ELSE cmd[x]
    BY Zenon DEF SeenLate, Watching, InTransaction
  <1>2. CallInv(cmd[x], x, file)
    BY Zenon DEF ProjectionInv
  <1> HIDE DEF d
  <1>3. /\ CallInv(d, x, content)
        /\ d.pc = cmd[x].pc /\ d.packet = cmd[x].packet /\ d.snap = cmd[x].snap
    BY <1>1, <1>2, LateCall
  <1> QED
    BY <1>3, Zenon DEF d

(* Apply a puts content into the file, over one that the packet named, that
   a wrote itself, or that came after its capture.                         *)
LEMMA ReplaceInv ==
    ASSUME ProjectionInv, NEW a \in Applies, NEW c, NEW how, NEW content, content # NoContent,
           Replace(a, how, content, c), CallInv(c, a, content),
           c.pc \in Past, c.packet = cmd[a].packet, c.snap = cmd[a].snap,
           file = cmd[a].packet.before \/ file = Doc(cmd[a].snap, a) \/ file \in cmd[a].late,
           UNCHANGED <<paths, projections>>
    PROVE  ProjectionInv'
  <1> DEFINE s == SeenLate(content, cmd)
             new == [by |-> a, how |-> how, was |-> file, fresh |-> file \in cmd[a].late]
  <1>1. s = [x \in Applies |-> s[x]]
    BY Zenon DEF SeenLate
  <1>2. cmd' = [s EXCEPT ![a] = c] /\ file' = content /\ overwrote' = overwrote \cup {new}
    BY Zenon DEF Replace
  <1>3. \A x \in Applies : /\ CallInv(s[x], x, content) /\ s[x].pc = cmd[x].pc
                           /\ s[x].packet = cmd[x].packet /\ s[x].snap = cmd[x].snap
    BY SeenLateCall, Zenon
  <1>4. new.by = a /\ new.was = file /\ (new.fresh <=> file \in cmd[a].late)
    BY Zenon
  <1> HIDE DEF s, new
  <1>5. /\ cmd' = [x \in Applies |-> cmd'[x]]
        /\ cmd'[a] = c
        /\ \A x \in Applies \ {a} : cmd'[x] = s[x]
    BY <1>1, <1>2, Zenon
  <1>6. ASSUME NEW x \in Applies PROVE CallInv(cmd'[x], x, file')
    BY <1>2, <1>3, <1>5, Zenon
  <1>7. ASSUME NEW x \in Applies, cmd[x].pc \in Past
        PROVE  /\ cmd'[x].pc \in Past /\ cmd'[x].packet = cmd[x].packet
               /\ cmd'[x].snap = cmd[x].snap
    BY <1>3, <1>5, <1>7, Zenon
  <1>8. ASSUME NEW o \in overwrote'
        PROVE  /\ o.by \in Applies /\ cmd'[o.by].pc \in Past
               /\ \/ o.was = cmd'[o.by].packet.before
                  \/ o.was = Doc(cmd'[o.by].snap, o.by)
                  \/ o.fresh
    <2>1. CASE o \in overwrote
      <3>1. /\ o.by \in Applies /\ cmd[o.by].pc \in Past
            /\ \/ o.was = cmd[o.by].packet.before
               \/ o.was = Doc(cmd[o.by].snap, o.by)
               \/ o.fresh
        BY <2>1, Zenon DEF ProjectionInv, OnlyApprovedOverwritten
      <3> QED
        BY <1>7, <3>1, Zenon
    <2>2. CASE o = new
      BY <1>4, <1>5, <2>2, Zenon
    <2> QED
      BY <1>2, <2>1, <2>2, Zenon
  <1>9. OnlyApprovedOverwritten'
    BY <1>8, Zenon DEF OnlyApprovedOverwritten
  <1> QED
    BY <1>2, <1>5, <1>6, <1>8, <1>9, Zenon DEF ProjectionInv

-----------------------------------------------------------------------------
(* A call that is blocked, with the preimage in the file if it captured one. *)
LEMMA BlockCall ==
    ASSUME NEW a, NEW c, NEW f, IsCall(c), c.pre # NoContent => Known(c, c.pre, f)
    PROVE  /\ CallInv(Block(c), a, f) /\ Block(c).pc \in Past
           /\ Block(c).packet = c.packet /\ Block(c).snap = c.snap
  <1> DEFINE d == Block(c)
  <1>1. /\ d.pc = "record" /\ d.packet = c.packet /\ d.snap = c.snap /\ d.pre = c.pre
        /\ d.outcome = "blocked" /\ d.late = c.late /\ IsCall(d)
    BY Zenon DEF Block, IsCall
  <1> HIDE DEF d
  <1>2. CallInv(d, a, f)
    BY <1>1, Zenon DEF CallInv, Early, Captured, Past, Written, Known
  <1> QED
    BY <1>1, <1>2, Zenon DEF d, Past

(* A call that ends without saying what it left. *)
LEMMA EndUntoldCall ==
    ASSUME NEW a, NEW c, NEW f, NEW outcome \in {"replayed", "rollback_failed", "lost"}
    PROVE  LET d == EndUntold(c, outcome) IN
           CallInv(d, a, f) /\ d.pc \in Past /\ d.packet = c.packet /\ d.snap = c.snap
  <1> DEFINE d == EndUntold(c, outcome)
  <1>1. d.pc = "done" /\ d.packet = c.packet /\ d.snap = c.snap /\ d.outcome = outcome /\ IsCall(d)
    BY Zenon DEF EndUntold, NoCall, IsCall
  <1> HIDE DEF d
  <1>2. CallInv(d, a, f)
    BY <1>1, Zenon DEF CallInv, Early, Captured, Past, Written
  <1> QED
    BY <1>1, <1>2, Zenon DEF d, Past

(* A call that ends and says it left content. *)
LEMMA EndCall ==
    ASSUME NEW a, NEW c, NEW f, NEW content, NEW outcome \in {"blocked", "written", "failed"},
           IsCall(c),
           c.late = {} =>
               /\ outcome = "written" => content = c.wrote /\ StableDocument(content, c.snap)
               /\ outcome # "written" /\ c.pre # NoContent => content = c.pre
    PROVE  LET d == End(c, outcome, content) IN
           CallInv(d, a, f) /\ d.pc \in Past /\ d.packet = c.packet /\ d.snap = c.snap
  <1> DEFINE d == End(c, outcome, content)
  <1>1. /\ d.pc = "done" /\ d.packet = c.packet /\ d.snap = c.snap /\ d.pre = c.pre
        /\ d.wrote = c.wrote /\ d.outcome = outcome /\ d.final = content /\ d.late = c.late
        /\ IsCall(d)
    BY Zenon DEF End, IsCall
  <1> HIDE DEF d
  <1>2. CallInv(d, a, f)
    BY <1>1, Zenon DEF CallInv, Early, Captured, Past, Written
  <1> QED
    BY <1>1, <1>2, Zenon DEF d, Past

(* Until the capture a call only changes its own record. *)
LEMMA EarlyStepInv ==
    ASSUME ProjectionInv, NEW a \in Applies, DraftPacket(a) \/ ReadSnapshot(a) \/ EvaluateGate(a)
    PROVE  ProjectionInv'
  <1>1. IsCall(cmd[a]) /\ CallInv(cmd[a], a, file)
    BY Zenon DEF ProjectionInv, CallInv
  <1>2. \E c : /\ cmd' = [cmd EXCEPT ![a] = c]
               /\ IsCall(c) /\ c.pc \in Early /\ c.pre = cmd[a].pre /\ c.late = cmd[a].late
               /\ c.outcome = cmd[a].outcome
    <2>1. CASE DraftPacket(a)
      <3>1. PICK approved \in BOOLEAN :
              cmd' = [cmd EXCEPT ![a].pc = "drafted", ![a].packet = PacketNow(approved)]
        BY <2>1, Zenon DEF DraftPacket
      <3> DEFINE c == [cmd[a] EXCEPT !.pc = "drafted", !.packet = PacketNow(approved)]
      <3>2. cmd' = [cmd EXCEPT ![a] = c]
        BY <3>1, Zenon DEF ProjectionInv
      <3>3. /\ IsCall(c) /\ c.pc = "drafted" /\ c.pre = cmd[a].pre /\ c.late = cmd[a].late
            /\ c.outcome = cmd[a].outcome
        BY <1>1, Zenon DEF IsCall
      <3> QED
        BY <3>2, <3>3, Zenon DEF Early
    <2>2. CASE ReadSnapshot(a)
      <3> DEFINE c == [cmd[a] EXCEPT !.pc = "snapshotted", !.snap = LatestImport]
      <3>1. cmd' = [cmd EXCEPT ![a] = c]
        BY <2>2, Zenon DEF ReadSnapshot, ProjectionInv
      <3>2. /\ IsCall(c) /\ c.pc = "snapshotted" /\ c.pre = cmd[a].pre /\ c.late = cmd[a].late
            /\ c.outcome = cmd[a].outcome
        BY <1>1, Zenon DEF IsCall
      <3> QED
        BY <3>1, <3>2, Zenon DEF Early
    <2>3. CASE EvaluateGate(a)
      <3> DEFINE c == [cmd[a] EXCEPT !.pc = "gated", !.gate = ApplyGate(cmd[a].packet)]
      <3>1. cmd' = [cmd EXCEPT ![a] = c]
        BY <2>3, Zenon DEF EvaluateGate, ProjectionInv
      <3>2. /\ IsCall(c) /\ c.pc = "gated" /\ c.pre = cmd[a].pre /\ c.late = cmd[a].late
            /\ c.outcome = cmd[a].outcome
        BY <1>1, Zenon DEF IsCall
      <3> QED
        BY <3>1, <3>2, Zenon DEF Early
    <2> QED
      BY <2>1, <2>2, <2>3, Zenon
  <1>3. PICK c : /\ cmd' = [cmd EXCEPT ![a] = c]
                 /\ IsCall(c) /\ c.pc \in Early /\ c.pre = cmd[a].pre /\ c.late = cmd[a].late
                 /\ c.outcome = cmd[a].outcome
    BY <1>2, Zenon
  <1>4. cmd[a].pc \in Early /\ UNCHANGED <<file, paths, projections, overwrote>>
    BY Zenon DEF DraftPacket, ReadSnapshot, EvaluateGate, Early
  <1>5. CallInv(c, a, file)
    BY <1>1, <1>3, <1>4, Zenon DEF CallInv, Early, Captured, Past, Written
  <1>6. Keep(a, c)
    BY <1>3, <1>4, Zenon DEF Keep
  <1>7. cmd[a].pc \notin Past
    BY <1>4, Zenon DEF Early, Past
  <1>8. \A p \in projections' : p.by \in Applies /\ p.state \in {"blocked", "written"}
    BY <1>4, Zenon DEF ProjectionInv
  <1> QED
    BY <1>4, <1>5, <1>6, <1>7, <1>8, KeepInv, Zenon

(* The reserved key is replayed, or the command blocked or let through. *)
LEMMA ReserveAndEvaluateInv ==
    ASSUME ProjectionInv, NEW a \in Applies, ReserveAndEvaluate(a) PROVE ProjectionInv'
  <1> DEFINE c == cmd[a]
             through == [c EXCEPT !.pc = "capture"]
  <1>1. CallInv(c, a, file) /\ c.pc = "gated"
    BY Zenon DEF ProjectionInv, ReserveAndEvaluate
  <1>2. c.pre = NoContent /\ c.pc \notin Past /\ IsCall(c)
    BY <1>1, Zenon DEF CallInv, Early, Past
  <1>3. PICK d \in {EndUntold(c, "replayed"), Block(c), through} : Keep(a, d)
    BY Zenon DEF ReserveAndEvaluate
  <1>4. CallInv(through, a, file)
    <2>1. /\ through.pc = "capture" /\ through.pre = c.pre /\ through.late = c.late
          /\ through.outcome = c.outcome /\ IsCall(through)
      BY <1>2, Zenon DEF IsCall
    <2> HIDE DEF through
    <2> QED
      BY <1>1, <2>1, Zenon DEF CallInv, Early, Captured, Past, Written
  <1>5. CallInv(d, a, file)
    BY <1>2, <1>4, BlockCall, EndUntoldCall
  <1>6. UNCHANGED <<paths, projections>>
    BY Zenon DEF ReserveAndEvaluate
  <1>7. \A p \in projections' : p.by \in Applies /\ p.state \in {"blocked", "written"}
    BY <1>6, Zenon DEF ProjectionInv
  <1> HIDE DEF through
  <1> QED
    BY <1>2, <1>3, <1>5, <1>6, <1>7, KeepInv, Zenon

(* The preimage is captured, and must be the packet's. *)
LEMMA CapturePreimageInv ==
    ASSUME ProjectionInv, NEW a \in Applies, CapturePreimage(a) PROVE ProjectionInv'
  <1> DEFINE c == cmd[a]
             other == [c EXCEPT !.pre = file]
             same == [c EXCEPT !.pre = file, !.pc = "fingerprint"]
  <1>1. CallInv(c, a, file) /\ c.pc = "capture" /\ file # NoContent
    BY Zenon DEF ProjectionInv, CapturePreimage
  <1>2. c.pre = NoContent /\ c.pc \notin Past /\ IsCall(c)
    BY <1>1, Zenon DEF CallInv, Early, Past
  <1>3. PICK d : /\ Keep(a, d)
                 /\ \/ d = Block(c)
                    \/ d = Block(other)
                    \/ d = same /\ file = c.packet.before
    BY Zenon DEF CapturePreimage
  <1>4. CallInv(Block(c), a, file)
    BY <1>2, BlockCall, Zenon
  <1>5. CallInv(Block(other), a, file)
    <2>1. IsCall(other) /\ other.pre = file
      BY <1>2, Zenon DEF IsCall
    <2> QED
      BY <2>1, BlockCall, Zenon DEF Known
  <1>6. ASSUME file = c.packet.before PROVE CallInv(same, a, file)
    <2>1. /\ same.pc = "fingerprint" /\ same.pre = file /\ same.packet = c.packet
          /\ same.outcome = c.outcome /\ IsCall(same)
      BY <1>2, Zenon DEF IsCall
    <2> HIDE DEF same
    <2> QED
      BY <1>1, <1>6, <2>1, Zenon DEF CallInv, Early, Captured, Past, Written, Known
  <1>7. CallInv(d, a, file)
    BY <1>3, <1>4, <1>5, <1>6, Zenon
  <1>8. UNCHANGED <<paths, projections>>
    BY Zenon DEF CapturePreimage
  <1>9. \A p \in projections' : p.by \in Applies /\ p.state \in {"blocked", "written"}
    BY <1>8, Zenon DEF ProjectionInv
  <1> QED
    BY <1>2, <1>3, <1>7, <1>8, <1>9, KeepInv, Zenon

(* The protected paths before the write. *)
LEMMA FingerprintBeforeInv ==
    ASSUME ProjectionInv, NEW a \in Applies, FingerprintBefore(a) PROVE ProjectionInv'
  <1> DEFINE c == cmd[a]
             on == [c EXCEPT !.pc = "write"]
  <1>1. CallInv(c, a, file) /\ c.pc = "fingerprint"
    BY Zenon DEF ProjectionInv, FingerprintBefore
  <1>2. Known(c, c.pre, file) /\ c.pc \notin Past /\ IsCall(c)
    BY <1>1, Zenon DEF CallInv, Captured, Past
  <1>3. PICK d \in {Block(c), on} : Keep(a, d)
    BY Zenon DEF FingerprintBefore
  <1>4. CallInv(on, a, file)
    <2>1. /\ on.pc = "write" /\ on.pre = c.pre /\ on.packet = c.packet /\ on.late = c.late
          /\ on.outcome = c.outcome /\ IsCall(on)
      BY <1>2, Zenon DEF IsCall
    <2> HIDE DEF on
    <2> QED
      BY <1>1, <2>1, Zenon DEF CallInv, Early, Captured, Past, Written, Known
  <1>5. CallInv(d, a, file)
    BY <1>2, <1>4, BlockCall
  <1>6. UNCHANGED <<paths, projections>>
    BY Zenon DEF FingerprintBefore
  <1>7. \A p \in projections' : p.by \in Applies /\ p.state \in {"blocked", "written"}
    BY <1>6, Zenon DEF ProjectionInv
  <1> HIDE DEF on
  <1> QED
    BY <1>2, <1>3, <1>5, <1>6, <1>7, KeepInv, Zenon

(* The document is written, or found already written. *)
LEMMA WriteInv ==
    ASSUME ProjectionInv, NEW a \in Applies, Write(a) PROVE ProjectionInv'
  <1> DEFINE c == cmd[a]
             d(content) == [c EXCEPT !.pc = "verify", !.wrote = content]
             new == Doc(c.snap, a)
  <1>1. CallInv(c, a, file) /\ c.pc = "write"
    BY Zenon DEF ProjectionInv, Write
  <1>2. /\ Known(c, c.pre, file) /\ c.pre = c.packet.before /\ c.pre # NoContent
        /\ c.pc \notin Past /\ IsCall(c)
    BY <1>1, Zenon DEF CallInv, Captured, Past
  <1>3. UNCHANGED <<paths, projections>>
    BY Zenon DEF Write
  <1>4. \A p \in projections' : p.by \in Applies /\ p.state \in {"blocked", "written"}
    BY <1>3, Zenon DEF ProjectionInv
  <1>5. \/ Keep(a, d(file))
        \/ Replace(a, "write", new, d(new))
    BY Zenon DEF Write
  <1>6. ASSUME NEW content, content = new \/ Known(c, c.pre, content)
        PROVE  /\ CallInv(d(content), a, content) /\ d(content).pc \in Past
               /\ d(content).packet = c.packet /\ d(content).snap = c.snap
    <2> DEFINE e == d(content)
    <2>1. /\ e.pc = "verify" /\ e.wrote = content /\ e.pre = c.pre /\ e.packet = c.packet
          /\ e.snap = c.snap /\ e.late = c.late /\ e.outcome = c.outcome /\ IsCall(e)
      BY <1>2, Zenon DEF IsCall
    <2> HIDE DEF e
    <2>2. Wrote(e, a, content)
      BY <1>6, <2>1, Zenon DEF Wrote, Known
    <2>3. CallInv(e, a, content)
      BY <1>1, <1>2, <2>1, <2>2, Zenon DEF CallInv, Early, Captured, Past, Written
    <2> QED
      BY <2>1, <2>3, Zenon DEF e, Past
  <1>7. new # NoContent
    BY Zenon DEF Doc, NoContent
  <1> HIDE DEF d, new
  <1>8. CASE Keep(a, d(file))
    BY <1>2, <1>3, <1>4, <1>6, <1>8, KeepInv, Zenon
  <1>9. CASE Replace(a, "write", new, d(new))
    BY <1>2, <1>3, <1>6, <1>7, <1>9, ReplaceInv, Zenon DEF Known
  <1> QED
    BY <1>5, <1>8, <1>9, Zenon

(* The preimage of a is put back over a content it knows. *)
LEMMA RestoreInv ==
    ASSUME ProjectionInv, NEW a \in Applies, NEW c, RestorePreimage(a, c),
           CallInv(c, a, cmd[a].pre), c.pc \in Past, c.packet = cmd[a].packet, c.snap = cmd[a].snap,
           cmd[a].pre = cmd[a].packet.before, cmd[a].pre # NoContent,
           Known(cmd[a], cmd[a].pre, file) \/ file = Doc(cmd[a].snap, a),
           UNCHANGED <<paths, projections>>
    PROVE  ProjectionInv'
  BY ReplaceInv, Zenon DEF RestorePreimage, Known

(* The writer fails, and the preimage is put back if it is not there. *)
LEMMA WriteFailsInv ==
    ASSUME ProjectionInv, NEW a \in Applies, WriteFails(a) PROVE ProjectionInv'
  <1> DEFINE c == cmd[a]
             d == Block(c)
  <1>1. CallInv(c, a, file) /\ c.pc = "write"
    BY Zenon DEF ProjectionInv, WriteFails
  <1>2. /\ Known(c, c.pre, file) /\ c.pre = c.packet.before /\ c.pre # NoContent /\ IsCall(c)
    BY <1>1, Zenon DEF CallInv, Captured
  <1>3. UNCHANGED <<paths, projections>>
    BY Zenon DEF WriteFails
  <1>4. \A p \in projections' : p.by \in Applies /\ p.state \in {"blocked", "written"}
    BY <1>3, Zenon DEF ProjectionInv
  <1>5. Keep(a, d) \/ RestorePreimage(a, d)
    BY Zenon DEF WriteFails
  <1>6. /\ CallInv(d, a, file) /\ CallInv(d, a, c.pre)
        /\ d.pc \in Past /\ d.packet = c.packet /\ d.snap = c.snap
    BY <1>2, BlockCall, Zenon DEF Known
  <1> HIDE DEF d
  <1>7. CASE Keep(a, d)
    BY <1>3, <1>4, <1>6, <1>7, KeepInv, Zenon
  <1>8. CASE RestorePreimage(a, d)
    BY <1>2, <1>3, <1>6, <1>8, RestoreInv, Zenon
  <1> QED
    BY <1>5, <1>7, <1>8, Zenon

(* A rollback that puts the preimage back, or fails and says nothing. *)
LEMMA RollbackInv ==
    ASSUME ProjectionInv, NEW a \in Applies, NEW expected, NEW c, Rollback(a, expected, c),
           cmd[a].pc = "verify" \/ Written(cmd[a]),
           CallInv(c, a, cmd[a].pre), c.pc \in Past, c.packet = cmd[a].packet, c.snap = cmd[a].snap,
           UNCHANGED <<paths, projections>>
    PROVE  ProjectionInv'
  <1> DEFINE e == EndUntold(cmd[a], "rollback_failed")
  <1>1. CallInv(cmd[a], a, file)
    BY Zenon DEF ProjectionInv
  <1>2. /\ Wrote(cmd[a], a, file) /\ cmd[a].pre = cmd[a].packet.before /\ cmd[a].pre # NoContent
    BY <1>1, Zenon DEF CallInv
  <1>3. Known(cmd[a], cmd[a].pre, file) \/ file = Doc(cmd[a].snap, a)
    BY <1>2, Zenon DEF Wrote, Known
  <1>4. RestorePreimage(a, c) \/ Keep(a, e)
    BY Zenon DEF Rollback
  <1>5. CASE RestorePreimage(a, c)
    BY <1>2, <1>3, <1>5, RestoreInv, Zenon
  <1>6. CASE Keep(a, e)
    <2>1. CallInv(e, a, file) /\ e.pc \in Past /\ e.packet = cmd[a].packet /\ e.snap = cmd[a].snap
      BY EndUntoldCall, Zenon
    <2>2. \A p \in projections' : p.by \in Applies /\ p.state \in {"blocked", "written"}
      BY Zenon DEF ProjectionInv
    <2> HIDE DEF e
    <2> QED
      BY <1>6, <2>1, <2>2, KeepInv, Zenon
  <1> QED
    BY <1>4, <1>5, <1>6, Zenon

(* What was written is read back, or rolled back. *)
LEMMA VerifyInv ==
    ASSUME ProjectionInv, NEW a \in Applies, Verify(a) PROVE ProjectionInv'
  <1> DEFINE c == cmd[a]
             d == [c EXCEPT !.pc = "after"]
  <1>1. CallInv(c, a, file) /\ c.pc = "verify"
    BY Zenon DEF ProjectionInv, Verify
  <1>2. IsCall(c)
    BY <1>1, Zenon DEF CallInv
  <1>3. UNCHANGED <<paths, projections>>
    BY Zenon DEF Verify
  <1>4. \A p \in projections' : p.by \in Applies /\ p.state \in {"blocked", "written"}
    BY <1>3, Zenon DEF ProjectionInv
  <1>5. \/ Keep(a, d) /\ file = c.wrote /\ StableDocument(file, c.snap)
        \/ \E expected : Rollback(a, expected, Block(c))
    BY Zenon DEF Verify
  <1>6. CASE Keep(a, d) /\ file = c.wrote /\ StableDocument(file, c.snap)
    <2>1. /\ d.pc = "after" /\ d.wrote = c.wrote /\ d.pre = c.pre /\ d.packet = c.packet
          /\ d.snap = c.snap /\ d.late = c.late /\ d.outcome = c.outcome /\ IsCall(d)
      BY <1>2, Zenon DEF IsCall
    <2> HIDE DEF d
    <2>2. Wrote(d, a, file)
      BY <1>1, <2>1, Zenon DEF CallInv, Wrote, Known
    <2>3. CallInv(d, a, file)
      BY <1>1, <1>6, <2>1, <2>2, Zenon DEF CallInv, Early, Captured, Past, Written
    <2> QED
      BY <1>3, <1>4, <1>6, <2>1, <2>3, KeepInv, Zenon DEF Past
  <1>7. CASE \E expected : Rollback(a, expected, Block(c))
    <2>1. /\ CallInv(Block(c), a, c.pre) /\ Block(c).pc \in Past
          /\ Block(c).packet = c.packet /\ Block(c).snap = c.snap
      BY <1>2, BlockCall, Zenon DEF Known
    <2> QED
      BY <1>1, <1>3, <1>7, <2>1, RollbackInv, Zenon
  <1> QED
    BY <1>5, <1>6, <1>7, Zenon

(* The protected paths after the write. *)
LEMMA FingerprintAfterInv ==
    ASSUME ProjectionInv, NEW a \in Applies, FingerprintAfter(a) PROVE ProjectionInv'
  <1> DEFINE c == cmd[a]
             d == [c EXCEPT !.pc = "record", !.outcome = "written"]
  <1>1. CallInv(c, a, file) /\ c.pc = "after" /\ Written(c)
    BY Zenon DEF ProjectionInv, FingerprintAfter, Written
  <1>2. IsCall(c)
    BY <1>1, Zenon DEF CallInv
  <1>3. UNCHANGED <<paths, projections>>
    BY Zenon DEF FingerprintAfter
  <1>4. \A p \in projections' : p.by \in Applies /\ p.state \in {"blocked", "written"}
    BY <1>3, Zenon DEF ProjectionInv
  <1>5. Keep(a, d) \/ Rollback(a, c.wrote, Block(c))
    BY Zenon DEF FingerprintAfter
  <1>6. CASE Keep(a, d)
    <2>1. /\ d.pc = "record" /\ d.wrote = c.wrote /\ d.pre = c.pre /\ d.packet = c.packet
          /\ d.snap = c.snap /\ d.late = c.late /\ d.outcome = "written" /\ IsCall(d)
      BY <1>2, Zenon DEF IsCall
    <2> HIDE DEF d
    <2>2. Wrote(d, a, file)
      BY <1>1, <2>1, Zenon DEF CallInv, Wrote, Known
    <2>3. CallInv(d, a, file)
      BY <1>1, <2>1, <2>2, Zenon DEF CallInv, Early, Captured, Past
    <2> QED
      BY <1>3, <1>4, <1>6, <2>1, <2>3, KeepInv, Zenon DEF Past
  <1>7. CASE Rollback(a, c.wrote, Block(c))
    <2>1. /\ CallInv(Block(c), a, c.pre) /\ Block(c).pc \in Past
          /\ Block(c).packet = c.packet /\ Block(c).snap = c.snap
      BY <1>2, BlockCall, Zenon DEF Known
    <2> QED
      BY <1>1, <1>3, <1>7, <2>1, RollbackInv, Zenon
  <1> QED
    BY <1>5, <1>6, <1>7, Zenon

(* The rows an apply records have its outcome. *)
LEMMA RecordedRows ==
    ASSUME ProjectionInv, NEW a \in Applies, cmd[a].pc = "record",
           Recorded(a) \/ UNCHANGED projections
    PROVE  \A p \in projections' : p.by \in Applies /\ p.state \in {"blocked", "written"}
  <1>1. cmd[a].outcome \in {"blocked", "written"}
    BY Zenon DEF ProjectionInv, CallInv
  <1>2. projections' \subseteq projections \cup {ProjectionRow(a)}
    BY Zenon DEF Recorded
  <1>3. ProjectionRow(a).by = a /\ ProjectionRow(a).state = cmd[a].outcome
    BY Zenon DEF ProjectionRow
  <1> QED
    BY <1>1, <1>2, <1>3, Zenon DEF ProjectionInv

(* The result is recorded and committed, or the commit's answer is lost, or
   the process stops.                                                      *)
LEMMA RecordInv ==
    ASSUME ProjectionInv, NEW a \in Applies, Record(a) PROVE ProjectionInv'
  <1> DEFINE c == cmd[a]
             d == End(c, c.outcome, file)
  <1>1. CallInv(c, a, file) /\ c.pc = "record"
    BY Zenon DEF ProjectionInv, Record
  <1>2. IsCall(c) /\ c.outcome \in {"blocked", "written"}
    BY <1>1, Zenon DEF CallInv
  <1>3. /\ c.outcome = "written" => Known(c, c.wrote, file) /\ StableDocument(c.wrote, c.snap)
        /\ c.outcome = "blocked" /\ c.pre # NoContent => Known(c, c.pre, file)
    BY <1>1, Zenon DEF CallInv, Written, Wrote
  <1>4. CallInv(d, a, file) /\ d.pc \in Past /\ d.packet = c.packet /\ d.snap = c.snap
    <2>1. c.late = {} =>
             /\ c.outcome = "written" => file = c.wrote /\ StableDocument(file, c.snap)
             /\ c.outcome # "written" /\ c.pre # NoContent => file = c.pre
      BY <1>2, <1>3, Zenon DEF Known
    <2>2. c.outcome \in {"blocked", "written", "failed"}
      BY <1>2, Zenon
    <2> HIDE DEF c
    <2> QED
      BY <1>2, <2>1, <2>2, EndCall, Zenon
  <1>5. \A p \in projections' : p.by \in Applies /\ p.state \in {"blocked", "written"}
    BY <1>1, RecordedRows, Zenon DEF Record
  <1>6. Keep(a, d) /\ UNCHANGED paths
    BY Zenon DEF Record
  <1> HIDE DEF d
  <1> QED
    BY <1>4, <1>5, <1>6, KeepInv, Zenon

LEMMA LostInv ==
    ASSUME ProjectionInv, NEW a \in Applies, CommitFails(a) \/ Crash(a) PROVE ProjectionInv'
  <1> DEFINE d == EndUntold(cmd[a], "lost")
  <1>1. Keep(a, d) /\ UNCHANGED paths
    BY Zenon DEF CommitFails, Crash
  <1>2. \A p \in projections' : p.by \in Applies /\ p.state \in {"blocked", "written"}
    <2>1. CASE CommitFails(a)
      BY <2>1, RecordedRows, Zenon DEF CommitFails
    <2>2. CASE Crash(a)
      BY <2>2, Zenon DEF Crash, ProjectionInv
    <2> QED
      BY <2>1, <2>2, Zenon
  <1>3. CallInv(d, a, file) /\ d.pc \in Past /\ d.packet = cmd[a].packet /\ d.snap = cmd[a].snap
    BY EndUntoldCall, Zenon
  <1> HIDE DEF d
  <1> QED
    BY <1>1, <1>2, <1>3, KeepInv, Zenon

(* A statement fails after the write: what was written is rolled back. *)
LEMMA RecordFailsInv ==
    ASSUME ProjectionInv, NEW a \in Applies, RecordFails(a) PROVE ProjectionInv'
  <1> DEFINE c == cmd[a]
             back == End(c, "failed", c.pre)
             left == End(c, "failed", file)
  <1>1. CallInv(c, a, file) /\ c.pc = "record"
    BY Zenon DEF ProjectionInv, RecordFails
  <1>2. IsCall(c) /\ c.outcome \in {"blocked", "written"}
    BY <1>1, Zenon DEF CallInv
  <1>3. UNCHANGED <<paths, projections>>
    BY Zenon DEF RecordFails
  <1>4. \A p \in projections' : p.by \in Applies /\ p.state \in {"blocked", "written"}
    BY <1>3, Zenon DEF ProjectionInv
  <1>5. CASE c.outcome = "written"
    <2>1. Rollback(a, c.wrote, back)
      BY <1>5, Zenon DEF RecordFails
    <2>2. CallInv(back, a, c.pre) /\ back.pc \in Past /\ back.packet = c.packet /\ back.snap = c.snap
      BY <1>2, EndCall, Zenon
    <2>3. Written(c)
      BY <1>1, <1>5, Zenon DEF Written
    <2> HIDE DEF back
    <2> QED
      BY <1>3, <2>1, <2>2, <2>3, RollbackInv, Zenon
  <1>6. CASE c.outcome = "blocked"
    <2>1. Keep(a, left)
      BY <1>6, Zenon DEF RecordFails
    <2>2. c.pre # NoContent => Known(c, c.pre, file)
      BY <1>1, <1>6, Zenon DEF CallInv
    <2>3. CallInv(left, a, file) /\ left.pc \in Past /\ left.packet = c.packet /\ left.snap = c.snap
      BY <1>2, <2>2, EndCall, Zenon DEF Known
    <2> HIDE DEF left
    <2> QED
      BY <1>3, <1>4, <2>1, <2>3, KeepInv, Zenon
  <1> QED
    BY <1>2, <1>5, <1>6, Zenon

(* Another program changes the file or the protected paths. *)
LEMMA EditInv ==
    ASSUME ProjectionInv, EditFile \/ EditProtectedPaths PROVE ProjectionInv'
  <1>1. CASE EditFile
    <2>1. file' # NoContent
      BY <1>1 DEF EditFile, Note, Missing, NoContent
    <2>2. /\ cmd' = SeenLate(file', cmd)
          /\ UNCHANGED <<paths, projections, overwrote>>
      BY <1>1, Zenon DEF EditFile
    <2>3. cmd' = [x \in Applies |-> cmd'[x]]
      BY <2>2, Zenon DEF SeenLate
    <2>4. ASSUME NEW x \in Applies
          PROVE  /\ CallInv(cmd'[x], x, file') /\ cmd'[x].pc = cmd[x].pc
                 /\ cmd'[x].packet = cmd[x].packet /\ cmd'[x].snap = cmd[x].snap
      BY <2>2, SeenLateCall, Zenon
    <2>5. \A o \in overwrote' : o.by \in Applies /\ cmd'[o.by].pc \in Past
      BY <2>2, <2>4, Zenon DEF ProjectionInv
    <2>6. OnlyApprovedOverwritten'
      BY <2>2, <2>4, Zenon DEF ProjectionInv, OnlyApprovedOverwritten
    <2> QED
      BY <2>1, <2>2, <2>3, <2>4, <2>5, <2>6, Zenon DEF ProjectionInv
  <1>2. CASE EditProtectedPaths
    BY <1>2, Zenon DEF EditProtectedPaths, ProjectionInv, OnlyApprovedOverwritten
  <1> QED
    BY <1>1, <1>2, Zenon

(* Every step of the projection keeps the invariant. *)
LEMMA ProjectionNextInv ==
    ASSUME ProjectionInv, [ProjectionNext]_projectionVars PROVE ProjectionInv'
  <1>1. CASE UNCHANGED projectionVars
    BY <1>1, Zenon DEF projectionVars, ProjectionInv, OnlyApprovedOverwritten
  <1>2. ASSUME NEW a \in Applies, DraftPacket(a) \/ ApplyStep(a) \/ Crash(a) PROVE ProjectionInv'
    BY <1>2, EarlyStepInv, ReserveAndEvaluateInv, CapturePreimageInv, FingerprintBeforeInv, WriteInv,
       WriteFailsInv, VerifyInv, FingerprintAfterInv, RecordInv, RecordFailsInv, LostInv, Zenon
    DEF ApplyStep
  <1> QED
    BY <1>1, <1>2, EditInv, Zenon DEF ProjectionNext

-----------------------------------------------------------------------------
(* Imports, registrations, doctors, applies and other programs, in any
   order, keep both invariants.                                            *)
THEOREM MirrorInvariance == MirrorSpec => [](IndexInv /\ ProjectionInv)
  <1>1. IndexInit /\ ProjectionInit => IndexInv /\ ProjectionInv
    BY IndexInitially, ProjectionInitially, Zenon
  <1>2. IndexInv /\ ProjectionInv /\ [MirrorNext]_<<indexVars, projectionVars>>
        => IndexInv' /\ ProjectionInv'
    <2> SUFFICES ASSUME IndexInv, ProjectionInv, [MirrorNext]_<<indexVars, projectionVars>>
                 PROVE  IndexInv' /\ ProjectionInv'
      BY Zenon
    <2>1. [IndexNext]_indexVars /\ [ProjectionNext]_projectionVars
      BY Zenon DEF MirrorNext
    <2> QED
      BY <2>1, IndexNextInv, ProjectionNextInv, Zenon
  <1> QED
    BY <1>1, <1>2, PTL DEF MirrorSpec

(* Whatever the number of imports and trees, and however their transactions
   overlap, fail or meet an authored version, the committed index is one
   import's (ImportSnapshot, clearCurrentImportIndex).                     *)
THEOREM IndexStaysWhole == MirrorSpec => []IndexIsWhole
  <1>1. IndexInv => IndexIsWhole
    BY Zenon DEF IndexInv
  <1> QED
    BY <1>1, MirrorInvariance, PTL

(* Whatever the number of applies, and whatever other programs put into the
   file meanwhile, an apply replaces only what its packet named, what it
   wrote or what came later, and what it reports is what it left
   (ApplyStatusProjection and its rollbacks).                              *)
THEOREM ProjectionStaysSafe == MirrorSpec => []ProjectionIsSafe
  <1>1. IndexInv /\ ProjectionInv => ProjectionIsSafe
    <2> SUFFICES ASSUME IndexInv, ProjectionInv PROVE ProjectionIsSafe
      BY Zenon
    <2>1. /\ tree \in Trees /\ yaml \in Configs /\ config \in Configs \cup {NoConfig}
          /\ \A table \in Tables : \A r \in rows[table] : r[1] \in Imports
          /\ \A i \in Imports : imp[i].tree \in Trees \cup {NoTree}
      BY DEF IndexInv, IndexTypes, RowSet, ImportCalls
    <2>2. \A c \in DOMAIN report : report[c] \in {"pass", "warn", "fail"}
      BY Zenon DEF IndexInv, IndexTypes, Grades
    <2>3. TypeOK
      BY <2>1, <2>2, Zenon DEF TypeOK, ProjectionInv, CallInv
    <2>4. ReportedIsLeft
      BY Zenon DEF ReportedIsLeft, ProjectionInv, CallInv
    <2> QED
      BY <2>3, <2>4, Zenon DEF ProjectionIsSafe, ProjectionInv
  <1> QED
    BY <1>1, MirrorInvariance, PTL

-----------------------------------------------------------------------------
(* The doctor's look at the project. *)

Clean(checks) == \A c \in DOMAIN checks : checks[c] # "fail"

(* What each part of the report is about. *)
Inventoried ==
    ImportInventory.snapshots > 0 /\ ImportInventory.versions > 0 /\ LatestImport # NoHash
Undrifted == Inventoried /\ LatestImport = SourceHash(tree)
Consistent == Undrifted /\ \A table \in Tables : ImportInventory[table] = RowsOf(tree, table)

FirstChecks == {"db_inventory", "import_snapshot", "source_snapshot"}
DriftChecks == {"import_idempotency", "hash_drift"}
ConfigChecks == {"project_config_drift", "version_consistency", "residual_consistency",
                 "artifact_consistency", "stage_coverage"}

(* What a doctor that nothing has disturbed has found so far is so now. *)
Found ==
    LET pc == doctor.pc
        checks == doctor.checks IN
    /\ pc \in {"latest", "load", "second_load", "config"} => doctor.inventory = ImportInventory
    /\ pc \in {"load", "second_load"} => doctor.latest = LatestImport
    /\ pc \in {"second_load", "config"} => doctor.current = tree
    /\ pc \in {"second_load", "config", "native"} => tree.readable
    /\ pc = "second_load" => DOMAIN checks = FirstChecks /\ (Clean(checks) <=> Inventoried)
    /\ pc = "config" => DOMAIN checks = FirstChecks \cup DriftChecks /\ (Clean(checks) <=> Undrifted)
    /\ pc = "native" => /\ DOMAIN checks = FirstChecks \cup DriftChecks \cup ConfigChecks
                        /\ Clean(checks) <=> Consistent
    /\ pc = "record" =>
         \/ ~tree.readable /\ ~Clean(checks)
         \/ /\ tree.readable
            /\ Clean(checks) <=> Consistent /\ checks["native_workflow_doctor"] # "fail"

DoctorInv ==
    /\ began \in Seq(Imports)
    /\ DOMAIN doctor = {"pc", "inventory", "latest", "current", "checks", "quiet"}
    /\ doctor.quiet => Found

LEMMA DoctorInitially == IndexInit => DoctorInv
  BY SMTT(30) DEF IndexInit, DoctorInv, DoctorIdle, Found

(* Among some positions of a sequence there is a last one. *)
LEMMA LastPosition ==
    ASSUME NEW n \in Nat, NEW S \in SUBSET (1 .. n), S # {}
    PROVE  \E k \in S : \A m \in S : m <= k
  <1> DEFINE T == {n - k : k \in S}
  <1>1. T \subseteq Nat /\ T # {}
    <2>1. \A k \in S : n - k \in Nat
      OBVIOUS
    <2>2. PICK k : k \in S
      BY Zenon
    <2>3. n - k \in T
      BY <2>2, Zenon
    <2> QED
      BY <2>1, <2>3, Zenon
  <1>2. PICK x \in T : \A y \in T : ~(<<y, x>> \in OpToRel(<, Nat))
    <2> HIDE DEF T
    <2> QED
      BY <1>1, NatLessThanWellFounded, WFMin, Zenon
  <1>3. \A y \in T : ~(y < x)
    BY <1>1, <1>2, Zenon DEF OpToRel
  <1> QED
    BY <1>3

(* The latest import is a committed one's. *)
LEMMA LatestCommitted ==
    ASSUME DoctorInv, LatestImport # NoHash PROVE \E i \in Imports : i \in Committed
  BY Zenon DEF DoctorInv, LatestImport, Committed

(* While the committed imports stay, and the rows, and the transactions
   that begin are others', the doctor would see the same.                  *)
LEMMA ViewFrame ==
    ASSUME IndexInv, DoctorInv, CommittedStay, UNCHANGED <<rows, tree>>,
           began' = began \/ \E i \in Imports : i \notin Committed /\ began' = Append(began, i)
    PROVE  /\ ImportInventory' = ImportInventory
           /\ LatestImport' = LatestImport
           /\ began' \in Seq(Imports)
  <1> DEFINE done == {k \in DOMAIN began : began[k] \in Committed}
             last == CHOOSE k \in done : \A m \in done : m <= k
  <1>1. began \in Seq(Imports) /\ Committed' = Committed /\ \A x \in Committed : imp'[x] = imp[x]
    BY Zenon DEF DoctorInv, CommittedStay
  <1>2. /\ began' \in Seq(Imports)
        /\ {k \in DOMAIN began' : began'[k] \in Committed} = done
        /\ \A k \in done : began'[k] = began[k]
    BY <1>1
  <1>3. LatestImport' = LatestImport
    <2>1. CASE done = {}
      BY <1>1, <1>2, <2>1, Zenon DEF LatestImport
    <2>2. CASE done # {}
      <3>1. last \in done
        <4>1. done \in SUBSET (1 .. Len(began)) /\ Len(began) \in Nat
          BY <1>1
        <4> HIDE DEF done
        <4>2. \E k \in done : \A m \in done : m <= k
          BY <2>2, <4>1, LastPosition, Zenon
        <4> QED
          BY <4>2, Zenon
      <3>2. began'[last] = began[last] /\ imp'[began[last]] = imp[began[last]]
        BY <1>1, <1>2, <3>1, Zenon
      <3>3. LatestImport = SourceHash(imp[began[last]].tree)
        BY <2>2, Zenon DEF LatestImport
      <3>4. LatestImport' = SourceHash(imp'[began'[last]].tree)
        BY <1>1, <1>2, <2>2, Zenon DEF LatestImport, SourceHash
      <3> QED
        BY <3>2, <3>3, <3>4, Zenon
    <2> QED
      BY <2>1, <2>2, Zenon
  <1>4. ASSUME NEW table \in Tables PROVE RowCount(table)' = RowCount(table)
    <2> DEFINE S == {r[1] : r \in rows[table]}
    <2>1. \A i \in S : i \in Committed
      BY Zenon DEF IndexInv, IndexTypes, RowsCommitted
    <2>2. [i \in S |-> RowsOf(imp'[i].tree, table)] = [i \in S |-> RowsOf(imp[i].tree, table)]
      BY <1>1, <2>1, Zenon
    <2> QED
      BY <2>2, Zenon DEF RowCount
  <1>5. ImportInventory' = ImportInventory
    BY <1>1, <1>4, Zenon DEF ImportInventory, Tables
  <1> QED
    BY <1>2, <1>3, <1>5, Zenon

(* A step of an import that does not commit, of an author, or none. *)
LEMMA UndisturbedInv ==
    ASSUME IndexInv, DoctorInv, CommittedStay, UNCHANGED <<rows, tree, doctor>>,
           began' = began \/ \E i \in Imports : i \notin Committed /\ began' = Append(began, i)
    PROVE  DoctorInv'
  <1>1. /\ ImportInventory' = ImportInventory /\ LatestImport' = LatestImport
        /\ began' \in Seq(Imports)
    BY ViewFrame, Zenon
  <1>2. /\ Inventoried' <=> Inventoried
        /\ Undrifted' <=> Undrifted
        /\ Consistent' <=> Consistent
    BY <1>1, Zenon DEF Inventoried, Undrifted, Consistent
  <1>3. Found => Found'
    BY <1>1, <1>2, Zenon DEF Found
  <1> QED
    BY <1>1, <1>3, Zenon DEF DoctorInv

(* A change of the tree, the index or the configuration. *)
LEMMA DisturbedInv ==
    ASSUME DoctorInv, Disturb, UNCHANGED began PROVE DoctorInv'
  <1>1. doctor' = [doctor EXCEPT !.quiet = doctor.quiet /\ doctor.pc \in {"idle", "recorded"}]
    BY Zenon DEF Disturb
  <1>2. /\ DOMAIN doctor' = DOMAIN doctor /\ doctor'.pc = doctor.pc
        /\ doctor'.quiet => doctor.pc \in {"idle", "recorded"}
    BY <1>1, Zenon DEF DoctorInv
  <1>3. doctor'.quiet => Found'
    BY <1>2, Zenon DEF Found
  <1> QED
    BY <1>2, <1>3, Zenon DEF DoctorInv

(* The checks of two parts are clean when both are. *)
LEMMA CleanJoin ==
    ASSUME NEW f, NEW g, DOMAIN f \cap DOMAIN g = {}
    PROVE  /\ DOMAIN Joined(f, g) = DOMAIN f \cup DOMAIN g
           /\ Clean(Joined(f, g)) <=> Clean(f) /\ Clean(g)
           /\ \A c \in DOMAIN g : Joined(f, g)[c] = g[c]
  BY Zenon DEF Clean, Joined

(* A step of the doctor adds what it finds. *)
LEMMA DoctorStepFinds ==
    ASSUME IndexInv, DoctorInv, DoctorStep PROVE DoctorInv'
  <1>1. UNCHANGED <<tree, yaml, config, rows, authored, imp, began>>
    BY Zenon DEF DoctorStep, DoctorReadsIndex, DoctorReadsLatest, DoctorLoads, DoctorLoadsAgain,
           DoctorChecksConfig, DoctorRunsNative, RecordDoctorReport
  <1>2. ImportInventory' = ImportInventory /\ LatestImport' = LatestImport
    BY <1>1, ViewFrame, Zenon DEF CommittedStay, Committed
  <1>3. /\ Inventoried' <=> Inventoried
        /\ Undrifted' <=> Undrifted
        /\ Consistent' <=> Consistent
    BY <1>1, <1>2, Zenon DEF Inventoried, Undrifted, Consistent
  <1>4. /\ DOMAIN doctor = {"pc", "inventory", "latest", "current", "checks", "quiet"}
        /\ began' \in Seq(Imports)
    BY <1>1, Zenon DEF DoctorInv
  <1> DEFINE Shaped == DOMAIN doctor' = DOMAIN doctor
  <1>5. CASE DoctorReadsIndex
    <2>1. doctor' = [DoctorIdle EXCEPT !.pc = "latest", !.inventory = ImportInventory]
      BY <1>5, Zenon DEF DoctorReadsIndex
    <2>2. Shaped /\ doctor'.pc = "latest" /\ doctor'.inventory = ImportInventory
      BY <1>4, <2>1, Zenon DEF DoctorIdle
    <2> QED
      BY <1>2, <1>4, <2>2, Zenon DEF DoctorInv, Found
  <1>6. CASE DoctorReadsLatest
    <2>1. doctor' = [doctor EXCEPT !.pc = "load", !.latest = LatestImport] /\ doctor.pc = "latest"
      BY <1>6, Zenon DEF DoctorReadsLatest
    <2>2. /\ Shaped /\ doctor'.pc = "load" /\ doctor'.latest = LatestImport
          /\ doctor'.inventory = doctor.inventory /\ doctor'.quiet = doctor.quiet
      BY <1>4, <2>1, Zenon
    <2> QED
      BY <1>2, <1>4, <2>1, <2>2, Zenon DEF DoctorInv, Found
  <1>7. CASE DoctorLoads
    <2> DEFINE first == InventoryChecks(doctor.inventory, doctor.latest)
               read == [source_snapshot |-> IF tree.readable THEN "pass" ELSE "fail"]
    <2>1. /\ DOMAIN first = {"db_inventory", "import_snapshot"}
          /\ Clean(first) <=> /\ doctor.inventory.snapshots > 0 /\ doctor.inventory.versions > 0
                              /\ doctor.latest # NoHash
      BY SMTT(30) DEF InventoryChecks, If, Clean
    <2>2. DOMAIN read = {"source_snapshot"} /\ (Clean(read) <=> tree.readable)
      BY SMTT(30) DEF Clean
    <2>3. /\ doctor.pc = "load"
          /\ IF tree.readable
             THEN doctor' = [doctor EXCEPT !.pc = "second_load", !.current = tree,
                                           !.checks = Joined(first, read)]
             ELSE doctor' = [doctor EXCEPT !.pc = "record", !.checks = Joined(first, read)]
      BY <1>7, Zenon DEF DoctorLoads
    <2> HIDE DEF first, read
    <2>4. /\ DOMAIN Joined(first, read) = FirstChecks
          /\ Clean(Joined(first, read)) <=> Clean(first) /\ tree.readable
      <3>1. DOMAIN first \cap DOMAIN read = {}
        BY <2>1, <2>2, Zenon
      <3>2. /\ DOMAIN Joined(first, read) = DOMAIN first \cup DOMAIN read
            /\ Clean(Joined(first, read)) <=> Clean(first) /\ Clean(read)
        BY <3>1, CleanJoin, Zenon
      <3> QED
        BY <2>1, <2>2, <3>2, Zenon DEF FirstChecks
    <2>5. CASE tree.readable
      <3>1. doctor' = [doctor EXCEPT !.pc = "second_load", !.current = tree,
                                     !.checks = Joined(first, read)]
        BY <2>3, <2>5, Zenon
      <3>2. /\ Shaped /\ doctor'.pc = "second_load" /\ doctor'.checks = Joined(first, read)
            /\ doctor'.current = tree /\ doctor'.latest = doctor.latest
            /\ doctor'.inventory = doctor.inventory /\ doctor'.quiet = doctor.quiet
        BY <1>4, <3>1, Zenon
      <3>3. ASSUME doctor.quiet PROVE Found'
        <4>1. doctor.inventory = ImportInventory /\ doctor.latest = LatestImport
          BY <2>3, <3>3, Zenon DEF DoctorInv, Found
        <4>2. Clean(doctor'.checks) <=> Inventoried
          BY <2>1, <2>4, <2>5, <3>2, <4>1, Zenon DEF Inventoried
        <4> QED
          BY <1>1, <1>2, <1>3, <2>4, <2>5, <3>2, <4>1, <4>2, Zenon DEF Found
      <3> QED
        BY <1>4, <3>2, <3>3, Zenon DEF DoctorInv
    <2>6. CASE ~tree.readable
      <3>1. doctor' = [doctor EXCEPT !.pc = "record", !.checks = Joined(first, read)]
        BY <2>3, <2>6, Zenon
      <3>2. Shaped /\ doctor'.pc = "record" /\ doctor'.checks = Joined(first, read)
        BY <1>4, <3>1, Zenon
      <3> QED
        BY <1>1, <1>4, <2>4, <2>6, <3>2, Zenon DEF DoctorInv, Found
    <2> QED
      BY <2>5, <2>6, Zenon
  <1>8. CASE DoctorLoadsAgain
    <2> DEFINE old == doctor.checks
               more == [import_idempotency |->
                            If(tree.readable /\ SourceHash(tree) = SourceHash(doctor.current), "warn"),
                        hash_drift |-> If(doctor.latest = SourceHash(doctor.current), "fail")]
    <2>1. /\ doctor.pc = "second_load"
          /\ doctor' = [doctor EXCEPT !.pc = "config", !.checks = Joined(old, more)]
      BY <1>8, Zenon DEF DoctorLoadsAgain
    <2>2. /\ DOMAIN more = DriftChecks
          /\ Clean(more) <=> doctor.latest = SourceHash(doctor.current)
      BY SMTT(30) DEF DriftChecks, Clean, If
    <2> HIDE DEF more
    <2>3. /\ Shaped /\ doctor'.pc = "config" /\ doctor'.checks = Joined(old, more)
          /\ doctor'.inventory = doctor.inventory /\ doctor'.current = doctor.current
          /\ doctor'.quiet = doctor.quiet
      BY <1>4, <2>1, Zenon
    <2>4. ASSUME doctor.quiet PROVE Found'
      <3>1. /\ doctor.inventory = ImportInventory /\ doctor.latest = LatestImport
            /\ doctor.current = tree /\ tree.readable
            /\ DOMAIN old = FirstChecks /\ (Clean(old) <=> Inventoried)
        BY <2>1, <2>4, Zenon DEF DoctorInv, Found
      <3>2. DOMAIN old \cap DOMAIN more = {}
        BY <2>2, <3>1, Zenon DEF FirstChecks, DriftChecks
      <3>3. /\ DOMAIN Joined(old, more) = DOMAIN old \cup DOMAIN more
            /\ Clean(Joined(old, more)) <=> Clean(old) /\ Clean(more)
        BY <3>2, CleanJoin, Zenon
      <3>4. /\ DOMAIN doctor'.checks = FirstChecks \cup DriftChecks
            /\ Clean(doctor'.checks) <=> Undrifted
        BY <2>2, <2>3, <3>1, <3>3, Zenon DEF Undrifted
      <3> QED
        BY <1>1, <1>2, <1>3, <2>3, <3>1, <3>4, Zenon DEF Found
    <2> QED
      BY <1>4, <2>3, <2>4, Zenon DEF DoctorInv
  <1>9. CASE DoctorChecksConfig
    <2> DEFINE old == doctor.checks
               consistent(table, n) == If(n = RowsOf(doctor.current, table), "fail")
               more == [project_config_drift |-> If(config = yaml, "warn"),
                        version_consistency  |-> consistent("versions", doctor.inventory.versions),
                        residual_consistency |-> consistent("residuals", doctor.inventory.residuals),
                        artifact_consistency |-> consistent("artifacts", doctor.inventory.artifacts),
                        stage_coverage       |-> If(doctor.current.staged, "warn")]
    <2>1. /\ doctor.pc = "config"
          /\ doctor' = [doctor EXCEPT !.pc = "native", !.checks = Joined(old, more)]
      BY <1>9, Zenon DEF DoctorChecksConfig
    <2>2. /\ DOMAIN more = ConfigChecks
          /\ Clean(more) <=> /\ doctor.inventory.versions = RowsOf(doctor.current, "versions")
                             /\ doctor.inventory.residuals = RowsOf(doctor.current, "residuals")
                             /\ doctor.inventory.artifacts = RowsOf(doctor.current, "artifacts")
      BY SMTT(30) DEF ConfigChecks, Clean, If
    <2> HIDE DEF more
    <2>3. /\ Shaped /\ doctor'.pc = "native" /\ doctor'.checks = Joined(old, more)
          /\ doctor'.quiet = doctor.quiet
      BY <1>4, <2>1, Zenon
    <2>4. ASSUME doctor.quiet PROVE Found'
      <3>1. /\ doctor.inventory = ImportInventory /\ doctor.current = tree /\ tree.readable
            /\ DOMAIN old = FirstChecks \cup DriftChecks /\ (Clean(old) <=> Undrifted)
        BY <2>1, <2>4, Zenon DEF DoctorInv, Found
      <3>2. DOMAIN old \cap DOMAIN more = {}
        BY <2>2, <3>1, Zenon DEF FirstChecks, DriftChecks, ConfigChecks
      <3>3. /\ DOMAIN Joined(old, more) = DOMAIN old \cup DOMAIN more
            /\ Clean(Joined(old, more)) <=> Clean(old) /\ Clean(more)
        BY <3>2, CleanJoin, Zenon
      <3>4. Clean(more) <=> \A table \in Tables : ImportInventory[table] = RowsOf(tree, table)
        BY <2>2, <3>1, Zenon DEF Tables
      <3>5. /\ DOMAIN doctor'.checks = FirstChecks \cup DriftChecks \cup ConfigChecks
            /\ Clean(doctor'.checks) <=> Consistent
        BY <2>2, <2>3, <3>1, <3>3, <3>4, Zenon DEF Consistent
      <3> QED
        BY <1>1, <1>3, <2>3, <3>1, <3>5, Zenon DEF Found
    <2> QED
      BY <1>4, <2>3, <2>4, Zenon DEF DoctorInv
  <1>10. CASE DoctorRunsNative
    <2>1. PICK allowNative \in BOOLEAN, outcome \in {"pass", "fail"} :
            doctor' = [doctor EXCEPT !.pc = "record", !.checks = Joined(@,
              [native_workflow_doctor |-> IF NativeAllowed(allowNative) THEN outcome ELSE "warn"])]
      BY <1>10, Zenon DEF DoctorRunsNative
    <2> DEFINE old == doctor.checks
               more == [native_workflow_doctor |->
                            IF NativeAllowed(allowNative) THEN outcome ELSE "warn"]
    <2>2. doctor.pc = "native" /\ doctor' = [doctor EXCEPT !.pc = "record", !.checks = Joined(old, more)]
      BY <1>10, <2>1, Zenon DEF DoctorRunsNative
    <2>3. /\ DOMAIN more = {"native_workflow_doctor"}
          /\ Clean(more) <=> more["native_workflow_doctor"] # "fail"
      BY Zenon DEF Clean
    <2> HIDE DEF more
    <2>4. /\ Shaped /\ doctor'.pc = "record" /\ doctor'.checks = Joined(old, more)
          /\ doctor'.quiet = doctor.quiet
      BY <1>4, <2>2, Zenon
    <2>5. ASSUME doctor.quiet PROVE Found'
      <3>1. /\ tree.readable /\ (Clean(old) <=> Consistent)
            /\ DOMAIN old = FirstChecks \cup DriftChecks \cup ConfigChecks
        BY <2>2, <2>5, Zenon DEF DoctorInv, Found
      <3>2. DOMAIN old \cap DOMAIN more = {}
        BY <2>3, <3>1, Zenon DEF FirstChecks, DriftChecks, ConfigChecks
      <3>3. /\ Clean(Joined(old, more)) <=> Clean(old) /\ Clean(more)
            /\ Joined(old, more)["native_workflow_doctor"] = more["native_workflow_doctor"]
        <4>1. /\ Clean(Joined(old, more)) <=> Clean(old) /\ Clean(more)
              /\ \A c \in DOMAIN more : Joined(old, more)[c] = more[c]
          BY <3>2, CleanJoin, Zenon
        <4> QED
          BY <2>3, <4>1, Zenon
      <3> QED
        BY <1>1, <1>3, <2>3, <2>4, <3>1, <3>3, Zenon DEF Found
    <2> QED
      BY <1>4, <2>4, <2>5, Zenon DEF DoctorInv
  <1>11. CASE RecordDoctorReport
    <2>1. doctor' = [DoctorIdle EXCEPT !.pc = "recorded", !.checks = doctor.checks]
      BY <1>11, Zenon DEF RecordDoctorReport
    <2>2. Shaped /\ doctor'.pc = "recorded"
      BY <1>4, <2>1, Zenon DEF DoctorIdle
    <2> QED
      BY <1>4, <2>2, Zenon DEF DoctorInv, Found
  <1> QED
    BY <1>5, <1>6, <1>7, <1>8, <1>9, <1>10, <1>11, Zenon DEF DoctorStep

(* Every step of the index leaves a quiet doctor right about what it found. *)
LEMMA DoctorNextInv ==
    ASSUME IndexInv, DoctorInv, [IndexNext]_indexVars PROVE DoctorInv'
  <1>1. CASE UNCHANGED indexVars
    BY <1>1, UndisturbedInv, Zenon DEF indexVars, CommittedStay, Committed
  <1>2. ASSUME NEW i \in Imports, ImportStep(i) \/ FailImport(i) PROVE DoctorInv'
    <2>1. CASE CommitImport(i)
      BY <2>1, DisturbedInv, Zenon DEF CommitImport
    <2>2. CASE BeginImport(i)
      <3>1. CommittedStay
        BY <2>2, BeginImportInv, Zenon
      <3>2. i \notin Committed
        BY <2>2, Zenon DEF BeginImport, Committed
      <3> QED
        BY <2>2, <3>1, <3>2, UndisturbedInv, Zenon DEF BeginImport
    <2>3. CASE LoadTree(i) \/ StartClear(i) \/ FinishClear(i) \/ InsertVersions(i)
               \/ InsertResiduals(i) \/ FailImport(i)
      <3>1. CommittedStay
        BY <2>3, LoadTreeInv, StartClearInv, FinishClearInv, InsertVersionsInv, InsertResidualsInv,
           FailImportInv, Zenon
      <3>2. UNCHANGED <<rows, tree, doctor, began>>
        BY <2>3, Zenon DEF LoadTree, StartClear, FinishClear, InsertVersions, InsertResiduals, FailImport
      <3> QED
        BY <3>1, <3>2, UndisturbedInv, Zenon
    <2> QED
      BY <1>2, <2>1, <2>2, <2>3, Zenon DEF ImportStep
  <1>3. ASSUME NEW label \in Labels, AuthorVersion(label) PROVE DoctorInv'
    BY <1>3, UndisturbedInv, Zenon DEF AuthorVersion, CommittedStay, Committed
  <1>4. CASE UpsertFromConfig \/ EditTree \/ EditYaml
    BY <1>4, DisturbedInv, Zenon DEF UpsertFromConfig, EditTree, EditYaml
  <1> QED
    BY <1>1, <1>2, <1>3, <1>4, DoctorStepFinds, Zenon DEF IndexNext

(* The index an inventory finds in order has versions, as has its tree. *)
LEMMA ConsistentIsMirrored ==
    ASSUME IndexInv, DoctorInv PROVE tree.readable /\ Consistent <=> Mirrored
  <1>1. tree \in TreeType
    BY TreesAssumption, Zenon DEF IndexInv, IndexTypes
  <1>2. IsFiniteSet(tree.labels)
    BY <1>1, LabelsAssumption, FS_Subset, Zenon DEF TreeType
  <1>3. RowsOf(tree, "versions") = Cardinality(tree.labels)
    BY Zenon DEF RowsOf
  <1>4. Cardinality(tree.labels) > 0 <=> tree.labels # {}
    BY <1>2, FS_EmptySet, FS_CardinalityType
  <1>5. IsFiniteSet(Committed)
    BY ImportsAssumption, FS_Subset, Zenon DEF Committed
  <1>6. ImportInventory.snapshots > 0 <=> Committed # {}
    BY SMTT(30), <1>5, FS_EmptySet, FS_CardinalityType DEF ImportInventory
  <1>7. SourceHash(tree) # NoHash
    BY Zenon DEF SourceHash, NoHash
  <1>8. LatestImport # NoHash => Committed # {}
    BY LatestCommitted, Zenon
  <1>9. ASSUME \A table \in Tables : ImportInventory[table] = RowsOf(tree, table)
        PROVE  ImportInventory.versions > 0 <=> tree.labels # {}
    BY <1>3, <1>4, <1>9, Zenon DEF Tables
  <1> QED
    BY <1>6, <1>7, <1>8, <1>9, Zenon DEF Consistent, Undrifted, Inventoried, Mirrored

(* Whatever imports, edits and registrations come between its reads, a
   doctor none of them disturbed reports a failure exactly when the tree is
   not mirrored or its native command fails (AreaMatrixWithLoader).        *)
THEOREM DoctorStaysExact == MirrorSpec => QuietDoctorIsExact
  <1> DEFINE Exact ==
          doctor.pc = "record" /\ doctor'.pc = "recorded" /\ doctor.quiet =>
            (OverallStatus(report') # "fail" <=>
                Mirrored /\ report'["native_workflow_doctor"] # "fail")
  <1>1. IndexInit => DoctorInv
    BY DoctorInitially, Zenon
  <1>2. IndexInv /\ DoctorInv /\ [MirrorNext]_<<indexVars, projectionVars>> => DoctorInv'
    <2> SUFFICES ASSUME IndexInv, DoctorInv, [MirrorNext]_<<indexVars, projectionVars>>
                 PROVE  DoctorInv'
      BY Zenon
    <2>1. [IndexNext]_indexVars
      BY Zenon DEF MirrorNext
    <2> QED
      BY <2>1, DoctorNextInv, Zenon
  <1>3. IndexInv /\ DoctorInv /\ [MirrorNext]_<<indexVars, projectionVars>> => [Exact]_indexVars
    <2> SUFFICES ASSUME IndexInv, DoctorInv, [MirrorNext]_<<indexVars, projectionVars>>,
                        doctor.pc = "record", doctor'.pc = "recorded", doctor.quiet
                 PROVE  OverallStatus(report') # "fail" <=>
                            Mirrored /\ report'["native_workflow_doctor"] # "fail"
      BY Zenon
    <2>1. IndexNext
      BY Zenon DEF MirrorNext, indexVars
    <2>2. RecordDoctorReport
      <3>1. \A i \in Imports : ImportStep(i) \/ FailImport(i) => doctor'.pc = doctor.pc
        BY Zenon DEF ImportStep, FailImport, LoadTree, BeginImport, StartClear, FinishClear,
               InsertVersions, InsertResiduals, CommitImport, Disturb, DoctorInv
      <3>2. UpsertFromConfig \/ EditTree \/ EditYaml => doctor'.pc = doctor.pc
        BY Zenon DEF UpsertFromConfig, EditTree, EditYaml, Disturb, DoctorInv
      <3>3. \A label \in Labels : AuthorVersion(label) => doctor'.pc = doctor.pc
        BY Zenon DEF AuthorVersion
      <3>4. DoctorStep
        BY <2>1, <3>1, <3>2, <3>3, Zenon DEF IndexNext
      <3> QED
        BY <3>4, Zenon DEF DoctorStep, DoctorReadsIndex, DoctorReadsLatest, DoctorLoads,
                    DoctorLoadsAgain, DoctorChecksConfig, DoctorRunsNative
    <2>3. report' = doctor.checks
      BY <2>2, Zenon DEF RecordDoctorReport
    <2>4. OverallStatus(report') # "fail" <=> Clean(doctor.checks)
      BY <2>3, Zenon DEF OverallStatus, Clean
    <2>5. \/ ~tree.readable /\ ~Clean(doctor.checks)
          \/ /\ tree.readable
             /\ Clean(doctor.checks) <=>
                   Consistent /\ doctor.checks["native_workflow_doctor"] # "fail"
      BY Zenon DEF DoctorInv, Found
    <2>6. tree.readable /\ Consistent <=> Mirrored
      BY ConsistentIsMirrored, Zenon
    <2> QED
      BY <2>3, <2>4, <2>5, <2>6, Zenon
  <1> QED
    BY <1>1, <1>2, <1>3, MirrorInvariance, PTL DEF MirrorSpec, QuietDoctorIsExact
==============================================================================
