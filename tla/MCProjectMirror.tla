--------------------------- MODULE MCProjectMirror ---------------------------
(* Each behaviour plays one part: overlapping imports from an empty index; *)
(* the doctor beside an import and edits; or applies of the status         *)
(* projection beside an import, once one import has committed.             *)
EXTENDS StatusProjection

CONSTANTS i1, i2, a1
VARIABLE play

T1 == [status |-> 1, labels |-> {"v1"}, residuals |-> {"linked", "global"}, files |-> 2,
       staged |-> TRUE, readable |-> TRUE]
T2 == [T1 EXCEPT !.status = 2, !.labels = {"v1", "v2"}, !.residuals = {"linked"}]
T3 == [T1 EXCEPT !.files = 3, !.staged = FALSE]
Broken == [T1 EXCEPT !.readable = FALSE]
MCTrees == {T1, T2, T3, Broken}
MCConfigs == {[writeStatus |-> TRUE, native |-> "allowed"], [writeStatus |-> FALSE, native |-> "capability_off"]}

(* An import of tree T1 has committed, and the project is registered. *)
Imported ==
    /\ config \in MCConfigs
    /\ rows = [table \in Tables |-> RowKeys(i1, table)]
First == [Idle EXCEPT !.pc = "done", !.tree = T1]
(* An import of tree T2 is about to commit. *)
Second ==
    [pc |-> "insert_artifacts", tree |-> T2, seen |-> {},
     deleted |-> [artifacts |-> {<<i1, "all">>}, versions |-> {<<i1, "all">>},
                  residuals |-> {<<i1, "linked">>, <<i1, "global">>}]]

MCInit ==
    /\ yaml \in MCConfigs
    /\ authored = {} /\ doctor = DoctorIdle /\ report = NoReport /\ edits = 0
    /\ \/ /\ play = "import"
          /\ yaml.writeStatus
          /\ tree = T1
          /\ config = NoConfig
          /\ rows = [table \in Tables |-> {}]
          /\ imp = [i \in Imports |-> Idle]
          /\ began = <<>>
       \/ /\ play = "doctor"
          /\ tree = T1
          /\ imp = [i \in Imports |-> IF i = i1 THEN First ELSE Idle]
          /\ began = <<i1>>
          /\ config = yaml
          /\ Imported
       \/ /\ play = "apply"
          /\ ~yaml.writeStatus
          /\ tree = T2
          /\ imp = [i \in Imports |-> IF i = i1 THEN First ELSE Second]
          /\ began = <<i1, i2>>
          /\ Imported
          /\ config.writeStatus
    /\ ProjectionInit
    /\ play # "apply" => file = Missing
    /\ file # Note(Huge)
    /\ paths = CHOOSE p \in Prints : TRUE

(* The applies are alike, so a1 may always be the one that drafts first. *)
InTurn(a) == a = a1 \/ cmd[a1].pc # "idle"

MCNext ==
    /\ \/ /\ \/ \E i \in Imports : ImportStep(i)
             \/ play # "apply" /\ \E i \in Imports : FailImport(i)
             \/ play # "apply" /\ EditTree
             \/ play = "doctor" /\ EditYaml
             \/ play # "import" /\ UpsertFromConfig
             \/ play = "doctor" /\ DoctorStep
             \/ play = "import" /\ AuthorVersion("v2")
          /\ UNCHANGED projectionVars
       \/ /\ play = "apply"
          /\ \/ \E a \in Applies : (InTurn(a) /\ DraftPacket(a)) \/ ApplyStep(a) \/ Crash(a)
             \/ EditFile
             \/ EditProtectedPaths
          /\ UNCHANGED indexVars
    /\ UNCHANGED play

mirrorVars == <<indexVars, projectionVars, play>>

(* No import begins in the applies' part, so none needs to be fair there. *)
MCSpec ==
    /\ MCInit /\ [][MCNext]_mirrorVars
    /\ \A i \in Imports : WF_indexVars(play # "apply" /\ ImportStep(i))
==============================================================================
