-------------------------- MODULE VersionAuthoring --------------------------
(***************************************************************************)
(* Authoring a workflow version: create inserts the version, the items and *)
(* links of its stages and the artifacts that hold their texts, stage      *)
(* ensure adds what an older version lacks, item ready marks an item, and  *)
(* the drift gate compares the workflow profile that was frozen into the   *)
(* version with the one on disk.                                           *)
(*                                                                         *)
(* Rows appear when the transaction commits; files appear at once.  A file *)
(* is named by the version's label, the stage and the kind, so every call  *)
(* for an item writes the same one; its content is told by the reason.     *)
(***************************************************************************)
EXTENDS Naturals, Sequences, FiniteSets

CONSTANTS
    Authors,         \* calls in progress
    Stages,          \* authoredStageSkeleton, a sequence
    StageLinks,      \* authoredStageSkeletonLinks, pairs of stages
    Reasons,         \* what tells two artifacts of a path apart
    CreateKeys,      \* idempotency keys of workflow.version.create
    ProfileHashes,   \* contents of the profile's file
    MaxAuthorings,   \* bound on the calls
    MaxProfileEdits, \* bound on the edits of the profile
    Unfrozen,        \* the profile of a version that has none frozen into it
    Nil              \* no version, no step, no hash, a file that is not there

VARIABLES
    version,      \* the workflow_versions row: Nil, or its frozen profile
    items,        \* workflow_items, by stage: its source hash, Nil for a placeholder
    links,        \* workflow_item_links
    artifacts,    \* artifacts rows
    files,        \* the artifact store, by path
    creations,    \* command_requests of workflow.version.create, by key
    profile,      \* the profile's file: its hash, Nil if it does not load
    driftResults, \* gate_results of the drift gate
    author,       \* the call each author is at
    authorings,   \* calls so far
    edits,        \* edits of the profile so far
    marks,        \* history: calls that marked a stage's item ready
    stray         \* history: paths written by a call whose transaction was gone

authoringVars == <<version, items, links, artifacts, files, creations, profile, driftResults, author,
                   authorings, edits, marks, stray>>

rowVars == <<version, items, links, artifacts, creations, driftResults>>

StageSet == {Stages[i] : i \in DOMAIN Stages}
ArtifactPaths == StageSet \X {"stage", "ready"}

NoAuthor == [op |-> Nil, step |-> Nil, key |-> Nil, reason |-> Nil, binding |-> Nil, at |-> 1,
             made |-> {}, answer |-> Nil]

(* No version yet, or one from before the stages had items of their own. *)
AuthoringInit ==
    /\ profile \in ProfileHashes
    /\ version \in {Nil, profile, Unfrozen}
    /\ items \in {[s \in {} |-> Nil], [s \in {Stages[1]} |-> Nil]}
    /\ version = Nil => DOMAIN items = {}
    /\ links = {}
    /\ artifacts = {}
    /\ files = [p \in ArtifactPaths |-> Nil]
    /\ creations = [k \in {} |-> Nil]
    /\ driftResults = {}
    /\ author = [a \in Authors |-> NoAuthor]
    /\ authorings = 0
    /\ edits = 0
    /\ marks = [s \in StageSet |-> 0]
    /\ stray = {}

-----------------------------------------------------------------------------
InStep(a, step) == author[a].step = step

Moves(a, step) == author' = [author EXCEPT ![a].step = step]

(* Only the answers that give a version are kept. *)
Answer(a, answer) ==
    author' = [author EXCEPT ![a] = IF answer \in {"created", "replayed"}
                                    THEN [NoAuthor EXCEPT !.answer = answer, !.binding = author[a].binding]
                                    ELSE NoAuthor]

Starts(a, call) ==
    /\ InStep(a, Nil)
    /\ authorings < MaxAuthorings
    /\ authorings' = authorings + 1
    /\ author' = [author EXCEPT ![a] = call]
    /\ marks' = IF call.op = "ready" THEN [marks EXCEPT ![Stages[call.at]] = @ + 1] ELSE marks
    /\ UNCHANGED <<rowVars, files, profile, edits, stray>>

(* Locks of transactions that have not ended. *)
HoldsCreation(a, key) == author[a].op = "create" /\ author[a].key = key
                         /\ author[a].step \in {"version", "load", "insert", "write", "commit"}
HoldsLabel(a) == author[a].op = "create" /\ author[a].step \in {"load", "insert", "write", "commit"}
HoldsItem(a, s) == s \in author[a].made

Others(a) == Authors \ {a}

The(a) == Stages[author[a].at]

-----------------------------------------------------------------------------
(* The profile is read and frozen into the request before the transaction. *)
CallCreate(a) ==
    /\ profile # Nil
    /\ \E key \in CreateKeys, reason \in Reasons :
         Starts(a, [NoAuthor EXCEPT !.op = "create", !.step = "reserve", !.key = key, !.reason = reason,
                                    !.binding = profile])

(* A repeated request is answered with the version; one with a profile     *)
(* that has changed meanwhile is a conflict.                               *)
ReserveCreation(a) ==
    LET c == author[a]
    IN  /\ InStep(a, "reserve")
        /\ \A b \in Others(a) : ~HoldsCreation(b, c.key)
        /\ IF c.key \in DOMAIN creations
           THEN Answer(a, IF creations[c.key] = c.binding THEN "replayed" ELSE "conflict")
           ELSE IF version # Nil THEN Answer(a, "exists")
           ELSE Moves(a, "version")
        /\ UNCHANGED <<rowVars, files, profile, authorings, edits, marks, stray>>

(* The index on labels makes the second of two insertions wait. *)
InsertVersion(a) ==
    /\ InStep(a, "version")
    /\ \A b \in Others(a) : ~HoldsLabel(b)
    /\ IF version # Nil THEN Answer(a, "exists") ELSE Moves(a, "load")
    /\ UNCHANGED <<rowVars, files, profile, authorings, edits, marks, stray>>

CallEnsure(a) ==
    /\ version # Nil
    /\ \E reason \in Reasons :
         Starts(a, [NoAuthor EXCEPT !.op = "ensure", !.step = "load", !.reason = reason])

LoadItem(a) ==
    /\ InStep(a, "load")
    /\ IF author[a].at > Len(Stages) THEN Moves(a, "commit")
       ELSE IF The(a) \in DOMAIN items THEN author' = [author EXCEPT ![a].at = @ + 1]
       ELSE Moves(a, "insert")
    /\ UNCHANGED <<rowVars, files, profile, authorings, edits, marks, stray>>

(* Variant: the text is written before the row is inserted. *)
InsertItemAfterText(a) ==
    /\ InStep(a, "insert")
    /\ \A b \in Others(a) : ~HoldsItem(b, The(a))
    /\ files' = [files EXCEPT ![<<The(a), "stage">>] = author[a].reason]
    /\ IF The(a) \in DOMAIN items THEN Answer(a, "error")
       ELSE author' = [author EXCEPT ![a].step = "write", ![a].made = @ \cup {The(a)}]
    /\ UNCHANGED <<rowVars, profile, authorings, edits, marks, stray>>

(* The index on external keys makes the second insertion wait, then fail. *)
InsertItem(a) ==
    /\ InStep(a, "insert")
    /\ \A b \in Others(a) : ~HoldsItem(b, The(a))
    /\ IF The(a) \in DOMAIN items THEN Answer(a, "error")
       ELSE author' = [author EXCEPT ![a].step = "write", ![a].made = @ \cup {The(a)}]
    /\ UNCHANGED <<rowVars, files, profile, authorings, edits, marks, stray>>

WriteStageArtifact(a) ==
    /\ InStep(a, "write")
    /\ files' = [files EXCEPT ![<<The(a), "stage">>] = author[a].reason]
    /\ author' = [author EXCEPT ![a].step = "load", ![a].at = @ + 1]
    /\ UNCHANGED <<rowVars, profile, authorings, edits, marks, stray>>

StageRow(s, call) == [path |-> <<s, "stage">>, hash |-> call.reason, by |-> call.op]

(* The links are inserted unless they are there; the event is left out.    *)
CommitSkeleton(a) ==
    LET c == author[a]
    IN  /\ InStep(a, "commit")
        /\ items' = [s \in DOMAIN items \cup c.made |-> IF s \in c.made THEN Nil ELSE items[s]]
        /\ artifacts' = artifacts \cup {StageRow(s, c) : s \in c.made}
        /\ links' = links \cup StageLinks
        /\ IF c.op = "create"
           THEN /\ version' = c.binding
                /\ creations' = [k \in DOMAIN creations \cup {c.key} |->
                                    IF k = c.key THEN c.binding ELSE creations[k]]
           ELSE UNCHANGED <<version, creations>>
        /\ Answer(a, IF c.op = "create" THEN "created" ELSE "ensured")
        /\ UNCHANGED <<files, driftResults, profile, authorings, edits, marks, stray>>

-----------------------------------------------------------------------------
CallReady(a) ==
    /\ version # Nil
    /\ \E s \in DOMAIN items, reason \in Reasons : \E i \in DOMAIN Stages :
         /\ Stages[i] = s
         /\ Starts(a, [NoAuthor EXCEPT !.op = "ready", !.step = "mark", !.reason = reason, !.at = i])

ReadyPath(s) == <<s, "ready">>

(* The marker is written before the item's row is locked. *)
WriteReadyMarker(a) ==
    /\ InStep(a, "mark")
    /\ files' = [files EXCEPT ![ReadyPath(The(a))] = author[a].reason]
    /\ Moves(a, "update")
    /\ UNCHANGED <<rowVars, profile, authorings, edits, marks, stray>>

UpdateItemReady(a) ==
    /\ InStep(a, "update")
    /\ \A b \in Others(a) : ~HoldsItem(b, The(a))
    /\ author' = [author EXCEPT ![a].step = "marked", ![a].made = {The(a)}]
    /\ UNCHANGED <<rowVars, files, profile, authorings, edits, marks, stray>>

CommitReady(a) ==
    /\ InStep(a, "marked")
    /\ items' = [items EXCEPT ![The(a)] = author[a].reason]
    /\ artifacts' = artifacts \cup {[path |-> ReadyPath(The(a)), hash |-> author[a].reason, by |-> "ready"]}
    /\ Answer(a, "ready")
    /\ UNCHANGED <<version, links, creations, driftResults, files, profile, authorings, edits, marks, stray>>

-----------------------------------------------------------------------------
EditProfile ==
    /\ edits < MaxProfileEdits
    /\ \E content \in (ProfileHashes \cup {Nil}) \ {profile} : profile' = content
    /\ edits' = edits + 1
    /\ UNCHANGED <<rowVars, files, author, authorings, marks, stray>>

(* The gate reads the version and the file before its transaction. *)
CallDriftGate(a) ==
    /\ version # Nil
    /\ Starts(a, [NoAuthor EXCEPT !.op = "drift", !.step = "gate", !.binding = profile])

EvaluateDrift(frozen, current) ==
    IF Unfrozen = frozen \/ current = Nil THEN "blocked" ELSE IF current = frozen THEN "pass" ELSE "warn"

CommitDriftGate(a) ==
    /\ InStep(a, "gate")
    /\ driftResults' = driftResults
         \cup {[status |-> EvaluateDrift(version, author[a].binding), saw |-> author[a].binding]}
    /\ Answer(a, "evaluated")
    /\ UNCHANGED <<version, items, links, artifacts, creations, files, profile, authorings, edits, marks, stray>>

(* A statement fails, or the connection is lost and the transaction rolled *)
(* back: a call that is about to write its file does not know yet.         *)
LoseConnection(a) ==
    /\ ~InStep(a, Nil) /\ ~InStep(a, "stray")
    /\ IF author[a].step \in {"write", "mark"}
       THEN author' = [author EXCEPT ![a].step = "stray", ![a].made = {}]
       ELSE Answer(a, "error")
    /\ UNCHANGED <<rowVars, files, profile, authorings, edits, marks, stray>>

StrayWrite(a) ==
    LET path == IF author[a].op = "ready" THEN ReadyPath(The(a)) ELSE <<The(a), "stage">>
    IN  /\ InStep(a, "stray")
        /\ files' = [files EXCEPT ![path] = author[a].reason]
        /\ stray' = stray \cup {path}
        /\ Answer(a, "error")
        /\ UNCHANGED <<rowVars, profile, authorings, edits, marks>>

AuthoringNext ==
    \/ \E a \in Authors :
         \/ CallCreate(a) \/ ReserveCreation(a) \/ InsertVersion(a)
         \/ CallEnsure(a) \/ LoadItem(a) \/ InsertItem(a) \/ WriteStageArtifact(a) \/ CommitSkeleton(a)
         \/ CallReady(a) \/ WriteReadyMarker(a) \/ UpdateItemReady(a) \/ CommitReady(a)
         \/ CallDriftGate(a) \/ CommitDriftGate(a)
         \/ LoseConnection(a) \/ StrayWrite(a)
    \/ EditProfile

-----------------------------------------------------------------------------
AuthoringTypeOK ==
    /\ version \in ProfileHashes \cup {Unfrozen, Nil}
    /\ DOMAIN items \subseteq StageSet
    /\ \A s \in DOMAIN items : items[s] \in Reasons \cup {Nil}
    /\ links \subseteq StageLinks
    /\ \A r \in artifacts : r.path \in ArtifactPaths /\ r.hash \in Reasons
    /\ files \in [ArtifactPaths -> Reasons \cup {Nil}]
    /\ DOMAIN creations \subseteq CreateKeys
    /\ \A k \in DOMAIN creations : creations[k] \in ProfileHashes
    /\ profile \in ProfileHashes \cup {Nil}
    /\ \A a \in Authors : author[a].made \subseteq StageSet

StageRows(s) == {r \in artifacts : r.path = <<s, "stage">>}

(* Whatever creates, ensures and failures overlap, a version that a create  *)
(* or an ensure has committed to has every stage's item and every link, and *)
(* no stage has two texts (ensureStageSkeletonInTx).                        *)
SkeletonIsWhole ==
    /\ (links # {} \/ DOMAIN creations # {}) => DOMAIN items = StageSet /\ links = StageLinks
    /\ \A s \in StageSet : Cardinality(StageRows(s)) <= 1

(* The text recorded for a stage is the one in its file, although every     *)
(* call that adds the stage writes the same file: a call that loses the     *)
(* race fails before it writes (insertStageSkeletonItem before              *)
(* writeAndInsertStageArtifact).  Only a call whose transaction was gone    *)
(* when it wrote may have replaced it.                                      *)
StageTextMatches ==
    \A s \in StageSet : \A r \in StageRows(s) : r.path \in stray \/ files[r.path] = r.hash

(* An item that was marked ready by one call only names a recorded marker   *)
(* whose file still has the hash (writeAndInsertReadyMarkerArtifact); of a  *)
(* second mark, overlapping or later, this is not said: it writes the same  *)
(* file before it locks the item.                                           *)
LoneMarkerMatches ==
    \A s \in DOMAIN items :
        items[s] # Nil /\ marks[s] = 1 =>
            /\ [path |-> ReadyPath(s), hash |-> items[s], by |-> "ready"] \in artifacts
            /\ files[ReadyPath(s)] = items[s]

(* A create that is answered with a version, at once or on a retry, is      *)
(* answered with one that has the profile this call read frozen into it;    *)
(* the profile edited between the two makes the retry a conflict            *)
(* (workflowVersionRequestHash, reserveCommandRequest).                     *)
AnsweredWithItsProfile ==
    \A a \in Authors : author[a].answer \in {"created", "replayed"} => version = author[a].binding

(* The drift gate passes only if the file it read was the frozen profile,   *)
(* whatever edits come between the read and the record                      *)
(* (evaluateProfileBindingDriftGate).                                       *)
DriftPassIsEarned ==
    \A g \in driftResults : g.status = "pass" => g.saw = version /\ version \in ProfileHashes

(* An authored version is what its calls were told: its skeleton is whole, the
   texts and markers on record are those in the files, and the profile its
   creator and the drift gate speak of is the frozen one (CreateWorkflowVersion,
   EnsureStageSkeleton, MarkWorkflowItemReady).                            *)
AuthoredVersionIsSound ==
    /\ AuthoringTypeOK
    /\ SkeletonIsWhole
    /\ StageTextMatches
    /\ LoneMarkerMatches
    /\ AnsweredWithItsProfile
    /\ DriftPassIsEarned

=============================================================================
