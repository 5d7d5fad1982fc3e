--------------------------- MODULE StatusProjection ---------------------------
(***************************************************************************)
(* Applying the status projection: the one file AreaFlow writes into a     *)
(* managed project, .areaflow/status.json.                                 *)
(*                                                                         *)
(* An operator drafts a packet from an authorization preview (source hash, *)
(* expected preimage, protected path fingerprint, approval).  The apply    *)
(* command reads the latest import, evaluates the apply gate, reserves its *)
(* key in a transaction, checks the permission again, captures the         *)
(* preimage, compares it with the packet, writes the file, verifies it,    *)
(* compares the protected paths, and records the result.  Two applies and  *)
(* other programs that edit the project's files interleave with all that.  *)
(* The file is not part of the transaction: an error after the write is    *)
(* compensated by restoring the preimage.                                  *)
(***************************************************************************)
EXTENDS MetadataIndex

CONSTANTS
    Applies,         \* calls of ApplyStatusProjection
    Notes,           \* contents other programs write to the file
    Huge,            \* one of them, larger than maxStatusProjectionPreimageBytes
    Prints,          \* fingerprints of the protected paths
    MaxFileEdits     \* bound: how often other programs change files

VARIABLES
    file,         \* the content of .areaflow/status.json
    paths,        \* the fingerprint of the protected paths
    cmd,          \* per apply: its call
    ledger,       \* key -> the recorded result
    projections,  \* rows of status_projections
    overwrote,    \* history: the contents applies have replaced
    fileEdits     \* changes of files by other programs so far

projectionVars == <<file, paths, cmd, ledger, projections, overwrote, fileEdits>>

Missing == <<"missing">>
Doc(hash, a) == <<"doc", hash, a>>     \* a's LastSyncedAt makes its bytes its own
Note(n) == <<"note", n>>
NoContent == <<"none">>
TooLarge(content) == content = Note(Huge)

(* The document is one of the exporter's, made from the import with hash.  *)
(* (verifyStableStatusProjectionJSON)                                      *)
StableDocument(content, hash) == content[1] = "doc" /\ content[2] = hash

NoCall == [pc |-> "idle", packet |-> <<>>, snap |-> NoHash, gate |-> FALSE,
           pre |-> NoContent, wrote |-> NoContent, outcome |-> "none",
           final |-> NoContent, late |-> {}]

InTransaction(a) == cmd[a].pc \in {"capture", "fingerprint", "write", "verify", "after", "record"}
Watching(a) == InTransaction(a) /\ cmd[a].pre # NoContent

(* Every change of the file, by an apply or another program, is late for   *)
(* the applies that have captured their preimage.                          *)
SeenLate(content, calls) ==
    [x \in Applies |-> IF Watching(x) THEN [calls[x] EXCEPT !.late = @ \cup {content}]
                                      ELSE calls[x]]

(* Apply a replaces the file, and its call becomes c. *)
Replace(a, how, content, c) ==
    /\ file' = content
    /\ cmd' = [SeenLate(content, cmd) EXCEPT ![a] = c]
    /\ overwrote' = overwrote \cup
          {[by |-> a, how |-> how, was |-> file, fresh |-> file \in cmd[a].late]}

Keep(a, c) == cmd' = [cmd EXCEPT ![a] = c] /\ UNCHANGED <<file, overwrote>>

End(c, outcome, content) ==
    [c EXCEPT !.pc = "done", !.gate = FALSE, !.outcome = outcome, !.final = content]
(* A call that ends without saying what it left. *)
EndUntold(c, outcome) ==
    [NoCall EXCEPT !.pc = "done", !.packet = c.packet, !.snap = c.snap, !.outcome = outcome]

----------------------------------------------------------------------------
(* Permission, preview, packet and gate *)

(* canWritePathTx for write_status on the target. *)
MayWriteStatus == config # NoConfig /\ config.writeStatus

(* statusProjectionAuthorizationPermission reads the same rows outside the *)
(* transaction.                                                            *)
PermissionAllowed == config # NoConfig /\ config.writeStatus

(* inspectStatusProjectionPreimage and annotateStatusProjectionSchemaShape. *)
SchemaStatus(content) ==
    CASE content = Missing    -> "missing"
      [] TooLarge(content)    -> "too_large"
      [] content[1] = "doc"   -> "stable"
      [] OTHER                -> "mismatch"

(* BuildStatusProjectionAuthorizationPreview: blocked by a target that     *)
(* cannot be inspected, or without permission.  A target of another shape  *)
(* only has to be reviewed.                                                *)
AuthorizationBlocked == SchemaStatus(file) = "too_large" \/ ~PermissionAllowed

(* statusProjectionApplyPacketFromAuthorization: the packet repeats what   *)
(* the preview shows; the operator approves it or not.                     *)
PacketNow(approved) ==
    [source |-> LatestImport, before |-> file, paths |-> paths, approved |-> approved]

(* BuildStatusProjectionApplyGate: every item must pass. *)
ApplyGate(packet) ==
    /\ ~AuthorizationBlocked
    /\ packet.approved
    /\ packet.source = LatestImport
    /\ packet.before = file
    /\ packet.paths = paths

----------------------------------------------------------------------------
(* The apply command *)

DraftPacket(a) ==
    /\ cmd[a].pc = "idle"
    /\ LatestImport # NoHash
    /\ \E approved \in BOOLEAN :
         cmd' = [cmd EXCEPT ![a].pc = "drafted", ![a].packet = PacketNow(approved)]
    /\ UNCHANGED <<file, paths, ledger, projections, overwrote, fileEdits>>

(* LatestImportSnapshot, read before the gate reads it again. *)
ReadSnapshot(a) ==
    /\ cmd[a].pc = "drafted"
    /\ cmd' = [cmd EXCEPT ![a].pc = "snapshotted", ![a].snap = LatestImport]
    /\ UNCHANGED <<file, paths, ledger, projections, overwrote, fileEdits>>

EvaluateGate(a) ==
    /\ cmd[a].pc = "snapshotted"
    /\ cmd' = [cmd EXCEPT ![a].pc = "gated", ![a].gate = ApplyGate(cmd[a].packet)]
    /\ UNCHANGED <<file, paths, ledger, projections, overwrote, fileEdits>>

(* statusProjectionApplyIdempotencyKey: the source and the packet. *)
KeyOf(a) == <<cmd[a].snap, cmd[a].packet>>

Block(c) == [c EXCEPT !.pc = "record", !.outcome = "blocked"]

(* reserveCommandRequest waits while another transaction holds the key; a  *)
(* recorded result is replayed; else evaluateStatusProjectionApply.        *)
ReserveAndEvaluate(a) ==
    /\ cmd[a].pc = "gated"
    /\ \A x \in Applies \ {a} : InTransaction(x) => KeyOf(x) # KeyOf(a)
    /\ LET c == cmd[a] IN
       Keep(a, CASE KeyOf(a) \in DOMAIN ledger -> EndUntold(c, "replayed")
                 [] ~c.gate \/ ~MayWriteStatus -> Block(c)
                 [] OTHER -> [c EXCEPT !.pc = "capture"])
    /\ UNCHANGED <<paths, ledger, projections, fileEdits>>

(* Variant: the preimage is not compared with the packet again. *)
CapturePreimageUnchecked(a) ==
    /\ cmd[a].pc = "capture"
    /\ LET c == cmd[a] IN
       Keep(a, IF TooLarge(file) THEN Block(c) ELSE [c EXCEPT !.pre = file, !.pc = "fingerprint"])
    /\ UNCHANGED <<paths, ledger, projections, fileEdits>>

(* captureStatusProjectionApplyPreimage and the recheck of the packet. *)
CapturePreimage(a) ==
    /\ cmd[a].pc = "capture"
    /\ LET c == cmd[a] IN
       Keep(a, CASE TooLarge(file) -> Block(c)
                 [] file # c.packet.before -> Block([c EXCEPT !.pre = file])
                 [] OTHER -> [c EXCEPT !.pre = file, !.pc = "fingerprint"])
    /\ UNCHANGED <<paths, ledger, projections, fileEdits>>

FingerprintBefore(a) ==
    /\ cmd[a].pc = "fingerprint"
    /\ Keep(a, IF paths = cmd[a].packet.paths THEN [cmd[a] EXCEPT !.pc = "write"] ELSE Block(cmd[a]))
    /\ UNCHANGED <<paths, ledger, projections, fileEdits>>

(* WriteWithResult: a document that only differs in its time is left       *)
(* alone and its hash returned; else a temporary file is renamed over it.  *)
SameDocument(content, hash) == SchemaStatus(content) = "stable" /\ content[2] = hash

Write(a) ==
    /\ cmd[a].pc = "write"
    /\ LET c == cmd[a] IN
       IF SameDocument(file, c.snap)
       THEN Keep(a, [c EXCEPT !.pc = "verify", !.wrote = file])
       ELSE Replace(a, "write", Doc(c.snap, a), [c EXCEPT !.pc = "verify", !.wrote = Doc(c.snap, a)])
    /\ UNCHANGED <<paths, ledger, projections, fileEdits>>

(* restoreStatusProjectionPreimageAtomically, or the removal of a file     *)
(* that was not there.                                                     *)
RestorePreimage(a, c) == Replace(a, "rollback", cmd[a].pre, c)

(* The writer fails before its rename; then                                *)
(* rollbackStatusProjectionApplyPartialWriterError puts back the preimage  *)
(* whatever is there.                                                      *)
WriteFails(a) ==
    /\ cmd[a].pc = "write"
    /\ IF file = cmd[a].pre THEN Keep(a, Block(cmd[a]))
                            ELSE RestorePreimage(a, Block(cmd[a]))
    /\ UNCHANGED <<paths, ledger, projections, fileEdits>>

(* rollbackStatusProjectionApplyFile: only over the expected content, else *)
(* it fails and the command with it.                                       *)
Rollback(a, expected, c) ==
    IF file = expected /\ file # Missing
    THEN RestorePreimage(a, c)
    ELSE Keep(a, EndUntold(cmd[a], "rollback_failed"))

(* verifyStatusProjectionApplyWrittenFile; when it fails the hash expected *)
(* by the rollback is that of the content just read.                       *)
Verify(a) ==
    /\ cmd[a].pc = "verify"
    /\ LET c == cmd[a] IN
       IF file = c.wrote /\ StableDocument(file, c.snap) THEN Keep(a, [c EXCEPT !.pc = "after"])
       ELSE Rollback(a, IF file = Missing THEN c.wrote ELSE file, Block(c))
    /\ UNCHANGED <<paths, ledger, projections, fileEdits>>

(* The protected paths must not have changed during the write. *)
FingerprintAfter(a) ==
    /\ cmd[a].pc = "after"
    /\ LET c == cmd[a] IN
       IF paths = c.packet.paths
       THEN Keep(a, [c EXCEPT !.pc = "record", !.outcome = "written"])
       ELSE Rollback(a, c.wrote, Block(c))
    /\ UNCHANGED <<paths, ledger, projections, fileEdits>>

(* The recorded response, under the reserved key. *)
RespondedWith(a) ==
    ledger' = [k \in DOMAIN ledger \cup {KeyOf(a)} |->
                  IF k = KeyOf(a) THEN cmd[a].outcome ELSE ledger[k]]

(* insertAppliedStatusProjection: a row for every outcome. *)
ProjectionRow(a) == [by |-> a, state |-> cmd[a].outcome, source |-> cmd[a].snap]

(* The snapshot row, projection row, event, audit event and response, and  *)
(* the commit.                                                             *)
Recorded(a) ==
    /\ RespondedWith(a)
    /\ projections' = projections \cup {ProjectionRow(a)}

Record(a) ==
    /\ cmd[a].pc = "record"
    /\ Recorded(a)
    /\ Keep(a, End(cmd[a], cmd[a].outcome, file))
    /\ UNCHANGED <<paths, fileEdits>>

(* handlePostWriteError: a statement fails after the write.  The rollback  *)
(* expects what was written.                                               *)
RecordFails(a) ==
    /\ cmd[a].pc = "record"
    /\ LET c == cmd[a] IN
       IF c.outcome = "written"
       THEN Rollback(a, c.wrote, End(c, "failed", c.pre))
       ELSE Keep(a, End(c, "failed", file))
    /\ UNCHANGED <<paths, ledger, projections, fileEdits>>

(* The commit itself fails, or its answer is lost: the file stays. *)
CommitFails(a) ==
    /\ cmd[a].pc = "record"
    /\ Recorded(a) \/ UNCHANGED <<ledger, projections>>
    /\ Keep(a, EndUntold(cmd[a], "lost"))
    /\ UNCHANGED <<paths, fileEdits>>

(* The process stops inside the transaction: the database forgets, the     *)
(* file does not.                                                          *)
Crash(a) ==
    /\ InTransaction(a)
    /\ Keep(a, EndUntold(cmd[a], "lost"))
    /\ UNCHANGED <<paths, ledger, projections, fileEdits>>

----------------------------------------------------------------------------
(* Other programs *)

EditFile ==
    /\ fileEdits < MaxFileEdits
    /\ fileEdits' = fileEdits + 1
    /\ file' \in ({Note(n) : n \in Notes} \cup {Missing}) \ {file}
    /\ cmd' = SeenLate(file', cmd)
    /\ UNCHANGED <<paths, ledger, projections, overwrote>>

EditProtectedPaths ==
    /\ fileEdits < MaxFileEdits
    /\ fileEdits' = fileEdits + 1
    /\ paths' \in Prints \ {paths}
    /\ UNCHANGED <<file, cmd, ledger, projections, overwrote>>

----------------------------------------------------------------------------
ProjectionInit ==
    /\ file \in {Missing} \cup {Note(n) : n \in Notes}
    /\ paths \in Prints
    /\ cmd = [a \in Applies |-> NoCall]
    /\ ledger = [k \in {} |-> "none"]
    /\ projections = {}
    /\ overwrote = {}
    /\ fileEdits = 0

ApplyStep(a) ==
    \/ ReadSnapshot(a) \/ EvaluateGate(a) \/ ReserveAndEvaluate(a) \/ CapturePreimage(a)
    \/ FingerprintBefore(a) \/ Write(a) \/ WriteFails(a) \/ Verify(a) \/ FingerprintAfter(a)
    \/ Record(a) \/ RecordFails(a) \/ CommitFails(a)

ProjectionNext ==
    \/ \E a \in Applies : DraftPacket(a) \/ ApplyStep(a) \/ Crash(a)
    \/ EditFile
    \/ EditProtectedPaths

(* The projection beside the imports and registrations it reads from. *)
MirrorNext ==
    \/ IndexNext /\ UNCHANGED projectionVars
    \/ ProjectionNext /\ UNCHANGED indexVars

MirrorSpec ==
    IndexInit /\ ProjectionInit /\ [][MirrorNext]_<<indexVars, projectionVars>>

----------------------------------------------------------------------------
(* Properties *)

TypeOK ==
    /\ tree \in Trees /\ yaml \in Configs /\ config \in Configs \cup {NoConfig}
    /\ \A table \in Tables : \A r \in rows[table] : r[1] \in Imports
    /\ \A i \in Imports : imp[i].tree \in Trees \cup {NoTree}
    /\ \A c \in DOMAIN report : report[c] \in {"pass", "warn", "fail"}
    /\ paths \in Prints
    /\ \A a \in Applies :
         cmd[a].outcome \in {"none", "replayed", "blocked", "written", "failed", "rollback_failed",
                             "lost"}
    /\ \A p \in projections : p.by \in Applies /\ p.state \in {"blocked", "written"}

(* What an apply reports is what it left: without a change of the file by  *)
(* others since it captured the preimage, a call that recorded "written"   *)
(* left the document it verified, made from the import it read, and one    *)
(* that was blocked or failed left the preimage.  (ApplyStatusProjection   *)
(* writes before it commits and compensates on every error path but a      *)
(* failed commit.)                                                         *)
ReportedIsLeft ==
    \A a \in Applies :
        LET c == cmd[a] IN
        c.pc = "done" /\ c.late = {} =>
            /\ c.outcome = "written" => c.final = c.wrote /\ StableDocument(c.final, c.snap)
            /\ c.outcome \in {"blocked", "failed"} /\ c.pre # NoContent => c.final = c.pre

(* No content that was in the file when an apply captured its preimage is  *)
(* replaced by it unless the approved packet named that very content: what *)
(* an apply replaces is the packet's preimage, what it wrote itself, or a  *)
(* change that came after the capture.                                     *)
(* (statusProjectionApplyPreimageRecheckBlockers)                          *)
OnlyApprovedOverwritten ==
    \A o \in overwrote :
        \/ o.was = cmd[o.by].packet.before
        \/ o.was = Doc(cmd[o.by].snap, o.by)
        \/ o.fresh

(* An apply replaces only what was approved to be replaced, and leaves what it
   reports (ApplyStatusProjection).                                        *)
ProjectionIsSafe == TypeOK /\ OnlyApprovedOverwritten /\ ReportedIsLeft

==============================================================================
