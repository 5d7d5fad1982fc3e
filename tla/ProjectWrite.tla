---------------------------- MODULE ProjectWrite ----------------------------
(***************************************************************************)
(* The write, verify and roll back drill on one file of a managed project: *)
(* WriteFixtureProject and WriteManagedGenerated, from the expected-before *)
(* check on.  Each drill runs inside the database transaction of its run;  *)
(* the file is outside every transaction.                                  *)
(***************************************************************************)
EXTENDS Naturals

CONSTANTS
    Drills,     \* runs that write the file
    Workers,    \* workers a drill may be run on
    Contents,
    Original,   \* what the file holds at first
    Expected,   \* the expected-before contents callers queue drills with
    Failures,   \* what may go wrong
    MaxEdits,   \* bound on the edits of the project's owner
    Torn,       \* a file truncated by a failed write
    NoContent, NoDrill

(* A database statement fails; os.WriteFile fails in the write or in the
   rollback; the server stops; the owner edits the file during a drill.    *)
FailureKinds == {"database", "write", "rollback", "crash", "edit"}

ASSUME ProjectWriteAssumption ==
    /\ Original \in Contents
    /\ Expected \subseteq Contents
    /\ Failures \subseteq FailureKinds
    /\ MaxEdits \in Nat
    /\ Torn \notin Contents
    /\ NoContent \notin Contents \cup {Torn}
    /\ NoDrill \notin Drills

VARIABLES
    file,      \* content of the target file
    phase,     \* where each drill is
    lock,      \* the drill whose transaction has the worker's row locked
    writeSet,  \* its write-set artifact
    preimage,  \* what it read before writing
    saved,     \* its preimage artifact in the artifact store
    owned,     \* history: what the project's owner last left in the file
    edits,     \* edits of the project's owner so far
    mishaps    \* history: the failures that happened, and drills that overlapped

vars == <<file, phase, lock, writeSet, preimage, saved, owned, edits, mishaps>>

(* Phases in which the transaction is open and the worker's row locked. *)
InFlight == {"checked", "saved", "written", "verified", "rolledBack", "failing",
             "restored"}

Phases == {"none", "queued", "denied", "rollback_verified", "crashed"} \cup InFlight

WriteSets == [expected : Contents, after : Contents]

(* Drills hold what their write-set and their reads put there. *)
TypeOK ==
    /\ file \in Contents \cup {Torn}
    /\ phase \in [Drills -> Phases]
    /\ lock \in [Workers -> Drills \cup {NoDrill}]
    /\ writeSet \in [Drills -> WriteSets]
    /\ preimage \in [Drills -> Contents \cup {NoContent}]
    /\ saved \in [Drills -> Contents \cup {NoContent}]
    /\ owned \in Contents
    /\ edits \in 0..MaxEdits
    /\ mishaps \subseteq Failures \cup {"overlap"}

-----------------------------------------------------------------------------
Init ==
    /\ file = Original
    /\ phase = [d \in Drills |-> "none"]
    /\ lock = [w \in Workers |-> NoDrill]
    /\ writeSet = [d \in Drills |-> [expected |-> Original, after |-> Original]]
    /\ preimage = [d \in Drills |-> NoContent]
    /\ saved = [d \in Drills |-> NoContent]
    /\ owned = Original
    /\ edits = 0
    /\ mishaps = {}

(* The drill goes on to p; leaving InFlight ends its transaction. *)
Goto(d, p) ==
    /\ phase' = [phase EXCEPT ![d] = p]
    /\ lock' = [w \in Workers |->
                  IF lock[w] = d /\ p \notin InFlight THEN NoDrill ELSE lock[w]]

Happens(failure) ==
    /\ failure \in Failures
    /\ mishaps' = mishaps \cup {failure}

AtRest == \A d \in Drills : phase[d] \notin InFlight

(* The drill enters while one that expects another content is under way. *)
Overlaps(d) ==
    \E e \in Drills : phase[e] \in InFlight /\ writeSet[e].expected # writeSet[d].expected

QueueDrill(d, expected, after) ==
    /\ phase[d] = "none"
    /\ writeSet' = [writeSet EXCEPT ![d] = [expected |-> expected, after |-> after]]
    /\ Goto(d, "queued")
    /\ UNCHANGED <<file, preimage, saved, owned, edits, mishaps>>

(* loadWorkerForUpdate: drills on one worker wait for each other. *)
Enter(d, w) ==
    /\ phase[d] = "queued"
    /\ lock[w] = NoDrill
    /\ phase' = [phase EXCEPT ![d] = "checked"]
    /\ lock' = [lock EXCEPT ![w] = d]
    /\ mishaps' = IF Overlaps(d) THEN mishaps \cup {"overlap"} ELSE mishaps

(* Variant: expected-before is not compared. *)
CheckPreimageAny(d, w) ==
    /\ Enter(d, w)
    /\ file # Torn
    /\ preimage' = [preimage EXCEPT ![d] = file]
    /\ UNCHANGED <<file, writeSet, saved, owned, edits>>

CheckPreimage(d, w) ==
    /\ Enter(d, w)
    /\ file = writeSet[d].expected
    /\ preimage' = [preimage EXCEPT ![d] = file]
    /\ UNCHANGED <<file, writeSet, saved, owned, edits>>

(* The denial is committed; its default key replays it from then on. *)
DenyPreimage(d, w) ==
    /\ phase[d] = "queued"
    /\ lock[w] = NoDrill
    /\ file # writeSet[d].expected
    /\ Goto(d, "denied")
    /\ UNCHANGED <<file, writeSet, preimage, saved, owned, edits, mishaps>>

(* Variant: the preimage artifact is left for later. *)
SavePreimageNot(d) ==
    /\ phase[d] = "checked"
    /\ Goto(d, "saved")
    /\ UNCHANGED <<file, writeSet, preimage, saved, owned, edits, mishaps>>

SavePreimage(d) ==
    /\ phase[d] = "checked"
    /\ saved' = [saved EXCEPT ![d] = preimage[d]]
    /\ Goto(d, "saved")
    /\ UNCHANGED <<file, writeSet, preimage, owned, edits, mishaps>>

WriteTarget(d) ==
    /\ phase[d] = "saved"
    /\ file' = writeSet[d].after
    /\ Goto(d, "written")
    /\ UNCHANGED <<writeSet, preimage, saved, owned, edits, mishaps>>

(* os.WriteFile truncates first.  projectFileChanged is still false, so the
   deferred restore does nothing, and the transaction is rolled back.      *)
WriteTargetFails(d) ==
    /\ Happens("write")
    /\ phase[d] = "saved"
    /\ file' = Torn
    /\ Goto(d, "queued")
    /\ UNCHANGED <<writeSet, preimage, saved, owned, edits>>

VerifyTarget(d) ==
    /\ phase[d] = "written"
    /\ Goto(d, IF file = writeSet[d].after THEN "verified" ELSE "failing")
    /\ UNCHANGED <<file, writeSet, preimage, saved, owned, edits, mishaps>>

RollbackTarget(d) ==
    /\ phase[d] = "verified"
    /\ file' = preimage[d]
    /\ Goto(d, "rolledBack")
    /\ UNCHANGED <<writeSet, preimage, saved, owned, edits, mishaps>>

RollbackTargetFails(d) ==
    /\ Happens("rollback")
    /\ phase[d] = "verified"
    /\ file' = Torn
    /\ Goto(d, "failing")
    /\ UNCHANGED <<writeSet, preimage, saved, owned, edits>>

(* restoredImage is compared with the preimage. *)
ConfirmRollback(d) ==
    /\ phase[d] = "rolledBack"
    /\ Goto(d, IF file = preimage[d] THEN "restored" ELSE "failing")
    /\ UNCHANGED <<file, writeSet, preimage, saved, owned, edits, mishaps>>

Commit(d) ==
    /\ phase[d] = "restored"
    /\ Goto(d, "rollback_verified")
    /\ UNCHANGED <<file, writeSet, preimage, saved, owned, edits, mishaps>>

(* Variant: a failed statement after the verification is tried again. *)
DatabaseFailsRetrying(d) ==
    /\ Happens("database")
    /\ \/ phase[d] \in {"checked", "saved", "restored"} /\ Goto(d, "queued")
       \/ phase[d] = "verified" /\ Goto(d, "written")
    /\ UNCHANGED <<file, writeSet, preimage, saved, owned, edits>>

(* A statement or the commit fails.  The deferred function restores what was
   changed and not restored, then the transaction is rolled back and the
   command may be sent again.                                              *)
DatabaseFails(d) ==
    /\ Happens("database")
    /\ \/ /\ phase[d] \in {"checked", "saved", "restored"}
          /\ Goto(d, "queued")
       \/ /\ phase[d] \in {"written", "verified", "rolledBack"}
          /\ Goto(d, "failing")
    /\ UNCHANGED <<file, writeSet, preimage, saved, owned, edits>>

DeferredRestore(d) ==
    /\ phase[d] = "failing"
    /\ file' = preimage[d]
    /\ Goto(d, "queued")
    /\ UNCHANGED <<writeSet, preimage, saved, owned, edits, mishaps>>

DeferredRestoreFails(d) ==
    /\ Happens("rollback")
    /\ phase[d] = "failing"
    /\ file' = Torn
    /\ Goto(d, "queued")
    /\ UNCHANGED <<writeSet, preimage, saved, owned, edits>>

(* The server stops; no deferred function runs. *)
Crash(d) ==
    /\ Happens("crash")
    /\ phase[d] \in InFlight
    /\ Goto(d, "crashed")
    /\ UNCHANGED <<file, writeSet, preimage, saved, owned, edits>>

(* The project's owner edits the file, between drills or during one. *)
Edit(content) ==
    /\ edits < MaxEdits
    /\ \/ AtRest /\ UNCHANGED mishaps
       \/ ~AtRest /\ Happens("edit")
    /\ file' = content
    /\ owned' = content
    /\ edits' = edits + 1
    /\ UNCHANGED <<phase, lock, writeSet, preimage, saved>>

Next ==
    \/ \E d \in Drills :
         \/ \E expected \in Expected, after \in Contents : QueueDrill(d, expected, after)
         \/ \E w \in Workers : CheckPreimage(d, w) \/ DenyPreimage(d, w)
         \/ SavePreimage(d)
         \/ WriteTarget(d)
         \/ WriteTargetFails(d)
         \/ VerifyTarget(d)
         \/ RollbackTarget(d)
         \/ RollbackTargetFails(d)
         \/ ConfirmRollback(d)
         \/ Commit(d)
         \/ DatabaseFails(d)
         \/ DeferredRestore(d)
         \/ DeferredRestoreFails(d)
         \/ Crash(d)
    \/ \E content \in Contents : Edit(content)

Spec == Init /\ [][Next]_vars

(* A handler runs to its end once its transaction is open. *)
Handle(d) ==
    \/ SavePreimage(d) \/ WriteTarget(d) \/ VerifyTarget(d) \/ RollbackTarget(d)
    \/ ConfirmRollback(d) \/ Commit(d) \/ DeferredRestore(d)

-----------------------------------------------------------------------------
(* Once no drill is under way the file is as its owner left it, whichever
   drills ran side by side and wherever the database failed them.  Only a
   failed file operation, a crash, an edit during a drill or two drills that
   expected different contents can leave it otherwise.                     *)
FileRestored == AtRest /\ mishaps \subseteq {"database"} => file = owned

(* What a drill may have destroyed is in the artifact store: the preimage is
   saved before the file is touched, so even after a torn write, a crash or
   two drills at cross purposes the owner's content can be found there.    *)
PreimageRecoverable ==
    file # owned /\ "edit" \notin mishaps => \E d \in Drills : saved[d] = owned

(* Every drill that opened its transaction closes it: the file does not stay
   changed behind a drill that never ends.                                 *)
DrillsEnd ==
    \A d \in Drills : phase[d] \in InFlight ~> phase[d] \notin InFlight

=============================================================================
