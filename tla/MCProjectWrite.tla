--------------------------- MODULE MCProjectWrite ---------------------------
(***************************************************************************)
(* Instances of ProjectWrite and ExecutionCommands for TLC, one at a time: *)
(* what is not played stays as it is.                                      *)
(***************************************************************************)
EXTENDS ProjectWrite, ExecutionCommands

CONSTANTS Plays, FirstJob, FirstCaller

VARIABLE play

MCInit ==
    /\ Init
    /\ ExecutionCommandsInit
    /\ play \in Plays
    /\ play = "drill" => facts = Facts

(* Jobs are queued before the first call: they do not meet until then. *)
MCNext ==
    \/ /\ play = "drill"
       /\ Next
       /\ UNCHANGED <<play, executionCommandVars>>
    \/ /\ play = "commands"
       /\ (begun = 0 /\ QueueStep) \/ ExecuteStep
       /\ UNCHANGED <<play, vars>>

(* Callers are alike, and so are jobs: the first one free is used.  The other
   job is queued only beside a fixture execution.  A command meets a job of
   another kind only if it is a read-only verification.  Of the objects the
   write-set is damaged, the one the commands read.  Either the store fails or
   the facts change.                                                       *)
FirstFree ==
    /\ changes = 0 \/ faults = {}
    /\ "damaged" \in faults => \E r \in Jobs : store[r]["write_set"] = Damaged
    /\ \A r \in Jobs \ {FirstJob} : job[r].status # "none" =>
         job[FirstJob].kind = "fixture_execution" /\ job[r].kind = "fixture_execution"
    /\ \A c \in Callers : turn[c] # NoTurn =>
         /\ turn[c].kind \in {job[turn[c].job].kind, "read_only_verify"}
         /\ turn[c].call = 1 => c = FirstCaller

MCSpec ==
    /\ MCInit
    /\ [][MCNext]_<<play, vars, executionCommandVars>>
    /\ \A d \in Drills : WF_vars(Handle(d))
=============================================================================
