--------------------------- MODULE MCReleaseGates ---------------------------
(* One stored artifact, intact or not. *)
EXTENDS ReleaseGates, TLC

MCArtifactSets ==
    {{[backend |-> "local", intact |-> TRUE]},
     {[backend |-> "local", intact |-> FALSE]}}

(* Beside an evaluation of the platform, which has no exceptions, there is at
   most one command.                                                       *)
PlatformAlone == reader.scope = "platform" => \E c \in Calls : call[c].phase = "none"

CallSymmetry == Permutations(Calls)

=============================================================================
