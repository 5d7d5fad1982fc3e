---------------------------- MODULE MCCutoverChain ----------------------------
(* A version from its authoring to its cutover.  A behaviour is of one     *)
(* part: the authoring, the commands' use of connections, or the chain to  *)
(* execution forwarding or to the cutover, which starts shortly before the *)
(* commands can succeed, with one or two facts missing or wrong.           *)
EXTENDS CutoverChain, VersionAuthoring, PooledCommands, TLC

CONSTANT Plays

VARIABLE play

GoodReport == [drift |-> "pass", config |-> "pass", stages |-> "pass", native |-> "warn"]
MCReports == {GoodReport, [GoodReport EXCEPT !.drift = "fail"]}

Proof(id) == [id |-> id, complete |-> TRUE, rollbackFacts |-> TRUE]
Ready ==
    [mirror |-> TRUE, doctor |-> GoodReport, evidence |-> [k \in EvidenceKeys |-> "pass"],
     shimApplied |-> FALSE, commands |-> CommandTypes, pathProof |-> Proof(1), rollbackProof |-> Proof(1),
     gates |-> [g \in GateNames |-> "pass"], cutOver |-> FALSE]
StartOf ==
    [forwarding |-> {[Ready EXCEPT !.mirror = FALSE],
                     [Ready EXCEPT !.commands = @ \ {"artifact write"}, !.rollbackProof = None]},
     cutover    |-> {Ready, [Ready EXCEPT !.mirror = FALSE, !.gates["cutover_readiness"] = "none"]}]
MCStartFacts == StartOf.forwarding \cup StartOf.cutover

MCStages == <<"discussion", "plans">>
MCStageLinks == {<<"discussion", "plans">>}

MCRequests ==
    {[kind |-> "preview", key |-> 1, risk |-> ""], [kind |-> "preview", key |-> 1, risk |-> "medium"],
     [kind |-> "preview", key |-> 2, risk |-> "low"], [kind |-> "preview", key |-> 2, risk |-> "high"],
     [kind |-> "apply", key |-> 1, risk |-> ""]}

MCInit ==
    /\ play \in Plays
    /\ ChainInit
    /\ facts \in IF play = "forwarding" THEN StartOf.forwarding
                 ELSE IF play = "cutover" THEN StartOf.cutover ELSE {Ready}
    /\ play = "cutover" <=> imports # <<>>
    /\ imports # <<>> => Head(imports) = CHOOSE h \in Hashes : TRUE
    /\ AuthoringInit
    /\ profile = CHOOSE h \in ProfileHashes : TRUE
    /\ play # "authoring" => version = Nil
    /\ PoolInit

ChainSteps ==
    /\ \/ /\ play = "cutover"
          /\ \/ \E h \in Hashes : ImportCommits(h)
             \/ \E r \in Reports : DoctorReports(r)
             \/ \E s \in {"pass", "blocked"} : GateEvaluated("approval", s)
       \/ /\ play = "forwarding"
          /\ \/ \E s \in {"pass", "blocked"} : RecordShimReadinessEvidence("worktree_review", s)
             \/ CommandCompletes("artifact write")
             \/ \E k \in {"pathProof", "rollbackProof"}, named \in BOOLEAN : RecordProof(k, TRUE, named)
       \/ MirrorExported
       \/ \E a \in Calls :
            \/ play = "forwarding" /\ (CallShimApply(a) \/ CallForwardingApply(a))
            \/ play = "cutover" /\ (CallCutover(a) \/ CallCutoverGate(a))
            \/ CallStep(a)
            \/ Fail(a)
    /\ play \in {"forwarding", "cutover"}

MCNext ==
    /\ UNCHANGED play
    /\ \/ ChainSteps /\ UNCHANGED <<authoringVars, poolVars>>
       \/ play = "authoring" /\ AuthoringNext /\ UNCHANGED <<chainVars, poolVars>>
       \/ play = "pool" /\ PoolNext /\ UNCHANGED <<chainVars, authoringVars>>

MCSpec == MCInit /\ [][MCNext]_<<chainVars, authoringVars, poolVars, play>>

(* The callers of the parts are the same model values. *)
CallSymmetry == Permutations(Calls)
==============================================================================
