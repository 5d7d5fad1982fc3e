----------------------------- MODULE CutoverChain -----------------------------
(***************************************************************************)
(* The three commands that take over a managed project's workflow:         *)
(* recording a shim apply, recording an execution forwarding apply, and    *)
(* applying an authoring cutover to a workflow version; and the cutover    *)
(* readiness gate that must have passed before the last one.               *)
(*                                                                         *)
(* Each command reserves its key in a transaction, but evaluates its gate  *)
(* with queries on other connections, one after the other, so every query  *)
(* result may be of another moment.  Imports, doctor reports, exports,     *)
(* evidence, gate results and proofs are recorded in between.              *)
(***************************************************************************)
EXTENDS ReadinessChain, Sequences

CONSTANTS
    Calls,         \* calls of the commands
    Hashes,        \* source hashes of imports
    Reports,       \* doctor reports
    StartFacts,    \* facts a behaviour starts from
    MaxImports,    \* bound: imports
    MaxProofs,     \* bound: proofs of each kind
    MaxChanges     \* bound: changes of the facts other than imports

Kinds == {"shim", "forwarding", "cutover", "gate"}
GateNames == {"approval", "live_mapping", "cutover_readiness"}
CommandTypes == {"verify queue", "verify", "artifact queue", "artifact write"}

ProofType == [id: 1 .. MaxProofs, complete: BOOLEAN, rollbackFacts: BOOLEAN] \cup {None}
FactsType ==
    [mirror: BOOLEAN, doctor: Reports \cup {None}, evidence: [EvidenceKeys -> {"none", "pass", "blocked"}],
     shimApplied: BOOLEAN, commands: SUBSET CommandTypes, pathProof: ProofType, rollbackProof: ProofType,
     gates: [GateNames -> {"none", "pass", "blocked"}], cutOver: BOOLEAN]

ASSUME StartAssumption ==
    StartFacts \subseteq {f \in FactsType : ~f.shimApplied /\ ~f.cutOver}

VARIABLES
    facts,     \* what the queries read
    imports,   \* the import snapshots' source hashes, oldest first
    call,      \* per call: its progress
    ledger,    \* <<kind, key>> -> the request and the recorded result
    log,       \* history: the calls that took effect, in order
    changes    \* changes of the facts so far, other than imports

chainVars == <<facts, imports, call, ledger, log, changes>>

Snapshot(n) == IF n < 1 THEN None ELSE [no |-> n, hash |-> imports[n]]

(* What each query returns now. *)
View ==
    [mirror        |-> facts.mirror,
     latest        |-> Snapshot(Len(imports)),
     previous      |-> Snapshot(Len(imports) - 1),
     doctor        |-> facts.doctor,
     shimMirror    |-> facts.mirror,
     evidence      |-> facts.evidence,
     shimApplied   |-> facts.shimApplied,
     commands      |-> facts.commands,
     pathProof     |-> facts.pathProof,
     rollbackProof |-> facts.rollbackProof,
     gates         |-> facts.gates]

(* The queries of a command, in the order it makes them: ShimApplyGate,    *)
(* ExecutionForwardingV1Readiness, ProjectCutoverReadiness.                *)
Queries(kind) ==
    CASE kind = "shim"       -> <<"shimMirror", "evidence">>
      [] kind = "forwarding" -> <<"shimMirror", "evidence", "shimApplied", "commands", "pathProof",
                                  "rollbackProof">>
      [] OTHER               -> <<"mirror", "latest", "previous", "doctor", "shimMirror", "gates">>

NoCall == [kind |-> "none", pc |-> "idle", packet |-> None, preview |-> "none", cutOver |-> FALSE, todo |-> <<>>,
           view |-> [q \in {} |-> None], begin |-> None, quiet |-> TRUE, result |-> "none"]

----------------------------------------------------------------------------
(* The facts change *)

Calling(a) == call[a].pc \in {"reserve", "query", "decide"}

(* When a fact changes, no call in progress is quiet any more. *)
Disturbed == [a \in Calls |-> [call[a] EXCEPT !.quiet = @ /\ ~Calling(a)]]
Disturb == call' = Disturbed

Change(f) ==
    /\ changes < MaxChanges
    /\ facts' = f
    /\ facts' # facts
    /\ changes' = changes + 1
    /\ Disturb
    /\ UNCHANGED <<imports, ledger, log>>

(* ImportProject's commit. *)
ImportCommits(hash) ==
    /\ Len(imports) < MaxImports
    /\ imports' = Append(imports, hash)
    /\ Disturb
    /\ UNCHANGED <<facts, ledger, log, changes>>

(* RecordDoctorReport. *)
DoctorReports(report) == Change([facts EXCEPT !.doctor = report])

(* The first status projection apply leaves a mirror export. *)
MirrorExported == Change([facts EXCEPT !.mirror = TRUE])

(* RecordShimReadinessEvidence: the latest evidence of a key counts. *)
RecordShimReadinessEvidence(key, status) == Change([facts EXCEPT !.evidence[key] = status])

(* Another gate of the version is evaluated again. *)
GateEvaluated(gate, status) == Change([facts EXCEPT !.gates[gate] = status])

(* A queue or worker command completes. *)
CommandCompletes(type) == Change([facts EXCEPT !.commands = @ \cup {type}])

(* RecordProtectedPathProof, RecordExecutionCutoverProof: the new proof is *)
(* the latest.                                                             *)
RecordProof(kind, complete, rollbackFacts) ==
    LET id == IF facts[kind] = None THEN 1 ELSE facts[kind].id + 1 IN
    /\ id <= MaxProofs
    /\ Change([facts EXCEPT ![kind] = [id |-> id, complete |-> complete, rollbackFacts |-> rollbackFacts]])

----------------------------------------------------------------------------
(* The commands *)

InTransaction(a) == call[a].pc \in {"query", "decide"}

Begin(a, kind, packet, preview) ==
    /\ call[a].pc = "idle"
    /\ call' = [call EXCEPT ![a] = [NoCall EXCEPT !.kind = kind, !.pc = "reserve", !.packet = packet,
                                                 !.preview = preview, !.cutOver = facts.cutOver]]
    /\ UNCHANGED <<facts, imports, ledger, log, changes>>

(* ShimApplyPacketPreview, and the operator's call with its packet. *)
CallShimApply(a) ==
    \E approved \in BOOLEAN :
        LET packet == ShimApplyPacket(View, approved) IN
        Begin(a, "shim", packet, ShimPacketPreview(View, packet))

(* ExecutionForwardingV1ApplyPacketPreview, and the operator's call with   *)
(* its packet and the proofs the preview shows.                            *)
CallForwardingApply(a) ==
    \E approved \in BOOLEAN :
        LET packet == ForwardingPacket(View, approved) IN
        Begin(a, "forwarding", packet, ForwardingPacketPreview(View, packet))

(* ApplyCutover's part before its transaction: it reads the version. *)
CallCutover(a) ==
    \E reason \in {"first", "second"} : Begin(a, "cutover", [hash |-> reason, approved |-> TRUE], "none")

(* RunWorkflowGate for the cutover readiness gate: it evaluates first and  *)
(* opens its transaction afterwards.                                       *)
CallCutoverGate(a) ==
    /\ call[a].pc = "idle"
    /\ call' = [call EXCEPT ![a] = [NoCall EXCEPT !.kind = "gate", !.pc = "query", !.todo = Queries("gate")]]
    /\ UNCHANGED <<facts, imports, ledger, log, changes>>

(* A packet's idempotency key is made from the hash in it, so two packets  *)
(* that differ in their approval share it; a cutover request's is made     *)
(* from the whole request, here from its reason.                           *)
KeyOf(a) == <<call[a].kind, call[a].packet.hash>>

(* load...ByCommandResponse: the recorded result, or an error for another  *)
(* request under the same key.                                             *)
Replay(a) ==
    IF ledger[KeyOf(a)].request = call[a].packet THEN ledger[KeyOf(a)].result ELSE "conflict"

(* reserveCommandRequest: a key another transaction holds is waited for,   *)
(* and one that is taken is not evaluated again.                           *)
Reserve(a) ==
    /\ call[a].pc = "reserve"
    /\ \A b \in Calls \ {a} : InTransaction(b) /\ call[b].kind # "gate" => KeyOf(b) # KeyOf(a)
    /\ call' = [call EXCEPT ![a] =
         IF KeyOf(a) \in DOMAIN ledger
         THEN [@ EXCEPT !.pc = "done", !.result = Replay(a)]
         ELSE [@ EXCEPT !.pc = "query", !.todo = Queries(call[a].kind), !.begin = ProofRefs(View)]]
    /\ UNCHANGED <<facts, imports, ledger, log, changes>>

(* Variant: the query for the previous import skips no row. *)
QueryNoOffset(a) ==
    /\ call[a].pc = "query"
    /\ LET q == Head(call[a].todo)
           c == call[a] IN
       call' = [call EXCEPT ![a].view = [x \in DOMAIN c.view \cup {q} |->
                                            IF x = q THEN View[IF q = "previous" THEN "latest" ELSE q]
                                                     ELSE c.view[x]],
                            ![a].todo = Tail(@),
                            ![a].pc = IF Len(c.todo) = 1 THEN "decide" ELSE "query"]
    /\ UNCHANGED <<facts, imports, ledger, log, changes>>

(* One query of the gate. *)
Query(a) ==
    /\ call[a].pc = "query"
    /\ LET q == Head(call[a].todo)
           c == call[a] IN
       call' = [call EXCEPT ![a].view = [x \in DOMAIN c.view \cup {q} |->
                                            IF x = q THEN View[q] ELSE c.view[x]],
                            ![a].todo = Tail(@),
                            ![a].pc = IF Len(c.todo) = 1 THEN "decide" ELSE "query"]
    /\ UNCHANGED <<facts, imports, ledger, log, changes>>

(* The event, the audit event, the response and the commit.  A blocked     *)
(* result is recorded under the key like any other.                        *)
Commit(a, result, newFacts) ==
    /\ facts' = newFacts
    /\ ledger' = [k \in DOMAIN ledger \cup {KeyOf(a)} |->
                     IF k = KeyOf(a) THEN [request |-> call[a].packet, result |-> result] ELSE ledger[k]]
    /\ log' = IF result \in {"recorded", "applied"} THEN Append(log, a) ELSE log
    /\ call' = [(IF newFacts = facts THEN call ELSE Disturbed) EXCEPT ![a] =
                   [call[a] EXCEPT !.pc = "done", !.result = result, !.view = NoCall.view]]
    /\ UNCHANGED <<imports, changes>>

Deciding(a, kind) == call[a].pc = "decide" /\ call[a].kind = kind

(* BuildApplyShimCommandResult. *)
ShimVerdict(v, packet) == IF ShimApplyGate(v, packet) THEN "recorded" ELSE "blocked"

(* ApplyShimCommand: the recorded event is what forwarding looks for; a    *)
(* blocked one is of another type.                                         *)
ApplyShimCommand(a) ==
    /\ Deciding(a, "shim")
    /\ LET result == ShimVerdict(call[a].view, call[a].packet) IN
       Commit(a, result, [facts EXCEPT !.shimApplied = @ \/ result = "recorded"])

(* evaluateExecutionForwardingV1Apply. *)
ForwardingVerdict(v, packet) == IF ForwardingGate(v, packet) THEN "applied" ELSE "blocked"

(* ApplyExecutionForwardingV1 writes nothing but its records. *)
ApplyExecutionForwardingV1(a) ==
    /\ Deciding(a, "forwarding")
    /\ Commit(a, ForwardingVerdict(call[a].view, call[a].packet), facts)

(* updateWorkflowVersionAuthoringCutover. *)
CutOver == [facts EXCEPT !.cutOver = TRUE]

(* ApplyCutover, after its gate. *)
ApplyCutover(a) ==
    /\ Deciding(a, "cutover")
    /\ LET result == CutoverVerdict(call[a].view, call[a].cutOver) IN
       Commit(a, result, IF result = "applied" THEN CutOver ELSE facts)

(* evaluateCutoverReadinessGate. *)
CutoverGateVerdict(v) == IF CutoverPhaseGate(v) THEN "pass" ELSE "blocked"

(* runCutoverReadinessGate: the result becomes the latest one. *)
RunCutoverReadinessGate(a) ==
    /\ Deciding(a, "gate")
    /\ LET result == CutoverGateVerdict(call[a].view) IN
       /\ facts' = [facts EXCEPT !.gates["cutover_readiness"] = result]
       /\ call' = [Disturbed EXCEPT ![a] = [NoCall EXCEPT !.kind = "gate", !.pc = "done", !.result = result]]
    /\ UNCHANGED <<imports, ledger, log, changes>>

(* A query or a statement fails, or the process stops: nothing is recorded. *)
Fail(a) ==
    /\ InTransaction(a)
    /\ call' = [call EXCEPT ![a] = [NoCall EXCEPT !.pc = "done", !.result = "error"]]
    /\ UNCHANGED <<facts, imports, ledger, log, changes>>

CallStep(a) ==
    \/ Reserve(a)
    \/ Query(a)
    \/ ApplyShimCommand(a)
    \/ ApplyExecutionForwardingV1(a)
    \/ ApplyCutover(a)
    \/ RunCutoverReadinessGate(a)

FactStep ==
    \/ \E h \in Hashes : ImportCommits(h)
    \/ \E r \in Reports : DoctorReports(r)
    \/ MirrorExported
    \/ \E k \in EvidenceKeys, s \in {"pass", "blocked"} : RecordShimReadinessEvidence(k, s)
    \/ \E g \in GateNames \ {"cutover_readiness"}, s \in {"pass", "blocked"} : GateEvaluated(g, s)
    \/ \E t \in CommandTypes : CommandCompletes(t)
    \/ \E k \in {"pathProof", "rollbackProof"}, complete, named \in BOOLEAN : RecordProof(k, complete, named)

ChainInit ==
    /\ facts \in StartFacts
    /\ imports \in {<<>>} \cup {<<g, h>> : g, h \in Hashes}
    /\ call = [a \in Calls |-> NoCall]
    /\ ledger = [k \in {} |-> None]
    /\ log = <<>>
    /\ changes = 0

ChainNext ==
    \/ FactStep
    \/ \E a \in Calls :
         \/ CallShimApply(a) \/ CallForwardingApply(a) \/ CallCutover(a) \/ CallCutoverGate(a)
         \/ CallStep(a)
         \/ Fail(a)

Spec == ChainInit /\ [][ChainNext]_chainVars

----------------------------------------------------------------------------
(* Properties *)

TypeOK ==
    /\ facts \in FactsType
    /\ imports \in Seq(Hashes)
    /\ \A a \in Calls :
         /\ call[a].kind \in Kinds \cup {"none"}
         /\ call[a].pc \in {"idle", "reserve", "query", "decide", "done"}
         /\ call[a].result \in {"none", "recorded", "applied", "already_applied", "pass", "blocked",
                               "conflict", "error"}
    /\ log \in Seq(Calls)

(* A call during which nothing changed decides as its gate says of the     *)
(* present facts, and as the packet preview announced: the queries that    *)
(* ApplyShimCommand, ApplyExecutionForwardingV1 and ApplyCutover make one  *)
(* after the other, and the version read before the transaction, amount to *)
(* one look at the database.                                               *)
QuietVerdictIsExact ==
    [][\A a \in Calls :
         LET c == call[a]
             result == call'[a].result IN
         c.pc = "decide" /\ c.quiet /\ call'[a].pc = "done" /\ result # "error" =>
             /\ result = CASE c.kind = "shim"       -> ShimVerdict(View, c.packet)
                           [] c.kind = "forwarding" -> ForwardingVerdict(View, c.packet)
                           [] c.kind = "cutover"    -> CutoverVerdict(View, facts.cutOver)
                           [] c.kind = "gate"       -> CutoverGateVerdict(View)
             /\ c.kind \in {"shim", "forwarding"} => (result \in {"recorded", "applied"} <=> c.preview = "ready")]_chainVars

(* Forwarding opens only after a shim apply that an operator approved has  *)
(* been recorded, and only on proofs no older than the ones that were the  *)
(* latest when its call began: evidence that was superseded before the     *)
(* call does not carry it.  (shimApplyEventCompletesForwardingReadiness,   *)
(* BuildExecutionForwardingV1ApplyGate)                                    *)
ForwardingIsGrounded ==
    \A k \in 1 .. Len(log) :
        LET c == call[log[k]] IN
        c.kind = "forwarding" =>
            /\ c.packet.approved
            /\ \E j \in 1 .. k - 1 : call[log[j]].kind = "shim" /\ call[log[j]].packet.approved
            /\ c.begin.path # None => c.packet.refs.path >= c.begin.path
            /\ c.begin.rollback # None => c.packet.refs.rollback >= c.begin.rollback

(* A version is marked as cut over exactly when a cutover call took        *)
(* effect, and a key never gets a second result: what a call returned for  *)
(* a key is what the ledger has for it.                                    *)
CutoverIsOnRecord ==
    /\ facts.cutOver <=> \E k \in 1 .. Len(log) : call[log[k]].kind = "cutover"
    /\ \A a \in Calls :
         call[a].kind # "gate" /\ call[a].result \in {"recorded", "applied", "already_applied", "blocked"} =>
             ledger[KeyOf(a)] = [request |-> call[a].packet, result |-> call[a].result]

(* Each change of ownership rests on the one before and is on record once:
   forwarding on an approved shim apply and current proofs, the cutover mark
   on a cutover call (ApplyExecutionForwardingV1, ApplyCutover).           *)
ChangesAreGrounded == TypeOK /\ ForwardingIsGrounded /\ CutoverIsOnRecord

==============================================================================
