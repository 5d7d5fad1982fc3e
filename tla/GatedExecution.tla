--------------------------- MODULE GatedExecution ---------------------------
(***************************************************************************)
(* The approval-gated execution commands: VerifyReadOnly, ExecuteFixture,  *)
(* WriteApprovedArtifact, WriteFixtureProject and WriteManagedGenerated.   *)
(*                                                                         *)
(* All five evaluate ExecutionApprovalGate with a series of queries, and   *)
(* only then begin the transaction that claims and finishes the task.      *)
(* Workers and leases go on as in WorkerLeases, and approvals as in        *)
(* ApprovalState, which WorkflowApproval implements.                       *)
(***************************************************************************)
EXTENDS WorkerLeases, Sequences

CONSTANTS
    Clients,     \* callers of the execution commands
    ApplyKeys,   \* idempotency keys they may choose
    MaxApplies,  \* bound on the execution commands
    NoCall

VARIABLES
    decision, approvalGate, liveGate, everApproved,  \* as in ApprovalState
    call,        \* the execution command each client is in
    applied,     \* command_requests of the execution commands
    executions   \* run_attempts of the execution commands

ASSUME ExecutionAssumption ==
    MaxApplies \in Nat

Approval == INSTANCE ApprovalState

approvalVars == <<decision, approvalGate, liveGate, everApproved>>

executionVars == <<call, applied, executions>>

allVars == <<vars, approvalVars, executionVars>>

ApplyRequests == [worker : Workers, run : Runs, caps : RequestedCapabilities]

(* The default key of a command is a function of its request. *)
ExecutionKeys == ApplyRequests \cup ApplyKeys

(* The queries of ExecutionApprovalGate, in their order. *)
Facts == <<"run", "tasks", "approval", "approval_gate", "live_mapping_gate",
           "engine", "workers">>

Read == Len(Facts)

(* Calls, command rows and attempts are what the execution commands make of
   the rows of WorkerLeases.                                               *)
ExecutionTypeOK ==
    /\ TypeOK
    /\ Approval!TypeOK
    /\ call \in [Clients -> {NoCall} \cup
                   [req : ApplyRequests, key : ExecutionKeys,
                    read : 0..Read, pass : BOOLEAN]]
    /\ applied \subseteq [key : ExecutionKeys, req : ApplyRequests,
                          decision : {"allowed", "denied"}]
    /\ executions \subseteq [run : Runs, worker : Workers, lease : LeaseIds,
                             key : ExecutionKeys]

-----------------------------------------------------------------------------
ExecutionInit ==
    /\ Init
    /\ Approval!Init
    /\ call = [c \in Clients |-> NoCall]
    /\ applied = {}
    /\ executions = {}

(* The items of BuildExecutionApprovalGate that a query decides.  The engine
   preview is another component's answer, skipped by all but ExecuteFixture. *)
GateFacts(fact, req) ==
    CASE fact = "run" -> {run[req.run].status = "queued" /\ ~run[req.run].dry}
      [] fact = "tasks" -> {task[req.run] = "queued"}
      [] fact = "approval" -> {decision = "approved"}
      [] fact = "approval_gate" -> {approvalGate = "pass"}
      [] fact = "live_mapping_gate" -> {liveGate = "pass"}
      [] fact = "engine" -> BOOLEAN
      [] fact = "workers" ->
           {\E w \in Workers : /\ worker[w].status = "online"
                               /\ MissingCapabilities(w, req.caps) = {}}

InCall(c) == call[c] # NoCall

CallEnds(c) == call' = [call EXCEPT ![c] = NoCall]

(* A command starts, outside any transaction. *)
CallExecution(c, req, key) ==
    /\ ~InCall(c)
    /\ run[req.run].status # "none"
    /\ Cardinality(applied) + Cardinality({d \in Clients : InCall(d)}) < MaxApplies
    /\ call' = [call EXCEPT ![c] = [req |-> req, key |-> key, read |-> 0, pass |-> TRUE]]
    /\ UNCHANGED <<vars, approvalVars, applied, executions>>

(* One blocked item blocks the gate, whatever the later queries say. *)
ReadFact(c) ==
    /\ InCall(c)
    /\ call[c].read < Read
    /\ call[c].pass
    /\ \E holds \in GateFacts(Facts[call[c].read + 1], call[c].req) :
         call' = [call EXCEPT ![c].read = @ + 1, ![c].pass = @ /\ holds]
    /\ UNCHANGED <<vars, approvalVars, applied, executions>>

GateRead(c) == InCall(c) /\ (call[c].read = Read \/ ~call[c].pass)

(* reserveCommandRequest found the command: its answer is read back. *)
ReplayExecution(c) ==
    /\ GateRead(c)
    /\ Registered(call[c].req.worker)
    /\ \E a \in applied : a.key = call[c].key /\ a.req = call[c].req
    /\ CallEnds(c)
    /\ UNCHANGED <<vars, approvalVars, applied, executions>>

(* Variant: the run may have finished already. *)
NextTaskOfAnyRun(r) ==
    /\ ~run[r].dry
    /\ task[r] \in {"queued", "needs_recovery"}
    /\ ~HasActiveLease(lease, r)

(* nextFixtureExecutionTaskForLease and its like. *)
NextTaskForLease(r) ==
    /\ ~run[r].dry
    /\ run[r].status = "queued"
    /\ task[r] \in {"queued", "needs_recovery"}
    /\ ~HasActiveLease(lease, r)

Allows(c) ==
    /\ call[c].pass
    /\ MissingCapabilities(call[c].req.worker, call[c].req.caps) = {}
    /\ NextTaskForLease(call[c].req.run)

ReservesKey(c) ==
    /\ GateRead(c)
    /\ Registered(call[c].req.worker)
    /\ \A a \in applied : a.key # call[c].key

(* Variant: a denial is recorded as allowed. *)
CommandRowAllowed(c, outcome) ==
    [key |-> call[c].key, req |-> call[c].req, decision |-> "allowed"]

CommandRow(c, outcome) ==
    [key |-> call[c].key, req |-> call[c].req, decision |-> outcome]

(* A denial is committed under the key too.  Project permissions and the
   checks of the file to be read or written may deny what the rest allows. *)
DenyExecution(c, permitted) ==
    /\ ReservesKey(c)
    /\ ~(Allows(c) /\ permitted)
    /\ applied' = applied \cup {CommandRow(c, "denied")}
    /\ CallEnds(c)
    /\ UNCHANGED <<vars, approvalVars, executions>>

(* One transaction, with the run's row locked: lease, attempt, completed
   lease, finished task, finished run.  ExecuteFixture leaves both 'passed',
   the others a status of their own.                                      *)
Execute(c, l, done) ==
    LET req == call[c].req
    IN  /\ ReservesKey(c)
        /\ Allows(c)
        /\ CanInsertLease(lease, l, req.run)
        /\ lease' = Released(InsertLease(lease, l, req.worker, req.run), l, "completed")
        /\ task' = [task EXCEPT ![req.run] = done]
        /\ run' = [run EXCEPT ![req.run].status = done]
        /\ applied' = applied \cup {CommandRow(c, "allowed")}
        /\ executions' = executions \cup
             {[run |-> req.run, worker |-> req.worker, lease |-> l, key |-> call[c].key]}
        /\ CallEnds(c)
        /\ UNCHANGED <<worker, acquired, controlled, attempts, reportFile, approvalVars>>

(* An error before the commit: nothing is left. *)
AbortExecution(c) ==
    /\ InCall(c)
    /\ CallEnds(c)
    /\ UNCHANGED <<vars, approvalVars, applied, executions>>

ExecutionStep ==
    \E c \in Clients :
        \/ \E req \in ApplyRequests, key \in ExecutionKeys :
             (key \in ApplyRequests => key = req) /\ CallExecution(c, req, key)
        \/ ReadFact(c)
        \/ ReplayExecution(c)
        \/ \E permitted \in BOOLEAN : DenyExecution(c, permitted)
        \/ \E l \in LeaseIds, done \in {"passed", "executed"} : Execute(c, l, done)
        \/ AbortExecution(c)

ExecutionNext ==
    \/ Next /\ UNCHANGED <<approvalVars, executionVars>>
    \/ Approval!Next /\ UNCHANGED <<vars, executionVars>>
    \/ ExecutionStep

ExecutionSpec == ExecutionInit /\ [][ExecutionNext]_allVars

-----------------------------------------------------------------------------
(* A run is executed at most once, however many callers hold a passed gate
   and whatever leases do to its task in the meantime.                     *)
ExecutedAtMostOnce ==
    \A e, f \in executions : e.run = f.run => e = f

(* The finished execution runs are those with an attempt, the attempt's
   lease is completed and is its worker's, its command was allowed, and
   somebody had approved.                                                  *)
ExecutionAccounted ==
    /\ \A r \in Runs : ~run[r].dry =>
         (run[r].status \in {"passed", "executed"} <=> \E e \in executions : e.run = r)
    /\ \A e \in executions :
         /\ lease[e.lease].status = "completed"
         /\ lease[e.lease].worker = e.worker
         /\ lease[e.lease].task = e.run
    /\ \A a \in applied :
         a.decision = "allowed" <=> \E e \in executions : e.key = a.key
    /\ executions # {} => everApproved

=============================================================================
