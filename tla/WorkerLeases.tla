---------------------------- MODULE WorkerLeases ----------------------------
(***************************************************************************)
(* Workers, runs, run tasks and leases of one project, as kept in          *)
(* PostgreSQL by internal/project/worker.go, runner.go and run_control.go. *)
(*                                                                         *)
(* Every command is one database transaction, so it is one action here.    *)
(* Commands that return an error roll back and are no step at all, and so  *)
(* is the replay of a recorded command, which only reads.  Every writer    *)
(* that creates a run creates exactly one task with it, so a task is named *)
(* by its run.                                                             *)
(***************************************************************************)
EXTENDS Naturals, FiniteSets

CONSTANTS
    Workers,            \* worker keys
    Runs,               \* run rows, each with its only task
    LeaseIds,           \* lease rows
    Capabilities,       \* worker capabilities
    HeartbeatStatuses,  \* statuses a heartbeat reports
    Keys,               \* idempotency keys a client may choose
    FixtureRuns,        \* dry-run runs that the smoke fixtures set to 'queued'
    RecoverLimit,       \* RecoverLeasesOptions.Limit
    InlineRecoverLimit, \* the limit 50 of AcquireLease and RunWorkerOnce
    MaxAcquires,        \* bound on the lease.acquire commands
    MaxControls,        \* bound on the run control commands
    NoWorker, NoRun, NoLease,
    LostLease           \* a lease whose transaction was rolled back

(* A worker has no row, or the status it last registered or reported. *)
WorkerStatuses == {"none", "online", "offline"}

ASSUME ConstantsAssumption ==
    /\ HeartbeatStatuses \subseteq WorkerStatuses \ {"none"}
    /\ FixtureRuns \subseteq Runs
    /\ NoWorker \notin Workers
    /\ NoRun \notin Runs
    /\ NoLease \notin LeaseIds
    /\ LostLease \notin LeaseIds \cup {NoLease}
    /\ RecoverLimit \in Nat
    /\ InlineRecoverLimit \in Nat
    /\ MaxAcquires \in Nat
    /\ MaxControls \in Nat

VARIABLES
    worker,      \* workers: status and capabilities
    run,         \* runs: status and dry_run
    task,        \* run_tasks: status of the run's task
    lease,       \* leases
    acquired,    \* command_requests of type lease.acquire
    controlled,  \* command_requests of types run.start, run.drain, run.cancel
    attempts,    \* run_attempts of kind worker_run_once, with their artifact
    reportFile   \* artifact store: the report at workers/<worker>/<task>

vars == <<worker, run, task, lease, acquired, controlled, attempts, reportFile>>

-----------------------------------------------------------------------------
RunStatuses ==
    {"none", "queued", "running", "draining", "cancelling", "cancelled",
     "passed", "executed"}

(* "executed" stands for verified, artifact_written and rollback_verified,
   the terminal statuses of the execution commands.                        *)
TaskStatuses ==
    {"none", "queued", "leased", "needs_recovery", "passed", "cancelled",
     "cancel_requested", "executed"}

(* lease.release stores the status string it is sent.  The code compares a
   lease's status with these; "released", the default, stands for any other. *)
ReleaseStatuses == {"released", "completed", "needs_recovery", "active"}

LeaseStatuses == {"none"} \cup ReleaseStatuses

ControlActions == {"start", "drain", "cancel"}

(* An empty list of requested capabilities is replaced by a default one. *)
RequestedCapabilities == SUBSET Capabilities \ {{}}

(* What leaseAcquireRequestHash tells apart. *)
Requests ==
    [worker : Workers, task : Runs, caps : RequestedCapabilities,
     recover : BOOLEAN]

(* The default key of a lease.acquire is a function of its request. *)
AcquireKeys == Requests \cup Keys

ControlRequests == [action : ControlActions, run : Runs]

ControlKeys == ControlRequests \cup Keys

UnusedLease ==
    [status |-> "none", task |-> NoRun, worker |-> NoWorker, expired |-> FALSE,
     released |-> FALSE]

(* The rows the commands write stay within what the schema and the code of
   worker.go, runner.go and run_control.go know.                           *)
TypeOK ==
    /\ worker \in [Workers -> [status : WorkerStatuses,
                               caps : SUBSET Capabilities]]
    /\ run \in [Runs -> [status : RunStatuses, dry : BOOLEAN]]
    /\ task \in [Runs -> TaskStatuses]
    /\ lease \in [LeaseIds -> [status : LeaseStatuses,
                               task : Runs \cup {NoRun},
                               worker : Workers \cup {NoWorker},
                               expired : BOOLEAN, released : BOOLEAN]]
    /\ acquired \subseteq [key : AcquireKeys, req : Requests,
                           decision : {"allowed", "denied"},
                           lease : LeaseIds \cup {NoLease}]
    /\ controlled \subseteq [key : ControlKeys, req : ControlRequests,
                             decision : {"allowed", "denied"}]
    /\ attempts \subseteq [worker : Workers, task : Runs, lease : LeaseIds]
    /\ reportFile \in [Workers \X Runs -> LeaseIds \cup {NoLease, LostLease}]

-----------------------------------------------------------------------------
(* Rows of the leases table. *)
Active(ls, l) == ls[l].status = "active"

HasActiveLease(ls, t) == \E l \in LeaseIds : Active(ls, l) /\ ls[l].task = t

ActiveLeases == {l \in LeaseIds : Active(lease, l)}

(* Variant: expires_at is read without looking at the status. *)
ExpiredLeasesOfAnyStatus == {l \in LeaseIds : lease[l].expired}

ExpiredLeases == {l \in ActiveLeases : lease[l].expired}

(* recoverExpiredLeases: expired rows, at most the limit; rows another
   transaction has locked are skipped, so fewer may be taken.             *)
RecoverySets(limit) == {R \in SUBSET ExpiredLeases : Cardinality(R) <= limit}

Recovered(R) ==
    [l \in LeaseIds |->
        IF l \in R
          THEN [lease[l] EXCEPT !.status = "needs_recovery", !.released = TRUE]
          ELSE lease[l]]

(* insertLeaseForTask, under the unique index on active leases per task. *)
InsertLease(ls, l, w, t) ==
    [ls EXCEPT ![l] = [status |-> "active", task |-> t, worker |-> w,
                       expired |-> FALSE, released |-> FALSE]]

(* releaseLeaseForWorker, after its WHERE clause: the status as it is given,
   and released_at.                                                        *)
Released(ls, l, status) ==
    [ls EXCEPT ![l] = [@ EXCEPT !.status = status, !.released = TRUE]]

(* Variant: no unique index. *)
CanInsertLeaseUnchecked(ls, l, t) == ls[l].status = "none"

CanInsertLease(ls, l, t) ==
    /\ ls[l].status = "none"
    /\ ~HasActiveLease(ls, t)

(* Variant: the key is not looked up. *)
ReservedAgain(table, key, bound) == Cardinality(table) < bound

(* reserveCommandRequest created the row: its key was free. *)
Reserved(table, key, bound) ==
    /\ Cardinality(table) < bound
    /\ \A c \in table : c.key # key

MissingCapabilities(w, caps) == caps \ worker[w].caps

Registered(w) == worker[w].status # "none"

-----------------------------------------------------------------------------
Init ==
    /\ worker = [w \in Workers |-> [status |-> "none", caps |-> {}]]
    /\ run = [r \in Runs |->
                IF r \in FixtureRuns THEN [status |-> "queued", dry |-> TRUE]
                                     ELSE [status |-> "none", dry |-> FALSE]]
    /\ task = [r \in Runs |-> IF r \in FixtureRuns THEN "queued" ELSE "none"]
    /\ lease = [l \in LeaseIds |-> UnusedLease]
    /\ acquired = {}
    /\ controlled = {}
    /\ attempts = {}
    /\ reportFile = [p \in Workers \X Runs |-> NoLease]

RegisterWorker(w, caps) ==
    /\ worker' = [worker EXCEPT ![w] = [status |-> "online", caps |-> caps]]
    /\ UNCHANGED <<run, task, lease, acquired, controlled, attempts, reportFile>>

RecordWorkerHeartbeat(w, status) ==
    /\ Registered(w)
    /\ worker' = [worker EXCEPT ![w].status = status]
    /\ UNCHANGED <<run, task, lease, acquired, controlled, attempts, reportFile>>

(* A preview run is born 'passed', with a task that workers may still take. *)
PreviewRunner(r) ==
    /\ run[r].status = "none"
    /\ run' = [run EXCEPT ![r] = [status |-> "passed", dry |-> TRUE]]
    /\ task' = [task EXCEPT ![r] = "queued"]
    /\ UNCHANGED <<worker, lease, acquired, controlled, attempts, reportFile>>

(* The Queue commands of the five execution kinds. *)
QueueExecution(r) ==
    /\ run[r].status = "none"
    /\ run' = [run EXCEPT ![r] = [status |-> "queued", dry |-> FALSE]]
    /\ task' = [task EXCEPT ![r] = "queued"]
    /\ UNCHANGED <<worker, lease, acquired, controlled, attempts, reportFile>>

(* The clock passes expires_at. *)
Expire(l) ==
    /\ Active(lease, l)
    /\ ~lease[l].expired
    /\ lease' = [lease EXCEPT ![l].expired = TRUE]
    /\ UNCHANGED <<worker, run, task, acquired, controlled, attempts, reportFile>>

-----------------------------------------------------------------------------
AcquireLeaseDenied(req, key) ==
    /\ Reserved(acquired, key, MaxAcquires)
    /\ Registered(req.worker)
    /\ MissingCapabilities(req.worker, req.caps) # {}
    /\ acquired' = acquired \cup
         {[key |-> key, req |-> req, decision |-> "denied", lease |-> NoLease]}
    /\ UNCHANGED <<worker, run, task, lease, controlled, attempts, reportFile>>

(* Neither the task's status nor the run's, nor the worker's, is looked at.
   With recover, expired leases are closed first; their tasks are not.     *)
AcquireLease(req, key, R, l) ==
    /\ Reserved(acquired, key, MaxAcquires)
    /\ Registered(req.worker)
    /\ MissingCapabilities(req.worker, req.caps) = {}
    /\ R \in IF req.recover THEN RecoverySets(InlineRecoverLimit) ELSE {{}}
    /\ task[req.task] # "none"
    /\ CanInsertLease(Recovered(R), l, req.task)
    /\ lease' = InsertLease(Recovered(R), l, req.worker, req.task)
    /\ task' = [task EXCEPT ![req.task] = "leased"]
    /\ acquired' = acquired \cup
         {[key |-> key, req |-> req, decision |-> "allowed", lease |-> l]}
    /\ UNCHANGED <<worker, run, controlled, attempts, reportFile>>

(* The lease must still be active and the worker's own; whether it has
   expired is not looked at, nor is the task's status, nor what status is
   sent: released as 'active', the lease stays active without its task.    *)
ReleaseLease(w, l, status) ==
    /\ Active(lease, l)
    /\ lease[l].worker = w
    /\ lease' = Released(lease, l, status)
    /\ task' = [task EXCEPT ![lease[l].task] =
                  IF status = "completed" THEN "passed" ELSE "queued"]
    /\ UNCHANGED <<worker, run, acquired, controlled, attempts, reportFile>>

RecoverExpiredLeases(R) ==
    /\ R \in RecoverySets(RecoverLimit)
    /\ lease' = Recovered(R)
    /\ task' = [t \in Runs |-> IF \E l \in R : lease[l].task = t
                                 THEN "needs_recovery" ELSE task[t]]
    /\ UNCHANGED <<worker, run, acquired, controlled, attempts, reportFile>>

-----------------------------------------------------------------------------
(* nextDryRunTaskForLease among the runs asked for (one run, or all).  The
   query orders by age but skips locked rows, so any candidate may be it.  *)
DryRunCandidates(ls, asked) ==
    {t \in asked : /\ run[t].dry
                   /\ task[t] \in {"queued", "needs_recovery"}
                   /\ ~HasActiveLease(ls, t)}

AskedRuns == {Runs} \cup {{r} : r \in Runs}

(* Expired leases are closed, and their tasks stay as they were. *)
RunWorkerOnceIdle(w, caps, R, asked) ==
    /\ Registered(w)
    /\ MissingCapabilities(w, caps) = {}
    /\ R \in RecoverySets(InlineRecoverLimit)
    /\ DryRunCandidates(Recovered(R), asked) = {}
    /\ lease' = Recovered(R)
    /\ UNCHANGED <<worker, run, task, acquired, controlled, attempts, reportFile>>

(* Variant: the lease is not released at the end. *)
RunWorkerOnceKeepingLease(w, caps, R, asked, t, l) ==
    /\ Registered(w)
    /\ MissingCapabilities(w, caps) = {}
    /\ R \in RecoverySets(InlineRecoverLimit)
    /\ t \in DryRunCandidates(Recovered(R), asked)
    /\ CanInsertLease(Recovered(R), l, t)
    /\ lease' = InsertLease(Recovered(R), l, w, t)
    /\ task' = [task EXCEPT ![t] = "passed"]
    /\ attempts' = attempts \cup {[worker |-> w, task |-> t, lease |-> l]}
    /\ reportFile' = [reportFile EXCEPT ![<<w, t>>] = l]
    /\ UNCHANGED <<worker, run, acquired, controlled>>

(* One transaction leases, reports and completes the task.  The report file
   is written inside it, at a path made of the worker and the task.        *)
RunWorkerOnce(w, caps, R, asked, t, l) ==
    /\ Registered(w)
    /\ MissingCapabilities(w, caps) = {}
    /\ R \in RecoverySets(InlineRecoverLimit)
    /\ t \in DryRunCandidates(Recovered(R), asked)
    /\ CanInsertLease(Recovered(R), l, t)
    /\ lease' = Released(InsertLease(Recovered(R), l, w, t), l, "completed")
    /\ task' = [task EXCEPT ![t] = "passed"]
    /\ attempts' = attempts \cup {[worker |-> w, task |-> t, lease |-> l]}
    /\ reportFile' = [reportFile EXCEPT ![<<w, t>>] = l]
    /\ UNCHANGED <<worker, run, acquired, controlled>>

(* The same, rolled back after the file was written: the rows are gone and
   the file stays, naming a lease that never was.                          *)
RunWorkerOnceAborted(w, caps, R, asked, t) ==
    /\ Registered(w)
    /\ MissingCapabilities(w, caps) = {}
    /\ R \in RecoverySets(InlineRecoverLimit)
    /\ t \in DryRunCandidates(Recovered(R), asked)
    /\ reportFile' = [reportFile EXCEPT ![<<w, t>>] = LostLease]
    /\ UNCHANGED <<worker, run, task, lease, acquired, controlled, attempts>>

-----------------------------------------------------------------------------
(* evaluateRunControl: requests that find their work already done. *)
AlreadyDone(action, status) ==
    \/ action = "start" /\ status = "running"
    \/ action = "drain" /\ status = "draining"
    \/ action = "cancel" /\ status \in {"cancelled", "cancelling"}

ControlTransition ==
    {<<"start", "queued", "running">>,
     <<"drain", "running", "draining">>,
     <<"cancel", "queued", "cancelled">>,
     <<"cancel", "running", "cancelling">>,
     <<"cancel", "draining", "cancelling">>}

(* The statuses evaluateRunControl allows the request to set; none when it
   is denied.  Only dry-run runs change.                                   *)
ControlOutcomes(req) ==
    LET status == run[req.run].status
    IN  IF AlreadyDone(req.action, status) THEN {status}
        ELSE {s \in RunStatuses :
                /\ run[req.run].dry
                /\ <<req.action, status, s>> \in ControlTransition}

ControlRunDenied(req, key) ==
    /\ run[req.run].status # "none"
    /\ Reserved(controlled, key, MaxControls)
    /\ ControlOutcomes(req) = {}
    /\ controlled' = controlled \cup
         {[key |-> key, req |-> req, decision |-> "denied"]}
    /\ UNCHANGED <<worker, run, task, lease, acquired, attempts, reportFile>>

(* Variant: the task is forgotten. *)
CancelledTaskForgotten(action, status, old) == old

(* updateRunControlStatus: a cancel also settles the task, unless it is
   leased or finished.                                                     *)
CancelledTaskStatus(action, status, old) ==
    IF action = "cancel" /\ old \in {"queued", "needs_recovery"}
      THEN IF status = "cancelled" THEN "cancelled" ELSE "cancel_requested"
      ELSE old

ControlRun(req, key) ==
    /\ run[req.run].status # "none"
    /\ Reserved(controlled, key, MaxControls)
    /\ \E status \in ControlOutcomes(req) :
         /\ run' = [run EXCEPT ![req.run].status = status]
         /\ task' = [task EXCEPT ![req.run] =
                       CancelledTaskStatus(req.action, status, @)]
    /\ controlled' = controlled \cup
         {[key |-> key, req |-> req, decision |-> "allowed"]}
    /\ UNCHANGED <<worker, lease, acquired, attempts, reportFile>>

-----------------------------------------------------------------------------
AcquireStep ==
    \E req \in Requests, key \in AcquireKeys :
        /\ key \in Requests => key = req
        /\ \/ AcquireLeaseDenied(req, key)
           \/ \E R \in SUBSET LeaseIds, l \in LeaseIds :
                AcquireLease(req, key, R, l)

RunOnceStep ==
    \E w \in Workers, caps \in RequestedCapabilities,
       R \in SUBSET LeaseIds, asked \in AskedRuns :
        \/ RunWorkerOnceIdle(w, caps, R, asked)
        \/ \E t \in Runs, l \in LeaseIds : RunWorkerOnce(w, caps, R, asked, t, l)
        \/ \E t \in Runs : RunWorkerOnceAborted(w, caps, R, asked, t)

ControlStep ==
    \E req \in ControlRequests, key \in ControlKeys :
        /\ key \in ControlRequests => key = req
        /\ ControlRunDenied(req, key) \/ ControlRun(req, key)

Next ==
    \/ \E w \in Workers, caps \in SUBSET Capabilities : RegisterWorker(w, caps)
    \/ \E w \in Workers, status \in HeartbeatStatuses :
         RecordWorkerHeartbeat(w, status)
    \/ \E r \in Runs : PreviewRunner(r) \/ QueueExecution(r)
    \/ \E l \in LeaseIds : Expire(l)
    \/ AcquireStep
    \/ \E w \in Workers, l \in LeaseIds, status \in ReleaseStatuses :
         ReleaseLease(w, l, status)
    \/ \E R \in SUBSET LeaseIds : RecoverExpiredLeases(R)
    \/ RunOnceStep
    \/ ControlStep

Spec == Init /\ [][Next]_vars
-----------------------------------------------------------------------------
(* At most one active lease per run task, whatever workers acquire, poll,
   release and recover: the index leases_active_run_task_idx.             *)
OneActiveLeasePerTask ==
    \A k, l \in LeaseIds :
        /\ Active(lease, k)
        /\ Active(lease, l)
        /\ lease[k].task = lease[l].task
        => k = l

(* While a lease is active and its holder has not given it back, its task is
   'leased': no command of another worker, no recovery of an older lease and
   no run control moves the task under the holder's feet.                  *)
ActiveLeaseHoldsTask ==
    \A l \in LeaseIds :
        Active(lease, l) /\ ~lease[l].released => task[lease[l].task] = "leased"

(* A lease is exclusive: nobody else holds the task, and nothing moves it. *)
LeaseIsExclusive == OneActiveLeasePerTask /\ ActiveLeaseHoldsTask

(* A 'leased' task without a holder was left behind by a lease that expired:
   a release always gives the task another status.                         *)
LeasedTaskAccounted ==
    \A t \in Runs : task[t] = "leased" =>
        \E l \in LeaseIds : /\ lease[l].task = t
                            /\ lease[l].status \in {"active", "needs_recovery"}

(* A task is 'passed' only when some lease on it was completed: neither
   recovery nor run control passes a task.                                 *)
PassedTaskWasCompleted ==
    \A t \in Runs : task[t] = "passed" =>
        \E l \in LeaseIds : lease[l].task = t /\ lease[l].status = "completed"

(* lease.acquire is idempotent: a key has one outcome, an allowed outcome is
   a lease of the worker and task it asked for, and no two keys share it.  *)
AcquireExactlyOnce ==
    \A c, d \in acquired :
        /\ c.key = d.key => c = d
        /\ c.decision = "allowed" =>
             /\ lease[c.lease].worker = c.req.worker
             /\ lease[c.lease].task = c.req.task
        /\ c.decision = "allowed" /\ c.lease = d.lease => c = d

AttemptHasLease(a) ==
    /\ lease[a.lease].status = "completed"
    /\ lease[a.lease].worker = a.worker
    /\ lease[a.lease].task = a.task

AttemptHasReport(a) == reportFile[<<a.worker, a.task>>] # NoLease

(* Every worker_run_once attempt is backed by its own completed lease and by
   a report in the artifact store, though the file is written outside the
   transaction.                                                            *)
AttemptsBackedByLeases ==
    \A a \in attempts : AttemptHasLease(a) /\ AttemptHasReport(a)

(* Run control reaches dry-run runs only: an execution run that was queued
   is never started, drained or cancelled by it.                           *)
ExecutionRunsUncontrolled ==
    \A r \in Runs \ FixtureRuns :
        run[r].status \in {"none", "queued", "passed", "executed"}

(* Cancelling a queued run settles its task; only a lease granted on the
   task, before or after, can leave it in another status.                  *)
CancelledRunSettlesTask ==
    \A r \in Runs : run[r].status = "cancelled" =>
        \/ task[r] = "cancelled"
        \/ \E l \in LeaseIds : lease[l].task = r

RowKept(l) ==
    lease[l].status # "none" =>
        /\ lease'[l].task = lease[l].task
        /\ lease'[l].worker = lease[l].worker
        /\ lease[l].status # "active" => lease'[l] = lease[l]
        /\ lease[l].released => lease'[l].released

(* A lease that left 'active' is history: its row never changes again.  An
   active one keeps its worker and its task, and once its holder gave it
   back it is not held again.                                              *)
LeaseHistoryKept == [][\A l \in LeaseIds : RowKept(l)]_vars

-----------------------------------------------------------------------------
(* What the documents say and the code does not do. *)

(* A task is 'leased' only while a worker holds it; when the lease expires
   the task goes to 'needs_recovery' with it.                              *)
LeasedTaskHasHolder ==
    \A t \in Runs : task[t] = "leased" => HasActiveLease(lease, t)

=============================================================================
