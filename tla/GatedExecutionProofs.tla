------------------------ MODULE GatedExecutionProofs ------------------------
(***************************************************************************)
(* What leases and the executions gated by approvals keep, for every set   *)
(* of workers, runs, leases, keys and callers and every limit.  None of the *)
(* safety invariants is inductive by itself: LeaseInv adds what the rows   *)
(* of one table say about another.  The execution commands keep all that   *)
(* WorkerLeases promises, so ExecutionInv begins with LeaseInv; the rest   *)
(* says what a call that has read part of its gate may still rely on.      *)
(***************************************************************************)
EXTENDS GatedExecution, TLAPS

(***************************************************************************)
(* Leases.                                                                 *)
(***************************************************************************)

(* A lease that was granted names its worker and its task, and the task
   exists.                                                                 *)
LeasesNamed ==
    \A l \in LeaseIds :
        IF lease[l].status = "none"
          THEN lease[l].task = NoRun
          ELSE /\ lease[l].task \in Runs
               /\ lease[l].worker \in Workers
               /\ task[lease[l].task] # "none"

(* An allowed lease.acquire names a lease that was granted. *)
AcquiresNamed ==
    \A c \in acquired :
        IF c.decision = "allowed"
          THEN c.lease \in LeaseIds /\ lease[c.lease].status # "none"
          ELSE c.lease = NoLease

(* A run and its task are created together; which statuses of the task go
   with which of the run; a dry run no fixture made is born 'passed'.      *)
RunsMatchTasks ==
    /\ \A r \in Runs :
         /\ run[r].status = "none" <=> task[r] = "none"
         /\ task[r] = "cancel_requested" => run[r].status = "cancelling"
         /\ task[r] = "executed" => ~run[r].dry
    /\ \A r \in Runs \ FixtureRuns :
         run[r].dry => run[r].status \in {"none", "passed"}

RowsWellFormed == LeasesNamed /\ AcquiresNamed /\ RunsMatchTasks

LeaseInv ==
    /\ TypeOK
    /\ RowsWellFormed
    /\ OneActiveLeasePerTask
    /\ ActiveLeaseHoldsTask
    /\ LeasedTaskAccounted
    /\ PassedTaskWasCompleted
    /\ AcquireExactlyOnce
    /\ AttemptsBackedByLeases
    /\ ExecutionRunsUncontrolled
    /\ CancelledRunSettlesTask

LeaseRows ==
    [status : LeaseStatuses, task : Runs \cup {NoRun},
     worker : Workers \cup {NoWorker}, expired : BOOLEAN, released : BOOLEAN]

-----------------------------------------------------------------------------
(* recoverExpiredLeases turns some active leases into 'needs_recovery', sets
   their released_at, and leaves every other column and row alone.         *)
LEMMA RecoveredRows ==
    ASSUME TypeOK, NEW limit, NEW R \in RecoverySets(limit)
    PROVE  /\ Recovered(R) \in [LeaseIds -> LeaseRows]
           /\ R \subseteq LeaseIds
           /\ \A l \in LeaseIds :
                /\ Recovered(R)[l].task = lease[l].task
                /\ Recovered(R)[l].worker = lease[l].worker
                /\ l \in R => /\ lease[l].status = "active"
                              /\ Recovered(R)[l].status = "needs_recovery"
                              /\ Recovered(R)[l].released
                /\ l \notin R => Recovered(R)[l] = lease[l]
  <1> DEFINE closed(l) ==
               [lease[l] EXCEPT !.status = "needs_recovery", !.released = TRUE]
  <1>1. /\ lease \in [LeaseIds -> LeaseRows]
        /\ R \subseteq LeaseIds
        /\ \A l \in R : lease[l].status = "active"
    BY Zenon DEF TypeOK, LeaseRows, RecoverySets, ExpiredLeases, ActiveLeases, Active
  <1>2. Recovered(R) = [l \in LeaseIds |-> IF l \in R THEN closed(l) ELSE lease[l]]
    BY Zenon DEF Recovered
  <1>3. ASSUME NEW l \in LeaseIds
        PROVE  /\ closed(l) \in LeaseRows
               /\ closed(l).task = lease[l].task
               /\ closed(l).worker = lease[l].worker
               /\ closed(l).status = "needs_recovery"
               /\ closed(l).released
    BY <1>1, Zenon DEF LeaseRows, LeaseStatuses, ReleaseStatuses
  <1> HIDE DEF closed
  <1> QED
    BY <1>1, <1>2, <1>3, Zenon

(* The empty set counts zero, by the definition of Cardinality. *)
LEMMA EmptyCount == Cardinality({}) = 0
  <1> DEFINE Counts(f) ==
          f = [T \in SUBSET {} |->
                 IF T = {} THEN 0 ELSE 1 + f[T \ {CHOOSE x : x \in T}]]
  <1>1. Counts([T \in SUBSET {} |-> 0])
    BY Zenon
  <1>2. Counts(CHOOSE f : Counts(f))
    BY <1>1, Zenon
  <1>3. Cardinality({}) = (CHOOSE f : Counts(f))[{}]
    BY Zenon DEF Cardinality
  <1> QED
    BY <1>2, <1>3, Zenon

(* The same for the recovery that lease.acquire may be asked to do first. *)
LEMMA NoRecovery ==
    ASSUME TypeOK
    PROVE  {} \in RecoverySets(InlineRecoverLimit)
  <1>1. Cardinality({}) = 0 /\ 0 <= InlineRecoverLimit
    BY EmptyCount, ConstantsAssumption
  <1> QED
    BY <1>1, Zenon DEF RecoverySets

-----------------------------------------------------------------------------
(* The invariant holds when the project has no worker and no run but the
   fixtures'.                                                              *)
LEMMA InitInv == Init => LeaseInv
  <1> SUFFICES ASSUME Init PROVE LeaseInv
    BY Zenon
  <1>1. TypeOK
    BY ConstantsAssumption, Zenon DEF Init, TypeOK, WorkerStatuses, RunStatuses,
       TaskStatuses, LeaseStatuses, UnusedLease
  <1>2. RowsWellFormed
    BY ConstantsAssumption, Zenon DEF Init, RowsWellFormed, LeasesNamed, AcquiresNamed,
       RunsMatchTasks, UnusedLease
  <1>3. /\ OneActiveLeasePerTask
        /\ ActiveLeaseHoldsTask
        /\ LeasedTaskAccounted
        /\ PassedTaskWasCompleted
        /\ AcquireExactlyOnce
        /\ AttemptsBackedByLeases
        /\ ExecutionRunsUncontrolled
        /\ CancelledRunSettlesTask
    BY Zenon DEF Init, UnusedLease, Active, OneActiveLeasePerTask,
       ActiveLeaseHoldsTask, LeasedTaskAccounted, PassedTaskWasCompleted,
       AcquireExactlyOnce, AttemptsBackedByLeases, AttemptHasLease,
       AttemptHasReport, ExecutionRunsUncontrolled,
       CancelledRunSettlesTask
  <1> QED
    BY <1>1, <1>2, <1>3, Zenon DEF LeaseInv

(* Every lease that was granted keeps its worker and task, and stays
   'completed' once it is.                                                 *)
LeasesEndure ==
    \A k \in LeaseIds : lease[k].status # "none" =>
        /\ lease'[k].task = lease[k].task
        /\ lease'[k].worker = lease[k].worker
        /\ lease'[k].status # "none"
        /\ lease[k].status = "completed" => lease'[k].status = "completed"

(* The rows of lease.acquire are as good as before as long as leases endure. *)
LEMMA AcquiresKept ==
    ASSUME LeaseInv, LeasesEndure, acquired' = acquired
    PROVE  AcquiresNamed' /\ AcquireExactlyOnce'
  <1>1. ASSUME NEW c \in acquired, c.decision = "allowed"
        PROVE  /\ c.lease \in LeaseIds
               /\ lease'[c.lease].status # "none"
               /\ lease'[c.lease].worker = lease[c.lease].worker
               /\ lease'[c.lease].task = lease[c.lease].task
    <2>1. c.lease \in LeaseIds /\ lease[c.lease].status # "none"
      BY <1>1, Zenon DEF LeaseInv, RowsWellFormed, AcquiresNamed
    <2> QED
      BY <2>1, Zenon DEF LeasesEndure
  <1>2. AcquiresNamed'
    BY <1>1, Zenon DEF LeaseInv, RowsWellFormed, AcquiresNamed
  <1>3. AcquireExactlyOnce'
    BY <1>1 DEF LeaseInv, AcquireExactlyOnce
  <1> QED
    BY <1>2, <1>3, Zenon

(* An attempt keeps its lease as long as leases endure. *)
LEMMA AttemptLeasesKept ==
    ASSUME LeaseInv, LeasesEndure
    PROVE  \A a \in attempts : AttemptHasLease(a)'
  <1> SUFFICES ASSUME NEW a \in attempts PROVE AttemptHasLease(a)'
    BY Zenon
  <1>1. a.lease \in LeaseIds
    BY Zenon DEF LeaseInv, TypeOK
  <1>2. /\ lease[a.lease].status = "completed"
        /\ lease[a.lease].worker = a.worker
        /\ lease[a.lease].task = a.task
    BY Zenon DEF LeaseInv, AttemptsBackedByLeases, AttemptHasLease
  <1> QED
    BY <1>1, <1>2, Zenon DEF LeasesEndure, AttemptHasLease

(* An attempt keeps its report as long as no report is removed. *)
LEMMA AttemptReportsKept ==
    ASSUME LeaseInv,
           \A p \in Workers \X Runs :
               reportFile[p] # NoLease => reportFile'[p] # NoLease
    PROVE  \A a \in attempts : AttemptHasReport(a)'
  <1> SUFFICES ASSUME NEW a \in attempts PROVE reportFile'[<<a.worker, a.task>>] # NoLease
    BY Zenon DEF AttemptHasReport
  <1>1. <<a.worker, a.task>> \in Workers \X Runs
    BY Zenon DEF LeaseInv, TypeOK
  <1>2. reportFile[<<a.worker, a.task>>] # NoLease
    BY Zenon DEF LeaseInv, AttemptsBackedByLeases, AttemptHasReport
  <1> QED
    BY <1>1, <1>2, Zenon

(* Commands that neither add attempts nor touch reports keep them backed. *)
LEMMA AttemptsKept ==
    ASSUME LeaseInv, LeasesEndure, UNCHANGED <<attempts, reportFile>>
    PROVE  AttemptsBackedByLeases'
  <1>1. \A a \in attempts : AttemptHasLease(a)'
    BY AttemptLeasesKept, Zenon
  <1>2. \A a \in attempts : AttemptHasReport(a)'
    BY AttemptReportsKept, Zenon
  <1> QED
    BY <1>1, <1>2, Zenon DEF AttemptsBackedByLeases

(* A command that leaves runs and tasks alone, and of a lease at most its
   expiry, keeps all that is said of them.                                 *)
LEMMA TablesKept ==
    ASSUME LeaseInv, UNCHANGED <<run, task>>,
           \A k \in LeaseIds : /\ lease'[k].status = lease[k].status
                               /\ lease'[k].task = lease[k].task
                               /\ lease'[k].worker = lease[k].worker
                               /\ lease'[k].released = lease[k].released
    PROVE  /\ LeasesEndure
           /\ LeasesNamed' /\ RunsMatchTasks'
           /\ OneActiveLeasePerTask' /\ ActiveLeaseHoldsTask'
           /\ LeasedTaskAccounted' /\ PassedTaskWasCompleted'
           /\ ExecutionRunsUncontrolled' /\ CancelledRunSettlesTask'
  <1>1. LeasesEndure
    BY Zenon DEF LeasesEndure
  <1>2. LeasesNamed'
    BY Zenon DEF LeaseInv, RowsWellFormed, LeasesNamed
  <1>3. RunsMatchTasks'
    BY Zenon DEF LeaseInv, RowsWellFormed, RunsMatchTasks
  <1>4. OneActiveLeasePerTask'
    BY DEF LeaseInv, OneActiveLeasePerTask, Active
  <1>5. ActiveLeaseHoldsTask'
    BY Zenon DEF LeaseInv, ActiveLeaseHoldsTask, Active
  <1>6. LeasedTaskAccounted'
    BY DEF LeaseInv, LeasedTaskAccounted
  <1>7. PassedTaskWasCompleted'
    BY DEF LeaseInv, PassedTaskWasCompleted
  <1>8. ExecutionRunsUncontrolled'
    BY Zenon DEF LeaseInv, ExecutionRunsUncontrolled
  <1>9. CancelledRunSettlesTask'
    BY DEF LeaseInv, CancelledRunSettlesTask
  <1> QED
    BY <1>1, <1>2, <1>3, <1>4, <1>5, <1>6, <1>7, <1>8, <1>9, Zenon

(* Registering a worker and its heartbeats touch the workers table only. *)
LEMMA WorkerStepInv ==
    ASSUME LeaseInv, NEW w \in Workers,
           \/ \E caps \in SUBSET Capabilities : RegisterWorker(w, caps)
           \/ \E status \in HeartbeatStatuses : RecordWorkerHeartbeat(w, status)
    PROVE  LeaseInv'
  <1>1. UNCHANGED <<run, task, lease, acquired, controlled, attempts, reportFile>>
    BY Zenon DEF RegisterWorker, RecordWorkerHeartbeat
  <1>2. TypeOK'
    <2>1. worker \in [Workers -> [status : WorkerStatuses,
                                  caps : SUBSET Capabilities]]
      BY Zenon DEF LeaseInv, TypeOK
    <2>2. ASSUME NEW caps \in SUBSET Capabilities, RegisterWorker(w, caps)
          PROVE  worker' \in [Workers -> [status : WorkerStatuses,
                                          caps : SUBSET Capabilities]]
      BY <2>1, <2>2, Zenon DEF RegisterWorker, WorkerStatuses
    <2>3. ASSUME NEW status \in HeartbeatStatuses, RecordWorkerHeartbeat(w, status)
          PROVE  worker' \in [Workers -> [status : WorkerStatuses,
                                          caps : SUBSET Capabilities]]
      <3>1. status \in WorkerStatuses
        BY ConstantsAssumption, Zenon
      <3> QED
        BY <2>1, <2>3, <3>1 DEF RecordWorkerHeartbeat
    <2> QED
      BY <1>1, <2>2, <2>3, Zenon DEF LeaseInv, TypeOK
  <1> QED
    BY <1>1, <1>2, TablesKept, AcquiresKept, AttemptsKept, Zenon DEF LeaseInv, RowsWellFormed

(* A new run comes with its task, and no lease knows either. *)
LEMMA CreateRunInv ==
    ASSUME LeaseInv, NEW r \in Runs, PreviewRunner(r) \/ QueueExecution(r)
    PROVE  LeaseInv'
  <1>1. /\ UNCHANGED <<worker, lease, acquired, controlled, attempts, reportFile>>
        /\ run[r].status = "none" /\ task[r] = "none"
        /\ task' = [task EXCEPT ![r] = "queued"]
        /\ \/ run' = [run EXCEPT ![r] = [status |-> "passed", dry |-> TRUE]]
           \/ run' = [run EXCEPT ![r] = [status |-> "queued", dry |-> FALSE]]
    BY Zenon DEF LeaseInv, RowsWellFormed, RunsMatchTasks, PreviewRunner, QueueExecution
  <1>2. TypeOK'
    <2>1. run' \in [Runs -> [status : RunStatuses, dry : BOOLEAN]]
      <3>1. run \in [Runs -> [status : RunStatuses, dry : BOOLEAN]]
        BY Zenon DEF LeaseInv, TypeOK
      <3>2. /\ [status |-> "passed", dry |-> TRUE] \in
                 [status : RunStatuses, dry : BOOLEAN]
            /\ [status |-> "queued", dry |-> FALSE] \in
                 [status : RunStatuses, dry : BOOLEAN]
        BY Zenon DEF RunStatuses
      <3> QED
        BY <1>1, <3>1, <3>2, Zenon
    <2>2. task' \in [Runs -> TaskStatuses]
      BY <1>1, Zenon DEF LeaseInv, TypeOK, TaskStatuses
    <2> QED
      BY <1>1, <2>1, <2>2, Zenon DEF LeaseInv, TypeOK
  <1>3. RowsWellFormed'
    <2>1. \A k \in Runs : k # r => run'[k] = run[k] /\ task'[k] = task[k]
      BY <1>1, Zenon DEF LeaseInv, TypeOK
    <2>2. /\ task'[r] = "queued"
          /\ \/ run'[r] = [status |-> "passed", dry |-> TRUE]
             \/ run'[r] = [status |-> "queued", dry |-> FALSE]
      BY <1>1, Zenon DEF LeaseInv, TypeOK
    <2> QED
      BY <1>1, <2>1, <2>2
         DEF LeaseInv, RowsWellFormed, LeasesNamed, AcquiresNamed, RunsMatchTasks
  <1>4. ActiveLeaseHoldsTask' /\ LeasedTaskAccounted' /\ PassedTaskWasCompleted'
    BY <1>1 DEF LeaseInv, TypeOK, RowsWellFormed, LeasesNamed, Active,
       ActiveLeaseHoldsTask,
       LeasedTaskAccounted, PassedTaskWasCompleted
  <1>5. ExecutionRunsUncontrolled' /\ CancelledRunSettlesTask'
    <2>1. ExecutionRunsUncontrolled'
      BY SMTT(30), <1>1 DEF LeaseInv, TypeOK, ExecutionRunsUncontrolled
    <2>2. CancelledRunSettlesTask'
      BY <1>1 DEF LeaseInv, TypeOK, CancelledRunSettlesTask
    <2> QED
      BY <2>1, <2>2, Zenon
  <1>6. OneActiveLeasePerTask'
    BY <1>1, Zenon DEF LeaseInv, OneActiveLeasePerTask, Active
  <1>7. AcquireExactlyOnce' /\ AttemptsBackedByLeases'
    <2>1. LeasesEndure
      BY <1>1, Zenon DEF LeasesEndure
    <2> QED
      BY <1>1, <2>1, AcquiresKept, AttemptsKept, Zenon
  <1> QED
    BY <1>2, <1>3, <1>4, <1>5, <1>6, <1>7, Zenon DEF LeaseInv

(* Time makes a lease old, nothing else. *)
LEMMA ExpireInv ==
    ASSUME LeaseInv, NEW l \in LeaseIds, Expire(l)
    PROVE  LeaseInv'
  <1>1. /\ UNCHANGED <<worker, run, task, acquired, controlled, attempts, reportFile>>
        /\ lease' \in [LeaseIds -> LeaseRows]
        /\ \A k \in LeaseIds : /\ lease'[k].status = lease[k].status
                               /\ lease'[k].task = lease[k].task
                               /\ lease'[k].worker = lease[k].worker
                               /\ lease'[k].released = lease[k].released
    BY ZenonT(30) DEF LeaseInv, TypeOK, Expire, LeaseRows
  <1>2. TypeOK'
    BY <1>1, Zenon DEF LeaseInv, TypeOK, LeaseRows
  <1> QED
    BY <1>1, <1>2, TablesKept, AcquiresKept, AttemptsKept, Zenon DEF LeaseInv, RowsWellFormed

-----------------------------------------------------------------------------
(* A lease as it is granted, or granted and completed in one transaction. *)
GrantedRow(w, t, status) ==
    LET new == [status |-> "active", task |-> t, worker |-> w, expired |-> FALSE,
                released |-> FALSE]
    IN  IF status = "active" THEN new
        ELSE [new EXCEPT !.status = "completed", !.released = TRUE]

(* Both are rows of the leases table. *)
LEMMA GrantedRowType ==
    ASSUME NEW w \in Workers, NEW t \in Runs, NEW status \in {"active", "completed"}
    PROVE  /\ GrantedRow(w, t, status) \in LeaseRows
           /\ GrantedRow(w, t, status).status = status
           /\ GrantedRow(w, t, status).task = t
           /\ GrantedRow(w, t, status).worker = w
  BY Zenon DEF GrantedRow, LeaseRows, LeaseStatuses, ReleaseStatuses

(* insertLeaseForTask writes the one, *)
LEMMA InsertedRow ==
    ASSUME NEW ls, NEW l, NEW w, NEW t
    PROVE  InsertLease(ls, l, w, t) = [ls EXCEPT ![l] = GrantedRow(w, t, "active")]
  BY Zenon DEF InsertLease, GrantedRow

(* and with releaseLeaseForWorker after it the other. *)
LEMMA CompletedRow ==
    ASSUME NEW ls \in [LeaseIds -> LeaseRows], NEW l \in LeaseIds, NEW w, NEW t
    PROVE  Released(InsertLease(ls, l, w, t), l, "completed") =
             [ls EXCEPT ![l] = GrantedRow(w, t, "completed")]
  <1> DEFINE new == GrantedRow(w, t, "active")
             closed == GrantedRow(w, t, "completed")
  <1>1. closed = [new EXCEPT !.status = "completed", !.released = TRUE]
    BY Zenon DEF GrantedRow
  <1> HIDE DEF new, closed
  <1>2. Released(InsertLease(ls, l, w, t), l, "completed") =
          [[ls EXCEPT ![l] = new] EXCEPT
             ![l] = [@ EXCEPT !.status = "completed", !.released = TRUE]]
    BY InsertedRow, Zenon DEF Released, new
  <1> QED
    BY <1>1, <1>2, Zenon DEF closed

(* What lease.acquire and a poll share: some expired leases are closed, and
   an unused row becomes a lease of w on t, which had no active lease.     *)
Granted(R, w, t, l, status) ==
    /\ CanInsertLease(Recovered(R), l, t)
    /\ lease' = [Recovered(R) EXCEPT ![l] = GrantedRow(w, t, status)]
    /\ task' = [task EXCEPT ![t] =
                  IF status = "active" THEN "leased" ELSE "passed"]
    /\ task[t] # "none"
    /\ UNCHANGED run

(* What it does to the leases table: one new row, the others at most closed. *)
LeaseGranted(w, t, l, status) ==
    /\ lease' \in [LeaseIds -> LeaseRows]
    /\ lease[l].status = "none"
    /\ lease'[l].status = status
    /\ lease'[l].task = t
    /\ lease'[l].worker = w
    /\ \A k \in LeaseIds \ {l} :
         /\ lease'[k].task = lease[k].task
         /\ lease'[k].worker = lease[k].worker
         /\ \/ lease'[k] = lease[k]
            \/ /\ lease[k].status = "active"
               /\ lease'[k].status = "needs_recovery"
               /\ lease'[k].released
         /\ lease[k].task = t => lease'[k].status # "active"

(* The row inserted is the new lease, and every other row keeps its worker
   and task.                                                               *)
LEMMA GrantedRows ==
    ASSUME LeaseInv, NEW limit, NEW R \in RecoverySets(limit),
           NEW w \in Workers, NEW t \in Runs, NEW l \in LeaseIds,
           NEW status \in {"active", "completed"}, Granted(R, w, t, l, status)
    PROVE  LeaseGranted(w, t, l, status)
  <1> DEFINE ls == Recovered(R)
             new == GrantedRow(w, t, status)
  <1>1. /\ ls \in [LeaseIds -> LeaseRows]
        /\ \A k \in LeaseIds :
             /\ ls[k].task = lease[k].task
             /\ ls[k].worker = lease[k].worker
             /\ \/ ls[k] = lease[k]
                \/ /\ lease[k].status = "active"
                   /\ ls[k].status = "needs_recovery"
                   /\ ls[k].released
    BY RecoveredRows DEF LeaseInv
  <1>2. /\ ls[l].status = "none"
        /\ \A k \in LeaseIds : ~(ls[k].status = "active" /\ ls[k].task = t)
    BY Zenon DEF Granted, CanInsertLease, HasActiveLease, Active
  <1>3. lease' = [ls EXCEPT ![l] = new]
    BY Zenon DEF Granted
  <1>4. /\ new \in LeaseRows
        /\ new.status = status /\ new.task = t /\ new.worker = w
    BY GrantedRowType
  <1> HIDE DEF ls, new
  <1>5. /\ lease' \in [LeaseIds -> LeaseRows]
        /\ \A k \in LeaseIds \ {l} : lease'[k] = ls[k]
        /\ lease'[l] = new
    BY <1>1, <1>3, <1>4, Zenon
  <1>6. lease[l].status = "none"
    BY <1>1, <1>2, Zenon
  <1>7. ASSUME NEW k \in LeaseIds \ {l}
        PROVE  /\ lease'[k].task = lease[k].task
               /\ lease'[k].worker = lease[k].worker
               /\ \/ lease'[k] = lease[k]
                  \/ /\ lease[k].status = "active"
                     /\ lease'[k].status = "needs_recovery"
                     /\ lease'[k].released
               /\ lease[k].task = t => lease'[k].status # "active"
    <2>1. lease'[k] = ls[k]
      BY <1>5, Zenon
    <2>2. /\ ls[k].task = lease[k].task
          /\ ls[k].worker = lease[k].worker
          /\ \/ ls[k] = lease[k]
             \/ /\ lease[k].status = "active"
                /\ ls[k].status = "needs_recovery"
                /\ ls[k].released
      BY <1>1, Zenon
    <2>3. lease[k].task = t => ls[k].status # "active"
      BY <1>2, <2>2, Zenon
    <2> QED
      BY <2>1, <2>2, <2>3, Zenon
  <1> QED
    BY <1>4, <1>5, <1>6, <1>7, Zenon DEF LeaseGranted

(* A grant ends no lease but the ones it recovers. *)
LEMMA GrantedEndures ==
    ASSUME LeaseInv, NEW limit, NEW R \in RecoverySets(limit),
           NEW w \in Workers, NEW t \in Runs, NEW l \in LeaseIds,
           NEW status \in {"active", "completed"}, Granted(R, w, t, l, status)
    PROVE  /\ lease' \in [LeaseIds -> LeaseRows]
           /\ lease[l].status = "none"
           /\ lease'[l].status = status
           /\ lease'[l].task = t
           /\ lease'[l].worker = w
           /\ LeasesEndure
  <1>1. LeaseGranted(w, t, l, status)
    BY GrantedRows, Zenon
  <1> QED
    BY <1>1, Zenon DEF LeaseGranted, LeasesEndure

(* Such a grant keeps everything that does not speak of command rows or
   attempts: the new holder gets a task nobody else holds.                 *)
LEMMA GrantedInv ==
    ASSUME LeaseInv, NEW limit, NEW R \in RecoverySets(limit),
           NEW w \in Workers, NEW t \in Runs, NEW l \in LeaseIds,
           NEW status \in {"active", "completed"}, Granted(R, w, t, l, status)
    PROVE  /\ task' \in [Runs -> TaskStatuses]
           /\ LeasesNamed'
           /\ RunsMatchTasks'
           /\ OneActiveLeasePerTask'
           /\ ActiveLeaseHoldsTask'
           /\ LeasedTaskAccounted'
           /\ PassedTaskWasCompleted'
           /\ ExecutionRunsUncontrolled'
           /\ CancelledRunSettlesTask'
  <1>1. /\ lease' \in [LeaseIds -> LeaseRows]
        /\ lease[l].status = "none"
        /\ lease'[l].status = status
        /\ lease'[l].task = t
        /\ lease'[l].worker = w
        /\ \A k \in LeaseIds \ {l} :
             /\ lease'[k].task = lease[k].task
             /\ lease'[k].worker = lease[k].worker
             /\ \/ lease'[k] = lease[k]
                \/ /\ lease[k].status = "active"
                   /\ lease'[k].status = "needs_recovery"
             /\ lease[k].task = t => lease'[k].status # "active"
    <2>1. LeaseGranted(w, t, l, status)
      BY GrantedRows, Zenon
    <2> QED
      BY <2>1, Zenon DEF LeaseGranted
  <1>2. task \in [Runs -> TaskStatuses]
    BY Zenon DEF LeaseInv, TypeOK
  <1>3. /\ \A r \in Runs \ {t} : task'[r] = task[r]
        /\ task'[t] = IF status = "active" THEN "leased" ELSE "passed"
        /\ task' \in [Runs -> TaskStatuses]
        /\ task[t] # "none"
        /\ run' = run
    BY <1>2, Zenon DEF Granted, TaskStatuses
  <1>4. LeasesNamed'
    <2>1. \A r \in Runs : task[r] # "none" => task'[r] # "none"
      BY <1>3, Zenon
    <2>2. task'[t] # "none" /\ status # "none"
      BY <1>3, Zenon
    <2> QED
      BY <1>1, <2>1, <2>2, ZenonT(30) DEF LeaseInv, RowsWellFormed, LeasesNamed
  <1>5. RunsMatchTasks'
    BY <1>3, Zenon DEF LeaseInv, RowsWellFormed, RunsMatchTasks
  <1>6. OneActiveLeasePerTask'
    BY <1>1 DEF LeaseInv, OneActiveLeasePerTask, Active
  <1>7. ActiveLeaseHoldsTask'
    <2> SUFFICES ASSUME NEW k \in LeaseIds, lease'[k].status = "active",
                        ~lease'[k].released
                 PROVE  task'[lease'[k].task] = "leased"
      BY Zenon DEF ActiveLeaseHoldsTask, Active
    <2>1. CASE k = l
      BY <1>1, <1>3, <2>1, Zenon
    <2>2. CASE k # l
      <3>1. lease'[k] = lease[k] /\ lease[k].task # t
        BY <1>1, <2>2, Zenon
      <3>2. lease[k].task \in Runs /\ task[lease[k].task] = "leased"
        BY <3>1, Zenon
           DEF LeaseInv, RowsWellFormed, LeasesNamed, ActiveLeaseHoldsTask, Active
      <3> QED
        BY <1>3, <3>1, <3>2, Zenon
    <2> QED
      BY <2>1, <2>2, Zenon
  <1>8. LeasedTaskAccounted'
    BY <1>1, <1>3 DEF LeaseInv, LeasedTaskAccounted
  <1>9. PassedTaskWasCompleted'
    BY <1>1, <1>3 DEF LeaseInv, PassedTaskWasCompleted
  <1>10. ExecutionRunsUncontrolled'
    BY <1>3, Zenon DEF LeaseInv, ExecutionRunsUncontrolled
  <1>11. CancelledRunSettlesTask'
    <2> SUFFICES ASSUME NEW r \in Runs, run'[r].status = "cancelled",
                        task'[r] # "cancelled"
                 PROVE  \E k \in LeaseIds : lease'[k].task = r
      BY Zenon DEF CancelledRunSettlesTask
    <2>1. CASE r = t
      BY <1>1, <2>1, Zenon
    <2>2. CASE r # t
      <3>1. PICK k \in LeaseIds : lease[k].task = r
        BY <1>3, <2>2, Zenon DEF LeaseInv, CancelledRunSettlesTask
      <3>2. k # l
        BY <1>1, <3>1, ConstantsAssumption, Zenon
           DEF LeaseInv, RowsWellFormed, LeasesNamed
      <3> QED
        BY <1>1, <3>1, <3>2, Zenon
    <2> QED
      BY <2>1, <2>2, Zenon
  <1> QED
    BY <1>3, <1>4, <1>5, <1>6, <1>7, <1>8, <1>9, <1>10, <1>11, Zenon

-----------------------------------------------------------------------------
(* A denied lease.acquire records its key and nothing else. *)
LEMMA AcquireDeniedInv ==
    ASSUME LeaseInv, NEW req \in Requests, NEW key \in AcquireKeys,
           AcquireLeaseDenied(req, key)
    PROVE  LeaseInv'
  <1> DEFINE row == [key |-> key, req |-> req, decision |-> "denied", lease |-> NoLease]
  <1>1. /\ UNCHANGED <<worker, run, task, lease, controlled, attempts, reportFile>>
        /\ acquired' = acquired \cup {row}
        /\ \A c \in acquired : c.key # key
    BY Zenon DEF AcquireLeaseDenied, Reserved
  <1>2. TypeOK'
    <2>1. row \in [key : AcquireKeys, req : Requests,
                   decision : {"allowed", "denied"},
                   lease : LeaseIds \cup {NoLease}]
      BY Zenon
    <2> QED
      BY <1>1, <2>1, Zenon DEF LeaseInv, TypeOK
  <1>3. row.key = key /\ row.decision = "denied" /\ row.lease = NoLease
    BY Zenon
  <1> HIDE DEF row
  <1>4. AcquiresNamed'
    <2>1. \A c \in acquired : IF c.decision = "allowed"
                               THEN c.lease \in LeaseIds /\ lease[c.lease].status # "none"
                               ELSE c.lease = NoLease
      BY Zenon DEF LeaseInv, RowsWellFormed, AcquiresNamed
    <2> QED
      BY <1>1, <1>3, <2>1, Zenon DEF AcquiresNamed
  <1>5. AcquireExactlyOnce'
    <2> SUFFICES ASSUME NEW c \in acquired', NEW d \in acquired'
                 PROVE  /\ c.key = d.key => c = d
                        /\ c.decision = "allowed" =>
                             /\ lease[c.lease].worker = c.req.worker
                             /\ lease[c.lease].task = c.req.task
                        /\ c.decision = "allowed" /\ c.lease = d.lease => c = d
      BY <1>1, Zenon DEF AcquireExactlyOnce
    <2>1. c \in acquired /\ c.decision = "allowed" => c.lease \in LeaseIds
      BY Zenon DEF LeaseInv, RowsWellFormed, AcquiresNamed
    <2>2. CASE c \in acquired /\ d \in acquired
      BY <2>2, Zenon DEF LeaseInv, AcquireExactlyOnce
    <2>3. CASE c \in acquired /\ d = row
      <3>1. /\ lease[c.lease].worker = c.req.worker \/ c.decision # "allowed"
            /\ lease[c.lease].task = c.req.task \/ c.decision # "allowed"
        BY <2>3, Zenon DEF LeaseInv, AcquireExactlyOnce
      <3> QED
        BY <1>1, <1>3, <2>1, <2>3, <3>1, ConstantsAssumption, Zenon
    <2>4. CASE c = row
      BY <1>1, <1>3, <2>4, Zenon
    <2> QED
      BY <1>1, <2>2, <2>3, <2>4, Zenon
  <1> QED
    BY <1>1, <1>2, <1>4, <1>5, TablesKept, AttemptsKept, Zenon DEF LeaseInv, RowsWellFormed

(* lease.acquire is such a grant, whether it recovers first or not. *)
LEMMA AcquireGrants ==
    ASSUME LeaseInv, NEW req \in Requests, NEW key \in AcquireKeys,
           NEW R \in SUBSET LeaseIds, NEW l \in LeaseIds,
           AcquireLease(req, key, R, l)
    PROVE  /\ R \in RecoverySets(InlineRecoverLimit)
           /\ Granted(R, req.worker, req.task, l, "active")
  <1>1. R \in RecoverySets(InlineRecoverLimit)
    <2>1. TypeOK
      BY Zenon DEF LeaseInv
    <2> QED
      BY <2>1, NoRecovery, Zenon DEF AcquireLease
  <1>2. Granted(R, req.worker, req.task, l, "active")
    <2>1. Recovered(R) \in [LeaseIds -> LeaseRows]
      BY <1>1, RecoveredRows, Zenon DEF LeaseInv
    <2>2. InsertLease(Recovered(R), l, req.worker, req.task) =
            [Recovered(R) EXCEPT ![l] = GrantedRow(req.worker, req.task, "active")]
      BY InsertedRow, Zenon
    <2> QED
      BY <2>2, Zenon DEF AcquireLease, Granted
  <1> QED
    BY <1>1, <1>2, Zenon

(* An allowed lease.acquire grants a lease no earlier command owns. *)
LEMMA AcquireInv ==
    ASSUME LeaseInv, NEW req \in Requests, NEW key \in AcquireKeys,
           NEW R \in SUBSET LeaseIds, NEW l \in LeaseIds,
           AcquireLease(req, key, R, l)
    PROVE  LeaseInv'
  <1> DEFINE row == [key |-> key, req |-> req, decision |-> "allowed", lease |-> l]
  <1>1. /\ UNCHANGED <<worker, run, controlled, attempts, reportFile>>
        /\ acquired' = acquired \cup {row}
        /\ \A c \in acquired : c.key # key
    BY Zenon DEF AcquireLease, Reserved
  <1>2. req.worker \in Workers /\ req.task \in Runs
    BY Zenon DEF Requests
  <1>3. R \in RecoverySets(InlineRecoverLimit)
    BY AcquireGrants, Zenon
  <1>4. Granted(R, req.worker, req.task, l, "active")
    BY AcquireGrants, Zenon
  <1>5. /\ lease' \in [LeaseIds -> LeaseRows]
        /\ lease[l].status = "none"
        /\ lease'[l].status = "active"
        /\ lease'[l].task = req.task
        /\ lease'[l].worker = req.worker
        /\ LeasesEndure
    BY <1>2, <1>3, <1>4, GrantedEndures, Zenon
  <1>6. TypeOK'
    <2>1. row \in [key : AcquireKeys, req : Requests,
                   decision : {"allowed", "denied"},
                   lease : LeaseIds \cup {NoLease}]
      BY Zenon
    <2>2. task' \in [Runs -> TaskStatuses]
      BY <1>2, <1>3, <1>4, GrantedInv, Zenon
    <2>3. acquired' \subseteq [key : AcquireKeys, req : Requests,
                              decision : {"allowed", "denied"},
                              lease : LeaseIds \cup {NoLease}]
      BY <1>1, <2>1, Zenon DEF LeaseInv, TypeOK
    <2> QED
      BY <1>1, <1>5, <2>2, <2>3, Zenon DEF LeaseInv, TypeOK, LeaseRows
  <1>7. row.key = key /\ row.req = req /\ row.decision = "allowed" /\ row.lease = l
    BY Zenon
  <1> HIDE DEF row
  <1>8. AcquiresNamed'
    <2>1. \A c \in acquired : IF c.decision = "allowed"
                               THEN c.lease \in LeaseIds /\ lease'[c.lease].status # "none"
                               ELSE c.lease = NoLease
      <3> SUFFICES ASSUME NEW c \in acquired, c.decision = "allowed"
                   PROVE  c.lease \in LeaseIds /\ lease'[c.lease].status # "none"
        BY Zenon DEF LeaseInv, RowsWellFormed, AcquiresNamed
      <3>1. c.lease \in LeaseIds /\ lease[c.lease].status # "none"
        BY Zenon DEF LeaseInv, RowsWellFormed, AcquiresNamed
      <3> QED
        BY <1>5, <3>1, Zenon DEF LeasesEndure
    <2> QED
      BY <1>7, <1>1, <1>5, <2>1, Zenon DEF AcquiresNamed
  <1>9. AcquireExactlyOnce'
    <2>1. \A c \in acquired : c.decision = "allowed" =>
            c.lease \in LeaseIds \ {l}
      BY <1>5, Zenon DEF LeaseInv, RowsWellFormed, AcquiresNamed
    <2>2. \A c \in acquired : c.lease # l
      BY <2>1, ConstantsAssumption, Zenon DEF LeaseInv, RowsWellFormed, AcquiresNamed
    <2>3. ASSUME NEW c \in acquired', NEW d \in acquired'
          PROVE  c.key = d.key => c = d
      <3>1. CASE c \in acquired /\ d \in acquired
        BY <3>1, Zenon DEF LeaseInv, AcquireExactlyOnce
      <3> QED
        BY <1>7, <1>1, <3>1, Zenon
    <2>4. ASSUME NEW c \in acquired', c.decision = "allowed"
          PROVE  /\ lease'[c.lease].worker = c.req.worker
                 /\ lease'[c.lease].task = c.req.task
      <3>1. CASE c = row
        BY <1>7, <1>5, <3>1, Zenon
      <3>2. CASE c \in acquired
        <4>1. c.lease \in LeaseIds /\ lease[c.lease].status # "none"
          BY <2>4, <3>2, Zenon DEF LeaseInv, RowsWellFormed, AcquiresNamed
        <4>2. /\ lease[c.lease].worker = c.req.worker
              /\ lease[c.lease].task = c.req.task
          BY <2>4, <3>2, Zenon DEF LeaseInv, AcquireExactlyOnce
        <4> QED
          BY <1>5, <4>1, <4>2, Zenon DEF LeasesEndure
      <3> QED
        BY <1>1, <3>1, <3>2, Zenon
    <2>5. ASSUME NEW c \in acquired', NEW d \in acquired',
                 c.decision = "allowed", c.lease = d.lease
          PROVE  c = d
      <3>1. CASE c \in acquired /\ d \in acquired
        BY <2>5, <3>1, Zenon DEF LeaseInv, AcquireExactlyOnce
      <3> QED
        BY <1>7, <1>1, <2>2, <2>5, <3>1, Zenon
    <2> QED
      BY <2>3, <2>4, <2>5, Zenon DEF AcquireExactlyOnce
  <1>10. AttemptsBackedByLeases'
    BY <1>1, <1>5, AttemptsKept, Zenon
  <1>11. /\ LeasesNamed' /\ RunsMatchTasks'
         /\ OneActiveLeasePerTask' /\ ActiveLeaseHoldsTask'
         /\ LeasedTaskAccounted' /\ PassedTaskWasCompleted'
         /\ ExecutionRunsUncontrolled' /\ CancelledRunSettlesTask'
    BY <1>2, <1>3, <1>4, GrantedInv, Zenon
  <1> QED
    BY <1>6, <1>8, <1>9, <1>10, <1>11, Zenon DEF LeaseInv, RowsWellFormed

-----------------------------------------------------------------------------
(* Closing expired leases keeps everything, whether their tasks are moved to
   'needs_recovery' with them or left behind.                              *)
LEMMA RecoverInv ==
    ASSUME LeaseInv, NEW limit, NEW R \in RecoverySets(limit),
           lease' = Recovered(R),
           \/ task' = task
           \/ task' = [t \in Runs |-> IF \E l \in R : lease[l].task = t
                                        THEN "needs_recovery" ELSE task[t]],
           UNCHANGED <<worker, run, acquired, controlled, attempts, reportFile>>
    PROVE  LeaseInv'
  <1>1. /\ lease' \in [LeaseIds -> LeaseRows]
        /\ R \subseteq LeaseIds
        /\ \A l \in LeaseIds :
             /\ lease'[l].task = lease[l].task
             /\ lease'[l].worker = lease[l].worker
             /\ l \in R => /\ lease[l].status = "active"
                           /\ lease'[l].status = "needs_recovery"
             /\ l \notin R => lease'[l] = lease[l]
    BY RecoveredRows DEF LeaseInv
  <1>2. /\ task' \in [Runs -> TaskStatuses]
        /\ \A t \in Runs :
             \/ task'[t] = task[t]
             \/ /\ \E l \in R : lease[l].task = t
                /\ task'[t] = "needs_recovery"
    BY Zenon DEF LeaseInv, TypeOK, TaskStatuses
  <1>3. TypeOK'
    BY <1>1, <1>2, Zenon DEF LeaseInv, TypeOK, LeaseRows
  <1>4. LeasesNamed'
    <2>1. \A r \in Runs : task[r] # "none" => task'[r] # "none"
      BY <1>2, Zenon
    <2>2. ASSUME NEW l \in LeaseIds
          PROVE  lease'[l].status = "none" <=> lease[l].status = "none"
      <3>1. CASE l \in R
        BY <1>1, <3>1, Zenon
      <3>2. CASE l \notin R
        BY <1>1, <3>2, Zenon
      <3> QED
        BY <3>1, <3>2, Zenon
    <2> QED
      BY <1>1, <2>1, <2>2 DEF LeaseInv, RowsWellFormed, LeasesNamed
  <1>5. RunsMatchTasks'
    <2>1. \A t \in Runs : (\E l \in R : lease[l].task = t) => task[t] # "none"
      BY <1>1, ZenonT(30) DEF LeaseInv, RowsWellFormed, LeasesNamed
    <2> QED
      BY <1>2, <2>1 DEF LeaseInv, RowsWellFormed, RunsMatchTasks
  <1>6. OneActiveLeasePerTask'
    BY SMTT(30), <1>1 DEF LeaseInv, OneActiveLeasePerTask, Active
  <1>7. ActiveLeaseHoldsTask'
    <2> SUFFICES ASSUME NEW l \in LeaseIds, lease'[l].status = "active",
                        ~lease'[l].released
                 PROVE  task'[lease'[l].task] = "leased"
      BY Zenon DEF ActiveLeaseHoldsTask, Active
    <2>1. /\ lease[l].status = "active" /\ l \notin R
          /\ lease[l].task \in Runs /\ task[lease[l].task] = "leased"
      <3>1. l \notin R
        BY <1>1, Zenon
      <3>2. lease'[l] = lease[l]
        BY <1>1, <3>1, Zenon
      <3> QED
        BY <3>1, <3>2, Zenon
           DEF LeaseInv, RowsWellFormed, LeasesNamed, ActiveLeaseHoldsTask, Active
    <2>2. ~\E k \in R : lease[k].task = lease[l].task
      BY <1>1, <2>1, Zenon DEF LeaseInv, OneActiveLeasePerTask, Active
    <2> QED
      BY SMTT(30), <1>1, <1>2, <2>1, <2>2
  <1>8. LeasedTaskAccounted' /\ PassedTaskWasCompleted'
    BY SMTT(30), <1>1, <1>2 DEF LeaseInv, LeasedTaskAccounted, PassedTaskWasCompleted
  <1>9. LeasesEndure
    BY <1>1, Zenon DEF LeasesEndure
  <1>10. AcquiresNamed' /\ AcquireExactlyOnce' /\ AttemptsBackedByLeases'
    BY <1>9, AcquiresKept, AttemptsKept, Zenon
  <1>11. ExecutionRunsUncontrolled'
    BY Zenon DEF LeaseInv, ExecutionRunsUncontrolled
  <1>12. CancelledRunSettlesTask'
    <2> SUFFICES ASSUME NEW r \in Runs, run'[r].status = "cancelled",
                        task'[r] # "cancelled"
                 PROVE  \E l \in LeaseIds : lease'[l].task = r
      BY Zenon DEF CancelledRunSettlesTask
    <2>1. CASE task'[r] = task[r]
      BY SMTT(30), <1>1, <2>1 DEF LeaseInv, CancelledRunSettlesTask
    <2>2. CASE \E l \in R : lease[l].task = r
      BY SMTT(30), <1>1, <2>2
    <2> QED
      BY <1>2, <2>1, <2>2, Zenon
  <1> QED
    BY <1>3, <1>4, <1>5, <1>6, <1>7, <1>8, <1>9, <1>10, <1>11, <1>12, Zenon
       DEF LeaseInv, RowsWellFormed

RowReleased(ls, l, status) ==
    /\ ls \in [LeaseIds -> LeaseRows]
    /\ ls[l].status = status
    /\ ls[l].released
    /\ \A k \in LeaseIds : ls[k].task = lease[k].task /\ ls[k].worker = lease[k].worker
    /\ \A k \in LeaseIds \ {l} : ls[k] = lease[k]

(* releaseLeaseForWorker writes status and released_at of its row only. *)
LEMMA ReleasedRow ==
    ASSUME lease \in [LeaseIds -> LeaseRows], NEW l \in LeaseIds,
           NEW status \in ReleaseStatuses
    PROVE  RowReleased(Released(lease, l, status), l, status)
  <1> DEFINE row == [lease[l] EXCEPT !.status = status, !.released = TRUE]
  <1>1. /\ row \in LeaseRows
        /\ row.status = status
        /\ row.released
        /\ row.task = lease[l].task
        /\ row.worker = lease[l].worker
    BY Zenon DEF LeaseRows, LeaseStatuses
  <1>2. Released(lease, l, status) = [lease EXCEPT ![l] = row]
    BY Zenon DEF Released
  <1> HIDE DEF row
  <1> QED
    BY <1>1, <1>2, Zenon DEF RowReleased

(* The holder gives its task back; nobody else's lease is on it. *)
LEMMA ReleaseInv ==
    ASSUME LeaseInv, NEW w \in Workers, NEW l \in LeaseIds,
           NEW status \in ReleaseStatuses, ReleaseLease(w, l, status)
    PROVE  LeaseInv'
  <1> DEFINE t == lease[l].task
  <1>1. /\ UNCHANGED <<worker, run, acquired, controlled, attempts, reportFile>>
        /\ lease[l].status = "active"
        /\ t \in Runs
        /\ task[t] # "none"
    BY Zenon DEF ReleaseLease, Active, LeaseInv, RowsWellFormed, LeasesNamed
  <1>2. /\ lease' \in [LeaseIds -> LeaseRows]
        /\ lease'[l].status = status
        /\ lease'[l].released
        /\ \A k \in LeaseIds : /\ lease'[k].task = lease[k].task
                               /\ lease'[k].worker = lease[k].worker
        /\ \A k \in LeaseIds \ {l} : lease'[k] = lease[k]
    <2>1. lease \in [LeaseIds -> LeaseRows]
      BY Zenon DEF LeaseInv, TypeOK, LeaseRows
    <2>2. lease' = Released(lease, l, status)
      BY Zenon DEF ReleaseLease
    <2>3. RowReleased(Released(lease, l, status), l, status)
      BY <2>1, ReleasedRow
    <2> QED
      BY <2>2, <2>3, Zenon DEF RowReleased
  <1>3. /\ task' \in [Runs -> TaskStatuses]
        /\ \A r \in Runs \ {t} : task'[r] = task[r]
        /\ task'[t] = IF status = "completed" THEN "passed" ELSE "queued"
    BY <1>1, Zenon DEF LeaseInv, TypeOK, TaskStatuses, ReleaseLease
  <1>4. status # "none"
    BY Zenon DEF ReleaseStatuses
  <1> HIDE DEF t
  <1>5. TypeOK'
    BY <1>1, <1>2, <1>3, Zenon DEF LeaseInv, TypeOK, LeaseRows
  <1>6. LeasesNamed'
    <2>1. \A r \in Runs : task[r] # "none" => task'[r] # "none"
      BY <1>3, Zenon
    <2>2. ASSUME NEW k \in LeaseIds
          PROVE  lease'[k].status = "none" <=> lease[k].status = "none"
      BY <1>1, <1>2, <1>4, Zenon
    <2> QED
      BY <1>2, <2>1, <2>2, Zenon DEF LeaseInv, RowsWellFormed, LeasesNamed
  <1>7. RunsMatchTasks'
    BY <1>1, <1>3, Zenon DEF LeaseInv, RowsWellFormed, RunsMatchTasks
  <1>8. OneActiveLeasePerTask'
    <2>1. \A k \in LeaseIds : lease'[k].status = "active" => lease[k].status = "active"
      BY <1>1, <1>2, Zenon
    <2> QED
      BY <1>2, <2>1 DEF LeaseInv, OneActiveLeasePerTask, Active
  <1>9. ActiveLeaseHoldsTask'
    <2> SUFFICES ASSUME NEW k \in LeaseIds, lease'[k].status = "active",
                        ~lease'[k].released
                 PROVE  task'[lease'[k].task] = "leased"
      BY Zenon DEF ActiveLeaseHoldsTask, Active
    <2>1. /\ k # l /\ lease[k].status = "active"
          /\ lease[k].task \in Runs /\ task[lease[k].task] = "leased"
      <3>1. k # l /\ lease'[k] = lease[k]
        BY <1>2, Zenon
      <3> QED
        BY <3>1, Zenon
           DEF LeaseInv, RowsWellFormed, LeasesNamed, ActiveLeaseHoldsTask, Active
    <2>2. lease[k].task # t
      BY <1>1, <2>1, Zenon DEF LeaseInv, OneActiveLeasePerTask, Active, t
    <2>3. lease'[k].task = lease[k].task
      BY <1>2, Zenon
    <2>4. task'[lease[k].task] = task[lease[k].task]
      BY <1>3, <2>1, <2>2, Zenon
    <2> QED
      BY <2>1, <2>3, <2>4, Zenon
  <1>10. LeasedTaskAccounted'
    <2> SUFFICES ASSUME NEW r \in Runs, task'[r] = "leased"
                 PROVE  \E k \in LeaseIds :
                          /\ lease'[k].task = r
                          /\ lease'[k].status \in {"active", "needs_recovery"}
      BY Zenon DEF LeasedTaskAccounted
    <2>1. r # t /\ task[r] = "leased"
      BY <1>3, Zenon
    <2>2. PICK k \in LeaseIds : /\ lease[k].task = r
                               /\ lease[k].status \in {"active", "needs_recovery"}
      BY <2>1, Zenon DEF LeaseInv, LeasedTaskAccounted
    <2>3. k # l
      BY <2>1, <2>2, Zenon DEF t
    <2> QED
      BY <1>2, <2>2, <2>3, Zenon
  <1>11. PassedTaskWasCompleted'
    <2> SUFFICES ASSUME NEW r \in Runs, task'[r] = "passed"
                 PROVE  \E k \in LeaseIds : /\ lease'[k].task = r
                                            /\ lease'[k].status = "completed"
      BY Zenon DEF PassedTaskWasCompleted
    <2>1. CASE r = t
      BY <1>2, <1>3, <2>1, Zenon DEF t
    <2>2. CASE r # t
      <3>1. PICK k \in LeaseIds : /\ lease[k].task = r
                                 /\ lease[k].status = "completed"
        BY SMTT(30), <1>3, <2>2 DEF LeaseInv, PassedTaskWasCompleted
      <3> QED
        BY <1>1, <1>2, <3>1, Zenon
    <2> QED
      BY <2>1, <2>2, Zenon
  <1>12. LeasesEndure
    BY <1>1, <1>2, <1>4, Zenon DEF LeasesEndure
  <1>13. AcquiresNamed' /\ AcquireExactlyOnce' /\ AttemptsBackedByLeases'
    BY <1>1, <1>12, AcquiresKept, AttemptsKept, Zenon
  <1>14. ExecutionRunsUncontrolled'
    BY <1>1, Zenon DEF LeaseInv, ExecutionRunsUncontrolled
  <1>15. CancelledRunSettlesTask'
    <2> SUFFICES ASSUME NEW r \in Runs, run'[r].status = "cancelled",
                        task'[r] # "cancelled"
                 PROVE  \E k \in LeaseIds : lease'[k].task = r
      BY Zenon DEF CancelledRunSettlesTask
    <2>1. CASE r = t
      BY <1>2, <2>1, Zenon DEF t
    <2>2. CASE r # t
      <3>1. \E k \in LeaseIds : lease[k].task = r
        BY <1>1, <1>3, <2>2, Zenon DEF LeaseInv, CancelledRunSettlesTask
      <3> QED
        BY <1>2, <3>1, Zenon
    <2> QED
      BY <2>1, <2>2, Zenon
  <1> QED
    BY <1>5, <1>6, <1>7, <1>8, <1>9, <1>10, <1>11, <1>12, <1>13, <1>14, <1>15, Zenon
       DEF LeaseInv, RowsWellFormed

(* A poll that finds a task grants a lease and completes it. *)
LEMMA PollGrants ==
    ASSUME LeaseInv, NEW w \in Workers, NEW caps, NEW R, NEW asked \in AskedRuns,
           NEW t \in Runs, NEW l \in LeaseIds,
           RunWorkerOnce(w, caps, R, asked, t, l)
    PROVE  /\ R \in RecoverySets(InlineRecoverLimit)
           /\ Granted(R, w, t, l, "completed")
  <1>1. R \in RecoverySets(InlineRecoverLimit)
    BY Zenon DEF RunWorkerOnce
  <1>2. Recovered(R) \in [LeaseIds -> LeaseRows]
    BY <1>1, RecoveredRows, Zenon DEF LeaseInv
  <1>3. Released(InsertLease(Recovered(R), l, w, t), l, "completed") =
          [Recovered(R) EXCEPT ![l] = GrantedRow(w, t, "completed")]
    BY <1>2, CompletedRow
  <1> QED
    BY <1>1, <1>3, Zenon DEF RunWorkerOnce, Granted, DryRunCandidates

(* A poll that finds a task grants, completes and reports in one step. *)
LEMMA RunOnceInv ==
    ASSUME LeaseInv, NEW w \in Workers, NEW caps, NEW R, NEW asked \in AskedRuns,
           NEW t \in Runs, NEW l \in LeaseIds,
           RunWorkerOnce(w, caps, R, asked, t, l)
    PROVE  LeaseInv'
  <1> DEFINE att == [worker |-> w, task |-> t, lease |-> l]
  <1>1. /\ UNCHANGED <<worker, run, acquired, controlled>>
        /\ attempts' = attempts \cup {att}
        /\ reportFile' = [reportFile EXCEPT ![<<w, t>>] = l]
    BY Zenon DEF RunWorkerOnce
  <1>2. R \in RecoverySets(InlineRecoverLimit)
    BY PollGrants, Zenon
  <1>3. Granted(R, w, t, l, "completed")
    BY PollGrants, Zenon
  <1>4. /\ lease' \in [LeaseIds -> LeaseRows]
        /\ lease[l].status = "none"
        /\ lease'[l].status = "completed"
        /\ lease'[l].task = t
        /\ lease'[l].worker = w
        /\ LeasesEndure
    BY <1>2, <1>3, GrantedEndures, Zenon
  <1>5. TypeOK'
    <2>1. task' \in [Runs -> TaskStatuses]
      BY <1>2, <1>3, GrantedInv, Zenon
    <2>2. reportFile' \in [Workers \X Runs -> LeaseIds \cup {NoLease, LostLease}]
      BY <1>1, Zenon DEF LeaseInv, TypeOK
    <2>3. attempts' \subseteq [worker : Workers, task : Runs, lease : LeaseIds]
      BY <1>1 DEF LeaseInv, TypeOK
    <2> QED
      BY <1>1, <1>4, <2>1, <2>2, <2>3, Zenon DEF LeaseInv, TypeOK, LeaseRows
  <1>6. AcquiresNamed' /\ AcquireExactlyOnce'
    BY <1>1, <1>4, AcquiresKept, Zenon
  <1>7. AttemptsBackedByLeases'
    <2>1. \A a \in attempts : AttemptHasLease(a)'
      BY <1>4, AttemptLeasesKept, Zenon
    <2>2. \A a \in attempts : AttemptHasReport(a)'
      <3>1. \A p \in Workers \X Runs :
              reportFile[p] # NoLease => reportFile'[p] # NoLease
        BY <1>1, ConstantsAssumption, Zenon DEF LeaseInv, TypeOK
      <3> QED
        BY <3>1, AttemptReportsKept, Zenon
    <2>3. AttemptHasLease(att)'
      BY <1>4, Zenon DEF AttemptHasLease
    <2>4. AttemptHasReport(att)'
      <3>1. reportFile'[<<w, t>>] = l
        BY <1>1, Zenon DEF LeaseInv, TypeOK
      <3> QED
        BY <3>1, ConstantsAssumption, Zenon DEF AttemptHasReport
    <2> QED
      BY <1>1, <2>1, <2>2, <2>3, <2>4, Zenon DEF AttemptsBackedByLeases
  <1>8. /\ LeasesNamed' /\ RunsMatchTasks'
        /\ OneActiveLeasePerTask' /\ ActiveLeaseHoldsTask'
        /\ LeasedTaskAccounted' /\ PassedTaskWasCompleted'
        /\ ExecutionRunsUncontrolled' /\ CancelledRunSettlesTask'
    BY <1>2, <1>3, GrantedInv, Zenon
  <1> QED
    BY <1>5, <1>6, <1>7, <1>8, Zenon DEF LeaseInv, RowsWellFormed

(* A poll that rolls back leaves a file and no row. *)
LEMMA AbortedInv ==
    ASSUME LeaseInv, NEW w \in Workers, NEW caps, NEW R, NEW asked,
           NEW t \in Runs, RunWorkerOnceAborted(w, caps, R, asked, t)
    PROVE  LeaseInv'
  <1>1. /\ UNCHANGED <<worker, run, task, lease, acquired, controlled, attempts>>
        /\ reportFile' = [reportFile EXCEPT ![<<w, t>>] = LostLease]
    BY Zenon DEF RunWorkerOnceAborted
  <1>2. TypeOK'
    BY <1>1, Zenon DEF LeaseInv, TypeOK
  <1>3. \A p \in Workers \X Runs :
            reportFile[p] # NoLease => reportFile'[p] # NoLease
    BY <1>1, ConstantsAssumption, Zenon DEF LeaseInv, TypeOK
  <1> QED
    <2>1. AttemptsBackedByLeases'
      BY <1>1, <1>3, TablesKept, AttemptLeasesKept, AttemptReportsKept, Zenon
         DEF AttemptsBackedByLeases
    <2> QED
      BY <1>1, <1>2, <2>1, TablesKept, AcquiresKept, Zenon DEF LeaseInv, RowsWellFormed

-----------------------------------------------------------------------------
(* A denied run control records its key and nothing else. *)
LEMMA ControlDeniedInv ==
    ASSUME LeaseInv, NEW req \in ControlRequests, NEW key \in ControlKeys,
           ControlRunDenied(req, key)
    PROVE  LeaseInv'
  <1>1. /\ UNCHANGED <<worker, run, task, lease, acquired, attempts, reportFile>>
        /\ controlled' = controlled \cup
             {[key |-> key, req |-> req, decision |-> "denied"]}
    BY Zenon DEF ControlRunDenied
  <1>2. TypeOK'
    <2>1. controlled' \subseteq [key : ControlKeys, req : ControlRequests,
                                decision : {"allowed", "denied"}]
      BY SMTT(30), <1>1 DEF LeaseInv, TypeOK
    <2> QED
      BY <1>1, <2>1, Zenon DEF LeaseInv, TypeOK
  <1> QED
    BY <1>1, <1>2, TablesKept, AcquiresKept, AttemptsKept, Zenon DEF LeaseInv, RowsWellFormed

(* An allowed run control moves the run along ControlTransition, or not at
   all, and never a leased task.                                           *)
LEMMA ControlInv ==
    ASSUME LeaseInv, NEW req \in ControlRequests, NEW key \in ControlKeys,
           ControlRun(req, key)
    PROVE  LeaseInv'
  <1> DEFINE r == req.run
             old == run[r].status
  <1>1. r \in Runs /\ req.action \in ControlActions
    BY Zenon DEF ControlRequests
  <1>2. PICK status \in ControlOutcomes(req) :
          /\ run' = [run EXCEPT ![req.run].status = status]
          /\ task' = [task EXCEPT ![req.run] =
                        CancelledTaskStatus(req.action, status, @)]
    BY Zenon DEF ControlRun
  <1>3. /\ UNCHANGED <<worker, lease, acquired, attempts, reportFile>>
        /\ controlled' = controlled \cup
             {[key |-> key, req |-> req, decision |-> "allowed"]}
        /\ old # "none"
    BY Zenon DEF ControlRun
  <1>4. /\ run \in [Runs -> [status : RunStatuses, dry : BOOLEAN]]
        /\ task \in [Runs -> TaskStatuses]
    BY Zenon DEF LeaseInv, TypeOK
  <1>5. /\ status \in RunStatuses
        /\ \/ status = old /\ AlreadyDone(req.action, old)
           \/ run[r].dry /\ <<req.action, old, status>> \in ControlTransition
    BY <1>1, <1>2, <1>4, Zenon DEF ControlOutcomes
  <1>6. /\ run' \in [Runs -> [status : RunStatuses, dry : BOOLEAN]]
        /\ \A q \in Runs : run'[q].dry = run[q].dry
        /\ \A q \in Runs \ {r} : run'[q].status = run[q].status
        /\ run'[r].status = status
    BY <1>1, <1>2, <1>4, <1>5, Zenon
  <1>7. /\ task' \in [Runs -> TaskStatuses]
        /\ \A q \in Runs \ {r} : task'[q] = task[q]
        /\ task'[r] = CancelledTaskStatus(req.action, status, task[r])
    BY <1>1, <1>2, <1>4, Zenon DEF CancelledTaskStatus, TaskStatuses
  <1> HIDE DEF r, old
  <1>8. r \in FixtureRuns
    <2> SUFFICES ASSUME r \notin FixtureRuns PROVE FALSE
      BY Zenon
    <2>1. /\ old \in {"none", "queued", "passed", "executed"}
          /\ run[r].dry => old \in {"none", "passed"}
      BY <1>1, Zenon DEF LeaseInv, RowsWellFormed, RunsMatchTasks,
         ExecutionRunsUncontrolled, old
    <2> QED
      BY <1>5, <2>1, Zenon DEF AlreadyDone, ControlTransition
  <1>9. /\ status # "none"
        /\ req.action = "cancel" => status \in {"cancelled", "cancelling"}
        /\ old = "cancelling" => status = "cancelling"
        /\ status = "cancelled" =>
             /\ req.action = "cancel"
             /\ old = "cancelled" \/ (old = "queued" /\ run[r].dry)
    BY <1>3, <1>5, Zenon DEF AlreadyDone, ControlTransition
  <1>10. \/ task'[r] = task[r]
         \/ /\ task[r] \in {"queued", "needs_recovery"}
            /\ \/ task'[r] = "cancelled" /\ status = "cancelled"
               \/ task'[r] = "cancel_requested" /\ status = "cancelling"
    BY <1>7, <1>9, Zenon DEF CancelledTaskStatus
  <1>11. TypeOK'
    <2>1. [key |-> key, req |-> req, decision |-> "allowed"] \in
            [key : ControlKeys, req : ControlRequests,
             decision : {"allowed", "denied"}]
      BY Zenon
    <2> QED
      BY <1>3, <1>6, <1>7, <2>1, Zenon DEF LeaseInv, TypeOK
  <1>12. LeasesNamed' /\ OneActiveLeasePerTask'
    <2>1. \A q \in Runs : task[q] # "none" => task'[q] # "none"
      BY <1>7, <1>10, Zenon
    <2> QED
      BY <1>3, <2>1, Zenon
         DEF LeaseInv, RowsWellFormed, LeasesNamed, OneActiveLeasePerTask, Active
  <1>13. RunsMatchTasks'
    <2>1. /\ task[r] # "none"
          /\ task[r] = "cancel_requested" => old = "cancelling"
          /\ task[r] = "executed" => ~run[r].dry
      BY <1>1, <1>3, Zenon DEF LeaseInv, RowsWellFormed, RunsMatchTasks, old
    <2>2. /\ run'[r].status = "none" <=> task'[r] = "none"
          /\ task'[r] = "cancel_requested" => run'[r].status = "cancelling"
          /\ task'[r] = "executed" => ~run'[r].dry
      BY <1>1, <1>6, <1>9, <1>10, <2>1, Zenon
    <2>3. ASSUME NEW q \in Runs
          PROVE  /\ run'[q].status = "none" <=> task'[q] = "none"
                 /\ task'[q] = "cancel_requested" => run'[q].status = "cancelling"
                 /\ task'[q] = "executed" => ~run'[q].dry
      <3>1. CASE q = r
        BY <2>2, <3>1, Zenon
      <3>2. CASE q # r
        BY <1>6, <1>7, <3>2, Zenon DEF LeaseInv, RowsWellFormed, RunsMatchTasks
      <3> QED
        BY <3>1, <3>2, Zenon
    <2>4. ASSUME NEW q \in Runs \ FixtureRuns, run'[q].dry
          PROVE  run'[q].status \in {"none", "passed"}
      BY <1>6, <1>8, <2>4, Zenon DEF LeaseInv, RowsWellFormed, RunsMatchTasks
    <2> QED
      BY <2>3, <2>4, Zenon DEF RunsMatchTasks
  <1>14. ActiveLeaseHoldsTask'
    <2> SUFFICES ASSUME NEW k \in LeaseIds, lease[k].status = "active",
                        ~lease[k].released
                 PROVE  task'[lease[k].task] = "leased"
      BY <1>3, Zenon DEF ActiveLeaseHoldsTask, Active
    <2>1. lease[k].task \in Runs /\ task[lease[k].task] = "leased"
      BY Zenon DEF LeaseInv, RowsWellFormed, LeasesNamed, ActiveLeaseHoldsTask, Active
    <2>2. CASE lease[k].task = r
      BY <1>10, <2>1, <2>2, Zenon
    <2>3. CASE lease[k].task # r
      BY <1>7, <2>1, <2>3, Zenon
    <2> QED
      BY <2>2, <2>3, Zenon
  <1>15. LeasedTaskAccounted' /\ PassedTaskWasCompleted'
    <2>1. \A q \in Runs : task'[q] \in {"leased", "passed"} => task'[q] = task[q]
      <3> SUFFICES ASSUME NEW q \in Runs, task'[q] \in {"leased", "passed"}
                   PROVE  task'[q] = task[q]
        BY Zenon
      <3>1. CASE q = r
        BY <1>10, <3>1, Zenon
      <3>2. CASE q # r
        BY <1>7, <3>2, Zenon
      <3> QED
        BY <3>1, <3>2, Zenon
    <2>2. LeasedTaskAccounted'
      BY SMTT(30), <1>3, <2>1 DEF LeaseInv, LeasedTaskAccounted
    <2>3. PassedTaskWasCompleted'
      BY SMTT(30), <1>3, <2>1 DEF LeaseInv, PassedTaskWasCompleted
    <2> QED
      BY <2>2, <2>3, Zenon
  <1>16. ExecutionRunsUncontrolled'
    BY <1>6, <1>8, Zenon DEF LeaseInv, ExecutionRunsUncontrolled
  <1>17. CancelledRunSettlesTask'
    <2> SUFFICES ASSUME NEW q \in Runs, run'[q].status = "cancelled",
                        task'[q] # "cancelled"
                 PROVE  \E k \in LeaseIds : lease[k].task = q
      BY <1>3, Zenon DEF CancelledRunSettlesTask
    <2>1. CASE q # r \/ old = "cancelled"
      BY <1>6, <1>7, <1>10, <2>1, Zenon DEF LeaseInv, CancelledRunSettlesTask, old
    <2>2. CASE q = r /\ old # "cancelled"
      <3>1. old = "queued" /\ run[r].dry /\ req.action = "cancel" /\ status = "cancelled"
        BY <1>6, <1>9, <2>2, Zenon
      <3>2. task[r] \notin {"queued", "needs_recovery", "cancelled"}
        BY <1>7, <2>2, <3>1, Zenon DEF CancelledTaskStatus
      <3>3. task[r] \notin {"none", "cancel_requested", "executed"}
        BY <1>1, <3>1, Zenon DEF LeaseInv, RowsWellFormed, RunsMatchTasks, old
      <3>4. task[r] \in {"leased", "passed"}
        BY <1>1, <1>4, <3>2, <3>3, Zenon DEF TaskStatuses
      <3>5. CASE task[r] = "leased"
        BY <1>1, <2>2, <3>5, Zenon DEF LeaseInv, LeasedTaskAccounted
      <3>6. CASE task[r] = "passed"
        BY <1>1, <2>2, <3>6, Zenon DEF LeaseInv, PassedTaskWasCompleted
      <3> QED
        BY <3>4, <3>5, <3>6, Zenon
    <2> QED
      BY <2>1, <2>2, Zenon
  <1>18. AcquiresNamed' /\ AcquireExactlyOnce' /\ AttemptsBackedByLeases'
    <2>1. LeasesEndure
      BY <1>3, Zenon DEF LeasesEndure
    <2> QED
      BY <1>3, <2>1, AcquiresKept, AttemptsKept, Zenon
  <1> QED
    BY <1>11, <1>12, <1>13, <1>14, <1>15, <1>16, <1>17, <1>18, Zenon
       DEF LeaseInv, RowsWellFormed

-----------------------------------------------------------------------------
(* Every command preserves the invariant; specifications that add commands
   to this one build on it.                                                *)
LEMMA NextInv == LeaseInv /\ [Next]_vars => LeaseInv'
  <1> SUFFICES ASSUME LeaseInv, [Next]_vars PROVE LeaseInv'
    BY Zenon
  <1>1. ASSUME NEW w \in Workers,
               \/ \E caps \in SUBSET Capabilities : RegisterWorker(w, caps)
               \/ \E status \in HeartbeatStatuses : RecordWorkerHeartbeat(w, status)
        PROVE  LeaseInv'
    BY <1>1, WorkerStepInv, Zenon
  <1>2. ASSUME NEW r \in Runs, PreviewRunner(r) \/ QueueExecution(r)
        PROVE  LeaseInv'
    BY <1>2, CreateRunInv, Zenon
  <1>3. ASSUME NEW l \in LeaseIds, Expire(l) PROVE LeaseInv'
    BY <1>3, ExpireInv, Zenon
  <1>4. CASE AcquireStep
    <2>1. PICK req \in Requests, key \in AcquireKeys :
            \/ AcquireLeaseDenied(req, key)
            \/ \E R \in SUBSET LeaseIds, l \in LeaseIds :
                 AcquireLease(req, key, R, l)
      BY <1>4, Zenon DEF AcquireStep
    <2> QED
      BY <2>1, AcquireDeniedInv, AcquireInv, Zenon
  <1>5. ASSUME NEW w \in Workers, NEW l \in LeaseIds,
               NEW status \in ReleaseStatuses, ReleaseLease(w, l, status)
        PROVE  LeaseInv'
    BY <1>5, ReleaseInv, Zenon
  <1>6. ASSUME NEW R \in SUBSET LeaseIds, RecoverExpiredLeases(R)
        PROVE  LeaseInv'
    <2>1. R \in RecoverySets(RecoverLimit)
      BY <1>6, Zenon DEF RecoverExpiredLeases
    <2> QED
      BY <1>6, <2>1, RecoverInv, Zenon DEF RecoverExpiredLeases
  <1>7. CASE RunOnceStep
    <2>1. PICK w \in Workers, caps \in RequestedCapabilities,
               R \in SUBSET LeaseIds, asked \in AskedRuns :
            \/ RunWorkerOnceIdle(w, caps, R, asked)
            \/ \E t \in Runs, l \in LeaseIds : RunWorkerOnce(w, caps, R, asked, t, l)
            \/ \E t \in Runs : RunWorkerOnceAborted(w, caps, R, asked, t)
      BY <1>7, Zenon DEF RunOnceStep
    <2>2. CASE RunWorkerOnceIdle(w, caps, R, asked)
      <3>1. /\ R \in RecoverySets(InlineRecoverLimit)
            /\ lease' = Recovered(R)
            /\ task' = task
            /\ UNCHANGED <<worker, run, acquired, controlled, attempts, reportFile>>
        BY <2>2, Zenon DEF RunWorkerOnceIdle
      <3> QED
        BY <3>1, RecoverInv, Zenon
    <2>3. ASSUME NEW t \in Runs, NEW l \in LeaseIds,
                 RunWorkerOnce(w, caps, R, asked, t, l)
          PROVE  LeaseInv'
      BY <2>3, RunOnceInv, Zenon
    <2>4. ASSUME NEW t \in Runs, RunWorkerOnceAborted(w, caps, R, asked, t)
          PROVE  LeaseInv'
      BY <2>4, AbortedInv, Zenon
    <2> QED
      BY <2>1, <2>2, <2>3, <2>4, Zenon
  <1>8. CASE ControlStep
    <2>1. PICK req \in ControlRequests, key \in ControlKeys :
            ControlRunDenied(req, key) \/ ControlRun(req, key)
      BY <1>8, Zenon DEF ControlStep
    <2> QED
      BY <2>1, ControlDeniedInv, ControlInv, Zenon
  <1>9. CASE UNCHANGED vars
    <2>1. TypeOK'
      BY <1>9, Zenon DEF vars, LeaseInv, TypeOK
    <2> QED
      BY <1>9, <2>1, TablesKept, AcquiresKept, AttemptsKept, Zenon
         DEF vars, LeaseInv, RowsWellFormed
  <1> QED
    BY <1>1, <1>2, <1>3, <1>4, <1>5, <1>6, <1>7, <1>8, <1>9, Zenon DEF Next

(* Every step keeps the rows of the leases table. *)
LEMMA RowsKept == LeaseInv /\ [Next]_vars => \A l \in LeaseIds : RowKept(l)
  <1> SUFFICES ASSUME LeaseInv, [Next]_vars, NEW k \in LeaseIds PROVE RowKept(k)
    BY Zenon
  <1>1. CASE lease' = lease
    BY <1>1, Zenon DEF RowKept
  <1>2. ASSUME NEW l \in LeaseIds, Expire(l) PROVE RowKept(k)
    <2>1. /\ lease \in [LeaseIds -> LeaseRows]
          /\ lease' = [lease EXCEPT ![l].expired = TRUE]
          /\ lease[l].status = "active"
      BY <1>2, Zenon DEF LeaseInv, TypeOK, LeaseRows, Expire, Active
    <2>2. CASE k = l
      BY <2>1, <2>2 DEF LeaseRows, RowKept
    <2>3. CASE k # l
      BY <2>1, <2>3, Zenon DEF RowKept
    <2> QED
      BY <2>2, <2>3, Zenon
  <1>3. ASSUME NEW limit, NEW R \in RecoverySets(limit), lease' = Recovered(R)
        PROVE  RowKept(k)
    BY SMTT(30), <1>3, RecoveredRows DEF LeaseInv, RowKept
  <1>4. ASSUME NEW R \in RecoverySets(InlineRecoverLimit), NEW w \in Workers,
               NEW t \in Runs, NEW l \in LeaseIds,
               NEW status \in {"active", "completed"}, Granted(R, w, t, l, status)
        PROVE  RowKept(k)
    <2>1. LeaseGranted(w, t, l, status)
      BY <1>4, GrantedRows, Zenon
    <2> QED
      BY <2>1, Zenon DEF LeaseGranted, RowKept
  <1>5. ASSUME NEW w \in Workers, NEW l \in LeaseIds,
               NEW status \in ReleaseStatuses, ReleaseLease(w, l, status)
        PROVE  RowKept(k)
    <2>1. lease \in [LeaseIds -> LeaseRows]
      BY Zenon DEF LeaseInv, TypeOK, LeaseRows
    <2>2. /\ lease' = Released(lease, l, status)
          /\ lease[l].status = "active"
      BY <1>5, Zenon DEF ReleaseLease, Active
    <2> QED
      <3>1. RowReleased(Released(lease, l, status), l, status)
        BY <2>1, ReleasedRow
      <3> QED
        BY <2>2, <3>1, Zenon DEF RowReleased, RowKept
  <1>6. CASE AcquireStep
    <2>1. PICK req \in Requests, key \in AcquireKeys :
            \/ AcquireLeaseDenied(req, key)
            \/ \E R \in SUBSET LeaseIds, l \in LeaseIds :
                 AcquireLease(req, key, R, l)
      BY <1>6, Zenon DEF AcquireStep
    <2>2. req.worker \in Workers /\ req.task \in Runs
      BY Zenon DEF Requests
    <2>3. ASSUME NEW R \in SUBSET LeaseIds, NEW l \in LeaseIds,
                 AcquireLease(req, key, R, l)
          PROVE  RowKept(k)
      <3>1. /\ R \in RecoverySets(InlineRecoverLimit)
            /\ Granted(R, req.worker, req.task, l, "active")
        BY <2>3, AcquireGrants, Zenon
      <3> QED
        BY <3>1, <2>2, <1>4, Zenon
    <2> QED
      BY <2>1, <2>3, <1>1, Zenon DEF AcquireLeaseDenied
  <1>7. CASE RunOnceStep
    <2>1. ASSUME NEW w \in Workers, NEW caps, NEW R, NEW asked \in AskedRuns,
                 NEW t \in Runs, NEW l \in LeaseIds,
                 RunWorkerOnce(w, caps, R, asked, t, l)
          PROVE  RowKept(k)
      <3>1. R \in RecoverySets(InlineRecoverLimit) /\ Granted(R, w, t, l, "completed")
        BY <2>1, PollGrants, Zenon
      <3> QED
        BY <3>1, <1>4, Zenon
    <2>2. ASSUME NEW w, NEW caps, NEW R, NEW asked,
                 RunWorkerOnceIdle(w, caps, R, asked)
          PROVE  RowKept(k)
      BY <2>2, <1>3, Zenon DEF RunWorkerOnceIdle
    <2>3. ASSUME NEW w, NEW caps, NEW R, NEW asked, NEW t,
                 RunWorkerOnceAborted(w, caps, R, asked, t)
          PROVE  RowKept(k)
      BY <2>3, <1>1, Zenon DEF RunWorkerOnceAborted
    <2> QED
      BY <1>7, <2>1, <2>2, <2>3, Zenon DEF RunOnceStep
  <1>8. ASSUME NEW R, RecoverExpiredLeases(R) PROVE RowKept(k)
    BY <1>8, <1>3, Zenon DEF RecoverExpiredLeases
  <1>9. CASE ControlStep
    BY <1>9, <1>1, Zenon DEF ControlStep, ControlRun, ControlRunDenied
  <1>10. CASE \/ \E w \in Workers, caps \in SUBSET Capabilities : RegisterWorker(w, caps)
              \/ \E w \in Workers, status \in HeartbeatStatuses :
                   RecordWorkerHeartbeat(w, status)
              \/ \E r \in Runs : PreviewRunner(r) \/ QueueExecution(r)
              \/ UNCHANGED vars
    BY <1>10, <1>1, Zenon
       DEF RegisterWorker, RecordWorkerHeartbeat, PreviewRunner, QueueExecution, vars
  <1> QED
    BY <1>2, <1>5, <1>6, <1>7, <1>8, <1>9, <1>10, Zenon DEF Next

(* The invariant holds in every state the commands reach. *)
THEOREM Invariance == Spec => []LeaseInv
  BY InitInv, NextInv, PTL DEF Spec

(* The rows stay within the schema: the invariant TypeOK of the runs. *)
THEOREM TypeCorrect == Spec => []TypeOK
  BY Invariance, PTL DEF LeaseInv

(* No task is ever leased twice at once, for any number of workers, tasks,
   leases and keys: the promise of leases_active_run_task_idx survives every
   order of acquires, polls, releases, recoveries and expiries.            *)
THEOREM MutualExclusion == Spec => []OneActiveLeasePerTask
  BY Invariance, PTL DEF LeaseInv

(* While a lease is active and its holder has not given it back, no command
   but its holder's release, or its own recovery, moves the task, whatever
   status strings releases store (releaseLeaseForWorker).                  *)
THEOREM HolderKeepsTask == Spec => []ActiveLeaseHoldsTask
  BY Invariance, PTL DEF LeaseInv

(* Both together: a task has one active lease at a time, and is the holder's
   until it is given back or recovered (the unique index and
   insertLeaseForTask, releaseLeaseForWorker, recoverExpiredLeases).       *)
THEOREM ExclusiveLeases == Spec => []LeaseIsExclusive
  BY MutualExclusion, HolderKeepsTask, PTL DEF LeaseIsExclusive

(* Tasks pass only by a completed lease, and are 'leased' only by an active
   or an expired one.                                                      *)
THEOREM TaskStatusExplained == Spec => [](LeasedTaskAccounted /\ PassedTaskWasCompleted)
  BY Invariance, PTL DEF LeaseInv

(* lease.acquire takes effect at most once per idempotency key. *)
THEOREM AcquireIdempotent == Spec => []AcquireExactlyOnce
  BY Invariance, PTL DEF LeaseInv

(* Run control never moves an execution run, and a cancel settles the task
   of the run it cancels.                                                  *)
THEOREM ControlProtected ==
    Spec => [](ExecutionRunsUncontrolled /\ CancelledRunSettlesTask)
  BY Invariance, PTL DEF LeaseInv

(* An attempt of a poll always has its own completed lease and a report. *)
THEOREM AttemptsExplained == Spec => []AttemptsBackedByLeases
  BY Invariance, PTL DEF LeaseInv

(* The leases table is a history: a closed lease is never reopened, one given
   back is not held again, and no lease ever changes hands.                *)
THEOREM HistoryKept == Spec => LeaseHistoryKept
  <1>1. LeaseInv /\ [Next]_vars => [\A l \in LeaseIds : RowKept(l)]_vars
    BY RowsKept, Zenon
  <1> QED
    BY Invariance, <1>1, PTL DEF Spec, LeaseHistoryKept

-----------------------------------------------------------------------------
(***************************************************************************)
(* Executions over the leases.                                             *)
(***************************************************************************)

(* The run is one of an execution command and its work is done. *)
Finished(r) == ~run[r].dry /\ run[r].status \in {"passed", "executed"}

(* The finished execution runs are exactly those with an attempt. *)
FinishedByExecution ==
    \A r \in Runs : Finished(r) <=> \E e \in executions : e.run = r

(* An attempt's lease is completed, and is its worker's on its run. *)
ExecutionsLeased ==
    \A e \in executions :
        /\ lease[e.lease].status = "completed"
        /\ lease[e.lease].worker = e.worker
        /\ lease[e.lease].task = e.run

(* An attempt has its command row, a key has one row, and the allowed rows
   are those with an attempt.                                              *)
CommandsMatchExecutions ==
    /\ \A e \in executions : \E a \in applied : a.key = e.key
    /\ \A a, b \in applied : a.key = b.key => a = b
    /\ \A a \in applied :
         a.decision = "allowed" <=> \E e \in executions : e.key = a.key

(* A call whose gate has got past the approval saw an approval record, and
   such records are never removed.                                         *)
CallsApproved ==
    \A c \in Clients :
        InCall(c) /\ call[c].pass /\ call[c].read >= 3 => everApproved

ApprovalsRemembered ==
    /\ decision = "approved" => everApproved
    /\ executions # {} => everApproved

ExecutionInv ==
    /\ ExecutionTypeOK
    /\ LeaseInv
    /\ FinishedByExecution
    /\ ExecutionsLeased
    /\ CommandsMatchExecutions
    /\ CallsApproved
    /\ ApprovalsRemembered
    /\ ExecutedAtMostOnce

-----------------------------------------------------------------------------
(* What a query of ExecutionApprovalGate answers is yes or no. *)
LEMMA FactsAreAnswers ==
    ASSUME NEW i \in 1..Read, NEW req
    PROVE  GateFacts(Facts[i], req) \subseteq BOOLEAN
  <1>1. i \in 1..7
    BY Zenon DEF Read, Facts
  <1>2. i = 1 \/ i = 2 \/ i = 3 \/ i = 4 \/ i = 5 \/ i = 6 \/ i = 7
    BY <1>1
  <1>3. Facts[i] \in {"run", "tasks", "approval", "approval_gate",
                      "live_mapping_gate", "engine", "workers"}
    BY <1>2 DEF Facts
  <1> QED
    BY <1>3, Zenon DEF GateFacts

(* The third query is the one that reads the latest approval record. *)
LEMMA ThirdFactIsApproval ==
    ASSUME NEW req
    PROVE  GateFacts(Facts[3], req) = {decision = "approved"}
  <1>1. Facts[3] = "approval"
    BY Zenon DEF Facts
  <1> QED
    BY <1>1, Zenon DEF GateFacts

-----------------------------------------------------------------------------
(* Neither workers, nor leases, nor run control finish an execution run or
   take one back: only the execution commands do.                          *)
LEMMA LeaseStepsFinishNothing ==
    ASSUME LeaseInv, Next, NEW r \in Runs
    PROVE  Finished(r)' <=> Finished(r)
  <1>0. run \in [Runs -> [status : RunStatuses, dry : BOOLEAN]]
    BY Zenon DEF LeaseInv, TypeOK
  <1>1. CASE run' = run
    BY <1>1, Zenon DEF Finished
  <1>2. ASSUME NEW k \in Runs, PreviewRunner(k) \/ QueueExecution(k)
        PROVE  Finished(r)' <=> Finished(r)
    <2>1. /\ run[k].status = "none"
          /\ \/ run' = [run EXCEPT ![k] = [status |-> "passed", dry |-> TRUE]]
             \/ run' = [run EXCEPT ![k] = [status |-> "queued", dry |-> FALSE]]
      BY <1>2, Zenon DEF PreviewRunner, QueueExecution
    <2>2. CASE r = k
      BY <1>0, <2>1, <2>2 DEF Finished
    <2>3. CASE r # k
      BY <1>0, <2>1, <2>3, Zenon DEF Finished
    <2> QED
      BY <2>2, <2>3, Zenon
  <1>3. ASSUME NEW req \in ControlRequests, NEW key, ControlRun(req, key)
        PROVE  Finished(r)' <=> Finished(r)
    <2>1. PICK status \in ControlOutcomes(req) :
            run' = [run EXCEPT ![req.run].status = status]
      BY <1>3, Zenon DEF ControlRun
    <2>2. req.run \in Runs
      BY Zenon DEF ControlRequests
    <2>3. status = run[req.run].status \/ run[req.run].dry
      BY Zenon DEF ControlOutcomes
    <2>4. run'[r].dry <=> run[r].dry
      BY <1>0, <2>1, <2>2, Zenon
    <2>5. ~run[r].dry => run'[r].status = run[r].status
      BY <1>0, <2>1, <2>2, <2>3, Zenon
    <2>6. CASE run[r].dry
      BY <2>4, <2>6, Zenon DEF Finished
    <2>7. CASE ~run[r].dry
      BY <2>4, <2>5, <2>7, Zenon DEF Finished
    <2> QED
      BY <2>6, <2>7, Zenon
  <1>4. CASE \E k \in Runs : PreviewRunner(k) \/ QueueExecution(k)
    BY <1>2, <1>4, Zenon
  <1>5. CASE ControlStep
    <2>1. PICK req \in ControlRequests, key \in ControlKeys :
            ControlRunDenied(req, key) \/ ControlRun(req, key)
      BY <1>5, Zenon DEF ControlStep
    <2> QED
      BY <2>1, <1>1, <1>3, Zenon DEF ControlRunDenied
  <1>6. CASE AcquireStep
    BY <1>6, <1>1 DEF AcquireStep, AcquireLease, AcquireLeaseDenied
  <1>7. CASE RunOnceStep
    <2>1. \A w, caps, R, asked : RunWorkerOnceIdle(w, caps, R, asked) => run' = run
      BY Zenon DEF RunWorkerOnceIdle
    <2>2. \A w, caps, R, asked, t, l :
            RunWorkerOnce(w, caps, R, asked, t, l) => run' = run
      BY DEF RunWorkerOnce
    <2>3. \A w, caps, R, asked, t :
            RunWorkerOnceAborted(w, caps, R, asked, t) => run' = run
      BY Zenon DEF RunWorkerOnceAborted
    <2> QED
      BY <1>7, <1>1, <2>1, <2>2, <2>3, Zenon DEF RunOnceStep
  <1>8. CASE \/ \E w \in Workers, caps \in SUBSET Capabilities : RegisterWorker(w, caps)
             \/ \E w \in Workers, status \in HeartbeatStatuses :
                  RecordWorkerHeartbeat(w, status)
             \/ \E l \in LeaseIds : Expire(l)
             \/ \E w \in Workers, l \in LeaseIds, status \in ReleaseStatuses :
                  ReleaseLease(w, l, status)
             \/ \E R \in SUBSET LeaseIds : RecoverExpiredLeases(R)
    BY <1>8, <1>1, Zenon DEF RegisterWorker, RecordWorkerHeartbeat, Expire, ReleaseLease,
       RecoverExpiredLeases
  <1> QED
    BY <1>4, <1>5, <1>6, <1>7, <1>8, Zenon DEF Next

(* A step of the workers, the leases or run control keeps the invariant. *)
LEMMA LeaseStepInv ==
    ASSUME ExecutionInv, Next, UNCHANGED <<approvalVars, executionVars>>
    PROVE  ExecutionInv'
  <1>1. LeaseInv'
    BY NextInv, Zenon DEF ExecutionInv
  <1>2. UNCHANGED <<decision, approvalGate, liveGate, everApproved, call, applied, executions>>
    BY Zenon DEF approvalVars, executionVars
  <1>3. ExecutionTypeOK'
    BY <1>1, <1>2, Zenon DEF ExecutionInv, ExecutionTypeOK, LeaseInv, Approval!TypeOK
  <1>4. FinishedByExecution'
    <2>1. \A r \in Runs : Finished(r)' <=> Finished(r)
      BY LeaseStepsFinishNothing, Zenon DEF ExecutionInv
    <2> QED
      BY <1>2, <2>1, Zenon DEF ExecutionInv, FinishedByExecution
  <1>5. ExecutionsLeased'
    <2> SUFFICES ASSUME NEW e \in executions
                 PROVE  /\ lease'[e.lease].status = "completed"
                        /\ lease'[e.lease].worker = e.worker
                        /\ lease'[e.lease].task = e.run
      BY <1>2, Zenon DEF ExecutionsLeased
    <2>1. e.lease \in LeaseIds
      BY Zenon DEF ExecutionInv, ExecutionTypeOK
    <2>2. RowKept(e.lease)
      BY <2>1, RowsKept, Zenon DEF ExecutionInv
    <2> QED
      BY <2>2, Zenon DEF ExecutionInv, ExecutionsLeased, RowKept
  <1>6. CommandsMatchExecutions' /\ ApprovalsRemembered' /\ ExecutedAtMostOnce'
    BY <1>2, Zenon DEF ExecutionInv, CommandsMatchExecutions, ApprovalsRemembered,
       ExecutedAtMostOnce
  <1>7. CallsApproved'
    BY <1>2, Zenon DEF ExecutionInv, CallsApproved, InCall
  <1> QED
    BY <1>1, <1>3, <1>4, <1>5, <1>6, <1>7, Zenon DEF ExecutionInv

(* A committed approval record or gate result keeps the invariant. *)
LEMMA ApprovalStepInv ==
    ASSUME ExecutionInv, Approval!Next, UNCHANGED <<vars, executionVars>>
    PROVE  ExecutionInv'
  <1>1. UNCHANGED <<worker, run, task, lease, acquired, controlled, attempts, reportFile,
                    call, applied, executions>>
    BY Zenon DEF vars, executionVars
  <1>2. LeaseInv'
    BY NextInv, Zenon DEF ExecutionInv, vars
  <1>3. /\ Approval!TypeOK'
        /\ everApproved => everApproved'
        /\ decision' = "approved" => everApproved'
    <2>1. ASSUME NEW d \in Approval!Decisions, Approval!Decide(d)
          PROVE  /\ Approval!TypeOK'
                 /\ everApproved => everApproved'
                 /\ decision' = "approved" => everApproved'
      <3>1. Approval!TypeOK /\ (decision = "approved" => everApproved)
        BY Zenon DEF ExecutionInv, ExecutionTypeOK, ApprovalsRemembered
      <3> QED
        BY <2>1, <3>1, Zenon DEF Approval!Decide, Approval!TypeOK, Approval!Decisions
    <2>2. ASSUME NEW status \in Approval!GateStatuses,
                 Approval!ApprovalGate(status) \/ Approval!LiveMappingGate(status)
          PROVE  /\ Approval!TypeOK'
                 /\ everApproved => everApproved'
                 /\ decision' = "approved" => everApproved'
      <3>1. Approval!TypeOK /\ (decision = "approved" => everApproved)
        BY Zenon DEF ExecutionInv, ExecutionTypeOK, ApprovalsRemembered
      <3> QED
        BY <2>2, <3>1, Zenon DEF Approval!ApprovalGate, Approval!LiveMappingGate,
           Approval!TypeOK, Approval!GateStatuses
    <2> QED
      BY <2>1, <2>2, Zenon DEF Approval!Next
  <1>4. ExecutionTypeOK'
    BY <1>1, <1>2, <1>3, Zenon DEF ExecutionInv, ExecutionTypeOK, LeaseInv
  <1>5. FinishedByExecution' /\ ExecutionsLeased'
    BY <1>1, Zenon DEF ExecutionInv, FinishedByExecution, Finished, ExecutionsLeased
  <1>6. CommandsMatchExecutions' /\ ExecutedAtMostOnce'
    BY <1>1, Zenon DEF ExecutionInv, CommandsMatchExecutions, ExecutedAtMostOnce
  <1>7. CallsApproved' /\ ApprovalsRemembered'
    BY <1>1, <1>3, Zenon DEF ExecutionInv, CallsApproved, InCall, ApprovalsRemembered
  <1> QED
    BY <1>2, <1>4, <1>5, <1>6, <1>7, Zenon DEF ExecutionInv

-----------------------------------------------------------------------------
CallRecords ==
    [req : ApplyRequests, key : ExecutionKeys, read : 0..Read, pass : BOOLEAN]

(* A client that is in a call has a request. *)
LEMMA CallIsRecord ==
    ASSUME ExecutionTypeOK, NEW c \in Clients, InCall(c)
    PROVE  /\ call[c] \in CallRecords
           /\ call[c].req \in ApplyRequests
           /\ call[c].req.worker \in Workers
           /\ call[c].req.run \in Runs
           /\ call[c].key \in ExecutionKeys
  <1>1. call[c] \in CallRecords
    BY Zenon DEF ExecutionTypeOK, InCall, CallRecords
  <1>2. call[c].req \in ApplyRequests /\ call[c].key \in ExecutionKeys
    BY <1>1, Zenon DEF CallRecords
  <1> QED
    BY <1>1, <1>2, Zenon DEF ApplyRequests

(* A client's call may start, end or read on without any row changing; what
   it saw of the approval must be so.                                      *)
LEMMA CallMovesInv ==
    ASSUME ExecutionInv, NEW c \in Clients, NEW new \in {NoCall} \cup CallRecords,
           new # NoCall /\ new.pass /\ new.read >= 3 => everApproved,
           call' = [call EXCEPT ![c] = new],
           UNCHANGED <<vars, approvalVars, applied, executions>>
    PROVE  ExecutionInv'
  <1>1. UNCHANGED <<worker, run, task, lease, acquired, controlled, attempts, reportFile,
                    decision, approvalGate, liveGate, everApproved, applied, executions>>
    BY Zenon DEF vars, approvalVars
  <1>2. LeaseInv'
    BY NextInv, Zenon DEF ExecutionInv, vars
  <1>3. call \in [Clients -> {NoCall} \cup CallRecords]
    BY Zenon DEF ExecutionInv, ExecutionTypeOK, CallRecords
  <1>4. /\ call' \in [Clients -> {NoCall} \cup CallRecords]
        /\ call'[c] = new
        /\ \A d \in Clients \ {c} : call'[d] = call[d]
    BY <1>3, Zenon
  <1>5. ExecutionTypeOK'
    BY <1>1, <1>2, <1>4, Zenon
       DEF ExecutionInv, ExecutionTypeOK, LeaseInv, Approval!TypeOK, CallRecords
  <1>6. FinishedByExecution' /\ ExecutionsLeased'
    BY <1>1, Zenon DEF ExecutionInv, FinishedByExecution, Finished, ExecutionsLeased
  <1>7. CommandsMatchExecutions' /\ ExecutedAtMostOnce' /\ ApprovalsRemembered'
    BY <1>1, Zenon DEF ExecutionInv, CommandsMatchExecutions, ExecutedAtMostOnce,
       ApprovalsRemembered
  <1>8. CallsApproved'
    BY <1>1, <1>4, Zenon DEF ExecutionInv, CallsApproved, InCall
  <1> QED
    BY <1>2, <1>5, <1>6, <1>7, <1>8, Zenon DEF ExecutionInv

(* A call starts with nothing read. *)
LEMMA CallExecutionInv ==
    ASSUME ExecutionInv, NEW c \in Clients, NEW req \in ApplyRequests,
           NEW key \in ExecutionKeys, CallExecution(c, req, key)
    PROVE  ExecutionInv'
  <1> DEFINE new == [req |-> req, key |-> key, read |-> 0, pass |-> TRUE]
  <1>1. new \in CallRecords /\ ~(new.read >= 3)
    BY DEF CallRecords, Read, Facts
  <1>2. /\ call' = [call EXCEPT ![c] = new]
        /\ UNCHANGED <<vars, approvalVars, applied, executions>>
    BY Zenon DEF CallExecution
  <1> HIDE DEF new
  <1> QED
    BY <1>1, <1>2, CallMovesInv, Zenon

(* The approval query sees a record or blocks the call; the others find
   approved what the call had found so before.                             *)
LEMMA ReadFactInv ==
    ASSUME ExecutionInv, NEW c \in Clients, ReadFact(c)
    PROVE  ExecutionInv'
  <1>1. PICK r : r = call[c]
    BY Zenon
  <1>2. /\ r \in CallRecords
        /\ InCall(c)
        /\ r.read < Read /\ r.pass
    BY <1>1, CallIsRecord, Zenon DEF ReadFact, ExecutionInv
  <1>3. /\ r.read \in 0..7 /\ Read = 7
        /\ r.read + 1 \in 1..Read
    BY <1>2 DEF CallRecords, Read, Facts
  <1>4. PICK holds \in GateFacts(Facts[r.read + 1], r.req) :
          call' = [call EXCEPT ![c].read = @ + 1, ![c].pass = @ /\ holds]
    BY <1>1, Zenon DEF ReadFact
  <1>5. holds \in BOOLEAN
    BY <1>3, FactsAreAnswers, Zenon
  <1> DEFINE new == [r EXCEPT !.read = r.read + 1, !.pass = r.pass /\ holds]
  <1>6. call' = [call EXCEPT ![c] = new]
    BY <1>1, <1>4, Zenon
  <1>7. /\ new \in CallRecords
        /\ new.read = r.read + 1
        /\ new.pass => holds
    <2>1. (r.pass /\ holds) \in BOOLEAN
      BY Zenon
    <2>2. r.read + 1 \in 0..Read
      BY <1>3
    <2>3. new \in CallRecords
      BY <1>2, <2>1, <2>2, Zenon DEF CallRecords
    <2>4. new.read = r.read + 1
      BY <1>2, Zenon DEF CallRecords
    <2>5. new.pass = (r.pass /\ holds)
      BY <1>2, Zenon DEF CallRecords
    <2> QED
      BY <2>3, <2>4, <2>5, Zenon
  <1>8. r.read >= 3 => everApproved
    BY <1>1, <1>2, Zenon DEF ExecutionInv, CallsApproved
  <1>9. ASSUME r.read = 2, holds PROVE everApproved
    <2>0. r.read + 1 = 3
      BY <1>9
    <2>1. holds \in GateFacts(Facts[3], r.req)
      BY <1>4, <2>0, Zenon
    <2>2. holds = (decision = "approved")
      BY <2>1, ThirdFactIsApproval, Zenon
    <2> QED
      BY <1>9, <2>2, Zenon DEF ExecutionInv, ApprovalsRemembered
  <1> HIDE DEF new
  <1>10. new.pass /\ new.read >= 3 => everApproved
    BY <1>3, <1>7, <1>8, <1>9
  <1>11. UNCHANGED <<vars, approvalVars, applied, executions>>
    BY Zenon DEF ReadFact
  <1> QED
    BY <1>6, <1>7, <1>10, <1>11, CallMovesInv, Zenon

(* A replay or an error ends the call and leaves no trace. *)
LEMMA CallEndsInv ==
    ASSUME ExecutionInv, NEW c \in Clients, ReplayExecution(c) \/ AbortExecution(c)
    PROVE  ExecutionInv'
  <1>1. /\ call' = [call EXCEPT ![c] = NoCall]
        /\ UNCHANGED <<vars, approvalVars, applied, executions>>
    BY Zenon DEF ReplayExecution, AbortExecution, CallEnds
  <1> QED
    BY <1>1, CallMovesInv, Zenon

-----------------------------------------------------------------------------
(* The call's end leaves the other calls as they were. *)
LEMMA OthersCall ==
    ASSUME ExecutionInv, NEW c \in Clients, CallEnds(c), everApproved' = everApproved
    PROVE  /\ call' \in [Clients -> {NoCall} \cup CallRecords]
           /\ CallsApproved'
  <1>1. call \in [Clients -> {NoCall} \cup CallRecords]
    BY Zenon DEF ExecutionInv, ExecutionTypeOK, CallRecords
  <1>2. /\ call' \in [Clients -> {NoCall} \cup CallRecords]
        /\ call'[c] = NoCall
        /\ \A d \in Clients \ {c} : call'[d] = call[d]
    BY <1>1, Zenon DEF CallEnds
  <1> QED
    BY <1>2, Zenon DEF ExecutionInv, CallsApproved, InCall

(* The command's row carries its key, its request and the outcome. *)
LEMMA RowOfCommand ==
    ASSUME ExecutionInv, NEW c \in Clients, InCall(c), NEW outcome \in {"allowed", "denied"}
    PROVE  /\ CommandRow(c, outcome) \in [key : ExecutionKeys, req : ApplyRequests,
                                          decision : {"allowed", "denied"}]
           /\ CommandRow(c, outcome).key = call[c].key
           /\ CommandRow(c, outcome).decision = outcome
  BY CallIsRecord, Zenon DEF ExecutionInv, CommandRow

(* A denial takes a key no attempt has, and changes nothing else. *)
LEMMA DenyInv ==
    ASSUME ExecutionInv, NEW c \in Clients, NEW permitted \in BOOLEAN,
           DenyExecution(c, permitted)
    PROVE  ExecutionInv'
  <1>1. UNCHANGED <<worker, run, task, lease, acquired, controlled, attempts, reportFile,
                    decision, approvalGate, liveGate, everApproved, executions>>
    BY Zenon DEF DenyExecution, vars, approvalVars
  <1>2. LeaseInv'
    BY <1>1, NextInv, Zenon DEF ExecutionInv, vars
  <1>3. PICK row : row = CommandRow(c, "denied")
    BY Zenon
  <1>4. /\ row \in [key : ExecutionKeys, req : ApplyRequests,
                    decision : {"allowed", "denied"}]
        /\ row.decision = "denied"
        /\ \A a \in applied : a.key # row.key
        /\ applied' = applied \cup {row}
    BY <1>3, RowOfCommand, Zenon DEF DenyExecution, ReservesKey, GateRead
  <1>5. /\ call' \in [Clients -> {NoCall} \cup CallRecords]
        /\ CallsApproved'
    BY <1>1, OthersCall, Zenon DEF DenyExecution
  <1>6. ExecutionTypeOK'
    BY <1>1, <1>2, <1>4, <1>5, Zenon
       DEF ExecutionInv, ExecutionTypeOK, LeaseInv, Approval!TypeOK, CallRecords
  <1>7. CommandsMatchExecutions'
    <2>1. \A e \in executions : \E a \in applied : a.key = e.key
      BY Zenon DEF ExecutionInv, CommandsMatchExecutions
    <2>2. \A e \in executions' : \E a \in applied' : a.key = e.key
      BY <1>1, <1>4, <2>1, Zenon
    <2>3. \A a, b \in applied' : a.key = b.key => a = b
      BY <1>4, Zenon DEF ExecutionInv, CommandsMatchExecutions
    <2>4. ~\E e \in executions : e.key = row.key
      BY <1>4, <2>1, Zenon
    <2>5. \A a \in applied' :
            a.decision = "allowed" <=> \E e \in executions' : e.key = a.key
      BY <1>1, <1>4, <2>4, Zenon DEF ExecutionInv, CommandsMatchExecutions
    <2> QED
      BY <2>2, <2>3, <2>5, Zenon DEF CommandsMatchExecutions
  <1>8. FinishedByExecution' /\ ExecutionsLeased'
    BY <1>1, Zenon DEF ExecutionInv, FinishedByExecution, Finished, ExecutionsLeased
  <1>9. ExecutedAtMostOnce' /\ ApprovalsRemembered'
    BY <1>1, Zenon DEF ExecutionInv, ExecutedAtMostOnce, ApprovalsRemembered
  <1> QED
    BY <1>2, <1>5, <1>6, <1>7, <1>8, <1>9, Zenon DEF ExecutionInv

-----------------------------------------------------------------------------
(* What Execute does to the tables of WorkerLeases: a queued execution run
   without a holder gets a lease that is completed at once.                *)
Claimed(w, t, l, done) ==
    /\ ~run[t].dry /\ run[t].status = "queued"
    /\ CanInsertLease(lease, l, t)
    /\ lease' = Released(InsertLease(lease, l, w, t), l, "completed")
    /\ task' = [task EXCEPT ![t] = done]
    /\ run' = [run EXCEPT ![t].status = done]
    /\ UNCHANGED <<worker, acquired, controlled, attempts, reportFile>>

(* The leases table gains one completed row. *)
LEMMA ClaimedRows ==
    ASSUME LeaseInv, NEW w \in Workers, NEW t \in Runs, NEW l \in LeaseIds,
           NEW done \in {"passed", "executed"}, Claimed(w, t, l, done)
    PROVE  /\ lease' \in [LeaseIds -> LeaseRows]
           /\ lease[l].status = "none"
           /\ lease'[l].status = "completed"
           /\ lease'[l].task = t
           /\ lease'[l].worker = w
           /\ \A k \in LeaseIds \ {l} : lease'[k] = lease[k]
           /\ \A k \in LeaseIds : ~(lease[k].status = "active" /\ lease[k].task = t)
           /\ LeasesEndure
  <1>1. lease \in [LeaseIds -> LeaseRows]
    BY Zenon DEF LeaseInv, TypeOK, LeaseRows
  <1> DEFINE closed == GrantedRow(w, t, "completed")
  <1>2. /\ closed \in LeaseRows
        /\ closed.status = "completed" /\ closed.task = t /\ closed.worker = w
    BY GrantedRowType
  <1>3. lease' = [lease EXCEPT ![l] = closed]
    BY <1>1, CompletedRow DEF Claimed
  <1> HIDE DEF closed
  <1>4. /\ lease' \in [LeaseIds -> LeaseRows]
        /\ lease'[l] = closed
        /\ \A k \in LeaseIds \ {l} : lease'[k] = lease[k]
    BY <1>1, <1>2, <1>3, Zenon
  <1>5. /\ lease[l].status = "none"
        /\ \A k \in LeaseIds : ~(lease[k].status = "active" /\ lease[k].task = t)
    BY Zenon DEF Claimed, CanInsertLease, HasActiveLease, Active
  <1>6. LeasesEndure
    BY <1>4, <1>5, Zenon DEF LeasesEndure
  <1> QED
    BY <1>2, <1>4, <1>5, <1>6, Zenon

(* So it keeps every promise about leases, runs and tasks. *)
LEMMA ClaimedInv ==
    ASSUME LeaseInv, NEW w \in Workers, NEW t \in Runs, NEW l \in LeaseIds,
           NEW done \in {"passed", "executed"}, Claimed(w, t, l, done)
    PROVE  LeaseInv'
  <1>1. /\ lease' \in [LeaseIds -> LeaseRows]
        /\ lease[l].status = "none"
        /\ lease'[l].status = "completed"
        /\ lease'[l].task = t
        /\ lease'[l].worker = w
        /\ \A k \in LeaseIds \ {l} : lease'[k] = lease[k]
        /\ \A k \in LeaseIds : ~(lease[k].status = "active" /\ lease[k].task = t)
        /\ LeasesEndure
    BY ClaimedRows, Zenon
  <1>2. /\ run \in [Runs -> [status : RunStatuses, dry : BOOLEAN]]
        /\ task \in [Runs -> TaskStatuses]
    BY Zenon DEF LeaseInv, TypeOK
  <1>3. UNCHANGED <<worker, acquired, controlled, attempts, reportFile>>
    BY Zenon DEF Claimed
  <1>4. /\ task' \in [Runs -> TaskStatuses]
        /\ task'[t] = done
        /\ \A r \in Runs \ {t} : task'[r] = task[r]
    BY <1>2, Zenon DEF Claimed, TaskStatuses
  <1>5. /\ run' \in [Runs -> [status : RunStatuses, dry : BOOLEAN]]
        /\ run'[t].status = done
        /\ ~run'[t].dry
        /\ \A r \in Runs \ {t} : run'[r] = run[r]
    BY <1>2, Zenon DEF Claimed, RunStatuses
  <1>6. TypeOK'
    BY <1>1, <1>3, <1>4, <1>5, Zenon DEF LeaseInv, TypeOK, LeaseRows
  <1>7. LeasesNamed'
    <2>1. \A r \in Runs : task[r] # "none" => task'[r] # "none"
      BY <1>4, Zenon
    <2>2. task'[t] # "none"
      BY <1>4, Zenon
    <2> QED
      BY <1>1, <2>1, <2>2, ZenonT(30) DEF LeaseInv, RowsWellFormed, LeasesNamed
  <1>8. RunsMatchTasks'
    BY SMTT(30), <1>4, <1>5 DEF LeaseInv, RowsWellFormed, RunsMatchTasks
  <1>9. OneActiveLeasePerTask'
    BY <1>1, Zenon DEF LeaseInv, OneActiveLeasePerTask, Active
  <1>10. ActiveLeaseHoldsTask'
    BY SMTT(30), <1>1, <1>4 DEF LeaseInv, RowsWellFormed, LeasesNamed, ActiveLeaseHoldsTask, Active
  <1>11. LeasedTaskAccounted'
    BY SMTT(30), <1>1, <1>4 DEF LeaseInv, LeasedTaskAccounted
  <1>12. PassedTaskWasCompleted'
    BY SMTT(30), <1>1, <1>4 DEF LeaseInv, PassedTaskWasCompleted
  <1>13. ExecutionRunsUncontrolled'
    BY <1>5, Zenon DEF LeaseInv, ExecutionRunsUncontrolled
  <1>14. CancelledRunSettlesTask'
    <2> SUFFICES ASSUME NEW r \in Runs, run'[r].status = "cancelled",
                        task'[r] # "cancelled"
                 PROVE  \E k \in LeaseIds : lease'[k].task = r
      BY Zenon DEF CancelledRunSettlesTask
    <2>1. r # t
      BY <1>5, Zenon
    <2>2. PICK k \in LeaseIds : lease[k].task = r
      BY <1>4, <1>5, <2>1, Zenon DEF LeaseInv, CancelledRunSettlesTask
    <2>3. k # l
      BY <1>1, <2>2, ConstantsAssumption, Zenon DEF LeaseInv, RowsWellFormed, LeasesNamed
    <2> QED
      BY <1>1, <2>2, <2>3, Zenon
  <1> QED
    BY <1>1, <1>3, <1>6, <1>7, <1>8, <1>9, <1>10, <1>11, <1>12, <1>13, <1>14,
       AcquiresKept, AttemptsKept, Zenon DEF LeaseInv, RowsWellFormed

(* Execute is such a claim, by a call whose gate saw an approval. *)
LEMMA ExecuteClaims ==
    ASSUME ExecutionInv, NEW c \in Clients, NEW l \in LeaseIds,
           NEW done \in {"passed", "executed"}, Execute(c, l, done)
    PROVE  /\ Claimed(call[c].req.worker, call[c].req.run, l, done)
           /\ InCall(c)
           /\ everApproved
  <1>1. InCall(c) /\ call[c].pass /\ call[c].read = 7
    BY Zenon DEF Execute, ReservesKey, GateRead, Allows, Read, Facts
  <1>2. everApproved
    BY <1>1 DEF ExecutionInv, CallsApproved
  <1>3. Claimed(call[c].req.worker, call[c].req.run, l, done)
    BY Zenon DEF Execute, Allows, NextTaskForLease, Claimed
  <1> QED
    BY <1>1, <1>2, <1>3, Zenon

(* An execution finishes a run no attempt was made on, under a key no command
   had, with a lease of its own.                                           *)
LEMMA ExecuteInv ==
    ASSUME ExecutionInv, NEW c \in Clients, NEW l \in LeaseIds,
           NEW done \in {"passed", "executed"}, Execute(c, l, done)
    PROVE  ExecutionInv'
  <1>1. PICK w, t, key : w = call[c].req.worker /\ t = call[c].req.run /\ key = call[c].key
    BY Zenon
  <1>2. /\ Claimed(w, t, l, done)
        /\ InCall(c)
        /\ everApproved
    BY <1>1, ExecuteClaims, Zenon
  <1>3. w \in Workers /\ t \in Runs /\ key \in ExecutionKeys
    BY <1>1, <1>2, CallIsRecord, Zenon DEF ExecutionInv
  <1>4. LeaseInv'
    BY <1>2, <1>3, ClaimedInv, Zenon DEF ExecutionInv
  <1>5. /\ UNCHANGED <<decision, approvalGate, liveGate, everApproved>>
        /\ CallEnds(c)
    BY Zenon DEF Execute, approvalVars
  <1>6. PICK row : row = CommandRow(c, "allowed")
    BY Zenon
  <1>7. /\ row \in [key : ExecutionKeys, req : ApplyRequests,
                    decision : {"allowed", "denied"}]
        /\ row.decision = "allowed"
        /\ row.key = key
        /\ \A a \in applied : a.key # key
        /\ applied' = applied \cup {row}
    BY <1>1, <1>2, <1>6, RowOfCommand, Zenon DEF Execute, ReservesKey
  <1>8. PICK new : new = [run |-> t, worker |-> w, lease |-> l, key |-> key]
    BY Zenon
  <1>9. /\ executions' = executions \cup {new}
        /\ new \in [run : Runs, worker : Workers, lease : LeaseIds, key : ExecutionKeys]
        /\ new.run = t /\ new.worker = w /\ new.lease = l /\ new.key = key
    BY <1>1, <1>3, <1>8, Zenon DEF Execute
  <1>10. /\ lease[l].status = "none"
         /\ lease'[l].status = "completed"
         /\ lease'[l].task = t
         /\ lease'[l].worker = w
         /\ \A k \in LeaseIds \ {l} : lease'[k] = lease[k]
    BY SMTT(30), <1>2, <1>3, ClaimedRows DEF ExecutionInv
  <1>11. /\ ~Finished(t) /\ Finished(t)'
         /\ \A r \in Runs \ {t} : Finished(r)' <=> Finished(r)
    <2>1. run \in [Runs -> [status : RunStatuses, dry : BOOLEAN]]
      BY Zenon DEF ExecutionInv, LeaseInv, TypeOK
    <2>2. /\ ~run[t].dry /\ run[t].status = "queued"
          /\ run' = [run EXCEPT ![t].status = done]
      BY <1>2, Zenon DEF Claimed
    <2>3. /\ run'[t].status = done /\ ~run'[t].dry
          /\ \A r \in Runs \ {t} : run'[r] = run[r]
      BY <1>3, <2>1, <2>2, Zenon
    <2> QED
      BY <2>2, <2>3, Zenon DEF Finished
  <1>12. \A e \in executions : e.run # t
    BY <1>3, <1>11, Zenon DEF ExecutionInv, FinishedByExecution
  <1>13. call' \in [Clients -> {NoCall} \cup CallRecords] /\ CallsApproved'
    BY <1>5, OthersCall, Zenon
  <1>14. ExecutionTypeOK'
    BY <1>4, <1>5, <1>7, <1>9, <1>13, Zenon
       DEF ExecutionInv, ExecutionTypeOK, LeaseInv, Approval!TypeOK, CallRecords
  <1>15. FinishedByExecution'
    BY <1>9, <1>11, Zenon DEF ExecutionInv, FinishedByExecution
  <1>16. ExecutionsLeased'
    <2> SUFFICES ASSUME NEW e \in executions
                 PROVE  lease'[e.lease] = lease[e.lease]
      BY SMTT(30), <1>9, <1>10 DEF ExecutionInv, ExecutionsLeased
    <2>1. e.lease \in LeaseIds /\ lease[e.lease].status = "completed"
      BY Zenon DEF ExecutionInv, ExecutionTypeOK, ExecutionsLeased
    <2> QED
      BY <1>10, <2>1, Zenon
  <1>17. CommandsMatchExecutions'
    <2>1. \A e \in executions' : \E a \in applied' : a.key = e.key
      BY <1>7, <1>9, Zenon DEF ExecutionInv, CommandsMatchExecutions
    <2>2. \A a, b \in applied' : a.key = b.key => a = b
      BY <1>7, Zenon DEF ExecutionInv, CommandsMatchExecutions
    <2>3. ASSUME NEW a \in applied'
          PROVE  a.decision = "allowed" <=> \E e \in executions' : e.key = a.key
      <3>1. CASE a = row
        BY <1>7, <1>9, <3>1, Zenon
      <3>2. CASE a \in applied
        <4>1. a.key # key
          BY <1>7, <3>2, Zenon
        <4> QED
          BY <1>9, <3>2, <4>1, Zenon DEF ExecutionInv, CommandsMatchExecutions
      <3> QED
        BY <1>7, <3>1, <3>2, Zenon
    <2> QED
      BY <2>1, <2>2, <2>3, Zenon DEF CommandsMatchExecutions
  <1>18. ExecutedAtMostOnce'
    BY <1>9, <1>12, Zenon DEF ExecutionInv, ExecutedAtMostOnce
  <1>19. ApprovalsRemembered'
    BY <1>2, <1>5, Zenon DEF ExecutionInv, ApprovalsRemembered
  <1> QED
    BY <1>4, <1>13, <1>14, <1>15, <1>16, <1>17, <1>18, <1>19, Zenon DEF ExecutionInv

-----------------------------------------------------------------------------
LEMMA ExecutionInitInv == ExecutionInit => ExecutionInv
  <1> SUFFICES ASSUME ExecutionInit PROVE ExecutionInv
    BY Zenon
  <1>1. LeaseInv
    BY InitInv, Zenon DEF ExecutionInit
  <1>2. ExecutionTypeOK
    BY <1>1, Zenon DEF ExecutionInit, ExecutionTypeOK, LeaseInv, Approval!Init, Approval!TypeOK,
       Approval!Decisions, Approval!GateStatuses
  <1>3. FinishedByExecution
    <2>1. \A r \in Runs : ~Finished(r)
      BY Zenon DEF ExecutionInit, Init, Finished
    <2> QED
      BY <2>1, Zenon DEF ExecutionInit, FinishedByExecution
  <1>4. ExecutionsLeased /\ CommandsMatchExecutions /\ ExecutedAtMostOnce
    BY Zenon DEF ExecutionInit, ExecutionsLeased, CommandsMatchExecutions, ExecutedAtMostOnce
  <1>5. CallsApproved
    BY Zenon DEF ExecutionInit, CallsApproved, InCall
  <1>6. ApprovalsRemembered
    BY Zenon DEF ExecutionInit, Approval!Init, ApprovalsRemembered
  <1> QED
    BY <1>1, <1>2, <1>3, <1>4, <1>5, <1>6, Zenon DEF ExecutionInv

(* One step per action of the execution commands. *)
LEMMA ExecutionStepInv ==
    ASSUME ExecutionInv, ExecutionStep
    PROVE  ExecutionInv'
  <1>1. PICK c \in Clients :
          \/ \E req \in ApplyRequests, key \in ExecutionKeys :
               (key \in ApplyRequests => key = req) /\ CallExecution(c, req, key)
          \/ ReadFact(c)
          \/ ReplayExecution(c)
          \/ \E permitted \in BOOLEAN : DenyExecution(c, permitted)
          \/ \E l \in LeaseIds, done \in {"passed", "executed"} : Execute(c, l, done)
          \/ AbortExecution(c)
    BY Zenon DEF ExecutionStep
  <1>2. CASE \E req \in ApplyRequests, key \in ExecutionKeys : CallExecution(c, req, key)
    BY <1>2, CallExecutionInv, Zenon
  <1>3. CASE ReadFact(c)
    BY <1>3, ReadFactInv, Zenon
  <1>4. CASE ReplayExecution(c) \/ AbortExecution(c)
    BY <1>4, CallEndsInv, Zenon
  <1>5. CASE \E permitted \in BOOLEAN : DenyExecution(c, permitted)
    BY <1>5, DenyInv, Zenon
  <1>6. CASE \E l \in LeaseIds, done \in {"passed", "executed"} : Execute(c, l, done)
    BY <1>6, ExecuteInv, Zenon
  <1> QED
    BY <1>1, <1>2, <1>3, <1>4, <1>5, <1>6, Zenon

LEMMA ExecutionNextInv == ExecutionInv /\ [ExecutionNext]_allVars => ExecutionInv'
  <1> SUFFICES ASSUME ExecutionInv, [ExecutionNext]_allVars PROVE ExecutionInv'
    BY Zenon
  <1>1. CASE Next /\ UNCHANGED <<approvalVars, executionVars>>
    BY <1>1, LeaseStepInv, Zenon
  <1>2. CASE Approval!Next /\ UNCHANGED <<vars, executionVars>>
    BY <1>2, ApprovalStepInv, Zenon
  <1>3. CASE ExecutionStep
    BY <1>3, ExecutionStepInv, Zenon
  <1>4. CASE UNCHANGED allVars
    <2>1. UNCHANGED <<vars, worker, run, task, lease, acquired, controlled, attempts,
                      reportFile, decision, approvalGate, liveGate, everApproved,
                      call, applied, executions>>
      BY <1>4, Zenon DEF allVars, executionVars, vars, approvalVars
    <2>2. LeaseInv'
      BY <2>1, NextInv, Zenon DEF ExecutionInv
    <2>3. ExecutionTypeOK'
      BY <2>1, <2>2, Zenon DEF ExecutionInv, ExecutionTypeOK, LeaseInv, Approval!TypeOK
    <2>4. FinishedByExecution' /\ ExecutionsLeased' /\ CallsApproved'
      BY <2>1, Zenon DEF ExecutionInv, FinishedByExecution, Finished, ExecutionsLeased,
         CallsApproved, InCall
    <2>5. CommandsMatchExecutions' /\ ApprovalsRemembered' /\ ExecutedAtMostOnce'
      BY <2>1, Zenon DEF ExecutionInv, CommandsMatchExecutions, ApprovalsRemembered,
         ExecutedAtMostOnce
    <2> QED
      BY <2>2, <2>3, <2>4, <2>5, Zenon DEF ExecutionInv
  <1> QED
    BY <1>1, <1>2, <1>3, <1>4, Zenon DEF ExecutionNext

-----------------------------------------------------------------------------
(* The invariant holds in every state workers, approvers and callers reach. *)
THEOREM ExecutionInvariance == ExecutionSpec => []ExecutionInv
  BY ExecutionInitInv, ExecutionNextInv, PTL DEF ExecutionSpec

(* A run is executed at most once, for any number of callers that passed the
   gate before one of them began its transaction, and whatever workers do to
   the task in the meantime: the transaction looks at the run's status again
   (nextFixtureExecutionTaskForLease and its like) and no other command ever
   puts a finished execution run back to 'queued'.                         *)
THEOREM RunsExecuteOnce == ExecutionSpec => []ExecutedAtMostOnce
  BY ExecutionInvariance, PTL DEF ExecutionInv

(* The execution runs that are finished are those with an attempt, attempts
   have their own completed lease and an allowed command, and none was made
   before somebody approved, though the gate is read outside the transaction. *)
THEOREM ExecutionsAreAccounted == ExecutionSpec => []ExecutionAccounted
  <1>1. ExecutionInv => ExecutionAccounted
    <2> SUFFICES ASSUME ExecutionInv PROVE ExecutionAccounted
      BY Zenon
    <2>1. ASSUME NEW r \in Runs, ~run[r].dry
          PROVE  run[r].status \in {"passed", "executed"} <=>
                   \E e \in executions : e.run = r
      <3>1. Finished(r) <=> run[r].status \in {"passed", "executed"}
        BY <2>1, Zenon DEF Finished
      <3> QED
        BY <3>1, Zenon DEF ExecutionInv, FinishedByExecution
    <2>2. \A e \in executions :
            /\ lease[e.lease].status = "completed"
            /\ lease[e.lease].worker = e.worker
            /\ lease[e.lease].task = e.run
      BY Zenon DEF ExecutionInv, ExecutionsLeased
    <2>3. \A a \in applied :
            a.decision = "allowed" <=> \E e \in executions : e.key = a.key
      BY Zenon DEF ExecutionInv, CommandsMatchExecutions
    <2>4. executions # {} => everApproved
      BY Zenon DEF ExecutionInv, ApprovalsRemembered
    <2> QED
      BY <2>1, <2>2, <2>3, <2>4, Zenon DEF ExecutionAccounted
  <1> QED
    BY ExecutionInvariance, <1>1, PTL

(* The execution commands share the leases table with the workers and break
   none of its promises: a task still has one holder at a time, and attempts
   of polls keep their leases.                                             *)
THEOREM LeasesSurviveExecution ==
    ExecutionSpec => [](LeaseIsExclusive /\ AttemptsBackedByLeases)
  <1>1. ExecutionInv => LeaseIsExclusive /\ AttemptsBackedByLeases
    BY Zenon DEF ExecutionInv, LeaseInv, LeaseIsExclusive
  <1> QED
    BY ExecutionInvariance, <1>1, PTL

(* What the tables remember of executions is never taken back. *)
HistoryGrows ==
    /\ executions \subseteq executions'
    /\ applied \subseteq applied'
    /\ \A l \in LeaseIds : RowKept(l)

(* Attempts and command rows are only added, and a lease that left 'active'
   keeps its status, its worker and its task: no order of polls, recoveries,
   approvals and executions rewrites the record of an execution.           *)
THEOREM ExecutionHistoryKept == ExecutionSpec => [][HistoryGrows]_allVars
  <1>1. ASSUME ExecutionInv, [ExecutionNext]_allVars PROVE HistoryGrows
    <2>1. CASE UNCHANGED allVars
      BY <2>1, Zenon DEF allVars, vars, executionVars, HistoryGrows, RowKept
    <2>2. CASE Next /\ UNCHANGED <<approvalVars, executionVars>>
      <3>1. \A l \in LeaseIds : RowKept(l)
        BY <1>1, <2>2, RowsKept, Zenon DEF ExecutionInv
      <3> QED
        BY <2>2, <3>1, Zenon DEF executionVars, HistoryGrows
    <2>3. CASE Approval!Next /\ UNCHANGED <<vars, executionVars>>
      BY <2>3, Zenon DEF vars, executionVars, HistoryGrows, RowKept
    <2>4. ASSUME NEW c \in Clients, NEW l \in LeaseIds,
                 NEW done \in {"passed", "executed"}, Execute(c, l, done)
          PROVE  HistoryGrows
      <3>1. /\ Claimed(call[c].req.worker, call[c].req.run, l, done)
            /\ call[c].req.worker \in Workers /\ call[c].req.run \in Runs
        BY <1>1, <2>4, ExecuteClaims, CallIsRecord, Zenon DEF ExecutionInv
      <3>2. /\ lease[l].status = "none"
            /\ \A k \in LeaseIds \ {l} : lease'[k] = lease[k]
        BY SMTT(30), <1>1, <3>1, ClaimedRows DEF ExecutionInv
      <3>3. \A k \in LeaseIds : RowKept(k)
        BY <3>2, Zenon DEF RowKept
      <3> QED
        BY <2>4, <3>3, Zenon DEF Execute, HistoryGrows
    <2>5. ASSUME NEW c \in Clients,
                 \/ \E req, key : CallExecution(c, req, key)
                 \/ ReadFact(c) \/ ReplayExecution(c) \/ AbortExecution(c)
                 \/ \E permitted : DenyExecution(c, permitted)
          PROVE  HistoryGrows
      <3>1. lease' = lease /\ executions' = executions /\ applied \subseteq applied'
        BY <2>5, Zenon DEF CallExecution, ReadFact, ReplayExecution, AbortExecution,
           DenyExecution, vars
      <3> QED
        BY <3>1, Zenon DEF HistoryGrows, RowKept
    <2>6. CASE ExecutionStep
      BY <2>4, <2>5, <2>6, Zenon DEF ExecutionStep
    <2> QED
      BY <1>1, <2>1, <2>2, <2>3, <2>6, Zenon DEF ExecutionNext
  <1> QED
    BY ExecutionInvariance, <1>1, PTL DEF ExecutionSpec

=============================================================================
