-------------------------- MODULE ExecutionCommands --------------------------
(***************************************************************************)
(* The five pairs of execution commands in detail: QueueReadOnlyVerify and *)
(* VerifyReadOnly, QueueFixtureExecution and ExecuteFixture,               *)
(* QueueApprovedArtifactWrite and WriteApprovedArtifact,                   *)
(* QueueFixtureProjectWrite and WriteFixtureProject,                       *)
(* QueueManagedGeneratedWrite and WriteManagedGenerated.                   *)
(*                                                                         *)
(* GatedExecution has what they have in common with the leases, and        *)
(* ProjectWrite the drill on the project's file.  Here are the checks of   *)
(* each command, made one query at a time inside its transaction, the      *)
(* evidence it writes to the artifact store outside of it, and what it     *)
(* puts on record.                                                         *)
(***************************************************************************)
EXTENDS Naturals, Sequences, FiniteSets

CONSTANTS
    Callers,
    Jobs,         \* run ids; a run of these kinds has one task
    JobContents,  \* what a write is queued with
    ChosenKeys,   \* idempotency keys callers choose
    JobKinds,     \* the kinds played with
    Scope,        \* of the project's key and kind: "fixture", "temp" or "plain"
    Volatile,     \* the facts that may change
    MaxCalls,     \* bound on the execution calls
    MaxChanges,   \* bound on the changes of facts
    JobFaults,    \* what may go wrong, one of them once: "lost", "damaged"
    NoTurn

VARIABLES
    job,       \* runs, their tasks and write-set artifacts
    facts,     \* what the checks find true now
    turn,      \* the execution call each caller is in
    begun,     \* calls so far
    hold,      \* the call that has the run's row locked
    rows,      \* command_requests of the execution commands
    evidence,  \* artifacts rows of the runs
    store,     \* the objects of the artifact store
    replies,   \* history: what callers were told
    changes,   \* changes of facts so far
    faults     \* history: the faults that happened

executionCommandVars ==
    <<job, facts, turn, begun, hold, rows, evidence, store, replies, changes, faults>>

-----------------------------------------------------------------------------
(* What the callers of the queue commands have to give. *)
QueueReadOnlyVerify == {"authored", "target"}
QueueFixtureExecution == {"authored"}
QueueApprovedArtifactWrite == {"authored"}
QueueFixtureProjectWrite == {"authored", "target", "expected", "size"}
QueueManagedGeneratedWrite == {"authored", "target", "generated", "expected", "size"}

(* The runs and tasks they insert.  Writes are queued as a write-set. *)
ReadOnlyVerifyTask == [type |-> "read_only_verify_task", risk |-> "low", writeSet |-> FALSE]
FixtureExecutionTask == [type |-> "fixture_execution_task", risk |-> "low", writeSet |-> FALSE]
ApprovedArtifactTask == [type |-> "approved_artifact_write_task", risk |-> "low",
                         writeSet |-> FALSE]
FixtureProjectTask == [type |-> "fixture_project_write_task", risk |-> "medium",
                       writeSet |-> TRUE]
ManagedGeneratedTask == [type |-> "managed_generated_write_task", risk |-> "medium",
                         writeSet |-> TRUE]

(* The checks of the execution commands, in their order, under the command
   row.  "task" takes the run's task; what follows is about its path.      *)
VerifyReadOnly == <<"gate", "worker", "task", "read_project", "safe">>
ExecuteFixture == <<"gate", "worker", "task">>
WriteApprovedArtifact == <<"gate", "worker", "write_artifacts", "task">>
WriteFixtureProject ==
    <<"gate", "fixture", "worker", "write_artifacts", "task", "read_project", "write_code",
      "safe", "write_set", "preimage">>
WriteManagedGenerated ==
    <<"gate", "fixture_or_temp", "worker", "write_artifacts", "write_generated", "task",
      "generated", "read_project", "write_generated_path", "safe", "write_set", "preimage">>

(* What an allowed command leaves: the objects it stores, in their order,
   the attempts, the status of task and run, and what it says it did.      *)
ReadOnlyVerifyEffects ==
    [saves |-> <<"report">>, attempts |-> {"read_only_verify"}, done |-> "verified",
     did |-> {"project_read", "artifact", "state"}]
FixtureExecutionEffects ==
    [saves |-> <<"report">>, attempts |-> {"fixture_execution"}, done |-> "passed",
     did |-> {"artifact", "state"}]
ApprovedArtifactEffects ==
    [saves |-> <<"report">>, attempts |-> {"approved_artifact_write"},
     done |-> "artifact_written", did |-> {"artifact", "state"}]
FixtureProjectEffects ==
    [saves |-> <<"preimage", "report">>, attempts |-> {"copy", "verify", "rollback"},
     done |-> "rollback_verified",
     did |-> {"project_read", "project_write", "artifact", "state"}]
ManagedGeneratedEffects ==
    [saves |-> <<"preimage", "report">>, attempts |-> {"copy", "verify", "rollback"},
     done |-> "rollback_verified",
     did |-> {"project_read", "project_write", "artifact", "state"}]

(* What a refusal says was done: an expected-before that does not match was
   found by reading the file.                                              *)
RefusedReadOnlyVerify(blocker) == {}
RefusedFixtureExecution(blocker) == {}
RefusedApprovedArtifact(blocker) == {}
RefusedFixtureProject(blocker) == IF blocker = "preimage" THEN {"project_read"} ELSE {}
RefusedManagedGenerated(blocker) == IF blocker = "preimage" THEN {"project_read"} ELSE {}

(* What a replay loads again of an allowed command.  The replay of a managed
   generated write leaves out the attempts, the write-set and the preimage. *)
LoadReadOnlyVerify == {"task", "lease", "report", "read_only_verify"}
LoadFixtureExecution == {"task", "lease", "report", "fixture_execution"}
LoadApprovedArtifact == {"task", "lease", "report", "approved_artifact_write"}
LoadFixtureProject == {"task", "lease", "report", "write_set", "preimage", "copy", "verify",
                       "rollback"}
LoadManagedGenerated == {"task", "lease", "report"}

KindOf ==
    [read_only_verify |->
       [needs |-> QueueReadOnlyVerify, task |-> ReadOnlyVerifyTask, checks |-> VerifyReadOnly,
        effects |-> ReadOnlyVerifyEffects, loads |-> LoadReadOnlyVerify],
     fixture_execution |->
       [needs |-> QueueFixtureExecution, task |-> FixtureExecutionTask,
        checks |-> ExecuteFixture, effects |-> FixtureExecutionEffects,
        loads |-> LoadFixtureExecution],
     approved_artifact_write |->
       [needs |-> QueueApprovedArtifactWrite, task |-> ApprovedArtifactTask,
        checks |-> WriteApprovedArtifact, effects |-> ApprovedArtifactEffects,
        loads |-> LoadApprovedArtifact],
     fixture_project_write |->
       [needs |-> QueueFixtureProjectWrite, task |-> FixtureProjectTask,
        checks |-> WriteFixtureProject, effects |-> FixtureProjectEffects,
        loads |-> LoadFixtureProject],
     managed_generated_write |->
       [needs |-> QueueManagedGeneratedWrite, task |-> ManagedGeneratedTask,
        checks |-> WriteManagedGenerated, effects |-> ManagedGeneratedEffects,
        loads |-> LoadManagedGenerated]]

Refused(kind, blocker) ==
    CASE kind = "read_only_verify" -> RefusedReadOnlyVerify(blocker)
      [] kind = "fixture_execution" -> RefusedFixtureExecution(blocker)
      [] kind = "approved_artifact_write" -> RefusedApprovedArtifact(blocker)
      [] kind = "fixture_project_write" -> RefusedFixtureProject(blocker)
      [] kind = "managed_generated_write" -> RefusedManagedGenerated(blocker)

(* What the checks find true or false: the approval gate, the worker's
   capabilities, the project's permissions, the state of the path and of the
   file, and that no other worker has a lease on the task.                 *)
Facts == {"gate", "worker", "write_artifacts", "write_generated", "read_project",
          "write_code", "write_generated_path", "safe", "preimage", "free"}

ASSUME ExecutionCommandsAssumption ==
    /\ JobKinds \subseteq DOMAIN KindOf
    /\ Scope \in {"fixture", "temp", "plain"}
    /\ Volatile \subseteq Facts
    /\ JobFaults \subseteq {"lost", "damaged"}
    /\ {MaxCalls, MaxChanges} \subseteq Nat

Objects == {"write_set", "preimage", "report"}

Absent == <<"absent">>
Damaged == <<"damaged">>
Queued(x) == <<"queued", x>>
Preimage == <<"expected_before">>

(* A report names the lease and the time of its call. *)
Report(n) == <<"report", n>>

StoredValues == {Absent, Damaged, Preimage} \cup {Queued(x) : x \in JobContents}
                \cup {Report(n) : n \in 1..MaxCalls}

(* The default key is a function of the request. *)
KeysFor(r) == {[default |-> TRUE, of |-> r]} \cup {[default |-> FALSE, of |-> k] : k \in ChosenKeys}

(* Jobs, calls, rows and objects are what the commands make of them. *)
ExecutionCommandsTypeOK ==
    /\ \A r \in Jobs : /\ job[r].kind \in JobKinds \cup {"none"}
                       /\ job[r].status \in {"none", "lost", "queued"}
                            \cup {KindOf[k].effects.done : k \in JobKinds}
    /\ facts \subseteq Facts
    /\ begun \in 0..MaxCalls
    /\ hold \in [Jobs -> Callers \cup {NoTurn}]
    /\ \A c \in Callers : turn[c] # NoTurn =>
         /\ turn[c].phase \in {"gate", "enter", "check", "save", "commit"}
         /\ turn[c].at \in 1..Len(KindOf[turn[c].kind].checks) + 1
    /\ \A e \in evidence : e.job \in Jobs /\ e.name \in Objects /\ e.sha \in StoredValues
    /\ store \in [Jobs -> [Objects -> StoredValues]]
    /\ changes \in 0..MaxChanges
    /\ faults \subseteq JobFaults

-----------------------------------------------------------------------------
ExecutionCommandsInit ==
    /\ job = [r \in Jobs |-> [kind |-> "none", status |-> "none", content |-> NoTurn]]
    /\ facts \in {Facts} \cup {Facts \ {f} : f \in Volatile}
    /\ turn = [c \in Callers |-> NoTurn]
    /\ begun = 0
    /\ hold = [r \in Jobs |-> NoTurn]
    /\ rows = {}
    /\ evidence = {}
    /\ store = [r \in Jobs |-> [o \in Objects |-> Absent]]
    /\ replies = {}
    /\ changes = 0
    /\ faults = {}

(* One transaction inserts run and task, stores the write-set and records it.
   A repetition under the same key finds this run again.                   *)
QueueJob(r, kind, content, given) ==
    /\ job[r].status = "none"
    /\ KindOf[kind].needs \subseteq given
    /\ job' = [job EXCEPT ![r] = [kind |-> kind, status |-> "queued", content |-> content]]
    /\ IF KindOf[kind].task.writeSet
       THEN /\ store' = [store EXCEPT ![r]["write_set"] = Queued(content)]
            /\ evidence' = evidence \cup
                 {[job |-> r, name |-> "write_set", sha |-> Queued(content), call |-> 0]}
       ELSE UNCHANGED <<store, evidence>>
    /\ UNCHANGED <<facts, turn, begun, hold, rows, replies, changes, faults>>

(* The transaction fails after the write-set was stored: an object without a
   row, at a path no other run will have, since ids are not given twice.   *)
QueueFails(r, kind, content) ==
    /\ job[r].status = "none"
    /\ KindOf[kind].task.writeSet
    /\ job' = [job EXCEPT ![r].status = "lost"]
    /\ store' = [store EXCEPT ![r]["write_set"] = Queued(content)]
    /\ UNCHANGED <<facts, turn, begun, hold, rows, evidence, replies, changes, faults>>

StartCall(c, kind, r, key) ==
    /\ turn[c] = NoTurn
    /\ job[r].status \notin {"none", "lost"}
    /\ begun < MaxCalls
    /\ begun' = begun + 1
    /\ turn' = [turn EXCEPT ![c] =
                  [call |-> begun + 1, kind |-> kind, job |-> r, key |-> key,
                   phase |-> "gate", at |-> 1, gate |-> FALSE, alive |-> TRUE,
                   held |-> facts, did |-> {}, content |-> NoTurn, saved |-> {}]]
    /\ UNCHANGED <<job, facts, hold, rows, evidence, store, replies, changes, faults>>

(* ExecutionApprovalGate, in front of the transaction. *)
EvaluateGate(c) ==
    /\ turn[c] # NoTurn
    /\ turn[c].phase = "gate"
    /\ turn' = [turn EXCEPT ![c].phase = "enter", ![c].gate = "gate" \in facts]
    /\ UNCHANGED <<job, facts, begun, hold, rows, evidence, store, replies, changes, faults>>

RowsOf(c) == {w \in rows : w.kind = turn[c].kind /\ w.key = turn[c].key}

EndTurn(c) ==
    /\ turn' = [turn EXCEPT ![c] = NoTurn]
    /\ hold' = [r \in Jobs |-> IF hold[r] = c THEN NoTurn ELSE hold[r]]

(* Variant: the run's row is read without a lock. *)
EnterUnlocked(c) ==
    /\ turn[c] # NoTurn
    /\ turn[c].phase = "enter"
    /\ RowsOf(c) = {}
    /\ turn' = [turn EXCEPT ![c].phase = "check"]
    /\ UNCHANGED <<job, facts, begun, hold, rows, evidence, store, replies, changes, faults>>

(* loadRunForUpdate, loadWorkerForUpdate and reserveCommandRequest. *)
EnterTransaction(c) ==
    /\ turn[c] # NoTurn
    /\ turn[c].phase = "enter"
    /\ hold[turn[c].job] = NoTurn
    /\ RowsOf(c) = {}
    /\ \A d \in Callers \ {c} :
         turn[d] # NoTurn /\ turn[d].phase \in {"check", "save", "commit"} /\ turn[d].alive
           => <<turn[d].kind, turn[d].key>> # <<turn[c].kind, turn[c].key>>
    /\ hold' = [hold EXCEPT ![turn[c].job] = c]
    /\ turn' = [turn EXCEPT ![c].phase = "check"]
    /\ UNCHANGED <<job, facts, begun, rows, evidence, store, replies, changes, faults>>

ReplyOf(w, told) == [kind |-> w.kind, key |-> w.key, job |-> w.job, decision |-> w.decision,
                     told |-> told]

(* The recorded command is answered from its rows; another request under the
   key is a conflict.                                                      *)
ReplayCall(c) ==
    /\ turn[c] # NoTurn
    /\ turn[c].phase = "enter"
    /\ hold[turn[c].job] = NoTurn
    /\ \E w \in RowsOf(c) :
         replies' = IF w.job # turn[c].job THEN replies
                    ELSE replies \cup
                      {ReplyOf(w, IF w.decision = "allowed" THEN KindOf[w.kind].loads ELSE {})}
    /\ EndTurn(c)
    /\ UNCHANGED <<job, facts, begun, rows, evidence, store, changes, faults>>

(* The queries next...TaskForLease. *)
Claimable(kind, r) ==
    /\ KindOf[job[r].kind].task.type = KindOf[kind].task.type
    /\ job[r].status = "queued"
    /\ "free" \in facts

(* Variant: the write-set is taken as it is stored. *)
LoadsUnverified(r) == TRUE

(* ReadArtifactContent compares the object with its row. *)
Loads(r) == store[r]["write_set"] = Queued(job[r].content)

(* A path permission needs the capability too. *)
Holds(c, check) ==
    CASE check = "gate" -> turn[c].gate
      [] check = "fixture" -> Scope = "fixture"
      [] check = "fixture_or_temp" -> Scope \in {"fixture", "temp"}
      [] check = "task" -> Claimable(turn[c].kind, turn[c].job)
      [] check = "generated" -> TRUE
      [] check = "write_generated_path" -> {"write_generated", check} \subseteq facts
      [] OTHER -> check \in facts

NextCheck(c) == KindOf[turn[c].kind].checks[turn[c].at]

AtCheck(c) ==
    /\ turn[c] # NoTurn
    /\ turn[c].phase = "check"
    /\ turn[c].alive

ReadsFor(check) == IF check = "preimage" THEN {"project_read"} ELSE {}

PassCheck(c) ==
    /\ AtCheck(c)
    /\ NextCheck(c) # "write_set"
    /\ Holds(c, NextCheck(c))
    /\ turn' = [turn EXCEPT
                  ![c].at = @ + 1,
                  ![c].did = @ \cup ReadsFor(NextCheck(c)),
                  ![c].phase = IF turn[c].at = Len(KindOf[turn[c].kind].checks)
                               THEN "save" ELSE "check"]
    /\ UNCHANGED <<job, facts, begun, hold, rows, evidence, store, replies, changes, faults>>

LoadWriteSet(c) ==
    /\ AtCheck(c)
    /\ NextCheck(c) = "write_set"
    /\ Loads(turn[c].job)
    /\ turn' = [turn EXCEPT ![c].at = @ + 1, ![c].content = store[turn[c].job]["write_set"]]
    /\ UNCHANGED <<job, facts, begun, hold, rows, evidence, store, replies, changes, faults>>

(* finishDenied...: the refusal is committed under the key. *)
DenyCall(c) ==
    /\ AtCheck(c)
    /\ NextCheck(c) # "write_set"
    /\ ~Holds(c, NextCheck(c))
    /\ \E told \in BOOLEAN :
         LET w == [kind |-> turn[c].kind, key |-> turn[c].key, job |-> turn[c].job,
                   call |-> turn[c].call, decision |-> "denied",
                   said |-> Refused(turn[c].kind, NextCheck(c)),
                   did |-> turn[c].did \cup ReadsFor(NextCheck(c)),
                   held |-> {}, content |-> NoTurn]
         IN  /\ rows' = rows \cup {w}
             /\ replies' = IF told THEN replies \cup {ReplyOf(w, {})} ELSE replies
    /\ EndTurn(c)
    /\ UNCHANGED <<job, facts, begun, evidence, store, changes, faults>>

NextSave(c) == KindOf[turn[c].kind].effects.saves[Cardinality(turn[c].saved) + 1]

(* What a command does on its way to its next object: the verification reads
   the file, the drills write and restore it after the preimage is stored. *)
DoneFor(c, object) ==
    {"artifact"}
    \cup (IF turn[c].kind = "read_only_verify" THEN {"project_read"} ELSE {})
    \cup (IF turn[c].saved # {} THEN {"project_write"} ELSE {})

(* writeProjectArtifact replaces the object at the path of run and task.  It
   happens outside the transaction, whose connection may be gone.          *)
SaveObject(c) ==
    /\ turn[c] # NoTurn
    /\ turn[c].phase = "save"
    /\ LET object == NextSave(c)
           value == IF object = "preimage" THEN Preimage ELSE Report(turn[c].call)
       IN  /\ store' = [store EXCEPT ![turn[c].job][object] = value]
           /\ IF turn[c].alive
              THEN /\ turn' = [turn EXCEPT
                         ![c].saved = @ \cup {[job |-> turn[c].job, name |-> object,
                                               sha |-> value, call |-> turn[c].call]},
                         ![c].did = @ \cup DoneFor(c, object),
                         ![c].phase = IF object = "report" THEN "commit" ELSE "save"]
                   /\ UNCHANGED hold
              ELSE EndTurn(c)
    /\ UNCHANGED <<job, facts, begun, rows, evidence, replies, changes, faults>>

(* updateRunTaskStatus and update...RunAfterTask: a run of one task. *)
FinishJob(r, done) == [job EXCEPT ![r].status = done]

(* Lease, attempts, artifact rows, released lease, task, run and command row
   become visible together.  The caller may not hear of it.                *)
CommitCall(c) ==
    /\ turn[c] # NoTurn
    /\ turn[c].phase = "commit"
    /\ turn[c].alive
    /\ LET kind == turn[c].kind
           effects == KindOf[kind].effects
           w == [kind |-> kind, key |-> turn[c].key, job |-> turn[c].job,
                 call |-> turn[c].call, decision |-> "allowed", said |-> effects.did,
                 did |-> turn[c].did \cup {"state"}, held |-> turn[c].held,
                 content |-> turn[c].content]
           writeSet == IF KindOf[kind].task.writeSet THEN {"write_set"} ELSE {}
       IN  /\ job' = FinishJob(turn[c].job, effects.done)
           /\ rows' = rows \cup {w}
           /\ evidence' = evidence \cup turn[c].saved
           /\ \E told \in BOOLEAN :
                replies' = IF told
                           THEN replies \cup {ReplyOf(w, {"task", "lease"} \cup effects.attempts
                                  \cup writeSet \cup {s.name : s \in turn[c].saved})}
                           ELSE replies
    /\ EndTurn(c)
    /\ UNCHANGED <<facts, begun, store, changes, faults>>

(* A statement, a file or the commit fails, or the server stops: the
   transaction is rolled back, stored objects stay.                        *)
FailCall(c) ==
    /\ turn[c] # NoTurn
    /\ EndTurn(c)
    /\ UNCHANGED <<job, facts, begun, rows, evidence, store, replies, changes, faults>>

(* The database ends the session and with it the lock; the handler finds out
   at its next statement.                                                  *)
LoseConnection(c) ==
    /\ turn[c] # NoTurn
    /\ turn[c].phase \in {"check", "save", "commit"}
    /\ turn[c].alive
    /\ "lost" \in JobFaults /\ faults = {}
    /\ faults' = faults \cup {"lost"}
    /\ turn' = [turn EXCEPT ![c].alive = FALSE]
    /\ hold' = [hold EXCEPT ![turn[c].job] = NoTurn]
    /\ UNCHANGED <<job, facts, begun, rows, evidence, store, replies, changes>>

DamageObject(r, object) ==
    /\ "damaged" \in JobFaults /\ faults = {}
    /\ store[r][object] # Absent
    /\ faults' = faults \cup {"damaged"}
    /\ store' = [store EXCEPT ![r][object] = Damaged]
    /\ UNCHANGED <<job, facts, turn, begun, hold, rows, evidence, replies, changes>>

(* Approvals, configuration, workers and the project's files go their way. *)
ChangeFact(f) ==
    /\ changes < MaxChanges
    /\ changes' = changes + 1
    /\ facts' = IF f \in facts THEN facts \ {f} ELSE facts \cup {f}
    /\ turn' = [c \in Callers |->
                  IF turn[c] = NoTurn THEN NoTurn
                  ELSE [turn[c] EXCEPT !.held = @ \cup facts']]
    /\ UNCHANGED <<job, begun, hold, rows, evidence, store, replies, faults>>

Inputs == {"authored", "target", "generated", "expected", "size"}

QueueStep ==
    \E r \in Jobs, kind \in JobKinds, content \in JobContents :
        \/ \E given \in {Inputs} \cup {Inputs \ {i} : i \in Inputs} :
             QueueJob(r, kind, content, given)
        \/ QueueFails(r, kind, content)

CallStep(c) ==
    \/ \E r \in Jobs, kind \in JobKinds : \E key \in KeysFor(r) : StartCall(c, kind, r, key)
    \/ EvaluateGate(c)
    \/ EnterTransaction(c)
    \/ ReplayCall(c)
    \/ PassCheck(c)
    \/ LoadWriteSet(c)
    \/ DenyCall(c)
    \/ SaveObject(c)
    \/ CommitCall(c)
    \/ FailCall(c)
    \/ LoseConnection(c)

ExecuteStep ==
    \/ \E c \in Callers : CallStep(c)
    \/ \E r \in Jobs, object \in Objects : DamageObject(r, object)
    \/ \E f \in Volatile : ChangeFact(f)

ExecutionCommandsNext == QueueStep \/ ExecuteStep

-----------------------------------------------------------------------------
Allowed == {w \in rows : w.decision = "allowed"}

(* The evidence on record can be read: a stored object is never replaced by
   another call once its row is committed, although every call for a task
   stores at the same path and nothing but the run's row keeps them apart.
   Only the report can be lost to a handler whose connection is gone.      *)
EvidenceReadable ==
    \A e \in evidence :
        \/ store[e.job][e.name] = e.sha
        \/ "damaged" \in faults
        \/ "lost" \in faults /\ e.name = "report"

(* A task is done when, and only when, one command of its own kind is on
   record as allowed, with every object of its kind stored by that call; a
   refused or failed call leaves no evidence behind.                       *)
EvidenceComplete ==
    \A r \in Jobs :
        LET done == {w \in Allowed : w.job = r}
            calls == {e.call : e \in {x \in evidence : x.job = r}} \ {0}
        IN  /\ done = {} => job[r].status \in {"none", "lost", "queued"} /\ calls = {}
            /\ done # {} => \E w \in done :
                 /\ done = {w}
                 /\ w.kind = job[r].kind
                 /\ job[r].status = KindOf[w.kind].effects.done
                 /\ calls = {w.call}
                 /\ \A i \in DOMAIN KindOf[w.kind].effects.saves :
                      \E e \in evidence : /\ e.job = r
                                          /\ e.name = KindOf[w.kind].effects.saves[i]

(* What a kind of execution may not do without. *)
Needed(kind) ==
    CASE kind = "read_only_verify" -> {"gate", "worker", "read_project", "safe", "free"}
      [] kind = "fixture_execution" -> {"gate", "worker", "free"}
      [] kind = "approved_artifact_write" -> {"gate", "worker", "write_artifacts", "free"}
      [] kind = "fixture_project_write" ->
           {"gate", "worker", "write_artifacts", "read_project", "write_code", "safe",
            "preimage", "free"}
      [] kind = "managed_generated_write" ->
           {"gate", "worker", "write_artifacts", "write_generated", "read_project",
            "write_generated_path", "safe", "preimage", "free"}

(* Every permission and condition an execution needs held at some time during
   its call, however they changed while it checked them one by one; and a
   project that is no fixture is not written to.                           *)
NeedsWereMet ==
    \A w \in Allowed :
        /\ Needed(w.kind) \subseteq w.held
        /\ "project_write" \in w.did =>
             \/ Scope = "fixture"
             \/ Scope = "temp" /\ w.kind = "managed_generated_write"

(* What is written to the project is what the run was queued with, even if
   the stored write-set has been damaged since.                            *)
WritesWhatWasQueued ==
    \A w \in Allowed : KindOf[w.kind].task.writeSet =>
        w.content = Queued(job[w.job].content)

(* The record of a command says what its call did: read the project, wrote to
   it, stored artifacts, changed execution state.                          *)
RecordTellsEffect == \A w \in rows : w.said = w.did

(* Whoever asks again is told what was told before.  Only the replay of a
   managed generated write tells less.                                     *)
ReplyIsRepeated ==
    \A x, y \in replies :
        x.kind = y.kind /\ x.key = y.key /\ x.job = y.job =>
            /\ x.decision = y.decision
            /\ x.told = y.told \/ x.kind = "managed_generated_write"

(* The evidence of a task stands: it is complete when the task is done, made by
   the one call that did it, and can be read (the store functions of the five
   execution commands).                                                    *)
EvidenceStands == ExecutionCommandsTypeOK /\ EvidenceReadable /\ EvidenceComplete

(* A call does what it may and what it was queued for, and says so: its needs
   were met, its content is the queued one, its record tells what it did and
   its answer is repeated to whoever asks again.                           *)
CallsAreTrue ==
    NeedsWereMet /\ WritesWhatWasQueued /\ RecordTellsEffect /\ ReplyIsRepeated

=============================================================================
