# AreaFlow in TLA+

AreaFlow is a control plane over PostgreSQL. Clients (the command line, the HTTP
API, the web console) send commands; each command is one database transaction
that reserves an idempotency key, changes rows, writes an event and an audit
event, records its response and commits. Workers lease run tasks. Some commands
also touch files: the artifact store, backup packages, the status file of the
managed project and, in controlled drills, one other file of it. This directory
models the parts in which several actors get in each other's way, checks them
with TLC on small instances, and proves the central ones with TLAPS for
instances of any size.

## 1. The system and what makes it hard

| part | modules |
|---|---|
| command ledger: key, request hash, response of every command | `IdempotentCommands`, `CommandLedger` |
| workers, leases, runs, run control | `WorkerLeases` |
| workflow items, gates, previews, approvals | `ApprovalState`, `WorkflowApproval` |
| authoring a workflow version | `VersionAuthoring` |
| the approval-gated execution commands | `GatedExecution`, `ExecutionCommands` |
| the drill on a project file | `ProjectWrite` |
| artifact backends, migration | `ArtifactMigration` |
| backup packages and restore drills | `BackupPackages` |
| import, metadata index, doctor | `MetadataIndex` |
| status projection | `StatusProjection` |
| project registration and permissions | `ProjectRegistration` |
| schema migrations | `ExceptionMigration`, `SchemaMigrations` |
| release exceptions and gates | `ReleaseExceptions`, `ReleaseChain`, `ReleaseGates` |
| completion evidence, audit, snapshots | `CompletionProofs`, `CompletionAudit` |
| shim, forwarding, authoring cutover | `ReadinessChain`, `CutoverChain` |
| database pool, runner preview | `PooledCommands` |
| HTTP API: routes, requests, access, feeds | `ApiRoutes`, `ApiService`, `ApiAccess`, `ApiFeeds` |

* Transactions run at READ COMMITTED. Gates, previews, audits and reports are
  evaluated with one query after the other, mostly outside the transaction that
  records or uses the verdict.
* "The latest" approval or gate result orders by `created_at`, which is the time
  the transaction began and not the time it committed.
* Leases expire at any moment; recovery runs in three commands that do not do
  the same thing to the task.
* A client may repeat any command; the default key is a function of the request.
* Files are written inside a transaction that may still roll back, and the
  server may stop in between.
* Operators run commands of several builds side by side, and may revoke what
  they approved at any time.

`PROJECT.json` lists these as hazards, each at the line where it bites, with the
properties that would notice it going wrong or the reason there is none, and maps
every definition to the lines it models.

## 2. Modules

A model has one variable per table, file or call in progress, and one action per
command when the command is one transaction, or one action per query, statement
or file operation when it is not. Payloads are members of small sets; hashes are
the values they are hashes of; wording, logging and encoding are left out.

**Abstract specifications.** `IdempotentCommands` is what the ledger promises: one
execution per key, its outcome for the same request, a conflict for another. A
request here is what the caller asks for and, for the commands that look it up in
the database first, what it was resolved to.
`ApprovalState` is what execution relies on: the decision in force and the two
gates. `ExceptionMigration` is what the rest relies on about migration 000012: one
decision row and at most one apply, of a content that had been approved.

**CommandLedger.** A call goes through `Call` (evaluate, hash, begin), `ReserveNew`,
`ReserveExisting` or `ReserveConflict`, `Apply`, `Commit`, `Reply`, or `Replay`;
`Fail` rolls it back, or loses the answer after the commit, at any point. `writer`
is the uncommitted INSERT of a key, for which others wait. Guarded keys are those
of the handlers that replay. `FactKeys` are the guarded keys whose request hash also
covers what the handler found before its transaction: the preview an approval was
resolved to, the result of a completion audit, the summary of an import, a doctor
report or a status projection. The same request under the same key is a conflict
there once that changed. Unguarded keys are those of `workflow.gate.run` and
`workflow.transition.preview`, which go on whether or not the key existed and hash
what they evaluated; the refinement maps them to one abstract key that is never
executed. Calls and rows remember, beside the hash, the request (`req`) and what it
is about (`about`), so that what the hash tells apart is compared with what it should.

**WorkerLeases.** `worker`, `run`, `task`, `lease`, `acquired` and `controlled` (the
`command_requests` of the commands that keep an outcome), `attempts`, and
`reportFile` for the file a poll leaves in the artifact store. Every writer of the
code creates a run with exactly one task, so the task is named by its run. What
the code does not check is not in the guards: `AcquireLease` looks neither at the
task's status nor at the worker's, `ReleaseLease` not at the expiry. A release stores
the status it is sent: `ReleaseStatuses` are the ones the code compares with and one
for all others, and `released` is `released_at`. Released as 'active' a lease still
excludes others and still expires, while its task is queued again. `FOR UPDATE
SKIP LOCKED` makes the choice of the next task, and the set of leases a recovery
takes, nondeterministic. `FixtureRuns` are dry-run runs in status 'queued', which
only the smoke scripts bring about; run control denies every request on a run that
the commands themselves create.

**WorkflowApproval.** A request reads and evaluates (`RunWorkflowGate`,
`RunApprovalGate`, `ReadApproval` then `RunLiveMappingGate`,
`PreviewWorkflowTransition`, `CreateApprovalRecord`), begins its transaction (`Begin`,
which stamps its rows) and commits or fails. `Latest` goes by the stamp.
**VersionAuthoring** is the life of the version before that: creating it with the
skeleton of its stages, adding items, marking them ready with a marker file, and
the gate that compares its frozen profile with the one on disk.

**GatedExecution** composes `WorkerLeases` and `ApprovalState` with the execution
commands: a call reads the facts of `ExecutionApprovalGate` one query at a time,
then replays, denies or executes in one transaction with the run's row locked.
**ExecutionCommands** tells the five pairs of queue and execute commands apart: which
checks each makes, which evidence it writes to the store, what it records and
repeats. **ProjectWrite** is the drill on the project's file that two of them end
in: check the expected content with the worker's row locked, save the preimage,
write, read back, roll back, read back, commit. `DeferredRestore` is the Go `defer`
that runs before the rollback; `Torn` is a file that `os.WriteFile` truncated and
did not finish; `owned` and `mishaps` are history.

**ArtifactMigration**: copy (read, write, read back, then the rows), activate,
complete the observation, and readers meanwhile. **BackupPackages**: `backup create`
and `backup drill` step by step, among writers that were not stopped.

**MetadataIndex**: the import transaction statement by statement under READ COMMITTED
(a DELETE waits for and skips rows another import deletes, an INSERT waits for and
fails on a unique key), and the doctor that compares files and rows.
**StatusProjection**: the apply of the one file AreaFlow keeps in a managed project,
from the packet to the record, beside other writers of that file.
**ProjectRegistration**: validating a configuration, replacing rows in one
transaction, the permission checks on paths and commands, and three reports that
read configuration and rows apart.

**SchemaMigrations**: `migrate up` by processes of several builds, approval,
revocation and out-of-band apply of 000012, and the checksums that 000013 adds,
with a crash between any two statements. Five migrations stand for the twenty.

**ReleaseChain** has the eleven read-only evaluations behind a release as functions
of the one before, **ReleaseExceptions** the records that may cover an item, and
**ReleaseGates** one evaluation query by query beside everything that changes.
**CompletionProofs** has the eleven commands that record evidence,
**CompletionAudit** the audit, the snapshot that seals it and its readiness.
**ReadinessChain** has the evaluators of the takeover of a project as functions,
**CutoverChain** the three commands that decide by them. **PooledCommands** is about
the connections those commands hold while they ask for another.

**ApiService** is the life of a request over `CommandLedger`: admission, call,
timeout, lost answer, status, retry. The table of handlers is its constant `Routes`,
with what every entry keeps to as `RoutesAssumption`; **ApiRoutes** is the table of
`server.go`: checks, operation and statuses per method. **ApiAccess** has sessions,
tokens, roles and the login limiter; **ApiFeeds** the event stream and keyset paging.

**MC...** modules give values to constants; a configuration without one names its
instance itself. Several hold components that share no
state here, and a variable `play` picks the one a behaviour is about: this is a
union of instances, not a product.

## 3. Runs

| run | instance | shows |
|---|---|---|
| `api_service` | the whole table of handlers; 2 clients, a key of each class, 2 requests, 2 facts, 3 sends; one session with a clock of 3, one token with a clock of 4; 4 events in pages of 2; 3 rows in pages of 1 | `ImplementsIdempotentCommands`, `EveryCallEnds`; the status tells what became of the write; nobody acts on what they do not hold; feeds are complete and `StreamCatchesUp` |
| `workflow_approval` | 2 clients, 1 item, 2 actors, high risk, default keys, 5 rows | `ApprovalChain`, `ImplementsApprovalState` |
| `artifact_store` | 2 copiers, 3 places, 4 copies, 3 activations, 2 faults; 2 creates and 2 drills of 1 package | artifact, locations and inventory agree; the content stays readable; packages are whole and drills true |
| `completion_evidence` | 2 recorders, every kind of proof beside the fact its item is judged with, 1 snapshot | what a command accepts the audit accepts; no verdict on outdated proofs |
| `cutover_chain` | 2 calls, 3 imports, 2 proofs, 2 changes; 2 authors, 3 authorings; 2 connections, 3 callers | ownership changes are grounded, an authored version is sound, connections come back |
| `gated_execution` | 2 callers, 1 worker, 1 run, 3 leases, 2 execution commands | executed at most once, never unapproved, the tables agree |
| `project_write` | 2 drills, 2 workers, 2 contents, every kind of failure; 2 callers of the five commands, 2 jobs | the file is restored or recoverable, `DrillsEnd`; evidence, records and replies are true |
| `leases` | 2 workers, 2 runs, 2 leases, 2 acquires, 2 controls | exclusive leases, one outcome per key, attempts backed, cancels settle, history kept |
| `setup` | 2 processes of 2 builds, 3 runs, 2 decisions; 2 registrations beside 1 reader | the schema is accounted for, `ImplementsExceptionMigration`; a registration is whole and reports are grounded |
| `project_mirror` | 2 imports, 2 applies, 1 edit of each file | the index is one import's, the projection replaces only what was approved, a quiet doctor is exact, `ImportsEnd` |
| `release_gates` | 2 exception commands, 1 key, 1 decision, 1 change | no release passes that no moment justifies; a quiet evaluation is exact |
| `leased_task_has_holder` | as `leases`, without control | **violated**: a poll closes an expired lease and leaves its task 'leased' with no holder, where the documentation says it goes to `needs_recovery` |

Bounds. Two actors give every conflict between one that holds, one that comes late and
one that repeats; a third call, lease or connection is there where a second actor
needs one beside the first's. Five rows let a gate, a preview, an approval, a
rejection and one more gate be recorded with any of them in flight. Two contents give
the right and the wrong expectation, two builds an edited and an unedited migration.
Constraints: `FirstFree` and `FirstRunner` break the symmetry of callers that are
alike, `ExecutionRunsOnly` leaves the preview runs of `leases` out of
`gated_execution`, `WithinBudget` bounds writers, mishaps and cleanups together, and
`PlatformAlone` keeps a second exception command away from the evaluation of the
platform, which reads no exceptions. In `project_write` the store fails or the facts
of a call change, not both in one behaviour; a behaviour of `api_service` has one key,
as keys share nothing, and two clients race only on keys whose hash covers a fact, as
the others are as these are while the fact does not change. In `gated_execution` two
callers race, beside the leases, while all approvals stand, or one caller meets
approvals that come and go; in `leases` a poll aborts only in the behaviours with run
control. Runs of `cutover_chain` start shortly before a command can
succeed, with one or two facts missing.

Symmetry is used over workers, leases, clients, actors, copiers and processes,
which no definition tells apart, and in no run with a liveness property.

Deadlock checking is off: the bounds end every behaviour, and a control plane
nobody calls is idle.

Fairness is weak and only of the server's own steps: of a handler serving a call it
accepted (`ServeCommand`), of the event stream's polling loop (`Poll`), of an import
in its transaction (`ImportStep`) and of a drill that opened its transaction
(`Handle`). Go code does not stop between two statements, except by failing, and
failing is an action of its own. Nothing is assumed of clients, workers, operators
or clocks.

## 4. Proofs

Eight proof modules hold the theorems of the components, for any sets of workers,
clients, keys, drills, processes, builds, places, imports, applies, sessions, events
and so on, and any limits. The only assumptions are the named `ASSUME`s of the
components: sentinels are not members of the sets they stand beside, limits are
naturals, the sets of copiers, imports, version labels and row ids are finite, builds
carry a prefix of the migrations up to at least 000012, guarded and unguarded keys
differ, a handler never answers a failure with a success or a success with a client
error. TLC evaluates them in the runs.

Each proof has the same shape. The invariant that matters is not inductive, so it is
strengthened (`...Inv`); TLC checked the strengthening first; there is one lemma per
action and one step per conjunct the action can disturb; the theorems follow.

**GatedExecutionProofs**, first part: leases (`LeaseInv`).

| theorem | states |
|---|---|
| `TypeCorrect` | `Spec => []TypeOK` |
| `MutualExclusion`, `HolderKeepsTask`, `ExclusiveLeases` | `Spec => []LeaseIsExclusive`, and its two halves |
| `TaskStatusExplained` | `Spec => [](LeasedTaskAccounted /\ PassedTaskWasCompleted)` |
| `AcquireIdempotent` | `Spec => []AcquireExactlyOnce` |
| `ControlProtected` | `Spec => [](ExecutionRunsUncontrolled /\ CancelledRunSettlesTask)` |
| `AttemptsExplained` | `Spec => []AttemptsBackedByLeases` |
| `HistoryKept` | `Spec => LeaseHistoryKept` |

`ActiveLeaseHoldsTask` is about leases that were not given back. It needs
`OneActiveLeasePerTask` (a release moves the task: no other holder may be on it), and that needs the fact that a recovered row is no
longer active when the new one is inserted. `AcquireExactlyOnce` needs that a
command row names a lease that was granted; the lease invariants need that a
granted lease names its task and worker; those of run control need which task
statuses go with which run statuses.

**GatedExecutionProofs**, second part: executions (`ExecutionInv`, which contains
`LeaseInv`).

| theorem | states |
|---|---|
| `RunsExecuteOnce` | `ExecutionSpec => []ExecutedAtMostOnce` |
| `ExecutionsAreAccounted` | `ExecutionSpec => []ExecutionAccounted` |
| `LeasesSurviveExecution` | what `WorkerLeases` guarantees holds with the executors beside it |
| `ExecutionHistoryKept` | executions and outcomes are only ever added |

A run is executed once because an execution leaves it finished and an executor
takes only a queued run (`FinishedByExecution`), whatever leases do to the task. That
somebody had approved is carried by `CallsApproved`: a call whose gate read is past
the approval query saw an approval. Steps of `WorkerLeases` are handled by
the lemmas of the first part.

**ApiServiceProofs**, first part: the ledger (`LedgerInv`).

| theorem | states |
|---|---|
| `CommandsTakeEffectOnce` | `Spec => [](EffectOnce /\ RepliesAgree)` |
| `WritersRun` | `Spec => [](WriterIsRunning /\ ResponseIsAnEffect)` |
| `OutcomesStand` | `Spec => OutcomeNeverRewritten` |
| `LedgerRefinement` | `Spec => ImplementsIdempotentCommands` |

Effect once holds because a call between its INSERT and its commit is the key's one
writer and the key has no row (`ReservationHeld`); answers agree because a call
that found the key found a row of its own request (`RowFound`), and that because a
replaying command's hash covers the request, what it is about and nothing else
(`HashesTell`). Under `LedgerInv` each step is a step of `IdempotentCommands` or
leaves its variables alone.

**ApiServiceProofs**, second part: the service over the ledger (`ServiceInv`, which
contains `LedgerInv`), for any table of handlers within `RoutesAssumption`.

| theorem | states |
|---|---|
| `EffectsStayAccounted` | `ApiSpec => []EffectsAreAccounted` |
| `ServiceRefinement` | `ApiSpec => ImplementsIdempotentCommands` |

What a client is told is judged against rows that others change in the meantime, so
each request carries a number: `Linked` ties a request to its call exactly while the
call runs, `Timely` says that a call has no effect before its commit and has one after
it, `Distinct` that no two clients share a number, so that another's commit cannot be
taken for one's own. `Earned` says that whoever got as far as a write had passed the
middleware and the checks on its run. `RoutesAssumption` asks of each handler only that
its statuses differ as the code's do (`OpTells`); every step of the service is a step
of the ledger or leaves it alone, which gives the refinement.

**AccessProofs**, first part: credentials, roles and logins (`AccessInv`), about
`AccessSpec`.

| theorem | states |
|---|---|
| `AccessStaysEarned` | `AccessSpec => []AccessIsEarned` |

`CallerOK` says what a request under way knows although rows change under it: until
its credential is read, it is good only if it was good at arrival, since nothing
revives a revoked or expired row; until its bindings are read, those in force are
among those it has noted. The limiter forgets an address when its table is full and
expired entries are dropped, so `AddressOK` has two halves: an address in the table
has at most its count of logins since the window began (`Counted`), one that is not
has at most the limit within the last window's length (`Forgotten`). A stretch of a
window's length meets at most two windows, which is where the factor two comes from.
The counting uses the library's facts about finite sets.

**AccessProofs**, second part: the drill on a project file (`DrillInv`).

| theorem | states |
|---|---|
| `FileIsRestored` | `Spec => []FileRestored` |
| `PreimageIsRecoverable` | `Spec => []PreimageRecoverable` |
| `OneWorkerIsEnough` | with one worker, drills with different expectations never overlap |
| `PreimagesKept` | a preimage in the store is never replaced |

`ImagesExpected` says that a drill's preimage is what it was queued to expect;
`ChangedByDrill` that, short of the excepted mishaps, this is what the owner left, and
that the file differs from it only while a drill that will restore it is open;
`OwnedIsSomewhere` that the owner's content is in the store, or still in the file and
in every preimage, whatever happened short of an edit during a drill.

**FeedsProofs** (`FeedInv`), about `FeedSpec`.

| theorem | states |
|---|---|
| `FeedsStayComplete` | `FeedSpec => []FeedsAreComplete` |

For the stream, `StreamCovers`: between where it began and its cursor every committed
event was sent or is one that was still open when the cursor passed it. For the walk,
`WalkCounts`: a row that nobody changed is on exactly one page once the cursor has
passed it and on none before; it needs that a page is a prefix of what is left in the
order of keys and ids (`RankOrders` to `TopClosed`, on the first n members of an ordered
finite set).

**WorkflowApprovalProofs** (`ApprovalInv`).

| theorem | states |
|---|---|
| `ApprovalChainHolds` | `Spec => []ApprovalChain` |
| `ApprovalRefinement` | `Spec => ImplementsApprovalState` |

Requests carry what they read into a later transaction. `RequestsGrounded` says of
each what it can rely on although it is stale: rows are only ever added and items
never go back, so the row it saw is still there. The refinement needs
unique stamps and that the latest of a non-empty set exists.

**SchemaMigrationsProofs** (`SchemaInv`).

| theorem | states |
|---|---|
| `SchemaAccounted` | `Spec => []SchemaIsAccounted` |
| `SchemaHistoryKept` | applied migrations stay, hashes on record do not change |
| `SchemaRefinement` | `Spec => ImplementsExceptionMigration` |

`Sound` says what a process may conclude from each query it has made and still be
right however long it then waits; `HashesTrue` that a hash on record, unless it was
attested, is the hash of the content applied.

**ArtifactMigrationProofs** (`MigrationInv`).

| theorem | states |
|---|---|
| `LocationsAlwaysAgree` | `Spec => []LocationsAgree` |
| `ContentStaysReadable` | `Spec => []ReadableThroughout` |
| `PlacesRemembered` | places on record stay on record |

`FaultsCounted` is the heart: every place that is relied on, and is spoilt with no copy
in progress on it, cost a fault of its own, so that with fewer faults than places
one is left. It needs that the original place is always on record and never
verified, so never activated again (`OriginalOnRecord`), and what each phase of a
copy has established (`CopiesGrounded`).

**ProjectMirrorProofs** (`IndexInv`, `ProjectionInv`, `DoctorInv`), about `MirrorSpec`:
imports, authors, registrations, doctors, applies and other programs side by side.

| theorem | states |
|---|---|
| `IndexStaysWhole` | `MirrorSpec => []IndexIsWhole` |
| `ProjectionStaysSafe` | `MirrorSpec => []ProjectionIsSafe` |
| `DoctorStaysExact` | `MirrorSpec => QuietDoctorIsExact` |

The index stays one import's because of `OneInserts`: one import at a time has versions
to commit, and it has deleted every other version, for two imports whose trees share
a label meet at its unique index. Without a shared label they do not, which is the
hypothesis `LabelShared` inside `IndexIsWhole`; it came out of the proof. Linked
residuals go with their version (`LinkedGo`). For the file, `CallInv` says of each
phase of an apply what can be in the file: the preimage, what the apply wrote, or
something that came later; `Past` fixes the packet that an overwriting is judged by.
For the doctor, `Found` says which part of the verdict each of its reads has settled.
`DoctorStaysExact` found that `Mirrored` must ask for a version: a project without one
fails `db_inventory` however well it is mirrored.

Only model-checked, by TLC:

* liveness (`EveryCallEnds`, `StreamCatchesUp`, `DrillsEnd`, `ImportsEnd`): fairness and
  ENABLED are out of the prover's reach;
* verdicts that fold over an evaluation chain (`ReleaseGates`, `CompletionAudit`,
  `CutoverChain`, `ReadinessChain`) and the entries of `ApiRoutes`, which TLC compares
  with `RoutesAssumption`: tables of concrete strings, where the content is in the
  table and a finite check is as strong;
* `PooledCommands`, whose invariant is a sum over callers: it needs induction over
  data, which the installed provers cannot do;
* the remaining components (`VersionAuthoring`, `ExecutionCommands`, `BackupPackages`,
  `ProjectRegistration`, `ReleaseExceptions`, `CompletionProofs`), for which no proof
  has been written.

## 5. Not modelled

The command line (it parses flags, calls what is modelled and prints), OIDC
verification (cryptography and network), JSON encoding and rendering, the web and
desktop clients, counters and logs, forwarding previews and other reports that
nothing reads back, the release exception doctor, S3 request signing, pg_dump and
pg_restore (external: their result is whole or an error). The map covers about 31%
of the Go lines; the command line alone is more than a fifth.

## 6. Observed, and left without a property

Behaviour the models have, or that was met while writing them, which no document
rules out clearly enough to call it a disagreement.

* Leases: a lease released as 'active' blocks its queued task until it expires and is
  recovered; nothing in the write path counts
  leases against `max_parallel_tasks`; a second poll overwrites the report of the
  first; acquire and release lock task and lease in opposite orders, which
  PostgreSQL resolves by aborting one; `ReleaseLease('completed')` on an execution
  run's task passes the task and leaves the run queued.
* Commands: gate and preview commands insert again when repeated, and are refused as
  a conflict once the facts changed; an approval repeated under its own key after a
  newer preview is a conflict, although nothing in the request changed; under default keys approve, reject, approve
  leaves the rejection in force; denials and blocked results are recorded under the
  default key and replayed after their cause is gone.
* Execution: an approval rejected between gate and transaction does not stop an
  execution; a task in recovery is refused by the gate and would be accepted by the
  executor behind it; a write that fails half way is not restored by the drill; a
  rollback overwrites what the owner wrote during the drill.
* Authoring: two ready marks of one item write one marker file; a retried create
  after the profile was edited is a conflict.
* Pool: with one connection, a command that needs a second one waits for ever when
  it is called from the command line, which has no deadline.
* Artifacts: overwriting a copy in place is unreadable for a moment; the row of the
  original place is never verified, so it cannot be activated again.
* Backup: `--quiesced` is only a flag; a writer between the last count and the
  listing is not noticed by the create; a package damaged after its hash check is
  restored as it is; a crashed drill leaves its database behind; a drill that fails
  its manifest check is not audited.
* Mirror: overlapping imports of trees without a label in common both stay in the
  index; a project without versions never passes its doctor; global residuals and
  artifact rows of an import that committed between two DELETEs of another stay; a
  failed commit leaves a status file without a record; a source that changed and
  changed back passes the packet's check.
* Schema: an apply of 000012 racing 000013 may leave its row without a hash.
* Release and completion: an exception may be written after the approval of 000012
  was revoked (it is judged again when it is used); one that expires during an
  evaluation still counts; recording identical evidence again replays and does not
  become the latest.
* API: an event that commits behind the cursor is not sent to an open stream; a
  recorded refusal is answered 200 when it is replayed; rows that change move
  between pages; the login limiter passes up to twice its limit at the boundary of
  two windows; a timeout may cancel a request whose transaction has committed.
