------------------------------ MODULE ApiRoutes -----------------------------
(***************************************************************************)
(* The handlers of the HTTP API, one definition each: which checks a       *)
(* handler makes before and after it looks at the method, what it asks the *)
(* store for, and which status each outcome is answered with.  A handler   *)
(* is a pair: the checks made whatever the method, and the operation of    *)
(* each method it knows (any other method is answered 405).                *)
(***************************************************************************)
EXTENDS Naturals, Sequences, TLC

(* How an operation ends.  kind: it reads; it is a command of the ledger; it
   is a command that evaluates again on a repeated key; or it writes without
   the ledger.  made, found: the status of a new and of a replayed outcome.
   refused, refound: the statuses of a recorded refusal, new and replayed. *)
Answers(kind, made, found, refused, refound) ==
    [kind |-> kind, made |-> made, found |-> found,
     refused |-> refused, refound |-> refound]

Reads == Answers("read", 200, 200, {}, {})
CreatedOrOk == Answers("command", 201, 200, {}, {})
AlwaysCreated == Answers("command", 201, 201, {}, {})
AlwaysOk == Answers("command", 200, 200, {}, {})
Evaluates == Answers("evaluation", 200, 200, {}, {})
Refusable(refused) == Answers("command", 201, 200, refused, {200})
Direct(status) == Answers("direct", status, status, {}, {})

(* An operation: its checks in order, the statuses of the store errors it
   names besides a conflict on the key, which every command answers with 409,
   the status of every other error, and how it ends.                       *)
Op(checks, named, other, answers) ==
    [checks |-> checks, named |-> named, other |-> other, answers |-> answers]

Get(checks) == "GET" :> Op(checks, {}, 500, Reads)
GetNamed(checks, named) == "GET" :> Op(checks, named, 500, Reads)
GetOr(other) == "GET" :> Op(<<>>, {}, other, Reads)
Post(checks, named, answers) == "POST" :> Op(checks, named, 500, answers)

Handler(before, ops) == [before |-> before, ops |-> ops]
Plain(ops) == Handler(<<>>, ops)

(* writeEventStream: once the stream has begun, a failing query is an event
   of a 200 answer.                                                        *)
writeEventStream(checks) ==
    "GET" :> Op(checks \o <<"limit", "query", "flusher">>, {}, 200, Reads)

(* The store errors a workflow command names; a missing version is not one. *)
writeWorkflowVersionCommandError == {400, 409}

-----------------------------------------------------------------------------
(* Liveness, readiness and identity. *)
healthHandler == Plain(GetOr(200))
readinessHandler == Plain(GetOr(503))
authStatusHandler == Plain(GetOr(200))
authMeHandler == Plain(GetOr(200))
oidcLoginHandler ==
    Plain("GET" :> Op(<<"enabled">>, {}, 503, Answers("read", 302, 302, {}, {})))
oidcCallbackHandler ==
    Plain("GET" :> Op(<<"service", "cookie", "identity">>, {}, 500, Direct(302)))
logoutHandler == Plain(Post(<<>>, {}, Direct(204)))
tokensHandler ==
    Handler(<<"service">>,
            Get(<<>>) @@ "POST" :> Op(<<"body", "query">>, {}, 400, Direct(201))
                      @@ "DELETE" :> Op(<<>>, {}, 400, Direct(204)))
roleBindingsHandler ==
    Handler(<<"service">>,
            Get(<<>>) @@ "POST" :> Op(<<"body", "query">>, {}, 400, Direct(201))
                      @@ "DELETE" :> Op(<<"query">>, {}, 400, Direct(204)))

(* Reads of the whole installation. *)
localServiceStatusHandler == Plain(Get(<<>>))
webWriteActionGateHandler == Plain(Get(<<>>))
desktopServiceControlGateHandler == Plain(Get(<<>>))
desktopNotificationGateHandler == Plain(Get(<<>>))
desktopTrayMenuGateHandler == Plain(Get(<<>>))
securityBoundaryReadinessHandler == Plain(Get(<<>>))
completionAuditHandler == Plain(Get(<<>>))
completionAuditSnapshotReadinessHandler == Plain(Get(<<"project">>))
operationsReadinessHandler == Plain(Get(<<>>))
supportBundlePreviewHandler == Plain(Get(<<>>))
migrationLedgerReadinessHandler == Plain(Get(<<>>))
backupManifestHandler == Plain(Get(<<>>))
restorePlanHandler == Plain(Get(<<>>))
releaseReadinessHandler == Plain(Get(<<>>))
releaseRemediationPlanHandler == Plain(Get(<<>>))
releaseAcceptancePreviewHandler == Plain(Get(<<>>))
releaseAcceptanceGateHandler == Plain(Get(<<>>))
releaseExceptionDoctorHandler == Plain(Get(<<>>))
releaseExceptionRecordPreviewHandler == Plain(Get(<<>>))
releaseExceptionSchemaPreviewHandler == Plain(Get(<<>>))
releaseExceptionMigrationApprovalGateHandler == Plain(Get(<<>>))
releaseExceptionApplyPreviewHandler == Plain(Get(<<>>))
releaseFinalGateHandler == Plain(Get(<<>>))
releaseEvidenceBundleHandler == Plain(Get(<<>>))
releasePackagePreviewHandler == Plain(Get(<<>>))
releaseDistributionPreviewHandler == Plain(Get(<<>>))
releasePublishGateHandler == Plain(Get(<<>>))
releasePublishApprovalPreviewHandler == Plain(Get(<<>>))
releaseRolloutPlanPreviewHandler == Plain(Get(<<>>))
workerPoolSummaryHandler == Plain(Get(<<>>))
workerPoolSchedulePreviewHandler == Plain(Get(<<>>))
eventStreamHandler == Plain(writeEventStream(<<>>))

(* Reads that a project_key in the query narrows or is required for. *)
auditCoverageHandler == Plain(Get(<<"scope">>))
permissionDoctorHandler == Plain(Get(<<"key", "project">>))
conformanceHandler == Plain(Get(<<"key", "project">>))
artifactIntegrityHandler == Plain(Get(<<"key", "project">>))
auditEventsHandler == Plain(GetNamed(<<"limit", "query", "scope">>, {400}))
projectsHandler == Plain(Get(<<>>))
workflowsHandler == Plain(GetNamed(<<"limit">>, {400}))
runCollectionHandler == Plain(GetNamed(<<"limit", "query">>, {400}))
workerCollectionHandler == Plain(GetNamed(<<"limit">>, {400}))
artifactCollectionHandler == Plain(GetNamed(<<"limit", "query">>, {400}))
workerDetailHandler == Plain(GetNamed(<<"id", "scope", "limit">>, {404}))
artifactHandler == Plain(Get(<<"id", "scope", "visible">>))
artifactContentHandler ==
    Plain(GetNamed(<<"id", "scope", "visible">>, {404, 409, 422}))

-----------------------------------------------------------------------------
(* Reads of one project. *)
projectRecordHandler == Plain(Get(<<"project">>))
projectEventStreamHandler == Plain(writeEventStream(<<"project">>))
projectEventsHandler == Plain(Get(<<"limit", "project">>))
projectSummaryHandler == Plain(Get(<<"project">>))
projectReadinessHandler == Plain(Get(<<"project">>))
projectGeneratedWriteReadinessHandler == Plain(Get(<<"project">>))
projectGeneratedWriteApplyBetaGateHandler == Plain(Get(<<"project">>))
projectImportDiffHandler == Plain(Get(<<"project">>))
projectVerificationBundleHandler == Plain(Get(<<"limit", "project">>))
projectCompatibilityHandler == Plain(Get(<<"project">>))
projectShimPreviewHandler == Plain(Get(<<"project">>))
projectShimReadinessHandler == Plain(Get(<<"project">>))
projectShimAuthorizationHandler == Plain(Get(<<"project">>))
projectShimApplyPacketHandler == Plain(Get(<<"project", "query">>))
projectShimApplyGateHandler == Plain(Get(<<"project", "query">>))
projectCutoverReadinessHandler == Plain(Get(<<"query", "limit", "project">>))
projectExecutionCutoverReadinessHandler == Plain(Get(<<"project">>))
projectExecutionForwardingV1ReadinessHandler == Plain(Get(<<"project">>))
projectExecutionForwardingV1ApplyPreviewHandler == Plain(Get(<<"project">>))
projectExecutionForwardingV1ApplyPacketHandler == Plain(Get(<<"project", "query">>))
projectExecutionForwardingV1ApplyGateHandler == Plain(Get(<<"project", "query">>))
projectExecutionForwardingV1CommandPreviewHandler == Plain(Get(<<"project", "query">>))
projectExecutionForwardingV1RollbackPreviewHandler == Plain(Get(<<"project">>))
projectStatusProjectionsHandler == Plain(Get(<<"limit", "project">>))
projectStatusProjectionAuthorizationHandler == Plain(Get(<<"project">>))
projectStatusProjectionApplyPacketHandler == Plain(Get(<<"project", "query">>))
projectStatusProjectionApplyGateHandler == Plain(Get(<<"project", "query">>))
projectArtifactsHandler == Plain(Get(<<"limit", "project">>))
projectResidualsHandler == Plain(Get(<<"limit", "project">>))
projectEnginesHandler == Plain(Get(<<"project">>))

(* Commands of one project. *)
projectDoctorHandler == Plain(Post(<<"project", "body">>, {}, CreatedOrOk))
projectImportHandler ==
    Plain(Post(<<"project", "body", "importer">>, {}, CreatedOrOk))
projectShimApplyHandler == Plain(Post(<<"project", "body">>, {}, Refusable({409})))
projectShimReadinessEvidenceHandler ==
    Plain("POST" :> Op(<<"project", "body">>, {}, 400, CreatedOrOk))
projectCutoverApplyHandler ==
    Plain(Post(<<"project", "body">>, {}, Refusable({409})))
projectExecutionForwardingV1ApplyHandler ==
    Plain(Post(<<"project", "body">>, {}, Refusable({409})))
projectStatusProjectionApplyHandler ==
    Plain(Post(<<"project", "body">>, {}, Refusable({409})))
projectArtifactArchivePreviewHandler ==
    Plain(Post(<<"body", "project">>, {}, CreatedOrOk))

-----------------------------------------------------------------------------
(* Workflow versions of a project: the project is looked up before the
   method, and most version handlers look up the version there too.        *)
VersionCommand(answers) ==
    Handler(<<"project">>, Post(<<"body">>, writeWorkflowVersionCommandError, answers))
VersionList == Handler(<<"project">>, Get(<<"limit", "version">>))

projectWorkflowVersionsHandler ==
    Handler(<<"project">>,
            Get(<<>>)
            @@ Post(<<"body">>, writeWorkflowVersionCommandError, CreatedOrOk))
projectWorkflowVersionHandler == Handler(<<"project">>, Get(<<"version">>))
projectWorkflowVersionStagesHandler ==
    Handler(<<"project", "version">>,
            Get(<<>>)
            @@ Post(<<"body">>, writeWorkflowVersionCommandError, Direct(200)))
projectWorkflowVersionGatesHandler ==
    Handler(<<"project", "version">>,
            Get(<<"limit">>)
            @@ Post(<<"body">>, writeWorkflowVersionCommandError, Evaluates))
projectWorkflowVersionTransitionPreviewsHandler ==
    Handler(<<"project", "version">>,
            Get(<<"limit">>)
            @@ Post(<<"body">>, writeWorkflowVersionCommandError, Evaluates))
projectWorkflowVersionApprovalsHandler ==
    Handler(<<"project", "version">>,
            Get(<<"limit">>)
            @@ Post(<<"body", "idempotency">>, writeWorkflowVersionCommandError,
                    AlwaysOk))
projectWorkflowVersionArtifactsHandler == VersionList
projectWorkflowVersionResidualsHandler == VersionList
projectWorkflowVersionRunsHandler == VersionList
projectWorkflowVersionRunnerPreviewHandler == VersionCommand(CreatedOrOk)
projectWorkflowVersionFixtureQueueHandler == VersionCommand(CreatedOrOk)
projectWorkflowVersionReadOnlyVerifyQueueHandler == VersionCommand(CreatedOrOk)
projectWorkflowVersionApprovedArtifactWriteQueueHandler == VersionCommand(CreatedOrOk)
projectWorkflowVersionFixtureProjectWriteQueueHandler == VersionCommand(CreatedOrOk)
projectWorkflowVersionManagedGeneratedWriteQueueHandler == VersionCommand(CreatedOrOk)

(* Workers of a project.  An execution that is blocked, lacks a capability or
   finds no task is recorded as denied before it is answered.              *)
WorkerCommand(named, answers) ==
    Handler(<<"project">>, Post(<<"body">>, named, answers))

projectWorkersHandler ==
    Handler(<<"project">>,
            Get(<<"limit">>) @@ Post(<<"body">>, {}, AlwaysCreated))
heartbeatHandler == WorkerCommand({404}, AlwaysOk)
leaseAcquireHandler ==
    WorkerCommand({404}, Answers("command", 201, 201, {403}, {403}))
leaseReleaseHandler == WorkerCommand({404}, AlwaysOk)
leaseRecoverHandler == WorkerCommand({}, AlwaysOk)
runOnceHandler == WorkerCommand({404}, Answers("direct", 200, 200, {403}, {}))
fixtureExecuteHandler == WorkerCommand({404}, Refusable({403, 409}))
readOnlyVerifyHandler == WorkerCommand({404}, Refusable({403, 409}))
approvedArtifactWriteHandler == WorkerCommand({404}, Refusable({403, 409}))
fixtureProjectWriteHandler == WorkerCommand({404}, Refusable({403, 409}))
managedGeneratedWriteHandler == WorkerCommand({404}, Refusable({403, 409}))

(* Runs, found by number and guarded by the project_key of the query. *)
OfRun(ops) == Handler(<<"id", "scope", "visible">>, ops)

runHandler == Handler(<<"id", "scope">>, Get(<<"visible">>))
runTasksHandler == OfRun(Get(<<>>))
runTaskHandler == OfRun(GetNamed(<<"id">>, {404}))
runAttemptsHandler == OfRun(Get(<<>>))
runAttemptHandler == OfRun(GetNamed(<<"id">>, {404}))
runControlHandler == OfRun(Post(<<"body">>, {404}, Refusable({409})))
executionApprovalGateHandler == OfRun(GetNamed(<<>>, {404}))
executionPlanHandler == OfRun(GetNamed(<<>>, {404}))
projectWriteDesignGateHandler == OfRun(GetNamed(<<>>, {404}))
managedGeneratedWriteGateHandler == OfRun(GetNamed(<<>>, {404}))
runEventsHandler == OfRun(Get(<<"limit">>))
runEventStreamHandler == OfRun(writeEventStream(<<>>))

-----------------------------------------------------------------------------
(* The route table.  What the middleware asks of a route depends only on its
   group, except for the routes named below.                               *)
PublicHandlers ==
    [health |-> healthHandler, ready |-> readinessHandler,
     authStatus |-> authStatusHandler, oidcLogin |-> oidcLoginHandler,
     oidcCallback |-> oidcCallbackHandler]

SelfHandlers ==
    [authMe |-> authMeHandler, logout |-> logoutHandler, projects |-> projectsHandler]

GlobalHandlers ==
    [tokens |-> tokensHandler,
     serviceStatus |-> localServiceStatusHandler,
     writeActionGate |-> webWriteActionGateHandler,
     serviceControlGate |-> desktopServiceControlGateHandler,
     notificationGate |-> desktopNotificationGateHandler,
     trayMenuGate |-> desktopTrayMenuGateHandler,
     boundaryReadiness |-> securityBoundaryReadinessHandler,
     completionAudit |-> completionAuditHandler,
     snapshotReadiness |-> completionAuditSnapshotReadinessHandler,
     opsReadiness |-> operationsReadinessHandler,
     supportBundlePreview |-> supportBundlePreviewHandler,
     migrationLedgerReadiness |-> migrationLedgerReadinessHandler,
     manifest |-> backupManifestHandler, restorePlan |-> restorePlanHandler,
     releaseReadiness |-> releaseReadinessHandler,
     remediationPlan |-> releaseRemediationPlanHandler,
     acceptancePreview |-> releaseAcceptancePreviewHandler,
     acceptanceGate |-> releaseAcceptanceGateHandler,
     exceptionDoctor |-> releaseExceptionDoctorHandler,
     exceptionRecordPreview |-> releaseExceptionRecordPreviewHandler,
     exceptionSchemaPreview |-> releaseExceptionSchemaPreviewHandler,
     exceptionMigrationApprovalGate |-> releaseExceptionMigrationApprovalGateHandler,
     exceptionApplyPreview |-> releaseExceptionApplyPreviewHandler,
     finalGate |-> releaseFinalGateHandler,
     evidenceBundle |-> releaseEvidenceBundleHandler,
     packagePreview |-> releasePackagePreviewHandler,
     distributionPreview |-> releaseDistributionPreviewHandler,
     publishGate |-> releasePublishGateHandler,
     publishApprovalPreview |-> releasePublishApprovalPreviewHandler,
     rolloutPlanPreview |-> releaseRolloutPlanPreviewHandler,
     auditCoverage |-> auditCoverageHandler,
     permissionDoctor |-> permissionDoctorHandler,
     conformance |-> conformanceHandler,
     artifactIntegrity |-> artifactIntegrityHandler,
     auditEvents |-> auditEventsHandler, eventStream |-> eventStreamHandler,
     workerPoolSummary |-> workerPoolSummaryHandler,
     schedulePreview |-> workerPoolSchedulePreviewHandler,
     workflows |-> workflowsHandler, runs |-> runCollectionHandler,
     workers |-> workerCollectionHandler, worker |-> workerDetailHandler,
     artifacts |-> artifactCollectionHandler, artifact |-> artifactHandler,
     artifactContent |-> artifactContentHandler]

RunHandlers ==
    [run |-> runHandler, runTasks |-> runTasksHandler, runTask |-> runTaskHandler,
     runAttempts |-> runAttemptsHandler, runAttempt |-> runAttemptHandler,
     runControl |-> runControlHandler,
     executionApprovalGate |-> executionApprovalGateHandler,
     executionPlan |-> executionPlanHandler,
     projectWriteDesignGate |-> projectWriteDesignGateHandler,
     managedGeneratedWriteGate |-> managedGeneratedWriteGateHandler,
     runEvents |-> runEventsHandler, runEventStream |-> runEventStreamHandler]

WorkerHandlers ==
    [projectWorkers |-> projectWorkersHandler, heartbeat |-> heartbeatHandler,
     leaseAcquire |-> leaseAcquireHandler, leaseRelease |-> leaseReleaseHandler,
     leaseRecover |-> leaseRecoverHandler, runOnce |-> runOnceHandler,
     fixtureExecute |-> fixtureExecuteHandler,
     readOnlyVerify |-> readOnlyVerifyHandler,
     approvedArtifactWrite |-> approvedArtifactWriteHandler,
     fixtureProjectWrite |-> fixtureProjectWriteHandler,
     managedGeneratedWrite |-> managedGeneratedWriteHandler]

VersionHandlers ==
    [versions |-> projectWorkflowVersionsHandler,
     version |-> projectWorkflowVersionHandler,
     stages |-> projectWorkflowVersionStagesHandler,
     gates |-> projectWorkflowVersionGatesHandler,
     transitionPreviews |-> projectWorkflowVersionTransitionPreviewsHandler,
     approvals |-> projectWorkflowVersionApprovalsHandler,
     versionArtifacts |-> projectWorkflowVersionArtifactsHandler,
     versionResiduals |-> projectWorkflowVersionResidualsHandler,
     versionRuns |-> projectWorkflowVersionRunsHandler,
     runnerPreview |-> projectWorkflowVersionRunnerPreviewHandler,
     fixtureQueue |-> projectWorkflowVersionFixtureQueueHandler,
     readOnlyVerifyQueue |-> projectWorkflowVersionReadOnlyVerifyQueueHandler,
     approvedArtifactWriteQueue |->
         projectWorkflowVersionApprovedArtifactWriteQueueHandler,
     fixtureProjectWriteQueue |->
         projectWorkflowVersionFixtureProjectWriteQueueHandler,
     managedGeneratedWriteQueue |->
         projectWorkflowVersionManagedGeneratedWriteQueueHandler]

ProjectHandlers ==
    [project |-> projectRecordHandler, roleBindings |-> roleBindingsHandler,
     projectEventStream |-> projectEventStreamHandler,
     projectEvents |-> projectEventsHandler, summary |-> projectSummaryHandler,
     doctor |-> projectDoctorHandler, import |-> projectImportHandler,
     readiness |-> projectReadinessHandler,
     generatedWriteReadiness |-> projectGeneratedWriteReadinessHandler,
     generatedWriteApplyBetaGate |-> projectGeneratedWriteApplyBetaGateHandler,
     importDiff |-> projectImportDiffHandler,
     verificationBundle |-> projectVerificationBundleHandler,
     compatibility |-> projectCompatibilityHandler,
     shimPreview |-> projectShimPreviewHandler,
     shimAuthorization |-> projectShimAuthorizationHandler,
     shimApplyPacket |-> projectShimApplyPacketHandler,
     shimApplyGate |-> projectShimApplyGateHandler,
     shimApply |-> projectShimApplyHandler,
     shimReadiness |-> projectShimReadinessHandler,
     shimReadinessEvidence |-> projectShimReadinessEvidenceHandler,
     executionCutoverReadiness |-> projectExecutionCutoverReadinessHandler,
     forwardingReadiness |-> projectExecutionForwardingV1ReadinessHandler,
     forwardingApplyPreview |-> projectExecutionForwardingV1ApplyPreviewHandler,
     forwardingApplyPacket |-> projectExecutionForwardingV1ApplyPacketHandler,
     forwardingApplyGate |-> projectExecutionForwardingV1ApplyGateHandler,
     forwardingApply |-> projectExecutionForwardingV1ApplyHandler,
     forwardingCommandPreview |-> projectExecutionForwardingV1CommandPreviewHandler,
     forwardingRollbackPreview |-> projectExecutionForwardingV1RollbackPreviewHandler,
     cutoverReadiness |-> projectCutoverReadinessHandler,
     cutoverApply |-> projectCutoverApplyHandler,
     statusProjections |-> projectStatusProjectionsHandler,
     projectionAuthorization |-> projectStatusProjectionAuthorizationHandler,
     projectionApplyPacket |-> projectStatusProjectionApplyPacketHandler,
     projectionApplyGate |-> projectStatusProjectionApplyGateHandler,
     projectionApply |-> projectStatusProjectionApplyHandler,
     projectArtifacts |-> projectArtifactsHandler,
     archivePreview |-> projectArtifactArchivePreviewHandler,
     residuals |-> projectResidualsHandler, engines |-> projectEnginesHandler]

(* The routes whose project is in the path. *)
InProject == ProjectHandlers @@ VersionHandlers @@ WorkerHandlers

Handlers == PublicHandlers @@ SelfHandlers @@ GlobalHandlers @@ RunHandlers @@ InProject

-----------------------------------------------------------------------------
(* What a principal may do.  "*" stands for every project or capability. *)
roleCapabilities ==
    [platform_admin |-> {"*"},
     project_admin |-> {"read", "admin", "project.manage", "auth.role.manage",
                        "auth.token.manage", "workflow.approval.record",
                        "run.control", "worker.control"},
     operator |-> {"read", "run.control", "worker.control"},
     approver |-> {"read", "workflow.approval.record"},
     auditor |-> {"read", "audit.read"},
     viewer |-> {"read"}]

CapabilitiesForRoles(roles) == UNION {roleCapabilities[r] : r \in roles}

(* The principal of a set of bindings <<role, project>>. *)
PrincipalForUser(bindings) ==
    [projects |-> {IF b[1] = "platform_admin" THEN "*" ELSE b[2] : b \in bindings},
     capabilities |-> CapabilitiesForRoles({b[1] : b \in bindings})]

=============================================================================
