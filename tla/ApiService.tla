----------------------------- MODULE ApiService -----------------------------
(***************************************************************************)
(* Requests to the HTTP API over the command ledger.  The middleware, the  *)
(* checks of the handler and a read ask for nothing this module changes,   *)
(* so they are one step with the arrival of the request; a write then runs *)
(* in the ledger's transaction, or in one of its own, while other requests *)
(* do the same.  A client that heard nothing, or was answered an error,    *)
(* sends the same request again.                                           *)
(***************************************************************************)
EXTENDS CommandLedger, Sequences

CONSTANTS
    Routes,       \* the handler of each route: the checks it makes whatever the
                  \* method, and the operation of each method it knows
    PublicRoutes, \* the routes open to everyone,
    SelfRoutes,   \* those about the sender,
    RunRoutes,    \* and those with a run in the path
    Principals,   \* who sends requests; NoPrincipal has no valid credential
    NoPrincipal,
    Projects,
    NoProject,    \* a request that names no project
    MaxSends      \* bound on the requests sent

VARIABLES
    routeOf,   \* the route whose command each key belongs to
    http,      \* each client's request
    denied,    \* the calls that recorded a refusal
    direct,    \* the requests that committed a write outside the ledger
    sends      \* requests sent so far

apiVars == <<routeOf, http, denied, direct, sends>>

(* The statuses of net/http. *)
StatusOK == 200
StatusCreated == 201
StatusBadRequest == 400
StatusUnauthorized == 401
StatusForbidden == 403
StatusNotFound == 404
StatusMethodNotAllowed == 405
StatusConflict == 409
StatusTooLarge == 413
StatusTooManyRequests == 429
StatusInternalError == 500
StatusNotImplemented == 501
StatusUnavailable == 503

(* What a status says: the request succeeded, or the client is at fault. *)
Succeeds(s) == 200 <= s /\ s <= 299
Rejects(s) == 400 <= s /\ s <= 499

(* What a failed check is answered with. *)
CheckStatus ==
    [project |-> {StatusNotFound},       \* GetByKey, whatever its error
     scope |-> {StatusNotFound},         \* projectVisibilityScopeFromQuery
     query |-> {StatusBadRequest}, limit |-> {StatusBadRequest},
     body |-> {StatusBadRequest}, id |-> {StatusBadRequest},
     key |-> {StatusBadRequest},         \* a required project_key
     idempotency |-> {StatusBadRequest}, \* a token approval without a key
     \* ensureRunVisibleToProject and its like
     visible |-> {StatusNotFound, StatusInternalError},
     \* writeWorkflowVersionLookupError
     version |-> {StatusBadRequest, StatusNotFound, StatusInternalError},
     service |-> {StatusUnavailable}, importer |-> {StatusNotImplemented},
     enabled |-> {StatusNotFound}, cookie |-> {StatusBadRequest},
     identity |-> {StatusUnauthorized}, flusher |-> {StatusInternalError}]

(* A method the route does not know. *)
Op0 == [checks |-> <<>>, named |-> {}, other |-> 0,
        answers |-> [kind |-> "read", made |-> StatusOK, found |-> StatusOK,
                     refused |-> {}, refound |-> {}]]

Methods == {"GET", "POST", "DELETE", "PUT"}

(* What a route does with a method. *)
OpOf(route, method) ==
    IF method \in DOMAIN Routes[route].ops THEN Routes[route].ops[method] ELSE Op0

Known(route, method) == method \in DOMAIN Routes[route].ops

KindOf(route, method) == OpOf(route, method).answers.kind

CommandRoutes == {r \in DOMAIN Routes : KindOf(r, "POST") = "command"}
EvaluationRoutes == {r \in DOMAIN Routes : KindOf(r, "POST") = "evaluation"}

(* The executions whose body names the run. *)
RunBodied == {"fixtureExecute", "readOnlyVerify", "approvedArtifactWrite",
              "fixtureProjectWrite", "managedGeneratedWrite"}

(* The routing of keys: a replaying command's key belongs to such a route. *)
Routings ==
    {routes \in [Keys -> CommandRoutes \cup EvaluationRoutes] :
       \A k \in Keys : routes[k] \in CommandRoutes <=> k \in GuardedKeys}

HttpPhases == {"idle", "calling", "writing", "written", "answered"}

(* What every operation keeps to: a command's failure is no success, only a
   new outcome is answered as created, and a success is no client error.   *)
OpTells(op) ==
    LET a == op.answers
    IN  /\ 0 \notin op.named \cup a.refused \cup a.refound \cup {op.other, a.made, a.found}
        /\ a.kind # "read" => ~Rejects(a.made)
        /\ a.kind \in {"command", "evaluation"} =>
             /\ \A s \in op.named \cup {op.other} : ~Succeeds(s)
             /\ StatusCreated \notin a.refused \cup a.refound

(* The tables keep to it; and no route has its run in the path and the body. *)
ASSUME RoutesAssumption ==
    /\ "health" \in DOMAIN Routes
    /\ RunBodied \cap RunRoutes = {}
    /\ \A check \in DOMAIN CheckStatus : 0 \notin CheckStatus[check]
    /\ \A route \in DOMAIN Routes, method \in Methods :
         /\ Known(route, method) => OpTells(OpOf(route, method))
         /\ LET checks == Routes[route].before \o OpOf(route, method).checks
            IN  \A i \in 1..Len(checks) : checks[i] \in DOMAIN CheckStatus

ASSUME SendsAssumption == MaxSends \in Nat

Idle == [phase |-> "idle", who |-> NoPrincipal, route |-> "health",
         method |-> "GET", scope |-> NoProject, owner |-> NoProject,
         id |-> 0, mine |-> 0, status |-> 0]

HttpTypeOK ==
    /\ routeOf \in [Keys -> CommandRoutes \cup EvaluationRoutes]
    /\ \A c \in Clients :
         /\ http[c].phase \in HttpPhases
         /\ http[c].route \in DOMAIN Routes
         /\ http[c].status = 0 <=> http[c].phase # "answered"
    /\ denied \subseteq 1..MaxCalls
    /\ direct \subseteq 1..MaxSends
    /\ sends \in 0..MaxSends

ApiInit(routes) ==
    /\ Init
    /\ routeOf \in routes
    /\ http = [c \in Clients |-> Idle]
    /\ denied = {} /\ direct = {} /\ sends = 0

-----------------------------------------------------------------------------
(* requestCapability *)
requestCapability(route, method) ==
    IF route = "roleBindings" THEN "auth.role.manage"
    ELSE IF route = "tokens" THEN "auth.token.manage"
    ELSE IF route = "logout" \/ method = "GET" THEN "read"
    ELSE IF method = "POST" /\ route = "approvals" THEN "workflow.approval.record"
    ELSE IF method = "POST" /\ route \in RunRoutes THEN "run.control"
    ELSE "admin"

(* What a principal may do.  "*" stands for every project or capability. *)
AllowsProject(principal, p) == {"*", p} \cap principal.projects # {}

AllowsCapability(principal, c) == {"*", c} \cap principal.capabilities # {}

(* securityMiddleware: an untrusted forwarded header, a body over the limit,
   too many logins.                                                        *)
securityMiddleware(route, method) ==
    {StatusBadRequest} \cup (IF method = "GET" THEN {} ELSE {StatusTooLarge})
          \cup (IF route \in {"oidcLogin", "oidcCallback"} THEN {StatusTooManyRequests} ELSE {})

(* authMiddleware: what a request is refused with before any handler; the
   scope is the project in the path or the project_key of the query.       *)
authMiddleware(who, route, method, scope) ==
    IF route \in PublicRoutes THEN {}
    ELSE IF who = NoPrincipal THEN {StatusUnauthorized}
    ELSE IF ~AllowsCapability(who, requestCapability(route, method)) THEN {StatusForbidden}
    ELSE IF scope # NoProject /\ ~AllowsProject(who, scope) THEN {StatusNotFound}
    ELSE IF scope = NoProject /\ route \notin SelfRoutes
            /\ ~AllowsProject(who, "*") THEN {StatusForbidden}
    ELSE {}

(* ensureRunVisibleToProject, scope.allows, and the same comparison the
   executions make for the run in their body.                              *)
Visible(route, scope, owner) ==
    /\ route \in RunRoutes => scope \in {NoProject, owner}
    /\ route \in RunBodied => scope = owner

ChecksOf(route, method) ==
    Routes[route].before \o OpOf(route, method).checks

(* The statuses a handler may answer with before it writes: a failed check, a
   method it does not know, or, for a read, its result.                    *)
EarlyStatuses(route, method, scope, owner) ==
    LET checks == ChecksOf(route, method)
        failing == UNION {CheckStatus[checks[i]] : i \in 1..Len(checks)}
        op == OpOf(route, method)
    IN  IF ~Known(route, method) THEN failing \cup {StatusMethodNotAllowed}
        ELSE IF ~Visible(route, scope, owner) THEN failing \cup {StatusNotFound}
        ELSE IF op.answers.kind = "read"
             THEN failing \cup op.named \cup {op.other, op.answers.made}
        ELSE failing

(* The request as the server holds it. *)
Received(c, who, route, method, scope, owner) ==
    [phase |-> "calling", who |-> who, route |-> route, method |-> method,
     scope |-> scope, owner |-> owner, id |-> sends + 1, mine |-> 0,
     status |-> 0]

Free(c) == http[c].phase \in {"idle", "answered"} /\ sends < MaxSends

(* The request is answered by the middleware, by a check or as a read. *)
AnswerEarly(c, who, route, method, scope, owner) ==
    LET refused == authMiddleware(who, route, method, scope)
    IN  /\ Free(c)
        /\ sends' = sends + 1
        /\ \E s \in securityMiddleware(route, method) \cup
                    (IF refused # {} THEN refused
                     ELSE EarlyStatuses(route, method, scope, owner)) :
             http' = [http EXCEPT ![c] =
                        [Received(c, who, route, method, scope, owner) EXCEPT
                           !.phase = "answered", !.status = s]]
        /\ UNCHANGED <<routeOf, denied, direct>>
        /\ UNCHANGED vars

(* The request passes them and begins its write. *)
BeginWrite(c, who, route, method, scope, owner) ==
    /\ Free(c)
    /\ authMiddleware(who, route, method, scope) = {}
    /\ Known(route, method)
    /\ Visible(route, scope, owner)
    /\ sends' = sends + 1
    /\ UNCHANGED <<routeOf, denied, direct>>

BeginCommand(c, who, k, req, scope, owner) ==
    /\ BeginWrite(c, who, routeOf[k], "POST", scope, owner)
    /\ Call(c, k, req)
    /\ http' = [http EXCEPT ![c] =
                  [Received(c, who, routeOf[k], "POST", scope, owner) EXCEPT
                     !.mine = calls + 1]]

BeginDirect(c, who, route, method, scope, owner) ==
    /\ BeginWrite(c, who, route, method, scope, owner)
    /\ KindOf(route, method) = "direct"
    /\ http' = [http EXCEPT ![c] =
                  [Received(c, who, route, method, scope, owner) EXCEPT
                     !.phase = "writing"]]
    /\ UNCHANGED vars

-----------------------------------------------------------------------------
AnswersOf(c) == OpOf(http[c].route, http[c].method).answers

Answer(c, s) ==
    /\ http' = [http EXCEPT ![c].phase = "answered", ![c].status = s]
    /\ UNCHANGED <<routeOf, sends>>

(* The command decides and writes its outcome; some may write a refusal. *)
Decide(c) ==
    /\ Apply(c)
    /\ \/ UNCHANGED denied
       \/ /\ AnswersOf(c).refused # {}
          /\ denied' = denied \cup {call[c].id}
    /\ UNCHANGED <<routeOf, http, direct, sends>>

(* Variant: a replayed outcome is answered as a created one. *)
FoundStatusesCreated(c) ==
    LET a == AnswersOf(c) IN {a.made}

(* What a replayed outcome is answered with. *)
FoundStatuses(c) ==
    LET a == AnswersOf(c)
    IN  IF row[call[c].key].response \in denied THEN a.refound ELSE {a.found}

MadeStatuses(c) ==
    LET a == AnswersOf(c)
    IN  IF call[c].id \in denied THEN a.refused ELSE {a.made}

(* A transaction fails with an error the handler names, or with another; a
   failure reported by the commit itself may come after the commit.        *)
FailStatuses(c) ==
    LET op == OpOf(http[c].route, http[c].method)
    IN  IF call[c].phase = "committed" THEN {op.other} ELSE op.named \cup {op.other}

(* The call runs in the ledger; what ends it is answered. *)
ServeCommand(c) ==
    /\ http[c].phase = "calling"
    /\ \/ /\ ReserveNew(c) \/ ReserveExisting(c) \/ Commit(c)
          /\ UNCHANGED apiVars
       \/ Decide(c)
       \/ /\ ReserveConflict(c)
          /\ Answer(c, StatusConflict)
          /\ UNCHANGED <<denied, direct>>
       \/ /\ Replay(c)
          /\ \E s \in FoundStatuses(c) : Answer(c, s)
          /\ UNCHANGED <<denied, direct>>
       \/ /\ Reply(c)
          /\ \E s \in MadeStatuses(c) : Answer(c, s)
          /\ UNCHANGED <<denied, direct>>

FailCommand(c) ==
    /\ http[c].phase = "calling"
    /\ Fail(c)
    /\ \E s \in FailStatuses(c) : Answer(c, s)
    /\ UNCHANGED <<denied, direct>>

(* A write without the ledger commits, or records a refusal, and is answered. *)
WriteDirect(c) ==
    /\ http[c].phase = "writing"
    /\ direct' = direct \cup {http[c].id}
    /\ http' = [http EXCEPT ![c].phase = "written"]
    /\ UNCHANGED <<routeOf, denied, sends>>
    /\ UNCHANGED vars

AnswerDirect(c) ==
    LET op == OpOf(http[c].route, http[c].method)
    IN  /\ \/ /\ http[c].phase = "writing"
              /\ \E s \in op.named \cup op.answers.refused \cup {op.other} : Answer(c, s)
           \/ /\ http[c].phase = "written"
              /\ \E s \in {op.answers.made, op.other} : Answer(c, s)
        /\ UNCHANGED <<denied, direct>>
        /\ UNCHANGED vars

ApiNext ==
    \/ \E f \in Facts : ChangeFact(f) /\ UNCHANGED apiVars
    \/ \E c \in Clients :
         \/ \E who \in Principals, scope, owner \in Projects \cup {NoProject} :
              \/ \E k \in Keys, req \in Requests : BeginCommand(c, who, k, req, scope, owner)
              \/ \E route \in DOMAIN Routes, method \in Methods :
                   \/ AnswerEarly(c, who, route, method, scope, owner)
                   \/ BeginDirect(c, who, route, method, scope, owner)
         \/ ServeCommand(c) \/ FailCommand(c)
         \/ WriteDirect(c) \/ AnswerDirect(c)

ApiSpec == ApiInit(Routings) /\ [][ApiNext]_<<vars, apiVars>>

-----------------------------------------------------------------------------
(* The request of c took effect. *)
TookEffect(c) ==
    \/ http[c].mine # 0 /\ http[c].mine \in effects[call[c].key]
    \/ http[c].id \in direct

(* A success of a command means that the outcome of this key, for this request
   and what it is about, is on record.                                                           *)
SuccessTold(c) ==
    http[c].mine # 0 /\ AnswersOf(c).kind = "command" /\ Succeeds(http[c].status) =>
        /\ row[call[c].key] # NoRow
        /\ Asking(row[call[c].key]) = Asking(call[c])

(* "Created" means that this very request made it. *)
CreationTold(c) ==
    http[c].mine # 0 /\ AnswersOf(c).made = StatusCreated /\ AnswersOf(c).found = StatusOK
    /\ http[c].status = StatusCreated =>
        /\ TookEffect(c)
        /\ http[c].mine \notin denied

(* An error below 500 means that the request changed nothing, unless it is a
   refusal that was put on record or the handler answers every failure that
   way.                                                                    *)
ErrorTold(c) ==
    /\ Rejects(http[c].status)
    /\ OpOf(http[c].route, http[c].method).other = StatusInternalError
    => (TookEffect(c) => http[c].mine \in denied)

(* A status says what became of the write. *)
StatusTellsEffect ==
    \A c \in Clients :
        /\ http[c].phase = "answered"
        /\ Known(http[c].route, http[c].method)
        => SuccessTold(c) /\ CreationTold(c) /\ ErrorTold(c)

(* The project a request writes in: the one of its path, or the one its run
   belongs to.                                                             *)
Target(c) == IF http[c].route \in RunRoutes THEN http[c].owner
             ELSE http[c].scope

(* Whatever the interleaving of checks by path, query and run, a request that
   took effect had the capability, and wrote in a project its sender may
   see; so did the run it names.                                           *)
WritesStayInProject ==
    \A c \in Clients :
        TookEffect(c) /\ http[c].route \notin PublicRoutes \cup SelfRoutes =>
            /\ http[c].who # NoPrincipal
            /\ AllowsCapability(http[c].who,
                                requestCapability(http[c].route, http[c].method))
            /\ AllowsProject(http[c].who, IF Target(c) = NoProject THEN "*" ELSE Target(c))
            /\ http[c].route \in RunBodied => http[c].owner = Target(c)

(* Every effect of a request is accounted for: by the status the sender gets,
   and by a capability in the project it falls in (requestCapability, the
   handlers of server.go).                                                 *)
EffectsAreAccounted == HttpTypeOK /\ StatusTellsEffect /\ WritesStayInProject

=============================================================================
