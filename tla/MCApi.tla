-------------------------------- MODULE MCApi --------------------------------
(***************************************************************************)
(* Instances of the API for TLC.  The requests, the access rows and the    *)
(* feeds share nothing here, so a behaviour plays one of them.             *)
(***************************************************************************)
EXTENDS ApiRoutes, ApiService, ApiAccess, ApiFeeds

VARIABLE play

mcVars == <<vars, apiVars, accessVars, feedVars, play>>

p1 == "p1"
p2 == "p2"

McProjects == {p1, p2}

McPublicRoutes == DOMAIN PublicHandlers
McSelfRoutes == DOMAIN SelfHandlers
McRunRoutes == DOMAIN RunHandlers

Admin == PrincipalForUser({<<"platform_admin", NoProject>>})

McPrincipals ==
    {NoPrincipal, Admin,
     PrincipalForUser({<<"project_admin", p1>>}),
     PrincipalForUser({<<"operator", p1>>, <<"viewer", p2>>}),
     PrincipalForUser({<<"approver", p1>>}),
     PrincipalForUser({<<"auditor", p2>>})}

McBindings ==
    {[role |-> "platform_admin", project |-> NoProject, until |-> Never],
     [role |-> "operator", project |-> p1, until |-> 3]}

(* The routes two clients race on. *)
RetryRoutes == {"runControl"}

RoutesOf(guarded, evaluated) ==
    {[k \in Keys |-> IF k \in GuardedKeys THEN g ELSE e] : g \in guarded, e \in evaluated}

(* What a behaviour does not play starts in one state. *)
One(set) == CHOOSE x \in set : TRUE

MCInit ==
    /\ play \in {"retry", "commands", "routing", "sessions", "tokens", "logins", "stream", "pages"}
    /\ AccessInit /\ FeedInit
    /\ play # "pages" =>
         walk.of = ListRunCollection /\ rows = [r \in RowIds |-> [in |-> TRUE, key |-> 0]]
    /\ \/ play = "retry" /\ ApiInit(RoutesOf(RetryRoutes, {"gates"}))
       \/ play = "commands" /\ ApiInit(RoutesOf(CommandRoutes, EvaluationRoutes))
       \/ play \in {"routing", "sessions", "tokens", "logins", "stream", "pages"}
          /\ ApiInit(RoutesOf({"versions"}, {"gates"}))
    /\ fact = NoFact
    /\ \A c \in Clients : call[c].key = One(Keys) /\ call[c].req = One(Requests)

(* Two clients call, repeat and lose requests of one project.  The clients are
   alike, and so are the requests: which comes first does not matter.  Keys
   do not meet: a behaviour has one.  It is one whose hash covers what was
   found: the others are as these are while that does not change.          *)
RetryNext ==
    \/ \E c \in Clients, k \in UnguardedKeys \cup FactKeys, req \in Requests :
         /\ sends = 0 => c = One(Clients) /\ req = One(Requests)
         /\ sends > 0 => k = call[One(Clients)].key
         /\ BeginCommand(c, Admin, k, req, p1, p1)
    \/ \E c \in Clients : ServeCommand(c) \/ FailCommand(c)
    \/ sends > 0 /\ \E f \in Facts : ChangeFact(f) /\ UNCHANGED apiVars

(* The scopes a request of a route can have. *)
Scopes(route) ==
    IF route \in DOMAIN InProject THEN McProjects
    ELSE IF route \in RunRoutes \cup DOMAIN GlobalHandlers THEN McProjects \cup {NoProject}
    ELSE {NoProject}

Owners(route) == IF route \in RunRoutes \cup RunBodied THEN McProjects ELSE {p1}

Sender == One(Clients)

(* One client sends one request that is no command of the ledger. *)
RoutingNext ==
    \/ /\ sends = 0
       /\ \E who \in Principals, route \in DOMAIN Routes, method \in Methods :
            \E scope \in Scopes(route), owner \in Owners(route) :
               \/ AnswerEarly(Sender, who, route, method, scope, owner)
               \/ BeginDirect(Sender, who, route, method, scope, owner)
    \/ WriteDirect(Sender) \/ AnswerDirect(Sender)

(* One client sends any command and repeats it; nothing else changes, so what
   it finds is the same.                                                   *)
CommandsNext ==
    \/ /\ sends < 2
       /\ \E who \in Principals, k \in Keys \ FactKeys :
            \E scope \in Scopes(routeOf[k]), owner \in Owners(routeOf[k]) :
               /\ sends = 1 => http[Sender].who = who /\ call[Sender].key = k
               /\ BeginCommand(Sender, who, k, One(Requests), scope, owner)
    \/ ServeCommand(Sender) \/ FailCommand(Sender)

(* The clock's bound where sessions are played: their absolute lifetime and
   one tick more.                                                          *)
SessionsEnd == AbsoluteTTL + 1

MCNext ==
    /\ UNCHANGED play
    /\ \/ /\ play = "retry" /\ RetryNext
          /\ UNCHANGED <<accessVars, feedVars>>
       \/ /\ play = "routing" /\ RoutingNext
          /\ UNCHANGED <<accessVars, feedVars>>
       \/ /\ play = "commands" /\ CommandsNext
          /\ UNCHANGED <<accessVars, feedVars>>
       \/ /\ play = "sessions" /\ SessionsNext /\ now' <= SessionsEnd
          /\ UNCHANGED <<vars, apiVars, feedVars>>
       \/ /\ play = "tokens" /\ TokensNext
          /\ UNCHANGED <<vars, apiVars, feedVars>>
       \/ /\ play = "logins" /\ LoginsNext
          /\ UNCHANGED <<vars, apiVars, feedVars>>
       \/ /\ play = "stream" /\ StreamNext
          /\ UNCHANGED <<vars, apiVars, accessVars>>
       \/ /\ play = "pages" /\ WalkNext
          /\ UNCHANGED <<vars, apiVars, accessVars>>

Calling == play = "retry" \/ play = "commands"

(* A handler that was called goes on, and so does the loop of the stream. *)
Fairness ==
    /\ \A c \in Clients :
         WF_mcVars(Calling /\ ServeCommand(c)
                   /\ UNCHANGED <<accessVars, feedVars, play>>)
    /\ WF_mcVars(play = "stream" /\ Poll /\ UNCHANGED <<vars, apiVars, accessVars, play>>)

MCSpec == MCInit /\ [][MCNext]_mcVars /\ Fairness

=============================================================================
