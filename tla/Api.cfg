SPECIFICATION MCSpec
CONSTANTS
    c1 = c1
    c2 = c2
    k1 = k1
    k2 = k2
    k3 = k3
    q1 = q1
    q2 = q2
    f1 = f1
    f2 = f2
    Clients = {c1, c2}
    GuardedKeys = {k1, k3}
    FactKeys = {k3}
    UnguardedKeys = {k2}
    Requests = {q1, q2}
    Facts = {f1, f2}
    MaxCalls = 3
    NoRow = NoRow
    NoClient = NoClient
    NoReply = NoReply
    Conflict = Conflict
    NoOutcome = NoOutcome
    OtherKey = OtherKey
    Routes <- Handlers
    PublicRoutes <- McPublicRoutes
    SelfRoutes <- McSelfRoutes
    RunRoutes <- McRunRoutes
    Principals <- McPrincipals
    NoPrincipal = NoPrincipal
    Projects <- McProjects
    NoProject = NoProject
    MaxSends = 3
    Callers = {c1, c2}
    s1 = s1
    t1 = t1
    Sessions = {s1}
    Tokens = {t1}
    Bindings <- McBindings
    Never = Never
    IdleTTL = 1
    AbsoluteTTL = 2
    TokenMaxTTL = 2
    MaxNow = 4
    a1 = a1
    a2 = a2
    Addresses = {a1, a2}
    LoginLimit = 1
    LoginWindow = 2
    MaxEntries = 1
    MaxEvents = 4
    StreamLimit = 2
    MaxOpens = 2
    RowIds = {1, 2, 3}
    MaxTime = 3
    PageLimit = 1
    MaxWrites = 2
CHECK_DEADLOCK FALSE
INVARIANTS
    EffectsAreAccounted
    AccessIsEarned
    FeedsAreComplete
PROPERTIES
    ImplementsIdempotentCommands
    EveryCallEnds
    StreamCatchesUp
