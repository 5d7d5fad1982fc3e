SPECIFICATION MCSpec
CONSTANTS
    w1 = w1
    w2 = w2
    r1 = r1
    l1 = l1
    l2 = l2
    l3 = l3
    c1 = c1
    k1 = k1
    p1 = p1
    p2 = p2
    Workers = {w1}
    Runs = {r1}
    LeaseIds = {l1, l2, l3}
    Capabilities = {c1}
    HeartbeatStatuses = {}
    Keys = {}
    FixtureRuns = {}
    RecoverLimit = 1
    InlineRecoverLimit = 50
    MaxAcquires = 1
    MaxControls = 0
    NoWorker = NoWorker
    NoRun = NoRun
    NoLease = NoLease
    LostLease = LostLease
    Clients = {p1, p2}
    ApplyKeys = {k1}
    MaxApplies = 2
    NoCall = NoCall
    Plays = {"callers", "approvals"}
SYMMETRY Symmetry
CONSTRAINT ExecutionRunsOnly
CHECK_DEADLOCK FALSE
INVARIANTS
    ExecutedAtMostOnce
    ExecutionAccounted
