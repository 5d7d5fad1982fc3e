SPECIFICATION MCSpec
CONSTANTS
    w1 = w1
    w2 = w2
    r1 = r1
    r2 = r2
    l1 = l1
    l2 = l2
    c1 = c1
    Workers = {w1, w2}
    Runs = {r1, r2}
    LeaseIds = {l1, l2}
    Capabilities = {c1}
    HeartbeatStatuses = {"online", "offline"}
    Keys = {}
    FixtureRuns = {r1}
    RecoverLimit = 1
    InlineRecoverLimit = 50
    MaxAcquires = 2
    MaxControls = 2
    NoWorker = NoWorker
    NoRun = NoRun
    NoLease = NoLease
    LostLease = LostLease
    Plays = {"leases", "control"}
SYMMETRY Symmetry
CHECK_DEADLOCK FALSE
INVARIANTS
    LeaseIsExclusive
    AcquireExactlyOnce
    AttemptsBackedByLeases
    CancelledRunSettlesTask
PROPERTIES
    LeaseHistoryKept
