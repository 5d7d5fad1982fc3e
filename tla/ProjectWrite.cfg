SPECIFICATION MCSpec
CONSTANTS
    d1 = d1
    d2 = d2
    w1 = w1
    w2 = w2
    A = A
    P = P
    Drills = {d1, d2}
    Workers = {w1, w2}
    Contents = {P, A}
    Original = P
    Expected = {P, A}
    Failures = {"database", "write", "rollback", "crash", "edit"}
    MaxEdits = 1
    Torn = Torn
    NoContent = NoContent
    NoDrill = NoDrill
    q1 = q1
    q2 = q2
    j1 = j1
    j2 = j2
    x1 = x1
    k1 = k1
    Callers = {q1, q2}
    Jobs = {j1, j2}
    JobContents = {x1}
    ChosenKeys = {k1}
    JobKinds = {"read_only_verify", "fixture_execution", "approved_artifact_write", "fixture_project_write", "managed_generated_write"}
    Scope = "fixture"
    Volatile = {"read_project", "preimage"}
    JobFaults = {"lost", "damaged"}
    MaxCalls = 2
    MaxChanges = 1
    NoTurn = NoTurn
    FirstJob = j1
    FirstCaller = q1
    Plays = {"drill", "commands"}
CONSTRAINT FirstFree
CHECK_DEADLOCK FALSE
INVARIANTS
    EvidenceStands
    CallsAreTrue
    FileRestored
    PreimageRecoverable
PROPERTIES
    DrillsEnd
