SPECIFICATION MCSpec
CONSTANTS
    p1 = p1
    p2 = p2
    older = older
    newer = newer
    c1 = c1
    c2 = c2
    e1 = e1
    e2 = e2
    h0 = h0
    Procs = {p1, p2}
    Builds = {older, newer}
    HashOf <- MCHashOf
    MaxRuns = 3
    MaxDecisions = 2
    Absent = Absent
    NoHash = NoHash
    g1 = g1
    g2 = g2
    q1 = q1
    Registrars = {g1, g2}
    Readers = {q1}
    ConfigFiles <- MCConfigFiles
    Paths <- MCPaths
    StatusPath <- MCStatusPath
    Generated <- MCGenerated
    Dangerous <- MCDangerous
    AppMetadata <- MCAppMetadata
    RiskyCommands = {"rm"}
    Command = "codex"
    MaxRegistrations = 2
    Unset = Unset
    Plays = {"schema", "registration"}
SYMMETRY SetupSymmetry
CHECK_DEADLOCK FALSE
INVARIANTS
    SchemaIsAccounted
    RegistrationIsSound
    
PROPERTIES
    ImplementsExceptionMigration
