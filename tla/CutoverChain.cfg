SPECIFICATION MCSpec
CONSTANTS
    None = None
    Calls = {c1, c2}
    Hashes = {h1, h2}
    Reports <- MCReports
    StartFacts <- MCStartFacts
    MaxImports = 3
    MaxProofs = 2
    MaxChanges = 2
    Authors = {c1, c2}
    Stages <- MCStages
    StageLinks <- MCStageLinks
    Reasons = {r1, r2}
    CreateKeys = {k1, k2}
    ProfileHashes = {f1, f2}
    MaxAuthorings = 3
    MaxProfileEdits = 1
    Unfrozen = Unfrozen
    Nil = Nil
    ApiCallers = {c1, c2}
    CliCallers = {l1}
    MaxConnections = 2
    Requests <- MCRequests
    HighRisk = {"high"}
    MaxPreviews = 3
    Free = Free
    Plays = {"forwarding", "cutover", "authoring", "pool"}
SYMMETRY CallSymmetry
CHECK_DEADLOCK FALSE
INVARIANTS
    ChangesAreGrounded
    AuthoredVersionIsSound
    PoolIsSound
    PreviewIsKept
PROPERTIES
    QuietVerdictIsExact
