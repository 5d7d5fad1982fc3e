SPECIFICATION Spec
CONSTANTS
    own = own
    c1 = c1
    c2 = c2
    k1 = k1
    q1 = q1
    Contents = {own}
    OwnContent = own
    NoContent = NoContent
    Calls = {c1, c2}
    Keys = {k1}
    ItemsRequested = {"audit"}
    ArtifactSets <- MCArtifactSets
    Reported = {"warn"}
    Requirements = {q1}
    MaxDecisions = 1
    MaxChanges = 1
    Scopes = {"project", "platform"}
CONSTRAINT PlatformAlone
SYMMETRY CallSymmetry
CHECK_DEADLOCK FALSE
INVARIANTS
    VerdictIsRight
