SPECIFICATION MCSpec
CONSTANTS
    Imports = {i1, i2}
    i1 = i1
    i2 = i2
    a1 = a1
    Trees <- MCTrees
    Labels = {"v1", "v2"}
    Configs <- MCConfigs
    NoTree = NoTree
    NoConfig = NoConfig
    MaxEdits = 1
    Applies = {a1, a2}
    Notes = {n1, huge}
    Huge = huge
    Prints = {p1, p2}
    MaxFileEdits = 1
CHECK_DEADLOCK FALSE
INVARIANTS
    IndexIsWhole
    ProjectionIsSafe
PROPERTIES
    QuietDoctorIsExact
    ImportsEnd
