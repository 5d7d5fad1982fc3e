SPECIFICATION MCSpec
CONSTANTS
    c1 = c1
    c2 = c2
    home = home
    disk = disk
    bucket = bucket
    Copiers = {c1, c2}
    Original = home
    Targets = {disk, bucket}
    BackendOf <- MCBackendOf
    MaxCopies = 4
    MaxActivations = 3
    MaxFaults = 2
    b1 = b1
    b2 = b2
    e1 = e1
    e2 = e2
    p1 = p1
    Nothing = Nothing
    Garbled = Garbled
    Creators = {b1, b2}
    DrillRunners = {e1, e2}
    Packages = {p1}
    DatabaseOf <- MCDatabaseOf
    LastArtifact = 2
    MaxCreates = 2
    MaxDrills = 2
    MaxWrites = 1
    MaxMishaps = 1
    MaxCleanups = 1
    FirstDrill = e1
    Budget = 3
    Plays = {"migration", "backup"}
CONSTRAINT WithinBudget
SYMMETRY Symmetry
CHECK_DEADLOCK FALSE
INVARIANTS
    LocationsAgree
    ReadableThroughout
    PackagesAreSound
    DrillsAreTrue
