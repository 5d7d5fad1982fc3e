SPECIFICATION Spec
CONSTANTS
    c1 = c1
    c2 = c2
    v0 = v0
    v1 = v1
    k1 = k1
    l1 = l1
    NoBinding = NoBinding
    Calls = {c1, c2}
    Requests <- MCRequests
    Keys = {k1}
    Versions = {v0, v1}
    Plays <- MCPlays
    Labels = {l1}
    MaxSnapshots = 1
SYMMETRY CallSymmetry
CHECK_DEADLOCK FALSE
INVARIANTS
    AcceptedProofsComplete
    
