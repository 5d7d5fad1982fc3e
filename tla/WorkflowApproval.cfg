SPECIFICATION Spec
CONSTANTS
    Clients = {c1, c2}
    Items = {i1}
    Actors = {a1, a2}
    Risks = {"high"}
    Keys = {"default"}
    MaxRows = 5
    NoRequest = NoRequest
SYMMETRY Symmetry
CHECK_DEADLOCK FALSE
INVARIANTS
    ApprovalChain
PROPERTIES
    ImplementsApprovalState
