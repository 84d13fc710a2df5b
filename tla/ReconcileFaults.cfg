SPECIFICATION Spec
CONSTANTS
    g1 = g1
    g2 = g2
    d1 = d1
    d2 = d2
    Group = {g1, g2}
    Device = {d1, d2}
    GraphId = {1, 2, 3}
    Path <- WithInternal
    Allowed <- TwoNames
    Own = "own"
    None = None
    Gone = Gone
    InitialRealm <- OnlyOne
    InitialRights <- Mixed
    InitialDoc <- StrangerOrBeside
    EditsDuringPass = FALSE
    Budget <- Faults
INVARIANTS OneGraphPerGroup NoIdleWrite
PROPERTIES GroupKeepsAccess ForeignGraphsUntouched MoveRemovesNothing DevicesStayUntilTrouble UserNameStands
CHECK_DEADLOCK FALSE
