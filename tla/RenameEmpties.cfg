SPECIFICATION Spec
CONSTANTS
    g1 = g1
    g2 = g2
    d1 = d1
    d2 = d2
    Group = {g1, g2}
    Device = {d1, d2}
    GraphId = {1, 2}
    Path <- TwoNames
    Allowed <- TwoNames
    Own = "own"
    None = None
    Gone = Gone
    InitialRealm <- OnlyOne
    InitialRights <- AllInA
    InitialDoc <- Empty
    EditsDuringPass = TRUE
    Budget <- OneRename
PROPERTIES DevicesStay
