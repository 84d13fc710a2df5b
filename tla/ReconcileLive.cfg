SPECIFICATION FairSpec
CONSTANTS
    g1 = g1
    g2 = g2
    d1 = d1
    d2 = d2
    Group = {g1, g2}
    Device = {d1, d2}
    GraphId = {1, 2, 3}
    Path <- SameWithInternal
    Allowed <- SameName
    Own = "own"
    None = None
    Gone = Gone
    InitialRealm <- Both
    InitialRights <- AllInA
    InitialDoc <- Legacy
    EditsDuringPass = TRUE
    Budget <- Healing
PROPERTIES Converges FallsSilent
