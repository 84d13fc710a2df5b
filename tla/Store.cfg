SPECIFICATION FairSpec
CONSTANTS
    Graph = {1, 2, 3, 4}
    Group = {1, 2, 3}
    Dissolved = {3}
    PageSize = 1
    InitialGraphs <- Start
    None = None
    Grants <- SomeGrants
    MaxOutside = 2
    MaxFailures = 1
INVARIANTS TypeOK ListingIsWhole
PROPERTIES OnlyItsOwnEntry WithdrawnBeforeForgotten EchoEnds
CHECK_DEADLOCK FALSE
