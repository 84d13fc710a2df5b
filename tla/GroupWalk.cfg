SPECIFICATION Spec
CONSTANTS
    Group = {1, 2, 3, 4, 5}
    Late = 2
    Top = Top
    Nowhere = Nowhere
    Gone = Gone
    PageSize = 2
    MaxPages = 3
    MaxDepth = 3
    InitialTree <- Trees
    InitialHidden <- Hidings
    Budget <- OneOfEach
INVARIANTS TypeOK EachOnce CalmListingsAreWhole EmptyIsDoubted
