SPECIFICATION FairServiceSpec
CONSTANTS
    Handler = {h1}
    Client = {c1}
    Trigger = {t1}
    Path = {p1}
    All = All
INVARIANTS LossReachesMain ExitCodeIsTrue NothingCutOff
PROPERTIES EndIsReached
CHECK_DEADLOCK FALSE
