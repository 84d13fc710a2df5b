SPECIFICATION FairSpec
CONSTANTS
    Handler = {h1, h2}
    Client = {c1}
    Trigger = {t1, t2}
    Path = {p1}
    All = All
INVARIANTS PumpIsWoken LoopIsWoken
PROPERTIES TriggerQueueSpec WishQueueSpec EveryTriggerIsResolved EveryWishIsTaken CancelStopsAll
