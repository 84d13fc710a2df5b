SPECIFICATION Spec
CONSTANTS
    Device = {1, 2}
    Type = {"t1", "t2"}
    Carrier = {1, 2}
    FunctionOf <- Functions
    MediumOf <- Media
    UnreadAspect = {"generation"}
    Addressable = {"total", "l1", "l2", "energy", "out", "gas", "burnt"}
    Definition <- Definitions
    Series <- MovedSeries
    Initial <- Start
    BatchSizes = {3, 8}
    Ttl = 2
    MaxPasses = 2
    MaxChanges = 1
    None = None
INVARIANTS MeasuredIsConsumption OneStretch NoPartialAnswer ReportExplainsTree
CHECK_DEADLOCK FALSE
