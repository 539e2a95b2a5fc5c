SPECIFICATION Spec
CONSTANTS
    p1 = p1
    None = None
    Events = {eOk, eOther}
    Partitions = {p1}
    PartitionOf <- OnePartition
    RuleFailing = {}
    LogRejects = {}
    ResultRejects = {}
    DltRejects = {}
    Undecodable = {}
    Consumers = {c1, c2}
    MaxDeliveries = 2
    DrillPoint = None
    DrillEvent = None
    FailOnce = TRUE
    MaxLog = 2
    MaxFaults = 2
INVARIANTS NoSilentEventLoss
CHECK_DEADLOCK FALSE
