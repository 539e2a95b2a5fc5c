SPECIFICATION Spec
CONSTANTS
    p1 = p1
    None = None
    Events = {eOk, eBad, eBadLong, eNull}
    Partitions = {p1}
    PartitionOf <- OnePartition
    RuleFailing = {eBad, eBadLong}
    LogRejects = {eNull}
    ResultRejects = {eNull}
    DltRejects = {eBadLong, eNull}
    Undecodable = {}
    Consumers = {c1, c2}
    MaxDeliveries = 2
    DrillPoint = None
    DrillEvent = None
    FailOnce = TRUE
    MaxLog = 2
    MaxFaults = 3
SYMMETRY ConsumerSymmetry
INVARIANTS Inv CommitRequiresOutcome FewFaultsLoseNothing DeadLetterCopiesArePaid
PROPERTIES ImplementsOutcome
CHECK_DEADLOCK FALSE
