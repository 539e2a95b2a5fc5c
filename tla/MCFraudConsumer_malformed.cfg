SPECIFICATION FairSpec
CONSTANTS
    p1 = p1
    None = None
    Events = {eNull, eText}
    Partitions = {p1}
    PartitionOf <- OnePartition
    RuleFailing = {}
    LogRejects = {eNull}
    ResultRejects = {eNull}
    DltRejects = {eNull}
    Undecodable = {eText}
    Consumers = {c1, c2}
    MaxDeliveries = 2
    DrillPoint = None
    DrillEvent = None
    FailOnce = TRUE
    MaxLog = 2
    MaxFaults = 0
PROPERTIES MalformedEventIsDeadLettered
CHECK_DEADLOCK FALSE
