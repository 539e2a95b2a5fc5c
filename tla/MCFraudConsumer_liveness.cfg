SPECIFICATION FairSpec
CONSTANTS
    p1 = p1
    None = None
    Events = {eOk, eBad}
    Partitions = {p1}
    PartitionOf <- OnePartition
    RuleFailing = {eBad}
    LogRejects = {}
    ResultRejects = {}
    DltRejects = {}
    Undecodable = {}
    Consumers = {c1, c2}
    MaxDeliveries = 4
    DrillPoint = "AFTER_REDIS_UPDATE_BEFORE_RESULT"
    DrillEvent = eOk
    FailOnce = TRUE
    MaxLog = 2
    MaxFaults = 2
PROPERTIES EveryRecordHandled LagDrains
CHECK_DEADLOCK FALSE
