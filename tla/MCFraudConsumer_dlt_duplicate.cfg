SPECIFICATION Spec
CONSTANTS
    p1 = p1
    None = None
    Events = {eBad}
    Partitions = {p1}
    PartitionOf <- OnePartition
    RuleFailing = {eBad}
    LogRejects = {}
    ResultRejects = {}
    DltRejects = {}
    Undecodable = {}
    Consumers = {c1, c2}
    MaxDeliveries = 2
    DrillPoint = None
    DrillEvent = None
    FailOnce = TRUE
    MaxLog = 2
    MaxFaults = 1
PROPERTIES DuplicateDeadLetterIsPublished
CHECK_DEADLOCK FALSE
