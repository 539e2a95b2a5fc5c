SPECIFICATION Spec
CONSTANTS
    u1 = u1
    eOld = eOld
    eMid = eMid
    eNew = eNew
    eEdge = eEdge
    eLate = eLate
    None = None
    Never = Never
    Events = {eOld, eMid, eNew}
    Users = {u1}
    UserOf <- OneUser
    EventTime <- Times
    ReceivedAt <- Arrivals
    Consumers = {c1, c2}
    Window = 1
    Ttls = {6}
    AllowedLateness = 1
    Skew = 1
    Replay = FALSE
    MaxDelay = 3
    MaxTime = 4
    MaxFailures = 0
SYMMETRY ConsumerSymmetry
INVARIANTS WindowIsEventTime
CHECK_DEADLOCK FALSE
