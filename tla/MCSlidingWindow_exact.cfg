SPECIFICATION Spec
CONSTANTS
    u1 = u1
    eOld = eOld
    eMid = eMid
    eNew = eNew
    eEdge = eEdge
    eLate = eLate
    None = None
    Never = Never
    Events = {eOld, eMid, eNew, eEdge, eLate}
    Users = {u1}
    UserOf <- OneUser
    EventTime <- Times
    ReceivedAt <- Arrivals
    Consumers = {c1, c2}
    Window = 1
    Ttls = {2, 4}
    AllowedLateness = 1
    Skew = 1
    Replay = FALSE
    MaxDelay = 1
    MaxTime = 6
    MaxFailures = 1
SYMMETRY ConsumerSymmetry
INVARIANTS Inv WindowIsExact KeysExpire AnswersInTimeAreComplete
CHECK_DEADLOCK FALSE
