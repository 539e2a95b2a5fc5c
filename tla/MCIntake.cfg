SPECIFICATION FairSpec
CONSTANTS
    None = None
    Events = {eOk, eFuture, eLong}
    FutureEvents = {eFuture}
    StoreRejects = {eLong}
    Requests = {q1, q2, q3}
    MaxRequests = 4
    MaxFaults = 2
INVARIANTS Inv AcceptedOnceAndPublished CopiesAreReceipts ConflictIsJustified
PROPERTIES ReceiptIsFinal RequestsEnd
CHECK_DEADLOCK FALSE
