SPECIFICATION SystemFairSpec
CONSTANTS
    None = None
    e1 = e1
    Events = {e1}
    Rows = {d1, dBad}
    EventOf <- RowEvents
    Unusable = {dBad}
    Requests = {q1, q2}
    MaxAttempts = 1
    MaxRequests = 2
    MaxFaults = 2
INVARIANTS SystemInv AuditAgrees CopiesAreAttempts StreamsAreIsolated RecordsAreAccounted
PROPERTIES TerminalIsFinal RowsAreReleased RecordsAreHandled
CHECK_DEADLOCK FALSE
