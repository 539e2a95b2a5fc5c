SPECIFICATION DataSpec
CONSTANTS
    u1 = u1
    u2 = u2
    u3 = u3
    dPlain = dPlain
    dOther = dOther
    dNative = dNative
    dShort = dShort
    dMany = dMany
    Torn = Torn
    None = None
    Datasets = {dPlain, dOther, dNative, dShort, dMany}
    RowsOf <- SampleRows
    Users = {u1, u2, u3}
    Jobs <- SampleJobs
    MaxJobs = 2
    MaxKills = 1
    MaxRejects = 50
    SampleRequests <- Requests
    ProfileJobs <- ProfileCommands
    BatchSize = 2
INVARIANTS DataInv ValidatedIsOneRun VerdictIsExplained SampleIsTrue ProfileAgrees
CHECK_DEADLOCK FALSE
