SPECIFICATION EvalSpec
CONSTANTS
    e1 = e1
    e2 = e2
    e3 = e3
    e4 = e4
    p1 = p1
    None = None
    Events = {e1, e2, e3, e4}
    Invalid = {e3}
    Earlier = {e4}
    Prefixes = {p1}
    MessageOf <- SampleMessages
    WindowAnswers <- SampleWindows
    Args <- SampleArgs
    RapidCount = 2
    WindowAmount = 3
    MaxFailures = 2
    MaxFaults = 2
    Fraud = {e1, e2}
    WithoutScore = {e4}
    EvalArgs <- SampleEvaluations
    RuleVersions <- SampleVersions
    Refused = Refused
INVARIANTS EvalInv ReportAddsUp RetriesAcceptOnce SuccessesArePublished ExclusionIsComplete MatrixAddsUp QuietReportIsComplete DecisionsAgree DegradedIsLowerBound
PROPERTIES ReplayEnds
CHECK_DEADLOCK FALSE
