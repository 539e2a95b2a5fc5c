------------------------------ MODULE MCPaySim ------------------------------
(* A small dataset for TLC: scores on the boundaries of the levels and of  *)
(* the threshold policies, inputs in which requests and rows fail.         *)
EXTENDS PaySimEvaluation

CONSTANTS e1, e2, e3, e4, p1

(* e1 scores 70 by itself and 100 with a full window, e4 20 and 60.        *)
SampleMessages ==
    [e \in Events |->
        [amount |-> IF e = e1 THEN 1000000 ELSE 999999,
         hour |-> 5,
         location |-> IF e \in {e2, e3} THEN "FOREIGN" ELSE "OTHER"]]

SampleWindows ==
    {[status |-> "NORMAL", count |-> 2, sum |-> 3],
     [status |-> "NORMAL", count |-> 1, sum |-> 3],
     [status |-> "TOO_LATE", count |-> 0, sum |-> 0]}

Line(e, k) == [event |-> e, kind |-> k]

Inputs ==
    {<<Line(e1, "valid"), Line(e4, "valid"), Line(e2, "rejected")>>,
     <<Line(e2, "rejected"), Line(e3, "anonymous"), Line(e1, "valid")>>,
     <<Line(e2, "rejected"), Line(e1, "valid")>>,
     <<Line(e3, "valid"), Line(e4, "corrupt")>>}

CommandLine(input, prefix, limit, retryConnection, stop, dry) ==
    [input |-> input, maxEvents |-> limit, prefix |-> prefix, retryCount |-> 1,
     retryConnectionError |-> retryConnection, stopOnError |-> stop, dryRun |-> dry]

SampleArgs ==
    {CommandLine(i, p, None, FALSE, FALSE, FALSE) : i \in Inputs, p \in {p1, None}}
        \cup {CommandLine(i, p1, 1, TRUE, FALSE, FALSE) : i \in Inputs}
        \cup {CommandLine(i, None, None, TRUE, TRUE, FALSE) : i \in Inputs}
        \cup {CommandLine(i, None, 2, FALSE, FALSE, TRUE) : i \in Inputs}

(* Evaluations of the whole dataset and of a part, with and without the    *)
(* replay report and its prefix.                                           *)
Evaluation(labels, report, prefix, policy) ==
    [labels |-> labels, report |-> report, prefix |-> prefix, policy |-> policy,
     includeMissing |-> FALSE, excludeRejected |-> TRUE, requireVersion |-> FALSE]

SampleEvaluations ==
    LET whole(report, policy) == Evaluation(Events, report, None, policy) IN
    {whole(TRUE, ThresholdV1),
     [whole(TRUE, ThresholdStrictV1) EXCEPT !.includeMissing = TRUE],
     [whole(TRUE, ThresholdV1) EXCEPT !.excludeRejected = FALSE],
     [whole(FALSE, ThresholdV1) EXCEPT !.includeMissing = TRUE],
     [Evaluation({e1, e2}, TRUE, None, ThresholdStrictV1) EXCEPT !.requireVersion = TRUE],
     Evaluation({e1, e2}, FALSE, p1, ThresholdV1)}

SampleVersions ==
    {[e \in Events |-> IF e = e4 THEN old ELSE "current"] : old \in {None, "other"}}
=============================================================================
