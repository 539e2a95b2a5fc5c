-------------------------- MODULE PaySimEvaluation --------------------------
(***************************************************************************)
(* scripts/data/evaluate_paysim_replay_results.py: compares an export of   *)
(* the fraud detection results with the labels of the dataset, leaving out *)
(* what the replay report says was rejected before it was sent.            *)
(*                                                                         *)
(* The script runs after PaySimReplay has written its report, while the    *)
(* consumer may still be at work: the export has the results so far.       *)
(***************************************************************************)
EXTENDS PaySimReplay

CONSTANTS
    Fraud,          \* events the labels call fraud
    WithoutScore,   \* events exported without a riskScore
    EvalArgs,       \* the command lines the evaluation may be started with
    RuleVersions,   \* the ruleVersion of the exported result of each event
    Refused         \* the evaluation ended without a report

RiskRank == [LOW |-> 0, MEDIUM |-> 1, HIGH |-> 2, CRITICAL |-> 3]

RiskLevels == DOMAIN RiskRank

(* The budgets are rates in hundredths. *)
ThresholdV1 ==
    [mediumRiskThreshold |-> 50, highRiskThreshold |-> 80,
     positiveRiskLevelFallback |-> "MEDIUM",
     reviewRiskLevelsFallback |-> {"MEDIUM", "HIGH", "CRITICAL"},
     blockRiskLevelsFallback |-> {"HIGH", "CRITICAL"},
     maxReviewRate |-> 30, maxBlockedRate |-> 10]

ThresholdStrictV1 ==
    [mediumRiskThreshold |-> 70, highRiskThreshold |-> 90,
     positiveRiskLevelFallback |-> "HIGH",
     reviewRiskLevelsFallback |-> {"HIGH", "CRITICAL"},
     blockRiskLevelsFallback |-> {"CRITICAL"},
     maxReviewRate |-> 20, maxBlockedRate |-> 5]

ThresholdPolicies == {ThresholdV1, ThresholdStrictV1}

(* The label file, the replay report if one is given, and the options.     *)
EvalArgsType ==
    [labels: SUBSET Events, report: BOOLEAN, prefix: Prefixes \cup {None},
     policy: ThresholdPolicies, includeMissing: BOOLEAN, excludeRejected: BOOLEAN,
     requireVersion: BOOLEAN]

ASSUME EvaluationAssumption ==
    /\ Fraud \subseteq Events
    /\ WithoutScore \subseteq Events
    /\ EvalArgs \subseteq EvalArgsType
    /\ RuleVersions \subseteq [Events -> {"current", "other", None}]
    /\ Refused # None

VARIABLE evaluation \* the evaluation report, Refused, or None

evalVars == <<vars, evaluation>>

Counters == {"matchedResults", "unmatchedResults", "evaluatedEvents",
             "excludedReplayRejected", "missingResults", "missingFraudLabels",
             "truePositive", "falsePositive", "trueNegative", "falseNegative",
             "ALLOW", "REVIEW", "BLOCK", "withRiskScore", "withoutRiskScore",
             "withRuleVersion", "withoutRuleVersion"}

Rates == {"precision", "recall", "f1Score", "falsePositiveRate",
          "falseNegativeRate", "accuracy"}

Warnings == {"noPositive", "noneEvaluated", "rejectedWithoutId", "missingIncluded",
             "missingExcluded", "noneMatched", "unmatched", "withoutRiskScore",
             "withoutRuleVersion", "reviewBudget", "blockedBudget"}

Reports == [counts: [Counters -> Nat],
            levels: [RiskLevels \X BOOLEAN -> Nat],
            rates: [Rates -> (Nat \X Nat) \cup {None}],
            warnings: SUBSET Warnings,
            readiness: {"contract_level_only", "per_result_verified",
                        "contract_level_with_partial_per_result_coverage"},
            rejected: SUBSET Events,
            exclusionComplete: BOOLEAN \cup {None},
            options: EvalArgs]

EvalTypeOK == TypeOK /\ evaluation \in Reports \cup {Refused, None}

EvalInit == Init /\ evaluation = None

-----------------------------------------------------------------------------
(* Reading the export and the report. *)

(* --event-id-prefix, or else the prefix the replay report names.          *)
EventIdPrefix(o) ==
    IF o.prefix # None THEN o.prefix
    ELSE IF o.report THEN args.prefix ELSE None

(* Removes the prefix, if the eventId has it. *)
NormalizeEventId(id, prefix) ==
    IF prefix # None /\ id.prefix = prefix THEN OwnId(id.event) ELSE id

Exported == {id \in Ids : results[id] # None}

(* An export with the same event of two replays is refused. *)
DuplicateResult(prefix) ==
    \E i, j \in Exported :
        i # j /\ NormalizeEventId(i, prefix) = NormalizeEventId(j, prefix)

(* The result of a labelled event. *)
ResultIds(e, prefix) == {id \in Exported : NormalizeEventId(id, prefix) = OwnId(e)}

ScoreOf(e, prefix) == results[CHOOSE id \in ResultIds(e, prefix) : TRUE]

RejectedEvents(prefix) ==
    {e \in Events : \E f \in failures :
        /\ f.kind = "payload"
        /\ f.id # None
        /\ NormalizeEventId(f.id, prefix) = OwnId(e)}

(* With --include-replay-rejected, or without a report, none is left out.  *)
RejectedFor(o) ==
    IF o.report /\ o.excludeRejected THEN RejectedEvents(EventIdPrefix(o)) ELSE {}

(* Faulty variant: compares with the number of failures listed. *)
ExclusionCompleteByFailures(o) ==
    IF o.report /\ o.excludeRejected THEN payloadRejected <= Cardinality(failures)
                                     ELSE None

ExclusionComplete(o) ==
    IF o.report /\ o.excludeRejected THEN payloadRejected <= Cardinality(RejectedFor(o))
                                     ELSE None

-----------------------------------------------------------------------------
(* The threshold policy applied to a result. *)

(* Faulty variant: the boundary itself is not positive. *)
IsPredictedPositiveAbove(e, score, policy) ==
    IF e \notin WithoutScore
    THEN score > policy.mediumRiskThreshold
    ELSE RiskRank[RiskLevel(score)] >= RiskRank[policy.positiveRiskLevelFallback]

IsPredictedPositive(e, score, policy) ==
    IF e \notin WithoutScore
    THEN score >= policy.mediumRiskThreshold
    ELSE RiskRank[RiskLevel(score)] >= RiskRank[policy.positiveRiskLevelFallback]

(* action_decision_for: the block policy is looked at first. *)
IsBlocked(e, score, policy) ==
    IF e \notin WithoutScore
    THEN score >= policy.highRiskThreshold
    ELSE RiskLevel(score) \in policy.blockRiskLevelsFallback

IsReviewed(e, score, policy) ==
    /\ ~IsBlocked(e, score, policy)
    /\ IF e \notin WithoutScore
       THEN score >= policy.mediumRiskThreshold
       ELSE RiskLevel(score) \in policy.reviewRiskLevelsFallback

-----------------------------------------------------------------------------
(* Counting. *)

Missing(o) == {e \in o.labels \ RejectedFor(o) : ResultIds(e, EventIdPrefix(o)) = {}}

Scored(o) == {e \in o.labels \ RejectedFor(o) : ResultIds(e, EventIdPrefix(o)) # {}}

(* Faulty variant: missing results are negatives whatever the option says. *)
MissingCountedAlways(o) == Missing(o)

(* A missing result is a negative prediction if it is included at all. *)
MissingCounted(o) == IF o.includeMissing THEN Missing(o) ELSE {}

Matched(o) == {e \in o.labels : ResultIds(e, EventIdPrefix(o)) # {}}

Positive(o) ==
    {e \in Scored(o) : IsPredictedPositive(e, ScoreOf(e, EventIdPrefix(o)), o.policy)}

Negative(o) == (Scored(o) \ Positive(o)) \cup MissingCounted(o)

Blocked(o) ==
    {e \in Scored(o) : IsBlocked(e, ScoreOf(e, EventIdPrefix(o)), o.policy)}

Reviewed(o) ==
    {e \in Scored(o) : IsReviewed(e, ScoreOf(e, EventIdPrefix(o)), o.policy)}

Versioned(o, version) == {e \in Scored(o) : version[e] # None}

EvaluateRows(o, version) ==
    LET counted == [matchedResults |-> Matched(o),
                    evaluatedEvents |-> Scored(o) \cup MissingCounted(o),
                    excludedReplayRejected |-> o.labels \cap RejectedFor(o),
                    missingResults |-> Missing(o),
                    missingFraudLabels |-> Missing(o) \cap Fraud,
                    truePositive |-> Positive(o) \cap Fraud,
                    falsePositive |-> Positive(o) \ Fraud,
                    trueNegative |-> Negative(o) \ Fraud,
                    falseNegative |-> Negative(o) \cap Fraud,
                    ALLOW |-> Scored(o) \ (Blocked(o) \cup Reviewed(o)),
                    REVIEW |-> Reviewed(o), BLOCK |-> Blocked(o),
                    withRiskScore |-> Scored(o) \ WithoutScore,
                    withoutRiskScore |-> Scored(o) \cap WithoutScore,
                    withRuleVersion |-> Versioned(o, version),
                    withoutRuleVersion |-> Scored(o) \ Versioned(o, version)]
    IN [c \in Counters |->
           IF c = "unmatchedResults" THEN Cardinality(Exported) - Cardinality(Matched(o))
           ELSE Cardinality(counted[c])]

(* fraud_by_risk_level (b[2] is TRUE) and non_fraud_by_risk_level.         *)
AtLevel(o, b) ==
    {e \in Scored(o) : /\ RiskLevel(ScoreOf(e, EventIdPrefix(o))) = b[1]
                       /\ e \in Fraud <=> b[2] = TRUE}

LevelCounts(o) == [b \in RiskLevels \X BOOLEAN |-> Cardinality(AtLevel(o, b))]

-----------------------------------------------------------------------------
(* The report. *)

Ratio(n, d) == IF d = 0 THEN None ELSE <<n, d>>

(* 2pr / (p + r), for fractions p and r. *)
F1(p, r) ==
    IF p = None \/ r = None THEN None
    ELSE Ratio(2 * p[1] * r[1], p[1] * r[2] + r[1] * p[2])

Metrics(n) ==
    LET precision == Ratio(n.truePositive, n.truePositive + n.falsePositive)
        recall == Ratio(n.truePositive, n.truePositive + n.falseNegative)
    IN [precision |-> precision, recall |-> recall, f1Score |-> F1(precision, recall),
        falsePositiveRate |-> Ratio(n.falsePositive, n.falsePositive + n.trueNegative),
        falseNegativeRate |-> Ratio(n.falseNegative, n.falseNegative + n.truePositive),
        accuracy |-> Ratio(n.truePositive + n.trueNegative, n.evaluatedEvents)]

Readiness(n) ==
    CASE n.withRuleVersion = 0 -> "contract_level_only"
      [] n.withRuleVersion > 0 /\ n.withoutRuleVersion > 0 ->
            "contract_level_with_partial_per_result_coverage"
      [] OTHER -> "per_result_verified"

(* build_warnings. *)
Raised(o, n) ==
    [noPositive |-> n.truePositive + n.falsePositive = 0,
     noneEvaluated |-> n.evaluatedEvents = 0,
     rejectedWithoutId |-> o.report /\ payloadRejected > Cardinality(RejectedFor(o)),
     missingIncluded |-> n.missingResults > 0 /\ o.includeMissing,
     missingExcluded |-> n.missingResults > 0 /\ ~o.includeMissing,
     noneMatched |-> Exported # {} /\ n.matchedResults = 0,
     unmatched |-> n.matchedResults > 0 /\ n.unmatchedResults > 0,
     withoutRiskScore |-> n.withoutRiskScore > 0,
     withoutRuleVersion |-> n.withoutRuleVersion > 0,
     reviewBudget |->
        100 * (n.REVIEW + n.BLOCK) > o.policy.maxReviewRate * n.evaluatedEvents,
     blockedBudget |-> 100 * n.BLOCK > o.policy.maxBlockedRate * n.evaluatedEvents]

(* Faulty variant: missing results are worth a warning only if included. *)
BuildWarningsIncluded(o, n) == {w \in Warnings \ {"missingExcluded"} : Raised(o, n)[w]}

BuildWarnings(o, n) == {w \in Warnings : Raised(o, n)[w]}

(* A result of another ruleVersion ends the evaluation, and so does one    *)
(* without any, if --require-per-result-rule-version is given.             *)
Refuses(o, version) ==
    \/ DuplicateResult(EventIdPrefix(o))
    \/ \E id \in Exported : version[id.event] = "other"
    \/ o.requireVersion /\ \E e \in Scored(o) : version[e] = None

BuildReport(o, version) ==
    LET n == EvaluateRows(o, version) IN
    [counts |-> n, levels |-> LevelCounts(o), rates |-> Metrics(n),
     warnings |-> BuildWarnings(o, n), readiness |-> Readiness(n),
     rejected |-> RejectedFor(o), exclusionComplete |-> ExclusionComplete(o),
     options |-> o]

Evaluate ==
    /\ phase = "done"
    /\ evaluation = None
    /\ \E o \in EvalArgs, version \in RuleVersions :
          evaluation' = IF Refuses(o, version) THEN Refused ELSE BuildReport(o, version)
    /\ UNCHANGED vars

(* The exploration ends with the evaluation, which does not see what the   *)
(* consumer does later.                                                    *)
Replay == evaluation = None /\ Next /\ UNCHANGED evaluation

EvalNext == Evaluate \/ Replay

EvalSpec == EvalInit /\ [][EvalNext]_evalVars /\ WF_vars(ClientStep)

-----------------------------------------------------------------------------
(* A report is about the state the replay was in when it was written, and  *)
(* that state is still there: the properties below follow from this.       *)
ReportInv ==
    evaluation \in {Refused, None}
        \/ \E o \in EvalArgs, version \in RuleVersions :
              evaluation = BuildReport(o, version) /\ ~Refuses(o, version)

(* The types, the counters of the replay with the rows they count, and the *)
(* report with the state it is about, in every reachable state (replay,    *)
(* accept, build_report).                                                  *)
EvalInv == EvalTypeOK /\ ReplayInv /\ IsFiniteSet(Exported) /\ ReportInv

Complete == evaluation \notin {Refused, None}

(* If the report says that the exclusion is complete, every row the replay *)
(* rejected is left out; and nothing that was sent is ever left out        *)
(* (replayRejectedExclusionComplete; the report lists failures up to a     *)
(* limit, requests that failed among them, some without an eventId).       *)
ExclusionIsComplete ==
    Complete =>
        \A i \in 1 .. totalRead :
            /\ args.input[i].kind = "valid" =>
                  args.input[i].event \notin evaluation.rejected
            /\ args.input[i].kind # "valid" /\ evaluation.exclusionComplete = TRUE =>
                  args.input[i].event \in evaluation.rejected

(* Every label is in the matrix once, or is left out for a counted reason; *)
(* the decisions are those of the predictions, counted by separate rules;  *)
(* levels, scores and versions count the same results; and the F1 score is *)
(* the one the matrix gives, absent exactly if nothing true was detected   *)
(* (evaluate_rows, build_report, f1_score).                                *)
MatrixAddsUp ==
    Complete =>
        LET n == evaluation.counts
            o == evaluation.options
            detected == n.truePositive + n.falsePositive
            scored == n.ALLOW + n.REVIEW + n.BLOCK
            fraudLevels == {<<l, TRUE>> : l \in RiskLevels}
            ofLevels(S) == Cardinality({u \in S \X (1 .. Cardinality(Events)) :
                                           u[2] <= evaluation.levels[u[1]]})
            f1 == evaluation.rates.f1Score
        IN
        /\ n.evaluatedEvents = detected + n.trueNegative + n.falseNegative
        /\ Cardinality(o.labels) = n.evaluatedEvents + n.excludedReplayRejected
                                     + (IF o.includeMissing THEN 0 ELSE n.missingResults)
        /\ n.REVIEW + n.BLOCK = detected
        /\ n.evaluatedEvents = scored + (IF o.includeMissing THEN n.missingResults ELSE 0)
        /\ scored = n.withRiskScore + n.withoutRiskScore
        /\ scored = n.withRuleVersion + n.withoutRuleVersion
        /\ scored = ofLevels(RiskLevels \X BOOLEAN)
        /\ ofLevels(fraudLevels) + (IF o.includeMissing THEN n.missingFraudLabels ELSE 0)
              = n.truePositive + n.falseNegative
        /\ f1 = None <=> n.truePositive = 0
        /\ f1 # None => f1[1] * (2 * n.truePositive + n.falsePositive + n.falseNegative)
                            = f1[2] * 2 * n.truePositive

Reservations == {"rejectedWithoutId", "missingIncluded", "missingExcluded",
                 "noneMatched", "unmatched", "withoutRiskScore", "withoutRuleVersion"}

(* A report without a warning about its coverage is complete: every result *)
(* belongs to a label, and every label was decided with a score and a rule *)
(* version or was rejected by the replay and is left out, however early    *)
(* the evaluation ran and whatever the report could not list (build_warnings *)
(* is all a reader has to tell such a report from another).                *)
QuietReportIsComplete ==
    Complete /\ evaluation.warnings \cap Reservations = {} =>
        LET n == evaluation.counts
            o == evaluation.options
            decided == o.labels \ evaluation.rejected
        IN
        /\ n.withRiskScore = Cardinality(decided) /\ n.withRuleVersion = n.withRiskScore
        /\ n.evaluatedEvents = Cardinality(decided)
        /\ n.unmatchedResults = 0
        /\ evaluation.readiness = "contract_level_only" => decided = {}
        /\ o.report /\ o.excludeRejected =>
              evaluation.exclusionComplete
                /\ \A i \in 1 .. totalRead : args.input[i].kind # "valid" =>
                      args.input[i].event \in evaluation.rejected

(* The policies of the evaluation and the decisions of the consumer agree  *)
(* on the extremes: what the consumer approved is not predicted positive,  *)
(* what it blocked is, and the evaluation blocks nothing else.             *)
DecisionsAgree ==
    \A e \in Events, prefix \in Prefixes \cup {None}, policy \in ThresholdPolicies :
        ResultIds(e, prefix) # {} =>
            LET score == ScoreOf(e, prefix)
                decision == Decision[RiskLevel(score)]
            IN
            /\ IsPredictedPositive(e, score, policy) => decision # "APPROVE"
            /\ decision = "BLOCK" => IsPredictedPositive(e, score, policy)
            /\ IsBlocked(e, score, policy) => decision = "BLOCK"

(* Without the window an event scores at most what it scores with it: an   *)
(* unavailable Redis or a late event never makes a decision stricter.      *)
DegradedIsLowerBound ==
    \A id \in Exported :
        RiskScore(MessageOf[id.event],
                  [status |-> "REDIS_UNAVAILABLE", count |-> 0, sum |-> 0]) <= results[id]
=============================================================================
