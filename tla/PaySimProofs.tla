---------------------------- MODULE PaySimProofs ----------------------------
(***************************************************************************)
(* Theorems about the rule engine and about the results a replay leads to: *)
(* what the scores say, for every window the consumer may find, every      *)
(* dataset and every number of faults.                                     *)
(***************************************************************************)
EXTENDS PaySimEvaluation, FiniteSetTheorems, TLAPS

Unavailable == [status |-> "REDIS_UNAVAILABLE", count |-> 0, sum |-> 0]

(* More matched rules never lower the sum of the scores. *)
LEMMA ScoreSumMonotone ==
    ASSUME NEW matched, NEW more, matched \subseteq more
    PROVE  /\ ScoreSum(matched) \in Nat
           /\ ScoreSum(more) \in Nat
           /\ ScoreSum(matched) <= ScoreSum(more)
<1> DEFINE score(rules, r) == IF r \in rules THEN RuleScore[r] ELSE 0
<1>1. \A r \in StatelessRules \cup StatefulRules :
         /\ score(matched, r) \in Nat
         /\ score(more, r) \in Nat
         /\ score(matched, r) <= score(more, r)
  BY DEF RuleScore, StatelessRules, StatefulRules
<1>2. \A rules : ScoreSum(rules) =
         score(rules, "AMOUNT_THRESHOLD") + score(rules, "NIGHT_TIME_TRANSACTION")
           + score(rules, "SUSPICIOUS_LOCATION") + score(rules, "RAPID_TRANSACTION_COUNT")
           + score(rules, "WINDOW_AMOUNT_SUM")
  BY DEF ScoreSum
<1>3. \A r \in {"AMOUNT_THRESHOLD", "NIGHT_TIME_TRANSACTION", "SUSPICIOUS_LOCATION",
                "RAPID_TRANSACTION_COUNT", "WINDOW_AMOUNT_SUM"} :
         /\ score(matched, r) \in Nat
         /\ score(more, r) \in Nat
         /\ score(matched, r) <= score(more, r)
  BY <1>1 DEF StatelessRules, StatefulRules
<1> HIDE DEF score
<1> QED  BY <1>2, <1>3

(* A score is within the range of the column risk_score. *)
LEMMA ScoreInRange ==
    ASSUME NEW m, NEW w
    PROVE  RiskScore(m, w) \in 0 .. MaxRiskScore
<1>1. ScoreSum(MatchedRules(m, w)) \in Nat
  BY ScoreSumMonotone
<1> QED  BY <1>1 DEF RiskScore, MaxRiskScore

(* The score without a window is a lower bound of the score with one. *)
LEMMA UnavailableIsLowest ==
    ASSUME NEW m, NEW w
    PROVE  RiskScore(m, Unavailable) <= RiskScore(m, w)
<1>1. StatefulMatches(Unavailable) = {}
  BY DEF StatefulMatches, IsDegraded, Unavailable
<1>2. MatchedRules(m, Unavailable) \subseteq MatchedRules(m, w)
  BY <1>1 DEF MatchedRules
<1>3. /\ ScoreSum(MatchedRules(m, Unavailable)) \in Nat
      /\ ScoreSum(MatchedRules(m, w)) \in Nat
      /\ ScoreSum(MatchedRules(m, Unavailable)) <= ScoreSum(MatchedRules(m, w))
  BY <1>2, ScoreSumMonotone
<1> QED  BY <1>3 DEF RiskScore, MaxRiskScore

-----------------------------------------------------------------------------
(* Results are scores of the rule engine; only Consume adds one. *)

ResultsAreScores ==
    /\ results \in [Ids -> 0 .. MaxRiskScore \cup {None}]
    /\ \A id \in Exported :
          \E w \in WindowAnswers : results[id] = RiskScore(MessageOf[id.event], w)

LEMMA OnlyConsumeDecides ==
    ASSUME [EvalNext]_evalVars
    PROVE  UNCHANGED results \/ \E id \in Ids : Consume(id)
<1>1. CASE Evaluate
  BY <1>1 DEF Evaluate, vars, serverVars
<1>2. CASE Replay
  <2>1. CASE ClientStep
    BY <2>1 DEF ClientStep, CorruptRow, EndOfInput, RejectRow, AcceptRow, Answered,
                TimesOut, Unreachable, ConnectionLost, Settle, serverVars
  <2>2. CASE \E id \in Ids : HandleLate(id)
    BY <2>2 DEF HandleLate
  <2> QED  BY <1>2, <2>1, <2>2 DEF Replay, Next
<1>3. CASE UNCHANGED evalVars
  BY <1>3 DEF evalVars, vars, serverVars
<1> QED  BY <1>1, <1>2, <1>3 DEF EvalNext

(* Results are scores, from the start and after every step of the replay,  *)
(* the API, the consumer and the evaluation.                               *)
THEOREM ResultsInvariant == EvalSpec => []ResultsAreScores
<1>1. EvalInit => ResultsAreScores
  <2> SUFFICES ASSUME EvalInit PROVE ResultsAreScores
    OBVIOUS
  <2>1. results = [id \in Ids |-> None]
    BY DEF EvalInit, Init
  <2> QED  BY <2>1 DEF ResultsAreScores, Exported
<1>2. ResultsAreScores /\ [EvalNext]_evalVars => ResultsAreScores'
  <2> SUFFICES ASSUME ResultsAreScores, [EvalNext]_evalVars PROVE ResultsAreScores'
    OBVIOUS
  <2>1. CASE UNCHANGED results
    BY <2>1 DEF ResultsAreScores, Exported
  <2>2. CASE \E id \in Ids : Consume(id)
    <3>1. PICK id \in Ids : Consume(id)
      BY <2>2
    <3>2. PICK w \in WindowAnswers :
             results' = [results EXCEPT ![id] = RiskScore(MessageOf[id.event], w)]
      BY <3>1 DEF Consume
    <3>3. RiskScore(MessageOf[id.event], w) \in 0 .. MaxRiskScore
      BY ScoreInRange
    <3>4. results' \in [Ids -> 0 .. MaxRiskScore \cup {None}]
      BY <3>2, <3>3 DEF ResultsAreScores
    <3>5. ASSUME NEW i \in Ids, results'[i] # None
          PROVE  \E v \in WindowAnswers : results'[i] = RiskScore(MessageOf[i.event], v)
      BY <3>2, <3>5 DEF ResultsAreScores, Exported
    <3> QED  BY <3>4, <3>5 DEF ResultsAreScores, Exported
  <2> QED  BY <2>1, <2>2, OnlyConsumeDecides
<1> QED  BY <1>1, <1>2, PTL DEF EvalSpec

(* An event that was decided without its window has at most the score it   *)
(* would have had with it: FraudRuleEngine skips the rules it cannot       *)
(* evaluate, it never counts them as matched.                              *)
THEOREM DegradedScoresAreLowest == EvalSpec => []DegradedIsLowerBound
<1>1. ResultsAreScores => DegradedIsLowerBound
  BY UnavailableIsLowest DEF ResultsAreScores, DegradedIsLowerBound, Unavailable
<1> QED  BY <1>1, ResultsInvariant, PTL

(* What a score decides, at the boundaries of both sides. *)
LEMMA ScoreDecides ==
    ASSUME NEW e, NEW score \in 0 .. MaxRiskScore, NEW policy \in ThresholdPolicies
    PROVE  LET decision == Decision[RiskLevel(score)] IN
           /\ IsPredictedPositive(e, score, policy) => decision # "APPROVE"
           /\ decision = "BLOCK" => IsPredictedPositive(e, score, policy)
           /\ IsBlocked(e, score, policy) => decision = "BLOCK"
<1>1. CASE score <= 29
  BY <1>1 DEF RiskLevel, Decision, RiskRank, IsPredictedPositive, IsBlocked, MaxRiskScore,
              ThresholdPolicies, ThresholdV1, ThresholdStrictV1
<1>2. CASE score > 29 /\ score <= 69
  BY <1>2 DEF RiskLevel, Decision, RiskRank, IsPredictedPositive, IsBlocked, MaxRiskScore,
              ThresholdPolicies, ThresholdV1, ThresholdStrictV1
<1>3. CASE score > 69
  BY <1>3 DEF RiskLevel, Decision, RiskRank, IsPredictedPositive, IsBlocked, MaxRiskScore,
              ThresholdPolicies, ThresholdV1, ThresholdStrictV1
<1> QED  BY <1>1, <1>2, <1>3 DEF MaxRiskScore

(* Evaluation and consumer agree on the extremes for every result there    *)
(* can be (is_predicted_positive and action_decision_for against toRiskLevel *)
(* and toDecision).                                                        *)
THEOREM EvaluationAgrees == EvalSpec => []DecisionsAgree
<1>1. ResultsAreScores => DecisionsAgree
  <2> SUFFICES ASSUME ResultsAreScores,
                      NEW e \in Events, NEW prefix \in Prefixes \cup {None},
                      NEW policy \in ThresholdPolicies,
                      ResultIds(e, prefix) # {}
               PROVE  LET score == ScoreOf(e, prefix)
                          decision == Decision[RiskLevel(score)] IN
                      /\ IsPredictedPositive(e, score, policy) => decision # "APPROVE"
                      /\ decision = "BLOCK" => IsPredictedPositive(e, score, policy)
                      /\ IsBlocked(e, score, policy) => decision = "BLOCK"
    BY DEF DecisionsAgree
  <2>1. (CHOOSE id \in ResultIds(e, prefix) : TRUE) \in ResultIds(e, prefix)
    OBVIOUS
  <2>2. ScoreOf(e, prefix) \in 0 .. MaxRiskScore
    BY <2>1 DEF ScoreOf, ResultIds, Exported, ResultsAreScores
  <2> QED  BY <2>2, ScoreDecides
<1> QED  BY <1>1, ResultsInvariant, PTL
-----------------------------------------------------------------------------
USE ReplayAssumption

(* The command line and the row at hand. *)
LEMMA ArgsFacts ==
    ASSUME args \in Args
    PROVE  /\ args.input \in Seq(Rows)
           /\ Len(args.input) \in Nat
           /\ args.prefix \in Prefixes \cup {None}
           /\ args.retryCount \in Nat
           /\ UniqueEvents(args.input)
           /\ \A i \in 1 .. Len(args.input) :
                 /\ args.input[i] \in Rows
                 /\ args.input[i].event \in Events
                 /\ args.input[i].kind \in Kinds
<1>1. args \in ArgsType /\ UniqueEvents(args.input)
  OBVIOUS
<1>2. /\ args.input \in Seq(Rows)
      /\ args.prefix \in Prefixes \cup {None}
      /\ args.retryCount \in Nat
  BY <1>1 DEF ArgsType
<1>3. \A i \in 1 .. Len(args.input) : args.input[i] \in Rows
  BY <1>2
<1> QED BY <1>1, <1>2, <1>3 DEF Rows

LEMMA RowFacts ==
    ASSUME TypeOK, phase = "send"
    PROVE  /\ totalRead \in 1 .. Len(args.input)
           /\ Row \in Rows /\ Row.event \in Events
           /\ ReplayId(Row.event) \in Ids
           /\ ReplayId(Row.event).prefix = args.prefix
           /\ ReplayId(Row.event).event = Row.event
<1>1. totalRead \in 1 .. Len(args.input) /\ args \in Args
  BY DEF TypeOK
<1>2. Row \in Rows /\ Row.event \in Events /\ args.prefix \in Prefixes \cup {None}
  BY <1>1, ArgsFacts DEF Row
<1> QED BY <1>1, <1>2 DEF ReplayId, Ids

(* The list of failures keeps its limit, and grows by one below it. *)
LEMMA AddFailureStep ==
    ASSUME NEW f, AddFailure(f), IsFiniteSet(failures),
           Cardinality(failures) <= MaxFailures
    PROVE  /\ IsFiniteSet(failures') /\ Cardinality(failures') <= MaxFailures
           /\ failures' \subseteq failures \cup {f}
           /\ f \notin failures =>
                 \A n \in Nat : Cardinality(failures) = Listed(n) =>
                                   Cardinality(failures') = Listed(n + 1)
<1>1. Cardinality(failures) \in Nat
  BY FS_CardinalityType
<1>2. CASE Cardinality(failures) < MaxFailures
  <2>1. failures' = failures \cup {f}
    BY <1>2 DEF AddFailure
  <2>2. /\ IsFiniteSet(failures')
        /\ Cardinality(failures') = IF f \in failures THEN Cardinality(failures)
                                    ELSE Cardinality(failures) + 1
    BY <2>1, FS_AddElement
  <2>3. ASSUME f \notin failures, NEW n \in Nat, Cardinality(failures) = Listed(n)
        PROVE  Cardinality(failures') = Listed(n + 1)
    BY <1>1, <1>2, <2>2, <2>3 DEF Listed
  <2>4. Cardinality(failures') <= MaxFailures
    BY <1>1, <1>2, <2>2
  <2> QED BY <2>1, <2>2, <2>3, <2>4
<1>3. CASE ~(Cardinality(failures) < MaxFailures)
  <2>1. failures' = failures
    BY <1>3 DEF AddFailure
  <2> QED BY <1>1, <1>3, <2>1 DEF Listed
<1> QED BY <1>2, <1>3

(* What the API does with a request keeps its types and its promises. *)
ApiTypes ==
    /\ receipt \in [Ids -> {"PUBLISHED", "PUBLISH_FAILED", None}]
    /\ copies \in [Ids -> Nat]
    /\ lost \in [Ids -> Nat]
    /\ faults \in 0 .. MaxFaults

LEMMA HandleStep ==
    ASSUME TypeOK, NEW id \in Ids, NEW o, Handle(id, o)
    PROVE  /\ ApiTypes'
           /\ \A i \in Ids : receipt[i] # None => receipt'[i] = receipt[i]
           /\ RetriesAcceptOnce => RetriesAcceptOnce'
           /\ o = "httpSuccess" => receipt[id] = None /\ receipt'[id] = "PUBLISHED"
<1>0. /\ receipt \in [Ids -> {"PUBLISHED", "PUBLISH_FAILED", None}]
      /\ copies \in [Ids -> Nat] /\ lost \in [Ids -> Nat]
      /\ faults \in 0 .. MaxFaults
      /\ None # "PUBLISHED" /\ None # "PUBLISH_FAILED"
  BY DEF TypeOK
<1>1. CASE Accepted(id) /\ UNCHANGED faults
  <2>1. /\ receipt[id] = None
        /\ receipt' = [receipt EXCEPT ![id] = "PUBLISHED"]
        /\ copies' = [copies EXCEPT ![id] = @ + 1]
        /\ lost' = lost
    BY <1>1 DEF Accepted
  <2>2. RetriesAcceptOnce => RetriesAcceptOnce'
    BY <1>0, <2>1 DEF RetriesAcceptOnce
  <2> QED BY <1>0, <1>1, <2>1, <2>2 DEF ApiTypes
<1>2. CASE (Conflicting(id) \/ Malformed(id)) /\ UNCHANGED faults
  <2>1. UNCHANGED <<receipt, copies, lost, faults>>
    BY <1>2 DEF Conflicting, Malformed, apiVars
  <2>2. o # "httpSuccess"
    BY <1>2 DEF Handle, Accepted, Conflicting, Malformed
  <2> QED BY <1>0, <2>1, <2>2 DEF ApiTypes, RetriesAcceptOnce
<1>3. CASE o = "httpServerError" /\ Fault /\ PublishFailed(id)
  <2>1. PICK sent \in {0, 1} :
           /\ receipt[id] = None
           /\ receipt' = [receipt EXCEPT ![id] = "PUBLISH_FAILED"]
           /\ copies' = [copies EXCEPT ![id] = @ + sent]
           /\ lost' = lost
    BY <1>3 DEF PublishFailed
  <2>2. RetriesAcceptOnce => RetriesAcceptOnce'
    BY <1>0, <2>1 DEF RetriesAcceptOnce
  <2>3. faults' \in 0 .. MaxFaults
    BY <1>0, <1>3 DEF Fault
  <2> QED BY <1>0, <1>3, <2>1, <2>2, <2>3 DEF ApiTypes
<1>4. CASE o = "httpServerError" /\ Fault /\ RolledBack(id)
  <2>1. PICK sent \in {0, 1} :
           /\ receipt' = receipt
           /\ copies' = [copies EXCEPT ![id] = @ + sent]
           /\ lost' = [lost EXCEPT ![id] = @ + sent]
    BY <1>4 DEF RolledBack
  <2>2. RetriesAcceptOnce => RetriesAcceptOnce'
    BY <1>0, <2>1 DEF RetriesAcceptOnce
  <2>3. faults' \in 0 .. MaxFaults
    BY <1>0, <1>4 DEF Fault
  <2> QED BY <1>0, <1>4, <2>1, <2>2, <2>3 DEF ApiTypes
<1> QED BY <1>1, <1>2, <1>3, <1>4 DEF Handle

(* What a request that ended does to the counters. *)
SettleTypes ==
    /\ phase \in Phases /\ phase \in {"read", "send", "done"}
    /\ attempt \in 0 .. args.retryCount
    /\ outcomes \in [Outcomes -> Nat]
    /\ retries \in [Outcomes -> Nat]
    /\ failures \subseteq Failures
    /\ IsFiniteSet(failures) /\ Cardinality(failures) <= MaxFailures

LEMMA SettleStep ==
    ASSUME TypeOK, phase = "send", NEW o \in Outcomes, Settle(o)
    PROVE  SettleTypes'
<1>0. /\ args' = args /\ totalRead' = totalRead
      /\ attempt \in 0 .. args.retryCount
      /\ args.retryCount \in Nat
      /\ outcomes \in [Outcomes -> Nat]
      /\ retries \in [Outcomes -> Nat]
      /\ failures \subseteq Failures
      /\ IsFiniteSet(failures) /\ Cardinality(failures) <= MaxFailures
  BY ArgsFacts DEF TypeOK, Settle
<1>1. CASE Retry(o)
  <2>1. /\ attempt < args.retryCount
        /\ attempt' = attempt + 1
        /\ retries' = [retries EXCEPT ![o] = @ + 1]
        /\ UNCHANGED <<phase, outcomes, failures>>
    BY <1>1 DEF Retry, Retryable
  <2> QED BY <1>0, <2>1 DEF SettleTypes, Phases
<1>2. CASE Record(o)
  <2> DEFINE f == [row |-> totalRead, kind |-> "http", id |-> ReplayId(Row.event)]
  <2>1. /\ outcomes' = [outcomes EXCEPT ![o] = @ + 1]
        /\ failures' = failures \/ AddFailure(f)
        /\ phase' \in {"done", "read"}
        /\ UNCHANGED <<attempt, retries>>
    BY <1>2 DEF Record
  <2>2. f \in Failures
    BY RowFacts DEF Failures
  <2> HIDE DEF f
  <2>3. /\ failures' \subseteq Failures
        /\ IsFiniteSet(failures') /\ Cardinality(failures') <= MaxFailures
    BY <1>0, <2>1, <2>2, AddFailureStep
  <2> QED BY <1>0, <2>1, <2>3 DEF SettleTypes, Phases
<1> QED BY <1>1, <1>2 DEF Settle
-----------------------------------------------------------------------------
(* Types. *)
LEMMA ReplayTypeInvariant == TypeOK /\ [Next]_vars => TypeOK'
<1> SUFFICES ASSUME TypeOK, [Next]_vars PROVE TypeOK'
  OBVIOUS
<1>0. /\ args \in Args
      /\ phase \in Phases
      /\ totalRead \in 0 .. Len(args.input)
      /\ attempt \in 0 .. args.retryCount
      /\ phase = "send" => totalRead > 0
      /\ payloadAccepted \in Nat /\ payloadRejected \in Nat
      /\ outcomes \in [Outcomes -> Nat]
      /\ retries \in [Outcomes -> Nat]
      /\ failures \subseteq Failures
      /\ IsFiniteSet(failures) /\ Cardinality(failures) <= MaxFailures
      /\ inFlight \in [Ids -> Nat]
      /\ ApiTypes
      /\ results \in [Ids -> 0 .. MaxRiskScore \cup {None}]
      /\ Len(args.input) \in Nat /\ args.retryCount \in Nat
  BY ArgsFacts DEF TypeOK, ApiTypes
<1>1. CASE CorruptRow \/ EndOfInput
  <2>1. /\ phase' \in {"failed", "done"}
        /\ UNCHANGED <<args, totalRead, attempt, payloadAccepted, payloadRejected,
                       outcomes, retries, failures, serverVars>>
    BY <1>1 DEF CorruptRow, EndOfInput
  <2> QED BY <1>0, <2>1 DEF TypeOK, ApiTypes, Phases, serverVars
<1>2. CASE RejectRow
  <2> DEFINE f == [row |-> totalRead + 1, kind |-> "payload",
                   id |-> IF NextKind = "rejected"
                          THEN OwnId(args.input[totalRead + 1].event) ELSE None]
  <2>1. /\ totalRead < Len(args.input) /\ totalRead' = totalRead + 1
        /\ payloadRejected' = payloadRejected + 1
        /\ AddFailure(f)
        /\ phase' \in {"done", "read"}
        /\ UNCHANGED <<args, attempt, payloadAccepted, outcomes, retries, serverVars>>
    BY <1>2 DEF RejectRow, ReadsRow, HasNext
  <2>2. f \in Failures
    <3>1. totalRead + 1 \in 1 .. Len(args.input)
      BY <1>0, <2>1
    <3>2. OwnId(args.input[totalRead + 1].event) \in Ids
      BY <1>0, <3>1, ArgsFacts DEF OwnId, Ids
    <3> QED BY <1>0, <3>2 DEF Failures
  <2> HIDE DEF f
  <2>3. /\ failures' \subseteq Failures
        /\ IsFiniteSet(failures') /\ Cardinality(failures') <= MaxFailures
    BY <1>0, <2>1, <2>2, AddFailureStep
  <2> QED BY <1>0, <2>1, <2>3 DEF TypeOK, ApiTypes, Phases, serverVars
<1>3. CASE AcceptRow
  <2>1. /\ totalRead < Len(args.input) /\ totalRead' = totalRead + 1
        /\ payloadAccepted' = payloadAccepted + 1
        /\ attempt' = 0
        /\ phase' \in {"send", "read"}
        /\ UNCHANGED <<args, payloadRejected, outcomes, retries, failures, serverVars>>
    BY <1>3 DEF AcceptRow, ReadsRow, HasNext
  <2>2. /\ totalRead' \in 0 .. Len(args.input) /\ totalRead' > 0
        /\ payloadAccepted' \in Nat /\ attempt' \in 0 .. args.retryCount
    BY <1>0, <2>1
  <2> QED BY <1>0, <2>1, <2>2 DEF TypeOK, ApiTypes, Phases, serverVars
<1>4. ASSUME NEW o \in Outcomes, phase = "send", Settle(o),
             inFlight' \in [Ids -> Nat], ApiTypes'
      PROVE  TypeOK'
  <2>1. UNCHANGED <<args, totalRead, payloadAccepted, payloadRejected, results>>
    BY <1>4 DEF Settle
  <2>2. SettleTypes'
    BY <1>4, SettleStep
  <2> QED BY <1>0, <1>4, <2>1, <2>2 DEF TypeOK, SettleTypes, ApiTypes
<1>5. CASE \E o \in Outcomes : Answered(o)
  <2>1. PICK o \in Outcomes : Answered(o)
    BY <1>5
  <2>2. /\ phase = "send" /\ Settle(o) /\ inFlight' = inFlight
        /\ Handle(ReplayId(Row.event), o)
    BY <2>1 DEF Answered
  <2>3. ApiTypes'
    BY <2>2, RowFacts, HandleStep
  <2> QED BY <1>0, <1>4, <2>2, <2>3
<1>6. ASSUME Fault PROVE faults' \in 0 .. MaxFaults
  BY <1>0, <1>6 DEF Fault, ApiTypes
<1>7. CASE TimesOut \/ Unreachable
  <2>1. PICK o \in {"timeout", "connectionError"} :
           /\ phase = "send" /\ Settle(o)
           /\ \/ inFlight' = inFlight
              \/ inFlight' = [inFlight EXCEPT ![ReplayId(Row.event)] = @ + 1]
           /\ UNCHANGED <<receipt, copies, lost>>
           /\ faults' = faults \/ Fault
    BY <1>7 DEF TimesOut, Unreachable, apiVars
  <2>2. inFlight' \in [Ids -> Nat]
    BY <1>0, <2>1, RowFacts
  <2>3. ApiTypes'
    <3>1. faults' \in 0 .. MaxFaults
      BY <1>0, <1>6, <2>1 DEF ApiTypes
    <3> QED BY <1>0, <2>1, <3>1 DEF ApiTypes
  <2>4. o \in Outcomes
    BY DEF Outcomes
  <2> QED BY <1>4, <2>1, <2>2, <2>3, <2>4
<1>8. CASE ConnectionLost
  <2>1. /\ phase = "send" /\ phase' = "failed" /\ Fault
        /\ inFlight' = [inFlight EXCEPT ![ReplayId(Row.event)] = @ + 1]
        /\ UNCHANGED <<args, totalRead, attempt, payloadAccepted, payloadRejected,
                       outcomes, retries, failures, receipt, copies, lost, results>>
    BY <1>8 DEF ConnectionLost, apiVars
  <2>2. inFlight' \in [Ids -> Nat]
    BY <1>0, <2>1, RowFacts
  <2> QED BY <1>0, <1>6, <2>1, <2>2 DEF TypeOK, ApiTypes, Phases
<1>9. ASSUME NEW id \in Ids, HandleLate(id) PROVE TypeOK'
  <2>1. /\ inFlight[id] > 0 /\ inFlight' = [inFlight EXCEPT ![id] = @ - 1]
        /\ (\E o \in Outcomes : Handle(id, o)) \/ UNCHANGED <<apiVars, faults>>
        /\ UNCHANGED <<clientVars, results>>
    BY <1>9 DEF HandleLate
  <2>2. inFlight' \in [Ids -> Nat]
    BY <1>0, <2>1
  <2>3. ApiTypes'
    <3>1. CASE \E o \in Outcomes : Handle(id, o)
      BY <3>1, HandleStep
    <3>2. CASE UNCHANGED <<apiVars, faults>>
      BY <1>0, <3>2 DEF ApiTypes, apiVars
    <3> QED BY <2>1, <3>1, <3>2
  <2> QED BY <1>0, <2>1, <2>2, <2>3 DEF TypeOK, ApiTypes, clientVars
<1>10. ASSUME NEW id \in Ids, Consume(id) PROVE TypeOK'
  <2>1. PICK w \in WindowAnswers :
           results' = [results EXCEPT ![id] = RiskScore(MessageOf[id.event], w)]
    BY <1>10 DEF Consume
  <2>2. RiskScore(MessageOf[id.event], w) \in 0 .. MaxRiskScore
    BY ScoreInRange
  <2>3. results' \in [Ids -> 0 .. MaxRiskScore \cup {None}]
    BY <1>0, <2>1, <2>2
  <2>4. UNCHANGED <<clientVars, inFlight, receipt, copies, lost, faults>>
    BY <1>10 DEF Consume, apiVars
  <2> QED BY <1>0, <2>3, <2>4 DEF TypeOK, ApiTypes, clientVars
<1>11. CASE UNCHANGED vars
  BY <1>0, <1>11 DEF vars, clientVars, serverVars, TypeOK, ApiTypes
<1> QED BY <1>1, <1>2, <1>3, <1>5, <1>7, <1>8, <1>9, <1>10, <1>11
        DEF Next, ClientStep
-----------------------------------------------------------------------------
(* Counting outcomes one at a time. *)
LEMMA SumStep ==
    ASSUME NEW f \in [Outcomes -> Nat]
    PROVE  /\ Sum(f) \in Nat
           /\ Sum(f) - f["httpSuccess"] \in Nat
           /\ \A o \in Outcomes :
                 LET g == [f EXCEPT ![o] = @ + 1] IN
                 /\ Sum(g) = Sum(f) + 1
                 /\ Sum(g) - g["httpSuccess"] =
                       IF o = "httpSuccess" THEN Sum(f) - f["httpSuccess"]
                       ELSE (Sum(f) - f["httpSuccess"]) + 1
<1>1. \A o \in Outcomes : f[o] \in Nat
  OBVIOUS
<1>2. Sum(f) \in Nat /\ Sum(f) - f["httpSuccess"] \in Nat
  BY <1>1 DEF Sum, Outcomes
<1>3. ASSUME NEW o \in Outcomes
      PROVE  LET g == [f EXCEPT ![o] = @ + 1] IN
             /\ Sum(g) = Sum(f) + 1
             /\ Sum(g) - g["httpSuccess"] =
                   IF o = "httpSuccess" THEN Sum(f) - f["httpSuccess"]
                   ELSE (Sum(f) - f["httpSuccess"]) + 1
  <2> DEFINE g == [f EXCEPT ![o] = @ + 1]
  <2>1. \A p \in Outcomes : g[p] = IF p = o THEN f[p] + 1 ELSE f[p]
    OBVIOUS
  <2> HIDE DEF g
  <2>2. /\ Sum(g) = Sum(f) + 1
        /\ Sum(g) - g["httpSuccess"] =
              IF o = "httpSuccess" THEN Sum(f) - f["httpSuccess"]
              ELSE (Sum(f) - f["httpSuccess"]) + 1
    BY <1>1, <2>1 DEF Sum, Outcomes
  <2> QED BY <2>2 DEF g
<1> QED BY <1>2, <1>3

-----------------------------------------------------------------------------
(* The counters of the script and the failures it lists. *)
CountersInv == SendInv /\ FailuresInv /\ ReportAddsUp

(* The failures that are not listed any more count as well. *)
Failed == payloadRejected + (Sum(outcomes) - outcomes["httpSuccess"])

LEMMA CountersFacts ==
    ASSUME TypeOK
    PROVE  /\ Sum(outcomes) \in Nat
           /\ Failed \in Nat
           /\ payloadAccepted \in Nat /\ payloadRejected \in Nat /\ totalRead \in Nat
           /\ IsFiniteSet(failures) /\ Cardinality(failures) <= MaxFailures
           /\ Cardinality(failures) \in Nat
           /\ failures \subseteq Failures
           /\ IsFiniteSet(RowsNotSent)
           /\ Cardinality(RowsNotSent) \in Nat
<1>1. /\ outcomes \in [Outcomes -> Nat]
      /\ payloadAccepted \in Nat /\ payloadRejected \in Nat /\ totalRead \in Nat
      /\ IsFiniteSet(failures) /\ Cardinality(failures) <= MaxFailures
      /\ failures \subseteq Failures
  BY ArgsFacts DEF TypeOK
<1>2. /\ Sum(outcomes) \in Nat /\ Sum(outcomes) - outcomes["httpSuccess"] \in Nat
      /\ outcomes["httpSuccess"] \in Nat
  BY <1>1, SumStep DEF Outcomes
<1>3. Failed \in Nat
  BY <1>1, <1>2 DEF Failed
<1>4. IsFiniteSet(1 .. totalRead)
  BY <1>1, FS_Interval
<1>5. IsFiniteSet(RowsNotSent)
  BY <1>4, FS_Subset DEF RowsNotSent
<1> QED BY <1>1, <1>2, <1>3, <1>5, FS_CardinalityType

(* Nothing but the fate of the row being sent moves these counters while   *)
(* a request is under way.                                                 *)
LEMMA SettleCounters ==
    ASSUME TypeOK, CountersInv, phase = "send", NEW o \in Outcomes, Settle(o)
    PROVE  CountersInv'
<1>0. /\ args' = args /\ totalRead' = totalRead
      /\ payloadAccepted' = payloadAccepted /\ payloadRejected' = payloadRejected
      /\ RowsNotSent' = RowsNotSent
      /\ Row' = Row
  BY DEF Settle, RowsNotSent, Row
<1>1. /\ ~args.dryRun /\ Row.kind = "valid"
      /\ Sum(outcomes) + 1 = payloadAccepted
      /\ \A f \in failures : f.row < totalRead
  BY DEF CountersInv, SendInv
<1>2. /\ totalRead = payloadAccepted + payloadRejected
      /\ Cardinality(failures) = Listed(Failed)
      /\ FailuresInv
  BY DEF CountersInv, ReportAddsUp, Failed
<1>3. CASE Retry(o)
  <2>1. UNCHANGED <<phase, outcomes, failures>>
    BY <1>3 DEF Retry
  <2> QED BY <1>0, <2>1 DEF CountersInv, SendInv, FailuresInv, ReportAddsUp
<1>4. CASE Record(o)
  <2> DEFINE f == [row |-> totalRead, kind |-> "http", id |-> ReplayId(Row.event)]
  <2>1. /\ outcomes' = [outcomes EXCEPT ![o] = @ + 1]
        /\ IF o = "httpSuccess" THEN failures' = failures ELSE AddFailure(f)
        /\ phase' \in {"done", "read"}
    BY <1>4 DEF Record
  <2>2. /\ Sum(outcomes') = Sum(outcomes) + 1
        /\ Failed' = IF o = "httpSuccess" THEN Failed ELSE Failed + 1
        /\ Failed \in Nat /\ payloadRejected \in Nat
    <3>1. outcomes \in [Outcomes -> Nat] /\ payloadRejected \in Nat
      BY DEF TypeOK
    <3>2. /\ Sum(outcomes) \in Nat /\ Sum(outcomes') = Sum(outcomes) + 1
          /\ Sum(outcomes) - outcomes["httpSuccess"] \in Nat
          /\ Sum(outcomes') - outcomes'["httpSuccess"] =
                IF o = "httpSuccess" THEN Sum(outcomes) - outcomes["httpSuccess"]
                ELSE (Sum(outcomes) - outcomes["httpSuccess"]) + 1
      BY <2>1, <3>1, SumStep
    <3> QED BY <1>0, <3>1, <3>2, CountersFacts DEF Failed
  <2>3. /\ f.row = totalRead /\ f.kind = "http"
        /\ f \notin failures
    <3>1. totalRead \in Nat
      BY CountersFacts
    <3> QED BY <1>1, <3>1
  <2> HIDE DEF f
  <2>4. /\ Cardinality(failures') = Listed(Failed')
        /\ failures' \subseteq failures \cup {f}
    <3>1. CASE o = "httpSuccess"
      BY <1>2, <2>1, <2>2, <3>1
    <3>2. CASE o # "httpSuccess"
      BY <1>2, <2>1, <2>2, <2>3, <3>2, AddFailureStep, CountersFacts
    <3> QED BY <3>1, <3>2
  <2>5. FailuresInv'
    <3>1. totalRead \in 1 .. totalRead
      BY RowFacts
    <3>2. \A g \in failures' : g \in failures \/ g = f
      BY <2>4
    <3> QED BY <1>0, <1>2, <2>3, <3>1, <3>2 DEF FailuresInv
  <2>6. SendInv'
    BY <2>1 DEF SendInv
  <2>7. ReportAddsUp'
    <3>1. Cardinality(failures') =
             Listed(payloadRejected' + (Sum(outcomes') - outcomes'["httpSuccess"]))
      BY <2>4 DEF Failed
    <3> QED BY <1>0, <1>1, <1>2, <2>2, <3>1 DEF ReportAddsUp
  <2> QED BY <2>5, <2>6, <2>7 DEF CountersInv
<1> QED BY <1>3, <1>4 DEF Settle

LEMMA RejectRowCounters ==
    ASSUME TypeOK, CountersInv, RejectRow
    PROVE  CountersInv'
<1> DEFINE f == [row |-> totalRead + 1, kind |-> "payload",
                 id |-> IF NextKind = "rejected"
                        THEN OwnId(args.input[totalRead + 1].event) ELSE None]
<1>1. /\ totalRead < Len(args.input) /\ totalRead' = totalRead + 1
      /\ NextKind \in {"rejected", "anonymous"}
      /\ payloadRejected' = payloadRejected + 1
      /\ AddFailure(f)
      /\ phase = "read" /\ phase' \in {"done", "read"}
      /\ UNCHANGED <<args, payloadAccepted, outcomes>>
  BY DEF RejectRow, ReadsRow, HasNext
<1>2. /\ f.row = totalRead + 1
      /\ f.id # None => /\ args.input[totalRead + 1].kind = "rejected"
                        /\ f.id = OwnId(args.input[totalRead + 1].event)
      /\ args.input[totalRead + 1].kind # "valid"
  BY <1>1 DEF NextKind
<1> HIDE DEF f
<1>3. /\ totalRead \in Nat /\ payloadRejected \in Nat /\ payloadAccepted \in Nat
      /\ Sum(outcomes) \in Nat /\ Failed \in Nat
  BY CountersFacts
<1>4. /\ totalRead = payloadAccepted + payloadRejected
      /\ ~args.dryRun => Sum(outcomes) = payloadAccepted
      /\ args.dryRun => Sum(outcomes) = 0
      /\ Cardinality(failures) = Listed(Failed)
      /\ FailuresInv
  BY <1>1 DEF CountersInv, ReportAddsUp, Failed
<1>5. f \notin failures
  <2>1. \A g \in failures : g.row \in 1 .. totalRead
    BY <1>4 DEF FailuresInv
  <2> QED BY <1>2, <1>3, <2>1
<1>6. Failed' = Failed + 1
  <2> DEFINE k == Sum(outcomes) - outcomes["httpSuccess"]
  <2>1. k \in Nat
    BY SumStep DEF TypeOK
  <2>2. Failed = payloadRejected + k /\ Failed' = payloadRejected' + k
    BY <1>1 DEF Failed
  <2> HIDE DEF k
  <2> QED BY <1>1, <1>3, <2>1, <2>2
<1>7. /\ Cardinality(failures') = Listed(Failed')
      /\ failures' \subseteq failures \cup {f}
  BY <1>1, <1>3, <1>4, <1>5, <1>6, AddFailureStep, CountersFacts
<1>8. payloadRejected' = Cardinality(RowsNotSent')
  <2>1. RowsNotSent' = RowsNotSent \cup {totalRead + 1}
    BY <1>1, <1>2, <1>3 DEF RowsNotSent
  <2>2. totalRead + 1 \notin RowsNotSent
    BY <1>3 DEF RowsNotSent
  <2>3. payloadRejected = Cardinality(RowsNotSent)
    BY <1>4 DEF FailuresInv
  <2> QED BY <1>1, <2>1, <2>2, <2>3, FS_AddElement, CountersFacts
<1>9. FailuresInv'
  <2>1. ASSUME NEW g \in failures'
        PROVE  /\ g.row \in 1 .. totalRead'
               /\ g.kind = "payload" /\ g.id # None =>
                     /\ args'.input[g.row].kind = "rejected"
                     /\ g.id = OwnId(args'.input[g.row].event)
    <3>1. CASE g \in failures
      <4>1. /\ g.row \in 1 .. totalRead
            /\ g.kind = "payload" /\ g.id # None =>
                  /\ args.input[g.row].kind = "rejected"
                  /\ g.id = OwnId(args.input[g.row].event)
        BY <1>4, <3>1 DEF FailuresInv
      <4>2. g.row \in 1 .. totalRead'
        BY <1>1, <1>3, <4>1
      <4> QED BY <1>1, <4>1, <4>2
    <3>2. CASE g = f
      BY <1>1, <1>2, <1>3, <3>2
    <3> QED BY <1>7, <3>1, <3>2
  <2> QED BY <1>8, <2>1 DEF FailuresInv, OwnId
<1>10. ReportAddsUp'
  <2>1. Cardinality(failures') =
           Listed(payloadRejected' + (Sum(outcomes') - outcomes'["httpSuccess"]))
    BY <1>7 DEF Failed
  <2> QED BY <1>1, <1>3, <1>4, <2>1 DEF ReportAddsUp
<1> QED BY <1>1, <1>9, <1>10 DEF CountersInv, SendInv

LEMMA AcceptRowCounters ==
    ASSUME TypeOK, CountersInv, AcceptRow
    PROVE  CountersInv'
<1>1. /\ totalRead < Len(args.input) /\ totalRead' = totalRead + 1
      /\ NextKind = "valid"
      /\ payloadAccepted' = payloadAccepted + 1
      /\ phase = "read"
      /\ phase' = IF args.dryRun THEN "read" ELSE "send"
      /\ UNCHANGED <<args, payloadRejected, outcomes, failures>>
  BY DEF AcceptRow, ReadsRow, HasNext
<1>2. /\ totalRead \in Nat /\ payloadRejected \in Nat /\ payloadAccepted \in Nat
      /\ Sum(outcomes) \in Nat
  BY CountersFacts
<1>3. /\ totalRead = payloadAccepted + payloadRejected
      /\ ~args.dryRun => Sum(outcomes) = payloadAccepted
      /\ args.dryRun => Sum(outcomes) = 0
      /\ FailuresInv
      /\ ReportAddsUp
  BY <1>1 DEF CountersInv, ReportAddsUp
<1>4. args.input[totalRead + 1].kind = "valid"
  BY <1>1 DEF NextKind
<1>5. RowsNotSent' = RowsNotSent
  BY <1>1, <1>2, <1>4 DEF RowsNotSent
<1>6. \A g \in failures : g.row \in 1 .. totalRead
  BY <1>3 DEF FailuresInv
<1>7. FailuresInv'
  <2>1. \A g \in failures : g.row \in 1 .. totalRead'
    BY <1>1, <1>2, <1>6
  <2> QED BY <1>1, <1>3, <1>5, <2>1 DEF FailuresInv
<1>8. SendInv'
  <2>1. Row'.kind = "valid"
    BY <1>1, <1>4 DEF Row
  <2>2. \A g \in failures : g.row < totalRead'
    BY <1>1, <1>2, <1>6
  <2>3. ~args.dryRun => Sum(outcomes') + 1 = payloadAccepted'
    BY <1>1, <1>2, <1>3
  <2> QED BY <1>1, <2>1, <2>2, <2>3 DEF SendInv
<1>9. ReportAddsUp'
  <2>1. totalRead' = payloadAccepted' + payloadRejected'
    BY <1>1, <1>2, <1>3
  <2> QED BY <1>1, <1>3, <2>1 DEF ReportAddsUp
<1> QED BY <1>7, <1>8, <1>9 DEF CountersInv

LEMMA CountersStep == TypeOK /\ CountersInv /\ [Next]_vars => CountersInv'
<1> SUFFICES ASSUME TypeOK, CountersInv, [Next]_vars PROVE CountersInv'
  OBVIOUS
<1>1. ASSUME UNCHANGED clientVars PROVE CountersInv'
  BY <1>1 DEF clientVars, CountersInv, SendInv, FailuresInv, ReportAddsUp, RowsNotSent, Row
<1>2. CASE CorruptRow \/ EndOfInput \/ ConnectionLost
  <2>1. /\ phase' \in {"failed", "done"}
        /\ phase' = "done" => phase = "read"
        /\ UNCHANGED <<args, totalRead, payloadAccepted,
                       payloadRejected, outcomes, failures>>
    BY <1>2 DEF CorruptRow, EndOfInput, ConnectionLost
  <2> QED BY <2>1 DEF CountersInv, SendInv, FailuresInv, ReportAddsUp, RowsNotSent
<1>3. CASE RejectRow
  BY <1>3, RejectRowCounters
<1>4. CASE AcceptRow
  BY <1>4, AcceptRowCounters
<1>5. CASE (\E o \in Outcomes : Answered(o)) \/ TimesOut \/ Unreachable
  <2>1. PICK o \in Outcomes : phase = "send" /\ Settle(o)
    BY <1>5 DEF Answered, TimesOut, Unreachable, Outcomes
  <2> QED BY <2>1, SettleCounters
<1>6. CASE \E id \in Ids : HandleLate(id) \/ Consume(id)
  BY <1>1, <1>6 DEF HandleLate, Consume
<1>7. CASE UNCHANGED vars
  BY <1>1, <1>7 DEF vars
<1> QED BY <1>2, <1>3, <1>4, <1>5, <1>6, <1>7 DEF Next, ClientStep
-----------------------------------------------------------------------------
(* The API against the successes the script counts. *)
Published == {id \in Ids : /\ id.prefix = args.prefix
                           /\ receipt[id] = "PUBLISHED"
                           /\ ~SentEarlier(id)}

ServerInv ==
    ReceiptsInv /\ RetriesAcceptOnce /\ SuccessesArePublished /\ IsFiniteSet(Exported)

(* A replay uses one prefix: it has no more eventIds than there are events. *)
LEMMA PublishedIsFinite == IsFiniteSet(Published) /\ Cardinality(Published) \in Nat
<1> DEFINE eventOf == [id \in Published |-> id.event]
<1>1. \A i, j \in Published : i.event = j.event => i = j
  <2> SUFFICES ASSUME NEW i \in Published, NEW j \in Published, i.event = j.event
               PROVE  i = j
    OBVIOUS
  <2>1. i \in Ids /\ j \in Ids /\ i.prefix = j.prefix
    BY DEF Published
  <2> QED BY <2>1 DEF Ids
<1>2. \A id \in Published : id.event \in Events
  BY DEF Published, Ids
<1>3. eventOf \in Injection(Published, Events)
  BY <1>1, <1>2 DEF Injection, IsInjective
<1>4. IsFiniteSet(Published)
  BY <1>3, FS_Injection
<1> QED BY <1>4, FS_CardinalityType

(* Receipts that stay keep what was published, and a success adds to it.   *)
LEMMA PublishedStep ==
    ASSUME TypeOK, ServerInv, TypeOK', args' = args,
           \A i \in Ids : receipt[i] # None => receipt'[i] = receipt[i],
           \/ outcomes'["httpSuccess"] = outcomes["httpSuccess"]
           \/ /\ outcomes'["httpSuccess"] = outcomes["httpSuccess"] + 1
              /\ \E id \in Ids : /\ id.prefix = args.prefix
                                 /\ receipt[id] = None /\ receipt'[id] = "PUBLISHED"
    PROVE  ReceiptsInv' /\ SuccessesArePublished'
<1>0. None # "PUBLISHED" /\ outcomes["httpSuccess"] \in Nat
  BY DEF TypeOK, Outcomes
<1>1. \A id : SentEarlier(id)' = SentEarlier(id)
  BY DEF SentEarlier
<1>2. \A id \in Ids : SentEarlier(id) => receipt[id] # None
  BY DEF ServerInv, ReceiptsInv
<1>3. ReceiptsInv'
  BY <1>1, <1>2 DEF ReceiptsInv
<1>4. /\ IsFiniteSet(Published) /\ Cardinality(Published) \in Nat
      /\ IsFiniteSet(Published') /\ Cardinality(Published') \in Nat
  <2>1. (IsFiniteSet(Published) /\ Cardinality(Published) \in Nat)'
    BY PublishedIsFinite, PTL
  <2> QED BY <2>1, PublishedIsFinite
<1>5. Published \subseteq Published'
  BY <1>0, <1>1 DEF Published
<1>6. outcomes["httpSuccess"] <= Cardinality(Published)
  BY DEF ServerInv, SuccessesArePublished, Published
<1>7. outcomes'["httpSuccess"] <= Cardinality(Published')
  <2>1. CASE outcomes'["httpSuccess"] = outcomes["httpSuccess"]
    <3>1. Cardinality(Published) <= Cardinality(Published')
      BY <1>4, <1>5, FS_Subset
    <3> QED BY <1>0, <1>4, <1>6, <2>1, <3>1
  <2>2. CASE /\ outcomes'["httpSuccess"] = outcomes["httpSuccess"] + 1
             /\ \E id \in Ids : /\ id.prefix = args.prefix
                                /\ receipt[id] = None /\ receipt'[id] = "PUBLISHED"
    <3>1. PICK id \in Ids : /\ id.prefix = args.prefix
                            /\ receipt[id] = None /\ receipt'[id] = "PUBLISHED"
      BY <2>2
    <3>2. id \notin Published /\ id \in Published'
      BY <1>0, <1>1, <1>2, <3>1 DEF Published
    <3>3. /\ IsFiniteSet(Published \cup {id})
          /\ Cardinality(Published \cup {id}) = Cardinality(Published) + 1
      BY <1>4, <3>2, FS_AddElement
    <3>4. Published \cup {id} \subseteq Published'
      BY <1>5, <3>2
    <3>5. Cardinality(Published \cup {id}) <= Cardinality(Published')
      BY <1>4, <3>4, FS_Subset
    <3> QED BY <1>0, <1>4, <1>6, <2>2, <3>3, <3>5
  <2> QED BY <2>1, <2>2
<1>8. SuccessesArePublished'
  BY <1>7 DEF SuccessesArePublished, Published
<1> QED BY <1>3, <1>8

LEMMA ServerStep == TypeOK /\ ServerInv /\ [Next]_vars => ServerInv'
<1> SUFFICES ASSUME TypeOK, ServerInv, [Next]_vars PROVE ServerInv'
  OBVIOUS
<1>0. /\ TypeOK'
      /\ None # "PUBLISHED"
      /\ outcomes \in [Outcomes -> Nat] /\ "httpSuccess" \in Outcomes
      /\ results \in [Ids -> 0 .. MaxRiskScore \cup {None}]
      /\ RetriesAcceptOnce /\ IsFiniteSet(Exported)
  BY ReplayTypeInvariant DEF TypeOK, Outcomes, ServerInv
<1>1. ASSUME UNCHANGED <<receipt, copies, lost, results>>,
             args' = args,
             outcomes'["httpSuccess"] = outcomes["httpSuccess"]
      PROVE  ServerInv'
  <2>1. RetriesAcceptOnce' /\ IsFiniteSet(Exported')
    BY <1>0, <1>1 DEF RetriesAcceptOnce, Exported
  <2>2. ReceiptsInv' /\ SuccessesArePublished'
    BY <1>0, <1>1, PublishedStep
  <2> QED BY <2>1, <2>2 DEF ServerInv
<1>2. CASE CorruptRow \/ EndOfInput \/ RejectRow \/ AcceptRow \/ ConnectionLost
  BY <1>1, <1>2 DEF CorruptRow, EndOfInput, RejectRow, AcceptRow, ConnectionLost, ReadsRow,
                    serverVars, apiVars
<1>3. ASSUME NEW o \in Outcomes, Settle(o)
      PROVE  /\ args' = args /\ results' = results
             /\ o # "httpSuccess" => outcomes'["httpSuccess"] = outcomes["httpSuccess"]
             /\ \/ outcomes'["httpSuccess"] = outcomes["httpSuccess"]
                \/ outcomes'["httpSuccess"] = outcomes["httpSuccess"] + 1
  <2>1. outcomes' = outcomes \/ outcomes' = [outcomes EXCEPT ![o] = @ + 1]
    BY <1>3 DEF Settle, Retry, Record
  <2>2. /\ o # "httpSuccess" => outcomes'["httpSuccess"] = outcomes["httpSuccess"]
        /\ \/ outcomes'["httpSuccess"] = outcomes["httpSuccess"]
           \/ outcomes'["httpSuccess"] = outcomes["httpSuccess"] + 1
    BY <1>0, <2>1
  <2> QED BY <1>3, <2>2 DEF Settle
<1>4. CASE \E o \in Outcomes : Answered(o)
  <2>1. PICK o \in Outcomes : Answered(o)
    BY <1>4
  <2> DEFINE id == ReplayId(Row.event)
  <2>2. /\ phase = "send" /\ Handle(id, o) /\ Settle(o)
    BY <2>1 DEF Answered
  <2>3. id \in Ids /\ id.prefix = args.prefix
    BY <2>2, RowFacts
  <2> HIDE DEF id
  <2>4. /\ \A i \in Ids : receipt[i] # None => receipt'[i] = receipt[i]
        /\ RetriesAcceptOnce'
        /\ o = "httpSuccess" => receipt[id] = None /\ receipt'[id] = "PUBLISHED"
    BY <1>0, <2>2, <2>3, HandleStep
  <2>5. ReceiptsInv' /\ SuccessesArePublished'
    BY <1>0, <1>3, <2>2, <2>3, <2>4, PublishedStep
  <2>6. IsFiniteSet(Exported')
    BY <1>0, <1>3, <2>2 DEF Exported
  <2> QED BY <2>4, <2>5, <2>6 DEF ServerInv
<1>5. CASE TimesOut \/ Unreachable
  <2>1. PICK o \in {"timeout", "connectionError"} :
           Settle(o) /\ UNCHANGED <<receipt, copies, lost>>
    BY <1>5 DEF TimesOut, Unreachable, apiVars
  <2>2. o \in Outcomes /\ o # "httpSuccess"
    BY DEF Outcomes
  <2> QED BY <1>1, <1>3, <2>1, <2>2
<1>6. ASSUME NEW id \in Ids, HandleLate(id) PROVE ServerInv'
  <2>1. UNCHANGED <<args, outcomes, results>>
    BY <1>6 DEF HandleLate, clientVars
  <2>2. CASE \E o \in Outcomes : Handle(id, o)
    <3>1. /\ \A i \in Ids : receipt[i] # None => receipt'[i] = receipt[i]
          /\ RetriesAcceptOnce'
      BY <1>0, <2>2, HandleStep
    <3>2. ReceiptsInv' /\ SuccessesArePublished'
      BY <1>0, <2>1, <3>1, PublishedStep
    <3> QED BY <1>0, <2>1, <3>1, <3>2 DEF ServerInv, Exported
  <2>3. CASE UNCHANGED apiVars
    BY <1>1, <2>1, <2>3 DEF apiVars
  <2> QED BY <1>6, <2>2, <2>3 DEF HandleLate
<1>7. ASSUME NEW id \in Ids, Consume(id) PROVE ServerInv'
  <2>1. /\ UNCHANGED <<args, outcomes, receipt, copies, lost>>
        /\ \A i \in Ids : i # id => results'[i] = results[i]
    <3>1. PICK w \in WindowAnswers :
             results' = [results EXCEPT ![id] = RiskScore(MessageOf[id.event], w)]
      BY <1>7 DEF Consume
    <3> QED BY <1>0, <1>7, <3>1 DEF Consume, clientVars, apiVars
  <2>2. RetriesAcceptOnce'
    BY <1>0, <2>1 DEF RetriesAcceptOnce
  <2>3. Exported' \subseteq Exported \cup {id}
    BY <2>1 DEF Exported
  <2>4. IsFiniteSet(Exported')
    BY <1>0, <2>3, FS_AddElement, FS_Subset
  <2>5. ReceiptsInv' /\ SuccessesArePublished'
    BY <1>0, <2>1, PublishedStep
  <2> QED BY <2>2, <2>4, <2>5 DEF ServerInv
<1>8. CASE UNCHANGED vars
  BY <1>1, <1>8 DEF vars, clientVars, serverVars
<1> QED BY <1>2, <1>4, <1>5, <1>6, <1>7, <1>8 DEF Next, ClientStep
-----------------------------------------------------------------------------
(* A report is about the state it was written in, and ends the exploration. *)
LEMMA SameReport ==
    ASSUME UNCHANGED vars, NEW o, NEW version
    PROVE  /\ BuildReport(o, version)' = BuildReport(o, version)
           /\ Refuses(o, version)' = Refuses(o, version)
<1>1. /\ EventIdPrefix(o)' = EventIdPrefix(o)
      /\ Exported' = Exported
      /\ args' = args /\ failures' = failures /\ payloadRejected' = payloadRejected
      /\ results' = results
  BY DEF vars, clientVars, serverVars, EventIdPrefix, Exported
<1>2. \A e, p : ResultIds(e, p)' = ResultIds(e, p)
  BY <1>1 DEF ResultIds
<1>3. \A e, p : ScoreOf(e, p)' = ScoreOf(e, p)
  BY <1>1, <1>2 DEF ScoreOf
<1>4. \A p : RejectedEvents(p)' = RejectedEvents(p)
  BY <1>1 DEF RejectedEvents
<1>5. /\ RejectedFor(o)' = RejectedFor(o)
  BY <1>1, <1>4 DEF RejectedFor
<1>6. ExclusionComplete(o)' = ExclusionComplete(o)
  BY <1>1, <1>5 DEF ExclusionComplete
<1>7. Missing(o)' = Missing(o) /\ Scored(o)' = Scored(o)
  BY <1>1, <1>2, <1>5 DEF Missing, Scored
<1>8. MissingCounted(o)' = MissingCounted(o)
  BY <1>7 DEF MissingCounted
<1>9. LevelCounts(o)' = LevelCounts(o)
  <2>1. \A b : AtLevel(o, b)' = AtLevel(o, b)
    BY <1>1, <1>3, <1>7 DEF AtLevel
  <2> QED BY <2>1 DEF LevelCounts
<1>10. EvaluateRows(o, version)' = EvaluateRows(o, version)
  <2>1. Matched(o)' = Matched(o) /\ Versioned(o, version)' = Versioned(o, version)
    BY <1>1, <1>2, <1>7 DEF Matched, Versioned
  <2>2. /\ Positive(o)' = Positive(o)
        /\ Blocked(o)' = Blocked(o)
        /\ Reviewed(o)' = Reviewed(o)
    BY <1>1, <1>3, <1>7 DEF Positive, Blocked, Reviewed
  <2>3. Negative(o)' = Negative(o)
    BY <1>7, <1>8, <2>2 DEF Negative
  <2> QED BY <1>1, <1>5, <1>7, <1>8, <2>1, <2>2, <2>3 DEF EvaluateRows
<1>11. \A n : Raised(o, n)' = Raised(o, n)
  BY <1>1, <1>5 DEF Raised
<1>12. \A n : BuildWarnings(o, n)' = BuildWarnings(o, n)
  BY <1>11 DEF BuildWarnings
<1>13. BuildReport(o, version)' = BuildReport(o, version)
  BY <1>5, <1>6, <1>9, <1>10, <1>12 DEF BuildReport
<1>14. Refuses(o, version)' = Refuses(o, version)
  BY <1>1, <1>7 DEF Refuses, DuplicateResult
<1> QED BY <1>13, <1>14
-----------------------------------------------------------------------------
(* What the evaluation counts. *)
USE EvaluationAssumption

StateInv == TypeOK /\ CountersInv /\ ServerInv

LEMMA EvalArgsFacts ==
    ASSUME NEW o \in EvalArgs
    PROVE  /\ o.labels \subseteq Events /\ IsFiniteSet(o.labels)
           /\ o.policy \in ThresholdPolicies
           /\ o.report \in BOOLEAN /\ o.excludeRejected \in BOOLEAN
           /\ o.includeMissing \in BOOLEAN
<1>1. o \in EvalArgsType
  OBVIOUS
<1>2. o.labels \in SUBSET Events
  BY <1>1 DEF EvalArgsType
<1>3. IsFiniteSet(o.labels)
  BY <1>2, FS_Subset
<1> QED BY <1>1, <1>2, <1>3 DEF EvalArgsType

(* Labels are left out, missing or scored; nothing is two of them. *)
LEMMA LabelsSplit ==
    ASSUME NEW o \in EvalArgs
    PROVE  /\ Missing(o) \cup Scored(o) = o.labels \ RejectedFor(o)
           /\ Missing(o) \cap Scored(o) = {}
           /\ MissingCounted(o) \subseteq Missing(o)
           /\ MissingCounted(o) = IF o.includeMissing THEN Missing(o) ELSE {}
           /\ Missing(o) \subseteq Events /\ IsFiniteSet(Missing(o))
           /\ Scored(o) \subseteq Events /\ IsFiniteSet(Scored(o))
<1>1. Missing(o) \subseteq o.labels /\ Scored(o) \subseteq o.labels
  BY DEF Missing, Scored
<1>2. IsFiniteSet(Missing(o)) /\ IsFiniteSet(Scored(o))
  BY <1>1, EvalArgsFacts, FS_Subset
<1>3. Missing(o) \cup Scored(o) = o.labels \ RejectedFor(o)
  BY DEF Missing, Scored
<1>4. Missing(o) \cap Scored(o) = {}
  BY DEF Missing, Scored
<1> QED BY <1>1, <1>2, <1>3, <1>4, EvalArgsFacts DEF MissingCounted

LEMMA ScoredFacts ==
    ASSUME TypeOK, NEW o, NEW e \in Scored(o)
    PROVE  ScoreOf(e, EventIdPrefix(o)) \in 0 .. MaxRiskScore
<1>1. ResultIds(e, EventIdPrefix(o)) # {}
  BY DEF Scored
<1>2. (CHOOSE id \in ResultIds(e, EventIdPrefix(o)) : TRUE) \in ResultIds(e, EventIdPrefix(o))
  BY <1>1
<1>3. \A id \in ResultIds(e, EventIdPrefix(o)) : results[id] \in 0 .. MaxRiskScore
  BY DEF ResultIds, Exported, TypeOK
<1> QED BY <1>2, <1>3 DEF ScoreOf

(* The two ways of deciding agree: what is reviewed or blocked is positive. *)
LEMMA DecisionsSplit ==
    ASSUME TypeOK, NEW o \in EvalArgs
    PROVE  /\ Reviewed(o) \cup Blocked(o) = Positive(o)
           /\ Reviewed(o) \cap Blocked(o) = {}
           /\ Positive(o) \subseteq Scored(o)
<1>1. ASSUME NEW e, NEW score \in 0 .. MaxRiskScore, NEW policy \in ThresholdPolicies
      PROVE  /\ IsPredictedPositive(e, score, policy)
                   <=> IsBlocked(e, score, policy) \/ IsReviewed(e, score, policy)
             /\ ~(IsBlocked(e, score, policy) /\ IsReviewed(e, score, policy))
  <2>1. RiskLevel(score) \in RiskLevels
    BY DEF RiskLevel, RiskLevels, RiskRank
  <2>2. CASE policy = ThresholdV1
    BY <2>1, <2>2 DEF IsPredictedPositive, IsBlocked, IsReviewed, ThresholdV1,
                      RiskLevels, RiskRank, MaxRiskScore
  <2>3. CASE policy = ThresholdStrictV1
    BY <2>1, <2>3 DEF IsPredictedPositive, IsBlocked, IsReviewed, ThresholdStrictV1,
                      RiskLevels, RiskRank, MaxRiskScore
  <2> QED BY <2>2, <2>3 DEF ThresholdPolicies
<1>2. \A e \in Scored(o) :
         LET score == ScoreOf(e, EventIdPrefix(o)) IN
         /\ IsPredictedPositive(e, score, o.policy)
               <=> IsBlocked(e, score, o.policy) \/ IsReviewed(e, score, o.policy)
         /\ ~(IsBlocked(e, score, o.policy) /\ IsReviewed(e, score, o.policy))
  BY <1>1, ScoredFacts, EvalArgsFacts
<1> QED BY <1>2 DEF Positive, Blocked, Reviewed

(* The counters, by name. *)
CountersCount(n, o, version) ==
    /\ n.matchedResults = Cardinality(Matched(o))
    /\ n.unmatchedResults = Cardinality(Exported) - Cardinality(Matched(o))
    /\ n.evaluatedEvents = Cardinality(Scored(o) \cup MissingCounted(o))
    /\ n.excludedReplayRejected = Cardinality(o.labels \cap RejectedFor(o))
    /\ n.missingResults = Cardinality(Missing(o))
    /\ n.missingFraudLabels = Cardinality(Missing(o) \cap Fraud)
    /\ n.truePositive = Cardinality(Positive(o) \cap Fraud)
    /\ n.falsePositive = Cardinality(Positive(o) \ Fraud)
    /\ n.trueNegative = Cardinality(Negative(o) \ Fraud)
    /\ n.falseNegative = Cardinality(Negative(o) \cap Fraud)
    /\ n.ALLOW = Cardinality(Scored(o) \ (Blocked(o) \cup Reviewed(o)))
    /\ n.REVIEW = Cardinality(Reviewed(o))
    /\ n.BLOCK = Cardinality(Blocked(o))
    /\ n.withRiskScore = Cardinality(Scored(o) \ WithoutScore)
    /\ n.withoutRiskScore = Cardinality(Scored(o) \cap WithoutScore)
    /\ n.withRuleVersion = Cardinality(Versioned(o, version))
    /\ n.withoutRuleVersion = Cardinality(Scored(o) \ Versioned(o, version))

LEMMA CountersOf ==
    ASSUME NEW o, NEW version
    PROVE  CountersCount(EvaluateRows(o, version), o, version)
BY DEF EvaluateRows, Counters, CountersCount

LEMMA CountersTyped ==
    ASSUME StateInv, NEW o \in EvalArgs, NEW version \in RuleVersions
    PROVE  EvaluateRows(o, version) \in [Counters -> Nat]
<1> DEFINE n == EvaluateRows(o, version)
<1>0. CountersCount(n, o, version) /\ n = [c \in Counters |-> n[c]]
  BY CountersOf DEF EvaluateRows
<1> HIDE DEF n
<1>1. ASSUME NEW S, S \subseteq Events PROVE Cardinality(S) \in Nat
  BY <1>1, FS_Subset, FS_CardinalityType
<1>2. /\ Scored(o) \subseteq Events /\ Missing(o) \subseteq Events
      /\ MissingCounted(o) \subseteq Events
      /\ o.labels \subseteq Events
  BY LabelsSplit, EvalArgsFacts
<1>3. /\ Matched(o) \subseteq Events
      /\ Positive(o) \subseteq Events /\ Negative(o) \subseteq Events
      /\ Blocked(o) \subseteq Events /\ Reviewed(o) \subseteq Events
      /\ Versioned(o, version) \subseteq Events
  BY <1>2 DEF Matched, Positive, Negative, Blocked, Reviewed, Versioned
<1>4. /\ n.matchedResults \in Nat /\ n.evaluatedEvents \in Nat
      /\ n.excludedReplayRejected \in Nat /\ n.missingResults \in Nat
      /\ n.missingFraudLabels \in Nat
      /\ n.truePositive \in Nat /\ n.falsePositive \in Nat
      /\ n.trueNegative \in Nat /\ n.falseNegative \in Nat
  <2>1. /\ Scored(o) \cup MissingCounted(o) \subseteq Events
        /\ o.labels \cap RejectedFor(o) \subseteq Events
        /\ Missing(o) \cap Fraud \subseteq Events
        /\ Positive(o) \cap Fraud \subseteq Events /\ Positive(o) \ Fraud \subseteq Events
        /\ Negative(o) \cap Fraud \subseteq Events /\ Negative(o) \ Fraud \subseteq Events
    BY <1>2, <1>3
  <2> QED BY <1>0, <1>1, <1>2, <1>3, <2>1 DEF CountersCount
<1>5. /\ n.ALLOW \in Nat /\ n.REVIEW \in Nat /\ n.BLOCK \in Nat
      /\ n.withRiskScore \in Nat /\ n.withoutRiskScore \in Nat
      /\ n.withRuleVersion \in Nat /\ n.withoutRuleVersion \in Nat
  <2>1. /\ Scored(o) \ (Blocked(o) \cup Reviewed(o)) \subseteq Events
        /\ Scored(o) \ WithoutScore \subseteq Events
        /\ Scored(o) \cap WithoutScore \subseteq Events
        /\ Scored(o) \ Versioned(o, version) \subseteq Events
    BY <1>2
  <2> QED BY <1>0, <1>1, <1>2, <1>3, <2>1 DEF CountersCount
<1>6. n.unmatchedResults \in Nat
  <2> DEFINE x == EventIdPrefix(o)
             resultOf == [e \in Matched(o) |-> CHOOSE id \in ResultIds(e, x) : TRUE]
  <2>1. \A e \in Matched(o) : resultOf[e] \in ResultIds(e, x)
    BY DEF Matched
  <2>2. \A e, f \in Matched(o) : resultOf[e] = resultOf[f] => e = f
    <3>1. \A e, f : OwnId(e) = OwnId(f) => e = f
      BY DEF OwnId
    <3>2. \A e \in Matched(o) : NormalizeEventId(resultOf[e], x) = OwnId(e)
      BY <2>1 DEF ResultIds
    <3> HIDE DEF resultOf
    <3> QED BY <3>1, <3>2
  <2>3. resultOf \in Injection(Matched(o), Exported)
    <3>1. resultOf \in [Matched(o) -> Exported]
      BY <2>1 DEF ResultIds
    <3> HIDE DEF resultOf
    <3> QED BY <2>2, <3>1 DEF Injection, IsInjective
  <2>4. IsFiniteSet(Exported)
    BY DEF StateInv, ServerInv
  <2>5. /\ Cardinality(Matched(o)) <= Cardinality(Exported)
        /\ Cardinality(Matched(o)) \in Nat /\ Cardinality(Exported) \in Nat
    <3> HIDE DEF resultOf
    <3> QED BY <1>1, <1>3, <2>3, <2>4, FS_Injection, FS_CardinalityType
  <2> QED BY <1>0, <2>5 DEF CountersCount
<1>7. \A c \in Counters : n[c] \in Nat
  BY <1>4, <1>5, <1>6 DEF Counters
<1>8. n \in [Counters -> Nat]
  BY <1>0, <1>7
<1> QED BY <1>8 DEF n
-----------------------------------------------------------------------------
(* The rates are fractions, or absent. *)
LEMMA RatesTyped ==
    ASSUME NEW n \in [Counters -> Nat]
    PROVE  Metrics(n) \in [Rates -> (Nat \X Nat) \cup {None}]
<1> DEFINE Rate == (Nat \X Nat) \cup {None}
<1>1. ASSUME NEW a \in Nat, NEW d \in Nat PROVE Ratio(a, d) \in Rate
  BY DEF Ratio
<1>2. ASSUME NEW p \in Rate, NEW r \in Rate PROVE F1(p, r) \in Rate
  <2>1. CASE p = None \/ r = None
    BY <2>1 DEF F1
  <2>2. CASE p # None /\ r # None
    <3>1. PICK p1 \in Nat, p2 \in Nat, r1 \in Nat, r2 \in Nat : p = <<p1, p2>> /\ r = <<r1, r2>>
      BY <2>2
    <3>2. F1(p, r) = Ratio(2 * p1 * r1, p1 * r2 + r1 * p2)
      BY <2>2, <3>1 DEF F1
    <3>3. 2 * p1 * r1 \in Nat /\ p1 * r2 + r1 * p2 \in Nat
      BY <3>1
    <3> QED BY <1>1, <3>2, <3>3
  <2> QED BY <2>1, <2>2
<1> HIDE DEF Rate
<1>3. /\ n.truePositive \in Nat /\ n.falsePositive \in Nat /\ n.trueNegative \in Nat
      /\ n.falseNegative \in Nat /\ n.evaluatedEvents \in Nat
  BY DEF Counters
<1>4. /\ Metrics(n).precision \in Rate /\ Metrics(n).recall \in Rate
      /\ Metrics(n).falsePositiveRate \in Rate /\ Metrics(n).falseNegativeRate \in Rate
      /\ Metrics(n).accuracy \in Rate
  <2>1. /\ n.truePositive + n.falsePositive \in Nat /\ n.truePositive + n.falseNegative \in Nat
        /\ n.falsePositive + n.trueNegative \in Nat /\ n.falseNegative + n.truePositive \in Nat
        /\ n.truePositive + n.trueNegative \in Nat
    BY <1>3
  <2> QED BY <1>1, <1>3, <2>1 DEF Metrics
<1>5. Metrics(n).f1Score = F1(Metrics(n).precision, Metrics(n).recall)
  BY DEF Metrics
<1>6. Metrics(n).f1Score \in Rate
  BY <1>2, <1>4, <1>5
<1>7. /\ Metrics(n) = [r \in Rates |-> Metrics(n)[r]]
      /\ Rates = {"precision", "recall", "f1Score", "falsePositiveRate",
                  "falseNegativeRate", "accuracy"}
  BY DEF Metrics, Rates
<1>8. Metrics(n) \in [Rates -> Rate]
  BY <1>4, <1>6, <1>7
<1> QED BY <1>8 DEF Rate

LEMMA RejectedFacts ==
    ASSUME NEW o
    PROVE  RejectedFor(o) \subseteq Events /\ IsFiniteSet(RejectedFor(o))
              /\ Cardinality(RejectedFor(o)) \in Nat
<1>1. RejectedFor(o) \subseteq Events
  BY DEF RejectedFor, RejectedEvents
<1> QED BY <1>1, FS_Subset, FS_CardinalityType

LEMMA ReportTyped ==
    ASSUME StateInv, NEW o \in EvalArgs, NEW version \in RuleVersions
    PROVE  BuildReport(o, version) \in Reports
<1> DEFINE n == EvaluateRows(o, version)
<1>1. n \in [Counters -> Nat]
  BY CountersTyped
<1>2. LevelCounts(o) \in [RiskLevels \X BOOLEAN -> Nat]
  <2>1. \A b : AtLevel(o, b) \subseteq Events
    BY LabelsSplit DEF AtLevel
  <2>2. \A b : Cardinality(AtLevel(o, b)) \in Nat
    BY <2>1, FS_Subset, FS_CardinalityType
  <2> QED BY <2>2 DEF LevelCounts
<1> HIDE DEF n
<1>3. Metrics(n) \in [Rates -> (Nat \X Nat) \cup {None}]
  BY <1>1, RatesTyped
<1>4. BuildWarnings(o, n) \subseteq Warnings
  BY DEF BuildWarnings
<1>5. Readiness(n) \in {"contract_level_only", "per_result_verified",
                        "contract_level_with_partial_per_result_coverage"}
  <2>1. n.withRuleVersion \in Nat /\ n.withoutRuleVersion \in Nat
    BY <1>1 DEF Counters
  <2> QED BY <2>1 DEF Readiness
<1>6. ExclusionComplete(o) \in BOOLEAN \cup {None}
  BY DEF ExclusionComplete
<1> QED BY <1>1, <1>2, <1>3, <1>4, <1>5, <1>6, RejectedFacts DEF BuildReport, Reports, n

-----------------------------------------------------------------------------
(* What is left out. *)
LEMMA RejectedRows ==
    ASSUME StateInv, NEW o, NEW e \in RejectedFor(o)
    PROVE  \E i \in RowsNotSent : args.input[i].event = e
<1>1. PICK f \in failures :
         /\ f.kind = "payload" /\ f.id # None
         /\ NormalizeEventId(f.id, EventIdPrefix(o)) = OwnId(e)
  BY DEF RejectedFor, RejectedEvents
<1>2. /\ f.row \in 1 .. totalRead
      /\ args.input[f.row].kind = "rejected"
      /\ f.id = OwnId(args.input[f.row].event)
  BY <1>1 DEF StateInv, CountersInv, FailuresInv
<1>3. NormalizeEventId(f.id, EventIdPrefix(o)) = OwnId(args.input[f.row].event)
  BY <1>2 DEF NormalizeEventId, OwnId
<1>4. args.input[f.row].event = e
  BY <1>1, <1>3 DEF OwnId
<1> QED BY <1>2, <1>4 DEF RowsNotSent

LEMMA RowsReadDiffer ==
    ASSUME TypeOK, NEW i \in 1 .. totalRead, NEW j \in 1 .. totalRead,
           args.input[i].event = args.input[j].event
    PROVE  i = j
<1>1. totalRead \in 0 .. Len(args.input) /\ UniqueEvents(args.input) /\ Len(args.input) \in Nat
  BY ArgsFacts DEF TypeOK
<1>2. i \in 1 .. Len(args.input) /\ j \in 1 .. Len(args.input)
  BY <1>1
<1> QED BY <1>1, <1>2 DEF UniqueEvents

LEMMA ExclusionCounts ==
    ASSUME StateInv, NEW o
    PROVE  /\ \A i \in 1 .. totalRead :
                 args.input[i].kind = "valid" => args.input[i].event \notin RejectedFor(o)
           /\ payloadRejected <= Cardinality(RejectedFor(o)) =>
                 \A i \in 1 .. totalRead :
                    args.input[i].kind # "valid" => args.input[i].event \in RejectedFor(o)
<1>0. TypeOK
  BY DEF StateInv
<1>1. ASSUME NEW i \in 1 .. totalRead, args.input[i].kind = "valid",
             args.input[i].event \in RejectedFor(o)
      PROVE  FALSE
  <2>1. PICK j \in RowsNotSent : args.input[j].event = args.input[i].event
    BY <1>1, RejectedRows
  <2>2. j \in 1 .. totalRead /\ args.input[j].kind # "valid"
    BY DEF RowsNotSent
  <2> QED BY <1>0, <1>1, <2>1, <2>2, RowsReadDiffer
<1>2. ASSUME payloadRejected <= Cardinality(RejectedFor(o)),
             NEW i \in 1 .. totalRead, args.input[i].kind # "valid"
      PROVE  args.input[i].event \in RejectedFor(o)
  <2> DEFINE R == RejectedFor(o)
             rowOf == [e \in R |-> CHOOSE j \in RowsNotSent : args.input[j].event = e]
  <2>1. \A e \in R : rowOf[e] \in RowsNotSent /\ args.input[rowOf[e]].event = e
    BY RejectedRows
  <2>2. rowOf \in [R -> RowsNotSent]
    BY <2>1
  <2> HIDE DEF R, rowOf
  <2>3. rowOf \in Injection(R, RowsNotSent)
    BY <2>1, <2>2 DEF Injection, IsInjective
  <2>4. /\ IsFiniteSet(RowsNotSent) /\ Cardinality(RowsNotSent) = payloadRejected
        /\ Cardinality(RowsNotSent) \in Nat /\ Cardinality(R) \in Nat
    BY <1>0, CountersFacts, RejectedFacts DEF StateInv, CountersInv, FailuresInv, R
  <2>5. Cardinality(R) = Cardinality(RowsNotSent)
    BY <1>2, <2>3, <2>4, FS_Injection DEF R
  <2>6. rowOf \in Surjection(R, RowsNotSent)
    BY <2>3, <2>4, <2>5, FS_Injection
  <2>7. i \in RowsNotSent
    BY <1>2 DEF RowsNotSent
  <2>8. PICK e \in R : rowOf[e] = i
    BY <2>6, <2>7 DEF Surjection
  <2> QED BY <2>1, <2>8 DEF R
<1> QED BY <1>1, <1>2

LEMMA ReportParts ==
    ASSUME NEW o, NEW version, evaluation = BuildReport(o, version)
    PROVE  /\ evaluation.counts = EvaluateRows(o, version)
           /\ evaluation.levels = LevelCounts(o)
           /\ evaluation.rates = Metrics(EvaluateRows(o, version))
           /\ evaluation.warnings = BuildWarnings(o, EvaluateRows(o, version))
           /\ evaluation.readiness = Readiness(EvaluateRows(o, version))
           /\ evaluation.rejected = RejectedFor(o)
           /\ evaluation.exclusionComplete = ExclusionComplete(o)
           /\ evaluation.options = o
BY DEF BuildReport

LEMMA ExclusionFollows == StateInv /\ ReportInv => ExclusionIsComplete
<1> SUFFICES ASSUME StateInv, ReportInv, Complete, NEW i \in 1 .. totalRead
             PROVE  /\ args.input[i].kind = "valid" =>
                          args.input[i].event \notin evaluation.rejected
                    /\ args.input[i].kind # "valid" /\ evaluation.exclusionComplete = TRUE =>
                          args.input[i].event \in evaluation.rejected
  BY DEF ExclusionIsComplete
<1>1. PICK o \in EvalArgs, version \in RuleVersions : evaluation = BuildReport(o, version)
  BY DEF ReportInv, Complete
<1>2. /\ evaluation.rejected = RejectedFor(o)
      /\ evaluation.exclusionComplete = ExclusionComplete(o)
  BY <1>1, ReportParts
<1>3. ExclusionComplete(o) = TRUE => payloadRejected <= Cardinality(RejectedFor(o))
  BY DEF ExclusionComplete
<1> QED BY <1>2, <1>3, ExclusionCounts
-----------------------------------------------------------------------------
(* Sums of counters are cardinalities of unions. *)
LEMMA Parts ==
    ASSUME NEW A, NEW B, IsFiniteSet(A \cup B), A \cap B = {}
    PROVE  /\ IsFiniteSet(A) /\ IsFiniteSet(B)
           /\ Cardinality(A) \in Nat /\ Cardinality(B) \in Nat
           /\ Cardinality(A \cup B) = Cardinality(A) + Cardinality(B)
<1>1. IsFiniteSet(A) /\ IsFiniteSet(B)
  <2>1. A \subseteq A \cup B /\ B \subseteq A \cup B
    OBVIOUS
  <2> QED BY <2>1, FS_Subset
<1>2. Cardinality(A) \in Nat /\ Cardinality(B) \in Nat
  BY <1>1, FS_CardinalityType
<1>3. Cardinality(A \cup B) = Cardinality(A) + Cardinality(B) - Cardinality({})
  BY <1>1, FS_Union
<1> QED BY <1>1, <1>2, <1>3, FS_EmptySet

Slots(o, S) ==
    {u \in S \X (1 .. Cardinality(Events)) : u[2] <= LevelCounts(o)[u[1]]}

InLevels(o, S) == {e \in Scored(o) : \E b \in S : e \in AtLevel(o, b)}

Bins == RiskLevels \X BOOLEAN

LevelsAddUp(o, S) == Cardinality(Slots(o, S)) = Cardinality(InLevels(o, S))

LEMMA AddBin ==
    ASSUME NEW o \in EvalArgs, NEW S \in SUBSET Bins, IsFiniteSet(S), LevelsAddUp(o, S),
           NEW b \in Bins, b \notin S
    PROVE  LevelsAddUp(o, S \cup {b}) /\ IsFiniteSet(S \cup {b})
<1> DEFINE k == Cardinality(AtLevel(o, b))
<1>1. /\ IsFiniteSet(Scored(o)) /\ Scored(o) \subseteq Events
      /\ AtLevel(o, b) \subseteq Scored(o)
  BY LabelsSplit DEF AtLevel
<1>2. k \in Nat /\ k <= Cardinality(Events) /\ Cardinality(Events) \in Nat
  BY <1>1, FS_Subset, FS_CardinalityType
<1>3. LevelCounts(o)[b] = k
  BY DEF LevelCounts, Bins
<1> HIDE DEF k
<1>4. Slots(o, S \cup {b}) = Slots(o, S) \cup ({b} \X (1 .. k))
  <2>1. ASSUME NEW u, u \in Slots(o, S \cup {b}) PROVE u \in Slots(o, S) \cup ({b} \X (1 .. k))
    <3>1. CASE u[1] = b
      <4>1. u \in {b} \X (1 .. Cardinality(Events)) /\ u[2] <= k
        BY <1>3, <2>1, <3>1 DEF Slots
      <4> QED BY <1>2, <4>1
    <3>2. CASE u[1] # b
      BY <2>1, <3>2 DEF Slots
    <3> QED BY <3>1, <3>2
  <2>2. ASSUME NEW u, u \in {b} \X (1 .. k) PROVE u \in Slots(o, S \cup {b})
    <3>1. u[1] = b /\ u \in (S \cup {b}) \X (1 .. Cardinality(Events)) /\ u[2] <= k
      BY <1>2, <2>2
    <3> QED BY <1>3, <3>1 DEF Slots
  <2>3. Slots(o, S) \subseteq Slots(o, S \cup {b})
    BY DEF Slots
  <2> QED BY <2>1, <2>2, <2>3
<1>5. Slots(o, S) \cap ({b} \X (1 .. k)) = {}
  BY DEF Slots
<1>6. IsFiniteSet(S \cup {b})
  BY FS_AddElement
<1>7. IsFiniteSet(Slots(o, S \cup {b}))
  <2>1. IsFiniteSet(1 .. Cardinality(Events))
    BY <1>2, FS_Interval
  <2>2. IsFiniteSet((S \cup {b}) \X (1 .. Cardinality(Events)))
    BY <1>6, <2>1, FS_Product
  <2> QED BY <2>2, FS_Subset DEF Slots
<1>8. Cardinality({b} \X (1 .. k)) = k
  <2>1. IsFiniteSet(1 .. k) /\ Cardinality(1 .. k) = k
    BY <1>2, FS_Interval
  <2>2. IsFiniteSet({b}) /\ Cardinality({b}) = 1
    BY FS_Singleton
  <2>3. Cardinality({b} \X (1 .. k)) = Cardinality({b}) * Cardinality(1 .. k)
    BY <2>1, <2>2, FS_Product
  <2> QED BY <1>2, <2>1, <2>2, <2>3
<1>9. InLevels(o, S \cup {b}) = InLevels(o, S) \cup AtLevel(o, b)
  BY <1>1 DEF InLevels
<1>10. InLevels(o, S) \cap AtLevel(o, b) = {}
  <2>1. ASSUME NEW c \in S, NEW e, e \in AtLevel(o, b), e \in AtLevel(o, c) PROVE FALSE
    <3>1. c[1] = b[1] /\ (c[2] = TRUE <=> b[2] = TRUE) /\ c \in Bins
      BY <2>1 DEF AtLevel
    <3>2. c[2] = b[2]
      <4>1. c[2] \in BOOLEAN /\ b[2] \in BOOLEAN
        BY <3>1 DEF Bins
      <4> QED BY <3>1, <4>1
    <3>3. c = <<c[1], c[2]>> /\ b = <<b[1], b[2]>>
      BY <3>1 DEF Bins
    <3> QED BY <3>1, <3>2, <3>3
  <2> QED BY <2>1 DEF InLevels
<1>11. IsFiniteSet(InLevels(o, S \cup {b}))
  BY <1>1, FS_Subset DEF InLevels
<1>12. Cardinality(Slots(o, S \cup {b})) = Cardinality(Slots(o, S)) + k
  <2> DEFINE A == Slots(o, S)
             B == {b} \X (1 .. k)
  <2>1. IsFiniteSet(A \cup B) /\ A \cap B = {}
    BY <1>4, <1>5, <1>7
  <2> HIDE DEF A, B
  <2>2. Cardinality(A \cup B) = Cardinality(A) + Cardinality(B)
    BY <2>1, Parts
  <2> QED BY <1>4, <1>8, <2>2 DEF A, B
<1>13. Cardinality(InLevels(o, S \cup {b})) = Cardinality(InLevels(o, S)) + k
  <2> DEFINE A == InLevels(o, S)
             B == AtLevel(o, b)
  <2>1. IsFiniteSet(A \cup B) /\ A \cap B = {}
    BY <1>9, <1>10, <1>11
  <2> HIDE DEF A, B
  <2>2. Cardinality(A \cup B) = Cardinality(A) + Cardinality(B)
    BY <2>1, Parts
  <2> QED BY <1>9, <2>2 DEF A, B, k
<1> QED BY <1>6, <1>12, <1>13 DEF LevelsAddUp

(* The counts by level add up to the results they count: level by level,   *)
(* for the fraud levels, and then for the others.                          *)
LEMMA LevelsCountScored ==
    ASSUME NEW o \in EvalArgs
    PROVE  LET fraudLevels == {<<l, TRUE>> : l \in RiskLevels} IN
           /\ Cardinality(Slots(o, Bins)) = Cardinality(Scored(o))
           /\ Cardinality(Slots(o, fraudLevels)) = Cardinality(Scored(o) \cap Fraud)
<1> DEFINE good(S) == S \in SUBSET Bins /\ IsFiniteSet(S) /\ LevelsAddUp(o, S)
           fraudLevels == {<<l, TRUE>> : l \in RiskLevels}
<1>1. RiskLevels = {"LOW", "MEDIUM", "HIGH", "CRITICAL"}
  BY DEF RiskLevels, RiskRank
<1>2. good({})
  <2>1. Slots(o, {}) = {} /\ InLevels(o, {}) = {}
    BY DEF Slots, InLevels
  <2> QED BY <2>1, FS_EmptySet DEF LevelsAddUp
<1>3. ASSUME NEW S, good(S), NEW b \in Bins, b \notin S PROVE good(S \cup {b})
  BY <1>3, AddBin
<1> HIDE DEF good
<1>4. \A l \in RiskLevels, f \in BOOLEAN : <<l, f>> \in Bins
  BY DEF Bins
<1>5. good({<<"LOW", TRUE>>})
  <2>1. {} \cup {<<"LOW", TRUE>>} = {<<"LOW", TRUE>>}
    OBVIOUS
  <2>2. good({} \cup {<<"LOW", TRUE>>})
    BY <1>1, <1>2, <1>3, <1>4
  <2> QED BY <2>1, <2>2
<1> DEFINE bins1 == {<<"LOW", TRUE>>}
           bins2 == bins1 \cup {<<"MEDIUM", TRUE>>}
           bins3 == bins2 \cup {<<"HIGH", TRUE>>}
           bins4 == bins3 \cup {<<"CRITICAL", TRUE>>}
           bins5 == bins4 \cup {<<"LOW", FALSE>>}
           bins6 == bins5 \cup {<<"MEDIUM", FALSE>>}
           bins7 == bins6 \cup {<<"HIGH", FALSE>>}
           bins8 == bins7 \cup {<<"CRITICAL", FALSE>>}
<1>6. good(bins2)
  BY <1>1, <1>3, <1>4, <1>5
<1>7. good(bins3)
  BY <1>1, <1>3, <1>4, <1>6
<1>8. good(bins4)
  BY <1>1, <1>3, <1>4, <1>7
<1>9. good(bins5)
  BY <1>1, <1>3, <1>4, <1>8
<1>10. good(bins6)
  BY <1>1, <1>3, <1>4, <1>9
<1>11. good(bins7)
  BY <1>1, <1>3, <1>4, <1>10
<1>12. good(bins8)
  BY <1>1, <1>3, <1>4, <1>11
<1>13. bins4 = fraudLevels
  BY <1>1
<1>14. bins8 = Bins
  <2>1. ASSUME NEW b \in Bins PROVE b \in bins8
    <3>1. PICK l \in RiskLevels, f \in BOOLEAN : b = <<l, f>>
      BY DEF Bins
    <3>2. CASE f = TRUE
      BY <1>1, <3>1, <3>2
    <3>3. CASE f = FALSE
      BY <1>1, <3>1, <3>3
    <3> QED BY <3>2, <3>3
  <2> QED BY <1>12, <2>1 DEF good
<1> HIDE DEF bins1, bins2, bins3, bins4, bins5, bins6, bins7, bins8
<1>15. LevelsAddUp(o, fraudLevels) /\ LevelsAddUp(o, Bins)
  BY <1>8, <1>12, <1>13, <1>14 DEF good
<1>16. \A e \in Scored(o) : RiskLevel(ScoreOf(e, EventIdPrefix(o))) \in RiskLevels
  BY <1>1 DEF RiskLevel
<1>17. ASSUME NEW e \in Scored(o) PROVE e \in InLevels(o, Bins)
  <2> DEFINE l == RiskLevel(ScoreOf(e, EventIdPrefix(o)))
  <2>1. CASE e \in Fraud
    <3>1. e \in AtLevel(o, <<l, TRUE>>) /\ <<l, TRUE>> \in Bins
      BY <1>4, <1>16, <2>1 DEF AtLevel
    <3> QED BY <3>1 DEF InLevels
  <2>2. CASE e \notin Fraud
    <3>1. e \in AtLevel(o, <<l, FALSE>>) /\ <<l, FALSE>> \in Bins
      BY <1>4, <1>16, <2>2 DEF AtLevel
    <3> QED BY <3>1 DEF InLevels
  <2> QED BY <2>1, <2>2
<1>18. InLevels(o, Bins) = Scored(o)
  BY <1>17 DEF InLevels
<1>19. ASSUME NEW e \in Scored(o) PROVE e \in InLevels(o, fraudLevels) <=> e \in Fraud
  <2> DEFINE l == RiskLevel(ScoreOf(e, EventIdPrefix(o)))
  <2>1. CASE e \in Fraud
    <3>1. e \in AtLevel(o, <<l, TRUE>>) /\ <<l, TRUE>> \in fraudLevels
      BY <1>16, <2>1 DEF AtLevel
    <3> QED BY <2>1, <3>1 DEF InLevels
  <2>2. CASE e \notin Fraud
    <3>1. ASSUME NEW b \in fraudLevels PROVE e \notin AtLevel(o, b)
      <4>1. PICK k \in RiskLevels : b = <<k, TRUE>>
        OBVIOUS
      <4> QED BY <2>2, <4>1 DEF AtLevel
    <3> QED BY <2>2, <3>1 DEF InLevels
  <2> QED BY <2>1, <2>2
<1>20. InLevels(o, fraudLevels) = Scored(o) \cap Fraud
  BY <1>19 DEF InLevels
<1> QED BY <1>15, <1>18, <1>20 DEF LevelsAddUp
-----------------------------------------------------------------------------
(* A set is counted by what is in another one and what is not. *)
LEMMA Within ==
    ASSUME NEW S, NEW T, IsFiniteSet(S)
    PROVE  /\ Cardinality(S \cap T) \in Nat /\ Cardinality(S \ T) \in Nat
           /\ IsFiniteSet(S \cap T) /\ IsFiniteSet(S \ T)
           /\ Cardinality(S) \in Nat
           /\ Cardinality(S) = Cardinality(S \cap T) + Cardinality(S \ T)
<1> DEFINE A == S \cap T
           B == S \ T
<1>1. A \cup B = S /\ A \cap B = {}
  OBVIOUS
<1> HIDE DEF A, B
<1>2. /\ IsFiniteSet(A) /\ IsFiniteSet(B)
      /\ Cardinality(A) \in Nat /\ Cardinality(B) \in Nat
      /\ Cardinality(S) = Cardinality(A) + Cardinality(B)
  BY <1>1, Parts
<1> QED BY <1>2 DEF A, B

(* The labels split by what was rejected, missing, predicted and true. *)
LabelSets(L, R, scored, missing, counted, positive, negative, reviewed, blocked) ==
    /\ IsFiniteSet(L)
    /\ missing \cup scored = L \ R /\ missing \cap scored = {}
    /\ counted \subseteq missing
    /\ reviewed \cup blocked = positive /\ reviewed \cap blocked = {}
    /\ positive \subseteq scored
    /\ negative = (scored \ positive) \cup counted

LabelSums(L, R, scored, missing, counted, positive, negative, reviewed, blocked) ==
    /\ Cardinality(scored \cup counted) = Cardinality(scored) + Cardinality(counted)
    /\ Cardinality(scored \cup counted) =
          Cardinality(positive \cap Fraud) + Cardinality(positive \ Fraud)
             + Cardinality(negative \ Fraud) + Cardinality(negative \cap Fraud)
    /\ Cardinality(L) = Cardinality(scored) + Cardinality(missing) + Cardinality(L \cap R)
    /\ Cardinality(reviewed) + Cardinality(blocked)
          = Cardinality(positive \cap Fraud) + Cardinality(positive \ Fraud)
    /\ Cardinality(scored) = Cardinality(scored \ (blocked \cup reviewed))
                               + Cardinality(reviewed) + Cardinality(blocked)
    /\ Cardinality(scored \cap Fraud) + Cardinality(counted \cap Fraud)
          = Cardinality(positive \cap Fraud) + Cardinality(negative \cap Fraud)

LEMMA LabelCounts ==
    ASSUME NEW L, NEW R, NEW scored, NEW missing, NEW counted,
           NEW positive, NEW negative, NEW reviewed, NEW blocked,
           LabelSets(L, R, scored, missing, counted, positive, negative, reviewed, blocked)
    PROVE  LabelSums(L, R, scored, missing, counted, positive, negative, reviewed, blocked)
<1> USE DEF LabelSets, LabelSums
<1> DEFINE rest == scored \ positive
<1>1. /\ IsFiniteSet(scored) /\ IsFiniteSet(missing) /\ IsFiniteSet(counted)
      /\ IsFiniteSet(positive) /\ IsFiniteSet(rest) /\ IsFiniteSet(negative)
      /\ IsFiniteSet(missing \cup scored) /\ IsFiniteSet(rest \cup counted)
      /\ IsFiniteSet(scored \cup counted)
  <2>1. /\ scored \subseteq L /\ missing \subseteq L /\ counted \subseteq L
        /\ positive \subseteq L /\ rest \subseteq L /\ negative \subseteq L
        /\ missing \cup scored \subseteq L /\ scored \cup counted \subseteq L
    OBVIOUS
  <2> QED BY <2>1, FS_Subset
<1>2. /\ rest \cap counted = {} /\ scored \cap counted = {}
      /\ (rest \cap Fraud) \cap (counted \cap Fraud) = {}
      /\ (rest \cap Fraud) \cup (counted \cap Fraud) = negative \cap Fraud
      /\ scored \cap positive = positive
      /\ scored \ (blocked \cup reviewed) = rest
      /\ (scored \cap Fraud) \cap positive = positive \cap Fraud
      /\ (scored \cap Fraud) \ positive = rest \cap Fraud
  OBVIOUS
<1>3. /\ Cardinality(scored \cup counted) = Cardinality(scored) + Cardinality(counted)
      /\ Cardinality(negative) = Cardinality(rest) + Cardinality(counted)
      /\ Cardinality(missing \cup scored) = Cardinality(missing) + Cardinality(scored)
      /\ Cardinality(positive) = Cardinality(reviewed) + Cardinality(blocked)
      /\ Cardinality(counted) \in Nat
      /\ Cardinality(missing) \in Nat
      /\ Cardinality(reviewed) \in Nat /\ Cardinality(blocked) \in Nat
  <2>1. Cardinality(negative) = Cardinality(rest \cup counted)
    BY Zenon
  <2>2. Cardinality(positive) = Cardinality(reviewed \cup blocked)
    BY Zenon
  <2>3. IsFiniteSet(reviewed \cup blocked)
    BY <1>1, Zenon
  <2> HIDE DEF rest
  <2>4. /\ Cardinality(scored \cup counted) = Cardinality(scored) + Cardinality(counted)
        /\ Cardinality(counted) \in Nat
    BY <1>1, <1>2, Parts
  <2>5. Cardinality(rest \cup counted) = Cardinality(rest) + Cardinality(counted)
    BY <1>1, <1>2, Parts
  <2>6. /\ Cardinality(missing \cup scored) = Cardinality(missing) + Cardinality(scored)
        /\ Cardinality(missing) \in Nat
    BY <1>1, Parts
  <2>7. /\ Cardinality(reviewed \cup blocked) = Cardinality(reviewed) + Cardinality(blocked)
        /\ Cardinality(reviewed) \in Nat /\ Cardinality(blocked) \in Nat
    BY <2>3, Parts
  <2> QED BY <2>1, <2>2, <2>4, <2>5, <2>6, <2>7
<1>4. /\ Cardinality(scored) = Cardinality(positive) + Cardinality(rest)
      /\ Cardinality(positive) = Cardinality(positive \cap Fraud) + Cardinality(positive \ Fraud)
      /\ Cardinality(negative) = Cardinality(negative \cap Fraud) + Cardinality(negative \ Fraud)
      /\ Cardinality(L) = Cardinality(L \cap R) + Cardinality(L \ R)
      /\ Cardinality(scored) \in Nat /\ Cardinality(positive) \in Nat
      /\ Cardinality(rest) \in Nat /\ Cardinality(negative) \in Nat
      /\ Cardinality(positive \cap Fraud) \in Nat /\ Cardinality(positive \ Fraud) \in Nat
      /\ Cardinality(negative \cap Fraud) \in Nat /\ Cardinality(negative \ Fraud) \in Nat
      /\ Cardinality(L \cap R) \in Nat
  <2>1. /\ Cardinality(scored) = Cardinality(scored \cap positive) + Cardinality(rest)
        /\ Cardinality(scored) \in Nat /\ Cardinality(rest) \in Nat
    BY <1>1, Within
  <2>2. Cardinality(scored \cap positive) = Cardinality(positive)
    BY <1>2, Zenon
  <2> HIDE DEF rest
  <2>3. /\ Cardinality(positive) = Cardinality(positive \cap Fraud) + Cardinality(positive \ Fraud)
        /\ Cardinality(positive) \in Nat
        /\ Cardinality(positive \cap Fraud) \in Nat /\ Cardinality(positive \ Fraud) \in Nat
    BY <1>1, Within
  <2>4. /\ Cardinality(negative) = Cardinality(negative \cap Fraud) + Cardinality(negative \ Fraud)
        /\ Cardinality(negative) \in Nat
        /\ Cardinality(negative \cap Fraud) \in Nat /\ Cardinality(negative \ Fraud) \in Nat
    BY <1>1, Within
  <2>5. /\ Cardinality(L) = Cardinality(L \cap R) + Cardinality(L \ R)
        /\ Cardinality(L \cap R) \in Nat
    BY Within
  <2> QED BY <2>1, <2>2, <2>3, <2>4, <2>5
<1>5. /\ Cardinality(scored \cap Fraud)
            = Cardinality(positive \cap Fraud) + Cardinality(rest \cap Fraud)
      /\ Cardinality(negative \cap Fraud)
            = Cardinality(rest \cap Fraud) + Cardinality(counted \cap Fraud)
      /\ Cardinality(rest \cap Fraud) \in Nat /\ Cardinality(counted \cap Fraud) \in Nat
  <2> DEFINE A == rest \cap Fraud
             B == counted \cap Fraud
             T == scored \cap Fraud
  <2>1. /\ IsFiniteSet(T) /\ IsFiniteSet(negative \cap Fraud)
    BY <1>1, Within
  <2>2. A \cap B = {} /\ A \cup B = negative \cap Fraud
    BY <1>2
  <2>3. T \cap positive = positive \cap Fraud /\ T \ positive = A
    BY <1>2
  <2> HIDE DEF A, B, T
  <2>4. Cardinality(T) = Cardinality(T \cap positive) + Cardinality(T \ positive)
    BY <2>1, Within
  <2>5. /\ IsFiniteSet(A \cup B)
        /\ Cardinality(negative \cap Fraud) = Cardinality(A \cup B)
        /\ Cardinality(T) = Cardinality(positive \cap Fraud) + Cardinality(A)
    BY <2>1, <2>2, <2>3, <2>4, Zenon
  <2>6. /\ Cardinality(A \cup B) = Cardinality(A) + Cardinality(B)
        /\ Cardinality(A) \in Nat /\ Cardinality(B) \in Nat
    BY <2>2, <2>5, Parts
  <2> QED BY <2>5, <2>6 DEF A, B, T
<1>6. Cardinality(L) = Cardinality(scored) + Cardinality(missing) + Cardinality(L \cap R)
  <2>1. Cardinality(missing \cup scored) = Cardinality(L \ R)
    BY Zenon
  <2> QED BY <1>3, <1>4, <2>1
<1>7. Cardinality(scored) = Cardinality(scored \ (blocked \cup reviewed))
                               + Cardinality(reviewed) + Cardinality(blocked)
  <2>1. Cardinality(scored \ (blocked \cup reviewed)) = Cardinality(rest)
    BY <1>2, Zenon
  <2> HIDE DEF rest
  <2> QED BY <1>3, <1>4, <2>1
<1> HIDE DEF rest
<1>8. /\ Cardinality(scored \cup counted) = Cardinality(scored) + Cardinality(counted)
      /\ Cardinality(scored \cup counted) =
            Cardinality(positive \cap Fraud) + Cardinality(positive \ Fraud)
               + Cardinality(negative \ Fraud) + Cardinality(negative \cap Fraud)
      /\ Cardinality(reviewed) + Cardinality(blocked)
            = Cardinality(positive \cap Fraud) + Cardinality(positive \ Fraud)
      /\ Cardinality(scored \cap Fraud) + Cardinality(counted \cap Fraud)
            = Cardinality(positive \cap Fraud) + Cardinality(negative \cap Fraud)
  BY <1>3, <1>4, <1>5
<1> QED BY <1>6, <1>7, <1>8 DEF rest

(* The F1 score is twice the true positives by all that was or should have *)
(* been found.                                                             *)
LEMMA F1Facts ==
    ASSUME NEW tp \in Nat, NEW fp \in Nat, NEW fn \in Nat
    PROVE  LET f1 == F1(Ratio(tp, tp + fp), Ratio(tp, tp + fn)) IN
           /\ f1 = None <=> tp = 0
           /\ f1 # None => f1[1] * (2 * tp + fp + fn) = f1[2] * 2 * tp
<1> DEFINE f1 == F1(Ratio(tp, tp + fp), Ratio(tp, tp + fn))
           d == tp * (tp + fn) + tp * (tp + fp)
           x == 2 * tp + fp + fn
<1>0. \A a, b \in Nat : <<a, b>> # None
  OBVIOUS
<1>1. d \in Nat /\ 2 * tp * tp \in Nat /\ x \in Nat /\ d = tp * x
  OBVIOUS
<1>2. CASE tp = 0
  <2>1. d = 0 /\ 2 * tp * tp = 0
    BY <1>2
  <2>2. f1 = None
    <3>1. CASE Ratio(tp, tp + fp) = None \/ Ratio(tp, tp + fn) = None
      BY <3>1 DEF F1
    <3>2. CASE Ratio(tp, tp + fp) # None /\ Ratio(tp, tp + fn) # None
      <4>1. Ratio(tp, tp + fp) = <<tp, tp + fp>> /\ Ratio(tp, tp + fn) = <<tp, tp + fn>>
        BY <3>2 DEF Ratio
      <4>2. f1 = Ratio(2 * tp * tp, d)
        BY <3>2, <4>1 DEF F1
      <4> HIDE DEF f1, d
      <4> QED BY <2>1, <4>2 DEF Ratio
    <3> QED BY <3>1, <3>2
  <2> QED BY <1>2, <2>2
<1>3. CASE tp > 0
  <2>1. Ratio(tp, tp + fp) = <<tp, tp + fp>> /\ Ratio(tp, tp + fn) = <<tp, tp + fn>>
    BY <1>3 DEF Ratio
  <2>2. f1 = Ratio(2 * tp * tp, d)
    BY <1>0, <2>1 DEF F1
  <2>3. d > 0
    BY <1>1, <1>3
  <2> HIDE DEF f1, d, x
  <2>4. f1 = <<2 * tp * tp, d>>
    BY <2>2, <2>3 DEF Ratio
  <2>5. f1 # None /\ f1[1] = 2 * tp * tp /\ f1[2] = d
    BY <1>0, <1>1, <2>4
  <2>6. (2 * tp * tp) * x = (tp * x) * 2 * tp
    BY <1>1
  <2>7. f1[1] * x = f1[2] * 2 * tp
    BY <1>1, <2>5, <2>6
  <2> QED BY <1>3, <2>5, <2>7 DEF f1, x
<1> QED BY <1>2, <1>3
-----------------------------------------------------------------------------
LEMMA MatrixFollows == StateInv /\ ReportInv => MatrixAddsUp
<1> SUFFICES ASSUME StateInv, ReportInv, Complete PROVE MatrixAddsUp
  BY DEF MatrixAddsUp
<1>1. PICK o \in EvalArgs, version \in RuleVersions : evaluation = BuildReport(o, version)
  BY DEF ReportInv, Complete
<1> DEFINE n == EvaluateRows(o, version)
           f1 == Metrics(n).f1Score
           fraudLevels == {<<l, TRUE>> : l \in RiskLevels}
           ofLevels(S) == Cardinality({u \in S \X (1 .. Cardinality(Events)) :
                                          u[2] <= evaluation.levels[u[1]]})
<1>2. /\ evaluation.counts = n /\ evaluation.levels = LevelCounts(o)
      /\ evaluation.rates.f1Score = f1 /\ evaluation.options = o
  BY <1>1, ReportParts
<1>3. n \in [Counters -> Nat] /\ CountersCount(n, o, version)
  BY CountersTyped, CountersOf
<1>4. /\ n.truePositive \in Nat /\ n.falsePositive \in Nat
      /\ n.trueNegative \in Nat /\ n.falseNegative \in Nat
      /\ n.evaluatedEvents \in Nat /\ n.excludedReplayRejected \in Nat
      /\ n.missingResults \in Nat /\ n.missingFraudLabels \in Nat
      /\ n.ALLOW \in Nat /\ n.REVIEW \in Nat /\ n.BLOCK \in Nat
      /\ n.withRiskScore \in Nat /\ n.withoutRiskScore \in Nat
      /\ n.withRuleVersion \in Nat /\ n.withoutRuleVersion \in Nat
  BY <1>3 DEF Counters
<1>5. f1 = F1(Ratio(n.truePositive, n.truePositive + n.falsePositive),
              Ratio(n.truePositive, n.truePositive + n.falseNegative))
  BY DEF Metrics
<1> HIDE DEF n, f1
<1>6. TypeOK /\ o.includeMissing \in BOOLEAN /\ IsFiniteSet(o.labels)
  BY EvalArgsFacts DEF StateInv
<1>7. /\ Missing(o) \cup Scored(o) = o.labels \ RejectedFor(o)
      /\ Missing(o) \cap Scored(o) = {} /\ MissingCounted(o) \subseteq Missing(o)
      /\ MissingCounted(o) = IF o.includeMissing THEN Missing(o) ELSE {}
      /\ IsFiniteSet(Scored(o))
  BY LabelsSplit
<1>8. /\ Reviewed(o) \cup Blocked(o) = Positive(o) /\ Reviewed(o) \cap Blocked(o) = {}
      /\ Positive(o) \subseteq Scored(o)
  BY <1>6, DecisionsSplit
<1>9. /\ Cardinality(Scored(o) \cup MissingCounted(o))
            = Cardinality(Scored(o)) + Cardinality(MissingCounted(o))
      /\ Cardinality(Scored(o) \cup MissingCounted(o)) =
            n.truePositive + n.falsePositive + n.trueNegative + n.falseNegative
      /\ Cardinality(o.labels) = Cardinality(Scored(o)) + n.missingResults
                                    + n.excludedReplayRejected
      /\ n.REVIEW + n.BLOCK = n.truePositive + n.falsePositive
      /\ Cardinality(Scored(o)) = n.ALLOW + n.REVIEW + n.BLOCK
      /\ Cardinality(Scored(o) \cap Fraud) + Cardinality(MissingCounted(o) \cap Fraud)
            = n.truePositive + n.falseNegative
  <2> DEFINE S == Scored(o)
             M == Missing(o)
             C == MissingCounted(o)
             P == Positive(o)
             V == Reviewed(o)
             B == Blocked(o)
             N == Negative(o)
             L == o.labels
             R == RejectedFor(o)
  <2>1. LabelSets(L, R, S, M, C, P, N, V, B)
    BY <1>6, <1>7, <1>8 DEF LabelSets, Negative
  <2>3. /\ n.evaluatedEvents = Cardinality(S \cup C)
        /\ n.missingResults = Cardinality(M)
        /\ n.excludedReplayRejected = Cardinality(L \cap R)
        /\ n.REVIEW = Cardinality(V) /\ n.BLOCK = Cardinality(B)
        /\ n.ALLOW = Cardinality(S \ (B \cup V))
        /\ n.truePositive = Cardinality(P \cap Fraud)
        /\ n.falsePositive = Cardinality(P \ Fraud)
        /\ n.trueNegative = Cardinality(N \ Fraud)
        /\ n.falseNegative = Cardinality(N \cap Fraud)
    BY <1>3 DEF CountersCount
  <2> HIDE DEF S, M, C, P, V, B, N, L, R
  <2>2. LabelSums(L, R, S, M, C, P, N, V, B)
    BY <2>1, LabelCounts
  <2> QED BY <2>2, <2>3 DEF LabelSums, S, C, L
<1>10. /\ Cardinality(Scored(o)) = n.withRiskScore + n.withoutRiskScore
       /\ Cardinality(Scored(o)) = n.withRuleVersion + n.withoutRuleVersion
  <2>1. Scored(o) \cap Versioned(o, version) = Versioned(o, version)
    BY DEF Versioned
  <2>2. Cardinality(Scored(o)) = Cardinality(Versioned(o, version))
                                   + Cardinality(Scored(o) \ Versioned(o, version))
    <3>1. Cardinality(Scored(o)) = Cardinality(Scored(o) \cap Versioned(o, version))
                                     + Cardinality(Scored(o) \ Versioned(o, version))
      BY <1>7, Within
    <3>2. Cardinality(Scored(o) \cap Versioned(o, version)) = Cardinality(Versioned(o, version))
      BY <2>1, Zenon
    <3> QED BY <3>1, <3>2
  <2>3. Cardinality(Scored(o)) = Cardinality(Scored(o) \cap WithoutScore)
                                   + Cardinality(Scored(o) \ WithoutScore)
    BY <1>7, Within
  <2> QED BY <1>3, <1>4, <2>2, <2>3 DEF CountersCount
<1>11. /\ Cardinality(MissingCounted(o)) = IF o.includeMissing THEN n.missingResults ELSE 0
       /\ Cardinality(MissingCounted(o) \cap Fraud) =
             IF o.includeMissing THEN n.missingFraudLabels ELSE 0
  <2>1. CASE o.includeMissing
    BY <1>3, <1>7, <2>1 DEF CountersCount
  <2>2. CASE ~o.includeMissing
    <3>1. MissingCounted(o) = {} /\ {} \cap Fraud = {}
      BY <1>7, <2>2
    <3> QED BY <2>2, <3>1, FS_EmptySet
  <2> QED BY <2>1, <2>2
<1>12. /\ ofLevels(RiskLevels \X BOOLEAN) = Cardinality(Scored(o))
       /\ ofLevels(fraudLevels) = Cardinality(Scored(o) \cap Fraud)
  <2>1. /\ Cardinality(Slots(o, Bins)) = Cardinality(Scored(o))
        /\ Cardinality(Slots(o, fraudLevels)) = Cardinality(Scored(o) \cap Fraud)
    BY LevelsCountScored
  <2>2. \A S : ofLevels(S) = Cardinality(Slots(o, S))
    BY <1>2 DEF Slots
  <2> HIDE DEF ofLevels, fraudLevels
  <2> QED BY <2>1, <2>2 DEF Bins
<1> HIDE DEF ofLevels, fraudLevels
<1>13. /\ n.evaluatedEvents = n.truePositive + n.falsePositive
                                 + n.trueNegative + n.falseNegative
       /\ n.evaluatedEvents = Cardinality(Scored(o)) + Cardinality(MissingCounted(o))
  BY <1>3, <1>9 DEF CountersCount
<1>14. /\ f1 = None <=> n.truePositive = 0
       /\ f1 # None => f1[1] * (2 * n.truePositive + n.falsePositive + n.falseNegative)
                           = f1[2] * 2 * n.truePositive
  BY <1>4, <1>5, F1Facts
<1>15. Cardinality(o.labels) = n.evaluatedEvents + n.excludedReplayRejected
                                  + (IF o.includeMissing THEN 0 ELSE n.missingResults)
  <2>1. CASE o.includeMissing
    BY <1>4, <1>9, <1>11, <1>13, <2>1
  <2>2. CASE ~o.includeMissing
    BY <1>4, <1>9, <1>11, <1>13, <2>2
  <2> QED BY <2>1, <2>2
<1>16. n.evaluatedEvents = n.ALLOW + n.REVIEW + n.BLOCK
                              + (IF o.includeMissing THEN n.missingResults ELSE 0)
  BY <1>9, <1>11, <1>13
<1>17. ofLevels(fraudLevels) + (IF o.includeMissing THEN n.missingFraudLabels ELSE 0)
          = n.truePositive + n.falseNegative
  BY <1>9, <1>11, <1>12
<1> QED BY <1>2, <1>9, <1>10, <1>12, <1>13, <1>14, <1>15, <1>16, <1>17
        DEF MatrixAddsUp, ofLevels, fraudLevels

LEMMA QuietFollows == StateInv /\ ReportInv => QuietReportIsComplete
<1> SUFFICES ASSUME StateInv, ReportInv, Complete,
                    evaluation.warnings \cap Reservations = {}
             PROVE  QuietReportIsComplete
  BY DEF QuietReportIsComplete
<1>1. PICK o \in EvalArgs, version \in RuleVersions : evaluation = BuildReport(o, version)
  BY DEF ReportInv, Complete
<1> DEFINE n == EvaluateRows(o, version)
           decided == o.labels \ evaluation.rejected
<1>2. /\ evaluation.counts = n /\ evaluation.options = o
      /\ evaluation.warnings = BuildWarnings(o, n)
      /\ evaluation.readiness = Readiness(n)
      /\ evaluation.rejected = RejectedFor(o)
      /\ evaluation.exclusionComplete = ExclusionComplete(o)
  BY <1>1, ReportParts
<1>3. n \in [Counters -> Nat] /\ CountersCount(n, o, version)
  BY CountersTyped, CountersOf
<1> HIDE DEF n
<1>4. /\ n.missingResults \in Nat /\ n.withoutRiskScore \in Nat
      /\ n.withRuleVersion \in Nat /\ n.withoutRuleVersion \in Nat
      /\ n.matchedResults \in Nat /\ n.unmatchedResults \in Nat
  BY <1>3 DEF Counters
<1>5. \A w \in Reservations : ~Raised(o, n)[w]
  BY <1>2 DEF BuildWarnings, Warnings, Reservations
<1>6. /\ o.report => ~(payloadRejected > Cardinality(RejectedFor(o)))
      /\ n.missingResults = 0 /\ n.withoutRiskScore = 0 /\ n.withoutRuleVersion = 0
      /\ Exported = {} \/ n.matchedResults # 0
      /\ ~(n.matchedResults > 0 /\ n.unmatchedResults > 0)
  <2>1. /\ ~(o.report /\ payloadRejected > Cardinality(RejectedFor(o)))
        /\ ~(n.missingResults > 0 /\ o.includeMissing)
        /\ ~(n.missingResults > 0 /\ ~o.includeMissing)
        /\ ~(Exported # {} /\ n.matchedResults = 0)
        /\ ~(n.matchedResults > 0 /\ n.unmatchedResults > 0)
        /\ ~(n.withoutRiskScore > 0) /\ ~(n.withoutRuleVersion > 0)
    BY <1>5 DEF Raised, Reservations
  <2> QED BY <1>4, <2>1
<1>7. Missing(o) = {}
  <2>1. IsFiniteSet(Missing(o)) /\ Cardinality(Missing(o)) = 0
    BY <1>3, <1>6, LabelsSplit DEF CountersCount
  <2> QED BY <2>1, FS_EmptySet
<1>8. Scored(o) = decided /\ Scored(o) \cup MissingCounted(o) = decided
  BY <1>2, <1>7, LabelsSplit
<1>9. n.evaluatedEvents = Cardinality(decided)
  BY <1>3, <1>8 DEF CountersCount
<1>10. n.withRiskScore = Cardinality(decided) /\ n.withRuleVersion = Cardinality(decided)
  <2>1. IsFiniteSet(Scored(o)) /\ IsFiniteSet(Scored(o) \ Versioned(o, version))
    BY LabelsSplit, Within
  <2>2. Scored(o) \cap WithoutScore = {} /\ Scored(o) \ Versioned(o, version) = {}
    <3>1. /\ IsFiniteSet(Scored(o) \cap WithoutScore)
          /\ Cardinality(Scored(o) \cap WithoutScore) = 0
          /\ Cardinality(Scored(o) \ Versioned(o, version)) = 0
      BY <1>3, <1>6, <2>1, Within DEF CountersCount
    <3> QED BY <2>1, <3>1, FS_EmptySet
  <2>3. Scored(o) \ WithoutScore = decided /\ Versioned(o, version) = decided
    BY <1>8, <2>2 DEF Versioned
  <2> QED BY <1>3, <2>3 DEF CountersCount
<1>11. n.unmatchedResults = 0
  <2>1. CASE n.matchedResults > 0
    BY <1>4, <1>6, <2>1
  <2>2. CASE n.matchedResults = 0
    <3>1. Cardinality(Exported) = 0
      BY <1>6, <2>2, FS_EmptySet
    <3> QED BY <1>3, <2>2, <3>1 DEF CountersCount
  <2> QED BY <1>4, <2>1, <2>2
<1>12. evaluation.readiness = "contract_level_only" => decided = {}
  <2>1. IsFiniteSet(decided)
    BY <1>8, LabelsSplit
  <2>2. Readiness(n) = "contract_level_only" => n.withRuleVersion = 0
    BY <1>4 DEF Readiness
  <2> QED BY <1>2, <1>10, <2>1, <2>2, FS_EmptySet
<1>13. ASSUME o.report /\ o.excludeRejected
       PROVE  /\ evaluation.exclusionComplete = TRUE
              /\ \A i \in 1 .. totalRead : args.input[i].kind # "valid" =>
                    args.input[i].event \in evaluation.rejected
  <2>1. payloadRejected <= Cardinality(RejectedFor(o))
    BY <1>6, <1>13, CountersFacts, RejectedFacts DEF StateInv
  <2>2. ExclusionComplete(o) = TRUE
    BY <1>13, <2>1 DEF ExclusionComplete
  <2> QED BY <1>2, <2>1, <2>2, ExclusionCounts
<1> HIDE DEF decided
<1> QED BY <1>2, <1>9, <1>10, <1>11, <1>12, <1>13 DEF QuietReportIsComplete, decided
-----------------------------------------------------------------------------
(* Together. *)
LEMMA ReplayInitially == EvalInit => StateInv /\ ReportInv
<1> SUFFICES ASSUME EvalInit PROVE StateInv /\ ReportInv
  OBVIOUS
<1>1. /\ args \in Args /\ phase = "read" /\ totalRead = 0 /\ attempt = 0
      /\ payloadAccepted = 0 /\ payloadRejected = 0
      /\ outcomes = [o \in Outcomes |-> 0]
      /\ retries = [o \in Outcomes |-> 0]
      /\ failures = {}
      /\ inFlight = [id \in Ids |-> 0]
      /\ receipt = [id \in Ids |-> IF SentEarlier(id) THEN "PUBLISHED" ELSE None]
      /\ copies = [id \in Ids |-> IF SentEarlier(id) THEN 1 ELSE 0]
      /\ lost = [id \in Ids |-> 0]
      /\ results = [id \in Ids |-> None]
      /\ faults = 0 /\ evaluation = None
  BY DEF EvalInit, Init
<1>2. /\ args.retryCount \in Nat /\ Len(args.input) \in Nat
      /\ IsFiniteSet({}) /\ Cardinality({}) = 0
      /\ None # "PUBLISHED"
  BY <1>1, ArgsFacts, FS_EmptySet
<1>3. TypeOK
  BY <1>1, <1>2 DEF TypeOK, Phases
<1>4. /\ Sum(outcomes) = 0 /\ outcomes["httpSuccess"] = 0
  BY <1>1 DEF Sum, Outcomes
<1>5. RowsNotSent = {}
  BY <1>1 DEF RowsNotSent
<1>6. CountersInv
  BY <1>1, <1>2, <1>4, <1>5 DEF CountersInv, SendInv, FailuresInv, ReportAddsUp, Listed
<1>7. ReceiptsInv /\ RetriesAcceptOnce
  BY <1>1, <1>2 DEF ReceiptsInv, RetriesAcceptOnce
<1>8. SuccessesArePublished
  <2>1. 0 <= Cardinality(Published)
    BY PublishedIsFinite
  <2> QED BY <1>4, <2>1 DEF SuccessesArePublished, Published
<1>9. Exported = {}
  BY <1>1 DEF Exported
<1> QED BY <1>1, <1>2, <1>3, <1>6, <1>7, <1>8, <1>9 DEF StateInv, ServerInv, ReportInv

LEMMA ReplayStep == StateInv /\ ReportInv /\ [EvalNext]_evalVars => StateInv' /\ ReportInv'
<1> SUFFICES ASSUME StateInv, ReportInv, [EvalNext]_evalVars PROVE StateInv' /\ ReportInv'
  OBVIOUS
<1>1. [Next]_vars
  BY DEF EvalNext, Evaluate, Replay, evalVars
<1>2. StateInv'
  BY <1>1, ReplayTypeInvariant, CountersStep, ServerStep DEF StateInv
<1>3. ReportInv'
  <2>1. CASE Evaluate
    <3>1. PICK o \in EvalArgs, version \in RuleVersions :
             evaluation' = IF Refuses(o, version) THEN Refused ELSE BuildReport(o, version)
      BY <2>1 DEF Evaluate
    <3>2. /\ BuildReport(o, version)' = BuildReport(o, version)
          /\ Refuses(o, version)' = Refuses(o, version)
      BY <2>1, SameReport DEF Evaluate
    <3> QED BY <3>1, <3>2 DEF ReportInv
  <2>2. CASE Replay
    BY <2>2 DEF Replay, ReportInv
  <2>3. CASE UNCHANGED evalVars
    <3>1. UNCHANGED vars /\ evaluation' = evaluation
      BY <2>3 DEF evalVars
    <3>2. CASE evaluation \in {Refused, None}
      BY <3>1, <3>2 DEF ReportInv
    <3>3. CASE evaluation \notin {Refused, None}
      <4>1. PICK o \in EvalArgs, version \in RuleVersions :
               evaluation = BuildReport(o, version) /\ ~Refuses(o, version)
        BY <3>3 DEF ReportInv
      <4>2. /\ BuildReport(o, version)' = BuildReport(o, version)
            /\ Refuses(o, version)' = Refuses(o, version)
        BY <3>1, SameReport
      <4> QED BY <3>1, <4>1, <4>2 DEF ReportInv
    <3> QED BY <3>2, <3>3
  <2> QED BY <2>1, <2>2, <2>3 DEF EvalNext
<1> QED BY <1>2, <1>3

LEMMA ReplayInductive == EvalSpec => [](StateInv /\ ReportInv)
BY ReplayInitially, ReplayStep, PTL DEF EvalSpec

(* The invariant TLC checks, with the types of the report: it follows from *)
(* what a state of the replay is and from the report being about it.       *)
THEOREM ReplayInvariantHolds == EvalSpec => []EvalInv
<1>1. StateInv /\ ReportInv => EvalInv
  <2> SUFFICES ASSUME StateInv, ReportInv PROVE EvalInv
    OBVIOUS
  <2>1. evaluation \in Reports \cup {Refused, None}
    BY ReportTyped DEF ReportInv
  <2> QED BY <2>1 DEF EvalInv, EvalTypeOK, ReplayInv, StateInv, CountersInv, ServerInv
<1> QED BY <1>1, ReplayInductive, PTL

(* The counters of the replay report account for every row, for inputs of  *)
(* any length and any number of retries (replay, send_with_retry,          *)
(* add_failure).                                                           *)
THEOREM ReportsAddUp == EvalSpec => []ReportAddsUp
<1>1. StateInv => ReportAddsUp
  BY DEF StateInv, CountersInv
<1> QED BY <1>1, ReplayInductive, PTL

(* However often a request is repeated or arrives late, an event is in the *)
(* topic once, and once more for each receipt that was rolled back         *)
(* (send_with_retry against accept).                                       *)
THEOREM RetriesNeverDuplicate == EvalSpec => []RetriesAcceptOnce
<1>1. StateInv => RetriesAcceptOnce
  BY DEF StateInv, ServerInv
<1> QED BY <1>1, ReplayInductive, PTL

(* The report counts no success that is not an event this replay published *)
(* (send_with_retry counts 202 alone, and accept gives it once per id).    *)
THEOREM SuccessesAreReal == EvalSpec => []SuccessesArePublished
<1>1. StateInv => SuccessesArePublished
  BY DEF StateInv, ServerInv
<1> QED BY <1>1, ReplayInductive, PTL

(* What the evaluation leaves out was rejected before it was sent, and if  *)
(* it says so, all of that is left out: the number of eventIds it found is *)
(* compared with payloadRejected, and every one of them is a row of its    *)
(* own (load_replay_rejected_event_ids, replayRejectedExclusionComplete).  *)
THEOREM ExclusionsAreComplete == EvalSpec => []ExclusionIsComplete
BY ExclusionFollows, ReplayInductive, PTL

(* The matrix, the decisions, the levels and the F1 score of every report  *)
(* fit together, whatever the labels, the scores and the policy            *)
(* (evaluate_rows, build_report, f1_score).                                *)
THEOREM MatricesAddUp == EvalSpec => []MatrixAddsUp
BY MatrixFollows, ReplayInductive, PTL

(* A report without a warning is about every label and every result        *)
(* (build_warnings).                                                       *)
THEOREM QuietReportsAreComplete == EvalSpec => []QuietReportIsComplete
BY QuietFollows, ReplayInductive, PTL
=============================================================================
