-------------------------- MODULE FraudRuleEngine --------------------------
(***************************************************************************)
(* FraudRuleEngine: which rules match a transaction and its recent window, *)
(* the capped risk score, the risk level and the decision.                 *)
(*                                                                         *)
(* Amounts are whole KRW.  A location stands for its trimmed upper-case    *)
(* form; "OTHER" is every other one, and a missing one.                    *)
(***************************************************************************)
EXTENDS Naturals

CONSTANTS
    RapidCount,   \* fraud.sliding-window.max-events
    WindowAmount  \* fraud.sliding-window.amount-threshold

ASSUME EngineAssumption ==
    /\ RapidCount \in Nat \ {0}
    /\ WindowAmount \in Nat

Messages == [amount: Nat, hour: 0 .. 23,
             location: {"UNKNOWN", "FOREIGN", "HIGH_RISK", "OTHER"}]

Windows == [status: {"NORMAL", "TOO_LATE", "REDIS_UNAVAILABLE"},
            count: Nat, sum: Nat]

IsDegraded(w) == w.status # "NORMAL"

StatelessRules == {"AMOUNT_THRESHOLD", "NIGHT_TIME_TRANSACTION", "SUSPICIOUS_LOCATION"}

StatefulRules == {"RAPID_TRANSACTION_COUNT", "WINDOW_AMOUNT_SUM"}

StatelessMatches(m) ==
    {r \in StatelessRules :
        \/ r = "AMOUNT_THRESHOLD" /\ m.amount >= 1000000
        \/ r = "NIGHT_TIME_TRANSACTION" /\ m.hour <= 5
        \/ r = "SUSPICIOUS_LOCATION" /\ m.location # "OTHER"}

(* Faulty variant: a window that is not known counts as an exceeded one. *)
StatefulMatchesFailingSafe(w) ==
    {r \in StatefulRules :
        \/ IsDegraded(w)
        \/ r = "RAPID_TRANSACTION_COUNT" /\ w.count >= RapidCount
        \/ r = "WINDOW_AMOUNT_SUM" /\ w.sum >= WindowAmount}

(* A degraded window matches nothing: its rules are reported as skipped. *)
StatefulMatches(w) ==
    {r \in StatefulRules :
        /\ ~IsDegraded(w)
        /\ \/ r = "RAPID_TRANSACTION_COUNT" /\ w.count >= RapidCount
           \/ r = "WINDOW_AMOUNT_SUM" /\ w.sum >= WindowAmount}

MatchedRules(m, w) == StatelessMatches(m) \cup StatefulMatches(w)

RuleScore == [AMOUNT_THRESHOLD |-> 50, NIGHT_TIME_TRANSACTION |-> 20,
              SUSPICIOUS_LOCATION |-> 30, RAPID_TRANSACTION_COUNT |-> 30,
              WINDOW_AMOUNT_SUM |-> 40]

MaxRiskScore == 100

ScoreSum(matched) ==
    LET score(r) == IF r \in matched THEN RuleScore[r] ELSE 0
    IN score("AMOUNT_THRESHOLD") + score("NIGHT_TIME_TRANSACTION")
         + score("SUSPICIOUS_LOCATION") + score("RAPID_TRANSACTION_COUNT")
         + score("WINDOW_AMOUNT_SUM")

RiskScore(m, w) ==
    LET sum == ScoreSum(MatchedRules(m, w))
    IN IF sum > MaxRiskScore THEN MaxRiskScore ELSE sum

RiskLevel(score) ==
    IF score <= 29 THEN "LOW" ELSE IF score <= 69 THEN "MEDIUM" ELSE "HIGH"

Decision == [LOW |-> "APPROVE", MEDIUM |-> "REVIEW", HIGH |-> "BLOCK"]
=============================================================================
