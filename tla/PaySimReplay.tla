---------------------------- MODULE PaySimReplay ----------------------------
(***************************************************************************)
(* scripts/data/replay_paysim_events.py: a client that reads prepared      *)
(* events row by row, validates each, sends it to the intake of the API    *)
(* with retries, counts what became of it, and writes a report.            *)
(*                                                                         *)
(* The API handles a request in one step, with the outcomes Intake allows; *)
(* a request whose answer is lost may be handled after the client went on. *)
(* The consumer gives every published event a score of FraudRuleEngine.    *)
(***************************************************************************)
EXTENDS FraudRuleEngine, FiniteSets, Sequences

CONSTANTS
    Events,         \* events of the dataset, by their own eventId
    Invalid,        \* events the API answers with 400
    Earlier,        \* events an earlier replay without a prefix has sent
    MessageOf,      \* the transaction of an event
    WindowAnswers,  \* windows the consumer may find for an event
    Prefixes,       \* values of --event-id-prefix
    Args,           \* the command lines replay may be started with
    MaxFailures,    \* MAX_FAILURES: the failures a report lists
    MaxFaults,      \* bound: failures of the API and lost answers
    None

Kinds == {"valid", "rejected", "anonymous", "corrupt"}

Rows == [event: Events, kind: Kinds]

(* eventIds as the API sees them. *)
Ids == [prefix: Prefixes \cup {None}, event: Events]

ArgsType ==
    [input: Seq(Rows), maxEvents: Nat \cup {None}, prefix: Prefixes \cup {None},
     retryCount: Nat, retryConnectionError: BOOLEAN, stopOnError: BOOLEAN,
     dryRun: BOOLEAN]

(* An eventId occurs once in the input: the preparation makes them unique. *)
UniqueEvents(input) ==
    \A i, j \in 1 .. Len(input) : input[i].event = input[j].event => i = j

ASSUME ReplayAssumption ==
    /\ IsFiniteSet(Events)
    /\ Invalid \subseteq Events
    /\ Earlier \subseteq Events
    /\ MessageOf \in [Events -> Messages]
    /\ WindowAnswers \subseteq Windows
    /\ Args \subseteq ArgsType
    /\ \A a \in Args : UniqueEvents(a.input)
    /\ MaxFailures \in Nat
    /\ MaxFaults \in Nat
    /\ None \notin Prefixes \cup Nat \cup (Nat \X Nat) \cup BOOLEAN \cup Ids
                   \cup {"PUBLISHED", "PUBLISH_FAILED"}

(* What becomes of a sent event in the end; the first four are answers. *)
Outcomes == {"httpSuccess", "httpDuplicateOrConflict", "httpClientError",
             "httpServerError", "timeout", "connectionError"}

VARIABLES
    args,           \* the command line
    phase,          \* what the script does next, or how it ended
    totalRead,      \* rows read: the row being processed is the last of them
    attempt,        \* retries of the request being sent
    payloadAccepted,
    payloadRejected,
    outcomes,       \* number of events per outcome
    retries,        \* number of repeated requests per outcome of the failed one
    failures        \* the failures the report will list

clientVars == <<args, phase, totalRead, attempt, payloadAccepted,
                payloadRejected, outcomes, retries, failures>>

VARIABLES
    inFlight,       \* requests without an answer that the API may still handle
    receipt,        \* transaction_event_receipts: the status per eventId, or None
    copies,         \* sends of the eventId that reach transaction-events, now or later
    lost,           \* history: those whose receipt was rolled back
    results,        \* fraud_detection_results: the score per eventId, or None
    faults          \* number of faults so far

serverVars == <<inFlight, receipt, copies, lost, results, faults>>

vars == <<clientVars, serverVars>>

Failures == [row: Nat, kind: {"payload", "http"}, id: Ids \cup {None}]

Phases == {"read", "send", "done", "failed"}

TypeOK ==
    /\ args \in Args
    /\ phase \in Phases
    /\ totalRead \in 0 .. Len(args.input)
    /\ attempt \in 0 .. args.retryCount
    /\ phase = "send" => totalRead > 0
    /\ payloadAccepted \in Nat
    /\ payloadRejected \in Nat
    /\ outcomes \in [Outcomes -> Nat]
    /\ retries \in [Outcomes -> Nat]
    /\ failures \subseteq Failures
    /\ IsFiniteSet(failures) /\ Cardinality(failures) <= MaxFailures
    /\ inFlight \in [Ids -> Nat]
    /\ receipt \in [Ids -> {"PUBLISHED", "PUBLISH_FAILED", None}]
    /\ copies \in [Ids -> Nat]
    /\ lost \in [Ids -> Nat]
    /\ results \in [Ids -> 0 .. MaxRiskScore \cup {None}]
    /\ faults \in 0 .. MaxFaults

SentEarlier(id) == id.prefix = None /\ id.event \in Earlier

Init ==
    /\ args \in Args
    /\ phase = "read"
    /\ totalRead = 0
    /\ attempt = 0
    /\ payloadAccepted = 0
    /\ payloadRejected = 0
    /\ outcomes = [o \in Outcomes |-> 0]
    /\ retries = [o \in Outcomes |-> 0]
    /\ failures = {}
    /\ inFlight = [id \in Ids |-> 0]
    /\ receipt = [id \in Ids |-> IF SentEarlier(id) THEN "PUBLISHED" ELSE None]
    /\ copies = [id \in Ids |-> IF SentEarlier(id) THEN 1 ELSE 0]
    /\ lost = [id \in Ids |-> 0]
    /\ results = [id \in Ids |-> None]
    /\ faults = 0

-----------------------------------------------------------------------------
(* Reading. *)

Row == args.input[totalRead]

OwnId(e) == [prefix |-> None, event |-> e]

(* With --idempotency-mode prefix the eventId is "<prefix>-<eventId>". *)
ReplayId(e) == [prefix |-> args.prefix, event |-> e]

HasNext == totalRead < Len(args.input)

NextKind == args.input[totalRead + 1].kind

LimitReached == args.maxEvents # None /\ totalRead >= args.maxEvents

(* Faulty variant: lists one failure more than the limit. *)
AddFailureOffByOne(failure) ==
    failures' = IF Cardinality(failures) <= MaxFailures
                THEN failures \cup {failure} ELSE failures

(* The report lists the first MAX_FAILURES failures only. *)
AddFailure(failure) ==
    failures' = IF Cardinality(failures) < MaxFailures
                THEN failures \cup {failure} ELSE failures

(* The next row is read before the limit is looked at, and a row that is   *)
(* not JSON ends the script without a report.                              *)
CorruptRow ==
    /\ phase = "read" /\ HasNext
    /\ NextKind = "corrupt"
    /\ phase' = "failed"
    /\ UNCHANGED <<args, totalRead, attempt, payloadAccepted, payloadRejected,
                   outcomes, retries, failures, serverVars>>

EndOfInput ==
    /\ phase = "read"
    /\ \/ ~HasNext
       \/ HasNext /\ NextKind # "corrupt" /\ LimitReached
    /\ phase' = "done"
    /\ UNCHANGED <<args, totalRead, attempt, payloadAccepted, payloadRejected,
                   outcomes, retries, failures, serverVars>>

ReadsRow ==
    /\ phase = "read" /\ HasNext
    /\ NextKind # "corrupt"
    /\ ~LimitReached
    /\ totalRead' = totalRead + 1

(* A row that breaks the payload contract; it is listed with its eventId   *)
(* if it has one.                                                          *)
RejectRow ==
    /\ ReadsRow
    /\ NextKind \in {"rejected", "anonymous"}
    /\ payloadRejected' = payloadRejected + 1
    /\ AddFailure([row |-> totalRead + 1, kind |-> "payload",
                   id |-> IF NextKind = "rejected"
                          THEN OwnId(args.input[totalRead + 1].event) ELSE None])
    /\ phase' = IF args.stopOnError THEN "done" ELSE "read"
    /\ UNCHANGED <<args, attempt, payloadAccepted, outcomes, retries, serverVars>>

AcceptRow ==
    /\ ReadsRow
    /\ NextKind = "valid"
    /\ payloadAccepted' = payloadAccepted + 1
    /\ attempt' = 0
    /\ phase' = IF args.dryRun THEN "read" ELSE "send"
    /\ UNCHANGED <<args, payloadRejected, outcomes, retries, failures, serverVars>>

-----------------------------------------------------------------------------
(* The API. *)

apiVars == <<receipt, copies, lost>>

Fault == faults < MaxFaults /\ faults' = faults + 1

(* Faulty variant: the receipt is not looked up. *)
AcceptedUnchecked(id) ==
    /\ id.event \notin Invalid
    /\ receipt' = [receipt EXCEPT ![id] = "PUBLISHED"]
    /\ copies' = [copies EXCEPT ![id] = @ + 1]
    /\ UNCHANGED lost

Accepted(id) ==
    /\ receipt[id] = None
    /\ id.event \notin Invalid
    /\ receipt' = [receipt EXCEPT ![id] = "PUBLISHED"]
    /\ copies' = [copies EXCEPT ![id] = @ + 1]
    /\ UNCHANGED lost

Conflicting(id) ==
    /\ receipt[id] # None
    /\ id.event \notin Invalid
    /\ UNCHANGED apiVars

Malformed(id) == id.event \in Invalid /\ UNCHANGED apiVars

(* 503: the receipt keeps PUBLISH_FAILED, and the send may have arrived. *)
PublishFailed(id) ==
    /\ receipt[id] = None
    /\ id.event \notin Invalid
    /\ receipt' = [receipt EXCEPT ![id] = "PUBLISH_FAILED"]
    /\ \E sent \in {0, 1} : copies' = [copies EXCEPT ![id] = @ + sent]
    /\ UNCHANGED lost

(* 500: the transaction is rolled back, the send may have arrived. *)
RolledBack(id) ==
    /\ receipt[id] = None
    /\ id.event \notin Invalid
    /\ \E sent \in {0, 1} :
          /\ copies' = [copies EXCEPT ![id] = @ + sent]
          /\ lost' = [lost EXCEPT ![id] = @ + sent]
    /\ UNCHANGED receipt

(* What the API does with a request, and the category of its answer. *)
Handle(id, o) ==
    \/ o = "httpSuccess" /\ Accepted(id) /\ UNCHANGED faults
    \/ o = "httpDuplicateOrConflict" /\ Conflicting(id) /\ UNCHANGED faults
    \/ o = "httpClientError" /\ Malformed(id) /\ UNCHANGED faults
    \/ o = "httpServerError" /\ Fault /\ (PublishFailed(id) \/ RolledBack(id))

(* A request nobody waits for any more is handled, or never arrives. *)
HandleLate(id) ==
    /\ inFlight[id] > 0
    /\ inFlight' = [inFlight EXCEPT ![id] = @ - 1]
    /\ \/ \E o \in Outcomes : Handle(id, o)
       \/ UNCHANGED <<apiVars, faults>>
    /\ UNCHANGED <<clientVars, results>>

(* The consumer decides each eventId once, with the window it finds, at any
   time after the send: a record that arrives late is one consumed late. *)
Consume(id) ==
    /\ copies[id] > 0
    /\ results[id] = None
    /\ \E w \in WindowAnswers :
          results' = [results EXCEPT ![id] = RiskScore(MessageOf[id.event], w)]
    /\ UNCHANGED <<clientVars, inFlight, apiVars, faults>>

-----------------------------------------------------------------------------
(* Sending. *)

Retryable(o) ==
    /\ attempt < args.retryCount
    /\ \/ o \in {"httpServerError", "timeout"}
       \/ o = "connectionError" /\ args.retryConnectionError

(* Faulty variant: forgets to count the attempt (the statistics are kept   *)
(* small).                                                                 *)
RetryForgotten(o) ==
    /\ Retryable(o)
    /\ retries' = [retries EXCEPT ![o] = (@ + 1) % 2]
    /\ UNCHANGED <<attempt, phase, outcomes, failures>>

(* Faulty variant: the failed request counts as an outcome as well. *)
RetryCounted(o) ==
    /\ Retryable(o)
    /\ attempt' = attempt + 1
    /\ retries' = [retries EXCEPT ![o] = @ + 1]
    /\ outcomes' = [outcomes EXCEPT ![o] = @ + 1]
    /\ UNCHANGED <<phase, failures>>

Retry(o) ==
    /\ Retryable(o)
    /\ attempt' = attempt + 1
    /\ retries' = [retries EXCEPT ![o] = @ + 1]
    /\ UNCHANGED <<phase, outcomes, failures>>

Record(o) ==
    /\ ~Retryable(o)
    /\ outcomes' = [outcomes EXCEPT ![o] = @ + 1]
    /\ IF o = "httpSuccess"
       THEN UNCHANGED failures
       ELSE AddFailure([row |-> totalRead, kind |-> "http", id |-> ReplayId(Row.event)])
    /\ phase' = IF o # "httpSuccess" /\ args.stopOnError THEN "done" ELSE "read"
    /\ UNCHANGED <<attempt, retries>>

Settle(o) ==
    /\ Retry(o) \/ Record(o)
    /\ UNCHANGED <<args, totalRead, payloadAccepted, payloadRejected, results>>

Answered(o) ==
    /\ phase = "send"
    /\ Handle(ReplayId(Row.event), o)
    /\ Settle(o)
    /\ UNCHANGED inFlight

(* The request may be on its way, or with the API, when the client stops   *)
(* waiting.                                                                *)
TimesOut ==
    /\ phase = "send"
    /\ Fault
    /\ inFlight' = [inFlight EXCEPT ![ReplayId(Row.event)] = @ + 1]
    /\ Settle("timeout")
    /\ UNCHANGED apiVars

(* Nothing reaches the API; it may stay so for any number of attempts. *)
Unreachable ==
    /\ phase = "send"
    /\ Settle("connectionError")
    /\ UNCHANGED <<inFlight, apiVars, faults>>

(* A connection closed while the client waits for the answer raises an     *)
(* exception nothing catches: no report is written.                        *)
ConnectionLost ==
    /\ phase = "send"
    /\ Fault
    /\ inFlight' = [inFlight EXCEPT ![ReplayId(Row.event)] = @ + 1]
    /\ phase' = "failed"
    /\ UNCHANGED <<args, totalRead, attempt, payloadAccepted, payloadRejected,
                   outcomes, retries, failures, apiVars, results>>

ClientStep ==
    \/ CorruptRow \/ EndOfInput \/ RejectRow \/ AcceptRow
    \/ \E o \in Outcomes : Answered(o)
    \/ TimesOut \/ Unreachable \/ ConnectionLost

Next ==
    \/ ClientStep
    \/ \E id \in Ids : HandleLate(id)
    \/ \E id \in Ids : Consume(id)

Spec == Init /\ [][Next]_vars

(* The script runs on; a request ends within --timeout-seconds. *)
FairSpec == Spec /\ WF_vars(ClientStep)

-----------------------------------------------------------------------------
Sum(f) ==
    f["httpSuccess"] + f["httpDuplicateOrConflict"] + f["httpClientError"]
        + f["httpServerError"] + f["timeout"] + f["connectionError"]

Listed(n) == IF n < MaxFailures THEN n ELSE MaxFailures

(* Every row read is accepted or rejected, every accepted row that was     *)
(* sent has one final outcome, however often it was repeated, and every    *)
(* row that failed is listed up to the limit (replay, send_with_retry and  *)
(* add_failure keep separate counters and break out of the loop early).    *)
ReportAddsUp ==
    /\ totalRead = payloadAccepted + payloadRejected
    /\ phase \in {"read", "done"} /\ ~args.dryRun => Sum(outcomes) = payloadAccepted
    /\ args.dryRun => Sum(outcomes) = 0
    /\ Cardinality(failures) =
          Listed(payloadRejected + Sum(outcomes) - outcomes["httpSuccess"])

(* Repeating a request never puts an event into the topic twice: every     *)
(* further copy is one whose receipt the API rolled back (send_with_retry  *)
(* against accept; late requests included).                                *)
RetriesAcceptOnce ==
    \A id \in Ids :
        /\ copies[id] <= lost[id] + (IF receipt[id] # None THEN 1 ELSE 0)
        /\ receipt[id] = "PUBLISHED" => copies[id] > 0

(* Each success the report counts is an event of its own that this replay  *)
(* published: neither an earlier replay nor a retry is counted as one.     *)
SuccessesArePublished ==
    outcomes["httpSuccess"] <=
        Cardinality({id \in Ids : /\ id.prefix = args.prefix
                                  /\ receipt[id] = "PUBLISHED"
                                  /\ ~SentEarlier(id)})

(* What makes these inductive: how the row at hand, the rows before it and *)
(* the failures listed are connected, and that no receipt is withdrawn.    *)
RowsNotSent == {i \in 1 .. totalRead : args.input[i].kind # "valid"}

SendInv ==
    phase = "send" =>
        /\ ~args.dryRun /\ Row.kind = "valid"
        /\ Sum(outcomes) + 1 = payloadAccepted
        /\ \A f \in failures : f.row < totalRead

FailuresInv ==
    /\ payloadRejected = Cardinality(RowsNotSent)
    /\ \A f \in failures :
          /\ f.row \in 1 .. totalRead
          /\ f.kind = "payload" /\ f.id # None =>
                /\ args.input[f.row].kind = "rejected"
                /\ f.id = OwnId(args.input[f.row].event)

ReceiptsInv == \A id \in Ids : SentEarlier(id) => receipt[id] # None

ReplayInv ==
    /\ SendInv /\ FailuresInv /\ ReceiptsInv
    /\ ReportAddsUp /\ RetriesAcceptOnce /\ SuccessesArePublished

(* Retries are bounded, so the script ends (send_with_retry has a retry    *)
(* count and every request a timeout).                                     *)
ReplayEnds ==
    phase \in {"read", "send"} ~> phase \in {"done", "failed"}
=============================================================================
