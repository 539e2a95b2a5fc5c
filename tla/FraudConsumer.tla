--------------------------- MODULE FraudConsumer ---------------------------
(***************************************************************************)
(* The consumer pipeline of app-consumer: TransactionEventListener reads   *)
(* transaction-events, and for each record writes the processing log,      *)
(* checks for an existing result, updates the Redis window, evaluates the  *)
(* rules, saves the fraud result (or a dead-letter row and message) and    *)
(* acknowledges manually.                                                  *)
(*                                                                         *)
(* One action per call the listener makes that reads or writes shared      *)
(* state, so that the steps of several consumers interleave.  The broker   *)
(* (log, group ownership, committed offsets) and the Spring Kafka error    *)
(* handler are external; they are modelled from how the code uses them.    *)
(***************************************************************************)
EXTENDS Naturals, Sequences, FiniteSets

(* The records that can be published. *)
CONSTANTS
    Events,        \* events, identified by their eventId
    Partitions,    \* partitions of the source topic
    PartitionOf,   \* the partition of an event: the Kafka key is its userId
    RuleFailing,   \* events on which the rule engine throws (null eventTime)
    LogRejects,    \* events whose row violates a NOT NULL or width constraint
    ResultRejects, \*   of event_processing_logs, fraud_detection_results or
    DltRejects,    \*   dead_letter_events
    Undecodable    \* payloads JsonDeserializer rejects

(* The consumer group and its configuration. *)
CONSTANTS
    Consumers,     \* listener threads, each in a process of its own
    MaxDeliveries, \* deliveries before the error handler gives a record up
    DrillPoint,    \* fraud.consumer.redelivery-drill.failure-point, or None
    DrillEvent,    \* fraud.consumer.redelivery-drill.event-id, or None
    FailOnce,      \* fraud.consumer.redelivery-drill.fail-once
    None

(* Bounds of the exploration. *)
CONSTANTS
    MaxLog,        \* records per partition
    MaxFaults      \* crashes, rebalances and failing calls

(* The calls of processMessage, named for what the listener does next. *)
CallLabels == {"log", "precheck", "window", "rules", "save", "saved",
               "dltFind", "dltInsert", "dltPublish", "ack"}

FailurePoints == {"BEFORE_REDIS_UPDATE", "AFTER_REDIS_UPDATE_BEFORE_RESULT",
                  "AFTER_RESULT_SAVE_BEFORE_ACK"}

Statuses == {"NORMAL", "DEGRADED"}

ASSUME ConsumerAssumption ==
    /\ PartitionOf \in [Events -> Partitions]
    /\ IsFiniteSet(Consumers)
    /\ RuleFailing \subseteq Events
    /\ LogRejects \subseteq Events
    /\ ResultRejects \subseteq Events
    /\ DltRejects \subseteq Events
    /\ Undecodable \subseteq Events
    /\ MaxDeliveries \in Nat \ {0}
    /\ MaxLog \in Nat
    /\ MaxFaults \in Nat
    /\ DrillPoint \in FailurePoints \cup {None}
    /\ DrillEvent \in Events \cup {None}
    /\ FailOnce \in BOOLEAN
    /\ None \notin Events \cup Consumers \cup Statuses \cup FailurePoints
                   \cup {"NO_FAILURE_POINT"}

VARIABLES
    log,           \* the source topic: a sequence of events per partition
    committed,     \* committed offset of the group per partition
    owner,         \* the consumer a partition is assigned to, or None
    position,      \* the owner's next offset per partition
    deliveries     \* failed deliveries of the record at position

brokerVars == <<log, committed, owner, position, deliveries>>

VARIABLES
    pc,            \* the call a consumer makes next, "idle" or "down"
    current,       \* the record a consumer processes: partition and offset
    status,        \* the window status the consumer obtained from Redis
    injected       \* whether the process has injected its drill failure

consumerVars == <<pc, current, status, injected>>

VARIABLES
    processingLog, \* event_processing_logs: records with a row
    results,       \* fraud_detection_results: status per eventId, or None
    deadLetters,   \* dead_letter_events: records with a row
    dltTopic       \* transaction-events-dlt: copies of a record published there

storeVars == <<processingLog, results, deadLetters, dltTopic>>

VARIABLES
    dropped,       \* history: records given up without a durable outcome
    faults         \* number of faults so far

vars == <<brokerVars, consumerVars, storeVars, dropped, faults>>

Records == [part: Partitions, off: 0 .. MaxLog - 1]

EventAt(r) == log[r.part][r.off + 1]

Event(c) == EventAt(current[c])

Busy(c) == pc[c] \in CallLabels

TypeOK ==
    /\ log \in [Partitions -> Seq(Events)]
    /\ \A p \in Partitions : Len(log[p]) <= MaxLog
    /\ committed \in [Partitions -> Nat]
    /\ owner \in [Partitions -> Consumers \cup {None}]
    /\ position \in [Partitions -> Nat]
    /\ deliveries \in [Partitions -> 0 .. MaxDeliveries - 1]
    /\ pc \in [Consumers -> CallLabels \cup {"idle", "down"}]
    /\ current \in [Consumers -> Records \cup {None}]
    /\ \A c \in Consumers : Busy(c) =>
          current[c] \in Records /\ current[c].off < Len(log[current[c].part])
    /\ status \in [Consumers -> Statuses]
    /\ injected \in [Consumers -> BOOLEAN]
    /\ processingLog \subseteq Records
    /\ results \in [Events -> Statuses \cup {None}]
    /\ deadLetters \subseteq Records
    /\ dltTopic \in [Records -> Nat]
    /\ dropped \subseteq Records
    /\ faults \in 0 .. MaxFaults

Init ==
    /\ log = [p \in Partitions |-> <<>>]
    /\ committed = [p \in Partitions |-> 0]
    /\ owner = [p \in Partitions |-> None]
    /\ position = [p \in Partitions |-> 0]
    /\ deliveries = [p \in Partitions |-> 0]
    /\ pc = [c \in Consumers |-> "idle"]
    /\ current = [c \in Consumers |-> None]
    /\ status = [c \in Consumers |-> "DEGRADED"]
    /\ injected = [c \in Consumers |-> FALSE]
    /\ processingLog = {}
    /\ results = [e \in Events |-> None]
    /\ deadLetters = {}
    /\ dltTopic = [r \in Records |-> 0]
    /\ dropped = {}
    /\ faults = 0

-----------------------------------------------------------------------------
(* The broker and the group. *)

(***************************************************************************)
(* A record reaches the topic: an accepted request, a send that timed out  *)
(* and arrived after all, or a reprocessed dead letter, so an eventId may  *)
(* occur more than once.                                                   *)
(***************************************************************************)
Publish(e) ==
    LET p == PartitionOf[e] IN
    /\ Len(log[p]) < MaxLog
    /\ log' = [log EXCEPT ![p] = Append(@, e)]
    /\ UNCHANGED <<committed, owner, position, deliveries, consumerVars,
                   storeVars, dropped, faults>>

(* An idle consumer is assigned a free partition and resumes at the        *)
(* committed offset (earliest, offset 0, when there is none).              *)
Assign(c, p) ==
    /\ owner[p] = None
    /\ pc[c] = "idle"
    /\ owner' = [owner EXCEPT ![p] = c]
    /\ position' = [position EXCEPT ![p] = committed[p]]
    /\ deliveries' = [deliveries EXCEPT ![p] = 0]
    /\ UNCHANGED <<log, committed, consumerVars, storeVars, dropped, faults>>

Fault ==
    /\ faults < MaxFaults
    /\ faults' = faults + 1

(* The group takes a partition away, also from a consumer that is still    *)
(* processing a record of it (max.poll.interval or session timeout).       *)
Revoke(p) ==
    /\ Fault
    /\ owner[p] # None
    /\ owner' = [owner EXCEPT ![p] = None]
    /\ UNCHANGED <<log, committed, position, deliveries, consumerVars,
                   storeVars, dropped>>

(* The listener method ends, and its local variables with it.              *)
LeaveTo(c, label) ==
    /\ pc' = [pc EXCEPT ![c] = label]
    /\ current' = [current EXCEPT ![c] = None]
    /\ status' = [status EXCEPT ![c] = "DEGRADED"]

(* A process dies between two calls; its group membership ends with it.    *)
Crash(c) ==
    /\ Fault
    /\ pc[c] # "down"
    /\ LeaveTo(c, "down")
    /\ owner' = [p \in Partitions |-> IF owner[p] = c THEN None ELSE owner[p]]
    /\ injected' = [injected EXCEPT ![c] = FALSE]
    /\ UNCHANGED <<log, committed, position, deliveries, storeVars, dropped>>

Restart(c) ==
    /\ pc[c] = "down"
    /\ pc' = [pc EXCEPT ![c] = "idle"]
    /\ UNCHANGED <<brokerVars, current, status, injected, storeVars, dropped,
                   faults>>

(* The container delivers the record at the owner's position.  A payload   *)
(* the deserializer rejects makes poll throw at the same position again.   *)
Poll(c, p) ==
    /\ pc[c] = "idle"
    /\ owner[p] = c
    /\ position[p] < Len(log[p])
    /\ log[p][position[p] + 1] \notin Undecodable
    /\ current' = [current EXCEPT ![c] = [part |-> p, off |-> position[p]]]
    /\ pc' = [pc EXCEPT ![c] = "log"]
    /\ UNCHANGED <<brokerVars, status, injected, storeVars, dropped, faults>>

(***************************************************************************)
(* An exception left onMessage.  No error handler is configured, so the    *)
(* container's default applies: redeliver from the same position, and at   *)
(* the last delivery log the record and move on without committing it.     *)
(* The handler of a consumer that lost the partition has no effect.        *)
(***************************************************************************)
HandleError(c) ==
    LET r == current[c]
        p == r.part
    IN
    /\ LeaveTo(c, "idle")
    /\ \/ /\ owner[p] # c
          /\ UNCHANGED <<position, deliveries, dropped>>
       \/ /\ owner[p] = c
          /\ deliveries[p] + 1 < MaxDeliveries
          /\ deliveries' = [deliveries EXCEPT ![p] = @ + 1]
          /\ UNCHANGED <<position, dropped>>
       \/ /\ owner[p] = c
          /\ deliveries[p] + 1 = MaxDeliveries
          /\ deliveries' = [deliveries EXCEPT ![p] = 0]
          /\ position' = [position EXCEPT ![p] = r.off + 1]
          /\ dropped' = dropped \cup {r}

-----------------------------------------------------------------------------
(* The calls of processMessage. *)

Goto(c, label) == pc' = [pc EXCEPT ![c] = label]

(* A constraint violation of any kind is reported as duplicate. *)
LoggedBy(c) ==
    IF Event(c) \in LogRejects THEN processingLog
                               ELSE processingLog \cup {current[c]}

RecordProcessedEvent(c) ==
    /\ pc[c] = "log"
    /\ processingLog' = LoggedBy(c)
    /\ Goto(c, "precheck")
    /\ UNCHANGED <<brokerVars, current, status, injected, results,
                   deadLetters, dltTopic, dropped, faults>>

ExistsResultForEventId(c) ==
    /\ pc[c] = "precheck"
    /\ Goto(c, IF results[Event(c)] # None THEN "ack" ELSE "window")
    /\ UNCHANGED <<brokerVars, current, status, injected, storeVars, dropped,
                   faults>>

(* The drill's failure point that guards each call. *)
PointBefore(label) ==
    CASE label = "window" -> "BEFORE_REDIS_UPDATE"
      [] label = "rules" -> "AFTER_REDIS_UPDATE_BEFORE_RESULT"
      [] label = "saved" -> "AFTER_RESULT_SAVE_BEFORE_ACK"
      [] OTHER -> "NO_FAILURE_POINT"

DrillFires(c) ==
    /\ PointBefore(pc[c]) = DrillPoint
    /\ Event(c) = DrillEvent
    /\ ~(FailOnce /\ injected[c])

FailIfConfigured(c) ==
    /\ Busy(c)
    /\ DrillFires(c)
    /\ injected' = [injected EXCEPT ![c] = @ \/ FailOnce]
    /\ HandleError(c)
    /\ UNCHANGED <<log, committed, owner, storeVars, faults>>

(***************************************************************************)
(* The window store swallows every exception of Redis and answers with a   *)
(* degraded status, so that one event may be evaluated NORMAL by one       *)
(* delivery and DEGRADED by another.  On an event the rules cannot         *)
(* evaluate the store throws before its first command.  What the commands  *)
(* do to the ZSET and its keys is module SlidingWindow's: of the window    *)
(* the listener keeps only the status.                                     *)
(***************************************************************************)
RecordAndGetWindow(c) ==
    /\ pc[c] = "window"
    /\ ~DrillFires(c)
    /\ \E s \in Statuses :
          /\ Event(c) \in RuleFailing => s = "DEGRADED"
          /\ status' = [status EXCEPT ![c] = s]
    /\ Goto(c, "rules")
    /\ UNCHANGED <<brokerVars, current, injected, storeVars, dropped, faults>>

(* Faulty variant: a rule failure is logged and the record acknowledged. *)
EvaluateRulesSwallowing(c) ==
    /\ pc[c] = "rules"
    /\ ~DrillFires(c)
    /\ Goto(c, IF Event(c) \in RuleFailing THEN "ack" ELSE "save")
    /\ UNCHANGED <<brokerVars, current, status, injected, storeVars, dropped,
                   faults>>

EvaluateRules(c) ==
    /\ pc[c] = "rules"
    /\ ~DrillFires(c)
    /\ Goto(c, IF Event(c) \in RuleFailing THEN "dltFind" ELSE "save")
    /\ UNCHANGED <<brokerVars, current, status, injected, storeVars, dropped,
                   faults>>

(* Faulty variant: a redelivery overwrites the result. *)
SavedByUpsert(c) ==
    IF Event(c) \in ResultRejects THEN results
                                  ELSE [results EXCEPT ![Event(c)] = status[c]]

(* The unique constraint on event_id: the first writer's row stays.        *)
SavedBy(c) ==
    IF Event(c) \in ResultRejects \/ results[Event(c)] # None
    THEN results
    ELSE [results EXCEPT ![Event(c)] = status[c]]

(* A constraint violation of any kind counts as duplicate, so an event     *)
(* whose row is rejected goes on to be acknowledged without a result.      *)
SaveResult(c) ==
    /\ pc[c] = "save"
    /\ results' = SavedBy(c)
    /\ dropped' = IF results'[Event(c)] = None THEN dropped \cup {current[c]}
                                               ELSE dropped
    /\ Goto(c, "saved")
    /\ UNCHANGED <<brokerVars, current, status, injected, processingLog,
                   deadLetters, dltTopic, faults>>

(* Faulty variant: a stored dead letter counts as published. *)
FindDeadLetterTrusting(c) ==
    /\ pc[c] = "dltFind"
    /\ Goto(c, IF current[c] \in deadLetters THEN "ack" ELSE "dltInsert")
    /\ UNCHANGED <<brokerVars, current, status, injected, storeVars, dropped,
                   faults>>

(* Faulty variant: no lookup, only the insert. *)
FindDeadLetterNever(c) ==
    /\ pc[c] = "dltFind"
    /\ Goto(c, "dltInsert")
    /\ UNCHANGED <<brokerVars, current, status, injected, storeVars, dropped,
                   faults>>

(* Faulty variant: the message is sent before its row is stored. *)
FindDeadLetterSendingFirst(c) ==
    LET stored == current[c] \in deadLetters IN
    /\ pc[c] = "dltFind"
    /\ dltTopic' = IF stored THEN dltTopic
                   ELSE [dltTopic EXCEPT ![current[c]] = @ + 1]
    /\ Goto(c, IF stored THEN "ack" ELSE "dltInsert")
    /\ UNCHANGED <<brokerVars, current, status, injected, processingLog,
                   results, deadLetters, dropped, faults>>

(* recordFailure looks the row up ... *)
FindDeadLetter(c) ==
    /\ pc[c] = "dltFind"
    /\ Goto(c, IF current[c] \in deadLetters THEN "dltPublish"
                                             ELSE "dltInsert")
    /\ UNCHANGED <<brokerVars, current, status, injected, storeVars, dropped,
                   faults>>

(* ... and inserts it.  After a constraint violation the transaction is    *)
(* aborted, so the second lookup in it throws.                             *)
CanInsertDeadLetter(c) ==
    /\ current[c] \notin deadLetters
    /\ Event(c) \notin DltRejects

SaveNewDeadLetter(c) ==
    /\ pc[c] = "dltInsert"
    /\ CanInsertDeadLetter(c)
    /\ deadLetters' = deadLetters \cup {current[c]}
    /\ Goto(c, "dltPublish")
    /\ UNCHANGED <<brokerVars, current, status, injected, processingLog,
                   results, dltTopic, dropped, faults>>

SaveNewDeadLetterConflicts(c) ==
    /\ pc[c] = "dltInsert"
    /\ ~CanInsertDeadLetter(c)
    /\ HandleError(c)
    /\ UNCHANGED <<log, committed, owner, injected, storeVars, faults>>

WithCopyOf(r) == [dltTopic EXCEPT ![r] = @ + 1]

PublishDeadLetter(c) ==
    /\ pc[c] = "dltPublish"
    /\ dltTopic' = WithCopyOf(current[c])
    /\ Goto(c, "ack")
    /\ UNCHANGED <<brokerVars, current, status, injected, processingLog,
                   results, deadLetters, dropped, faults>>

(* Faulty variant: the offset of the record itself, not of the next one. *)
CommittedByOffByOne(c) ==
    IF owner[current[c].part] = c
    THEN [committed EXCEPT ![current[c].part] = current[c].off]
    ELSE committed

(* The synchronous commit of a manual acknowledgment.  The coordinator     *)
(* rejects the commit of a consumer that no longer owns the partition.     *)
CommittedBy(c) ==
    IF owner[current[c].part] = c
    THEN [committed EXCEPT ![current[c].part] = current[c].off + 1]
    ELSE committed

Acknowledge(c) ==
    LET r == current[c] IN
    /\ pc[c] \in {"ack", "saved"}
    /\ ~DrillFires(c)
    /\ committed' = CommittedBy(c)
    /\ IF owner[r.part] = c
       THEN /\ position' = [position EXCEPT ![r.part] = r.off + 1]
            /\ deliveries' = [deliveries EXCEPT ![r.part] = 0]
       ELSE UNCHANGED <<position, deliveries>>
    /\ LeaveTo(c, "idle")
    /\ UNCHANGED <<log, owner, injected, storeVars, dropped, faults>>

(***************************************************************************)
(* A database, broker or commit call throws.  Its effect may have been     *)
(* applied all the same: a connection lost while committing, a send that   *)
(* timed out.  Nothing in processMessage catches the exception.            *)
(***************************************************************************)
CallFails(c) ==
    /\ Fault
    /\ pc[c] \in {"log", "precheck", "save", "saved", "dltFind",
                  "dltInsert", "dltPublish", "ack"}
    /\ ~DrillFires(c)
    /\ \E applied \in BOOLEAN :
          LET Effect(label, new, old) ==
                IF applied /\ pc[c] = label THEN new ELSE old
          IN
          /\ processingLog' = Effect("log", LoggedBy(c), processingLog)
          /\ results' = Effect("save", SavedBy(c), results)
          /\ deadLetters' = IF CanInsertDeadLetter(c)
                            THEN Effect("dltInsert",
                                        deadLetters \cup {current[c]},
                                        deadLetters)
                            ELSE deadLetters
          /\ dltTopic' = Effect("dltPublish", WithCopyOf(current[c]), dltTopic)
          /\ committed' = IF pc[c] = "saved"
                          THEN Effect("saved", CommittedBy(c), committed)
                          ELSE Effect("ack", CommittedBy(c), committed)
    /\ HandleError(c)
    /\ UNCHANGED <<log, owner, injected>>

-----------------------------------------------------------------------------
ProcessMessage(c) ==
    \/ RecordProcessedEvent(c)
    \/ ExistsResultForEventId(c)
    \/ FailIfConfigured(c)
    \/ RecordAndGetWindow(c)
    \/ EvaluateRules(c)
    \/ SaveResult(c)
    \/ FindDeadLetter(c)
    \/ SaveNewDeadLetter(c)
    \/ SaveNewDeadLetterConflicts(c)
    \/ PublishDeadLetter(c)
    \/ Acknowledge(c)

Next ==
    \/ \E e \in Events : Publish(e)
    \/ \E c \in Consumers, p \in Partitions : Assign(c, p)
    \/ \E p \in Partitions : Revoke(p)
    \/ \E c \in Consumers : Crash(c)
    \/ \E c \in Consumers : Restart(c)
    \/ \E c \in Consumers, p \in Partitions : Poll(c, p)
    \/ \E c \in Consumers : ProcessMessage(c)
    \/ \E c \in Consumers : CallFails(c)

Spec == Init /\ [][Next]_vars

(***************************************************************************)
(* A listener thread keeps running, a dead process is restarted, and the   *)
(* coordinator assigns free partitions.  Publications and faults are not   *)
(* fair.                                                                   *)
(***************************************************************************)
Fairness ==
    /\ \A c \in Consumers : WF_vars(ProcessMessage(c))
    /\ \A c \in Consumers, p \in Partitions : WF_vars(Poll(c, p))
    /\ \A c \in Consumers : WF_vars(Restart(c))
    /\ \A p \in Partitions : WF_vars(\E c \in Consumers : Assign(c, p))

FairSpec == Spec /\ Fairness

-----------------------------------------------------------------------------
(* Safety. *)

Offset(p, o) == [part |-> p, off |-> o]

DeadLettered == {r \in deadLetters : dltTopic[r] > 0}

(* The outcome the documents require: a fraud result for the event, or a   *)
(* dead letter that is both stored and published.                          *)
Handled(r) == results[EventAt(r)] # None \/ r \in DeadLettered

Logged(r) == r \in processingLog \/ EventAt(r) \in LogRejects

Accounted(r) == r \in dropped \/ (Logged(r) /\ Handled(r))

(* Every record below a committed offset has a processing-log row (if the  *)
(* table accepts one) and a result or dead letter, or was given up:        *)
(* whichever consumer committed, however often it was redelivered, and     *)
(* whatever failed in between (processMessage acknowledges last, on each   *)
(* of its paths).                                                          *)
CommitRequiresOutcome ==
    \A p \in Partitions : \A o \in 0 .. committed[p] - 1 :
        Accounted(Offset(p, o))

(* Fewer faults than deliveries lose no record the stores accept: the one  *)
(* other way to use up a delivery, losing the race for the dead-letter     *)
(* row, happens at most once per record and needs a rebalance first.       *)
FewFaultsLoseNothing ==
    faults < MaxDeliveries /\ DrillPoint = None =>
        \A r \in dropped : EventAt(r) \in ResultRejects \cup DltRejects

(* The dead-letter topic holds a record once, and once more per fault at   *)
(* most: a delivery that fails without a fault (the row is rejected, or    *)
(* another consumer inserted it first) has not published, and one that has *)
(* published is repeated only if a call failed, a process died or the      *)
(* partition was taken away: recordDeadLetterAndAcknowledge stores,        *)
(* publishes and acknowledges, in this order.  A copy whose send timed out *)
(* counts if it arrives.                                                   *)
DeadLetterCopiesArePaid ==
    \A r \in Records : dltTopic[r] <= 1 + faults

(* The strengthening that is inductive: the records below a position are   *)
(* accounted for, and so is the record a consumer is about to acknowledge. *)
PositionInv ==
    \A p \in Partitions :
        /\ position[p] <= Len(log[p])
        /\ owner[p] # None => committed[p] <= position[p] + 1
        /\ \A o \in 0 .. position[p] - 1 : Accounted(Offset(p, o))

CommitInv ==
    /\ \A p \in Partitions : committed[p] <= Len(log[p])
    /\ CommitRequiresOutcome

(* How far a consumer is, and what that says of its record. *)
ConsumerOK(c) ==
    /\ owner[current[c].part] = c => current[c].off = position[current[c].part]
    /\ pc[c] # "log" => Logged(current[c])
    /\ pc[c] = "dltPublish" => current[c] \in deadLetters
    /\ pc[c] \in {"saved", "ack"} => Accounted(current[c])

ConsumerInv == \A c \in Consumers : Busy(c) => ConsumerOK(c)

IInv == PositionInv /\ CommitInv /\ ConsumerInv

(* The two consumers that can lose, or make the owner lose, the race for   *)
(* the dead-letter row of the record at the position of p: one that lost   *)
(* the partition but still has the record and may insert the row, and the  *)
(* owner that found no row where there is one now.                         *)
RacesForRow(c, p) ==
    /\ Busy(c)
    /\ current[c] = Offset(p, position[p])
    /\ \/ owner[p] # c /\ current[c] \notin deadLetters
       \/ owner[p] = c /\ pc[c] = "dltInsert" /\ current[c] \in deadLetters

CannotBeDeadLettered(p) ==
    /\ position[p] < Len(log[p])
    /\ EventAt(Offset(p, position[p])) \in DltRejects

(* A failed delivery is paid for with a fault, unless the dead-letter table *)
(* rejects the record; the delivery a race will cost is paid in advance.   *)
DeliveriesPaid(p) ==
    ~CannotBeDeadLettered(p) =>
        /\ deliveries[p] <= faults
        /\ \A c \in Consumers : RacesForRow(c, p) => deliveries[p] < faults

(* Only a fault takes a partition from a consumer that works on it. *)
StragglerPaid(c) == Busy(c) /\ owner[current[c].part] # c => faults > 0

LossPaid(r) ==
    /\ r.off < Len(log[r.part])
    /\ \/ EventAt(r) \in ResultRejects \cup DltRejects
       \/ faults >= MaxDeliveries

(* What the faults have paid for when the drill is off. *)
FaultInv ==
    /\ \A p \in Partitions : DeliveriesPaid(p)
    /\ \A c \in Consumers : StragglerPaid(c)
    /\ \A r \in dropped : LossPaid(r)

LossInv == DrillPoint = None => FaultInv

(* The consumers that lost the partition and may still publish the record. *)
Stragglers(r) ==
    {c \in Consumers : /\ Busy(c) /\ pc[c] # "ack"
                       /\ current[c] = r /\ owner[r.part] # c}

(* The group, or the owner of the partition, has yet to deal with the      *)
(* record; an owner about to acknowledge it has dealt with it.             *)
StillToCome(r) ==
    IF owner[r.part] = None
    THEN committed[r.part] <= r.off
    ELSE /\ position[r.part] <= r.off
         /\ ~(pc[owner[r.part]] = "ack" /\ current[owner[r.part]] = r)

(* A copy that may yet be published is paid in advance. *)
CopiesPaid(r) ==
    dltTopic[r] + Cardinality(Stragglers(r))
                + (IF StillToCome(r) THEN 1 ELSE 0) <= 1 + faults

CopiesInv == \A r \in Records : CopiesPaid(r)

(* What every reachable state satisfies: its type, the invariant that      *)
(* positions, commits and what a consumer is doing agree with the outcomes *)
(* (onMessage, processMessage, rebalance), and the count of what losses    *)
(* and dead-letter copies have cost in faults.                             *)
Inv == TypeOK /\ IInv /\ LossInv /\ CopiesInv

-----------------------------------------------------------------------------
(* The promise: decisions are final, dead letters are kept, the committed  *)
(* offset only moves forward and only past settled records.                *)
Outcome == INSTANCE FraudOutcome WITH
    decision <- results,
    deadLettered <- DeadLettered,
    abandoned <- dropped,
    Decisions <- Statuses,
    Undecided <- None

ImplementsOutcome == Outcome!Spec

-----------------------------------------------------------------------------
(* Liveness. *)

(* With fewer faults than deliveries every record the pipeline can decode  *)
(* and store is handled in the end, through crashes, rebalances and the    *)
(* failures of single calls.                                               *)
EveryRecordHandled ==
    \A p \in Partitions, o \in 0 .. MaxLog - 1 :
        o < Len(log[p]) ~> o < Len(log[p]) /\ Handled(Offset(p, o))

(* The consumer lag returns to zero once publication and faults stop. *)
LagDrains == <>[](\A p \in Partitions : committed[p] = Len(log[p]))

-----------------------------------------------------------------------------
(* What documents say of the pipeline. *)

(* "No offset is committed before the database write succeeds, so silent   *)
(* event loss is avoided": every storable event below a committed offset   *)
(* has an outcome.                                                         *)
NoSilentEventLoss ==
    \A p \in Partitions : \A o \in 0 .. committed[p] - 1 :
        EventAt(Offset(p, o)) \notin ResultRejects => Handled(Offset(p, o))

(* "Missing required fields, or events that cannot be deserialized: kept   *)
(* in the DLT in preference to automatic retry."  Stated at its weakest:   *)
(* when the group has committed past an incomplete event and an            *)
(* undecodable one is in the topic, at least one of the two is stored as a *)
(* dead letter in the end.                                                 *)
MalformedEventIsDeadLettered ==
    \A p, q \in Partitions, o, u \in 0 .. MaxLog - 1 :
        (/\ o < committed[p]
         /\ EventAt(Offset(p, o)) \in ResultRejects
         /\ u < Len(log[q])
         /\ EventAt(Offset(q, u)) \in Undecodable)
            ~> {Offset(p, o), Offset(q, u)} \cap deadLetters # {}

(* "On a duplicate constraint while storing a dead letter the existing row *)
(* is read and returned", and the record goes on to be published.          *)
DuplicateDeadLetterIsPublished ==
    [][\A c \in Consumers :
          pc[c] = "dltInsert" /\ current[c] \in deadLetters /\ pc'[c] # pc[c]
              => pc'[c] = "dltPublish"]_vars
=============================================================================
