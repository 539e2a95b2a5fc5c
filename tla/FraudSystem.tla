----------------------------- MODULE FraudSystem -----------------------------
(***************************************************************************)
(* The composition: intake, consumers and the administration of the dead   *)
(* letters, in a live and a replay deployment that share one database.     *)
(*                                                                         *)
(* The administration is DltAdmin, call by call.  A request to the intake  *)
(* and the delivery of a record are one step each, with the outcomes that  *)
(* Intake and FraudConsumer allow them.                                    *)
(***************************************************************************)
EXTENDS DltAdmin, FiniteSets

CONSTANTS
    Events,        \* events, by their eventId
    EventOf        \* the event of a row

Modes == {"LIVE", "REPLAY"}

Topics == {"transaction-events", "transaction-events-replay"}

Groups == {"fraud-event-consumer", "fraud-event-replay-consumer"}

Namespaces == {"live", "replay"}

ASSUME SystemAssumption ==
    /\ EventOf \in [Rows -> Events]
    /\ None \notin Events \cup Modes

ASSUME SourceAssumption == None \notin Topics \X Nat

VARIABLES
    receipt,       \* the mode of the API that stored the event's receipt, or None
    records,       \* records of an event in a topic
    adrift,        \* sends of the intake that were given up but may arrive
    orphans,       \* history: sends of requests that were rolled back
    handled,       \* records of an event a group has committed in a topic
    source,        \* source topic and offset of a row, or None
    window,        \* history: events recorded under a Redis namespace
    result,        \* the mode of the consumer that decided the event, or None
    givenUp,       \* history: records per event the error handler gave up
    streamFaults   \* number of faults of intake and consumers so far

streamVars == <<receipt, records, adrift, orphans, handled, source, window, result,
                givenUp, streamFaults>>

systemVars == <<vars, streamVars>>

SystemTypeOK ==
    /\ TypeOK
    /\ receipt \in [Events -> Modes \cup {None}]
    /\ records \in [Topics -> [Events -> Nat]]
    /\ adrift \in [Topics -> [Events -> Nat]]
    /\ orphans \in [Topics -> [Events -> Nat]]
    /\ handled \in [Groups -> [Topics -> [Events -> Nat]]]
    /\ source \in [Rows -> (Topics \X Nat) \cup {None}]
    /\ window \in [Namespaces -> SUBSET Events]
    /\ result \in [Events -> Modes \cup {None}]
    /\ givenUp \in [Events -> Nat]
    /\ streamFaults \in 0 .. MaxFaults

SystemInit ==
    /\ Init
    /\ receipt = [e \in Events |-> None]
    /\ records = [t \in Topics |-> [e \in Events |-> 0]]
    /\ adrift = [t \in Topics |-> [e \in Events |-> 0]]
    /\ orphans = [t \in Topics |-> [e \in Events |-> 0]]
    /\ handled = [g \in Groups |-> [t \in Topics |-> [e \in Events |-> 0]]]
    /\ source = [d \in Rows |-> None]
    /\ window = [n \in Namespaces |-> {}]
    /\ result = [e \in Events |-> None]
    /\ givenUp = [e \in Events |-> 0]
    /\ streamFaults = 0

-----------------------------------------------------------------------------
(* A service starts with any configuration; the validators of both         *)
(* services let two of them through.                                       *)

ProducerConfigs == [mode: Modes, topic: Topics]

ConsumerConfigs == [mode: Modes, topic: Topics, group: Groups, namespace: Namespaces]

ValidProducer(c) ==
    c \in {[mode |-> "LIVE", topic |-> "transaction-events"],
           [mode |-> "REPLAY", topic |-> "transaction-events-replay"]}

ValidConsumer(c) ==
    c \in {[mode |-> "LIVE", topic |-> "transaction-events",
            group |-> "fraud-event-consumer", namespace |-> "live"],
           [mode |-> "REPLAY", topic |-> "transaction-events-replay",
            group |-> "fraud-event-replay-consumer", namespace |-> "replay"]}

-----------------------------------------------------------------------------
(* The intake. *)

(* MaxFaults bounds all faults together. *)
StreamFault ==
    /\ faults + streamFaults < MaxFaults
    /\ streamFaults' = streamFaults + 1

(* Faulty variant: the receipts of the other mode are not looked at. *)
AcceptPerMode(c, e) ==
    /\ ValidProducer(c)
    /\ receipt[e] # c.mode
    /\ receipt' = [receipt EXCEPT ![e] = c.mode]
    /\ records' = [records EXCEPT ![c.topic][e] = @ + 1]
    /\ UNCHANGED <<vars, adrift, orphans, handled, source, window, result,
                   givenUp, streamFaults>>

Accept(c, e) ==
    /\ ValidProducer(c)
    /\ receipt[e] = None
    /\ receipt' = [receipt EXCEPT ![e] = c.mode]
    /\ records' = [records EXCEPT ![c.topic][e] = @ + 1]
    /\ UNCHANGED <<vars, adrift, orphans, handled, source, window, result,
                   givenUp, streamFaults>>

(* The send fails, or is given up unconfirmed; PUBLISH_FAILED is stored,   *)
(* or the transaction is rolled back as well.                              *)
AcceptFails(c, e) ==
    /\ StreamFault
    /\ ValidProducer(c)
    /\ receipt[e] = None
    /\ \E sent \in {0, 1} :
          /\ adrift' = [adrift EXCEPT ![c.topic][e] = @ + sent]
          /\ \/ receipt' = [receipt EXCEPT ![e] = c.mode] /\ UNCHANGED orphans
             \/ /\ orphans' = [orphans EXCEPT ![c.topic][e] = @ + sent]
                /\ UNCHANGED receipt
    /\ UNCHANGED <<vars, records, handled, source, window, result, givenUp>>

(* A record arrives that no request waits for any more, or it never does.  *)
EventArrives(t, e) ==
    /\ adrift[t][e] > 0
    /\ adrift' = [adrift EXCEPT ![t][e] = @ - 1]
    /\ records' = [records EXCEPT ![t][e] = @ + 1]
    /\ UNCHANGED <<vars, receipt, orphans, handled, source, window, result,
                   givenUp, streamFaults>>

-----------------------------------------------------------------------------
(* A consumer processes a record of e. *)

Waiting(c, e) == handled[c.group][c.topic][e] < records[c.topic][e]

Delivered(c, e) ==
    /\ ValidConsumer(c)
    /\ Waiting(c, e)

Acknowledge(c, e) == handled' = [handled EXCEPT ![c.group][c.topic][e] = @ + 1]

(* Redis may fail, and a live event be too late. *)
RecordWindow(c, e) ==
    \/ window' = [window EXCEPT ![c.namespace] = @ \cup {e}]
    \/ UNCHANGED window

(* Faulty variant: the record is skipped, but not acknowledged. *)
SkipDuplicateUnacknowledged(c, e) ==
    /\ Delivered(c, e)
    /\ result[e] # None
    /\ UNCHANGED systemVars

(* The precheck finds the result, or the unique key does, after the window *)
(* was recorded.                                                           *)
SkipDuplicate(c, e) ==
    /\ Delivered(c, e)
    /\ result[e] # None
    /\ RecordWindow(c, e)
    /\ Acknowledge(c, e)
    /\ UNCHANGED <<vars, receipt, records, adrift, orphans, source, result,
                   givenUp, streamFaults>>

Decide(c, e) ==
    /\ Delivered(c, e)
    /\ result[e] = None
    /\ RecordWindow(c, e)
    /\ result' = [result EXCEPT ![e] = c.mode]
    /\ Acknowledge(c, e)
    /\ UNCHANGED <<vars, receipt, records, adrift, orphans, source, givenUp,
                   streamFaults>>

Position(c, e) == <<c.topic, handled[c.group][c.topic][e] + 1>>

(* Faulty variant: a record that comes again gets another row. *)
StoreRowAgain(c, e, d) ==
    /\ EventOf[d] = e
    /\ RecordFailure(d)
    /\ source' = [source EXCEPT ![d] = Position(c, e)]

(* The record has a row of its own, for its own offset, even if it is      *)
(* itself a reprocessed dead letter; the row is found or stored.           *)
StoreRow(c, e, d) ==
    /\ EventOf[d] = e
    /\ \/ source[d] = Position(c, e) /\ UNCHANGED <<vars, source>>
       \/ /\ \A x \in Rows : EventOf[x] = e => source[x] # Position(c, e)
          /\ RecordFailure(d)
          /\ source' = [source EXCEPT ![d] = Position(c, e)]

(* The rules fail. *)
DeadLetter(c, e, d) ==
    /\ Delivered(c, e)
    /\ result[e] = None
    /\ RecordWindow(c, e)
    /\ StoreRow(c, e, d)
    /\ Acknowledge(c, e)
    /\ UNCHANGED <<receipt, records, adrift, orphans, result, givenUp,
                   streamFaults>>

RowPerhapsStored(c, e) ==
    \/ UNCHANGED <<vars, source>>
    \/ \E d \in Rows : StoreRow(c, e, d)

(* A delivery that fails may have recorded the window, and then the row of *)
(* the record or the result.                                               *)
FailedDelivery(c, e) ==
    /\ StreamFault
    /\ Delivered(c, e)
    /\ \/ UNCHANGED <<vars, source, window, result>>
       \/ /\ result[e] = None
          /\ RecordWindow(c, e)
          /\ \/ RowPerhapsStored(c, e) /\ UNCHANGED result
             \/ UNCHANGED <<vars, source>> /\ result' = [result EXCEPT ![e] = c.mode]
    /\ UNCHANGED <<receipt, records, adrift, orphans>>

(* The record comes again. *)
DeliveryFails(c, e) ==
    /\ FailedDelivery(c, e)
    /\ UNCHANGED <<handled, givenUp>>

(* The error handler gives the record up. *)
GiveUp(c, e) ==
    /\ FailedDelivery(c, e)
    /\ Acknowledge(c, e)
    /\ givenUp' = [givenUp EXCEPT ![e] = @ + 1]

-----------------------------------------------------------------------------
(* The administration. *)

(* Faulty variant: dead letters are published to the live topic again. *)
ReprocessTopicLive(d) == "transaction-events"

(* A dead letter is published to the topic it came from. *)
ReprocessTopic(d) == source[d][1]

(* A copy of a row is a record of the event in that topic.                 *)
CopyArrives(d) ==
    records' = [records EXCEPT ![ReprocessTopic(d)][EventOf[d]] = @ + 1]

-----------------------------------------------------------------------------
Consume(c) ==
    \E e \in Events :
        \/ SkipDuplicate(c, e)
        \/ Decide(c, e)
        \/ \E d \in Rows : DeadLetter(c, e, d)

Administer(q) ==
    /\ \/ \E d \in Rows : Reprocess(q, d) \/ Discard(q, d)
       \/ PublishFails(q)
       \/ Rollback(q)
       \/ CommitUnconfirmed(q)
    /\ faults' + streamFaults <= MaxFaults
    /\ UNCHANGED streamVars

AdminStep(q) ==
    /\ \/ Publish(q) /\ CopyArrives(row[q])
       \/ (RecordDltAction(q) \/ Commit(q)) /\ UNCHANGED records
    /\ UNCHANGED <<receipt, adrift, orphans, handled, source, window, result,
                   givenUp, streamFaults>>

LateCopyArrives(d) ==
    /\ SendArrives(d)
    /\ CopyArrives(d)
    /\ UNCHANGED <<receipt, adrift, orphans, handled, source, window, result,
                   givenUp, streamFaults>>

SystemNext ==
    \/ \E c \in ProducerConfigs, e \in Events : Accept(c, e) \/ AcceptFails(c, e)
    \/ \E t \in Topics, e \in Events : EventArrives(t, e)
    \/ \E c \in ConsumerConfigs : Consume(c)
    \/ \E c \in ConsumerConfigs, e \in Events : DeliveryFails(c, e) \/ GiveUp(c, e)
    \/ \E q \in Requests : Administer(q) \/ AdminStep(q)
    \/ \E d \in Rows : LateCopyArrives(d)

Consumers == {c \in ConsumerConfigs : ValidConsumer(c)}

SystemSpec == SystemInit /\ [][SystemNext]_systemVars

(* Both deployments keep a consumer running, and requests go on.           *)
SystemFairSpec ==
    /\ SystemSpec
    /\ \A c \in Consumers : WF_systemVars(Consume(c))
    /\ \A q \in Requests : WF_systemVars(AdminStep(q))

-----------------------------------------------------------------------------
ModeOf(t) == IF t = "transaction-events" THEN "LIVE" ELSE "REPLAY"

NamespaceOf(t) == IF t = "transaction-events" THEN "live" ELSE "replay"

(* An API of the topic's mode has taken the event. *)
Taken(t, e) == receipt[e] = ModeOf(t) \/ orphans[t][e] > 0

(* Historical replay leaves the live stream alone, and the other way       *)
(* round: an event is in the topic, in the window, in the offsets and in   *)
(* the results of a mode only if an API of that mode has taken it, however *)
(* often its dead letters are reprocessed by whichever API.  Both modes    *)
(* write one table of results, so an event that has the receipt of one is  *)
(* decided by the other only if a request to the other was rolled back     *)
(* (FraudStreamConfig, DeadLetterReprocessPublisher, the shared receipts). *)
StreamsAreIsolated ==
    \A t \in Topics, e \in Events :
        /\ \/ records[t][e] + adrift[t][e] > 0
           \/ e \in window[NamespaceOf(t)]
           \/ result[e] = ModeOf(t)
           => Taken(t, e)
        /\ \A g \in Groups : handled[g][t][e] > 0 =>
              Taken(t, e) /\ (g = "fraud-event-consumer" <=> ModeOf(t) = "LIVE")

(* A row has the topic of a record of its event. *)
SourceInv ==
    \A d \in Rows : status[d] # "ABSENT" =>
        source[d] \in Topics \X Nat /\ records[source[d][1]][EventOf[d]] > 0

RowsOf(e) == {d \in Rows : EventOf[d] = e /\ status[d] # "ABSENT"}

InBothTopics(count, e) ==
    count["transaction-events"][e] + count["transaction-events-replay"][e]

HandledOf(e) ==
    InBothTopics(handled["fraud-event-consumer"], e)
        + InBothTopics(handled["fraud-event-replay-consumer"], e)

(* An API has taken the event and kept its receipt. *)
Receipts(e) == IF receipt[e] = None THEN 0 ELSE 1

(* The numbers n of some rows, as a set of that many members. *)
Counted(rows, n) == UNION {{d} \X (1 .. n[d]) : d \in rows}

(* The copies that operators have added to the records of e, and those of  *)
(* them that a transaction sent that did not commit.                       *)
CopiesOf(e) == Counted(RowsOf(e), topic)

HiddenOf(e) == Counted(RowsOf(e), unsettled)

GroupOf(t) ==
    IF t = "transaction-events" THEN "fraud-event-consumer"
    ELSE "fraud-event-replay-consumer"

(* The rows whose record the group of its topic has passed. *)
PassedRows(e) ==
    {d \in RowsOf(e) : source[d][2] <= handled[GroupOf(source[d][1])][source[d][1]][e]}

(* A row is of a record, and no record has two. *)
OffsetInv ==
    /\ \A d \in Rows : status[d] = "ABSENT" => source[d] = None
    /\ \A e \in Events :
          /\ IsFiniteSet(RowsOf(e))
          /\ \A x, y \in RowsOf(e) : source[x] = source[y] => x = y
          /\ \A d \in RowsOf(e) : source[d][2] \in 1 .. records[source[d][1]][e]

(* An undecided record is passed only with a row of its own or given up,   *)
(* whatever rows deliveries that failed have stored ahead of the group.    *)
ProgressInv ==
    \A e \in Events :
        /\ \A g \in Groups, t \in Topics : handled[g][t][e] <= records[t][e]
        /\ result[e] = None =>
              HandledOf(e) <= Cardinality(PassedRows(e)) + givenUp[e]

(* Every record is of the receipt, of a rolled back request or a copy. *)
OriginInv ==
    \A e \in Events :
        InBothTopics(records, e) + InBothTopics(adrift, e)
            <= Receipts(e) + InBothTopics(orphans, e) + Cardinality(CopiesOf(e))

AccountInv == OffsetInv /\ ProgressInv /\ OriginInv

(* What every reachable state satisfies; with StreamsAreIsolated it is     *)
(* inductive (recordFailure stores the topic that reprocess publishes to). *)
SystemInv == SystemTypeOK /\ IInv /\ SourceInv /\ AccountInv

(* Nothing vanishes and nothing multiplies.  Until an event is decided     *)
(* each record of it that a group has passed has a dead letter of its own  *)
(* or was given up, and no record has two, however often it was delivered. *)
(* Of the records an operator has added there are at most the attempts of  *)
(* the dead letters and those a rollback hid: the limit on attempts per    *)
(* row is a limit per failed record, not per event (recordFailure against  *)
(* reprocess).                                                             *)
RecordsAreAccounted ==
    \A e \in Events :
        LET rows == RowsOf(e)
            all == InBothTopics(records, e)
            working == {d \in rows : InFlight(d)}
        IN
        /\ result[e] = None => HandledOf(e) <= Cardinality(rows) + givenUp[e]
        /\ \A x, y \in rows : source[x] = source[y] => x = y
        /\ \A d \in rows : source[d][2] \in 1 .. records[source[d][1]][e]
        /\ HandledOf(e) <= all
        /\ all <= Receipts(e) + InBothTopics(orphans, e)
                     + MaxAttempts * Cardinality(rows)
                     + Cardinality(HiddenOf(e)) + Cardinality(working)

(* A consumer catches up whatever its lag, with the records of reprocessed *)
(* dead letters among it: an operator who reprocesses one gets a decision  *)
(* or a new dead letter (reprocess publishes, the group follows its lag).  *)
RecordsAreHandled ==
    \A c \in Consumers :
        (\E e \in Events : Waiting(c, e)) ~> (\A e \in Events : ~Waiting(c, e))
=============================================================================
