------------------------------- MODULE Intake -------------------------------
(***************************************************************************)
(* The API's intake: TransactionEventIntakeService stores a receipt,       *)
(* publishes the event to Kafka and records how that went, in one database *)
(* transaction with the send in the middle.  Several requests may carry    *)
(* the same eventId at the same time.                                      *)
(*                                                                         *)
(* PostgreSQL is external: an insert of an eventId whose row another       *)
(* transaction has inserted waits for the end of that transaction.         *)
(***************************************************************************)
EXTENDS Naturals

CONSTANTS
    Events,        \* events, identified by their eventId
    FutureEvents,  \* events more than five minutes ahead of the clock
    StoreRejects,  \* valid requests whose receipt a column is too narrow for
    Requests,      \* request threads of app-api
    None

CONSTANTS
    MaxRequests,   \* bound: requests
    MaxFaults      \* bound: failing calls and dying processes

ASSUME IntakeAssumption ==
    /\ FutureEvents \subseteq Events
    /\ StoreRejects \subseteq Events
    /\ MaxRequests \in Nat
    /\ MaxFaults \in Nat
    /\ None \notin Requests \cup Events \cup
          {"RECEIVED", "PUBLISHED", "PUBLISH_FAILED"}

Outcomes == {"ACCEPTED", "KAFKA_PUBLISH_FAILED", "DUPLICATE", "INVALID"}

ReceiptStatuses == {"RECEIVED", "PUBLISHED", "PUBLISH_FAILED"}

VARIABLES
    receipt,       \* committed receipt status per event, or None
    inserter,      \* the open transaction that inserted the event, or None
    topic,         \* copies of an event in transaction-events
    late,          \* sends that were given up but may still reach the topic

    pc,            \* what a request does next, or "idle"
    event,         \* its event, or None
    entity,        \* the status of its receipt entity, or None

    answered,      \* history: responses per event and outcome
    unsettled,     \* history: sends per event whose transaction rolled back
    requests,      \* number of requests so far
    faults         \* number of faults so far

requestVars == <<pc, event, entity>>

vars == <<receipt, inserter, topic, late, requestVars, answered, unsettled,
          requests, faults>>

Labels == {"exists", "insert", "publish", "update", "commit"}

TypeOK ==
    /\ receipt \in [Events -> ReceiptStatuses \cup {None}]
    /\ inserter \in [Events -> Requests \cup {None}]
    /\ topic \in [Events -> Nat]
    /\ late \in [Events -> Nat]
    /\ pc \in [Requests -> Labels \cup {"idle"}]
    /\ event \in [Requests -> Events \cup {None}]
    /\ entity \in [Requests -> ReceiptStatuses \cup {None}]
    /\ \A q \in Requests : pc[q] # "idle" => event[q] \in Events
    /\ \A q \in Requests : pc[q] \in {"publish", "update", "commit"} =>
          entity[q] \in ReceiptStatuses
    /\ answered \in [Events -> [Outcomes -> Nat]]
    /\ unsettled \in [Events -> Nat]
    /\ requests \in 0 .. MaxRequests
    /\ faults \in 0 .. MaxFaults

Init ==
    /\ receipt = [e \in Events |-> None]
    /\ inserter = [e \in Events |-> None]
    /\ topic = [e \in Events |-> 0]
    /\ late = [e \in Events |-> 0]
    /\ pc = [q \in Requests |-> "idle"]
    /\ event = [q \in Requests |-> None]
    /\ entity = [q \in Requests |-> None]
    /\ answered = [e \in Events |-> [o \in Outcomes |-> 0]]
    /\ unsettled = [e \in Events |-> 0]
    /\ requests = 0
    /\ faults = 0

-----------------------------------------------------------------------------
Goto(q, label) == pc' = [pc EXCEPT ![q] = label]

(* Faulty variant: the claim on the eventId outlives the transaction. *)
EndHoldingEventId(q) ==
    /\ Goto(q, "idle")
    /\ event' = [event EXCEPT ![q] = None]
    /\ entity' = [entity EXCEPT ![q] = None]
    /\ UNCHANGED inserter

(* The transaction of q ends, and with it its claim on the eventId. *)
End(q) ==
    /\ Goto(q, "idle")
    /\ event' = [event EXCEPT ![q] = None]
    /\ entity' = [entity EXCEPT ![q] = None]
    /\ inserter' = [e \in Events |-> IF inserter[e] = q THEN None ELSE inserter[e]]

Respond(q, o) == answered' = [answered EXCEPT ![event[q]][o] = @ + 1]

(* A request that fails before its receipt is stored is rolled back. *)
Refuse(q, o) ==
    /\ End(q)
    /\ Respond(q, o)
    /\ UNCHANGED <<receipt, topic, late, unsettled, requests, faults>>

Accept(q, e) ==
    /\ pc[q] = "idle"
    /\ requests < MaxRequests
    /\ requests' = requests + 1
    /\ Goto(q, "exists")
    /\ event' = [event EXCEPT ![q] = e]
    /\ UNCHANGED <<receipt, inserter, topic, late, entity, answered, unsettled,
                   faults>>

(* The lookup sees committed receipts only; validateEventTime follows it.  *)
ExistsByEventId(q) ==
    /\ pc[q] = "exists"
    /\ receipt[event[q]] = None
    /\ event[q] \notin FutureEvents
    /\ Goto(q, "insert")
    /\ UNCHANGED <<receipt, inserter, topic, late, event, entity, answered,
                   unsettled, requests, faults>>

RefuseDuplicate(q) ==
    /\ pc[q] = "exists"
    /\ receipt[event[q]] # None
    /\ Refuse(q, "DUPLICATE")

RefuseFuture(q) ==
    /\ pc[q] = "exists"
    /\ receipt[event[q]] = None
    /\ event[q] \in FutureEvents
    /\ Refuse(q, "INVALID")

(* Faulty variant: no unique constraint on event_id. *)
SaveReceivedReceiptUnguarded(q) ==
    /\ pc[q] = "insert"
    /\ entity' = [entity EXCEPT ![q] = "RECEIVED"]
    /\ Goto(q, "publish")
    /\ UNCHANGED <<receipt, inserter, topic, late, event, answered, unsettled,
                   requests, faults>>

(* saveAndFlush: waits for another transaction's insert of the eventId. *)
SaveReceivedReceipt(q) ==
    /\ pc[q] = "insert"
    /\ inserter[event[q]] = None
    /\ receipt[event[q]] = None
    /\ event[q] \notin StoreRejects
    /\ inserter' = [inserter EXCEPT ![event[q]] = q]
    /\ entity' = [entity EXCEPT ![q] = "RECEIVED"]
    /\ Goto(q, "publish")
    /\ UNCHANGED <<receipt, topic, late, event, answered, unsettled, requests,
                   faults>>

(* Faulty variant: an insert in another open transaction is a duplicate. *)
RefuseConflictEagerly(q) ==
    /\ pc[q] = "insert"
    /\ \/ inserter[event[q]] # None
       \/ receipt[event[q]] # None
       \/ event[q] \in StoreRejects
    /\ Refuse(q, "DUPLICATE")

(* A constraint violation of any kind is answered as a duplicate. *)
RefuseConflict(q) ==
    /\ pc[q] = "insert"
    /\ inserter[event[q]] = None
    /\ receipt[event[q]] # None \/ event[q] \in StoreRejects
    /\ Refuse(q, "DUPLICATE")

(* Faulty variant: the request does not wait for the broker. *)
PublishAsynchronously(q) ==
    /\ pc[q] = "publish"
    /\ entity' = [entity EXCEPT ![q] = "PUBLISHED"]
    /\ Goto(q, "update")
    /\ UNCHANGED <<receipt, inserter, topic, late, event, answered, unsettled,
                   requests, faults>>

(* Faulty variant: the receipt is not marked. *)
PublishUnmarked(q) ==
    /\ pc[q] = "publish"
    /\ topic' = [topic EXCEPT ![event[q]] = @ + 1]
    /\ Goto(q, "update")
    /\ UNCHANGED <<receipt, inserter, late, event, entity, answered, unsettled,
                   requests, faults>>

Publish(q) ==
    /\ pc[q] = "publish"
    /\ topic' = [topic EXCEPT ![event[q]] = @ + 1]
    /\ entity' = [entity EXCEPT ![q] = "PUBLISHED"]
    /\ Goto(q, "update")
    /\ UNCHANGED <<receipt, inserter, late, event, answered, unsettled, requests,
                   faults>>

Fault ==
    /\ faults < MaxFaults
    /\ faults' = faults + 1

(* The send fails, or is not confirmed within five seconds; in the latter  *)
(* case the producer goes on with it.                                      *)
PublishFails(q) ==
    /\ Fault
    /\ pc[q] = "publish"
    /\ late' \in {late, [late EXCEPT ![event[q]] = @ + 1]}
    /\ entity' = [entity EXCEPT ![q] = "PUBLISH_FAILED"]
    /\ Goto(q, "update")
    /\ UNCHANGED <<receipt, inserter, topic, event, answered, unsettled, requests>>

(* A record arrives that nobody waits for any more, or it never does.      *)
SendArrives(e) ==
    /\ late[e] > 0
    /\ late' = [late EXCEPT ![e] = @ - 1]
    /\ topic' = [topic EXCEPT ![e] = @ + 1]
    /\ UNCHANGED <<receipt, inserter, requestVars, answered, unsettled, requests,
                   faults>>

(* markPublished or markPublishFailed, and save. *)
SaveStatus(q) ==
    /\ pc[q] = "update"
    /\ Goto(q, "commit")
    /\ UNCHANGED <<receipt, inserter, topic, late, event, entity, answered,
                   unsettled, requests, faults>>

(* KafkaPublishFailedException commits as well (noRollbackFor). *)
Commit(q) ==
    /\ pc[q] = "commit"
    /\ receipt' = [receipt EXCEPT ![event[q]] = entity[q]]
    /\ Respond(q, IF entity[q] = "PUBLISHED" THEN "ACCEPTED"
                                             ELSE "KAFKA_PUBLISH_FAILED")
    /\ End(q)
    /\ UNCHANGED <<topic, late, unsettled, requests, faults>>

(* A database call fails or the process dies: nothing of the transaction   *)
(* stays but a send that may have happened, and the answer claims nothing. *)
Rollback(q) ==
    /\ Fault
    /\ pc[q] # "idle"
    /\ \E sent \in {0, 1} :
          /\ sent = 1 => pc[q] = "publish"
          /\ late' = [late EXCEPT ![event[q]] = @ + sent]
          /\ unsettled' = [unsettled EXCEPT ![event[q]] =
                @ + IF pc[q] \in {"update", "commit"} THEN 1 ELSE sent]
    /\ End(q)
    /\ UNCHANGED <<receipt, answered, topic, requests>>

(* The connection is lost after the database committed. *)
CommitUnconfirmed(q) ==
    /\ Fault
    /\ pc[q] = "commit"
    /\ receipt' = [receipt EXCEPT ![event[q]] = entity[q]]
    /\ End(q)
    /\ UNCHANGED <<topic, late, answered, unsettled, requests>>

-----------------------------------------------------------------------------
Step(q) ==
    \/ ExistsByEventId(q)
    \/ RefuseDuplicate(q)
    \/ RefuseFuture(q)
    \/ SaveReceivedReceipt(q)
    \/ RefuseConflict(q)
    \/ Publish(q)
    \/ SaveStatus(q)
    \/ Commit(q)

Next ==
    \/ \E q \in Requests, e \in Events : Accept(q, e)
    \/ \E q \in Requests : Step(q)
    \/ \E q \in Requests : PublishFails(q)
    \/ \E e \in Events : SendArrives(e)
    \/ \E q \in Requests : Rollback(q)
    \/ \E q \in Requests : CommitUnconfirmed(q)

Spec == Init /\ [][Next]_vars

(* A request thread keeps running, the five seconds of a send pass. *)
FairSpec == Spec /\ \A q \in Requests : WF_vars(Step(q))

-----------------------------------------------------------------------------
(* However many requests carry an eventId, at most one is told its         *)
(* outcome, and that is the outcome of the receipt; an accepted event is   *)
(* in the topic.  A refused one may be there too: 503 and PUBLISH_FAILED   *)
(* say that the send was not confirmed (accept answers after the commit).  *)
AcceptedOnceAndPublished ==
    \A e \in Events :
        /\ answered[e]["ACCEPTED"] + answered[e]["KAFKA_PUBLISH_FAILED"] <= 1
        /\ answered[e]["ACCEPTED"] = 1 => receipt[e] = "PUBLISHED"
        /\ answered[e]["KAFKA_PUBLISH_FAILED"] = 1 => receipt[e] = "PUBLISH_FAILED"
        /\ receipt[e] = "PUBLISHED" => topic[e] > 0

(* An event is sent to the topic once, whenever it arrives, except for     *)
(* sends whose transaction was lost: only those make the consumer see an   *)
(* eventId twice or an event without a receipt.                            *)
Settling(e) ==
    inserter[e] # None /\ pc[inserter[e]] \in {"update", "commit"}

CopiesAreReceipts ==
    \A e \in Events :
        topic[e] + late[e] <=
            unsettled[e] + (IF receipt[e] # None \/ Settling(e) THEN 1 ELSE 0)

(* A receipt, once committed, keeps its status, and it is never RECEIVED:  *)
(* no failure leaves an event that neither went out nor was refused.       *)
ReceiptIsFinal ==
    [][\A e \in Events :
          receipt'[e] # receipt[e] =>
              receipt[e] = None /\ receipt'[e] \in {"PUBLISHED", "PUBLISH_FAILED"}]_vars

(* A storable event is refused as a duplicate only if it has a receipt,    *)
(* also when the request it lost against rolled back.                      *)
ConflictIsJustified ==
    \A e \in Events \ StoreRejects : answered[e]["DUPLICATE"] > 0 => receipt[e] # None

(* What a request's progress says of its event: after its insert it is the *)
(* one transaction that holds the eventId, there is no receipt yet, and a  *)
(* receipt it will commit as PUBLISHED has been sent.                      *)
RequestOK(q) ==
    LET e == event[q] IN
    /\ pc[q] \in {"publish", "update", "commit"} =>
          inserter[e] = q /\ receipt[e] = None
    /\ pc[q] \in {"update", "commit"} =>
          /\ entity[q] \in {"PUBLISHED", "PUBLISH_FAILED"}
          /\ entity[q] = "PUBLISHED" => topic[e] > 0

RequestInv == \A q \in Requests : pc[q] # "idle" => RequestOK(q)

InserterInv ==
    \A e \in Events : inserter[e] # None =>
        /\ event[inserter[e]] = e
        /\ pc[inserter[e]] \in {"publish", "update", "commit"}

AnswerInv ==
    \A e \in Events :
        receipt[e] = None =>
            answered[e]["ACCEPTED"] = 0 /\ answered[e]["KAFKA_PUBLISH_FAILED"] = 0

(* The strengthening that is inductive: an eventId has one open inserter,  *)
(* and no receipt and no answer while it has one (saveAndFlush and the     *)
(* unique constraint).                                                     *)
IInv == RequestInv /\ InserterInv /\ AnswerInv /\ AcceptedOnceAndPublished
            /\ CopiesAreReceipts /\ ConflictIsJustified

(* What every reachable state satisfies: its type, and the invariant that  *)
(* a request's progress agrees with the receipt of its event               *)
(* (accept, saveReceivedReceipt).                                          *)
Inv == TypeOK /\ IInv

(* Requests do not wait for one another for ever. *)
RequestsEnd ==
    \A q \in Requests : pc[q] # "idle" ~> pc[q] = "idle"
=============================================================================
