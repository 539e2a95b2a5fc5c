------------------------------ MODULE DltAdmin ------------------------------
(***************************************************************************)
(* The operators' side of the dead letters: DeadLetterEventAdminService in *)
(* app-api reprocesses a dead letter (publishes its payload to its source  *)
(* topic again) or discards it, and audits what it did.                    *)
(*                                                                         *)
(* A request is one database transaction with a Kafka send in the middle.  *)
(* It works on an entity of its own, read under a row lock, which only the *)
(* commit writes back; the send cannot be undone.                          *)
(***************************************************************************)
EXTENDS Naturals

CONSTANTS
    Rows,          \* rows of dead_letter_events
    Unusable,      \* rows whose source topic or payload cannot be reprocessed
    Requests,      \* request threads of app-api
    MaxAttempts,   \* dlt.reprocess.max-attempts
    None

CONSTANTS
    MaxRequests,   \* bound: requests
    MaxFaults      \* bound: failing calls and dying processes

ASSUME DltAssumption ==
    /\ Unusable \subseteq Rows
    /\ MaxAttempts \in Nat
    /\ MaxRequests \in Nat
    /\ MaxFaults \in Nat
    /\ None \notin Requests \cup Rows \cup
          {"reprocessed", "discarded", "publish_failed", "not_reprocessable",
           "rejected"}

VARIABLES
    status,        \* committed status per row, "ABSENT" before it is stored
    attempts,      \* committed reprocess_attempts per row
    audits,        \* committed admin_audit_logs: number per row and outcome
    topic,         \* copies of the row's payload in its source topic
    late,          \* sends that were given up but may still reach the topic
    lock           \* the request that holds the row lock, or None

dbVars == <<status, attempts, audits, lock>>

VARIABLES
    pc,            \* what a request does next, or "idle"
    row,           \* its row, or None
    entity,        \* its entity: status and attempts
    outcome,       \* the outcome it audits, or None
    requests,      \* number of requests so far
    unsettled,     \* history: sends per row whose transaction did not commit
    faults         \* number of faults so far

requestVars == <<pc, row, entity, outcome>>

vars == <<dbVars, topic, late, requestVars, requests, unsettled, faults>>

Statuses == {"PENDING", "REPROCESSING", "REPROCESSED", "DISCARDED",
             "REPROCESS_FAILED"}

Terminal == {"REPROCESSED", "DISCARDED"}

(* SUCCESS and FAILED results, with the resultReason of the metadata. *)
Outcomes == {"reprocessed", "discarded", "publish_failed", "not_reprocessable",
             "rejected"}

Attempted == {"reprocessed", "publish_failed", "not_reprocessable"}

Labels == {"publish", "audit", "commit"}

Entities == [status: Statuses \cup {"ABSENT"}, attempts: Nat]

TypeOK ==
    /\ status \in [Rows -> Statuses \cup {"ABSENT"}]
    /\ attempts \in [Rows -> Nat]
    /\ audits \in [Rows -> [Outcomes -> Nat]]
    /\ topic \in [Rows -> Nat]
    /\ late \in [Rows -> Nat]
    /\ lock \in [Rows -> Requests \cup {None}]
    /\ pc \in [Requests -> Labels \cup {"idle"}]
    /\ row \in [Requests -> Rows \cup {None}]
    /\ entity \in [Requests -> Entities \cup {None}]
    /\ outcome \in [Requests -> Outcomes \cup {None}]
    /\ \A q \in Requests : pc[q] # "idle" =>
          row[q] \in Rows /\ entity[q] \in Entities
    /\ \A q \in Requests : pc[q] \in {"audit", "commit"} => outcome[q] \in Outcomes
    /\ requests \in 0 .. MaxRequests
    /\ unsettled \in [Rows -> Nat]
    /\ faults \in 0 .. MaxFaults

Init ==
    /\ status = [d \in Rows |-> "ABSENT"]
    /\ attempts = [d \in Rows |-> 0]
    /\ audits = [d \in Rows |-> [o \in Outcomes |-> 0]]
    /\ topic = [d \in Rows |-> 0]
    /\ late = [d \in Rows |-> 0]
    /\ lock = [d \in Rows |-> None]
    /\ pc = [q \in Requests |-> "idle"]
    /\ row = [q \in Requests |-> None]
    /\ entity = [q \in Requests |-> None]
    /\ outcome = [q \in Requests |-> None]
    /\ requests = 0
    /\ unsettled = [d \in Rows |-> 0]
    /\ faults = 0

-----------------------------------------------------------------------------
(* The entity. *)

CanRetry(s) == s \in {"PENDING", "REPROCESS_FAILED"}

(* Faulty variant: one attempt more than configured. *)
AttemptsLeftOffByOne(d) == attempts[d] <= MaxAttempts

AttemptsLeft(d) == attempts[d] < MaxAttempts

Stored(d) == [status |-> status[d], attempts |-> attempts[d]]

Started(d) == [status |-> "REPROCESSING", attempts |-> attempts[d] + 1]

MarkReprocessed(t) == [t EXCEPT !.status = "REPROCESSED"]

(* Faulty variant: the conflict branch leaves the state alone. *)
MarkReprocessFailedForgotten(t) == t

MarkReprocessFailed(t) == [t EXCEPT !.status = "REPROCESS_FAILED"]

Discarded(t) == [t EXCEPT !.status = "DISCARDED"]

-----------------------------------------------------------------------------
(* The consumer stores a dead letter; it starts as PENDING. *)
RecordFailure(d) ==
    /\ status[d] = "ABSENT"
    /\ status' = [status EXCEPT ![d] = "PENDING"]
    /\ UNCHANGED <<attempts, audits, lock, topic, late, requestVars, requests,
                   unsettled, faults>>

(* Faulty variant: a plain read, so two requests may hold the row. *)
FindByIdUnlocked(q, d) ==
    /\ pc[q] = "idle"
    /\ requests < MaxRequests
    /\ requests' = requests + 1
    /\ status[d] # "ABSENT"
    /\ lock' = [lock EXCEPT ![d] = q]
    /\ row' = [row EXCEPT ![q] = d]

(* findByIdForUpdate: the row lock makes a second request wait. *)
FindByIdForUpdate(q, d) ==
    /\ pc[q] = "idle"
    /\ requests < MaxRequests
    /\ requests' = requests + 1
    /\ status[d] # "ABSENT"
    /\ lock[d] = None
    /\ lock' = [lock EXCEPT ![d] = q]
    /\ row' = [row EXCEPT ![q] = d]

(* The request goes on with entity t to label, to audit o.                 *)
Continue(q, label, t, o) ==
    /\ pc' = [pc EXCEPT ![q] = label]
    /\ entity' = [entity EXCEPT ![q] = t]
    /\ outcome' = [outcome EXCEPT ![q] = o]

(***************************************************************************)
(* reprocess up to the send: the attempts are checked before the state,    *)
(* and both before the topic and payload, which fail an attempt that has   *)
(* been started.                                                           *)
(***************************************************************************)
Reprocess(q, d) ==
    /\ FindByIdForUpdate(q, d)
    /\ \/ /\ ~AttemptsLeft(d) \/ ~CanRetry(status[d])
          /\ Continue(q, "audit", Stored(d), "rejected")
       \/ /\ AttemptsLeft(d)
          /\ CanRetry(status[d])
          /\ d \in Unusable
          /\ Continue(q, "audit", MarkReprocessFailed(Started(d)),
                      "not_reprocessable")
       \/ /\ AttemptsLeft(d)
          /\ CanRetry(status[d])
          /\ d \notin Unusable
          /\ Continue(q, "publish", Started(d), None)
    /\ UNCHANGED <<status, attempts, audits, topic, late, unsettled, faults>>

Discard(q, d) ==
    /\ FindByIdForUpdate(q, d)
    /\ IF CanRetry(status[d])
       THEN Continue(q, "audit", Discarded(Stored(d)), "discarded")
       ELSE Continue(q, "audit", Stored(d), "rejected")
    /\ UNCHANGED <<status, attempts, audits, topic, late, unsettled, faults>>

Publish(q) ==
    /\ pc[q] = "publish"
    /\ topic' = [topic EXCEPT ![row[q]] = @ + 1]
    /\ Continue(q, "audit", MarkReprocessed(entity[q]), "reprocessed")
    /\ UNCHANGED <<dbVars, late, row, requests, unsettled, faults>>

Fault ==
    /\ faults < MaxFaults
    /\ faults' = faults + 1

(* The send fails, or is not confirmed within five seconds; in the latter  *)
(* case the producer goes on with it.                                      *)
PublishFails(q) ==
    /\ Fault
    /\ pc[q] = "publish"
    /\ late' \in {late, [late EXCEPT ![row[q]] = @ + 1]}
    /\ Continue(q, "audit", MarkReprocessFailed(entity[q]), "publish_failed")
    /\ UNCHANGED <<dbVars, topic, row, requests, unsettled>>

(* A record arrives that nobody waits for any more, or it never does.      *)
SendArrives(d) ==
    /\ late[d] > 0
    /\ late' = [late EXCEPT ![d] = @ - 1]
    /\ topic' = [topic EXCEPT ![d] = @ + 1]
    /\ UNCHANGED <<dbVars, requestVars, requests, unsettled, faults>>

(* The audit row is inserted in the request's transaction. *)
RecordDltAction(q) ==
    /\ pc[q] = "audit"
    /\ Continue(q, "commit", entity[q], outcome[q])
    /\ UNCHANGED <<dbVars, topic, late, row, requests, unsettled, faults>>

(* Faulty variant: the lock outlives the transaction. *)
EndKeepingLock(q) ==
    /\ UNCHANGED lock
    /\ row' = [row EXCEPT ![q] = None]
    /\ Continue(q, "idle", None, None)

(* The transaction ends: the lock is released, the entity forgotten.       *)
End(q) ==
    /\ lock' = [d \in Rows |-> IF lock[d] = q THEN None ELSE lock[d]]
    /\ row' = [row EXCEPT ![q] = None]
    /\ Continue(q, "idle", None, None)

(* Faulty variant: a failed attempt is audited, but its entity discarded. *)
WriteBackFailureLost(q) ==
    /\ audits' = [audits EXCEPT ![row[q]][outcome[q]] = @ + 1]
    /\ IF outcome[q] \in {"reprocessed", "discarded"}
       THEN /\ status' = [status EXCEPT ![row[q]] = entity[q].status]
            /\ attempts' = [attempts EXCEPT ![row[q]] = entity[q].attempts]
       ELSE UNCHANGED <<status, attempts>>

WriteBack(q) ==
    /\ status' = [status EXCEPT ![row[q]] = entity[q].status]
    /\ attempts' = [attempts EXCEPT ![row[q]] = entity[q].attempts]
    /\ audits' = [audits EXCEPT ![row[q]][outcome[q]] = @ + 1]

(* An ApiException commits as well (noRollbackFor). *)
Commit(q) ==
    /\ pc[q] = "commit"
    /\ WriteBack(q)
    /\ End(q)
    /\ UNCHANGED <<topic, late, requests, unsettled, faults>>

(* The audit insert or the commit fails, or the process dies: nothing of   *)
(* the transaction stays, except that the send may have happened.          *)
Rollback(q) ==
    /\ Fault
    /\ pc[q] # "idle"
    /\ \E sent \in {0, 1} :
          /\ sent = 1 => pc[q] = "publish"
          /\ late' = [late EXCEPT ![row[q]] = @ + sent]
          /\ unsettled' = [unsettled EXCEPT ![row[q]] =
                @ + (IF outcome[q] \in {"reprocessed", "publish_failed"}
                     THEN 1 ELSE sent)]
    /\ End(q)
    /\ UNCHANGED <<status, attempts, audits, topic, requests>>

(* The connection is lost after the database committed. *)
CommitUnconfirmed(q) ==
    /\ Fault
    /\ pc[q] = "commit"
    /\ WriteBack(q)
    /\ End(q)
    /\ UNCHANGED <<topic, late, requests, unsettled>>

-----------------------------------------------------------------------------
Step(q) == Publish(q) \/ RecordDltAction(q) \/ Commit(q)

Next ==
    \/ \E d \in Rows : RecordFailure(d)
    \/ \E q \in Requests, d \in Rows : Reprocess(q, d)
    \/ \E q \in Requests, d \in Rows : Discard(q, d)
    \/ \E q \in Requests : Step(q)
    \/ \E q \in Requests : PublishFails(q)
    \/ \E d \in Rows : SendArrives(d)
    \/ \E q \in Requests : Rollback(q)
    \/ \E q \in Requests : CommitUnconfirmed(q)

Spec == Init /\ [][Next]_vars

(* A request thread keeps running. *)
FairSpec == Spec /\ \A q \in Requests : WF_vars(Step(q))

-----------------------------------------------------------------------------
(* Sends of the row's payload, arrived or on their way. *)
Sends(d) == topic[d] + late[d]

(* REPROCESSED and DISCARDED are final, whatever requests run at the same  *)
(* time, and no request sends the payload any more (reprocess and discard  *)
(* read the row under the same lock).  A send that was given up before may *)
(* still arrive after the row was discarded.                               *)
TerminalIsFinal ==
    [][\A d \in Rows : status[d] \in Terminal =>
          status'[d] = status[d] /\ Sends(d)' = Sends(d)]_vars

(* The audit log tells the truth about the row: one success for a terminal *)
(* state and none before, and one entry for each attempt.                  *)
AuditAgrees ==
    \A d \in Rows :
        /\ audits[d]["reprocessed"] = IF status[d] = "REPROCESSED" THEN 1 ELSE 0
        /\ audits[d]["discarded"] = IF status[d] = "DISCARDED" THEN 1 ELSE 0
        /\ attempts[d] = audits[d]["reprocessed"] + audits[d]["publish_failed"]
                             + audits[d]["not_reprocessable"]

(* Every copy in the source topic, or on its way to it, is an attempt of   *)
(* the row, of a request in progress, or of one whose transaction did not  *)
(* commit: the limit on attempts limits the copies up to faults between    *)
(* send and commit.                                                        *)
InFlight(d) == lock[d] # None /\ outcome[lock[d]] \in {"reprocessed", "publish_failed"}

CopiesAreAttempts ==
    \A d \in Rows :
        /\ Sends(d) <= attempts[d] + unsettled[d] + (IF InFlight(d) THEN 1 ELSE 0)
        /\ attempts[d] <= MaxAttempts
        /\ status[d] = "REPROCESSED" => topic[d] > 0

(* REPROCESSING exists only inside a transaction: no failure leaves a row  *)
(* in a state from which neither reprocess nor discard leads on.           *)
NeverStuckReprocessing ==
    \A d \in Rows : status[d] # "REPROCESSING"

(* What a request's progress says of its row: it holds the row's lock, and *)
(* unless it was rejected the row may still be changed, its entity is the  *)
(* row's next state and a success has been sent.                           *)
RequestOK(q) ==
    LET d == row[q]
        t == entity[q]
    IN
    /\ lock[d] = q
    /\ status[d] # "ABSENT"
    /\ pc[q] = "publish" <=> outcome[q] = None
    /\ outcome[q] = "rejected" => t.status = status[d] /\ t.attempts = attempts[d]
    /\ outcome[q] # "rejected" => CanRetry(status[d])
    /\ outcome[q] = "discarded" => t.status = "DISCARDED" /\ t.attempts = attempts[d]
    /\ outcome[q] \in Attempted \cup {None} =>
          attempts[d] < MaxAttempts /\ t.attempts = attempts[d] + 1
    /\ outcome[q] = "reprocessed" => t.status = "REPROCESSED" /\ topic[d] > 0
    /\ outcome[q] \in Attempted \ {"reprocessed"} => t.status = "REPROCESS_FAILED"

RequestInv == \A q \in Requests : pc[q] # "idle" => RequestOK(q)

LockInv ==
    \A d \in Rows : lock[d] # None => pc[lock[d]] # "idle" /\ row[lock[d]] = d

LateInv == \A d \in Rows : late[d] > 0 => status[d] # "ABSENT"

(* The strengthening that is inductive: a lock belongs to the one request  *)
(* that works on the row, and only the row's state at the start of that    *)
(* request decides what the commit writes back (reprocess and discard).    *)
IInv == RequestInv /\ LockInv /\ LateInv /\ AuditAgrees /\ CopiesAreAttempts
            /\ NeverStuckReprocessing

(* What every reachable state satisfies: its type, and the invariant that  *)
(* a request's progress, its lock and the audit log agree with the row     *)
(* (reprocess, discard).                                                   *)
Inv == TypeOK /\ IInv

(* A request ends and releases its row, so a dead letter does not stay     *)
(* locked.                                                                 *)
RowsAreReleased ==
    \A d \in Rows : lock[d] # None ~> lock[d] = None
=============================================================================
