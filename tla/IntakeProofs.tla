---------------------------- MODULE IntakeProofs ----------------------------
(***************************************************************************)
(* Theorems of the intake, for every set of events and requests and every  *)
(* number of faults.                                                       *)
(***************************************************************************)
EXTENDS Intake, TLAPS

USE IntakeAssumption

-----------------------------------------------------------------------------
(* Types. *)

(* The end of a transaction keeps the types. *)
LEMMA EndType ==
    ASSUME TypeOK, NEW q \in Requests, End(q)
    PROVE  /\ inserter' \in [Events -> Requests \cup {None}]
           /\ pc' \in [Requests -> Labels \cup {"idle"}]
           /\ event' \in [Requests -> Events \cup {None}]
           /\ entity' \in [Requests -> ReceiptStatuses \cup {None}]
           /\ \A r \in Requests : pc'[r] # "idle" => event'[r] \in Events
           /\ \A r \in Requests : pc'[r] \in {"publish", "update", "commit"} =>
                 entity'[r] \in ReceiptStatuses
BY DEF TypeOK, End, Goto

(* An answer is counted for the event and outcome it is given for. *)
LEMMA RespondValue ==
    ASSUME TypeOK, NEW q \in Requests, pc[q] # "idle", NEW o \in Outcomes,
           Respond(q, o)
    PROVE  /\ answered' \in [Events -> [Outcomes -> Nat]]
           /\ event[q] \in Events
           /\ answered'[event[q]][o] = answered[event[q]][o] + 1
           /\ \A x \in Outcomes \ {o} :
                 answered'[event[q]][x] = answered[event[q]][x]
           /\ \A e \in Events \ {event[q]} : answered'[e] = answered[e]
<1>1. event[q] \in Events /\ answered \in [Events -> [Outcomes -> Nat]]
  BY DEF TypeOK
<1>2. answered[event[q]][o] + 1 \in Nat
  BY <1>1
<1> QED BY <1>1, <1>2 DEF Respond

LEMMA TypeInvariant == TypeOK /\ [Next]_vars => TypeOK'
<1> SUFFICES ASSUME TypeOK, [Next]_vars PROVE TypeOK'
  OBVIOUS
<1>1. ASSUME NEW q \in Requests, NEW e \in Events, Accept(q, e) PROVE TypeOK'
  BY <1>1 DEF Accept, Goto, TypeOK, Labels
<1>2. ASSUME NEW q \in Requests,
             ExistsByEventId(q) \/ SaveReceivedReceipt(q) \/ SaveStatus(q)
      PROVE  TypeOK'
  <2>1. CASE ExistsByEventId(q)
    BY <2>1 DEF ExistsByEventId, Goto, TypeOK, Labels
  <2>2. CASE SaveReceivedReceipt(q)
    <3>1. event[q] \in Events /\ "RECEIVED" \in ReceiptStatuses
      BY <2>2 DEF SaveReceivedReceipt, TypeOK, ReceiptStatuses
    <3>2. inserter' \in [Events -> Requests \cup {None}]
      BY <2>2, <3>1 DEF SaveReceivedReceipt, TypeOK
    <3>3. /\ pc' = [pc EXCEPT ![q] = "publish"]
          /\ entity' = [entity EXCEPT ![q] = "RECEIVED"]
          /\ UNCHANGED <<receipt, topic, late, event, answered, unsettled, requests,
                      faults>>
      BY <2>2 DEF SaveReceivedReceipt, Goto
    <3> QED BY <3>1, <3>2, <3>3 DEF TypeOK, Labels
  <2>3. CASE SaveStatus(q)
    BY <2>3 DEF SaveStatus, Goto, TypeOK, Labels
  <2> QED BY <1>2, <2>1, <2>2, <2>3
<1>3. ASSUME NEW q \in Requests,
             RefuseDuplicate(q) \/ RefuseFuture(q) \/ RefuseConflict(q)
      PROVE  TypeOK'
  <2>1. PICK o \in Outcomes : Refuse(q, o)
    BY <1>3 DEF RefuseDuplicate, RefuseFuture, RefuseConflict, Outcomes
  <2>2. pc[q] # "idle"
    BY <1>3 DEF RefuseDuplicate, RefuseFuture, RefuseConflict
  <2> QED BY <2>1, <2>2, EndType, RespondValue DEF Refuse, TypeOK
<1>4. ASSUME NEW q \in Requests, Publish(q) \/ PublishFails(q) PROVE TypeOK'
  <2>1. event[q] \in Events
    BY <1>4 DEF Publish, PublishFails, TypeOK
  <2>2. /\ topic' \in [Events -> Nat] /\ late' \in [Events -> Nat]
        /\ faults' \in 0 .. MaxFaults
    <3>1. CASE Publish(q)
      BY <2>1, <3>1 DEF Publish, TypeOK
    <3>2. CASE PublishFails(q)
      BY <2>1, <3>2 DEF PublishFails, Fault, TypeOK
    <3> QED BY <1>4, <3>1, <3>2
  <2>3. /\ pc' = [pc EXCEPT ![q] = "update"]
        /\ UNCHANGED <<receipt, inserter, event, answered, unsettled, requests>>
    BY <1>4 DEF Publish, PublishFails, Goto
  <2>4. PICK s \in ReceiptStatuses : entity' = [entity EXCEPT ![q] = s]
    BY <1>4 DEF Publish, PublishFails, ReceiptStatuses
  <2>5. entity' \in [Requests -> ReceiptStatuses \cup {None}] /\ entity'[q] = s
    BY <2>4 DEF TypeOK
  <2>6. pc' \in [Requests -> Labels \cup {"idle"}]
    BY <2>3 DEF TypeOK, Labels
  <2>7. \A r \in Requests : pc'[r] # "idle" => event'[r] \in Events
    BY <2>1, <2>3 DEF TypeOK
  <2>8. \A r \in Requests : pc'[r] \in {"publish", "update", "commit"} =>
           entity'[r] \in ReceiptStatuses
    BY <2>3, <2>4, <2>5 DEF TypeOK
  <2> QED BY <2>2, <2>3, <2>5, <2>6, <2>7, <2>8 DEF TypeOK
<1>5. ASSUME NEW q \in Requests, Commit(q) \/ CommitUnconfirmed(q) PROVE TypeOK'
  <2>1. pc[q] = "commit" /\ End(q) /\ receipt' = [receipt EXCEPT ![event[q]] = entity[q]]
    BY <1>5 DEF Commit, CommitUnconfirmed
  <2>2. receipt' \in [Events -> ReceiptStatuses \cup {None}]
    BY <2>1 DEF TypeOK
  <2>3. answered' \in [Events -> [Outcomes -> Nat]]
    <3>1. CASE Commit(q)
      <4>1. PICK o \in Outcomes : Respond(q, o)
        BY <3>1 DEF Commit, Outcomes
      <4> QED BY <2>1, <4>1, RespondValue
    <3>2. CASE CommitUnconfirmed(q)
      BY <3>2 DEF CommitUnconfirmed, TypeOK
    <3> QED BY <1>5, <3>1, <3>2
  <2>4. /\ faults' \in 0 .. MaxFaults
        /\ UNCHANGED <<topic, late, unsettled, requests>>
    BY <1>5 DEF Commit, CommitUnconfirmed, Fault, TypeOK
  <2> QED BY <2>1, <2>2, <2>3, <2>4, EndType DEF TypeOK
<1>6. ASSUME NEW q \in Requests, Rollback(q) PROVE TypeOK'
  <2>1. late' \in [Events -> Nat] /\ unsettled' \in [Events -> Nat]
    BY <1>6 DEF Rollback, TypeOK
  <2> QED BY <1>6, <2>1, EndType DEF TypeOK, Rollback, Fault
<1>7. ASSUME NEW e \in Events, SendArrives(e) PROVE TypeOK'
  <2>1. topic' \in [Events -> Nat] /\ late' \in [Events -> Nat]
    BY <1>7 DEF SendArrives, TypeOK
  <2> QED BY <1>7, <2>1 DEF SendArrives, requestVars, TypeOK
<1>8. CASE UNCHANGED vars
  BY <1>8 DEF vars, requestVars, TypeOK
<1> QED BY <1>1, <1>2, <1>3, <1>4, <1>5, <1>6, <1>7, <1>8 DEF Next, Step

(* Every variable keeps its type; a request past its insert has a receipt  *)
(* entity with a status (accept).                                          *)
THEOREM IntakeTypeCorrect == Spec => []TypeOK
<1>1. Init => TypeOK
  BY DEF Init, TypeOK
<1> QED BY <1>1, TypeInvariant, PTL DEF Spec

-----------------------------------------------------------------------------
(* The inductive invariant. *)

Inserted == {"publish", "update", "commit"}

(* A request past its insert is the one inserter of its event.             *)
LEMMA OneInserter ==
    ASSUME TypeOK, IInv, NEW q \in Requests, pc[q] \in Inserted
    PROVE  /\ event[q] \in Events /\ inserter[event[q]] = q /\ receipt[event[q]] = None
           /\ RequestOK(q)
           /\ \A r \in Requests \ {q} : pc[r] \in Inserted => event[r] # event[q]
BY DEF TypeOK, IInv, RequestInv, RequestOK, Inserted

(* A transaction ends: its event is free, other requests stay as they are. *)
LEMMA EndInvariant ==
    ASSUME TypeOK, TypeOK', IInv, NEW q \in Requests, pc[q] # "idle", End(q),
           \A e \in Events : topic'[e] >= topic[e],
           \A e \in Events : receipt'[e] # receipt[e] =>
               e = event[q] /\ pc[q] \in Inserted
    PROVE  /\ RequestInv' /\ InserterInv'
           /\ \A e \in Events : Settling(e)' => Settling(e)
           /\ \A e \in Events : Settling(e) /\ ~Settling(e)' =>
                 e = event[q] /\ pc[q] \in {"update", "commit"}
<1>1. /\ pc' = [pc EXCEPT ![q] = "idle"]
      /\ event' = [event EXCEPT ![q] = None]
      /\ entity' = [entity EXCEPT ![q] = None]
      /\ inserter' = [e \in Events |-> IF inserter[e] = q THEN None ELSE inserter[e]]
  BY DEF End, Goto
<1>2. RequestInv'
  <2> SUFFICES ASSUME NEW r \in Requests, pc'[r] # "idle" PROVE RequestOK(r)'
    BY DEF RequestInv
  <2>1. /\ r # q /\ pc'[r] = pc[r] /\ event'[r] = event[r] /\ entity'[r] = entity[r]
        /\ event[r] \in Events /\ RequestOK(r)
    BY <1>1 DEF TypeOK, IInv, RequestInv
  <2>2. CASE pc[r] \in Inserted
    <3>1. inserter[event[r]] = r /\ receipt[event[r]] = None
      BY <2>2, OneInserter
    <3>2. inserter'[event[r]] = r
      BY <1>1, <2>1, <3>1
    <3>3. receipt'[event[r]] = receipt[event[r]]
      BY <2>1, <2>2, OneInserter
    <3>4. topic[event[r]] > 0 => topic'[event[r]] > 0
      <4>1. /\ topic[event[r]] \in Nat /\ topic'[event[r]] \in Nat
            /\ topic'[event[r]] >= topic[event[r]]
        BY <2>1 DEF TypeOK
      <4> QED BY <4>1
    <3> QED BY <2>1, <2>2, <3>1, <3>2, <3>3, <3>4 DEF RequestOK, Inserted
  <2>3. CASE pc[r] \notin Inserted
    BY <2>1, <2>3 DEF RequestOK, Inserted
  <2> QED BY <2>2, <2>3
<1>3. ASSUME NEW e \in Events, inserter'[e] # None
      PROVE  /\ inserter'[e] = inserter[e] /\ inserter[e] \in Requests \ {q}
             /\ pc'[inserter[e]] = pc[inserter[e]]
             /\ event'[inserter[e]] = event[inserter[e]]
  BY <1>1, <1>3 DEF TypeOK
<1>4. InserterInv'
  BY <1>3 DEF IInv, InserterInv
<1>5. ASSUME NEW e \in Events PROVE Settling(e)' => Settling(e)
  BY <1>3 DEF Settling
<1>6. ASSUME NEW e \in Events, Settling(e), ~Settling(e)'
      PROVE  e = event[q] /\ pc[q] \in {"update", "commit"}
  <2>1. inserter[e] = q
    BY <1>1, <1>6 DEF TypeOK, Settling
  <2> QED BY <1>6, <2>1 DEF Settling, IInv, InserterInv
<1> QED BY <1>2, <1>4, <1>5, <1>6

(* A lookup, a status update or a refusal leaves receipts and topic alone. *)
LEMMA RowsInvariant ==
    ASSUME TypeOK, IInv,
           UNCHANGED <<receipt, answered, unsettled>>,
           \A e \in Events : topic'[e] = topic[e] /\ late'[e] = late[e],
           \A e \in Events : Settling(e) => Settling(e)'
    PROVE  /\ AnswerInv' /\ AcceptedOnceAndPublished'
           /\ CopiesAreReceipts' /\ ConflictIsJustified'
<1>1. AnswerInv' /\ AcceptedOnceAndPublished' /\ ConflictIsJustified'
  BY DEF IInv, AnswerInv, AcceptedOnceAndPublished, ConflictIsJustified
<1>2. CopiesAreReceipts'
  <2> SUFFICES ASSUME NEW e \in Events
               PROVE  topic'[e] + late'[e] <= unsettled'[e]
                        + (IF receipt'[e] # None \/ Settling(e)' THEN 1 ELSE 0)
    BY DEF CopiesAreReceipts
  <2>1. /\ topic[e] \in Nat /\ late[e] \in Nat /\ unsettled[e] \in Nat
        /\ topic[e] + late[e] <= unsettled[e]
                        + (IF receipt[e] # None \/ Settling(e) THEN 1 ELSE 0)
    BY DEF TypeOK, IInv, CopiesAreReceipts
  <2> QED BY <2>1
<1> QED BY <1>1, <1>2

(* The steps of an open transaction that send nothing.                     *)
LEMMA QuietInvariant ==
    ASSUME TypeOK, TypeOK', IInv, NEW q \in Requests, NEW e \in Events,
           \/ Accept(q, e)
           \/ ExistsByEventId(q)
           \/ SaveReceivedReceipt(q)
           \/ SaveStatus(q)
    PROVE  IInv'
<1>1. /\ UNCHANGED <<receipt, topic, late, answered, unsettled>>
      /\ pc' = [pc EXCEPT ![q] = pc'[q]]
      /\ \A r \in Requests \ {q} : event'[r] = event[r] /\ entity'[r] = entity[r]
  BY DEF Accept, ExistsByEventId, SaveReceivedReceipt, SaveStatus, Goto, TypeOK
<1>2. \/ /\ pc[q] \notin Inserted /\ pc'[q] \notin Inserted
         /\ inserter' = inserter
      \/ /\ pc[q] = "insert" /\ pc'[q] = "publish"
         /\ inserter[event[q]] = None /\ receipt[event[q]] = None
         /\ inserter' = [inserter EXCEPT ![event[q]] = q]
         /\ event'[q] = event[q]
      \/ /\ pc[q] = "update" /\ pc'[q] = "commit"
         /\ inserter' = inserter
         /\ event'[q] = event[q] /\ entity'[q] = entity[q]
  BY DEF Accept, ExistsByEventId, SaveReceivedReceipt, SaveStatus, Goto, TypeOK,
         Inserted
<1>3. pc[q] # "idle" => event[q] \in Events
  BY DEF TypeOK
<1>4. RequestInv'
  <2> SUFFICES ASSUME NEW r \in Requests, pc'[r] # "idle", pc'[r] \in Inserted
               PROVE  RequestOK(r)'
    BY DEF RequestInv, RequestOK, Inserted
  <2>1. CASE r = q
    <3>1. CASE pc[q] = "insert"
      BY <1>1, <1>2, <1>3, <2>1, <3>1 DEF RequestOK, Inserted, TypeOK
    <3>2. CASE pc[q] = "update"
      <4>1. RequestOK(q)
        BY <3>2 DEF IInv, RequestInv
      <4> QED BY <1>1, <1>2, <2>1, <3>2, <4>1 DEF RequestOK, Inserted
    <3> QED BY <1>2, <2>1, <3>1, <3>2
  <2>2. CASE r # q
    <3>1. /\ pc'[r] = pc[r] /\ event'[r] = event[r] /\ entity'[r] = entity[r]
          /\ event[r] \in Events /\ inserter[event[r]] = r /\ RequestOK(r)
      BY <1>1, <2>2, OneInserter DEF TypeOK
    <3>2. inserter'[event[r]] = r
      BY <1>2, <1>3, <3>1 DEF TypeOK
    <3> QED BY <1>1, <3>1, <3>2 DEF RequestOK
  <2> QED BY <2>1, <2>2
<1>5. InserterInv'
  <2> SUFFICES ASSUME NEW x \in Events, inserter'[x] # None
               PROVE  event'[inserter'[x]] = x /\ pc'[inserter'[x]] \in Inserted
    BY DEF InserterInv, Inserted
  <2>1. CASE inserter'[x] = inserter[x]
    <3>1. /\ inserter[x] \in Requests /\ event[inserter[x]] = x
          /\ pc[inserter[x]] \in Inserted
      BY <2>1 DEF TypeOK, IInv, InserterInv, Inserted
    <3>2. CASE inserter[x] = q
      BY <1>1, <1>2, <2>1, <3>1, <3>2 DEF TypeOK, Inserted
    <3>3. CASE inserter[x] # q
      BY <1>1, <2>1, <3>1, <3>3 DEF TypeOK
    <3> QED BY <3>2, <3>3
  <2>2. CASE inserter'[x] # inserter[x]
    <3>1. x = event[q] /\ inserter'[x] = q /\ event'[q] = event[q] /\ pc'[q] = "publish"
      BY <1>2, <1>3, <2>2 DEF TypeOK
    <3> QED BY <3>1 DEF Inserted
  <2> QED BY <2>1, <2>2
<1>6. ASSUME NEW x \in Events, Settling(x) PROVE Settling(x)'
  <2>1. inserter[x] \in Requests /\ pc[inserter[x]] \in {"update", "commit"}
    BY <1>6 DEF TypeOK, Settling
  <2>2. inserter'[x] = inserter[x]
    BY <1>2, <1>3, <1>6 DEF TypeOK, Settling
  <2>3. pc'[inserter[x]] \in {"update", "commit"}
    BY <1>1, <1>2, <2>1 DEF TypeOK, Inserted
  <2> QED BY <1>6, <2>2, <2>3 DEF Settling
<1> QED BY <1>1, <1>4, <1>5, <1>6, RowsInvariant DEF IInv

(* A refused request has inserted nothing, and a storable event is refused *)
(* as a duplicate only after its receipt was committed.                    *)
LEMMA RefuseInvariant ==
    ASSUME TypeOK, TypeOK', IInv, NEW q \in Requests,
           RefuseDuplicate(q) \/ RefuseFuture(q) \/ RefuseConflict(q)
    PROVE  IInv'
<1>1. /\ pc[q] \in {"exists", "insert"} /\ End(q)
      /\ UNCHANGED <<receipt, topic, late, unsettled>>
  BY DEF RefuseDuplicate, RefuseFuture, RefuseConflict, Refuse
<1>2. PICK o \in {"DUPLICATE", "INVALID"} :
        /\ Respond(q, o)
        /\ o = "DUPLICATE" => receipt[event[q]] # None \/ event[q] \in StoreRejects
  BY DEF RefuseDuplicate, RefuseFuture, RefuseConflict, Refuse
<1>3. /\ RequestInv' /\ InserterInv'
      /\ \A e \in Events : Settling(e)' <=> Settling(e)
  <2>1. \A e \in Events : topic'[e] >= topic[e] /\ receipt'[e] = receipt[e]
    BY <1>1 DEF TypeOK
  <2>2. pc[q] # "idle" /\ pc[q] \notin {"update", "commit"}
    BY <1>1
  <2> QED BY <1>1, <2>1, <2>2, EndInvariant
<1>4. ASSUME NEW e \in Events
      PROVE  /\ answered'[e]["ACCEPTED"] = answered[e]["ACCEPTED"]
             /\ answered'[e]["KAFKA_PUBLISH_FAILED"] = answered[e]["KAFKA_PUBLISH_FAILED"]
             /\ answered'[e]["DUPLICATE"] # answered[e]["DUPLICATE"] =>
                   receipt[e] # None \/ e \in StoreRejects
  BY <1>1, <1>2, RespondValue DEF Outcomes
<1>5. AnswerInv' /\ AcceptedOnceAndPublished'
  BY <1>1, <1>4 DEF IInv, AnswerInv, AcceptedOnceAndPublished
<1>6. CopiesAreReceipts'
  BY <1>1, <1>3 DEF IInv, CopiesAreReceipts
<1>7. ConflictIsJustified'
  BY <1>1, <1>4 DEF IInv, ConflictIsJustified
<1> QED BY <1>3, <1>5, <1>6, <1>7 DEF IInv

(* The one transaction that holds the eventId sends it.                    *)
LEMMA PublishInvariant ==
    ASSUME TypeOK, TypeOK', IInv, NEW q \in Requests,
           Publish(q) \/ PublishFails(q)
    PROVE  IInv'
<1>1. /\ pc[q] = "publish"
      /\ pc' = [pc EXCEPT ![q] = "update"]
      /\ UNCHANGED <<receipt, inserter, event, answered, unsettled>>
      /\ \/ topic' = [topic EXCEPT ![event[q]] = @ + 1] /\ late' = late
         \/ topic' = topic /\ late' \in {late, [late EXCEPT ![event[q]] = @ + 1]}
  BY DEF Publish, PublishFails, Goto
<1>2. \/ /\ entity' = [entity EXCEPT ![q] = "PUBLISHED"]
         /\ topic' = [topic EXCEPT ![event[q]] = @ + 1]
      \/ entity' = [entity EXCEPT ![q] = "PUBLISH_FAILED"]
  BY DEF Publish, PublishFails
<1>3. /\ event[q] \in Events /\ inserter[event[q]] = q /\ receipt[event[q]] = None
      /\ \A r \in Requests \ {q} : pc[r] \in Inserted => event[r] # event[q]
  BY <1>1, OneInserter DEF Inserted
<1>4. \A e \in Events : /\ topic[e] \in Nat /\ topic'[e] \in Nat
                        /\ topic'[e] >= topic[e]
                        /\ late[e] \in Nat /\ late'[e] \in Nat
                        /\ e # event[q] => topic'[e] = topic[e]
                                            /\ late'[e] = late[e]
                        /\ topic'[e] + late'[e] <= topic[e] + late[e] + 1
  <2>1. topic \in [Events -> Nat] /\ late \in [Events -> Nat]
    BY DEF TypeOK
  <2>2. CASE topic' = [topic EXCEPT ![event[q]] = @ + 1] /\ late' = late
    BY <1>3, <2>1, <2>2
  <2>3. CASE topic' = topic /\ late' = late
    BY <2>1, <2>3
  <2>4. CASE topic' = topic /\ late' = [late EXCEPT ![event[q]] = @ + 1]
    BY <1>3, <2>1, <2>4
  <2> QED BY <1>1, <2>2, <2>3, <2>4
<1>5. RequestInv'
  <2> SUFFICES ASSUME NEW r \in Requests, pc'[r] \in Inserted PROVE RequestOK(r)'
    BY DEF RequestInv, RequestOK, Inserted
  <2>1. CASE r = q
    <3>1. /\ entity'[q] \in {"PUBLISHED", "PUBLISH_FAILED"}
          /\ entity'[q] = "PUBLISHED" => topic'[event[q]] > 0
      BY <1>2, <1>3 DEF TypeOK
    <3> QED BY <1>1, <1>3, <2>1, <3>1 DEF RequestOK
  <2>2. CASE r # q
    <3>1. /\ pc'[r] = pc[r] /\ event'[r] = event[r] /\ entity'[r] = entity[r]
      BY <1>1, <1>2, <2>2 DEF TypeOK
    <3>2. RequestOK(r) /\ event[r] \in Events /\ event[r] # event[q]
      BY <1>3, <2>2, <3>1, OneInserter
    <3> QED BY <1>1, <1>4, <3>1, <3>2 DEF RequestOK
  <2> QED BY <2>1, <2>2
<1>6. InserterInv'
  BY <1>1 DEF TypeOK, IInv, InserterInv
<1>7. \A e \in Events : Settling(e)' <=> e = event[q] \/ Settling(e)
  BY <1>1, <1>3 DEF TypeOK, IInv, InserterInv, Settling
<1>8. ~Settling(event[q])
  BY <1>1, <1>3 DEF Settling
<1>9. CopiesAreReceipts'
  <2> SUFFICES ASSUME NEW e \in Events
               PROVE  topic'[e] + late'[e] <= unsettled'[e]
                        + (IF receipt'[e] # None \/ Settling(e)' THEN 1 ELSE 0)
    BY DEF CopiesAreReceipts
  <2>1. /\ unsettled[e] \in Nat
        /\ topic[e] + late[e] <= unsettled[e]
                        + (IF receipt[e] # None \/ Settling(e) THEN 1 ELSE 0)
    BY DEF TypeOK, IInv, CopiesAreReceipts
  <2>2. CASE e = event[q]
    BY <1>1, <1>3, <1>4, <1>7, <1>8, <2>1, <2>2
  <2>3. CASE e # event[q]
    BY <1>1, <1>4, <1>7, <2>1, <2>3
  <2> QED BY <2>2, <2>3
<1>10. AnswerInv' /\ AcceptedOnceAndPublished' /\ ConflictIsJustified'
  BY <1>1, <1>4 DEF IInv, AnswerInv, AcceptedOnceAndPublished, ConflictIsJustified
<1> QED BY <1>5, <1>6, <1>9, <1>10 DEF IInv

(* A commit stores the one receipt of its event and answers as it says.    *)
LEMMA CommitInvariant ==
    ASSUME TypeOK, TypeOK', IInv, NEW q \in Requests,
           Commit(q) \/ CommitUnconfirmed(q)
    PROVE  IInv'
<1>1. /\ pc[q] = "commit" /\ End(q)
      /\ receipt' = [receipt EXCEPT ![event[q]] = entity[q]]
      /\ UNCHANGED <<topic, late, unsettled>>
  BY DEF Commit, CommitUnconfirmed
<1>2. /\ event[q] \in Events /\ inserter[event[q]] = q /\ receipt[event[q]] = None
      /\ entity[q] \in {"PUBLISHED", "PUBLISH_FAILED"}
      /\ entity[q] = "PUBLISHED" => topic[event[q]] > 0
  BY <1>1, OneInserter DEF Inserted, RequestOK
<1>3. /\ receipt'[event[q]] = entity[q]
      /\ \A e \in Events \ {event[q]} : receipt'[e] = receipt[e]
  BY <1>1, <1>2 DEF TypeOK
<1>4. /\ RequestInv' /\ InserterInv'
      /\ \A e \in Events : e # event[q] => (Settling(e)' <=> Settling(e))
  <2>1. /\ \A e \in Events : topic'[e] >= topic[e]
        /\ \A e \in Events : receipt'[e] # receipt[e] =>
              e = event[q] /\ pc[q] \in Inserted
    BY <1>1, <1>3 DEF TypeOK, Inserted
  <2> QED BY <1>1, <2>1, EndInvariant
<1>5. /\ \A e \in Events \ {event[q]} : answered'[e] = answered[e]
      /\ answered'[event[q]]["DUPLICATE"] = answered[event[q]]["DUPLICATE"]
      /\ \/ /\ answered'[event[q]]["ACCEPTED"] = answered[event[q]]["ACCEPTED"]
            /\ answered'[event[q]]["KAFKA_PUBLISH_FAILED"]
                  = answered[event[q]]["KAFKA_PUBLISH_FAILED"]
         \/ /\ entity[q] = "PUBLISHED"
            /\ answered'[event[q]]["ACCEPTED"] = answered[event[q]]["ACCEPTED"] + 1
            /\ answered'[event[q]]["KAFKA_PUBLISH_FAILED"]
                  = answered[event[q]]["KAFKA_PUBLISH_FAILED"]
         \/ /\ entity[q] # "PUBLISHED"
            /\ answered'[event[q]]["ACCEPTED"] = answered[event[q]]["ACCEPTED"]
            /\ answered'[event[q]]["KAFKA_PUBLISH_FAILED"]
                  = answered[event[q]]["KAFKA_PUBLISH_FAILED"] + 1
  <2>1. CASE CommitUnconfirmed(q)
    BY <2>1 DEF CommitUnconfirmed
  <2>2. CASE Commit(q) /\ entity[q] = "PUBLISHED"
    <3>1. Respond(q, "ACCEPTED")
      BY <2>2 DEF Commit
    <3> QED BY <1>1, <2>2, <3>1, RespondValue DEF Outcomes
  <2>3. CASE Commit(q) /\ entity[q] # "PUBLISHED"
    <3>1. Respond(q, "KAFKA_PUBLISH_FAILED")
      BY <2>3 DEF Commit
    <3> QED BY <1>1, <2>3, <3>1, RespondValue DEF Outcomes
  <2> QED BY <2>1, <2>2, <2>3
<1>6. /\ answered[event[q]]["ACCEPTED"] = 0
      /\ answered[event[q]]["KAFKA_PUBLISH_FAILED"] = 0
  BY <1>2 DEF IInv, AnswerInv
<1>7. AnswerInv' /\ ConflictIsJustified'
  BY <1>2, <1>3, <1>5 DEF IInv, AnswerInv, ConflictIsJustified
<1>8. AcceptedOnceAndPublished'
  <2> SUFFICES ASSUME NEW e \in Events
               PROVE
        /\ answered'[e]["ACCEPTED"] + answered'[e]["KAFKA_PUBLISH_FAILED"] <= 1
        /\ answered'[e]["ACCEPTED"] = 1 => receipt'[e] = "PUBLISHED"
        /\ answered'[e]["KAFKA_PUBLISH_FAILED"] = 1 => receipt'[e] = "PUBLISH_FAILED"
        /\ receipt'[e] = "PUBLISHED" => topic'[e] > 0
    BY DEF AcceptedOnceAndPublished
  <2>1. CASE e = event[q]
    BY <1>1, <1>2, <1>3, <1>5, <1>6, <2>1
  <2>2. CASE e # event[q]
    BY <1>1, <1>3, <1>5, <2>2 DEF IInv, AcceptedOnceAndPublished
  <2> QED BY <2>1, <2>2
<1>9. CopiesAreReceipts'
  <2> SUFFICES ASSUME NEW e \in Events
               PROVE  topic'[e] + late'[e] <= unsettled'[e]
                        + (IF receipt'[e] # None \/ Settling(e)' THEN 1 ELSE 0)
    BY DEF CopiesAreReceipts
  <2>1. /\ topic[e] \in Nat /\ late[e] \in Nat /\ unsettled[e] \in Nat
        /\ topic[e] + late[e] <= unsettled[e]
                        + (IF receipt[e] # None \/ Settling(e) THEN 1 ELSE 0)
    BY DEF TypeOK, IInv, CopiesAreReceipts
  <2>2. CASE e = event[q]
    BY <1>1, <1>2, <1>3, <2>1, <2>2
  <2>3. CASE e # event[q]
    BY <1>1, <1>3, <1>4, <2>1, <2>3
  <2> QED BY <2>2, <2>3
<1> QED BY <1>4, <1>7, <1>8, <1>9 DEF IInv

(* A rollback leaves no receipt and accounts for a send.                   *)
LEMMA RollbackInvariant ==
    ASSUME TypeOK, TypeOK', IInv, NEW q \in Requests, Rollback(q)
    PROVE  IInv'
<1>1. /\ pc[q] # "idle" /\ End(q) /\ UNCHANGED <<receipt, answered, topic>>
      /\ event[q] \in Events
  BY DEF Rollback, TypeOK
<1>2. PICK sent \in {0, 1} :
        /\ sent = 1 => pc[q] = "publish"
        /\ late' = [late EXCEPT ![event[q]] = @ + sent]
        /\ unsettled' = [unsettled EXCEPT ![event[q]] =
              @ + IF pc[q] \in {"update", "commit"} THEN 1 ELSE sent]
  BY DEF Rollback
<1>3. \A e \in Events : /\ topic[e] \in Nat /\ topic'[e] >= topic[e]
                        /\ e # event[q] => late'[e] = late[e]
                                            /\ unsettled'[e] = unsettled[e]
  BY <1>1, <1>2 DEF TypeOK
<1>4. /\ RequestInv' /\ InserterInv'
      /\ \A e \in Events : Settling(e)' => Settling(e)
      /\ \A e \in Events : Settling(e) /\ ~Settling(e)' =>
            e = event[q] /\ pc[q] \in {"update", "commit"}
  BY <1>1, <1>3, EndInvariant
<1>5. CopiesAreReceipts'
  <2> SUFFICES ASSUME NEW e \in Events
               PROVE  topic'[e] + late'[e] <= unsettled'[e]
                        + (IF receipt'[e] # None \/ Settling(e)' THEN 1 ELSE 0)
    BY DEF CopiesAreReceipts
  <2>1. /\ topic[e] \in Nat /\ late[e] \in Nat /\ unsettled[e] \in Nat
        /\ topic[e] + late[e] <= unsettled[e]
                        + (IF receipt[e] # None \/ Settling(e) THEN 1 ELSE 0)
    BY DEF TypeOK, IInv, CopiesAreReceipts
  <2>2. CASE e = event[q]
    <3>1. /\ late'[e] = late[e] + sent
          /\ unsettled'[e] = unsettled[e]
                + IF pc[q] \in {"update", "commit"} THEN 1 ELSE sent
      BY <1>1, <1>2, <2>2 DEF TypeOK
    <3>2. CASE pc[q] \in {"update", "commit"}
      BY <1>1, <1>2, <2>1, <3>1, <3>2
    <3>3. CASE pc[q] \notin {"update", "commit"}
      <4>1. Settling(e)' <=> Settling(e)
        BY <1>4, <3>3
      <4> QED BY <1>1, <1>2, <2>1, <3>1, <3>3, <4>1
    <3> QED BY <3>2, <3>3
  <2>3. CASE e # event[q]
    BY <1>1, <1>3, <1>4, <2>1, <2>3
  <2> QED BY <2>2, <2>3
<1>6. AnswerInv' /\ AcceptedOnceAndPublished' /\ ConflictIsJustified'
  <2>1. \A e \in Events : topic[e] > 0 => topic'[e] > 0
    BY <1>3 DEF TypeOK
  <2> QED BY <1>1, <2>1 DEF IInv, AnswerInv, AcceptedOnceAndPublished,
                            ConflictIsJustified
<1> QED BY <1>4, <1>5, <1>6 DEF IInv

(* A late arrival turns a send on its way into a copy in the topic.        *)
LEMMA ArrivalInvariant ==
    ASSUME TypeOK, TypeOK', IInv, NEW x \in Events, SendArrives(x)
    PROVE  IInv'
<1>1. /\ late' = [late EXCEPT ![x] = @ - 1]
      /\ topic' = [topic EXCEPT ![x] = @ + 1]
      /\ UNCHANGED <<receipt, inserter, pc, event, entity, answered, unsettled>>
  BY DEF SendArrives, requestVars
<1>2. \A e \in Events : /\ topic[e] \in Nat /\ late[e] \in Nat
                        /\ topic'[e] >= topic[e]
                        /\ topic'[e] + late'[e] = topic[e] + late[e]
  <2>1. topic \in [Events -> Nat] /\ late \in [Events -> Nat]
    BY DEF TypeOK
  <2> QED BY <1>1, <2>1
<1>3. \A e \in Events : topic[e] > 0 => topic'[e] > 0
  BY <1>2 DEF TypeOK
<1>4. RequestInv'
  <2> SUFFICES ASSUME NEW r \in Requests, pc[r] # "idle" PROVE RequestOK(r)'
    BY <1>1 DEF RequestInv
  <2>1. RequestOK(r) /\ event[r] \in Events
    BY DEF IInv, RequestInv, TypeOK
  <2> QED BY <1>1, <1>3, <2>1 DEF RequestOK
<1>5. InserterInv' /\ AnswerInv' /\ AcceptedOnceAndPublished' /\ ConflictIsJustified'
  BY <1>1, <1>3 DEF IInv, InserterInv, AnswerInv, AcceptedOnceAndPublished,
                    ConflictIsJustified
<1>6. CopiesAreReceipts'
  BY <1>1, <1>2 DEF IInv, CopiesAreReceipts, Settling
<1> QED BY <1>4, <1>5, <1>6 DEF IInv

(* The inductive invariant holds in every reachable state: an eventId has  *)
(* one open transaction that sends it, however many requests carry it.     *)
THEOREM IntakeInvariant == Spec => []IInv
<1>1. Init => IInv
  BY DEF Init, IInv, RequestInv, InserterInv, AnswerInv,
         AcceptedOnceAndPublished, CopiesAreReceipts, ConflictIsJustified,
         Outcomes
<1>2. TypeOK /\ TypeOK' /\ IInv /\ [Next]_vars => IInv'
  <2> SUFFICES ASSUME TypeOK, TypeOK', IInv, [Next]_vars PROVE IInv'
    OBVIOUS
  <2>1. CASE UNCHANGED vars
    BY <2>1 DEF vars, requestVars, IInv, RequestInv, RequestOK, InserterInv,
       AnswerInv, AcceptedOnceAndPublished, CopiesAreReceipts, Settling,
       ConflictIsJustified
  <2>2. CASE \E q \in Requests, e \in Events : Accept(q, e)
    BY <2>2, QuietInvariant
  <2>3. ASSUME NEW q \in Requests, Step(q) PROVE IInv'
    <3>1. ASSUME NEW e \in Events, ExistsByEventId(q) \/ SaveReceivedReceipt(q)
                                                    \/ SaveStatus(q)
          PROVE  IInv'
      BY <3>1, QuietInvariant
    <3>2. ExistsByEventId(q) \/ SaveReceivedReceipt(q) \/ SaveStatus(q)
            => event[q] \in Events
      BY DEF ExistsByEventId, SaveReceivedReceipt, SaveStatus, TypeOK
    <3> QED BY <2>3, <3>1, <3>2, RefuseInvariant, PublishInvariant,
               CommitInvariant DEF Step
  <2>4. CASE \E q \in Requests : PublishFails(q)
    BY <2>4, PublishInvariant
  <2>5. CASE \E q \in Requests : Rollback(q)
    BY <2>5, RollbackInvariant
  <2>6. CASE \E q \in Requests : CommitUnconfirmed(q)
    BY <2>6, CommitInvariant
  <2>7. CASE \E e \in Events : SendArrives(e)
    BY <2>7, ArrivalInvariant
  <2> QED BY <2>1, <2>2, <2>3, <2>4, <2>5, <2>6, <2>7 DEF Next
<1> QED BY <1>1, <1>2, IntakeTypeCorrect, PTL DEF Spec

(* At most one request of an eventId is told its outcome, which is the     *)
(* receipt's, and an accepted event is in the topic, for any number of     *)
(* concurrent requests.  (A refused event may be in the topic too.)        *)
THEOREM AcceptedOnce == Spec => []AcceptedOnceAndPublished
<1>1. IInv => AcceptedOnceAndPublished
  BY DEF IInv
<1> QED BY <1>1, IntakeInvariant, PTL

(* The topic holds an event once, except for sends whose transaction was   *)
(* rolled back.                                                            *)
THEOREM CopiesBounded == Spec => []CopiesAreReceipts
<1>1. IInv => CopiesAreReceipts
  BY DEF IInv
<1> QED BY <1>1, IntakeInvariant, PTL

(* A receipt, once committed, keeps its status, and it is not RECEIVED.    *)
THEOREM ReceiptFinal == Spec => ReceiptIsFinal
<1> DEFINE Final == \A e \in Events :
              receipt'[e] # receipt[e] =>
                  receipt[e] = None /\ receipt'[e] \in {"PUBLISHED", "PUBLISH_FAILED"}
<1>1. TypeOK /\ IInv /\ [Next]_vars => [Final]_vars
  <2> SUFFICES ASSUME TypeOK, IInv, Next, NEW e \in Events, receipt'[e] # receipt[e]
               PROVE  receipt[e] = None /\ receipt'[e] \in {"PUBLISHED", "PUBLISH_FAILED"}
    OBVIOUS
  <2>1. PICK q \in Requests : Commit(q) \/ CommitUnconfirmed(q)
    BY DEF Next, Step, Accept, ExistsByEventId, RefuseDuplicate, RefuseFuture,
       SaveReceivedReceipt, RefuseConflict, Refuse, Publish, SaveStatus,
       PublishFails, SendArrives, Rollback
  <2>2. pc[q] = "commit" /\ receipt' = [receipt EXCEPT ![event[q]] = entity[q]]
    BY <2>1 DEF Commit, CommitUnconfirmed
  <2>3. /\ event[q] \in Events /\ receipt[event[q]] = None
        /\ entity[q] \in {"PUBLISHED", "PUBLISH_FAILED"}
    BY <2>2, OneInserter DEF Inserted, RequestOK
  <2> QED BY <2>2, <2>3 DEF TypeOK
<1>2. Spec => [][Final]_vars
  BY <1>1, IntakeTypeCorrect, IntakeInvariant, PTL DEF Spec
<1> QED BY <1>2 DEF ReceiptIsFinal

(* A storable event is refused as a duplicate only if it has a receipt     *)
(* (the waiting insert of saveReceivedReceipt fails only after a commit).  *)
THEOREM ConflictJustified == Spec => []ConflictIsJustified
<1>1. IInv => ConflictIsJustified
  BY DEF IInv
<1> QED BY <1>1, IntakeInvariant, PTL

(* Types and the requests' progress agree with the receipts in every       *)
(* reachable state (accept, saveReceivedReceipt).                          *)
THEOREM IntakeInvariantHolds == Spec => []Inv
BY IntakeTypeCorrect, IntakeInvariant, PTL DEF Inv
=============================================================================
