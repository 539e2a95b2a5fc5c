--------------------------- MODULE DltAdminProofs ---------------------------
(***************************************************************************)
(* Theorems of the dead-letter administration, for every set of rows and   *)
(* requests, every limit on attempts and every number of faults.           *)
(***************************************************************************)
EXTENDS DltAdmin, TLAPS

USE DltAssumption

-----------------------------------------------------------------------------
(* Types. *)

(* A request goes on with an entity of the right type. *)
LEMMA ContinueType ==
    ASSUME TypeOK, NEW q \in Requests, NEW label \in {"audit", "commit"},
           NEW t \in Entities, NEW o \in Outcomes,
           \A r \in Requests \ {q} : row'[r] = row[r],
           row'[q] \in Rows,
           Continue(q, label, t, o)
    PROVE  /\ pc' \in [Requests -> Labels \cup {"idle"}]
           /\ entity' \in [Requests -> Entities \cup {None}]
           /\ outcome' \in [Requests -> Outcomes \cup {None}]
           /\ \A r \in Requests : pc'[r] # "idle" =>
                 row'[r] \in Rows /\ entity'[r] \in Entities
           /\ \A r \in Requests : pc'[r] \in {"audit", "commit"} =>
                 outcome'[r] \in Outcomes
BY DEF TypeOK, Continue, Labels

(* The entities a request works on. *)
LEMMA EntityType ==
    ASSUME TypeOK, NEW d \in Rows
    PROVE  /\ Stored(d) \in Entities
           /\ Started(d) \in Entities
           /\ \A t \in Entities : /\ MarkReprocessed(t) \in Entities
                                  /\ MarkReprocessFailed(t) \in Entities
                                  /\ Discarded(t) \in Entities
BY DEF TypeOK, Entities, Statuses, Stored, Started, MarkReprocessed,
       MarkReprocessFailed, Discarded

(* The end of a transaction keeps the types. *)
LEMMA EndType ==
    ASSUME TypeOK, NEW q \in Requests, End(q)
    PROVE  /\ lock' \in [Rows -> Requests \cup {None}]
           /\ pc' \in [Requests -> Labels \cup {"idle"}]
           /\ row' \in [Requests -> Rows \cup {None}]
           /\ entity' \in [Requests -> Entities \cup {None}]
           /\ outcome' \in [Requests -> Outcomes \cup {None}]
           /\ \A r \in Requests : pc'[r] # "idle" =>
                 row'[r] \in Rows /\ entity'[r] \in Entities
           /\ \A r \in Requests : pc'[r] \in {"audit", "commit"} =>
                 outcome'[r] \in Outcomes
BY DEF TypeOK, End, Continue

(* Writing the entity back and auditing the outcome keep the types. *)
LEMMA WriteBackType ==
    ASSUME TypeOK, NEW q \in Requests, pc[q] = "commit", WriteBack(q)
    PROVE  /\ status' \in [Rows -> Statuses \cup {"ABSENT"}]
           /\ attempts' \in [Rows -> Nat]
           /\ audits' \in [Rows -> [Outcomes -> Nat]]
<1>1. /\ row[q] \in Rows /\ entity[q] \in Entities /\ outcome[q] \in Outcomes
      /\ status \in [Rows -> Statuses \cup {"ABSENT"}]
      /\ attempts \in [Rows -> Nat]
      /\ audits \in [Rows -> [Outcomes -> Nat]]
  BY DEF TypeOK
<1>2. entity[q].status \in Statuses \cup {"ABSENT"} /\ entity[q].attempts \in Nat
  BY <1>1 DEF Entities
<1>3. /\ status' \in [Rows -> Statuses \cup {"ABSENT"}]
      /\ attempts' \in [Rows -> Nat]
  BY <1>1, <1>2 DEF WriteBack
<1>4. audits[row[q]][outcome[q]] + 1 \in Nat
  BY <1>1
<1>5. audits' \in [Rows -> [Outcomes -> Nat]]
  BY <1>1, <1>4 DEF WriteBack
<1> QED BY <1>3, <1>5

(* The row is locked by a request that was idle. *)
LEMMA FindType ==
    ASSUME TypeOK, NEW q \in Requests, NEW d \in Rows, FindByIdForUpdate(q, d)
    PROVE  /\ lock' \in [Rows -> Requests \cup {None}]
           /\ row' \in [Requests -> Rows \cup {None}]
           /\ row'[q] = d
           /\ \A r \in Requests \ {q} : row'[r] = row[r]
           /\ requests' \in 0 .. MaxRequests
BY DEF TypeOK, FindByIdForUpdate

LEMMA TypeInvariant == TypeOK /\ [Next]_vars => TypeOK'
<1> SUFFICES ASSUME TypeOK, [Next]_vars PROVE TypeOK'
  OBVIOUS
<1>1. ASSUME NEW d \in Rows, RecordFailure(d) PROVE TypeOK'
  BY <1>1 DEF RecordFailure, TypeOK, requestVars, Statuses
<1>2. ASSUME NEW q \in Requests, NEW d \in Rows, Reprocess(q, d) PROVE TypeOK'
  <2>1. FindByIdForUpdate(q, d)
    BY <1>2 DEF Reprocess
  <2>2. PICK label \in {"audit", "publish"}, t \in Entities,
             o \in Outcomes \cup {None} :
          Continue(q, label, t, o) /\ (label = "audit" => o \in Outcomes)
    BY <1>2, EntityType DEF Reprocess, Outcomes
  <2>3. /\ pc' \in [Requests -> Labels \cup {"idle"}]
        /\ entity' \in [Requests -> Entities \cup {None}]
        /\ outcome' \in [Requests -> Outcomes \cup {None}]
        /\ \A r \in Requests : pc'[r] # "idle" =>
              row'[r] \in Rows /\ entity'[r] \in Entities
        /\ \A r \in Requests : pc'[r] \in {"audit", "commit"} =>
              outcome'[r] \in Outcomes
    BY <2>1, <2>2, FindType DEF TypeOK, Continue, Labels
  <2> QED BY <1>2, <2>1, <2>3, FindType DEF TypeOK, Reprocess
<1>3. ASSUME NEW q \in Requests, NEW d \in Rows, Discard(q, d) PROVE TypeOK'
  <2>1. FindByIdForUpdate(q, d)
    BY <1>3 DEF Discard
  <2>2. PICK t \in Entities, o \in Outcomes : Continue(q, "audit", t, o)
    BY <1>3, EntityType DEF Discard, Outcomes
  <2> QED BY <1>3, <2>1, <2>2, FindType, ContinueType DEF TypeOK, Discard
<1>4. ASSUME NEW q \in Requests, Publish(q) \/ PublishFails(q) PROVE TypeOK'
  <2>1. PICK t \in Entities, o \in Outcomes : Continue(q, "audit", t, o)
    BY <1>4, EntityType DEF Publish, PublishFails, TypeOK, Outcomes
  <2>3. row' = row /\ row[q] \in Rows
    BY <1>4 DEF Publish, PublishFails, TypeOK
  <2>2. /\ \/ topic' = topic
           \/ topic' = [topic EXCEPT ![row[q]] = @ + 1]
        /\ \/ late' = late
           \/ late' = [late EXCEPT ![row[q]] = @ + 1]
        /\ faults' = faults \/ (faults < MaxFaults /\ faults' = faults + 1)
        /\ UNCHANGED <<status, attempts, audits, lock, requests, unsettled>>
    BY <1>4 DEF Publish, PublishFails, Fault, dbVars
  <2>4. topic' \in [Rows -> Nat] /\ late' \in [Rows -> Nat]
    BY <2>2, <2>3 DEF TypeOK
  <2>5. faults' \in 0 .. MaxFaults
    BY <2>2 DEF TypeOK
  <2> QED BY <2>1, <2>2, <2>3, <2>4, <2>5, ContinueType DEF TypeOK
<1>5. ASSUME NEW q \in Requests, RecordDltAction(q) PROVE TypeOK'
  <2>1. entity[q] \in Entities /\ outcome[q] \in Outcomes /\ row[q] \in Rows
    BY <1>5 DEF RecordDltAction, TypeOK
  <2> QED BY <1>5, <2>1, ContinueType DEF TypeOK, RecordDltAction, dbVars
<1>6. ASSUME NEW q \in Requests, Commit(q) \/ CommitUnconfirmed(q) PROVE TypeOK'
  BY <1>6, EndType, WriteBackType
     DEF TypeOK, Commit, CommitUnconfirmed, Fault
<1>7. ASSUME NEW q \in Requests, Rollback(q) PROVE TypeOK'
  <2>1. late' \in [Rows -> Nat] /\ unsettled' \in [Rows -> Nat]
    BY <1>7 DEF Rollback, TypeOK
  <2> QED BY <1>7, <2>1, EndType DEF TypeOK, Rollback, Fault
<1>8. ASSUME NEW d \in Rows, SendArrives(d) PROVE TypeOK'
  BY <1>8 DEF SendArrives, TypeOK, dbVars, requestVars
<1>9. CASE UNCHANGED vars
  BY <1>9 DEF vars, dbVars, requestVars, TypeOK
<1> QED BY <1>1, <1>2, <1>3, <1>4, <1>5, <1>6, <1>7, <1>8, <1>9 DEF Next, Step

(* Every variable keeps its type; in particular a request that has an      *)
(* action to audit has an outcome for it (recordDltAction).                *)
THEOREM DltTypeCorrect == Spec => []TypeOK
<1>1. Init => TypeOK
  BY DEF Init, TypeOK
<1> QED BY <1>1, TypeInvariant, PTL DEF Spec

-----------------------------------------------------------------------------
(* The inductive invariant. *)

(* A request that works on a row is the one its lock names; so no two      *)
(* requests work on one row.                                               *)
LEMMA OneHolder ==
    ASSUME TypeOK, IInv, NEW q \in Requests, pc[q] # "idle"
    PROVE  /\ row[q] \in Rows /\ lock[row[q]] = q /\ RequestOK(q)
           /\ \A r \in Requests \ {q} : pc[r] # "idle" => row[r] # row[q]
           /\ \A d \in Rows : lock[d] = q => d = row[q]
BY DEF TypeOK, IInv, RequestInv, LockInv, RequestOK

(* What does not touch another request or its row keeps what that request's *)
(* progress says.                                                          *)
LEMMA OtherRequest ==
    ASSUME NEW r \in Requests, RequestOK(r),
           pc'[r] = pc[r], row'[r] = row[r], entity'[r] = entity[r],
           outcome'[r] = outcome[r],
           lock'[row[r]] = lock[row[r]], status'[row[r]] = status[row[r]],
           attempts'[row[r]] = attempts[row[r]],
           topic[row[r]] > 0 => topic'[row[r]] > 0
    PROVE  RequestOK(r)'
BY DEF RequestOK, CanRetry

(* What the methods of the entity set. *)
LEMMA EntityValues ==
    ASSUME TypeOK, NEW d \in Rows, NEW t \in Entities
    PROVE  /\ Stored(d).status = status[d] /\ Stored(d).attempts = attempts[d]
           /\ Started(d).attempts = attempts[d] + 1
           /\ MarkReprocessed(t).status = "REPROCESSED"
           /\ MarkReprocessed(t).attempts = t.attempts
           /\ MarkReprocessFailed(t).status = "REPROCESS_FAILED"
           /\ MarkReprocessFailed(t).attempts = t.attempts
           /\ Discarded(t).status = "DISCARDED"
           /\ Discarded(t).attempts = t.attempts
BY DEF Entities, Stored, Started, MarkReprocessed, MarkReprocessFailed, Discarded

(* The entities with which a request goes on. *)
LEMMA StartValues ==
    ASSUME TypeOK, NEW d \in Rows
    PROVE  /\ Stored(d).status = status[d] /\ Stored(d).attempts = attempts[d]
           /\ Started(d).attempts = attempts[d] + 1
           /\ MarkReprocessFailed(Started(d)).status = "REPROCESS_FAILED"
           /\ MarkReprocessFailed(Started(d)).attempts = attempts[d] + 1
           /\ Discarded(Stored(d)).status = "DISCARDED"
           /\ Discarded(Stored(d)).attempts = attempts[d]
<1>1. Started(d) \in Entities /\ Stored(d) \in Entities
  BY EntityType
<1> QED BY <1>1, EntityValues

(* A request that starts locks a free row and works on a state that row    *)
(* may take.                                                               *)
LEMMA StartInvariant ==
    ASSUME TypeOK, TypeOK', IInv, NEW q \in Requests, NEW d \in Rows,
           Reprocess(q, d) \/ Discard(q, d)
    PROVE  IInv'
<1>1. /\ pc[q] = "idle" /\ lock[d] = None /\ status[d] # "ABSENT"
      /\ lock' = [lock EXCEPT ![d] = q]
      /\ row' = [row EXCEPT ![q] = d]
      /\ UNCHANGED <<status, attempts, audits, topic, late, unsettled>>
  BY DEF Reprocess, Discard, FindByIdForUpdate
<1> DEFINE t == entity'[q]
           o == outcome'[q]
<1>2. /\ pc' = [pc EXCEPT ![q] = pc'[q]]
      /\ entity' = [entity EXCEPT ![q] = t]
      /\ outcome' = [outcome EXCEPT ![q] = o]
      /\ row'[q] = d /\ lock'[d] = q
  <2>1. PICK label, x, y : Continue(q, label, x, y)
    BY DEF Reprocess, Discard
  <2> QED BY <1>1, <2>1 DEF Continue, TypeOK
<1>3. /\ pc'[q] # "idle"
      /\ pc'[q] = "publish" <=> o = None
      /\ o \in {None, "rejected", "discarded", "not_reprocessable"}
      /\ o = "rejected" => t.status = status[d] /\ t.attempts = attempts[d]
      /\ o # "rejected" => CanRetry(status[d])
      /\ o = "discarded" => t.status = "DISCARDED" /\ t.attempts = attempts[d]
      /\ o \in {None, "not_reprocessable"} =>
            attempts[d] < MaxAttempts /\ t.attempts = attempts[d] + 1
      /\ o = "not_reprocessable" => t.status = "REPROCESS_FAILED"
  <2>0. ASSUME NEW label, NEW x, NEW y, Continue(q, label, x, y)
        PROVE  pc'[q] = label /\ t = x /\ o = y
    BY <2>0 DEF Continue, TypeOK
  <2>1. CASE Continue(q, "audit", Stored(d), "rejected")
    BY <2>0, <2>1, StartValues
  <2>2. CASE /\ AttemptsLeft(d) /\ CanRetry(status[d])
             /\ Continue(q, "audit", MarkReprocessFailed(Started(d)),
                         "not_reprocessable")
    BY <2>0, <2>2, StartValues DEF AttemptsLeft
  <2>3. CASE /\ AttemptsLeft(d) /\ CanRetry(status[d])
             /\ Continue(q, "publish", Started(d), None)
    BY <2>0, <2>3, StartValues DEF AttemptsLeft
  <2>4. CASE /\ CanRetry(status[d])
             /\ Continue(q, "audit", Discarded(Stored(d)), "discarded")
    <3>1. pc'[q] = "audit" /\ t = Discarded(Stored(d)) /\ o = "discarded"
      BY <2>0, <2>4
    <3>2. t.status = "DISCARDED" /\ t.attempts = attempts[d]
      BY <3>1, StartValues
    <3> HIDE DEF t, o
    <3> QED BY <2>4, <3>1, <3>2
  <2> QED BY <2>1, <2>2, <2>3, <2>4 DEF Reprocess, Discard
<1> HIDE DEF t, o
<1>5. RequestOK(q)'
  BY <1>1, <1>2, <1>3 DEF RequestOK, Attempted, CanRetry, t, o
<1>6. RequestInv'
  <2> SUFFICES ASSUME NEW r \in Requests \ {q}, pc'[r] # "idle" PROVE RequestOK(r)'
    BY <1>5 DEF RequestInv
  <2>1. /\ pc'[r] = pc[r] /\ row'[r] = row[r] /\ entity'[r] = entity[r]
        /\ outcome'[r] = outcome[r]
    BY <1>1, <1>2 DEF TypeOK
  <2>2. RequestOK(r) /\ row[r] \in Rows /\ lock[row[r]] = r
    BY <2>1, OneHolder
  <2>3. lock'[row[r]] = lock[row[r]]
    BY <1>1, <2>2 DEF TypeOK
  <2> QED BY <1>1, <2>1, <2>2, <2>3, OtherRequest
<1>7. LockInv'
  <2> SUFFICES ASSUME NEW x \in Rows, lock'[x] # None
               PROVE  pc'[lock'[x]] # "idle" /\ row'[lock'[x]] = x
    BY DEF LockInv
  <2>1. CASE x = d
    BY <1>2, <1>3, <2>1
  <2>2. CASE x # d
    <3>1. lock'[x] = lock[x] /\ lock[x] \in Requests /\ lock[x] # q
      BY <1>1, <2>2 DEF TypeOK, IInv, LockInv
    <3> QED BY <1>1, <1>2, <3>1 DEF TypeOK, IInv, LockInv
  <2> QED BY <2>1, <2>2
<1>8. ASSUME NEW x \in Rows PROVE InFlight(x)' = InFlight(x)
  <2>1. CASE x = d
    BY <1>1, <1>2, <1>3, <2>1 DEF InFlight, o
  <2>2. CASE x # d
    <3>1. lock'[x] = lock[x]
      BY <1>1, <2>2 DEF TypeOK
    <3>2. lock[x] # None => lock[x] \in Requests /\ lock[x] # q
      BY <1>1 DEF TypeOK, IInv, LockInv
    <3> QED BY <1>2, <3>1, <3>2 DEF TypeOK, InFlight
  <2> QED BY <2>1, <2>2
<1>9. CopiesAreAttempts'
  BY <1>1, <1>8 DEF IInv, CopiesAreAttempts, Sends
<1>10. LateInv' /\ AuditAgrees' /\ NeverStuckReprocessing'
  BY <1>1 DEF IInv, LateInv, AuditAgrees, NeverStuckReprocessing
<1> QED BY <1>6, <1>7, <1>9, <1>10 DEF IInv

(* Between start and end a request changes nothing of a row but what it    *)
(* sends to the topic.                                                     *)
LEMMA StepInvariant ==
    ASSUME TypeOK, TypeOK', IInv, NEW q \in Requests,
           Publish(q) \/ PublishFails(q) \/ RecordDltAction(q)
    PROVE  IInv'
<1>1. /\ pc[q] # "idle"
      /\ UNCHANGED <<status, attempts, audits, lock, row, unsettled>>
  BY DEF Publish, PublishFails, RecordDltAction, dbVars
<1>2. /\ row[q] \in Rows /\ lock[row[q]] = q /\ RequestOK(q)
      /\ \A d \in Rows : lock[d] = q => d = row[q]
  BY <1>1, OneHolder
<1>3. /\ pc' = [pc EXCEPT ![q] = pc'[q]]
      /\ entity' = [entity EXCEPT ![q] = entity'[q]]
      /\ outcome' = [outcome EXCEPT ![q] = outcome'[q]]
      /\ pc'[q] \in {"audit", "commit"}
  <2>1. PICK label, x, y : label \in {"audit", "commit"} /\ Continue(q, label, x, y)
    BY DEF Publish, PublishFails, RecordDltAction
  <2> QED BY <2>1 DEF Continue, TypeOK
<1>4. /\ \/ topic' \in {topic, [topic EXCEPT ![row[q]] = @ + 1]} /\ late' = late
         \/ topic' = topic /\ late' \in {late, [late EXCEPT ![row[q]] = @ + 1]}
      /\ pc[q] = "publish" \/ (topic' = topic /\ late' = late)
  BY DEF Publish, PublishFails, RecordDltAction
<1>5. \/ /\ pc[q] = "publish"
         /\ outcome'[q] = "reprocessed"
         /\ entity'[q].status = "REPROCESSED"
         /\ entity'[q].attempts = entity[q].attempts
         /\ topic' = [topic EXCEPT ![row[q]] = @ + 1]
      \/ /\ pc[q] = "publish"
         /\ outcome'[q] = "publish_failed"
         /\ entity'[q].status = "REPROCESS_FAILED"
         /\ entity'[q].attempts = entity[q].attempts
      \/ /\ pc[q] = "audit"
         /\ outcome'[q] = outcome[q]
         /\ entity'[q] = entity[q]
         /\ topic' = topic
  <2>0. ASSUME NEW label, NEW x, NEW y, Continue(q, label, x, y)
        PROVE  entity'[q] = x /\ outcome'[q] = y
    BY <2>0 DEF Continue, TypeOK
  <2>1. entity[q] \in Entities
    BY <1>1 DEF TypeOK
  <2>2. CASE Publish(q)
    BY <1>2, <2>0, <2>1, <2>2, EntityValues DEF Publish
  <2>3. CASE PublishFails(q)
    BY <1>2, <2>0, <2>1, <2>3, EntityValues DEF PublishFails
  <2>4. CASE RecordDltAction(q)
    BY <2>0, <2>4 DEF RecordDltAction
  <2> QED BY <2>2, <2>3, <2>4
<1>6. RequestOK(q)'
  <2>1. /\ pc[q] = "publish" => outcome[q] = None
        /\ pc[q] = "audit" => outcome[q] # None
    BY <1>2 DEF RequestOK
  <2>2. CASE pc[q] = "publish" /\ outcome'[q] = "reprocessed"
    <3>1. topic'[row[q]] > 0
      BY <1>2, <1>4, <1>5, <2>1, <2>2 DEF TypeOK
    <3> QED BY <1>1, <1>2, <1>3, <1>5, <2>1, <2>2, <3>1 DEF RequestOK, Attempted
  <2>3. CASE pc[q] = "publish" /\ outcome'[q] = "publish_failed"
    BY <1>1, <1>2, <1>3, <1>5, <2>1, <2>3 DEF RequestOK, Attempted
  <2>4. CASE pc[q] = "audit"
    BY <1>1, <1>2, <1>3, <1>5, <2>1, <2>4 DEF RequestOK
  <2> QED BY <1>5, <2>2, <2>3, <2>4
<1>7. RequestInv'
  <2> SUFFICES ASSUME NEW r \in Requests \ {q}, pc'[r] # "idle" PROVE RequestOK(r)'
    BY <1>6 DEF RequestInv
  <2>1. /\ pc'[r] = pc[r] /\ row'[r] = row[r] /\ entity'[r] = entity[r]
        /\ outcome'[r] = outcome[r]
    BY <1>1, <1>3 DEF TypeOK
  <2>2. RequestOK(r) /\ row[r] \in Rows /\ row[r] # row[q]
    BY <1>1, <2>1, OneHolder
  <2>3. topic'[row[r]] = topic[row[r]]
    BY <1>1, <1>4, <2>2 DEF TypeOK
  <2> QED BY <1>1, <2>1, <2>2, <2>3, OtherRequest
<1>8. LockInv'
  BY <1>1, <1>3 DEF TypeOK, IInv, LockInv
<1>9. ASSUME NEW d \in Rows
      PROVE  /\ Sends(d)' <= attempts[d] + unsettled[d] + (IF InFlight(d)' THEN 1 ELSE 0)
             /\ topic'[d] >= topic[d]
  <2>1. /\ topic[d] \in Nat /\ late[d] \in Nat
        /\ topic'[d] \in Nat /\ late'[d] \in Nat
        /\ attempts[d] \in Nat /\ unsettled[d] \in Nat
        /\ Sends(d) = topic[d] + late[d] /\ Sends(d)' = topic'[d] + late'[d]
        /\ Sends(d) <= attempts[d] + unsettled[d] + (IF InFlight(d) THEN 1 ELSE 0)
    BY DEF TypeOK, IInv, CopiesAreAttempts, Sends
  <2>2. CASE d = row[q]
    <3>1. InFlight(d) <=> outcome[q] \in {"reprocessed", "publish_failed"}
      BY <1>2, <2>2 DEF InFlight
    <3>2. InFlight(d)' <=> outcome'[q] \in {"reprocessed", "publish_failed"}
      BY <1>1, <1>2, <2>2 DEF InFlight
    <3>3. /\ topic'[d] >= topic[d]
          /\ Sends(d)' <= Sends(d) + 1
          /\ pc[q] # "publish" => Sends(d)' = Sends(d)
      BY <1>2, <1>4, <2>1, <2>2 DEF TypeOK
    <3>4. CASE pc[q] = "publish"
      <4>1. ~InFlight(d) /\ InFlight(d)'
        BY <1>2, <1>5, <3>1, <3>2, <3>4 DEF RequestOK
      <4> QED BY <2>1, <3>3, <4>1
    <3>5. CASE pc[q] # "publish"
      <4>1. InFlight(d)' <=> InFlight(d)
        BY <1>5, <3>1, <3>2, <3>5
      <4> QED BY <2>1, <3>3, <3>5, <4>1
    <3> QED BY <3>4, <3>5
  <2>3. CASE d # row[q]
    <3>1. topic'[d] = topic[d] /\ late'[d] = late[d]
      BY <1>2, <1>4, <2>3 DEF TypeOK
    <3>2. lock[d] # q /\ (lock[d] # None => lock[d] \in Requests)
      BY <1>2, <2>3 DEF TypeOK
    <3>3. InFlight(d)' <=> InFlight(d)
      BY <1>1, <1>3, <3>2 DEF TypeOK, InFlight
    <3> QED BY <2>1, <3>1, <3>3
  <2> QED BY <2>2, <2>3
<1>10. CopiesAreAttempts'
  <2> SUFFICES ASSUME NEW d \in Rows
               PROVE  /\ Sends(d)' <= attempts'[d] + unsettled'[d]
                              + (IF InFlight(d)' THEN 1 ELSE 0)
                      /\ attempts'[d] <= MaxAttempts
                      /\ status'[d] = "REPROCESSED" => topic'[d] > 0
    BY DEF CopiesAreAttempts
  <2> QED BY <1>1, <1>9 DEF TypeOK, IInv, CopiesAreAttempts
<1>11. AuditAgrees' /\ NeverStuckReprocessing'
  BY <1>1 DEF IInv, AuditAgrees, NeverStuckReprocessing
<1>12. LateInv'
  <2> SUFFICES ASSUME NEW d \in Rows, late'[d] > 0 PROVE status'[d] # "ABSENT"
    BY DEF LateInv
  <2>1. CASE d = row[q]
    BY <1>1, <1>2, <2>1 DEF RequestOK
  <2>2. CASE d # row[q]
    <3>1. late'[d] = late[d]
      BY <1>2, <1>4, <2>2 DEF TypeOK
    <3> QED BY <1>1, <3>1 DEF IInv, LateInv
  <2> QED BY <2>1, <2>2
<1> QED BY <1>7, <1>8, <1>10, <1>11, <1>12 DEF IInv

(* A record that arrives late was sent before. *)
LEMMA ArrivalInvariant ==
    ASSUME TypeOK, IInv, NEW d \in Rows, SendArrives(d)
    PROVE  IInv'
<1>1. /\ late[d] > 0
      /\ late' = [late EXCEPT ![d] = @ - 1] /\ topic' = [topic EXCEPT ![d] = @ + 1]
      /\ UNCHANGED <<status, attempts, audits, lock, pc, row, entity, outcome,
                     unsettled>>
  BY DEF SendArrives, dbVars, requestVars
<1>2. ASSUME NEW x \in Rows
      PROVE  /\ Sends(x)' = Sends(x)
             /\ topic[x] > 0 => topic'[x] > 0
             /\ late'[x] > 0 => late[x] > 0
  <2>1. topic[x] \in Nat /\ late[x] \in Nat /\ topic[d] \in Nat /\ late[d] \in Nat
    BY DEF TypeOK
  <2>2. CASE x = d
    <3>1. late'[x] = late[x] - 1 /\ topic'[x] = topic[x] + 1
      BY <1>1, <2>2 DEF TypeOK
    <3> QED BY <1>1, <2>1, <2>2, <3>1 DEF Sends
  <2>3. CASE x # d
    <3>1. late'[x] = late[x] /\ topic'[x] = topic[x]
      BY <1>1, <2>3 DEF TypeOK
    <3> QED BY <2>1, <3>1 DEF Sends
  <2> QED BY <2>2, <2>3
<1>3. RequestInv'
  <2> SUFFICES ASSUME NEW r \in Requests, pc'[r] # "idle" PROVE RequestOK(r)'
    BY DEF RequestInv
  <2>1. RequestOK(r) /\ row[r] \in Rows
    BY <1>1, OneHolder
  <2> QED BY <1>1, <1>2, <2>1, OtherRequest
<1>4. LockInv' /\ LateInv'
  BY <1>1, <1>2 DEF IInv, LockInv, LateInv
<1>5. CopiesAreAttempts'
  BY <1>1, <1>2 DEF IInv, CopiesAreAttempts, InFlight
<1>6. AuditAgrees' /\ NeverStuckReprocessing'
  BY <1>1 DEF IInv, AuditAgrees, NeverStuckReprocessing
<1> QED BY <1>3, <1>4, <1>5, <1>6 DEF IInv

(* The end of a transaction frees its row and disturbs no other request.   *)
LEMMA EndInvariant ==
    ASSUME TypeOK, IInv, NEW q \in Requests, pc[q] # "idle", End(q),
           \A d \in Rows \ {row[q]} :
               /\ status'[d] = status[d] /\ attempts'[d] = attempts[d]
               /\ topic'[d] = topic[d]
    PROVE  /\ RequestInv' /\ LockInv'
           /\ \A d \in Rows : InFlight(d)' <=> d # row[q] /\ InFlight(d)
<1>1. /\ row[q] \in Rows /\ lock[row[q]] = q
      /\ \A r \in Requests \ {q} : pc[r] # "idle" => row[r] # row[q]
      /\ \A d \in Rows : lock[d] = q => d = row[q]
  BY OneHolder
<1>2. /\ pc' = [pc EXCEPT ![q] = "idle"]
      /\ row' = [row EXCEPT ![q] = None]
      /\ entity' = [entity EXCEPT ![q] = None]
      /\ outcome' = [outcome EXCEPT ![q] = None]
      /\ lock' = [d \in Rows |-> IF lock[d] = q THEN None ELSE lock[d]]
  BY DEF End, Continue
<1>3. lock'[row[q]] = None /\ \A d \in Rows \ {row[q]} : lock'[d] = lock[d]
  BY <1>1, <1>2
<1>4. RequestInv'
  <2> SUFFICES ASSUME NEW r \in Requests, pc'[r] # "idle" PROVE RequestOK(r)'
    BY DEF RequestInv
  <2>1. /\ r # q /\ pc'[r] = pc[r] /\ row'[r] = row[r]
        /\ entity'[r] = entity[r] /\ outcome'[r] = outcome[r]
    BY <1>2 DEF TypeOK
  <2>2. RequestOK(r) /\ row[r] \in Rows \ {row[q]}
    BY <1>1, <2>1, OneHolder
  <2> QED BY <1>3, <2>1, <2>2, OtherRequest
<1>5. ASSUME NEW d \in Rows, d # row[q], lock[d] # None
      PROVE  lock[d] \in Requests \ {q}
  BY <1>1, <1>5 DEF TypeOK
<1>6. LockInv'
  <2> SUFFICES ASSUME NEW d \in Rows, lock'[d] # None
               PROVE  pc'[lock'[d]] # "idle" /\ row'[lock'[d]] = d
    BY DEF LockInv
  <2>1. d # row[q] /\ lock'[d] = lock[d] /\ lock[d] \in Requests \ {q}
    BY <1>3, <1>5
  <2> QED BY <1>2, <2>1 DEF TypeOK, IInv, LockInv
<1>7. ASSUME NEW d \in Rows
      PROVE  InFlight(d)' <=> d # row[q] /\ InFlight(d)
  <2>1. CASE d = row[q]
    BY <1>3, <2>1 DEF InFlight
  <2>2. CASE d # row[q]
    <3>1. lock'[d] = lock[d]
      BY <1>3, <2>2
    <3> QED BY <1>2, <1>5, <2>2, <3>1 DEF TypeOK, InFlight
  <2> QED BY <2>1, <2>2
<1> QED BY <1>4, <1>6, <1>7

(* A rollback leaves the row as it was and accounts for a send.            *)
LEMMA RollbackInvariant ==
    ASSUME TypeOK, TypeOK', IInv, NEW q \in Requests, Rollback(q)
    PROVE  IInv'
<1>1. /\ pc[q] # "idle" /\ End(q)
      /\ UNCHANGED <<status, attempts, audits, topic>>
  BY DEF Rollback
<1>2. row[q] \in Rows /\ lock[row[q]] = q /\ RequestOK(q)
  BY <1>1, OneHolder
<1>3. PICK sent \in {0, 1} :
        /\ sent = 1 => pc[q] = "publish"
        /\ late' = [late EXCEPT ![row[q]] = @ + sent]
        /\ unsettled' = [unsettled EXCEPT ![row[q]] =
              @ + (IF outcome[q] \in {"reprocessed", "publish_failed"}
                   THEN 1 ELSE sent)]
  BY DEF Rollback
<1>4. /\ RequestInv' /\ LockInv'
      /\ \A d \in Rows : InFlight(d)' <=> d # row[q] /\ InFlight(d)
  <2>1. \A d \in Rows \ {row[q]} :
            /\ status'[d] = status[d] /\ attempts'[d] = attempts[d]
            /\ topic'[d] = topic[d]
    BY <1>1, <1>3 DEF TypeOK
  <2> QED BY <1>1, <2>1, EndInvariant
<1>5. ASSUME NEW d \in Rows
      PROVE  Sends(d)' <= attempts[d] + unsettled'[d] + (IF InFlight(d)' THEN 1 ELSE 0)
  <2>1. /\ topic[d] \in Nat /\ late[d] \in Nat
        /\ attempts[d] \in Nat /\ unsettled[d] \in Nat
        /\ Sends(d) = topic[d] + late[d] /\ Sends(d)' = topic'[d] + late'[d]
        /\ Sends(d) <= attempts[d] + unsettled[d] + (IF InFlight(d) THEN 1 ELSE 0)
    BY DEF TypeOK, IInv, CopiesAreAttempts, Sends
  <2>2. CASE d = row[q]
    <3>1. InFlight(d) <=> outcome[q] \in {"reprocessed", "publish_failed"}
      BY <1>2, <2>2 DEF InFlight
    <3>2. pc[q] = "publish" => ~InFlight(d)
      BY <1>2, <3>1 DEF RequestOK
    <3>3. topic'[d] = topic[d] /\ late'[d] = late[d] + sent
      BY <1>1, <1>3, <2>2 DEF TypeOK
    <3>4. unsettled'[d] = unsettled[d] + (IF InFlight(d) THEN 1 ELSE sent)
      BY <1>3, <2>2, <3>1 DEF TypeOK
    <3>5. ~InFlight(d)'
      BY <1>4, <2>2
    <3>6. CASE InFlight(d)
      BY <1>3, <2>1, <3>2, <3>3, <3>4, <3>5, <3>6
    <3>7. CASE ~InFlight(d)
      BY <1>3, <2>1, <3>3, <3>4, <3>5, <3>7
    <3> QED BY <3>6, <3>7
  <2>3. CASE d # row[q]
    <3>1. /\ topic'[d] = topic[d] /\ late'[d] = late[d]
          /\ unsettled'[d] = unsettled[d]
      BY <1>1, <1>2, <1>3, <2>3 DEF TypeOK
    <3>2. InFlight(d)' <=> InFlight(d)
      BY <1>4, <2>3
    <3> QED BY <2>1, <3>1, <3>2
  <2> QED BY <2>2, <2>3
<1>6. CopiesAreAttempts'
  <2> SUFFICES ASSUME NEW d \in Rows
               PROVE  /\ Sends(d)' <= attempts'[d] + unsettled'[d]
                              + (IF InFlight(d)' THEN 1 ELSE 0)
                      /\ attempts'[d] <= MaxAttempts
                      /\ status'[d] = "REPROCESSED" => topic'[d] > 0
    BY DEF CopiesAreAttempts
  <2> QED BY <1>1, <1>5 DEF TypeOK, IInv, CopiesAreAttempts
<1>7. AuditAgrees' /\ NeverStuckReprocessing'
  BY <1>1 DEF IInv, AuditAgrees, NeverStuckReprocessing
<1>8. LateInv'
  <2> SUFFICES ASSUME NEW d \in Rows, late'[d] > 0 PROVE status'[d] # "ABSENT"
    BY DEF LateInv
  <2>1. CASE d = row[q]
    BY <1>1, <1>2, <2>1 DEF RequestOK
  <2>2. CASE d # row[q]
    <3>1. late'[d] = late[d]
      BY <1>2, <1>3, <2>2 DEF TypeOK
    <3> QED BY <1>1, <3>1 DEF IInv, LateInv
  <2> QED BY <2>1, <2>2
<1> QED BY <1>4, <1>6, <1>7, <1>8 DEF IInv

(* The row the commit writes.                                              *)
LEMMA WriteBackValues ==
    ASSUME TypeOK, NEW q \in Requests, pc[q] = "commit", WriteBack(q)
    PROVE  /\ status'[row[q]] = entity[q].status
           /\ attempts'[row[q]] = entity[q].attempts
           /\ audits'[row[q]][outcome[q]] = audits[row[q]][outcome[q]] + 1
           /\ \A o \in Outcomes \ {outcome[q]} :
                 audits'[row[q]][o] = audits[row[q]][o]
           /\ \A d \in Rows \ {row[q]} :
                 /\ status'[d] = status[d] /\ attempts'[d] = attempts[d]
                 /\ audits'[d] = audits[d]
<1>1. row[q] \in Rows /\ outcome[q] \in Outcomes /\ audits \in [Rows -> [Outcomes -> Nat]]
  BY DEF TypeOK
<1> QED BY <1>1 DEF TypeOK, WriteBack

(* A commit audits what it writes. *)
LEMMA CommitInvariant ==
    ASSUME TypeOK, TypeOK', IInv, NEW q \in Requests,
           Commit(q) \/ CommitUnconfirmed(q)
    PROVE  IInv'
<1>1. /\ pc[q] = "commit" /\ WriteBack(q) /\ End(q)
      /\ UNCHANGED <<topic, late, unsettled>>
  BY DEF Commit, CommitUnconfirmed
<1>2. /\ row[q] \in Rows /\ lock[row[q]] = q /\ RequestOK(q)
      /\ outcome[q] \in Outcomes
  BY <1>1, OneHolder DEF TypeOK
<1>3. /\ RequestInv' /\ LockInv'
      /\ \A d \in Rows : InFlight(d)' <=> d # row[q] /\ InFlight(d)
  BY <1>1, EndInvariant, WriteBackValues
<1>4. ASSUME NEW d \in Rows
      PROVE  /\ audits'[d]["reprocessed"] = IF status'[d] = "REPROCESSED" THEN 1 ELSE 0
             /\ audits'[d]["discarded"] = IF status'[d] = "DISCARDED" THEN 1 ELSE 0
             /\ attempts'[d] = audits'[d]["reprocessed"] + audits'[d]["publish_failed"]
                                  + audits'[d]["not_reprocessable"]
             /\ status'[d] # "REPROCESSING"
             /\ attempts'[d] <= MaxAttempts
             /\ status'[d] = "REPROCESSED" => topic[d] > 0
             /\ Sends(d) <= attempts'[d] + unsettled[d] + (IF InFlight(d)' THEN 1 ELSE 0)
             /\ late[d] > 0 => status'[d] # "ABSENT"
  <2> DEFINE a(o) == audits[d][o]
             b(o) == audits'[d][o]
  <2>1. /\ Sends(d) \in Nat /\ attempts[d] \in Nat /\ unsettled[d] \in Nat
        /\ a("reprocessed") \in Nat /\ a("discarded") \in Nat
        /\ a("publish_failed") \in Nat /\ a("not_reprocessable") \in Nat
    BY DEF TypeOK, Outcomes, Sends
  <2>2. /\ a("reprocessed") = IF status[d] = "REPROCESSED" THEN 1 ELSE 0
        /\ a("discarded") = IF status[d] = "DISCARDED" THEN 1 ELSE 0
        /\ attempts[d] = a("reprocessed") + a("publish_failed")
                             + a("not_reprocessable")
        /\ status[d] # "REPROCESSING"
        /\ attempts[d] <= MaxAttempts
        /\ status[d] = "REPROCESSED" => topic[d] > 0
        /\ Sends(d) <= attempts[d] + unsettled[d] + (IF InFlight(d) THEN 1 ELSE 0)
        /\ late[d] > 0 => status[d] # "ABSENT"
    BY DEF IInv, AuditAgrees, CopiesAreAttempts, NeverStuckReprocessing, LateInv
  <2>3. CASE d # row[q]
    <3>1. /\ status'[d] = status[d] /\ attempts'[d] = attempts[d]
          /\ audits'[d] = audits[d] /\ (InFlight(d)' <=> InFlight(d))
      BY <1>1, <1>3, <2>3, WriteBackValues
    <3> QED BY <2>2, <3>1
  <2>4. CASE d = row[q]
    <3>1. /\ status'[d] = entity[q].status /\ attempts'[d] = entity[q].attempts
          /\ b(outcome[q]) = a(outcome[q]) + 1
          /\ \A o \in Outcomes \ {outcome[q]} : b(o) = a(o)
      BY <1>1, <2>4, WriteBackValues
    <3>2. InFlight(d) <=> outcome[q] \in {"reprocessed", "publish_failed"}
      BY <1>2, <2>4 DEF InFlight
    <3>3. ~InFlight(d)'
      BY <1>3, <2>4
    <3>4. outcome[q] # "rejected" => status[d] \notin {"REPROCESSED", "DISCARDED"}
      BY <1>2, <2>4 DEF RequestOK, CanRetry
    <3> HIDE DEF a, b
    <3>5. CASE outcome[q] = "rejected"
      <4>1. status'[d] = status[d] /\ attempts'[d] = attempts[d]
        BY <1>2, <2>4, <3>1, <3>5 DEF RequestOK
      <4>2. /\ b("reprocessed") = a("reprocessed") /\ b("discarded") = a("discarded")
            /\ b("publish_failed") = a("publish_failed")
            /\ b("not_reprocessable") = a("not_reprocessable")
        BY <3>1, <3>5 DEF Outcomes
      <4> QED BY <2>1, <2>2, <3>2, <3>3, <3>5, <4>1, <4>2 DEF b
    <3>6. CASE outcome[q] = "discarded"
      <4>1. status'[d] = "DISCARDED" /\ attempts'[d] = attempts[d]
        BY <1>2, <2>4, <3>1, <3>6 DEF RequestOK
      <4>2. /\ b("reprocessed") = a("reprocessed") /\ b("discarded") = a("discarded") + 1
            /\ b("publish_failed") = a("publish_failed")
            /\ b("not_reprocessable") = a("not_reprocessable")
        BY <3>1, <3>6 DEF Outcomes
      <4> QED BY <2>1, <2>2, <3>2, <3>3, <3>4, <3>6, <4>1, <4>2 DEF b
    <3>7. CASE outcome[q] = "reprocessed"
      <4>1. /\ status'[d] = "REPROCESSED" /\ attempts'[d] = attempts[d] + 1
            /\ attempts[d] < MaxAttempts /\ topic[d] > 0
        BY <1>2, <2>4, <3>1, <3>7 DEF RequestOK, Attempted
      <4>2. /\ b("reprocessed") = a("reprocessed") + 1 /\ b("discarded") = a("discarded")
            /\ b("publish_failed") = a("publish_failed")
            /\ b("not_reprocessable") = a("not_reprocessable")
        BY <3>1, <3>7 DEF Outcomes
      <4> QED BY <2>1, <2>2, <3>2, <3>3, <3>4, <3>7, <4>1, <4>2 DEF b
    <3>8. CASE outcome[q] \in {"publish_failed", "not_reprocessable"}
      <4>1. /\ status'[d] = "REPROCESS_FAILED" /\ attempts'[d] = attempts[d] + 1
            /\ attempts[d] < MaxAttempts
        BY <1>2, <2>4, <3>1, <3>8 DEF RequestOK, Attempted
      <4>2. /\ b("reprocessed") = a("reprocessed") /\ b("discarded") = a("discarded")
            /\ b("publish_failed") + b("not_reprocessable")
                  = a("publish_failed") + a("not_reprocessable") + 1
            /\ b("publish_failed") \in Nat /\ b("not_reprocessable") \in Nat
        BY <2>1, <3>1, <3>8 DEF Outcomes
      <4> QED BY <2>1, <2>2, <3>2, <3>3, <3>4, <3>8, <4>1, <4>2 DEF b
    <3> QED BY <1>2, <3>5, <3>6, <3>7, <3>8 DEF Outcomes
  <2> QED BY <2>3, <2>4
<1>5. CopiesAreAttempts'
  <2> SUFFICES ASSUME NEW d \in Rows
               PROVE  /\ Sends(d)' <= attempts'[d] + unsettled'[d]
                              + (IF InFlight(d)' THEN 1 ELSE 0)
                      /\ attempts'[d] <= MaxAttempts
                      /\ status'[d] = "REPROCESSED" => topic'[d] > 0
    BY DEF CopiesAreAttempts
  <2> QED BY <1>1, <1>4 DEF Sends
<1>6. LateInv' /\ AuditAgrees' /\ NeverStuckReprocessing'
  BY <1>1, <1>4 DEF LateInv, AuditAgrees, NeverStuckReprocessing
<1> QED BY <1>3, <1>5, <1>6 DEF IInv

(* A new dead letter has no request, audit or copy yet.                    *)
LEMMA RecordFailureInvariant ==
    ASSUME TypeOK, TypeOK', IInv, NEW d \in Rows, RecordFailure(d)
    PROVE  IInv'
<1>1. /\ status[d] = "ABSENT" /\ status' = [status EXCEPT ![d] = "PENDING"]
      /\ UNCHANGED <<attempts, audits, lock, topic, late, pc, row, entity,
                     outcome, unsettled>>
  BY DEF RecordFailure, requestVars
<1>2. RequestInv'
  <2> SUFFICES ASSUME NEW r \in Requests, pc'[r] # "idle" PROVE RequestOK(r)'
    BY DEF RequestInv
  <2>1. RequestOK(r) /\ row[r] \in Rows
    BY <1>1, OneHolder
  <2>2. status'[row[r]] = status[row[r]]
    BY <1>1, <2>1 DEF TypeOK, RequestOK
  <2> QED BY <1>1, <2>1, <2>2, OtherRequest
<1>3. LockInv'
  BY <1>1 DEF IInv, LockInv
<1>4. ASSUME NEW x \in Rows
      PROVE  /\ status'[x] = "REPROCESSED" <=> status[x] = "REPROCESSED"
             /\ status'[x] = "DISCARDED" <=> status[x] = "DISCARDED"
             /\ status'[x] # "REPROCESSING"
             /\ status'[x] = "ABSENT" => status[x] = "ABSENT"
  BY <1>1 DEF TypeOK, IInv, NeverStuckReprocessing
<1>5. CopiesAreAttempts'
  BY <1>1, <1>4 DEF IInv, CopiesAreAttempts, InFlight, Sends
<1>6. LateInv' /\ AuditAgrees' /\ NeverStuckReprocessing'
  BY <1>1, <1>4 DEF IInv, LateInv, AuditAgrees, NeverStuckReprocessing
<1> QED BY <1>2, <1>3, <1>5, <1>6 DEF IInv

(* The inductive invariant holds in every reachable state: the row lock    *)
(* makes a request's decision valid until it commits.                      *)
THEOREM DltInvariant == Spec => []IInv
<1>1. Init => IInv
  BY DEF Init, IInv, RequestInv, LockInv, LateInv, AuditAgrees,
         CopiesAreAttempts, NeverStuckReprocessing, InFlight, Outcomes, Sends
<1>2. TypeOK /\ TypeOK' /\ IInv /\ [Next]_vars => IInv'
  <2> SUFFICES ASSUME TypeOK, TypeOK', IInv, [Next]_vars PROVE IInv'
    OBVIOUS
  <2>1. CASE UNCHANGED vars
    <3>1. UNCHANGED <<status, attempts, audits, lock, topic, late, pc, row,
                      entity, outcome, unsettled>>
      BY <2>1 DEF vars, dbVars, requestVars
    <3>2. RequestInv' /\ LockInv'
      BY <3>1 DEF IInv, RequestInv, LockInv, RequestOK, CanRetry
    <3> QED BY <3>1, <3>2 DEF IInv, LateInv, AuditAgrees, CopiesAreAttempts,
                              InFlight, Sends, NeverStuckReprocessing
  <2>2. CASE Next
    BY <2>2, RecordFailureInvariant, StartInvariant, StepInvariant,
       ArrivalInvariant, CommitInvariant, RollbackInvariant DEF Next, Step
  <2> QED BY <2>1, <2>2
<1> QED BY <1>1, <1>2, DltTypeCorrect, PTL DEF Spec

(* The audit log agrees with every row, for any number of concurrent       *)
(* requests, failing sends and rollbacks.                                  *)
THEOREM AuditCorrect == Spec => []AuditAgrees
<1>1. IInv => AuditAgrees
  BY DEF IInv
<1> QED BY <1>1, DltInvariant, PTL

(* The limit on attempts limits the copies in the source topic, except for *)
(* sends whose transaction did not commit.                                 *)
THEOREM CopiesBounded == Spec => []CopiesAreAttempts
<1>1. IInv => CopiesAreAttempts
  BY DEF IInv
<1> QED BY <1>1, DltInvariant, PTL

(* REPROCESSED and DISCARDED are final and the payload of such a row is    *)
(* not sent any more, whatever requests run at the same time and whenever  *)
(* an earlier send arrives.                                                *)
THEOREM TerminalFinal == Spec => TerminalIsFinal
<1> DEFINE Final == \A d \in Rows : status[d] \in Terminal =>
                       status'[d] = status[d] /\ Sends(d)' = Sends(d)
<1>1. TypeOK /\ IInv /\ [Next]_vars => [Final]_vars
  <2> SUFFICES ASSUME TypeOK, IInv, Next, NEW d \in Rows, status[d] \in Terminal
               PROVE  status'[d] = status[d] /\ Sends(d)' = Sends(d)
    OBVIOUS
  <2>0. ASSUME NEW q \in Requests, pc[q] # "idle", d = row[q]
        PROVE  outcome[q] = "rejected"
    BY <2>0, OneHolder DEF RequestOK, CanRetry, Terminal
  <2>1. CASE \E x \in Rows : RecordFailure(x)
    BY <2>1 DEF RecordFailure, TypeOK, Terminal, Sends
  <2>2. CASE \E q \in Requests, x \in Rows : Reprocess(q, x) \/ Discard(q, x)
    BY <2>2 DEF Reprocess, Discard, Sends
  <2>3. ASSUME NEW q \in Requests, Publish(q) \/ PublishFails(q) \/ Rollback(q)
        PROVE  status'[d] = status[d] /\ Sends(d)' = Sends(d)
    <3>1. /\ pc[q] # "idle" /\ status' = status
          /\ \A x \in Rows \ {row[q]} : topic'[x] = topic[x] /\ late'[x] = late[x]
          /\ \/ pc[q] = "publish"
             \/ topic' = topic /\ late' = [late EXCEPT ![row[q]] = @ + 0]
      BY <2>3 DEF Publish, PublishFails, Rollback, dbVars, TypeOK
    <3>2. CASE d = row[q]
      <4>1. RequestOK(q) /\ outcome[q] = "rejected"
        BY <2>0, <3>1, <3>2, OneHolder
      <4>2. pc[q] # "publish"
        BY <4>1 DEF RequestOK
      <4> QED BY <3>1, <3>2, <4>2 DEF TypeOK, Sends
    <3>3. CASE d # row[q]
      BY <3>1, <3>3 DEF Sends
    <3> QED BY <3>2, <3>3
  <2>4. ASSUME NEW q \in Requests, RecordDltAction(q)
        PROVE  status'[d] = status[d] /\ Sends(d)' = Sends(d)
    BY <2>4 DEF RecordDltAction, dbVars, Sends
  <2>5. ASSUME NEW q \in Requests, Commit(q) \/ CommitUnconfirmed(q)
        PROVE  status'[d] = status[d] /\ Sends(d)' = Sends(d)
    <3>1. pc[q] = "commit" /\ WriteBack(q) /\ topic' = topic /\ late' = late
      BY <2>5 DEF Commit, CommitUnconfirmed
    <3>2. CASE d = row[q]
      BY <2>0, <3>1, <3>2, OneHolder, WriteBackValues DEF RequestOK, Sends
    <3>3. CASE d # row[q]
      BY <3>1, <3>3, WriteBackValues DEF Sends
    <3> QED BY <3>2, <3>3
  <2>6. ASSUME NEW x \in Rows, SendArrives(x)
        PROVE  status'[d] = status[d] /\ Sends(d)' = Sends(d)
    <3>1. topic[d] \in Nat /\ late[d] \in Nat
      BY DEF TypeOK
    <3>2. /\ status' = status
          /\ topic'[d] = IF d = x THEN topic[d] + 1 ELSE topic[d]
          /\ late'[d] = IF d = x THEN late[d] - 1 ELSE late[d]
      BY <2>6 DEF SendArrives, dbVars, TypeOK
    <3> QED BY <3>1, <3>2 DEF Sends
  <2> QED BY <2>1, <2>2, <2>3, <2>4, <2>5, <2>6 DEF Next, Step
<1>2. Spec => [][Final]_vars
  BY <1>1, DltTypeCorrect, DltInvariant, PTL DEF Spec
<1> QED BY <1>2 DEF TerminalIsFinal

(* No failure leaves a row in REPROCESSING: reprocess marks the entity and *)
(* settles it before its transaction commits.                              *)
THEOREM NeverStuck == Spec => []NeverStuckReprocessing
<1>1. IInv => NeverStuckReprocessing
  BY DEF IInv
<1> QED BY <1>1, DltInvariant, PTL

(* Types, locks, entities and audit log agree in every reachable state     *)
(* (reprocess, discard).                                                   *)
THEOREM DltInvariantHolds == Spec => []Inv
BY DltTypeCorrect, DltInvariant, PTL DEF Inv
=============================================================================
