------------------------ MODULE FraudConsumerProofs ------------------------
(***************************************************************************)
(* Theorems of the consumer pipeline, for every set of events, partitions  *)
(* and consumers, every delivery limit and every number of faults: its     *)
(* type invariant, the inductive invariant behind its commits, that no     *)
(* offset is committed past a record without an outcome, and what losses   *)
(* and dead-letter copies have cost in faults.                             *)
(***************************************************************************)
EXTENDS FraudConsumer, FiniteSetTheorems, TLAPS

USE ConsumerAssumption

(* Leaving the listener method. *)
LEMMA LeaveType ==
    ASSUME TypeOK, NEW c \in Consumers, NEW label \in {"idle", "down"},
           LeaveTo(c, label)
    PROVE  /\ pc' \in [Consumers -> CallLabels \cup {"idle", "down"}]
           /\ current' \in [Consumers -> Records \cup {None}]
           /\ status' \in [Consumers -> Statuses]
           /\ \A d \in Consumers : pc'[d] \in CallLabels =>
                 d # c /\ pc'[d] = pc[d] /\ current'[d] = current[d]
<1>1. /\ pc' = [pc EXCEPT ![c] = label]
      /\ current' = [current EXCEPT ![c] = None]
      /\ status' = [status EXCEPT ![c] = "DEGRADED"]
  BY DEF LeaveTo
<1>2. label \notin CallLabels
  BY DEF CallLabels
<1>3. /\ pc \in [Consumers -> CallLabels \cup {"idle", "down"}]
      /\ current \in [Consumers -> Records \cup {None}]
      /\ status \in [Consumers -> Statuses]
  BY DEF TypeOK
<1> QED BY <1>1, <1>2, <1>3 DEF Statuses

(* One more copy in the dead-letter topic. *)
LEMMA CopyGrows ==
    ASSUME TypeOK, NEW r
    PROVE  /\ WithCopyOf(r) \in [Records -> Nat]
           /\ \A q \in Records : dltTopic[q] > 0 => WithCopyOf(r)[q] > 0
           /\ \A q \in Records \ {r} : WithCopyOf(r)[q] = dltTopic[q]
           /\ r \in Records => WithCopyOf(r)[r] = dltTopic[r] + 1
<1>1. dltTopic \in [Records -> Nat]
  BY DEF TypeOK
<1>2. WithCopyOf(r) = [dltTopic EXCEPT ![r] = dltTopic[r] + 1]
  BY DEF WithCopyOf
<1>3. CASE r \in Records
  <2>1. dltTopic[r] \in Nat /\ dltTopic[r] + 1 \in Nat /\ dltTopic[r] + 1 > 0
    BY <1>1, <1>3
  <2>2. /\ WithCopyOf(r) \in [Records -> Nat]
        /\ WithCopyOf(r)[r] = dltTopic[r] + 1
        /\ \A q \in Records \ {r} : WithCopyOf(r)[q] = dltTopic[q]
    BY <1>1, <1>2, <1>3, <2>1
  <2> QED BY <2>1, <2>2
<1>4. CASE r \notin Records
  BY <1>1, <1>2, <1>4
<1> QED BY <1>3, <1>4

(* The error handler keeps the types of what it changes. *)
LEMMA HandleErrorType ==
    ASSUME TypeOK, NEW c \in Consumers, Busy(c), HandleError(c)
    PROVE  /\ position' \in [Partitions -> Nat]
           /\ deliveries' \in [Partitions -> 0 .. MaxDeliveries - 1]
           /\ pc' \in [Consumers -> CallLabels \cup {"idle", "down"}]
           /\ current' \in [Consumers -> Records \cup {None}]
           /\ \A d \in Consumers : pc'[d] \in CallLabels =>
                 d # c /\ pc'[d] = pc[d] /\ current'[d] = current[d]
           /\ status' \in [Consumers -> Statuses]
           /\ dropped' \subseteq Records
<1> DEFINE r == current[c]
<1>1. r \in Records /\ r.part \in Partitions /\ r.off \in Nat
  BY DEF TypeOK, Records
<1>2. LeaveTo(c, "idle")
  BY DEF HandleError
<1>5. /\ position' \in [Partitions -> Nat]
      /\ deliveries' \in [Partitions -> 0 .. MaxDeliveries - 1]
      /\ dropped' \subseteq Records
  <2>0. /\ position \in [Partitions -> Nat]
        /\ deliveries \in [Partitions -> 0 .. MaxDeliveries - 1]
        /\ dropped \subseteq Records
    BY DEF TypeOK
  <2>1. \/ UNCHANGED <<position, deliveries, dropped>>
        \/ /\ deliveries[r.part] + 1 < MaxDeliveries
           /\ deliveries' = [deliveries EXCEPT ![r.part] = @ + 1]
           /\ UNCHANGED <<position, dropped>>
        \/ /\ deliveries' = [deliveries EXCEPT ![r.part] = 0]
           /\ position' = [position EXCEPT ![r.part] = r.off + 1]
           /\ dropped' = dropped \cup {r}
    BY DEF HandleError
  <2> HIDE DEF r
  <2>2. CASE UNCHANGED <<position, deliveries, dropped>>
    BY <2>0, <2>2
  <2>3. CASE /\ deliveries[r.part] + 1 < MaxDeliveries
             /\ deliveries' = [deliveries EXCEPT ![r.part] = @ + 1]
             /\ UNCHANGED <<position, dropped>>
    BY <2>0, <2>3, <1>1
  <2>4. CASE /\ deliveries' = [deliveries EXCEPT ![r.part] = 0]
             /\ position' = [position EXCEPT ![r.part] = r.off + 1]
             /\ dropped' = dropped \cup {r}
    BY <2>0, <2>4, <1>1
  <2> QED BY <2>1, <2>2, <2>3, <2>4
<1> QED BY <1>2, <1>5, LeaveType

(* The writes of the pipeline keep the types of the stores. *)
LEMMA WritesType ==
    ASSUME TypeOK, NEW c \in Consumers, Busy(c)
    PROVE  /\ Event(c) \in Events
           /\ LoggedBy(c) \subseteq Records
           /\ SavedBy(c) \in [Events -> Statuses \cup {None}]
           /\ CommittedBy(c) \in [Partitions -> Nat]
<1>1. /\ current[c] \in Records
      /\ current[c].part \in Partitions
      /\ current[c].off \in Nat
  BY DEF TypeOK, Records
<1>2. Event(c) \in Events
  BY <1>1 DEF TypeOK, Event, EventAt
<1>3. LoggedBy(c) \subseteq Records
  BY <1>1 DEF TypeOK, LoggedBy
<1>4. SavedBy(c) \in [Events -> Statuses \cup {None}]
  BY <1>2 DEF TypeOK, SavedBy
<1>5. CommittedBy(c) \in [Partitions -> Nat]
  <2>1. CASE owner[current[c].part] = c
    <3> DEFINE p == current[c].part
               n == current[c].off + 1
    <3>1. n \in Nat /\ p \in Partitions
      BY <1>1
    <3>2. [committed EXCEPT ![p] = n] \in [Partitions -> Nat]
      BY <3>1 DEF TypeOK
    <3> QED BY <2>1, <3>2 DEF CommittedBy
  <2>2. CASE owner[current[c].part] # c
    BY <2>2 DEF TypeOK, CommittedBy
  <2> QED BY <2>1, <2>2
<1> QED BY <1>2, <1>3, <1>4, <1>5

(* Appending a record moves no other record. *)
LEMMA PublishedStays ==
    ASSUME TypeOK, NEW e \in Events, Publish(e), NEW p \in Partitions
    PROVE  /\ log' \in [Partitions -> Seq(Events)]
           /\ Len(log[p]) <= Len(log'[p])
           /\ Len(log'[p]) <= MaxLog
           /\ \A i \in 1 .. Len(log[p]) : log'[p][i] = log[p][i]
<1> DEFINE q == PartitionOf[e]
<1>1. /\ q \in Partitions
      /\ log \in [Partitions -> Seq(Events)]
      /\ log' = [log EXCEPT ![q] = Append(@, e)]
      /\ Len(log[q]) < MaxLog /\ Len(log[p]) <= MaxLog
  BY DEF TypeOK, Publish
<1> HIDE DEF q
<1>2. /\ Append(log[q], e) \in Seq(Events)
      /\ Len(Append(log[q], e)) = Len(log[q]) + 1
      /\ \A i \in 1 .. Len(log[q]) : Append(log[q], e)[i] = log[q][i]
  BY <1>1
<1>3. log' \in [Partitions -> Seq(Events)]
  BY <1>1, <1>2
<1>4. CASE p = q
  BY <1>1, <1>2, <1>4
<1>5. CASE p # q
  BY <1>1, <1>5
<1> QED BY <1>3, <1>4, <1>5

(* Going on to the next call keeps the record. *)
LEMMA GotoType ==
    ASSUME TypeOK, NEW c \in Consumers, Busy(c), NEW label \in CallLabels,
           Goto(c, label), UNCHANGED <<log, current>>
    PROVE  /\ pc' \in [Consumers -> CallLabels \cup {"idle", "down"}]
           /\ \A d \in Consumers : Busy(d)' =>
                 /\ current'[d] \in Records
                 /\ current'[d].off < Len(log'[current'[d].part])
<1>1. pc' = [pc EXCEPT ![c] = label]
  BY DEF Goto
<1>2. pc \in [Consumers -> CallLabels \cup {"idle", "down"}]
  BY DEF TypeOK
<1>3. pc' \in [Consumers -> CallLabels \cup {"idle", "down"}]
  BY <1>1, <1>2
<1>4. \A d \in Consumers : pc'[d] \in CallLabels => Busy(d)
  BY <1>1, <1>2 DEF Busy
<1> QED BY <1>3, <1>4 DEF TypeOK, Busy

(* The disjuncts of a consumer's step. *)
LEMMA TypeInvariant == TypeOK /\ [Next]_vars => TypeOK'
<1> SUFFICES ASSUME TypeOK, [Next]_vars PROVE TypeOK'
  OBVIOUS
<1>1. ASSUME NEW e \in Events, Publish(e) PROVE TypeOK'
  <2>1. /\ log' \in [Partitions -> Seq(Events)]
        /\ \A p \in Partitions : Len(log[p]) <= Len(log'[p])
        /\ \A p \in Partitions : Len(log'[p]) <= MaxLog
    BY <1>1, PublishedStays
  <2>2. UNCHANGED <<committed, owner, position, deliveries, pc, current,
                    status, injected, storeVars, dropped, faults>>
    BY <1>1 DEF Publish, consumerVars
  <2>3. \A c \in Consumers : Busy(c) =>
           current[c] \in Records /\ current[c].off < Len(log'[current[c].part])
    <3>1. SUFFICES ASSUME NEW c \in Consumers, Busy(c)
                   PROVE  current[c] \in Records
                          /\ current[c].off < Len(log'[current[c].part])
      OBVIOUS
    <3>2. /\ current[c] \in Records
          /\ current[c].off < Len(log[current[c].part])
          /\ log \in [Partitions -> Seq(Events)]
      BY <3>1 DEF TypeOK
    <3>3. /\ current[c].off \in Nat
          /\ current[c].part \in Partitions
          /\ Len(log[current[c].part]) \in Nat
          /\ Len(log'[current[c].part]) \in Nat
      <4>1. current[c].off \in Nat /\ current[c].part \in Partitions
        BY <3>2 DEF Records
      <4>2. /\ log[current[c].part] \in Seq(Events)
            /\ log'[current[c].part] \in Seq(Events)
        BY <2>1, <3>2, <4>1
      <4> QED BY <4>1, <4>2
    <3> QED BY <3>2, <3>3, <2>1
  <2> QED BY <2>1, <2>2, <2>3 DEF TypeOK, Busy, storeVars
<1>2. ASSUME NEW c \in Consumers, NEW p \in Partitions, Assign(c, p)
      PROVE  TypeOK'
  <2>1. 0 \in 0 .. MaxDeliveries - 1
    BY DEF TypeOK
  <2>2. /\ owner' \in [Partitions -> Consumers \cup {None}]
        /\ position' \in [Partitions -> Nat]
        /\ deliveries' \in [Partitions -> 0 .. MaxDeliveries - 1]
    BY <1>2, <2>1 DEF Assign, TypeOK
  <2>3. UNCHANGED <<log, committed, pc, current, status, injected, storeVars,
                    dropped, faults>>
    BY <1>2 DEF Assign, consumerVars
  <2> QED BY <2>2, <2>3 DEF TypeOK, Busy, storeVars
<1>3. ASSUME NEW p \in Partitions, Revoke(p) PROVE TypeOK'
  <2>1. /\ owner' \in [Partitions -> Consumers \cup {None}]
        /\ faults' \in 0 .. MaxFaults
    BY <1>3 DEF Revoke, Fault, TypeOK
  <2>2. UNCHANGED <<log, committed, position, deliveries, pc, current, status,
                    injected, storeVars, dropped>>
    BY <1>3 DEF Revoke, consumerVars
  <2> QED BY <2>1, <2>2 DEF TypeOK, Busy, storeVars
<1>4. ASSUME NEW c \in Consumers, Crash(c) PROVE TypeOK'
  <2>1. /\ owner' \in [Partitions -> Consumers \cup {None}]
        /\ faults' \in 0 .. MaxFaults
        /\ injected' \in [Consumers -> BOOLEAN]
    BY <1>4 DEF Crash, Fault, TypeOK
  <2>2. LeaveTo(c, "down")
    BY <1>4 DEF Crash
  <2>3. UNCHANGED <<log, committed, position, deliveries, storeVars, dropped>>
    BY <1>4 DEF Crash
  <2> QED BY <2>1, <2>2, <2>3, LeaveType DEF TypeOK, Busy, storeVars
<1>5. ASSUME NEW c \in Consumers, Restart(c) PROVE TypeOK'
  <2>1. /\ pc' \in [Consumers -> CallLabels \cup {"idle", "down"}]
        /\ \A d \in Consumers : pc'[d] \in CallLabels => pc'[d] = pc[d]
    BY <1>5 DEF Restart, TypeOK, CallLabels
  <2>2. UNCHANGED <<log, committed, owner, position, deliveries, current,
                    status, injected, storeVars, dropped, faults>>
    BY <1>5 DEF Restart, brokerVars
  <2> QED BY <2>1, <2>2 DEF TypeOK, Busy, storeVars
<1>6. ASSUME NEW c \in Consumers, NEW p \in Partitions, Poll(c, p)
      PROVE  TypeOK'
  <2> DEFINE r == [part |-> p, off |-> position[p]]
  <2>1. r \in Records /\ r.off < Len(log[r.part])
    BY <1>6 DEF Poll, TypeOK, Records
  <2>2. /\ pc' = [pc EXCEPT ![c] = "log"]
        /\ current' = [current EXCEPT ![c] = r]
    BY <1>6 DEF Poll
  <2>3. UNCHANGED <<log, committed, owner, position, deliveries, status,
                    injected, storeVars, dropped, faults>>
    BY <1>6 DEF Poll, brokerVars
  <2> HIDE DEF r
  <2>4. /\ pc' \in [Consumers -> CallLabels \cup {"idle", "down"}]
        /\ current' \in [Consumers -> Records \cup {None}]
    BY <2>1, <2>2 DEF TypeOK, CallLabels
  <2>5. \A d \in Consumers : pc'[d] \in CallLabels =>
           \/ current'[d] = r
           \/ pc'[d] = pc[d] /\ current'[d] = current[d]
    BY <2>2 DEF TypeOK
  <2> QED BY <2>1, <2>3, <2>4, <2>5 DEF TypeOK, Busy, storeVars
<1>7. ASSUME NEW c \in Consumers, ProcessMessage(c) PROVE TypeOK'
  <2>0. /\ Busy(c)
        /\ current[c] \in Records
    <3>1. Busy(c)
      BY <1>7 DEF ProcessMessage, Busy, CallLabels, RecordProcessedEvent,
         ExistsResultForEventId, FailIfConfigured, RecordAndGetWindow,
         EvaluateRules, SaveResult, FindDeadLetter, SaveNewDeadLetter,
         SaveNewDeadLetterConflicts, PublishDeadLetter, Acknowledge
    <3> QED BY <3>1 DEF TypeOK
  <2>1. CASE RecordProcessedEvent(c)
    <3>1. /\ Goto(c, "precheck")
          /\ UNCHANGED <<log, current>>
          /\ processingLog' \subseteq Records
      BY <2>0, <2>1, WritesType DEF RecordProcessedEvent, brokerVars
    <3>2. UNCHANGED <<committed, owner, position, deliveries, status, injected,
                      results, deadLetters, dltTopic, dropped, faults>>
      BY <2>1 DEF RecordProcessedEvent, brokerVars
    <3>3. "precheck" \in CallLabels
      BY DEF CallLabels
    <3> QED BY <2>0, <3>1, <3>2, <3>3, GotoType DEF TypeOK
  <2>2. CASE ExistsResultForEventId(c)
    <3>1. PICK label \in {"ack", "window"} : Goto(c, label)
      BY <2>2 DEF ExistsResultForEventId
    <3>2. UNCHANGED <<log, committed, owner, position, deliveries, current,
                      status, injected, processingLog, results, deadLetters,
                      dltTopic, dropped, faults>>
      BY <2>2 DEF ExistsResultForEventId, brokerVars, storeVars
    <3>3. label \in CallLabels
      BY DEF CallLabels
    <3> QED BY <2>0, <3>1, <3>2, <3>3, GotoType DEF TypeOK
  <2>3. CASE FailIfConfigured(c)
    <3>1. HandleError(c) /\ UNCHANGED <<log, committed, owner, storeVars, faults>>
      BY <2>3 DEF FailIfConfigured
    <3>2. injected' \in [Consumers -> BOOLEAN]
      BY <2>3 DEF FailIfConfigured, TypeOK
    <3> QED BY <2>0, <3>1, <3>2, HandleErrorType DEF TypeOK, Busy, storeVars
  <2>4. CASE RecordAndGetWindow(c)
    <3>1. PICK s \in Statuses : status' = [status EXCEPT ![c] = s]
      BY <2>4 DEF RecordAndGetWindow
    <3>2. status' \in [Consumers -> Statuses]
      BY <3>1 DEF TypeOK
    <3>3. Goto(c, "rules")
      BY <2>4 DEF RecordAndGetWindow
    <3>4. UNCHANGED <<log, committed, owner, position, deliveries, current,
                      injected, processingLog, results, deadLetters, dltTopic,
                      dropped, faults>>
      BY <2>4 DEF RecordAndGetWindow, brokerVars, storeVars
    <3>5. "rules" \in CallLabels
      BY DEF CallLabels
    <3> QED BY <2>0, <3>2, <3>3, <3>4, <3>5, GotoType DEF TypeOK
  <2>5. CASE EvaluateRules(c)
    <3>1. PICK label \in {"dltFind", "save"} : Goto(c, label)
      BY <2>5 DEF EvaluateRules
    <3>2. UNCHANGED <<log, committed, owner, position, deliveries, current,
                      status, injected, processingLog, results, deadLetters,
                      dltTopic, dropped, faults>>
      BY <2>5 DEF EvaluateRules, brokerVars, storeVars
    <3>3. label \in CallLabels
      BY DEF CallLabels
    <3> QED BY <2>0, <3>1, <3>2, <3>3, GotoType DEF TypeOK
  <2>6. CASE SaveResult(c)
    <3>1. /\ results' \in [Events -> Statuses \cup {None}]
          /\ dropped' \subseteq Records
      BY <2>0, <2>6, WritesType DEF SaveResult, TypeOK
    <3>2. /\ Goto(c, "saved")
          /\ UNCHANGED <<log, committed, owner, position, deliveries, current,
                         status, injected, processingLog, deadLetters,
                         dltTopic, faults>>
      BY <2>6 DEF SaveResult, brokerVars
    <3>3. "saved" \in CallLabels
      BY DEF CallLabels
    <3> QED BY <2>0, <3>1, <3>2, <3>3, GotoType DEF TypeOK
  <2>7. CASE FindDeadLetter(c)
    <3>1. PICK label \in {"dltPublish", "dltInsert"} : Goto(c, label)
      BY <2>7 DEF FindDeadLetter
    <3>2. UNCHANGED <<log, committed, owner, position, deliveries, current,
                      status, injected, processingLog, results, deadLetters,
                      dltTopic, dropped, faults>>
      BY <2>7 DEF FindDeadLetter, brokerVars, storeVars
    <3>3. label \in CallLabels
      BY DEF CallLabels
    <3> QED BY <2>0, <3>1, <3>2, <3>3, GotoType DEF TypeOK
  <2>8. CASE SaveNewDeadLetter(c)
    <3>1. deadLetters' \subseteq Records
      BY <2>0, <2>8 DEF SaveNewDeadLetter, TypeOK
    <3>2. /\ Goto(c, "dltPublish")
          /\ UNCHANGED <<log, committed, owner, position, deliveries, current,
                         status, injected, processingLog, results, dltTopic,
                         dropped, faults>>
      BY <2>8 DEF SaveNewDeadLetter, brokerVars
    <3>3. "dltPublish" \in CallLabels
      BY DEF CallLabels
    <3> QED BY <2>0, <3>1, <3>2, <3>3, GotoType DEF TypeOK
  <2>9. CASE SaveNewDeadLetterConflicts(c)
    <3>1. /\ HandleError(c)
          /\ UNCHANGED <<log, committed, owner, injected, storeVars, faults>>
      BY <2>9 DEF SaveNewDeadLetterConflicts
    <3> QED BY <2>0, <3>1, HandleErrorType DEF TypeOK, Busy, storeVars
  <2>10. CASE PublishDeadLetter(c)
    <3>1. dltTopic' \in [Records -> Nat]
      BY <2>0, <2>10, CopyGrows DEF PublishDeadLetter
    <3>2. /\ Goto(c, "ack")
          /\ UNCHANGED <<log, committed, owner, position, deliveries, current,
                         status, injected, processingLog, results, deadLetters,
                         dropped, faults>>
      BY <2>10 DEF PublishDeadLetter, brokerVars
    <3>3. "ack" \in CallLabels
      BY DEF CallLabels
    <3> QED BY <2>0, <3>1, <3>2, <3>3, GotoType DEF TypeOK
  <2>11. CASE Acknowledge(c)
    <3>1. committed' \in [Partitions -> Nat]
      BY <2>0, <2>11, WritesType DEF Acknowledge
    <3>2. /\ position' \in [Partitions -> Nat]
          /\ deliveries' \in [Partitions -> 0 .. MaxDeliveries - 1]
      <4>1. /\ current[c].off + 1 \in Nat
            /\ 0 \in 0 .. MaxDeliveries - 1
        BY <2>0 DEF Records
      <4>2. \/ UNCHANGED <<position, deliveries>>
            \/ /\ position' = [position EXCEPT ![current[c].part] =
                                                  current[c].off + 1]
               /\ deliveries' = [deliveries EXCEPT ![current[c].part] = 0]
        BY <2>11 DEF Acknowledge
      <4>3. /\ position \in [Partitions -> Nat]
            /\ deliveries \in [Partitions -> 0 .. MaxDeliveries - 1]
        BY DEF TypeOK
      <4> QED BY <4>1, <4>2, <4>3
    <3>3. /\ LeaveTo(c, "idle")
          /\ UNCHANGED <<log, owner, injected, storeVars, dropped, faults>>
      BY <2>11 DEF Acknowledge
    <3> QED BY <3>1, <3>2, <3>3, LeaveType DEF TypeOK, Busy, storeVars
  <2> QED BY <1>7, <2>1, <2>2, <2>3, <2>4, <2>5, <2>6, <2>7, <2>8, <2>9,
          <2>10, <2>11 DEF ProcessMessage
<1>8. ASSUME NEW c \in Consumers, CallFails(c) PROVE TypeOK'
  <2>1. /\ Busy(c)
        /\ current[c] \in Records
    BY <1>8 DEF CallFails, Busy, CallLabels, TypeOK
  <2>2. /\ processingLog' \subseteq Records
        /\ results' \in [Events -> Statuses \cup {None}]
        /\ deadLetters' \subseteq Records
        /\ dltTopic' \in [Records -> Nat]
        /\ committed' \in [Partitions -> Nat]
    <3>1. /\ processingLog' \in {processingLog, LoggedBy(c)}
          /\ results' \in {results, SavedBy(c)}
          /\ deadLetters' \in {deadLetters, deadLetters \cup {current[c]}}
          /\ dltTopic' \in {dltTopic, WithCopyOf(current[c])}
          /\ committed' \in {committed, CommittedBy(c)}
      BY <1>8 DEF CallFails
    <3>2. /\ LoggedBy(c) \subseteq Records
          /\ SavedBy(c) \in [Events -> Statuses \cup {None}]
          /\ CommittedBy(c) \in [Partitions -> Nat]
          /\ WithCopyOf(current[c]) \in [Records -> Nat]
      BY <2>1, WritesType, CopyGrows
    <3>3. /\ processingLog \subseteq Records
          /\ results \in [Events -> Statuses \cup {None}]
          /\ deadLetters \subseteq Records
          /\ dltTopic \in [Records -> Nat]
          /\ committed \in [Partitions -> Nat]
      BY DEF TypeOK
    <3> QED BY <2>1, <3>1, <3>2, <3>3
  <2>3. /\ HandleError(c)
        /\ UNCHANGED <<log, owner, injected>>
    BY <1>8 DEF CallFails
  <2>4. faults' \in 0 .. MaxFaults
    BY <1>8 DEF CallFails, Fault, TypeOK
  <2> QED BY <2>1, <2>2, <2>3, <2>4, HandleErrorType DEF TypeOK, Busy
<1>9. CASE UNCHANGED vars
  BY <1>9 DEF vars, brokerVars, consumerVars, storeVars, TypeOK, Busy
<1> QED BY <1>1, <1>2, <1>3, <1>4, <1>5, <1>6, <1>7, <1>8, <1>9 DEF Next

(* Every variable keeps its type, and a consumer only ever holds a record  *)
(* of the log: what it polled is still there when it acknowledges.         *)
THEOREM TypeCorrect == Spec => []TypeOK
<1>1. Init => TypeOK
  BY DEF Init, TypeOK, Statuses, CallLabels, Busy
<1> QED BY <1>1, TypeInvariant, PTL DEF Spec

-----------------------------------------------------------------------------
(* Nothing an outcome rests on is ever taken back. *)
StoresGrow ==
    /\ \A p \in Partitions :
          /\ Len(log[p]) <= Len(log'[p])
          /\ \A i \in 1 .. Len(log[p]) : log'[p][i] = log[p][i]
    /\ processingLog \subseteq processingLog'
    /\ deadLetters \subseteq deadLetters'
    /\ \A r \in Records : dltTopic[r] > 0 => dltTopic'[r] > 0
    /\ dropped \subseteq dropped'
    /\ \A e \in Events : results[e] # None => results'[e] # None

(* The error handler only adds to the records given up. *)
LEMMA HandleErrorDrops ==
    ASSUME NEW c \in Consumers, HandleError(c)
    PROVE  dropped \subseteq dropped'
BY DEF HandleError

(* A consumer's step writes rows and messages, and deletes none. *)
LEMMA ProcessMessageGrows ==
    ASSUME TypeOK, NEW c \in Consumers, ProcessMessage(c) PROVE StoresGrow
<1>1. log' = log
  BY DEF ProcessMessage, brokerVars, RecordProcessedEvent,
     ExistsResultForEventId, FailIfConfigured, RecordAndGetWindow,
     EvaluateRules, SaveResult, FindDeadLetter, SaveNewDeadLetter,
     SaveNewDeadLetterConflicts, PublishDeadLetter, Acknowledge
<1>2. processingLog \subseteq processingLog'
  BY DEF ProcessMessage, storeVars, RecordProcessedEvent, LoggedBy,
     ExistsResultForEventId, FailIfConfigured, RecordAndGetWindow,
     EvaluateRules, SaveResult, FindDeadLetter, SaveNewDeadLetter,
     SaveNewDeadLetterConflicts, PublishDeadLetter, Acknowledge
<1>3. deadLetters \subseteq deadLetters'
  BY DEF ProcessMessage, storeVars, RecordProcessedEvent,
     ExistsResultForEventId, FailIfConfigured, RecordAndGetWindow,
     EvaluateRules, SaveResult, FindDeadLetter, SaveNewDeadLetter,
     SaveNewDeadLetterConflicts, PublishDeadLetter, Acknowledge
<1>4. \A r \in Records : dltTopic[r] > 0 => dltTopic'[r] > 0
  <2>1. dltTopic' \in {dltTopic, WithCopyOf(current[c])}
    BY DEF ProcessMessage, storeVars, RecordProcessedEvent,
       ExistsResultForEventId, FailIfConfigured, RecordAndGetWindow,
       EvaluateRules, SaveResult, FindDeadLetter, SaveNewDeadLetter,
       SaveNewDeadLetterConflicts, PublishDeadLetter, Acknowledge
  <2> QED BY <2>1, CopyGrows
<1>5. dropped \subseteq dropped'
  <2>1. SaveResult(c) => dropped \subseteq dropped'
    BY DEF SaveResult
  <2> QED
    BY <2>1, HandleErrorDrops DEF ProcessMessage, RecordProcessedEvent,
       ExistsResultForEventId, FailIfConfigured, RecordAndGetWindow,
       EvaluateRules, FindDeadLetter, SaveNewDeadLetter,
       SaveNewDeadLetterConflicts, PublishDeadLetter, Acknowledge
<1>6. \/ results' = results
      \/ pc[c] = "save" /\ results' = SavedBy(c)
  BY DEF ProcessMessage, storeVars, RecordProcessedEvent,
     ExistsResultForEventId, FailIfConfigured, RecordAndGetWindow,
     EvaluateRules, SaveResult, FindDeadLetter, SaveNewDeadLetter,
     SaveNewDeadLetterConflicts, PublishDeadLetter, Acknowledge
<1>7. \A e \in Events : results[e] # None => results'[e] # None
  BY <1>6 DEF SavedBy, TypeOK
<1>8. \A p \in Partitions : Len(log[p]) \in Nat
  BY DEF TypeOK
<1> QED BY <1>1, <1>2, <1>3, <1>4, <1>5, <1>7, <1>8 DEF StoresGrow

(* A failing call loses nothing either. *)
LEMMA CallFailsGrows ==
    ASSUME TypeOK, NEW c \in Consumers, CallFails(c) PROVE StoresGrow
<1>1. log' = log /\ HandleError(c)
  BY DEF CallFails
<1>2. /\ processingLog' \in {processingLog, LoggedBy(c)}
      /\ deadLetters' \in {deadLetters, deadLetters \cup {current[c]}}
      /\ dltTopic' \in {dltTopic, WithCopyOf(current[c])}
      /\ results' \in {results, SavedBy(c)}
  BY DEF CallFails
<1>3. processingLog \subseteq processingLog'
  BY <1>2 DEF LoggedBy
<1>4. \A e \in Events : results[e] # None => results'[e] # None
  BY <1>2 DEF SavedBy, TypeOK
<1>5. \A p \in Partitions : Len(log[p]) \in Nat
  BY DEF TypeOK
<1>6. \A r \in Records : dltTopic[r] > 0 => dltTopic'[r] > 0
  BY <1>2, CopyGrows
<1> QED BY <1>1, <1>2, <1>3, <1>4, <1>5, <1>6, HandleErrorDrops DEF StoresGrow

(* Every step of the system only adds outcomes. *)
LEMMA StepGrows == TypeOK /\ [Next]_vars => StoresGrow
<1> SUFFICES ASSUME TypeOK, [Next]_vars PROVE StoresGrow
  OBVIOUS
<1>0. \A p \in Partitions : Len(log[p]) \in Nat
  BY DEF TypeOK
<1>1. ASSUME NEW e \in Events, Publish(e) PROVE StoresGrow
  <2>1. UNCHANGED <<processingLog, results, deadLetters, dltTopic, dropped>>
    BY <1>1 DEF Publish, storeVars
  <2> QED BY <1>1, <2>1, PublishedStays DEF StoresGrow
<1>2. CASE UNCHANGED <<log, processingLog, results, deadLetters, dltTopic,
                       dropped>>
  BY <1>0, <1>2 DEF StoresGrow
<1>3. ASSUME NEW c \in Consumers, NEW p \in Partitions,
             Assign(c, p) \/ Revoke(p) \/ Crash(c) \/ Restart(c) \/ Poll(c, p)
      PROVE  UNCHANGED <<log, processingLog, results, deadLetters, dltTopic,
                         dropped>>
  BY <1>3 DEF Assign, Revoke, Crash, Restart, Poll, brokerVars, storeVars
<1>4. ASSUME NEW p \in Partitions, Revoke(p)
      PROVE  UNCHANGED <<log, processingLog, results, deadLetters, dltTopic,
                         dropped>>
  BY <1>4 DEF Revoke, storeVars
<1>5. ASSUME NEW c \in Consumers, Crash(c) \/ Restart(c)
      PROVE  UNCHANGED <<log, processingLog, results, deadLetters, dltTopic,
                         dropped>>
  BY <1>5 DEF Crash, Restart, brokerVars, storeVars
<1>6. CASE UNCHANGED vars
  BY <1>2, <1>6 DEF vars, brokerVars, storeVars
<1> QED BY <1>1, <1>2, <1>3, <1>4, <1>5, <1>6, ProcessMessageGrows,
        CallFailsGrows DEF Next

(* A dead letter that is stored and published stays so. *)
LEMMA DeadLettersStay ==
    ASSUME TypeOK, StoresGrow PROVE DeadLettered \subseteq DeadLettered'
<1> SUFFICES ASSUME NEW r \in deadLetters, dltTopic[r] > 0
             PROVE  r \in deadLetters' /\ dltTopic'[r] > 0
  BY DEF DeadLettered
<1>1. r \in Records /\ dltTopic[r] \in Nat
  BY DEF TypeOK
<1>2. dltTopic'[r] > 0
  BY <1>1 DEF StoresGrow
<1> QED BY <1>1, <1>2 DEF StoresGrow

(* So a record that is logged or accounted for stays so. *)
LEMMA AccountedStays ==
    ASSUME TypeOK, StoresGrow, NEW r \in Records, r.off < Len(log[r.part])
    PROVE  /\ Logged(r) => Logged(r)'
           /\ Accounted(r) => Accounted(r)'
<1>0. /\ r.part \in Partitions
      /\ r.off \in Nat
  BY DEF Records
<1>1. /\ r.part \in Partitions
      /\ r.off + 1 \in 1 .. Len(log[r.part])
      /\ log[r.part] \in Seq(Events)
  <2>1. log[r.part] \in Seq(Events)
    BY <1>0 DEF TypeOK
  <2>2. Len(log[r.part]) \in Nat
    BY <2>1
  <2> QED BY <1>0, <2>1, <2>2
<1>2. EventAt(r)' = EventAt(r)
  BY <1>1 DEF StoresGrow, EventAt
<1>3. EventAt(r) \in Events
  BY <1>1 DEF EventAt
<1>4. Logged(r) => Logged(r)'
  BY <1>2 DEF Logged, StoresGrow
<1>5. Handled(r) => Handled(r)'
  <2>1. DeadLettered \subseteq DeadLettered'
    BY DeadLettersStay
  <2> QED BY <1>2, <1>3, <2>1 DEF Handled, StoresGrow
<1> QED BY <1>4, <1>5 DEF Accounted, StoresGrow

(* What a step does to the group's view of partition p. *)
PositionStep(p) ==
    \/ position'[p] = position[p]
    \/ \E c \in Consumers :
          /\ Busy(c)
          /\ current[c].part = p
          /\ owner[p] = c
          /\ position'[p] = current[c].off + 1
          /\ current[c] \in dropped' \/ pc[c] \in {"saved", "ack"}

CommitStep(p) ==
    \/ committed'[p] = committed[p]
    \/ \E c \in Consumers :
          /\ Busy(c)
          /\ current[c].part = p
          /\ owner[p] = c
          /\ committed'[p] = current[c].off + 1
          /\ pc[c] \in {"saved", "ack"}

BrokerStep ==
    \/ \E c \in Consumers, p \in Partitions : Assign(c, p)
    \/ /\ \A p \in Partitions : owner'[p] \in {owner[p], None}
       /\ \A p \in Partitions : PositionStep(p) /\ CommitStep(p)

(* The error handler moves the position only past a record it drops. *)
LEMMA HandleErrorPosition ==
    ASSUME TypeOK, NEW c \in Consumers, Busy(c), HandleError(c),
           NEW p \in Partitions
    PROVE  PositionStep(p)
<1>1. /\ position \in [Partitions -> Nat]
      /\ current[c] \in Records
  BY DEF TypeOK
<1>2. \/ position' = position
      \/ /\ owner[current[c].part] = c
         /\ position' = [position EXCEPT ![current[c].part] = current[c].off + 1]
         /\ dropped' = dropped \cup {current[c]}
  BY DEF HandleError
<1>3. CASE position' = position
  BY <1>3 DEF PositionStep
<1>4. CASE /\ owner[current[c].part] = c
           /\ position' = [position EXCEPT ![current[c].part] = current[c].off + 1]
           /\ dropped' = dropped \cup {current[c]}
  <2>1. CASE p = current[c].part
    BY <1>1, <1>4, <2>1 DEF PositionStep
  <2>2. CASE p # current[c].part
    BY <1>1, <1>4, <2>2 DEF PositionStep
  <2> QED BY <2>1, <2>2
<1> QED BY <1>2, <1>3, <1>4

(* A commit is the acknowledgment of a record whose outcome is stored. *)
LEMMA CommittedByStep ==
    ASSUME TypeOK, NEW c \in Consumers, Busy(c), pc[c] \in {"saved", "ack"},
           committed' = CommittedBy(c), NEW p \in Partitions
    PROVE  CommitStep(p)
<1>1. committed \in [Partitions -> Nat]
  BY DEF TypeOK
<1>2. CASE owner[current[c].part] = c
  <2>1. committed' = [committed EXCEPT ![current[c].part] = current[c].off + 1]
    BY <1>2 DEF CommittedBy
  <2>2. CASE p = current[c].part
    BY <1>1, <1>2, <2>1, <2>2 DEF CommitStep
  <2>3. CASE p # current[c].part
    BY <1>1, <2>1, <2>3 DEF CommitStep
  <2> QED BY <2>2, <2>3
<1>3. CASE owner[current[c].part] # c
  BY <1>3 DEF CommittedBy, CommitStep
<1> QED BY <1>2, <1>3

LEMMA EveryBrokerStep == TypeOK /\ [Next]_vars => BrokerStep
<1> SUFFICES ASSUME TypeOK, [Next]_vars PROVE BrokerStep
  OBVIOUS
<1>1. CASE UNCHANGED <<owner, position, committed>>
  BY <1>1 DEF BrokerStep, PositionStep, CommitStep
<1>2. ASSUME NEW e \in Events, Publish(e)
      PROVE  UNCHANGED <<owner, position, committed>>
  BY <1>2 DEF Publish
<1>3. ASSUME NEW p \in Partitions, Revoke(p) PROVE BrokerStep
  <2>1. /\ owner' = [owner EXCEPT ![p] = None]
        /\ UNCHANGED <<position, committed>>
    BY <1>3 DEF Revoke
  <2>2. owner \in [Partitions -> Consumers \cup {None}]
    BY DEF TypeOK
  <2> QED BY <2>1, <2>2 DEF BrokerStep, PositionStep, CommitStep
<1>4. ASSUME NEW c \in Consumers, Crash(c) PROVE BrokerStep
  <2>1. /\ owner' = [p \in Partitions |-> IF owner[p] = c THEN None ELSE owner[p]]
        /\ UNCHANGED <<position, committed>>
    BY <1>4 DEF Crash
  <2> QED BY <2>1 DEF BrokerStep, PositionStep, CommitStep
<1>5. ASSUME NEW c \in Consumers, Restart(c)
      PROVE  UNCHANGED <<owner, position, committed>>
  BY <1>5 DEF Restart, brokerVars
<1>6. ASSUME NEW c \in Consumers, NEW p \in Partitions, Poll(c, p)
      PROVE  UNCHANGED <<owner, position, committed>>
  BY <1>6 DEF Poll, brokerVars
<1>7. ASSUME NEW c \in Consumers, ProcessMessage(c) PROVE BrokerStep
  <2>1. CASE \/ RecordProcessedEvent(c) \/ ExistsResultForEventId(c)
             \/ RecordAndGetWindow(c) \/ EvaluateRules(c) \/ SaveResult(c)
             \/ FindDeadLetter(c) \/ SaveNewDeadLetter(c) \/ PublishDeadLetter(c)
    BY <1>1, <2>1 DEF RecordProcessedEvent, ExistsResultForEventId,
       RecordAndGetWindow, EvaluateRules, SaveResult, FindDeadLetter,
       SaveNewDeadLetter, PublishDeadLetter, brokerVars
  <2>2. CASE FailIfConfigured(c) \/ SaveNewDeadLetterConflicts(c)
    <3>1. /\ Busy(c)
          /\ HandleError(c)
          /\ UNCHANGED <<owner, committed>>
      BY <2>2 DEF FailIfConfigured, SaveNewDeadLetterConflicts, Busy, CallLabels
    <3> QED BY <3>1, HandleErrorPosition DEF BrokerStep, CommitStep
  <2>3. CASE Acknowledge(c)
    <3>1. /\ Busy(c)
          /\ pc[c] \in {"saved", "ack"}
          /\ committed' = CommittedBy(c)
          /\ owner' = owner
      BY <2>3 DEF Acknowledge, Busy, CallLabels
    <3>2. \A p \in Partitions : CommitStep(p)
      BY <3>1, CommittedByStep
    <3>3. \/ position' = position
          \/ /\ owner[current[c].part] = c
             /\ position' = [position EXCEPT ![current[c].part] =
                                                current[c].off + 1]
      BY <2>3 DEF Acknowledge
    <3>4. ASSUME NEW p \in Partitions PROVE PositionStep(p)
      <4>1. position \in [Partitions -> Nat]
        BY DEF TypeOK
      <4>2. CASE p = current[c].part
        BY <3>1, <3>3, <4>1, <4>2 DEF PositionStep
      <4>3. CASE p # current[c].part
        BY <3>3, <4>1, <4>3 DEF PositionStep
      <4> QED BY <4>2, <4>3
    <3> QED BY <3>1, <3>2, <3>4 DEF BrokerStep
  <2> QED BY <1>7, <2>1, <2>2, <2>3 DEF ProcessMessage
<1>8. ASSUME NEW c \in Consumers, CallFails(c) PROVE BrokerStep
  <2>1. /\ Busy(c)
        /\ HandleError(c)
        /\ owner' = owner
        /\ \/ committed' = committed
           \/ pc[c] \in {"saved", "ack"} /\ committed' = CommittedBy(c)
    BY <1>8 DEF CallFails, Busy, CallLabels
  <2>2. \A p \in Partitions : CommitStep(p)
    BY <2>1, CommittedByStep DEF CommitStep
  <2> QED BY <2>1, <2>2, HandleErrorPosition DEF BrokerStep
<1>9. CASE UNCHANGED vars
  BY <1>1, <1>9 DEF vars, brokerVars
<1>10. ASSUME NEW c \in Consumers, NEW p \in Partitions, Assign(c, p)
       PROVE  BrokerStep
  BY <1>10 DEF BrokerStep
<1> QED BY <1>1, <1>2, <1>3, <1>4, <1>5, <1>6, <1>7, <1>8, <1>9, <1>10 DEF Next

-----------------------------------------------------------------------------
(* What the invariant says of the record a consumer holds. *)
LEMMA HeldRecord ==
    ASSUME TypeOK, ConsumerInv, NEW c \in Consumers, Busy(c)
    PROVE  /\ current[c] \in Records
           /\ current[c].part \in Partitions
           /\ current[c].off \in Nat
           /\ current[c].off < Len(log[current[c].part])
           /\ current[c] = Offset(current[c].part, current[c].off)
           /\ owner[current[c].part] = c =>
                 current[c].off = position[current[c].part]
           /\ pc[c] \in {"saved", "ack"} => Accounted(current[c])
<1>1. /\ current[c] \in Records
      /\ current[c].off < Len(log[current[c].part])
  BY DEF TypeOK
<1>2. ConsumerOK(c)
  BY DEF ConsumerInv
<1> QED BY <1>1, <1>2 DEF Records, Offset, ConsumerOK

(* A prefix of accounted records stays accounted, and grows by one when    *)
(* the record at its end is dropped or acknowledged.                       *)
LEMMA PrefixGrows ==
    ASSUME TypeOK, StoresGrow, NEW p \in Partitions, NEW n \in Nat,
           n <= Len(log[p]),
           \A o \in 0 .. n - 1 : Accounted(Offset(p, o))
    PROVE  \A o \in 0 .. n - 1 : Accounted(Offset(p, o))'
<1> SUFFICES ASSUME NEW o \in 0 .. n - 1 PROVE Accounted(Offset(p, o))'
  OBVIOUS
<1>1. Len(log[p]) \in Nat
  BY DEF TypeOK
<1>2. /\ Offset(p, o) \in Records
      /\ Offset(p, o).part = p
      /\ Offset(p, o).off = o
  <2>1. o \in 0 .. MaxLog - 1
    BY <1>1 DEF TypeOK
  <2> QED BY <2>1 DEF Offset, Records
<1>3. Offset(p, o).off < Len(log[Offset(p, o).part])
  BY <1>1, <1>2
<1>4. Accounted(Offset(p, o))
  OBVIOUS
<1> QED BY <1>2, <1>3, <1>4, AccountedStays

LEMMA HeldStays ==
    ASSUME TypeOK, StoresGrow, ConsumerInv, NEW c \in Consumers, Busy(c),
           current[c] \in dropped' \/ pc[c] \in {"saved", "ack"},
           NEW p \in Partitions, NEW o \in Nat,
           p = current[c].part, o = current[c].off
    PROVE  Accounted(Offset(p, o))'
<1>1. /\ current[c] = Offset(p, o)
      /\ o < Len(log[p])
      /\ pc[c] \in {"saved", "ack"} => Accounted(current[c])
  BY HeldRecord
<1>2. /\ Offset(p, o) \in Records
      /\ Offset(p, o).off < Len(log[Offset(p, o).part])
  BY <1>1 DEF Offset, TypeOK
<1>3. CASE Offset(p, o) \in dropped'
  BY <1>3 DEF Accounted, Offset
<1>4. CASE Accounted(Offset(p, o))
  BY <1>2, <1>4, AccountedStays
<1> QED BY <1>1, <1>3, <1>4

(* The number of records below position and committed offset of p. *)
LEMMA GroupInvariant ==
    ASSUME TypeOK, TypeOK', IInv, [Next]_vars
    PROVE  PositionInv' /\ CommitInv'
<1>1. StoresGrow /\ BrokerStep
  BY StepGrows, EveryBrokerStep
<1>2. ASSUME NEW p \in Partitions
      PROVE  /\ position[p] \in Nat /\ position'[p] \in Nat
             /\ committed[p] \in Nat /\ committed'[p] \in Nat
             /\ Len(log[p]) \in Nat /\ Len(log'[p]) \in Nat
             /\ Len(log[p]) <= Len(log'[p])
             /\ position[p] <= Len(log[p])
             /\ committed[p] <= Len(log[p])
             /\ \A o \in 0 .. position[p] - 1 : Accounted(Offset(p, o))'
             /\ \A o \in 0 .. committed[p] - 1 : Accounted(Offset(p, o))'
  <2>1. /\ position[p] \in Nat /\ position'[p] \in Nat
        /\ committed[p] \in Nat /\ committed'[p] \in Nat
        /\ Len(log[p]) \in Nat /\ Len(log'[p]) \in Nat
    <3>1. /\ position \in [Partitions -> Nat] /\ position' \in [Partitions -> Nat]
          /\ committed \in [Partitions -> Nat] /\ committed' \in [Partitions -> Nat]
          /\ log \in [Partitions -> Seq(Events)]
          /\ log' \in [Partitions -> Seq(Events)]
      BY DEF TypeOK
    <3>2. log[p] \in Seq(Events) /\ log'[p] \in Seq(Events)
      BY <3>1
    <3> QED BY <3>1, <3>2
  <2>2. Len(log[p]) <= Len(log'[p])
    BY <1>1 DEF StoresGrow
  <2>3. /\ position[p] <= Len(log[p])
        /\ committed[p] <= Len(log[p])
        /\ \A o \in 0 .. position[p] - 1 : Accounted(Offset(p, o))
        /\ \A o \in 0 .. committed[p] - 1 : Accounted(Offset(p, o))
    BY DEF IInv, PositionInv, CommitInv, CommitRequiresOutcome
  <2>4. PICK m \in Nat : m = position[p]
    BY <2>1
  <2>5. PICK n \in Nat : n = committed[p]
    BY <2>1
  <2>6. \A o \in 0 .. m - 1 : Accounted(Offset(p, o))'
    BY <1>1, <2>3, <2>4, PrefixGrows
  <2>7. \A o \in 0 .. n - 1 : Accounted(Offset(p, o))'
    BY <1>1, <2>3, <2>5, PrefixGrows
  <2> QED BY <2>1, <2>2, <2>3, <2>4, <2>5, <2>6, <2>7
<1>3. CASE \E c \in Consumers, p \in Partitions : Assign(c, p)
  <2>1. PICK c \in Consumers, q \in Partitions : Assign(c, q)
    BY <1>3
  <2>2. /\ owner' = [owner EXCEPT ![q] = c]
        /\ position' = [position EXCEPT ![q] = committed[q]]
        /\ committed' = committed
        /\ owner \in [Partitions -> Consumers \cup {None}]
        /\ position \in [Partitions -> Nat]
    BY <2>1 DEF Assign, TypeOK
  <2>3. \A p \in Partitions : owner[p] # None => committed[p] <= position[p] + 1
    BY DEF IInv, PositionInv
  <2>4. ASSUME NEW p \in Partitions
        PROVE  /\ position'[p] <= Len(log'[p])
               /\ owner'[p] # None => committed'[p] <= position'[p] + 1
               /\ committed'[p] <= Len(log'[p])
               /\ \A o \in 0 .. position'[p] - 1 : Accounted(Offset(p, o))'
               /\ \A o \in 0 .. committed'[p] - 1 : Accounted(Offset(p, o))'
    <3>1. CASE p = q
      <4>1. position'[p] = committed[p] /\ committed'[p] = committed[p]
        BY <2>2, <3>1
      <4>2. PICK n \in Nat : n = committed[p]
        BY <1>2
      <4>3. n <= Len(log'[p]) /\ n <= n + 1
        <5>1. /\ Len(log[p]) \in Nat /\ Len(log'[p]) \in Nat
              /\ Len(log[p]) <= Len(log'[p]) /\ n <= Len(log[p])
          BY <1>2, <4>2
        <5> QED BY <5>1
      <4>4. \A o \in 0 .. n - 1 : Accounted(Offset(p, o))'
        BY <1>2, <4>2
      <4> QED BY <4>1, <4>2, <4>3, <4>4
    <3>2. CASE p # q
      <4>1. /\ position'[p] = position[p]
            /\ committed'[p] = committed[p]
            /\ owner'[p] = owner[p]
        BY <2>2, <3>2
      <4> QED BY <1>2, <2>3, <4>1
    <3> QED BY <3>1, <3>2
  <2> QED BY <2>4 DEF PositionInv, CommitInv, CommitRequiresOutcome
<1>4. CASE /\ \A p \in Partitions : owner'[p] \in {owner[p], None}
           /\ \A p \in Partitions : PositionStep(p) /\ CommitStep(p)
  <2>1. SUFFICES ASSUME NEW p \in Partitions
        PROVE  /\ position'[p] <= Len(log'[p])
               /\ owner'[p] # None => committed'[p] <= position'[p] + 1
               /\ committed'[p] <= Len(log'[p])
               /\ \A o \in 0 .. position'[p] - 1 : Accounted(Offset(p, o))'
               /\ \A o \in 0 .. committed'[p] - 1 : Accounted(Offset(p, o))'
    BY DEF PositionInv, CommitInv, CommitRequiresOutcome
  <2>2. ASSUME NEW c \in Consumers, Busy(c), current[c].part = p, owner[p] = c
        PROVE  /\ current[c].off = position[p]
               /\ current[c].off + 1 <= Len(log[p])
    BY <1>2, <2>2, HeldRecord DEF IInv
  <2>3. ASSUME NEW n \in Nat, n = position[p] + 1,
               NEW c \in Consumers, Busy(c), current[c].part = p, owner[p] = c,
               current[c] \in dropped' \/ pc[c] \in {"saved", "ack"}
        PROVE  \A o \in 0 .. n - 1 : Accounted(Offset(p, o))'
    <3>1. PICK m \in Nat : m = position[p]
      BY <1>2
    <3>2. m = current[c].off
      BY <2>2, <2>3, <3>1
    <3>3. Accounted(Offset(p, m))'
      BY <1>1, <2>3, <3>2, HeldStays DEF IInv
    <3>4. \A o \in 0 .. m - 1 : Accounted(Offset(p, o))'
      BY <1>2, <3>1
    <3> QED BY <2>3, <3>1, <3>3, <3>4
  <2>4. /\ position'[p] \in {position[p], position[p] + 1}
        /\ \A o \in 0 .. position'[p] - 1 : Accounted(Offset(p, o))'
        /\ position'[p] <= Len(log[p])
    <3>1. CASE position'[p] = position[p]
      BY <1>2, <3>1
    <3>2. CASE position'[p] # position[p]
      <4>1. PICK c \in Consumers :
               /\ Busy(c)
               /\ current[c].part = p
               /\ owner[p] = c
               /\ position'[p] = current[c].off + 1
               /\ current[c] \in dropped' \/ pc[c] \in {"saved", "ack"}
        BY <1>4, <3>2 DEF PositionStep
      <4>2. PICK n \in Nat : n = position'[p]
        BY <1>2
      <4>3. n = position[p] + 1 /\ n <= Len(log[p])
        BY <1>2, <2>2, <4>1, <4>2
      <4>4. \A o \in 0 .. n - 1 : Accounted(Offset(p, o))'
        BY <2>3, <4>1, <4>3
      <4> QED BY <4>2, <4>3, <4>4
    <3> QED BY <3>1, <3>2
  <2>5. /\ committed'[p] \in {committed[p], position[p] + 1}
        /\ \A o \in 0 .. committed'[p] - 1 : Accounted(Offset(p, o))'
        /\ committed'[p] <= Len(log[p])
    <3>1. CASE committed'[p] = committed[p]
      BY <1>2, <3>1
    <3>2. CASE committed'[p] # committed[p]
      <4>1. PICK c \in Consumers :
               /\ Busy(c)
               /\ current[c].part = p
               /\ owner[p] = c
               /\ committed'[p] = current[c].off + 1
               /\ pc[c] \in {"saved", "ack"}
        BY <1>4, <3>2 DEF CommitStep
      <4>2. PICK n \in Nat : n = committed'[p]
        BY <1>2
      <4>3. n = position[p] + 1 /\ n <= Len(log[p])
        BY <1>2, <2>2, <4>1, <4>2
      <4>4. \A o \in 0 .. n - 1 : Accounted(Offset(p, o))'
        BY <2>3, <4>1, <4>3
      <4> QED BY <4>2, <4>3, <4>4
    <3> QED BY <3>1, <3>2
  <2>6. owner'[p] # None => committed'[p] <= position'[p] + 1
    <3>1. SUFFICES ASSUME owner'[p] # None
                   PROVE  committed'[p] <= position'[p] + 1
      OBVIOUS
    <3>2. committed[p] <= position[p] + 1
      BY <1>4, <3>1 DEF IInv, PositionInv
    <3> QED BY <1>2, <2>4, <2>5, <3>2
  <2> QED BY <1>2, <2>4, <2>5, <2>6
<1> QED BY <1>1, <1>3, <1>4 DEF BrokerStep

(* A consumer whose call and record a step leaves alone keeps its part of  *)
(* the invariant, if its partition stays where it was while it owns it.    *)
LEMMA OthersKeep ==
    ASSUME TypeOK, StoresGrow, ConsumerInv, NEW d \in Consumers, Busy(d),
           pc'[d] = pc[d], current'[d] = current[d],
           owner'[current[d].part] = d =>
              /\ owner[current[d].part] = d
              /\ position'[current[d].part] = position[current[d].part]
    PROVE  ConsumerOK(d)'
<1>1. PICK r \in Records : r = current[d]
  BY HeldRecord
<1>2. ConsumerOK(d)
  BY DEF ConsumerInv
<1>3. /\ owner[r.part] = d => r.off = position[r.part]
      /\ pc[d] # "log" => Logged(r)
      /\ pc[d] = "dltPublish" => r \in deadLetters
      /\ pc[d] \in {"saved", "ack"} => Accounted(r)
  BY <1>1, <1>2 DEF ConsumerOK
<1>4. r.off < Len(log[r.part])
  BY <1>1, HeldRecord
<1>5. /\ Logged(r) => Logged(r)'
      /\ Accounted(r) => Accounted(r)'
  BY <1>4, AccountedStays
<1>6. /\ owner'[r.part] = d => r.off = position'[r.part]
      /\ pc'[d] # "log" => Logged(r)'
      /\ pc'[d] = "dltPublish" => r \in deadLetters'
      /\ pc'[d] \in {"saved", "ack"} => Accounted(r)'
  BY <1>1, <1>3, <1>5 DEF StoresGrow
<1>7. current'[d] = r
  BY <1>1
<1> QED BY <1>6, <1>7 DEF ConsumerOK, Logged, Accounted, Handled,
           DeadLettered, EventAt

(* The consumer that makes a call keeps its part of the invariant when the *)
(* call establishes what the next one needs.                               *)
LEMMA CallerKeeps ==
    ASSUME TypeOK, StoresGrow, ConsumerInv, NEW c \in Consumers, Busy(c),
           UNCHANGED <<log, owner, position, current>>,
           pc'[c] # "log",
           NEW r \in Records, r = current[c],
           pc[c] # "log" \/ Logged(r)',
           pc'[c] = "dltPublish" => r \in deadLetters',
           pc'[c] \in {"saved", "ack"} => Accounted(r)'
    PROVE  ConsumerOK(c)'
<1>1. ConsumerOK(c)
  BY DEF ConsumerInv
<1>2. r.off < Len(log[r.part])
  BY HeldRecord
<1>3. Logged(r) => Logged(r)'
  BY <1>2, AccountedStays
<1>4. Logged(r)'
  BY <1>1, <1>3 DEF ConsumerOK
<1>5. owner'[r.part] = c => r.off = position'[r.part]
  BY <1>1 DEF ConsumerOK
<1>6. current'[c] = r
  OBVIOUS
<1> QED BY <1>4, <1>5, <1>6 DEF ConsumerOK, Logged, Accounted, Handled,
           DeadLettered, EventAt

(* Every call of processMessage that goes on to another call. *)
LEMMA CallInvariant ==
    ASSUME TypeOK, IInv, StoresGrow, NEW c \in Consumers, ProcessMessage(c),
           pc'[c] \in CallLabels
    PROVE  ConsumerOK(c)'
<1>1. /\ Busy(c)
      /\ pc \in [Consumers -> CallLabels \cup {"idle", "down"}]
  BY DEF TypeOK, ProcessMessage, Busy, CallLabels, RecordProcessedEvent,
     ExistsResultForEventId, FailIfConfigured, RecordAndGetWindow,
     EvaluateRules, SaveResult, FindDeadLetter, SaveNewDeadLetter,
     SaveNewDeadLetterConflicts, PublishDeadLetter, Acknowledge
<1>2. PICK r \in Records : r = current[c] /\ r.off < Len(log[r.part])
  BY <1>1, HeldRecord DEF IInv
<1>3. ConsumerInv /\ ConsumerOK(c)
  BY <1>1 DEF IInv, ConsumerInv
<1>4. CASE RecordProcessedEvent(c)
  <2>1. /\ pc' = [pc EXCEPT ![c] = "precheck"]
        /\ UNCHANGED <<log, owner, position, current>>
        /\ processingLog' = LoggedBy(c)
    BY <1>4 DEF RecordProcessedEvent, Goto, brokerVars
  <2>2. pc'[c] = "precheck"
    BY <1>1, <2>1
  <2>3. Logged(r)'
    BY <1>2, <2>1 DEF Logged, LoggedBy, Event, EventAt
  <2> QED BY <1>1, <1>2, <1>3, <2>1, <2>2, <2>3, CallerKeeps
<1>5. CASE ExistsResultForEventId(c)
  <2>1. /\ pc' = [pc EXCEPT ![c] = IF results[Event(c)] # None
                                    THEN "ack" ELSE "window"]
        /\ UNCHANGED <<log, owner, position, current>>
        /\ pc[c] = "precheck"
    BY <1>5 DEF ExistsResultForEventId, Goto, brokerVars
  <2>2. pc'[c] = IF results[Event(c)] # None THEN "ack" ELSE "window"
    BY <1>1, <2>1
  <2>3. pc'[c] = "ack" => Accounted(r)'
    <3>1. SUFFICES ASSUME pc'[c] = "ack" PROVE Accounted(r)
      BY <1>2, AccountedStays
    <3>2. results[EventAt(r)] # None
      BY <1>2, <2>2, <3>1 DEF Event
    <3>3. Logged(r)
      BY <1>2, <1>3, <2>1 DEF ConsumerOK
    <3> QED BY <3>2, <3>3 DEF Accounted, Handled
  <2> QED BY <1>1, <1>2, <1>3, <2>1, <2>2, <2>3, CallerKeeps
<1>6. CASE RecordAndGetWindow(c) \/ EvaluateRules(c)
  <2>1. PICK label \in {"rules", "dltFind", "save"} :
           pc' = [pc EXCEPT ![c] = label]
    BY <1>6 DEF RecordAndGetWindow, EvaluateRules, Goto
  <2>2. /\ UNCHANGED <<log, owner, position, current>>
        /\ pc[c] # "log"
    BY <1>6 DEF RecordAndGetWindow, EvaluateRules, brokerVars
  <2>3. pc'[c] = label
    BY <1>1, <2>1
  <2> QED BY <1>1, <1>2, <1>3, <2>2, <2>3, CallerKeeps
<1>7. CASE SaveResult(c)
  <2>1. /\ pc' = [pc EXCEPT ![c] = "saved"]
        /\ UNCHANGED <<log, owner, position, current>>
        /\ pc[c] = "save"
        /\ dropped' = IF results'[Event(c)] = None
                      THEN dropped \cup {current[c]} ELSE dropped
    BY <1>7 DEF SaveResult, Goto, brokerVars
  <2>2. pc'[c] = "saved"
    BY <1>1, <2>1
  <2>3. Logged(r)'
    BY <1>2, <1>3, <2>1, AccountedStays DEF ConsumerOK
  <2>4. r \in dropped' \/ results'[EventAt(r)'] # None
    BY <1>2, <2>1 DEF Event, EventAt
  <2>5. Accounted(r)'
    BY <2>3, <2>4 DEF Accounted, Handled
  <2> QED BY <1>1, <1>2, <1>3, <2>1, <2>2, <2>5, CallerKeeps
<1>8. CASE FindDeadLetter(c)
  <2>1. /\ pc' = [pc EXCEPT ![c] = IF current[c] \in deadLetters
                                    THEN "dltPublish" ELSE "dltInsert"]
        /\ UNCHANGED <<log, owner, position, current>>
        /\ pc[c] = "dltFind"
        /\ deadLetters' = deadLetters
    BY <1>8 DEF FindDeadLetter, Goto, brokerVars, storeVars
  <2>2. pc'[c] = IF r \in deadLetters THEN "dltPublish" ELSE "dltInsert"
    BY <1>1, <1>2, <2>1
  <2> QED BY <1>1, <1>2, <1>3, <2>1, <2>2, CallerKeeps
<1>9. CASE SaveNewDeadLetter(c)
  <2>1. /\ pc' = [pc EXCEPT ![c] = "dltPublish"]
        /\ UNCHANGED <<log, owner, position, current>>
        /\ pc[c] = "dltInsert"
        /\ deadLetters' = deadLetters \cup {current[c]}
    BY <1>9 DEF SaveNewDeadLetter, Goto, brokerVars
  <2>2. pc'[c] = "dltPublish"
    BY <1>1, <2>1
  <2> QED BY <1>1, <1>2, <1>3, <2>1, <2>2, CallerKeeps
<1>10. CASE PublishDeadLetter(c)
  <2>1. /\ pc' = [pc EXCEPT ![c] = "ack"]
        /\ UNCHANGED <<log, owner, position, current, deadLetters>>
        /\ pc[c] = "dltPublish"
        /\ dltTopic' = WithCopyOf(current[c])
    BY <1>10 DEF PublishDeadLetter, Goto, brokerVars
  <2>2. pc'[c] = "ack"
    BY <1>1, <2>1
  <2>3. Logged(r)'
    BY <1>2, <1>3, <2>1, AccountedStays DEF ConsumerOK
  <2>4. r \in deadLetters' /\ dltTopic'[r] > 0
    <3>1. r \in Records /\ dltTopic[r] \in Nat
      BY <1>2, <1>3 DEF TypeOK
    <3>2. dltTopic'[r] = dltTopic[r] + 1
      BY <1>2, <2>1, <3>1, CopyGrows
    <3> QED BY <1>2, <1>3, <2>1, <3>1, <3>2 DEF ConsumerOK
  <2>5. Accounted(r)'
    BY <2>3, <2>4 DEF Accounted, Handled, DeadLettered
  <2> QED BY <1>1, <1>2, <1>3, <2>1, <2>2, <2>5, CallerKeeps
<1>11. CASE \/ FailIfConfigured(c) \/ SaveNewDeadLetterConflicts(c)
            \/ Acknowledge(c)
  <2>1. LeaveTo(c, "idle")
    BY <1>11 DEF FailIfConfigured, SaveNewDeadLetterConflicts, Acknowledge,
       HandleError
  <2> QED BY <2>1, LeaveType
<1> QED BY <1>4, <1>5, <1>6, <1>7, <1>8, <1>9, <1>10, <1>11 DEF ProcessMessage

(* What a step of c does to another consumer d. *)
LEMMA StepOfOther ==
    ASSUME TypeOK, NEW c \in Consumers, ProcessMessage(c) \/ CallFails(c),
           NEW d \in Consumers, d # c, Busy(d)
    PROVE  /\ pc'[d] = pc[d] /\ current'[d] = current[d]
           /\ owner' = owner
           /\ owner[current[d].part] = d =>
                 position'[current[d].part] = position[current[d].part]
<1>1. /\ pc \in [Consumers -> CallLabels \cup {"idle", "down"}]
      /\ current \in [Consumers -> Records \cup {None}]
      /\ position \in [Partitions -> Nat]
  BY DEF TypeOK
<1>2. CASE \/ RecordProcessedEvent(c) \/ ExistsResultForEventId(c)
           \/ RecordAndGetWindow(c) \/ EvaluateRules(c) \/ SaveResult(c)
           \/ FindDeadLetter(c) \/ SaveNewDeadLetter(c) \/ PublishDeadLetter(c)
  <2>1. UNCHANGED <<owner, position, current>>
    BY <1>2 DEF RecordProcessedEvent, ExistsResultForEventId,
       RecordAndGetWindow, EvaluateRules, SaveResult, FindDeadLetter,
       SaveNewDeadLetter, PublishDeadLetter, brokerVars
  <2>2. \E label \in CallLabels : Goto(c, label)
    BY <1>2 DEF RecordProcessedEvent, ExistsResultForEventId,
       RecordAndGetWindow, EvaluateRules, SaveResult, FindDeadLetter,
       SaveNewDeadLetter, PublishDeadLetter, CallLabels
  <2>3. pc'[d] = pc[d]
    BY <1>1, <2>2 DEF Goto
  <2> QED BY <2>1, <2>3
<1>3. CASE \/ FailIfConfigured(c) \/ SaveNewDeadLetterConflicts(c)
           \/ Acknowledge(c) \/ CallFails(c)
  <2>1. LeaveTo(c, "idle") /\ owner' = owner
    BY <1>3 DEF FailIfConfigured, SaveNewDeadLetterConflicts, Acknowledge,
       CallFails, HandleError
  <2>2. \/ position' = position
        \/ /\ owner[current[c].part] = c
           /\ position' = [position EXCEPT ![current[c].part] = current[c].off + 1]
    BY <1>3 DEF FailIfConfigured, SaveNewDeadLetterConflicts, Acknowledge,
       CallFails, HandleError
  <2>3. pc'[d] = pc[d] /\ current'[d] = current[d]
    BY <1>1, <2>1 DEF LeaveTo
  <2>4. owner[current[d].part] = d =>
           position'[current[d].part] = position[current[d].part]
    <3>1. CASE position' = position
      BY <3>1
    <3>2. CASE /\ owner[current[c].part] = c
               /\ position' = [position EXCEPT ![current[c].part] =
                                                  current[c].off + 1]
      <4>1. SUFFICES ASSUME owner[current[d].part] = d
                     PROVE  position'[current[d].part] = position[current[d].part]
        OBVIOUS
      <4>2. current[d].part # current[c].part
        BY <3>2, <4>1
      <4>3. current[d].part \in Partitions
        BY DEF TypeOK, Records
      <4> QED BY <1>1, <3>2, <4>2, <4>3
    <3> QED BY <2>2, <3>1, <3>2
  <2> QED BY <2>1, <2>3, <2>4
<1> QED BY <1>2, <1>3 DEF ProcessMessage

LEMMA ConsumerInvariant ==
    ASSUME TypeOK, IInv, [Next]_vars
    PROVE  ConsumerInv'
<1> SUFFICES ASSUME NEW d \in Consumers, pc'[d] \in CallLabels
             PROVE  ConsumerOK(d)'
  BY DEF ConsumerInv, Busy
<1>0. /\ StoresGrow
      /\ ConsumerInv
      /\ pc \in [Consumers -> CallLabels \cup {"idle", "down"}]
      /\ owner \in [Partitions -> Consumers \cup {None}]
      /\ position \in [Partitions -> Nat]
      /\ None \notin Consumers
  BY StepGrows DEF IInv, TypeOK
<1>1. ASSUME Busy(d), UNCHANGED <<pc, current, owner, position>>
      PROVE  ConsumerOK(d)'
  BY <1>0, <1>1, OthersKeep
<1>2. ASSUME NEW e \in Events, Publish(e) PROVE ConsumerOK(d)'
  BY <1>1, <1>2 DEF Publish, consumerVars, Busy
<1>3. ASSUME NEW c \in Consumers, NEW p \in Partitions, Assign(c, p)
      PROVE  ConsumerOK(d)'
  <2>1. /\ pc[c] = "idle"
        /\ owner[p] = None
        /\ owner' = [owner EXCEPT ![p] = c]
        /\ position' = [position EXCEPT ![p] = committed[p]]
        /\ UNCHANGED <<pc, current>>
    BY <1>3 DEF Assign, consumerVars
  <2>2. d # c /\ Busy(d)
    BY <2>1 DEF Busy, CallLabels
  <2>3. current[d].part \in Partitions
    BY <2>2 DEF TypeOK, Records
  <2>4. owner'[current[d].part] = d =>
           /\ owner[current[d].part] = d
           /\ position'[current[d].part] = position[current[d].part]
    <3>1. CASE current[d].part = p
      BY <1>0, <2>1, <2>2, <3>1
    <3>2. CASE current[d].part # p
      BY <1>0, <2>1, <2>3, <3>2
    <3> QED BY <3>1, <3>2
  <2> QED BY <1>0, <2>1, <2>2, <2>4, OthersKeep
<1>4. ASSUME NEW p \in Partitions, Revoke(p) PROVE ConsumerOK(d)'
  <2>1. /\ owner' = [owner EXCEPT ![p] = None]
        /\ UNCHANGED <<pc, current, position>>
    BY <1>4 DEF Revoke, consumerVars
  <2>2. Busy(d)
    BY <2>1 DEF Busy
  <2>3. current[d].part \in Partitions
    BY <2>2 DEF TypeOK, Records
  <2>4. owner'[current[d].part] = d => owner[current[d].part] = d
    BY <1>0, <2>1, <2>3
  <2> QED BY <1>0, <2>1, <2>2, <2>4, OthersKeep
<1>5. ASSUME NEW c \in Consumers, Crash(c) PROVE ConsumerOK(d)'
  <2>1. /\ LeaveTo(c, "down")
        /\ owner' = [p \in Partitions |-> IF owner[p] = c THEN None ELSE owner[p]]
        /\ UNCHANGED position
    BY <1>5 DEF Crash
  <2>2. Busy(d) /\ pc'[d] = pc[d] /\ current'[d] = current[d]
    BY <2>1, LeaveType DEF Busy
  <2>3. current[d].part \in Partitions
    BY <2>2 DEF TypeOK, Records
  <2>4. owner'[current[d].part] = d => owner[current[d].part] = d
    BY <1>0, <2>1, <2>3
  <2> QED BY <1>0, <2>1, <2>2, <2>4, OthersKeep
<1>6. ASSUME NEW c \in Consumers, Restart(c) PROVE ConsumerOK(d)'
  <2>1. /\ pc' = [pc EXCEPT ![c] = "idle"]
        /\ UNCHANGED <<owner, position, current>>
    BY <1>6 DEF Restart, brokerVars
  <2>2. Busy(d) /\ pc'[d] = pc[d]
    BY <1>0, <2>1 DEF Busy, CallLabels
  <2> QED BY <1>0, <2>1, <2>2, OthersKeep
<1>7. ASSUME NEW c \in Consumers, NEW p \in Partitions, Poll(c, p)
      PROVE  ConsumerOK(d)'
  <2>1. /\ pc' = [pc EXCEPT ![c] = "log"]
        /\ current' = [current EXCEPT ![c] = [part |-> p, off |-> position[p]]]
        /\ UNCHANGED <<owner, position>>
        /\ current \in [Consumers -> Records \cup {None}]
    BY <1>7 DEF Poll, brokerVars, TypeOK
  <2>2. CASE d = c
    <3>1. /\ pc'[d] = "log"
          /\ current'[d] = [part |-> p, off |-> position[p]]
      BY <1>0, <2>1, <2>2
    <3>2. current'[d].part = p /\ current'[d].off = position[p]
      BY <3>1
    <3> QED BY <2>1, <3>1, <3>2 DEF ConsumerOK
  <2>3. CASE d # c
    <3>1. Busy(d) /\ pc'[d] = pc[d] /\ current'[d] = current[d]
      BY <1>0, <2>1, <2>3 DEF Busy
    <3> QED BY <1>0, <2>1, <3>1, OthersKeep
  <2> QED BY <2>2, <2>3
<1>8. ASSUME NEW c \in Consumers, ProcessMessage(c) \/ CallFails(c)
      PROVE  ConsumerOK(d)'
  <2>1. CASE d = c
    <3>1. ~CallFails(c)
      <4>1. SUFFICES ASSUME CallFails(c) PROVE FALSE
        OBVIOUS
      <4>2. LeaveTo(c, "idle")
        BY <4>1 DEF CallFails, HandleError
      <4> QED BY <2>1, <4>2, LeaveType
    <3> QED BY <1>0, <1>8, <2>1, <3>1, CallInvariant
  <2>2. CASE d # c
    <3>1. Busy(d)
      <4>1. \/ LeaveTo(c, "idle")
            \/ \E label \in CallLabels : Goto(c, label)
        BY <1>8 DEF ProcessMessage, CallFails, HandleError,
           RecordProcessedEvent, ExistsResultForEventId, FailIfConfigured,
           RecordAndGetWindow, EvaluateRules, SaveResult, FindDeadLetter,
           SaveNewDeadLetter, SaveNewDeadLetterConflicts, PublishDeadLetter,
           Acknowledge, CallLabels
      <4> QED BY <1>0, <2>2, <4>1 DEF LeaveTo, Goto, Busy
    <3> QED BY <1>0, <1>8, <2>2, <3>1, StepOfOther, OthersKeep
  <2> QED BY <2>1, <2>2
<1>9. CASE UNCHANGED vars
  BY <1>1, <1>9 DEF vars, consumerVars, brokerVars, Busy
<1> QED BY <1>2, <1>3, <1>4, <1>5, <1>6, <1>7, <1>8, <1>9 DEF Next

(* The inductive invariant holds in every reachable state. *)
THEOREM InductiveInvariant == Spec => []IInv
<1>1. Init => IInv
  <2> SUFFICES ASSUME Init PROVE IInv
    OBVIOUS
  <2>1. ASSUME NEW p \in Partitions
        PROVE  /\ log[p] = <<>> /\ Len(log[p]) = 0
               /\ position[p] = 0 /\ committed[p] = 0 /\ owner[p] = None
    BY DEF Init
  <2>2. ConsumerInv
    BY DEF Init, ConsumerInv, Busy, CallLabels
  <2> QED BY <2>1, <2>2 DEF IInv, PositionInv, CommitInv, CommitRequiresOutcome
<1>2. TypeOK /\ TypeOK' /\ IInv /\ [Next]_vars => IInv'
  BY GroupInvariant, ConsumerInvariant DEF IInv
<1> QED BY <1>1, <1>2, TypeCorrect, PTL DEF Spec

(* An offset is committed only when every record below it has been logged  *)
(* and has a result or a published dead letter, or was given up: for any   *)
(* number of consumers, partitions, records, deliveries and faults.        *)
THEOREM CommitSafety == Spec => []CommitRequiresOutcome
<1>1. IInv => CommitRequiresOutcome
  BY DEF IInv, CommitInv
<1> QED BY <1>1, InductiveInvariant, PTL

-----------------------------------------------------------------------------
(* A record of the topic keeps its place and its event. *)
LEMMA RecordStays ==
    ASSUME TypeOK, TypeOK', StoresGrow, NEW r \in Records,
           r.off < Len(log[r.part])
    PROVE  /\ r.off < Len(log'[r.part])
           /\ EventAt(r)' = EventAt(r)
           /\ EventAt(r) \in Events
<1>1. r.part \in Partitions /\ r.off \in Nat
  BY DEF Records
<1>2. /\ log[r.part] \in Seq(Events) /\ log'[r.part] \in Seq(Events)
      /\ Len(log[r.part]) <= Len(log'[r.part])
      /\ \A i \in 1 .. Len(log[r.part]) : log'[r.part][i] = log[r.part][i]
  BY <1>1 DEF TypeOK, StoresGrow
<1>3. Len(log[r.part]) \in Nat /\ Len(log'[r.part]) \in Nat
  BY <1>2
<1>4. r.off + 1 \in 1 .. Len(log[r.part])
  BY <1>1, <1>3
<1>5. log[r.part][r.off + 1] \in Events
  BY <1>2, <1>4
<1> QED BY <1>1, <1>2, <1>3, <1>4, <1>5 DEF EventAt

(* The types of what the account of the faults is about. *)
LEMMA FaultTypes ==
    ASSUME TypeOK
    PROVE  /\ pc \in [Consumers -> CallLabels \cup {"idle", "down"}]
           /\ current \in [Consumers -> Records \cup {None}]
           /\ owner \in [Partitions -> Consumers \cup {None}]
           /\ position \in [Partitions -> Nat]
           /\ deliveries \in [Partitions -> 0 .. MaxDeliveries - 1]
           /\ faults \in Nat
<1>1. faults \in 0 .. MaxFaults
  BY DEF TypeOK
<1> QED BY <1>1 DEF TypeOK

(* With the drill off no failure is injected. *)
LEMMA NoDrill ==
    ASSUME DrillPoint = None, NEW c \in Consumers PROVE ~DrillFires(c)
<1>1. PointBefore(pc[c]) \in FailurePoints \cup {"NO_FAILURE_POINT"}
  BY DEF PointBefore, FailurePoints
<1> QED BY <1>1 DEF DrillFires

(* The record at a position that stays can be dead-lettered after a step   *)
(* only if it could before.                                                *)
LEMMA DeadLetterabilityStays ==
    ASSUME TypeOK, TypeOK', StoresGrow, NEW p \in Partitions,
           position'[p] = position[p], CannotBeDeadLettered(p)
    PROVE  CannotBeDeadLettered(p)'
<1>1. PICK r \in Records : /\ r = Offset(p, position[p])
                           /\ r.part = p /\ r.off = position[p]
  <2>1. position[p] \in 0 .. MaxLog - 1
    BY DEF TypeOK, CannotBeDeadLettered
  <2>2. /\ Offset(p, position[p]) \in Records
        /\ Offset(p, position[p]).part = p
        /\ Offset(p, position[p]).off = position[p]
    BY <2>1 DEF Offset, Records
  <2> QED BY <2>2
<1>2. r.off < Len(log[r.part]) /\ EventAt(r) \in DltRejects
  BY <1>1 DEF CannotBeDeadLettered
<1>3. r.off < Len(log'[r.part]) /\ EventAt(r)' \in DltRejects
  BY <1>2, RecordStays
<1>4. r = Offset(p, position[p])'
  BY <1>1 DEF Offset
<1> QED BY <1>1, <1>3, <1>4 DEF CannotBeDeadLettered, EventAt

(* A consumer whose call and record stay races for a row after a step only *)
(* if it did before, when its partition and the table stay.                *)
LEMMA OtherRaces ==
    ASSUME StoresGrow, NEW d \in Consumers, NEW p \in Partitions,
           pc'[d] = pc[d], current'[d] = current[d],
           owner'[p] = owner[p], position'[p] = position[p],
           current[d] \in deadLetters' => current[d] \in deadLetters,
           RacesForRow(d, p)'
    PROVE  RacesForRow(d, p)
BY DEF RacesForRow, StoresGrow, Busy, Offset

(* Steps that leave the group, the deliveries and the faults alone: only   *)
(* one consumer moves, and the one row it may insert is that of its record. *)
QuietStep(c) ==
    /\ UNCHANGED <<log, owner, position, deliveries, faults>>
    /\ \A d \in Consumers \ {c} : pc'[d] = pc[d] /\ current'[d] = current[d]
    /\ \/ Busy(c) /\ current'[c] = current[c]
       \/ ~Busy(c)'
       \/ owner[current'[c].part] = c
    /\ pc'[c] = "dltInsert" => current'[c] \notin deadLetters'
    /\ \/ deadLetters' = deadLetters
       \/ /\ Busy(c) /\ current[c] \notin deadLetters
          /\ deadLetters' = deadLetters \cup {current[c]}

LEMMA QuietStepPaid ==
    ASSUME TypeOK, TypeOK', StoresGrow, NEW c \in Consumers, QuietStep(c),
           NEW p \in Partitions, DeliveriesPaid(p)
    PROVE  DeliveriesPaid(p)'
<1>0. UNCHANGED <<log, owner, position, deliveries, faults>>
  BY DEF QuietStep
<1> SUFFICES ASSUME ~CannotBeDeadLettered(p)'
             PROVE  /\ deliveries'[p] <= faults'
                    /\ \A d \in Consumers : RacesForRow(d, p)' =>
                          deliveries'[p] < faults'
  BY DEF DeliveriesPaid
<1>1. /\ deliveries[p] <= faults
      /\ \A d \in Consumers : RacesForRow(d, p) => deliveries[p] < faults
  BY <1>0, DeadLetterabilityStays DEF DeliveriesPaid
<1>2. ASSUME NEW d \in Consumers, RacesForRow(d, p)'
      PROVE  \E a \in Consumers : RacesForRow(a, p)
  <2>1. CASE d = c
    <3>1. /\ Busy(c)' /\ current'[c] = Offset(p, position[p])
          /\ \/ owner[p] # c /\ current'[c] \notin deadLetters'
             \/ pc'[c] = "dltInsert" /\ current'[c] \in deadLetters'
      BY <1>0, <1>2, <2>1 DEF RacesForRow, Offset
    <3>2. owner[p] # c /\ current'[c] \notin deadLetters'
      BY <3>1 DEF QuietStep
    <3>3. current'[c].part = p
      BY <3>1 DEF Offset
    <3>4. Busy(c) /\ current'[c] = current[c]
      BY <3>1, <3>2, <3>3 DEF QuietStep
    <3> QED BY <3>1, <3>2, <3>4 DEF RacesForRow, StoresGrow
  <2>2. CASE d # c
    <3>1. pc'[d] = pc[d] /\ current'[d] = current[d]
      BY <2>2 DEF QuietStep
    <3>2. CASE current[d] \in deadLetters' => current[d] \in deadLetters
      BY <1>0, <1>2, <3>1, <3>2, OtherRaces
    <3>3. CASE current[d] \in deadLetters' /\ current[d] \notin deadLetters
      <4>1. Busy(c) /\ current[c] \notin deadLetters /\ current[d] = current[c]
        BY <3>3 DEF QuietStep
      <4>2. /\ current[c] = Offset(p, position[p])
            /\ owner[p] = d
        BY <1>0, <1>2, <3>1, <3>3, <4>1 DEF RacesForRow, Offset
      <4>3. RacesForRow(c, p)
        BY <2>2, <4>1, <4>2 DEF RacesForRow
      <4> QED BY <4>3
    <3> QED BY <3>2, <3>3
  <2> QED BY <2>1, <2>2
<1> QED BY <1>0, <1>1, <1>2

(* A partition whose owner moved on to the next record starts afresh. *)
LEMMA NextRecordPaid ==
    ASSUME TypeOK, NEW c \in Consumers, NEW p \in Partitions,
           \A d \in Consumers : StragglerPaid(d),
           owner[p] = c, owner'[p] = owner[p], deliveries'[p] = 0,
           faults' \in Nat, faults <= faults', ~Busy(c)',
           \A d \in Consumers \ {c} : pc'[d] = pc[d] /\ current'[d] = current[d]
    PROVE  DeliveriesPaid(p)'
<1>1. ASSUME NEW d \in Consumers, RacesForRow(d, p)' PROVE 0 < faults'
  <2>1. Busy(d)' /\ current'[d].part = p
    BY <1>1 DEF RacesForRow, Offset
  <2>2. d # c
    BY <2>1
  <2>3. Busy(d) /\ current[d].part = p
    BY <2>1, <2>2 DEF Busy
  <2>4. faults > 0 /\ faults \in Nat
    BY <2>2, <2>3 DEF StragglerPaid, TypeOK
  <2> QED BY <2>4
<1> QED BY <1>1 DEF DeliveriesPaid

(* Polling, and the calls that go on to another call, are quiet. *)
LEMMA QuietSteps ==
    ASSUME TypeOK, NEW c \in Consumers,
           \/ Restart(c)
           \/ \E p \in Partitions : Poll(c, p)
           \/ RecordProcessedEvent(c) \/ ExistsResultForEventId(c)
           \/ RecordAndGetWindow(c) \/ EvaluateRules(c) \/ SaveResult(c)
           \/ FindDeadLetter(c) \/ SaveNewDeadLetter(c) \/ PublishDeadLetter(c)
    PROVE  QuietStep(c)
<1>0. /\ pc \in [Consumers -> CallLabels \cup {"idle", "down"}]
      /\ current \in [Consumers -> Records \cup {None}]
  BY DEF TypeOK
<1>1. CASE Restart(c)
  <2>1. /\ UNCHANGED <<log, owner, position, deliveries, faults, current,
                       deadLetters>>
        /\ pc' = [pc EXCEPT ![c] = "idle"]
    BY <1>1 DEF Restart, brokerVars, storeVars
  <2>2. pc'[c] = "idle"
    BY <1>0, <2>1
  <2>3. ~Busy(c)'
    BY <2>2 DEF Busy, CallLabels
  <2> QED BY <1>0, <2>1, <2>2, <2>3 DEF QuietStep
<1>2. CASE \E p \in Partitions : Poll(c, p)
  <2>1. PICK p \in Partitions : Poll(c, p)
    BY <1>2
  <2>2. /\ UNCHANGED <<log, owner, position, deliveries, faults, deadLetters>>
        /\ pc' = [pc EXCEPT ![c] = "log"]
        /\ current' = [current EXCEPT ![c] = [part |-> p, off |-> position[p]]]
        /\ owner[p] = c
    BY <2>1 DEF Poll, brokerVars, storeVars
  <2>3. pc'[c] = "log" /\ current'[c].part = p
    BY <1>0, <2>2
  <2> QED BY <1>0, <2>2, <2>3 DEF QuietStep
<1>3. CASE \/ RecordProcessedEvent(c) \/ ExistsResultForEventId(c)
           \/ RecordAndGetWindow(c) \/ EvaluateRules(c) \/ SaveResult(c)
           \/ FindDeadLetter(c) \/ SaveNewDeadLetter(c) \/ PublishDeadLetter(c)
  <2>1. /\ UNCHANGED <<log, owner, position, deliveries, faults, current>>
        /\ Busy(c)
        /\ \E label \in CallLabels : pc' = [pc EXCEPT ![c] = label]
    BY <1>3 DEF RecordProcessedEvent, ExistsResultForEventId,
       RecordAndGetWindow, EvaluateRules, SaveResult, FindDeadLetter,
       SaveNewDeadLetter, PublishDeadLetter, brokerVars, Goto, CallLabels, Busy
  <2>2. \/ deadLetters' = deadLetters
        \/ /\ current[c] \notin deadLetters
           /\ deadLetters' = deadLetters \cup {current[c]}
    BY <1>3 DEF RecordProcessedEvent, ExistsResultForEventId,
       RecordAndGetWindow, EvaluateRules, SaveResult, FindDeadLetter,
       SaveNewDeadLetter, PublishDeadLetter, storeVars, CanInsertDeadLetter
  <2>3. pc'[c] = "dltInsert" => current[c] \notin deadLetters'
    <3>1. CASE FindDeadLetter(c)
      BY <1>0, <3>1 DEF FindDeadLetter, Goto, storeVars
    <3>2. CASE \/ RecordProcessedEvent(c) \/ ExistsResultForEventId(c)
               \/ RecordAndGetWindow(c) \/ EvaluateRules(c) \/ SaveResult(c)
               \/ SaveNewDeadLetter(c) \/ PublishDeadLetter(c)
      <4>1. \E label \in CallLabels \ {"dltInsert"} : pc' = [pc EXCEPT ![c] = label]
        BY <3>2 DEF RecordProcessedEvent, ExistsResultForEventId,
           RecordAndGetWindow, EvaluateRules, SaveResult,
           SaveNewDeadLetter, PublishDeadLetter, Goto, CallLabels
      <4> QED BY <1>0, <4>1
    <3> QED BY <1>3, <3>1, <3>2
  <2>4. \A d \in Consumers \ {c} : pc'[d] = pc[d] /\ current'[d] = current[d]
    BY <1>0, <2>1
  <2> QED BY <2>1, <2>2, <2>3, <2>4 DEF QuietStep
<1> QED BY <1>1, <1>2, <1>3

(* What the error handler does to partition p. *)
HandlerStep(c, p) ==
    \/ position'[p] = position[p] /\ deliveries'[p] = deliveries[p]
    \/ /\ owner[p] = c /\ current[c] = Offset(p, position[p])
       /\ \/ position'[p] = position[p] /\ deliveries'[p] = deliveries[p] + 1
          \/ deliveries'[p] = 0

LEMMA EveryHandlerStep ==
    ASSUME TypeOK, ConsumerInv, NEW c \in Consumers, Busy(c), HandleError(c)
    PROVE  /\ ~Busy(c)'
           /\ \A d \in Consumers \ {c} : pc'[d] = pc[d] /\ current'[d] = current[d]
           /\ \A p \in Partitions : HandlerStep(c, p)
           /\ dropped' # dropped =>
                 \E p \in Partitions :
                    /\ owner[p] = c /\ current[c] = Offset(p, position[p])
                    /\ deliveries[p] + 1 = MaxDeliveries
                    /\ dropped' = dropped \cup {current[c]}
<1>0. /\ pc \in [Consumers -> CallLabels \cup {"idle", "down"}]
      /\ current \in [Consumers -> Records \cup {None}]
      /\ position \in [Partitions -> Nat]
      /\ deliveries \in [Partitions -> 0 .. MaxDeliveries - 1]
  BY DEF TypeOK
<1>1. LeaveTo(c, "idle")
  BY DEF HandleError
<1>2. /\ ~Busy(c)'
      /\ \A d \in Consumers \ {c} : pc'[d] = pc[d] /\ current'[d] = current[d]
  <2>1. pc'[c] = "idle"
    BY <1>0, <1>1 DEF LeaveTo
  <2> QED BY <1>0, <1>1, <2>1 DEF LeaveTo, Busy, CallLabels
<1>3. PICK q \in Partitions : q = current[c].part
  BY HeldRecord
<1>4. owner[q] = c => current[c] = Offset(q, position[q])
  BY <1>3, HeldRecord
<1>5. \/ UNCHANGED <<position, deliveries, dropped>>
      \/ /\ owner[q] = c
         /\ deliveries' = [deliveries EXCEPT ![q] = @ + 1]
         /\ UNCHANGED <<position, dropped>>
      \/ /\ owner[q] = c
         /\ deliveries[q] + 1 = MaxDeliveries
         /\ deliveries' = [deliveries EXCEPT ![q] = 0]
         /\ position' = [position EXCEPT ![q] = current[c].off + 1]
         /\ dropped' = dropped \cup {current[c]}
  BY <1>3 DEF HandleError
<1>6. ASSUME NEW p \in Partitions PROVE HandlerStep(c, p)
  <2>1. CASE p = q
    BY <1>0, <1>4, <1>5, <2>1 DEF HandlerStep
  <2>2. CASE p # q
    BY <1>0, <1>5, <2>2 DEF HandlerStep
  <2> QED BY <2>1, <2>2
<1> QED BY <1>2, <1>4, <1>5, <1>6

(* A failed delivery is paid for by the fault that made it fail, or by the *)
(* one that let another consumer insert the row first.                     *)
LEMMA FailedDeliveryPaid ==
    ASSUME TypeOK, TypeOK', StoresGrow, ConsumerInv, FaultInv,
           NEW c \in Consumers, Busy(c), HandleError(c), owner' = owner,
           \/ faults' = faults + 1
           \/ /\ faults' = faults /\ UNCHANGED <<log, deadLetters>>
              /\ pc[c] = "dltInsert" /\ ~CanInsertDeadLetter(c),
           NEW p \in Partitions
    PROVE  DeliveriesPaid(p)'
<1>0. /\ faults \in Nat /\ faults' \in Nat /\ faults <= faults'
      /\ deliveries[p] \in Nat /\ deliveries'[p] \in Nat
      /\ log \in [Partitions -> Seq(Events)]
  BY DEF TypeOK
<1>1. /\ ~Busy(c)'
      /\ \A d \in Consumers \ {c} : pc'[d] = pc[d] /\ current'[d] = current[d]
      /\ HandlerStep(c, p)
  BY EveryHandlerStep
<1>2. DeliveriesPaid(p) /\ \A d \in Consumers : StragglerPaid(d)
  BY DEF FaultInv
<1>3. CASE owner[p] = c /\ deliveries'[p] = 0
  BY <1>0, <1>1, <1>2, <1>3, NextRecordPaid
<1> SUFFICES ASSUME ~(owner[p] = c /\ deliveries'[p] = 0),
                    ~CannotBeDeadLettered(p)'
             PROVE  /\ deliveries'[p] <= faults'
                    /\ \A d \in Consumers : RacesForRow(d, p)' =>
                          deliveries'[p] < faults'
  BY <1>3 DEF DeliveriesPaid
<1>4. /\ position'[p] = position[p]
      /\ \/ deliveries'[p] = deliveries[p]
         \/ /\ owner[p] = c /\ current[c] = Offset(p, position[p])
            /\ deliveries'[p] = deliveries[p] + 1
  BY <1>1 DEF HandlerStep
<1>5. ~CannotBeDeadLettered(p)
  BY <1>4, DeadLetterabilityStays
<1>6. /\ deliveries[p] <= faults
      /\ \A d \in Consumers : RacesForRow(d, p) => deliveries[p] < faults
  BY <1>2, <1>5 DEF DeliveriesPaid
<1>7. ASSUME NEW d \in Consumers, RacesForRow(d, p)'
      PROVE  /\ d # c /\ pc'[d] = pc[d] /\ current'[d] = current[d]
             /\ owner[p] # d => /\ RacesForRow(d, p)
                                /\ current[d] = Offset(p, position[p])
                                /\ current[d] \notin deadLetters'
  <2>1. d # c /\ pc'[d] = pc[d] /\ current'[d] = current[d]
    BY <1>1, <1>7 DEF RacesForRow
  <2>2. owner[p] # d => /\ current[d] = Offset(p, position[p])
                        /\ current[d] \notin deadLetters'
    BY <1>4, <1>7, <2>1 DEF RacesForRow, Offset
  <2>3. owner[p] # d => RacesForRow(d, p)
    BY <1>4, <1>7, <2>1, <2>2, OtherRaces
  <2> QED BY <2>1, <2>2, <2>3
<1>8. CASE faults' = faults + 1
  <2>1. ASSUME NEW d \in Consumers, RacesForRow(d, p)'
        PROVE  deliveries'[p] < faults'
    BY <1>0, <1>4, <1>6, <1>7, <1>8, <2>1
  <2> QED BY <1>0, <1>4, <1>6, <1>8, <2>1
<1>9. CASE /\ faults' = faults /\ UNCHANGED <<log, deadLetters>>
           /\ pc[c] = "dltInsert" /\ ~CanInsertDeadLetter(c)
  <2>1. CASE deliveries'[p] = deliveries[p]
    <3>1. ASSUME NEW d \in Consumers, RacesForRow(d, p)' PROVE RacesForRow(d, p)
      BY <1>4, <1>7, <1>9, <3>1, OtherRaces
    <3> QED BY <1>6, <1>9, <2>1, <3>1
  <2>2. CASE /\ owner[p] = c /\ current[c] = Offset(p, position[p])
             /\ deliveries'[p] = deliveries[p] + 1
    <3>1. current[c] \in deadLetters
      <4>1. position[p] < Len(log[p])
        BY <2>2, HeldRecord DEF Offset
      <4>2. Event(c) \notin DltRejects
        BY <1>5, <2>2, <4>1 DEF CannotBeDeadLettered, Event
      <4> QED BY <1>9, <4>2 DEF CanInsertDeadLetter
    <3>2. deliveries[p] < faults
      BY <1>6, <1>9, <2>2, <3>1 DEF RacesForRow
    <3>3. ASSUME NEW d \in Consumers, RacesForRow(d, p)' PROVE FALSE
      BY <1>7, <1>9, <2>2, <3>1, <3>3
    <3> QED BY <1>0, <1>9, <2>2, <3>2, <3>3
  <2> QED BY <1>4, <2>1, <2>2
<1> QED BY <1>8, <1>9

(* A step that takes partitions away is a fault. *)
LEMMA FaultPaid ==
    ASSUME TypeOK, TypeOK', StoresGrow, FaultInv, faults' = faults + 1,
           UNCHANGED <<position, deliveries>>, NEW p \in Partitions
    PROVE  DeliveriesPaid(p)'
<1>1. /\ faults \in Nat
      /\ deliveries \in [Partitions -> 0 .. MaxDeliveries - 1]
      /\ position'[p] = position[p] /\ deliveries'[p] = deliveries[p]
  BY DEF TypeOK
<1>2. CannotBeDeadLettered(p) => CannotBeDeadLettered(p)'
  BY DeadLetterabilityStays
<1> QED BY <1>1, <1>2 DEF DeliveriesPaid, FaultInv

(* An assignment resumes with no failed delivery; a consumer that still    *)
(* has the record lost the partition before.                               *)
LEMMA AssignPaid ==
    ASSUME TypeOK, TypeOK', StoresGrow, FaultInv, NEW c \in Consumers,
           NEW q \in Partitions, Assign(c, q), NEW p \in Partitions
    PROVE  DeliveriesPaid(p)'
<1>0. /\ owner \in [Partitions -> Consumers \cup {None}]
      /\ position \in [Partitions -> Nat]
      /\ deliveries \in [Partitions -> 0 .. MaxDeliveries - 1]
      /\ faults \in 0 .. MaxFaults
  BY DEF TypeOK
<1>1. /\ owner[q] = None /\ pc[c] = "idle"
      /\ owner' = [owner EXCEPT ![q] = c]
      /\ position' = [position EXCEPT ![q] = committed[q]]
      /\ deliveries' = [deliveries EXCEPT ![q] = 0]
      /\ UNCHANGED <<log, pc, current, deadLetters, faults>>
  BY DEF Assign, consumerVars, storeVars
<1>2. CASE p = q
  <2>1. deliveries'[p] = 0
    BY <1>0, <1>1, <1>2
  <2>2. ASSUME NEW d \in Consumers, RacesForRow(d, p)' PROVE faults > 0
    <3>1. Busy(d) /\ current[d].part = p
      BY <1>1, <2>2 DEF RacesForRow, Busy, Offset
    <3>2. owner[p] # d
      BY <1>1, <1>2
    <3> QED BY <3>1, <3>2 DEF FaultInv, StragglerPaid
  <2> QED BY <1>0, <1>1, <2>1, <2>2 DEF DeliveriesPaid
<1>3. CASE p # q
  <2>1. /\ owner'[p] = owner[p] /\ position'[p] = position[p]
        /\ deliveries'[p] = deliveries[p]
    BY <1>0, <1>1, <1>3
  <2>2. CannotBeDeadLettered(p) => CannotBeDeadLettered(p)'
    BY <2>1, DeadLetterabilityStays
  <2>3. ASSUME NEW d \in Consumers, RacesForRow(d, p)' PROVE RacesForRow(d, p)
    BY <1>1, <2>1, <2>3, OtherRaces
  <2> QED BY <1>1, <2>1, <2>2, <2>3 DEF DeliveriesPaid, FaultInv
<1> QED BY <1>2, <1>3

(* Every step keeps the account of the deliveries when the drill is off. *)
LEMMA DeliveriesInvariant ==
    ASSUME TypeOK, TypeOK', ConsumerInv, FaultInv, DrillPoint = None,
           [Next]_vars, NEW p \in Partitions
    PROVE  DeliveriesPaid(p)'
<1>0. StoresGrow /\ DeliveriesPaid(p)
  BY StepGrows DEF FaultInv
<1>1. ASSUME NEW e \in Events, Publish(e) PROVE DeliveriesPaid(p)'
  <2>1. UNCHANGED <<owner, position, deliveries, pc, current, deadLetters, faults>>
    BY <1>1 DEF Publish, consumerVars, storeVars
  <2>2. CannotBeDeadLettered(p) => CannotBeDeadLettered(p)'
    BY <1>0, <2>1, DeadLetterabilityStays
  <2>3. ASSUME NEW d \in Consumers, RacesForRow(d, p)' PROVE RacesForRow(d, p)
    BY <1>0, <2>1, <2>3, OtherRaces
  <2> QED BY <1>0, <2>1, <2>2, <2>3 DEF DeliveriesPaid
<1>2. ASSUME NEW c \in Consumers, NEW q \in Partitions, Assign(c, q)
      PROVE  DeliveriesPaid(p)'
  BY <1>0, <1>2, AssignPaid
<1>3. ASSUME NEW q \in Partitions, Revoke(q) PROVE DeliveriesPaid(p)'
  BY <1>0, <1>3, FaultPaid DEF Revoke, Fault
<1>4. ASSUME NEW c \in Consumers, Crash(c) PROVE DeliveriesPaid(p)'
  BY <1>0, <1>4, FaultPaid DEF Crash, Fault
<1>5. ASSUME NEW c \in Consumers, Restart(c) PROVE DeliveriesPaid(p)'
  BY <1>0, <1>5, QuietSteps, QuietStepPaid
<1>6. ASSUME NEW c \in Consumers, NEW q \in Partitions, Poll(c, q)
      PROVE  DeliveriesPaid(p)'
  BY <1>0, <1>6, QuietSteps, QuietStepPaid
<1>7. ASSUME NEW c \in Consumers, ProcessMessage(c) PROVE DeliveriesPaid(p)'
  <2>1. CASE \/ RecordProcessedEvent(c) \/ ExistsResultForEventId(c)
             \/ RecordAndGetWindow(c) \/ EvaluateRules(c) \/ SaveResult(c)
             \/ FindDeadLetter(c) \/ SaveNewDeadLetter(c) \/ PublishDeadLetter(c)
    BY <1>0, <2>1, QuietSteps, QuietStepPaid
  <2>2. CASE FailIfConfigured(c)
    BY <2>2, NoDrill DEF FailIfConfigured
  <2>3. CASE SaveNewDeadLetterConflicts(c)
    <3>1. /\ Busy(c) /\ HandleError(c) /\ owner' = owner /\ faults' = faults
          /\ UNCHANGED <<log, deadLetters>>
          /\ pc[c] = "dltInsert" /\ ~CanInsertDeadLetter(c)
      BY <2>3 DEF SaveNewDeadLetterConflicts, Busy, CallLabels, storeVars
    <3> QED BY <1>0, <3>1, FailedDeliveryPaid
  <2>4. CASE Acknowledge(c)
    <3>0. /\ pc \in [Consumers -> CallLabels \cup {"idle", "down"}]
          /\ current \in [Consumers -> Records \cup {None}]
          /\ position \in [Partitions -> Nat]
          /\ deliveries \in [Partitions -> 0 .. MaxDeliveries - 1]
          /\ faults \in Nat
      BY FaultTypes
    <3>1. /\ UNCHANGED <<log, owner, deadLetters, faults>>
          /\ pc' = [pc EXCEPT ![c] = "idle"]
          /\ current' = [current EXCEPT ![c] = None]
          /\ pc[c] \in {"ack", "saved"}
      BY <2>4 DEF Acknowledge, LeaveTo, storeVars
    <3>2. /\ ~Busy(c)'
          /\ \A d \in Consumers \ {c} : pc'[d] = pc[d] /\ current'[d] = current[d]
      BY <3>0, <3>1 DEF Busy, CallLabels
    <3>3. \/ UNCHANGED <<position, deliveries>>
          \/ /\ owner[current[c].part] = c
             /\ position' = [position EXCEPT ![current[c].part] = current[c].off + 1]
             /\ deliveries' = [deliveries EXCEPT ![current[c].part] = 0]
      BY <2>4 DEF Acknowledge
    <3>4. CASE owner[p] = c /\ deliveries'[p] = 0
      BY <3>0, <3>1, <3>2, <3>4, NextRecordPaid DEF FaultInv
    <3>5. CASE ~(owner[p] = c /\ deliveries'[p] = 0)
      <4>1. position'[p] = position[p] /\ deliveries'[p] = deliveries[p]
        <5>1. CASE p = current[c].part
          BY <3>0, <3>3, <3>5, <5>1
        <5>2. CASE p # current[c].part
          BY <3>0, <3>3, <5>2
        <5> QED BY <5>1, <5>2
      <4>2. CannotBeDeadLettered(p) => CannotBeDeadLettered(p)'
        BY <1>0, <4>1, DeadLetterabilityStays
      <4>3. ASSUME NEW d \in Consumers, RacesForRow(d, p)' PROVE RacesForRow(d, p)
        <5>1. d # c
          BY <3>2, <4>3 DEF RacesForRow
        <5> QED BY <1>0, <3>1, <3>2, <4>1, <4>3, <5>1, OtherRaces
      <4> QED BY <1>0, <3>1, <4>1, <4>2, <4>3 DEF DeliveriesPaid
    <3> QED BY <3>4, <3>5
  <2> QED BY <1>7, <2>1, <2>2, <2>3, <2>4 DEF ProcessMessage
<1>8. ASSUME NEW c \in Consumers, CallFails(c) PROVE DeliveriesPaid(p)'
  <2>1. Busy(c) /\ HandleError(c) /\ owner' = owner /\ faults' = faults + 1
    BY <1>8 DEF CallFails, Fault, Busy, CallLabels
  <2> QED BY <1>0, <2>1, FailedDeliveryPaid
<1>9. CASE UNCHANGED vars
  <2>1. UNCHANGED <<log, owner, position, deliveries, pc, current, deadLetters,
                    faults>>
    BY <1>9 DEF vars, brokerVars, consumerVars, storeVars
  <2>2. CannotBeDeadLettered(p) => CannotBeDeadLettered(p)'
    BY <1>0, <2>1, DeadLetterabilityStays
  <2>3. ASSUME NEW d \in Consumers, RacesForRow(d, p)' PROVE RacesForRow(d, p)
    BY <1>0, <2>1, <2>3, OtherRaces
  <2> QED BY <1>0, <2>1, <2>2, <2>3 DEF DeliveriesPaid
<1> QED BY <1>1, <1>2, <1>3, <1>4, <1>5, <1>6, <1>7, <1>8, <1>9 DEF Next

(* A partition is taken from a consumer by a fault only. *)
LEMMA FaultStep ==
    ASSUME TypeOK, [Next]_vars
    PROVE  /\ faults' \in {faults, faults + 1}
           /\ \A p \in Partitions : owner[p] # None /\ owner'[p] # owner[p] =>
                                      faults' = faults + 1
<1>0. owner \in [Partitions -> Consumers \cup {None}]
  BY DEF TypeOK
<1>1. ASSUME NEW c \in Consumers, NEW q \in Partitions, Assign(c, q)
      PROVE  /\ \A p \in Partitions : owner[p] # None => owner'[p] = owner[p]
             /\ faults' = faults
  BY <1>0, <1>1 DEF Assign
<1>2. ASSUME \/ \E q \in Partitions : Revoke(q)
             \/ \E c \in Consumers : Crash(c) \/ CallFails(c)
      PROVE  faults' = faults + 1
  BY <1>2 DEF Revoke, Crash, CallFails, Fault
<1>3. ASSUME NEW c \in Consumers, ProcessMessage(c) \/ Restart(c)
      PROVE  UNCHANGED <<owner, faults>>
  BY <1>3 DEF Restart, brokerVars, ProcessMessage, RecordProcessedEvent,
     ExistsResultForEventId, FailIfConfigured, RecordAndGetWindow,
     EvaluateRules, SaveResult, FindDeadLetter, SaveNewDeadLetter,
     SaveNewDeadLetterConflicts, PublishDeadLetter, Acknowledge
<1>4. ASSUME \/ \E e \in Events : Publish(e)
             \/ \E c \in Consumers, q \in Partitions : Poll(c, q)
      PROVE  UNCHANGED <<owner, faults>>
  BY <1>4 DEF Publish, Poll, brokerVars
<1>5. CASE UNCHANGED vars
  BY <1>5 DEF vars, brokerVars
<1> QED BY <1>1, <1>2, <1>3, <1>4, <1>5 DEF Next

LEMMA StragglerInvariant ==
    ASSUME TypeOK, TypeOK', FaultInv, [Next]_vars, NEW d \in Consumers
    PROVE  StragglerPaid(d)'
<1> SUFFICES ASSUME Busy(d)', owner'[current'[d].part] # d PROVE faults' > 0
  BY DEF StragglerPaid
<1>1. PICK p \in Partitions : p = current'[d].part
  BY DEF TypeOK, Records
<1>2. /\ faults \in Nat /\ None \notin Consumers
      /\ owner \in [Partitions -> Consumers \cup {None}]
  BY DEF TypeOK
<1>3. CASE owner[p] = d
  BY <1>1, <1>2, <1>3, FaultStep
<1>4. CASE owner[p] # d
  <2>1. Busy(d) /\ current'[d] = current[d]
    <3>1. ASSUME NEW c \in Consumers, QuietStep(c)
          PROVE  Busy(d) /\ current'[d] = current[d]
      <4>1. CASE d = c
        BY <1>1, <1>4, <3>1, <4>1 DEF QuietStep
      <4>2. CASE d # c
        BY <3>1, <4>2 DEF QuietStep, Busy
      <4> QED BY <4>1, <4>2
    <3>2. ASSUME UNCHANGED <<pc, current>>
          PROVE  Busy(d) /\ current'[d] = current[d]
      BY <3>2 DEF Busy
    <3>3. ASSUME NEW c \in Consumers, NEW label \in {"idle", "down"},
                 LeaveTo(c, label)
          PROVE  Busy(d) /\ current'[d] = current[d]
      BY <3>3, LeaveType DEF Busy
    <3>4. ASSUME \/ \E e \in Events : Publish(e)
                 \/ \E c \in Consumers, q \in Partitions : Assign(c, q)
                 \/ \E q \in Partitions : Revoke(q)
                 \/ UNCHANGED vars
          PROVE  UNCHANGED <<pc, current>>
      BY <3>4 DEF Publish, Assign, Revoke, vars, consumerVars
    <3>5. ASSUME NEW c \in Consumers, Restart(c) \/ \E q \in Partitions : Poll(c, q)
          PROVE  QuietStep(c)
      BY <3>5, QuietSteps
    <3>6. ASSUME NEW c \in Consumers, ProcessMessage(c)
          PROVE  QuietStep(c) \/ LeaveTo(c, "idle")
      <4>1. CASE \/ FailIfConfigured(c) \/ SaveNewDeadLetterConflicts(c)
                 \/ Acknowledge(c)
        BY <4>1 DEF FailIfConfigured, SaveNewDeadLetterConflicts, Acknowledge,
           HandleError
      <4> QED BY <3>6, <4>1, QuietSteps DEF ProcessMessage
    <3>7. ASSUME NEW c \in Consumers, CallFails(c) PROVE LeaveTo(c, "idle")
      BY <3>7 DEF CallFails, HandleError
    <3>8. ASSUME NEW c \in Consumers, Crash(c) PROVE LeaveTo(c, "down")
      BY <3>8 DEF Crash
    <3> QED BY <3>1, <3>2, <3>3, <3>4, <3>5, <3>6, <3>7, <3>8 DEF Next
  <2>2. faults > 0
    BY <1>1, <1>4, <2>1 DEF FaultInv, StragglerPaid
  <2> QED BY <1>2, <2>2, FaultStep
<1> QED BY <1>3, <1>4

(* What a step gives up was paid for: the stores reject the record, or the *)
(* faults used up its deliveries.                                          *)
LEMMA LossInvariant ==
    ASSUME TypeOK, TypeOK', ConsumerInv, FaultInv, DrillPoint = None,
           [Next]_vars, NEW r \in dropped'
    PROVE  LossPaid(r)'
<1>0. /\ StoresGrow
      /\ faults \in 0 .. MaxFaults /\ faults' \in 0 .. MaxFaults
      /\ faults <= faults'
  <2>1. faults \in 0 .. MaxFaults
    BY DEF TypeOK
  <2>2. faults' \in 0 .. MaxFaults
    BY DEF TypeOK
  <2>3. faults' \in {faults, faults + 1}
    BY FaultStep
  <2> QED BY <2>1, <2>2, <2>3, StepGrows
<1>1. ASSUME r \in Records, r.off < Len(log[r.part]),
             \/ EventAt(r) \in ResultRejects \cup DltRejects
             \/ faults' >= MaxDeliveries
      PROVE  LossPaid(r)'
  BY <1>0, <1>1, RecordStays DEF LossPaid
<1>2. CASE r \in dropped
  <2>1. LossPaid(r) /\ r \in Records
    BY <1>2 DEF FaultInv, TypeOK
  <2> QED BY <1>0, <1>1, <2>1 DEF LossPaid
<1>3. CASE r \notin dropped
  <2>1. ASSUME NEW c \in Consumers, SaveResult(c) PROVE LossPaid(r)'
    <3>1. /\ Busy(c) /\ results' = SavedBy(c)
          /\ r = current[c] /\ results'[Event(c)] = None
      BY <1>3, <2>1 DEF SaveResult, Busy, CallLabels
    <3>2. /\ r \in Records /\ r.off < Len(log[r.part])
          /\ Event(c) = EventAt(r)
          /\ results \in [Events -> Statuses \cup {None}]
          /\ status \in [Consumers -> Statuses]
      BY <3>1 DEF TypeOK, Event
    <3>3. EventAt(r) \in Events
      BY <1>0, <3>2, RecordStays
    <3>4. EventAt(r) \in ResultRejects
      BY <3>1, <3>2, <3>3 DEF SavedBy
    <3> QED BY <1>1, <3>2, <3>4
  <2>2. ASSUME NEW c \in Consumers, Busy(c), HandleError(c),
               \/ faults' = faults + 1
               \/ /\ faults' = faults
                  /\ pc[c] = "dltInsert" /\ ~CanInsertDeadLetter(c)
        PROVE  LossPaid(r)'
    <3>1. PICK p \in Partitions :
             /\ owner[p] = c /\ current[c] = Offset(p, position[p])
             /\ deliveries[p] + 1 = MaxDeliveries
             /\ dropped' = dropped \cup {current[c]}
      BY <1>3, <2>2, EveryHandlerStep
    <3>2. /\ r = current[c] /\ r = Offset(p, position[p]) /\ Event(c) = EventAt(r)
          /\ r \in Records /\ r.off < Len(log[r.part])
      BY <1>3, <2>2, <3>1, HeldRecord DEF Event
    <3>3. CASE EventAt(r) \in DltRejects
      BY <1>1, <3>2, <3>3
    <3>4. CASE EventAt(r) \notin DltRejects
      <4>1. ~CannotBeDeadLettered(p)
        BY <3>2, <3>4 DEF CannotBeDeadLettered
      <4>2. /\ deliveries[p] <= faults
            /\ RacesForRow(c, p) => deliveries[p] < faults
        BY <4>1 DEF FaultInv, DeliveriesPaid
      <4>3. deliveries[p] \in Nat
        BY DEF TypeOK
      <4>4. CASE faults' = faults + 1
        BY <1>0, <1>1, <3>1, <3>2, <4>2, <4>3, <4>4
      <4>5. CASE faults' = faults /\ pc[c] = "dltInsert" /\ ~CanInsertDeadLetter(c)
        <5>1. RacesForRow(c, p)
          BY <2>2, <3>1, <3>2, <3>4, <4>5 DEF RacesForRow, CanInsertDeadLetter
        <5> QED BY <1>0, <1>1, <3>1, <3>2, <4>2, <4>3, <4>5, <5>1
      <4> QED BY <2>2, <4>4, <4>5
    <3> QED BY <3>3, <3>4
  <2>3. ASSUME NEW c \in Consumers, ProcessMessage(c) PROVE LossPaid(r)'
    <3>1. CASE \/ RecordProcessedEvent(c) \/ ExistsResultForEventId(c)
               \/ RecordAndGetWindow(c) \/ EvaluateRules(c)
               \/ FindDeadLetter(c) \/ SaveNewDeadLetter(c)
               \/ PublishDeadLetter(c) \/ Acknowledge(c)
      <4>1. dropped' = dropped
        BY <3>1 DEF RecordProcessedEvent, ExistsResultForEventId,
           RecordAndGetWindow, EvaluateRules, FindDeadLetter,
           SaveNewDeadLetter, PublishDeadLetter, Acknowledge
      <4> QED BY <1>3, <4>1
    <3>2. CASE FailIfConfigured(c)
      BY <3>2, NoDrill DEF FailIfConfigured
    <3>3. CASE SaveNewDeadLetterConflicts(c)
      BY <2>2, <3>3 DEF SaveNewDeadLetterConflicts, Busy, CallLabels
    <3> QED BY <2>1, <2>3, <3>1, <3>2, <3>3 DEF ProcessMessage
  <2>4. ASSUME NEW c \in Consumers, CallFails(c) PROVE LossPaid(r)'
    BY <2>2, <2>4 DEF CallFails, Fault, Busy, CallLabels
  <2>5. ASSUME \/ \E e \in Events : Publish(e)
               \/ \E c \in Consumers, q \in Partitions : Assign(c, q) \/ Poll(c, q)
               \/ \E q \in Partitions : Revoke(q)
               \/ \E c \in Consumers : Crash(c) \/ Restart(c)
               \/ UNCHANGED vars
        PROVE  dropped' = dropped
    BY <2>5 DEF Publish, Assign, Poll, Revoke, Crash, Restart, vars
  <2> QED BY <1>3, <2>3, <2>4, <2>5 DEF Next
<1> QED BY <1>2, <1>3

(* Deliveries and faults agree in every reachable state. *)
LEMMA LossInvariantHolds == Spec => []LossInv
<1>1. Init => LossInv
  BY DEF Init, LossInv, FaultInv, DeliveriesPaid, StragglerPaid, RacesForRow, Busy,
         CallLabels
<1>2. TypeOK /\ TypeOK' /\ IInv /\ LossInv /\ [Next]_vars => LossInv'
  <2> SUFFICES ASSUME TypeOK, TypeOK', IInv, DrillPoint = None, FaultInv,
                      [Next]_vars
               PROVE  FaultInv'
    BY DEF LossInv
  <2> QED BY DeliveriesInvariant, StragglerInvariant, LossInvariant
             DEF FaultInv, IInv
<1> QED BY <1>1, <1>2, TypeCorrect, InductiveInvariant, PTL DEF Spec

(* With fewer faults than deliveries the pipeline gives up only records    *)
(* its tables reject, for any number of consumers, partitions, records and *)
(* rebalances (the error handler's deliveries, recordFailure).             *)
THEOREM LossNeedsFaults == Spec => []FewFaultsLoseNothing
<1>1. TypeOK /\ LossInv => FewFaultsLoseNothing
  <2> SUFFICES ASSUME TypeOK, LossInv, faults < MaxDeliveries, DrillPoint = None,
                      NEW r \in dropped
               PROVE  EventAt(r) \in ResultRejects \cup DltRejects
    BY DEF FewFaultsLoseNothing
  <2>1. LossPaid(r) /\ faults \in 0 .. MaxFaults
    BY DEF LossInv, FaultInv, TypeOK
  <2> QED BY <2>1 DEF LossPaid
<1> QED BY <1>1, TypeCorrect, LossInvariantHolds, PTL

-----------------------------------------------------------------------------
(* The copies in the dead-letter topic. *)

(* The count of stragglers is a number, before and after a step. *)
LEMMA StragglerCount ==
    ASSUME NEW r
    PROVE  /\ IsFiniteSet(Stragglers(r)) /\ Cardinality(Stragglers(r)) \in Nat
           /\ IsFiniteSet(Stragglers(r)') /\ Cardinality(Stragglers(r)') \in Nat
<1>1. IsFiniteSet(Consumers)
  BY ConsumerAssumption
<1>2. Stragglers(r) \subseteq Consumers /\ Stragglers(r)' \subseteq Consumers
  BY DEF Stragglers
<1> QED BY <1>1, <1>2, FS_Subset, FS_CardinalityType

(* What is counted, copies, faults and stragglers, are numbers. *)
LEMMA CountsAreNumbers ==
    ASSUME TypeOK, NEW r \in Records
    PROVE  /\ dltTopic[r] \in Nat /\ faults \in Nat
           /\ Cardinality(Stragglers(r)) \in Nat
           /\ Cardinality(Stragglers(r)') \in Nat
<1>1. dltTopic \in [Records -> Nat] /\ faults \in Nat
  BY ConsumerAssumption DEF TypeOK
<1> QED BY <1>1, StragglerCount

(* Stragglers that only leave are not more than before. *)
LEMMA FewerStragglers ==
    ASSUME NEW r, Stragglers(r)' \subseteq Stragglers(r)
    PROVE  Cardinality(Stragglers(r)') <= Cardinality(Stragglers(r))
BY StragglerCount, FS_Subset

(* What a consumer's own step does to the group: it keeps its record and   *)
(* makes another call, or leaves the listener; only the owner moves the    *)
(* position, and forward.                                                  *)
OwnStep(c) ==
    /\ Busy(c)
    /\ owner' = owner
    /\ \A d \in Consumers \ {c} : pc'[d] = pc[d] /\ current'[d] = current[d]
    /\ \/ pc'[c] = "idle"
       \/ pc[c] # "ack" /\ current'[c] = current[c]
    /\ \A p \in Partitions :
          /\ owner[p] # c => position'[p] = position[p] /\ committed'[p] = committed[p]
          /\ position[p] <= position'[p]

LEMMA LeavingStep ==
    ASSUME TypeOK, NEW c \in Consumers, Busy(c), LeaveTo(c, "idle")
    PROVE  /\ \A d \in Consumers \ {c} : pc'[d] = pc[d] /\ current'[d] = current[d]
           /\ pc'[c] = "idle"
BY DEF LeaveTo, TypeOK

LEMMA HandlerOwnStep ==
    ASSUME TypeOK, ConsumerInv, NEW c \in Consumers, Busy(c), HandleError(c),
           owner' = owner,
           \A p \in Partitions : owner[p] # c => committed'[p] = committed[p]
    PROVE  OwnStep(c)
<1>1. /\ \A d \in Consumers \ {c} : pc'[d] = pc[d] /\ current'[d] = current[d]
      /\ pc'[c] = "idle"
  BY LeavingStep DEF HandleError
<1>2. ASSUME NEW p \in Partitions
      PROVE  /\ owner[p] # c => position'[p] = position[p]
             /\ position[p] <= position'[p]
  <2>1. position \in [Partitions -> Nat]
    BY DEF TypeOK
  <2>2. CASE position' = position
    BY <2>1, <2>2
  <2>3. CASE /\ owner[current[c].part] = c
             /\ position' = [position EXCEPT ![current[c].part] = current[c].off + 1]
    <3>1. /\ current[c].part \in Partitions /\ current[c].off \in Nat
          /\ current[c].off = position[current[c].part]
      BY <2>3, HeldRecord
    <3> QED BY <2>1, <2>3, <3>1
  <2> QED BY <2>2, <2>3 DEF HandleError
<1> QED BY <1>1, <1>2 DEF OwnStep

LEMMA GotoOwnStep ==
    ASSUME TypeOK, NEW c \in Consumers, Busy(c), pc[c] # "ack",
           NEW label, Goto(c, label),
           UNCHANGED <<committed, owner, position, current>>
    PROVE  OwnStep(c)
<1>1. \A p \in Partitions : position[p] <= position'[p]
  BY DEF TypeOK
<1>2. \A d \in Consumers \ {c} : pc'[d] = pc[d]
  BY DEF Goto, TypeOK
<1> QED BY <1>1, <1>2 DEF OwnStep

(* A call of processMessage is the consumer's own step, and an owner that  *)
(* acknowledges leaves the record behind.                                  *)
LEMMA ProcessMessageOwnStep ==
    ASSUME TypeOK, ConsumerInv, NEW c \in Consumers, ProcessMessage(c)
    PROVE  /\ OwnStep(c)
           /\ pc[c] = "ack" /\ owner[current[c].part] = c =>
                 position'[current[c].part] = current[c].off + 1
<1>1. CASE \/ RecordProcessedEvent(c) \/ ExistsResultForEventId(c)
           \/ RecordAndGetWindow(c) \/ EvaluateRules(c) \/ SaveResult(c)
           \/ FindDeadLetter(c) \/ SaveNewDeadLetter(c) \/ PublishDeadLetter(c)
  <2>1. /\ Busy(c) /\ pc[c] # "ack"
        /\ UNCHANGED <<committed, owner, position, current>>
    BY <1>1 DEF RecordProcessedEvent, ExistsResultForEventId, RecordAndGetWindow,
       EvaluateRules, SaveResult, FindDeadLetter, SaveNewDeadLetter,
       PublishDeadLetter, brokerVars, Busy, CallLabels
  <2>2. \E label : Goto(c, label)
    BY <1>1 DEF RecordProcessedEvent, ExistsResultForEventId, RecordAndGetWindow,
       EvaluateRules, SaveResult, FindDeadLetter, SaveNewDeadLetter,
       PublishDeadLetter
  <2> QED BY <2>1, <2>2, GotoOwnStep
<1>2. CASE FailIfConfigured(c)
  <2>1. /\ Busy(c) /\ HandleError(c) /\ UNCHANGED <<committed, owner>>
        /\ PointBefore(pc[c]) = DrillPoint
    BY <1>2 DEF FailIfConfigured, DrillFires
  <2>2. pc[c] # "ack"
    <3>1. PointBefore("ack") = "NO_FAILURE_POINT"
      BY DEF PointBefore
    <3>2. DrillPoint # "NO_FAILURE_POINT"
      BY ConsumerAssumption DEF FailurePoints
    <3> QED BY <2>1, <3>1, <3>2
  <2> QED BY <2>1, <2>2, HandlerOwnStep
<1>3. CASE SaveNewDeadLetterConflicts(c)
  <2>1. /\ Busy(c) /\ HandleError(c) /\ UNCHANGED <<committed, owner>>
        /\ pc[c] # "ack"
    BY <1>3 DEF SaveNewDeadLetterConflicts, Busy, CallLabels
  <2> QED BY <2>1, HandlerOwnStep
<1>4. CASE Acknowledge(c)
  <2>1. Busy(c) /\ owner' = owner
    BY <1>4 DEF Acknowledge, Busy, CallLabels
  <2>2. /\ \A d \in Consumers \ {c} : pc'[d] = pc[d] /\ current'[d] = current[d]
        /\ pc'[c] = "idle"
    BY <1>4, <2>1, LeavingStep DEF Acknowledge
  <2>3. /\ position \in [Partitions -> Nat] /\ committed \in [Partitions -> Nat]
        /\ current[c].part \in Partitions /\ current[c].off \in Nat
        /\ owner[current[c].part] = c =>
              current[c].off = position[current[c].part]
    BY <2>1, HeldRecord DEF TypeOK
  <2>4. CASE owner[current[c].part] = c
    <3>1. /\ position' = [position EXCEPT ![current[c].part] = current[c].off + 1]
          /\ committed' = [committed EXCEPT ![current[c].part] = current[c].off + 1]
      BY <1>4, <2>4 DEF Acknowledge, CommittedBy
    <3> QED BY <2>1, <2>2, <2>3, <2>4, <3>1 DEF OwnStep
  <2>5. CASE owner[current[c].part] # c
    <3>1. position' = position /\ committed' = committed
      BY <1>4, <2>5 DEF Acknowledge, CommittedBy
    <3> QED BY <2>1, <2>2, <2>3, <2>5, <3>1 DEF OwnStep
  <2> QED BY <2>4, <2>5
<1> QED BY <1>1, <1>2, <1>3, <1>4 DEF ProcessMessage

LEMMA CallFailsOwnStep ==
    ASSUME TypeOK, ConsumerInv, NEW c \in Consumers, CallFails(c)
    PROVE  OwnStep(c)
<1>1. /\ Busy(c) /\ HandleError(c) /\ owner' = owner
      /\ committed' \in {committed, CommittedBy(c)}
  BY DEF CallFails, Busy, CallLabels
<1>2. \A p \in Partitions : owner[p] # c => committed'[p] = committed[p]
  BY <1>1 DEF CommittedBy, TypeOK
<1> QED BY <1>1, <1>2, HandlerOwnStep

(* A consumer's own step makes nobody a straggler. *)
LEMMA OwnStepStragglers ==
    ASSUME TypeOK, NEW c \in Consumers, OwnStep(c), NEW r \in Records
    PROVE  Stragglers(r)' \subseteq Stragglers(r)
<1> SUFFICES ASSUME NEW d \in Consumers, d \in Stragglers(r)'
             PROVE  d \in Stragglers(r)
  BY DEF Stragglers
<1>1. /\ pc'[d] \in CallLabels /\ pc'[d] # "ack"
      /\ current'[d] = r /\ owner'[r.part] # d
  BY DEF Stragglers, Busy
<1>2. "idle" \notin CallLabels
  BY DEF CallLabels
<1>3. /\ owner[r.part] # d
      /\ current[d] = r /\ pc[d] # "ack" /\ pc[d] \in CallLabels
  BY <1>1, <1>2 DEF OwnStep, Busy
<1> QED BY <1>3 DEF Stragglers, Busy

(* Nor does it bring back a record the group had dealt with, when an owner *)
(* that was about to acknowledge the record has moved past it.             *)
LEMMA OwnStepStillToCome ==
    ASSUME TypeOK, TypeOK', NEW c \in Consumers, OwnStep(c), NEW r \in Records,
           \/ ~(pc[c] = "ack" /\ current[c] = r /\ owner[r.part] = c)
           \/ position'[r.part] = r.off + 1,
           StillToCome(r)'
    PROVE  StillToCome(r)
<1>0. /\ r.part \in Partitions /\ r.off \in Nat
      /\ position[r.part] \in Nat /\ position'[r.part] \in Nat
      /\ owner[r.part] \in Consumers \cup {None}
      /\ owner'[r.part] = owner[r.part]
  BY DEF Records, TypeOK, OwnStep
<1>1. CASE owner[r.part] = None
  <2>1. owner[r.part] # c
    BY <1>1, ConsumerAssumption
  <2> QED BY <1>0, <1>1, <2>1 DEF StillToCome, OwnStep
<1>2. CASE owner[r.part] = c
  <2>1. position'[r.part] <= r.off
    BY <1>0, <1>2, ConsumerAssumption DEF StillToCome
  <2>2. position[r.part] <= r.off
    BY <1>0, <2>1 DEF OwnStep
  <2>3. ~(pc[c] = "ack" /\ current[c] = r)
    BY <1>0, <1>2, <2>1
  <2> QED BY <1>2, <2>2, <2>3, ConsumerAssumption DEF StillToCome
<1>3. CASE owner[r.part] \in Consumers \ {c}
  BY <1>0, <1>3, ConsumerAssumption DEF StillToCome, OwnStep
<1> QED BY <1>0, <1>1, <1>2, <1>3

(* The arithmetic of a step that publishes nothing: nobody becomes a       *)
(* straggler, and a record that comes back is paid for with a fault.       *)
LEMMA NoCopyPaid ==
    ASSUME TypeOK, TypeOK', NEW r \in Records, CopiesPaid(r),
           dltTopic' = dltTopic,
           Stragglers(r)' \subseteq Stragglers(r),
           \/ faults' = faults /\ (StillToCome(r)' => StillToCome(r))
           \/ faults' = faults + 1
    PROVE  CopiesPaid(r)'
<1>1. /\ dltTopic[r] \in Nat /\ faults \in Nat
      /\ Cardinality(Stragglers(r)) \in Nat /\ Cardinality(Stragglers(r)') \in Nat
      /\ Cardinality(Stragglers(r)') <= Cardinality(Stragglers(r))
  BY CountsAreNumbers, FewerStragglers
<1>2. dltTopic'[r] = dltTopic[r]
  OBVIOUS
<1>3. dltTopic[r] + Cardinality(Stragglers(r))
                  + (IF StillToCome(r) THEN 1 ELSE 0) <= 1 + faults
  BY DEF CopiesPaid
<1>4. dltTopic'[r] + Cardinality(Stragglers(r)')
                   + (IF StillToCome(r)' THEN 1 ELSE 0) <= 1 + faults'
  BY <1>1, <1>2, <1>3
<1> QED BY <1>4 DEF CopiesPaid

(* The arithmetic of a copy: the consumer that published it was a          *)
(* straggler and is none any more, or was the owner and is about to        *)
(* acknowledge, or its call failed.                                        *)
LEMMA CopyPaid ==
    ASSUME TypeOK, TypeOK', NEW c \in Consumers, NEW r \in Records, CopiesPaid(r),
           dltTopic' = WithCopyOf(r),
           Stragglers(r)' \subseteq Stragglers(r),
           StillToCome(r)' => StillToCome(r),
           \/ faults' = faults + 1
           \/ faults' = faults /\ c \in Stragglers(r) /\ c \notin Stragglers(r)'
           \/ faults' = faults /\ StillToCome(r) /\ ~StillToCome(r)'
    PROVE  CopiesPaid(r)'
<1>1. /\ dltTopic[r] \in Nat /\ faults \in Nat
      /\ Cardinality(Stragglers(r)) \in Nat /\ Cardinality(Stragglers(r)') \in Nat
      /\ Cardinality(Stragglers(r)') <= Cardinality(Stragglers(r))
  BY CountsAreNumbers, FewerStragglers
<1>2. dltTopic'[r] = dltTopic[r] + 1
  BY CopyGrows
<1>3. dltTopic[r] + Cardinality(Stragglers(r))
                  + (IF StillToCome(r) THEN 1 ELSE 0) <= 1 + faults
  BY DEF CopiesPaid
<1>4. ASSUME c \in Stragglers(r), c \notin Stragglers(r)'
      PROVE  Cardinality(Stragglers(r)') <= Cardinality(Stragglers(r)) - 1
  <2>1. Stragglers(r)' \subseteq Stragglers(r) \ {c}
    BY <1>4
  <2>2. /\ IsFiniteSet(Stragglers(r) \ {c})
        /\ Cardinality(Stragglers(r) \ {c}) = Cardinality(Stragglers(r)) - 1
    BY <1>4, StragglerCount, FS_RemoveElement
  <2> QED BY <2>1, <2>2, FS_Subset
<1>5. dltTopic'[r] + Cardinality(Stragglers(r)')
                   + (IF StillToCome(r)' THEN 1 ELSE 0) <= 1 + faults'
  <2>1. CASE faults' = faults + 1
    BY <1>1, <1>2, <1>3, <2>1
  <2>2. CASE faults' = faults /\ c \in Stragglers(r) /\ c \notin Stragglers(r)'
    BY <1>1, <1>2, <1>3, <1>4, <2>2
  <2>3. CASE faults' = faults /\ StillToCome(r) /\ ~StillToCome(r)'
    BY <1>1, <1>2, <1>3, <2>3
  <2> QED BY <2>1, <2>2, <2>3
<1> QED BY <1>5 DEF CopiesPaid

(* A revoked owner may become a straggler of the record it holds: before,  *)
(* that record was still to come.                                          *)
LEMMA RevokePaid ==
    ASSUME TypeOK, TypeOK', ConsumerInv, NEW p \in Partitions, Revoke(p),
           NEW r \in Records, CopiesPaid(r)
    PROVE  CopiesPaid(r)'
<1>1. /\ faults' = faults + 1 /\ owner[p] # None
      /\ owner' = [owner EXCEPT ![p] = None]
      /\ UNCHANGED <<pc, current, dltTopic>>
  BY DEF Revoke, Fault, consumerVars, storeVars
<1>2. CASE Stragglers(r)' \subseteq Stragglers(r)
  BY <1>1, <1>2, NoCopyPaid
<1>3. CASE ~(Stragglers(r)' \subseteq Stragglers(r))
  <2>1. PICK c \in Consumers : c \in Stragglers(r)' /\ c \notin Stragglers(r)
    BY <1>3 DEF Stragglers
  <2>2. Busy(c) /\ pc[c] # "ack" /\ current[c] = r /\ owner[r.part] = c
    BY <1>1, <2>1 DEF Stragglers, Busy
  <2>3. StillToCome(r)
    <3>1. r.off = position[r.part] /\ position[r.part] \in Nat
      BY <2>2, HeldRecord DEF TypeOK
    <3> QED BY <2>2, <3>1, ConsumerAssumption DEF StillToCome
  <2>4. Stragglers(r)' \subseteq Stragglers(r) \cup {c}
    <3> SUFFICES ASSUME NEW d \in Consumers, d \in Stragglers(r)', d # c
                 PROVE  d \in Stragglers(r)
      BY DEF Stragglers
    <3>1. Busy(d) /\ pc[d] # "ack" /\ current[d] = r /\ owner[r.part] # d
      BY <1>1, <2>2 DEF Stragglers, Busy
    <3> QED BY <3>1 DEF Stragglers
  <2>5. Cardinality(Stragglers(r)') <= Cardinality(Stragglers(r)) + 1
    <3>1. /\ IsFiniteSet(Stragglers(r) \cup {c})
          /\ Cardinality(Stragglers(r) \cup {c}) = Cardinality(Stragglers(r)) + 1
      BY <2>1, StragglerCount, FS_AddElement
    <3> QED BY <2>4, <3>1, FS_Subset
  <2>6. /\ dltTopic[r] \in Nat /\ faults \in Nat /\ dltTopic'[r] = dltTopic[r]
        /\ Cardinality(Stragglers(r)) \in Nat /\ Cardinality(Stragglers(r)') \in Nat
    BY <1>1, CountsAreNumbers
  <2>7. dltTopic[r] + Cardinality(Stragglers(r)) + 1 <= 1 + faults
    BY <2>3 DEF CopiesPaid
  <2>8. CASE ~StillToCome(r)'
    BY <1>1, <2>5, <2>6, <2>7, <2>8 DEF CopiesPaid
  <2>9. CASE StillToCome(r)'
    BY <1>1, <2>5, <2>6, <2>7, <2>9 DEF CopiesPaid
  <2> QED BY <2>8, <2>9
<1> QED BY <1>2, <1>3

(* A crash makes nobody a straggler either. *)
LEMMA CrashPaid ==
    ASSUME TypeOK, TypeOK', NEW c \in Consumers, Crash(c),
           NEW r \in Records, CopiesPaid(r)
    PROVE  CopiesPaid(r)'
<1>1. /\ faults' = faults + 1 /\ dltTopic' = dltTopic
      /\ pc' = [pc EXCEPT ![c] = "down"]
      /\ current' = [current EXCEPT ![c] = None]
      /\ owner' = [p \in Partitions |-> IF owner[p] = c THEN None ELSE owner[p]]
  BY DEF Crash, Fault, LeaveTo, storeVars
<1>2. "down" \notin CallLabels
  BY DEF CallLabels
<1>3. ASSUME NEW d \in Consumers, d \in Stragglers(r)' PROVE d \in Stragglers(r)
  <2>1. /\ pc'[d] \in CallLabels /\ pc'[d] # "ack"
        /\ current'[d] = r /\ owner'[r.part] # d
    BY <1>3 DEF Stragglers, Busy
  <2>2. d # c
    BY <1>1, <1>2, <2>1 DEF TypeOK
  <2>3. pc[d] = pc'[d] /\ current[d] = r
    BY <1>1, <2>1, <2>2 DEF TypeOK
  <2>4. r.part \in Partitions
    BY DEF Records
  <2>5. owner[r.part] # d
    BY <1>1, <2>1, <2>2, <2>4
  <2> QED BY <2>1, <2>3, <2>5 DEF Stragglers, Busy
<1>4. Stragglers(r)' \subseteq Stragglers(r)
  BY <1>3 DEF Stragglers
<1> QED BY <1>1, <1>4, NoCopyPaid

(* A new assignment, a poll and a restart change neither who is a          *)
(* straggler nor what is still to come.                                    *)
LEMMA GroupStepPaid ==
    ASSUME TypeOK, TypeOK', NEW r \in Records, CopiesPaid(r),
           \/ \E c \in Consumers, p \in Partitions : Assign(c, p) \/ Poll(c, p)
           \/ \E c \in Consumers : Restart(c)
    PROVE  CopiesPaid(r)'
<1>0. /\ r.part \in Partitions
      /\ pc \in [Consumers -> CallLabels \cup {"idle", "down"}]
      /\ owner \in [Partitions -> Consumers \cup {None}]
      /\ position \in [Partitions -> Nat] /\ committed \in [Partitions -> Nat]
      /\ current \in [Consumers -> Records \cup {None}]
  BY DEF Records, TypeOK
<1>1. dltTopic' = dltTopic /\ faults' = faults
  BY DEF Assign, Poll, Restart, storeVars
<1>2. ASSUME NEW c \in Consumers, NEW p \in Partitions, Assign(c, p)
      PROVE  /\ Stragglers(r)' \subseteq Stragglers(r)
             /\ StillToCome(r)' => StillToCome(r)
  <2>1. /\ owner[p] = None /\ pc[c] = "idle"
        /\ owner' = [owner EXCEPT ![p] = c]
        /\ position' = [position EXCEPT ![p] = committed[p]]
        /\ UNCHANGED <<committed, pc, current>>
    BY <1>2 DEF Assign, consumerVars
  <2>2. Stragglers(r)' \subseteq Stragglers(r)
    <3> SUFFICES ASSUME NEW d \in Consumers, d \in Stragglers(r)'
                 PROVE  d \in Stragglers(r)
      BY DEF Stragglers
    <3>1. /\ pc[d] \in CallLabels /\ pc[d] # "ack" /\ current[d] = r
          /\ owner'[r.part] # d
      BY <2>1 DEF Stragglers, Busy
    <3>2. owner[r.part] # d
      BY <1>0, <2>1, <3>1, ConsumerAssumption
    <3> QED BY <3>1, <3>2 DEF Stragglers, Busy
  <2>3. CASE r.part = p
    <3>1. owner'[r.part] = c /\ position'[r.part] = committed[r.part]
      BY <1>0, <2>1, <2>3
    <3> QED BY <2>1, <2>2, <2>3, <3>1, ConsumerAssumption DEF StillToCome
  <2>4. CASE r.part # p
    <3>1. owner'[r.part] = owner[r.part] /\ position'[r.part] = position[r.part]
      BY <1>0, <2>1, <2>4
    <3> QED BY <2>1, <2>2, <3>1 DEF StillToCome
  <2> QED BY <2>3, <2>4
<1>3. ASSUME NEW c \in Consumers, UNCHANGED <<owner, position, committed>>,
             pc[c] \in {"idle", "down"}, pc'[c] \in {"idle", "log"},
             \A d \in Consumers \ {c} : pc'[d] = pc[d] /\ current'[d] = current[d],
             pc'[c] = "log" => owner[current'[c].part] = c
      PROVE  /\ Stragglers(r)' \subseteq Stragglers(r)
             /\ StillToCome(r)' => StillToCome(r)
  <2>1. Stragglers(r)' \subseteq Stragglers(r)
    <3> SUFFICES ASSUME NEW d \in Consumers, d \in Stragglers(r)'
                 PROVE  d \in Stragglers(r)
      BY DEF Stragglers
    <3>1. /\ pc'[d] \in CallLabels /\ pc'[d] # "ack" /\ current'[d] = r
          /\ owner[r.part] # d
      BY <1>3 DEF Stragglers, Busy
    <3>2. d # c
      BY <1>3, <3>1 DEF CallLabels
    <3> QED BY <1>3, <3>1, <3>2 DEF Stragglers, Busy
  <2>2. ASSUME StillToCome(r)' PROVE StillToCome(r)
    <3>1. CASE owner[r.part] = c
      <4>1. position[r.part] <= r.off
        BY <1>3, <2>2, <3>1, ConsumerAssumption DEF StillToCome
      <4> QED BY <1>3, <3>1, <4>1, ConsumerAssumption DEF StillToCome
    <3>2. CASE owner[r.part] = None
      BY <1>3, <2>2, <3>2 DEF StillToCome
    <3>3. CASE owner[r.part] \in Consumers \ {c}
      BY <1>3, <2>2, <3>3, ConsumerAssumption DEF StillToCome
    <3> QED BY <1>0, <3>1, <3>2, <3>3
  <2> QED BY <2>1, <2>2
<1>4. ASSUME NEW c \in Consumers, NEW p \in Partitions, Poll(c, p)
      PROVE  /\ Stragglers(r)' \subseteq Stragglers(r)
             /\ StillToCome(r)' => StillToCome(r)
  <2>1. /\ UNCHANGED <<owner, position, committed>>
        /\ pc[c] = "idle" /\ owner[p] = c
        /\ pc' = [pc EXCEPT ![c] = "log"]
        /\ current' = [current EXCEPT ![c] = [part |-> p, off |-> position[p]]]
    BY <1>4 DEF Poll, brokerVars
  <2>2. /\ pc'[c] = "log" /\ current'[c].part = p
        /\ \A d \in Consumers \ {c} : pc'[d] = pc[d] /\ current'[d] = current[d]
    BY <1>0, <2>1
  <2> QED BY <1>3, <2>1, <2>2
<1>5. ASSUME NEW c \in Consumers, Restart(c)
      PROVE  /\ Stragglers(r)' \subseteq Stragglers(r)
             /\ StillToCome(r)' => StillToCome(r)
  <2>1. /\ UNCHANGED <<owner, position, committed, current>>
        /\ pc[c] = "down" /\ pc' = [pc EXCEPT ![c] = "idle"]
    BY <1>5 DEF Restart, brokerVars
  <2>2. /\ pc'[c] = "idle"
        /\ \A d \in Consumers \ {c} : pc'[d] = pc[d] /\ current'[d] = current[d]
    BY <1>0, <2>1
  <2> QED BY <1>3, <2>1, <2>2
<1>6. /\ Stragglers(r)' \subseteq Stragglers(r)
      /\ StillToCome(r)' => StillToCome(r)
  BY <1>2, <1>4, <1>5
<1> QED BY <1>1, <1>6, NoCopyPaid

(* The only call that publishes comes before the acknowledgment, and when  *)
(* it succeeds nothing more is to come from this consumer.                 *)
LEMMA ProcessMessagePaid ==
    ASSUME TypeOK, TypeOK', ConsumerInv, NEW c \in Consumers, ProcessMessage(c),
           NEW r \in Records, CopiesPaid(r)
    PROVE  CopiesPaid(r)'
<1>1. /\ OwnStep(c)
      /\ pc[c] = "ack" /\ owner[current[c].part] = c =>
            position'[current[c].part] = current[c].off + 1
  BY ProcessMessageOwnStep
<1>2. Stragglers(r)' \subseteq Stragglers(r)
  BY <1>1, OwnStepStragglers
<1>3. StillToCome(r)' => StillToCome(r)
  BY <1>1, OwnStepStillToCome
<1>4. faults' = faults
  BY DEF ProcessMessage, RecordProcessedEvent, ExistsResultForEventId,
     FailIfConfigured, RecordAndGetWindow, EvaluateRules, SaveResult,
     FindDeadLetter, SaveNewDeadLetter, SaveNewDeadLetterConflicts,
     PublishDeadLetter, Acknowledge
<1>5. CASE dltTopic' = dltTopic
  BY <1>2, <1>3, <1>4, <1>5, NoCopyPaid
<1>6. CASE PublishDeadLetter(c)
  <2>1. /\ pc[c] = "dltPublish" /\ pc' = [pc EXCEPT ![c] = "ack"]
        /\ UNCHANGED <<owner, current, position>>
        /\ dltTopic' = WithCopyOf(current[c])
    BY <1>6 DEF PublishDeadLetter, Goto, brokerVars
  <2>2. pc'[c] = "ack"
    BY <2>1 DEF TypeOK
  <2>3. CASE r # current[c]
    <3>1. dltTopic'[r] = dltTopic[r]
      BY <2>1, <2>3, CopyGrows
    <3>2. /\ dltTopic[r] \in Nat /\ faults \in Nat
          /\ Cardinality(Stragglers(r)) \in Nat /\ Cardinality(Stragglers(r)') \in Nat
          /\ Cardinality(Stragglers(r)') <= Cardinality(Stragglers(r))
      BY <1>2, CountsAreNumbers, FewerStragglers
    <3>3. dltTopic[r] + Cardinality(Stragglers(r))
                      + (IF StillToCome(r) THEN 1 ELSE 0) <= 1 + faults
      BY DEF CopiesPaid
    <3>4. dltTopic'[r] + Cardinality(Stragglers(r)')
                       + (IF StillToCome(r)' THEN 1 ELSE 0) <= 1 + faults'
      BY <1>3, <1>4, <3>1, <3>2, <3>3
    <3> QED BY <3>4 DEF CopiesPaid
  <2>4. CASE r = current[c] /\ owner[r.part] = c
    <3>1. r.off = position[r.part] /\ position[r.part] \in Nat
      BY <1>1, <2>4, HeldRecord DEF OwnStep, TypeOK
    <3>2. StillToCome(r)
      BY <2>1, <2>4, <3>1, ConsumerAssumption DEF StillToCome
    <3>3. ~StillToCome(r)'
      BY <2>1, <2>2, <2>4, ConsumerAssumption DEF StillToCome
    <3> QED BY <1>2, <1>3, <1>4, <2>1, <2>4, <3>2, <3>3, CopyPaid
  <2>5. CASE r = current[c] /\ owner[r.part] # c
    <3>1. c \in Stragglers(r)
      BY <2>1, <2>5 DEF Stragglers, Busy, CallLabels
    <3>2. c \notin Stragglers(r)'
      BY <2>2 DEF Stragglers
    <3> QED BY <1>2, <1>3, <1>4, <2>1, <2>5, <3>1, <3>2, CopyPaid
  <2> QED BY <2>3, <2>4, <2>5
<1>7. dltTopic' = dltTopic \/ PublishDeadLetter(c)
  BY DEF ProcessMessage, RecordProcessedEvent, ExistsResultForEventId,
     FailIfConfigured, RecordAndGetWindow, EvaluateRules, SaveResult,
     FindDeadLetter, SaveNewDeadLetter, SaveNewDeadLetterConflicts,
     Acknowledge, storeVars
<1> QED BY <1>5, <1>6, <1>7

(* A publication that fails is a fault, which pays for the copy or for the *)
(* redelivery.                                                             *)
LEMMA CallFailsPaid ==
    ASSUME TypeOK, TypeOK', ConsumerInv, NEW c \in Consumers, CallFails(c),
           NEW r \in Records, CopiesPaid(r)
    PROVE  CopiesPaid(r)'
<1>1. /\ faults' = faults + 1 /\ OwnStep(c)
  BY CallFailsOwnStep DEF CallFails, Fault
<1>2. Stragglers(r)' \subseteq Stragglers(r)
  BY <1>1, OwnStepStragglers
<1>3. \/ dltTopic' = dltTopic
      \/ pc[c] = "dltPublish" /\ dltTopic' = WithCopyOf(current[c])
  BY DEF CallFails
<1>4. CASE dltTopic' = dltTopic
  BY <1>1, <1>2, <1>4, NoCopyPaid
<1>5. CASE pc[c] = "dltPublish" /\ dltTopic' = WithCopyOf(current[c])
  <2>1. StillToCome(r)' => StillToCome(r)
    BY <1>1, <1>5, OwnStepStillToCome
  <2>2. CASE r = current[c]
    BY <1>1, <1>2, <1>5, <2>1, <2>2, CopyPaid
  <2>3. CASE r # current[c]
    <3>1. dltTopic'[r] = dltTopic[r]
      BY <1>5, <2>3, CopyGrows
    <3>2. /\ dltTopic[r] \in Nat /\ faults \in Nat
          /\ Cardinality(Stragglers(r)) \in Nat /\ Cardinality(Stragglers(r)') \in Nat
          /\ Cardinality(Stragglers(r)') <= Cardinality(Stragglers(r))
      BY <1>2, CountsAreNumbers, FewerStragglers
    <3>3. dltTopic[r] + Cardinality(Stragglers(r))
                      + (IF StillToCome(r) THEN 1 ELSE 0) <= 1 + faults
      BY DEF CopiesPaid
    <3>4. dltTopic'[r] + Cardinality(Stragglers(r)')
                       + (IF StillToCome(r)' THEN 1 ELSE 0) <= 1 + faults'
      BY <1>1, <2>1, <3>1, <3>2, <3>3
    <3> QED BY <3>4 DEF CopiesPaid
  <2> QED BY <2>2, <2>3
<1> QED BY <1>3, <1>4, <1>5

(* Copies, what is still to come and faults agree in every reachable state. *)
LEMMA CopiesInvariantHolds == Spec => []CopiesInv
<1>1. Init => CopiesInv
  <2> SUFFICES ASSUME Init, NEW r \in Records PROVE CopiesPaid(r)
    BY DEF CopiesInv
  <2>1. dltTopic[r] = 0 /\ faults = 0
    BY DEF Init
  <2>2. Stragglers(r) = {}
    BY DEF Init, Stragglers, Busy, CallLabels
  <2>3. Cardinality(Stragglers(r)) = 0
    BY <2>2, FS_EmptySet
  <2> QED BY <2>1, <2>3 DEF CopiesPaid
<1>2. TypeOK /\ TypeOK' /\ IInv /\ CopiesInv /\ [Next]_vars => CopiesInv'
  <2> SUFFICES ASSUME TypeOK, TypeOK', IInv, CopiesInv, [Next]_vars,
                      NEW r \in Records
               PROVE  CopiesPaid(r)'
    BY DEF CopiesInv
  <2>0. CopiesPaid(r) /\ ConsumerInv
    BY DEF CopiesInv, IInv
  <2>1. CASE (\E e \in Events : Publish(e)) \/ UNCHANGED vars
    <3>1. UNCHANGED <<dltTopic, faults, pc, current, owner, position, committed>>
      BY <2>1 DEF Publish, vars, brokerVars, consumerVars, storeVars
    <3> QED BY <2>0, <3>1 DEF CopiesPaid, Stragglers, StillToCome, Busy
  <2>2. CASE \/ \E c \in Consumers, p \in Partitions : Assign(c, p) \/ Poll(c, p)
             \/ \E c \in Consumers : Restart(c)
    BY <2>0, <2>2, GroupStepPaid
  <2>3. ASSUME NEW p \in Partitions, Revoke(p) PROVE CopiesPaid(r)'
    BY <2>0, <2>3, RevokePaid
  <2>4. ASSUME NEW c \in Consumers, Crash(c) PROVE CopiesPaid(r)'
    BY <2>0, <2>4, CrashPaid
  <2>5. ASSUME NEW c \in Consumers, ProcessMessage(c) PROVE CopiesPaid(r)'
    BY <2>0, <2>5, ProcessMessagePaid
  <2>6. ASSUME NEW c \in Consumers, CallFails(c) PROVE CopiesPaid(r)'
    BY <2>0, <2>6, CallFailsPaid
  <2> QED BY <2>1, <2>2, <2>3, <2>4, <2>5, <2>6 DEF Next
<1> QED BY <1>1, <1>2, TypeCorrect, InductiveInvariant, PTL DEF Spec

(* The dead-letter topic holds a record once, and once more per fault at   *)
(* most, for any number of consumers, partitions and records and every     *)
(* delivery limit (recordDeadLetterAndAcknowledge, the error handler).     *)
THEOREM CopiesNeedFaults == Spec => []DeadLetterCopiesArePaid
<1>1. TypeOK /\ CopiesInv => DeadLetterCopiesArePaid
  <2> SUFFICES ASSUME TypeOK, CopiesInv, NEW r \in Records
               PROVE  dltTopic[r] <= 1 + faults
    BY DEF DeadLetterCopiesArePaid
  <2>1. /\ dltTopic[r] \in Nat /\ faults \in Nat
        /\ Cardinality(Stragglers(r)) \in Nat
    BY CountsAreNumbers
  <2>2. dltTopic[r] + Cardinality(Stragglers(r))
                    + (IF StillToCome(r) THEN 1 ELSE 0) <= 1 + faults
    BY DEF CopiesInv, CopiesPaid
  <2> QED BY <2>1, <2>2
<1> QED BY <1>1, TypeCorrect, CopiesInvariantHolds, PTL

(* Types, positions, commits, the consumers' progress and what losses and  *)
(* dead-letter copies have cost in faults agree in every reachable state   *)
(* (onMessage, processMessage, rebalance).                                 *)
THEOREM ConsumerInvariantHolds == Spec => []Inv
BY TypeCorrect, InductiveInvariant, LossInvariantHolds, CopiesInvariantHolds,
   PTL DEF Inv
=============================================================================
