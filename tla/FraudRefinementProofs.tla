------------------------ MODULE FraudRefinementProofs ------------------------
(***************************************************************************)
(* The consumer pipeline implements FraudOutcome, for every set of events, *)
(* partitions and consumers: each of its steps is a step of the promise.   *)
(***************************************************************************)
EXTENDS FraudConsumerProofs

(* Every event is in the partition of its key (the API sends with userId). *)
KeyInv ==
    \A p \in Partitions : \A i \in 1 .. Len(log[p]) : PartitionOf[log[p][i]] = p

(* Only a publication changes the topic. *)
LEMMA LogStep ==
    ASSUME TypeOK, [Next]_vars, log' # log
    PROVE  \E e \in Events : Publish(e)
BY DEF Next, vars, brokerVars, Publish, Assign, Revoke, Crash, Restart, Poll,
   ProcessMessage, RecordProcessedEvent, ExistsResultForEventId,
   FailIfConfigured, RecordAndGetWindow, EvaluateRules, SaveResult,
   FindDeadLetter, SaveNewDeadLetter, SaveNewDeadLetterConflicts,
   PublishDeadLetter, Acknowledge, CallFails

LEMMA KeyInvariant == Spec => []KeyInv
<1>1. Init => KeyInv
  BY DEF Init, KeyInv
<1>2. TypeOK /\ KeyInv /\ [Next]_vars => KeyInv'
  <2> SUFFICES ASSUME TypeOK, KeyInv, [Next]_vars PROVE KeyInv'
    OBVIOUS
  <2>1. CASE log' = log
    BY <2>1 DEF KeyInv
  <2>2. CASE log' # log
    <3>1. PICK e \in Events : Publish(e)
      BY <2>2, LogStep
    <3>2. /\ PartitionOf[e] \in Partitions
          /\ log' = [log EXCEPT ![PartitionOf[e]] = Append(@, e)]
          /\ log \in [Partitions -> Seq(Events)]
      BY <3>1, ConsumerAssumption DEF Publish, TypeOK
    <3> SUFFICES ASSUME NEW p \in Partitions, NEW i \in 1 .. Len(log'[p])
                 PROVE  PartitionOf[log'[p][i]] = p
      BY DEF KeyInv
    <3>3. CASE p = PartitionOf[e]
      <4>1. log'[p] = Append(log[p], e)
        BY <3>2, <3>3
      <4>2. \/ i \in 1 .. Len(log[p]) /\ log'[p][i] = log[p][i]
            \/ log'[p][i] = e
        BY <3>2, <4>1
      <4> QED BY <3>3, <4>2 DEF KeyInv
    <3>4. CASE p # PartitionOf[e]
      BY <3>2, <3>4 DEF KeyInv
    <3> QED BY <3>3, <3>4
  <2> QED BY <2>1, <2>2
<1> QED BY <1>1, <1>2, TypeCorrect, PTL DEF Spec

(* What a step may add to results, dead letters and records given up is    *)
(* the record a consumer processes.                                        *)
OutcomeStep(c) ==
    /\ Busy(c)
    /\ results' \in {results, SavedBy(c)}
    /\ deadLetters' \in {deadLetters, deadLetters \cup {current[c]}}
    /\ dltTopic' \in {dltTopic, WithCopyOf(current[c])}
    /\ dropped' \in {dropped, dropped \cup {current[c]}}
    /\ committed' # committed =>
          pc[c] \in {"saved", "ack"} /\ committed' = CommittedBy(c)

LEMMA HandleErrorDropped ==
    ASSUME NEW c \in Consumers, HandleError(c)
    PROVE  dropped' \in {dropped, dropped \cup {current[c]}}
BY DEF HandleError

LEMMA EveryOutcomeStep ==
    ASSUME TypeOK, [Next]_vars, log' = log
    PROVE  \/ UNCHANGED <<results, deadLetters, dltTopic, dropped, committed>>
           \/ \E c \in Consumers : OutcomeStep(c)
<1>1. CASE \/ \E c \in Consumers, p \in Partitions : Assign(c, p) \/ Poll(c, p)
           \/ \E p \in Partitions : Revoke(p)
           \/ \E c \in Consumers : Crash(c) \/ Restart(c)
           \/ \E e \in Events : Publish(e)
           \/ UNCHANGED vars
  BY <1>1 DEF vars, brokerVars, storeVars, Assign, Poll, Revoke, Crash, Restart,
              Publish
<1>2. ASSUME NEW c \in Consumers, ProcessMessage(c) PROVE OutcomeStep(c)
  <2>1. CASE \/ RecordProcessedEvent(c) \/ ExistsResultForEventId(c)
             \/ RecordAndGetWindow(c) \/ EvaluateRules(c)
             \/ FindDeadLetter(c) \/ SaveNewDeadLetter(c) \/ PublishDeadLetter(c)
    BY <2>1 DEF RecordProcessedEvent, ExistsResultForEventId,
       RecordAndGetWindow, EvaluateRules, FindDeadLetter, SaveNewDeadLetter,
       PublishDeadLetter, brokerVars, storeVars, OutcomeStep, Busy, CallLabels
  <2>2. CASE SaveResult(c)
    BY <2>2 DEF SaveResult, brokerVars, OutcomeStep, Busy, CallLabels
  <2>3. CASE FailIfConfigured(c) \/ SaveNewDeadLetterConflicts(c)
    BY <2>3, HandleErrorDropped DEF FailIfConfigured, SaveNewDeadLetterConflicts,
       storeVars, OutcomeStep, Busy, CallLabels
  <2>4. CASE Acknowledge(c)
    BY <2>4 DEF Acknowledge, storeVars, OutcomeStep, Busy, CallLabels
  <2> QED BY <1>2, <2>1, <2>2, <2>3, <2>4 DEF ProcessMessage
<1>3. ASSUME NEW c \in Consumers, CallFails(c) PROVE OutcomeStep(c)
  <2>1. /\ HandleError(c) /\ Busy(c)
        /\ results' \in {results, SavedBy(c)}
        /\ deadLetters' \in {deadLetters, deadLetters \cup {current[c]}}
        /\ dltTopic' \in {dltTopic, WithCopyOf(current[c])}
    BY <1>3 DEF CallFails, Busy, CallLabels
  <2>2. committed' # committed =>
            pc[c] \in {"saved", "ack"} /\ committed' = CommittedBy(c)
    BY <1>3 DEF CallFails
  <2> QED BY <2>1, <2>2, HandleErrorDropped DEF OutcomeStep
<1> QED BY <1>1, <1>2, <1>3 DEF Next

(* A record of a busy consumer is in the topic, in the partition of its    *)
(* event's key.                                                            *)
LEMMA HeldEvent ==
    ASSUME TypeOK, KeyInv, NEW c \in Consumers, Busy(c)
    PROVE  /\ current[c].part \in Partitions
           /\ current[c].off \in Nat /\ current[c].off < Len(log[current[c].part])
           /\ Event(c) \in Events
           /\ Event(c) \in {log[PartitionOf[Event(c)]][i] :
                               i \in DOMAIN log[PartitionOf[Event(c)]]}
<1> DEFINE p == current[c].part
           i == current[c].off + 1
<1>1. /\ p \in Partitions /\ current[c].off \in Nat /\ current[c].off < Len(log[p])
      /\ log[p] \in Seq(Events)
  BY DEF TypeOK, Records
<1>2. i \in 1 .. Len(log[p]) /\ DOMAIN log[p] = 1 .. Len(log[p])
  BY <1>1
<1>3. Event(c) = log[p][i] /\ PartitionOf[Event(c)] = p
  BY <1>1, <1>2 DEF Event, EventAt, KeyInv
<1>4. Event(c) \in Events
  BY <1>1, <1>2, <1>3
<1> QED BY <1>1, <1>2, <1>3, <1>4

(* An accounted record is settled in the promise's terms. *)
LEMMA AccountedSettled ==
    ASSUME NEW p \in Partitions, NEW o \in Nat, Accounted(Offset(p, o))
    PROVE  Outcome!Settled([part |-> p, off |-> o])
BY DEF Accounted, Handled, Outcome!Settled, Offset, EventAt

(* A commit moves forward, past settled records only. *)
LEMMA CommitAllowed ==
    ASSUME TypeOK, IInv, NEW c \in Consumers, OutcomeStep(c)
    PROVE  Outcome!MayCommit
<1> SUFFICES ASSUME NEW p \in Partitions, committed'[p] # committed[p]
             PROVE  /\ committed'[p] \in committed[p] .. Len(log[p])
                    /\ \A o \in 0 .. committed'[p] - 1 :
                          Outcome!Settled([part |-> p, off |-> o])
  BY DEF Outcome!MayCommit
<1>1. /\ pc[c] \in {"saved", "ack"} /\ committed' = CommittedBy(c)
      /\ committed \in [Partitions -> Nat]
  BY DEF OutcomeStep, TypeOK
<1>2. /\ owner[current[c].part] = c /\ p = current[c].part
      /\ committed'[p] = current[c].off + 1
  BY <1>1 DEF CommittedBy
<1>3. /\ current[c].off \in Nat /\ current[c].off < Len(log[p])
      /\ current[c].off = position[p]
      /\ Accounted(Offset(p, current[c].off))
  BY <1>1, <1>2, HeldRecord DEF IInv, OutcomeStep
<1>4. /\ committed[p] <= position[p] + 1
      /\ \A o \in 0 .. position[p] - 1 : Accounted(Offset(p, o))
  <2>1. owner[p] # None
    BY <1>2, ConsumerAssumption
  <2> QED BY <2>1 DEF IInv, PositionInv
<1>5. Len(log[p]) \in Nat /\ committed[p] \in Nat
  BY DEF TypeOK
<1>6. committed'[p] \in committed[p] .. Len(log[p])
  BY <1>2, <1>3, <1>4, <1>5
<1>7. ASSUME NEW o \in 0 .. committed'[p] - 1
      PROVE  Outcome!Settled([part |-> p, off |-> o])
  <2>1. o \in Nat /\ (o \in 0 .. position[p] - 1 \/ o = current[c].off)
    BY <1>2, <1>3
  <2>2. Accounted(Offset(p, o))
    BY <1>3, <1>4, <2>1
  <2> QED BY <2>1, <2>2, AccountedSettled
<1> QED BY <1>6, <1>7

(* Each step of the pipeline is a step of the promise or changes nothing   *)
(* of it.                                                                  *)
LEMMA StepSimulation ==
    TypeOK /\ IInv /\ KeyInv /\ [Next]_vars => [Outcome!Next]_(Outcome!vars)
<1> SUFFICES ASSUME TypeOK, IInv, KeyInv, [Next]_vars
             PROVE  [Outcome!Next]_(Outcome!vars)
  OBVIOUS
<1>1. CASE log' # log
  <2>1. PICK e \in Events : Publish(e)
    BY <1>1, LogStep
  <2>2. Outcome!Publish
    BY <2>1 DEF Publish, Outcome!Publish, storeVars, DeadLettered
  <2> QED BY <2>2 DEF Outcome!Next
<1>2. CASE log' = log /\ UNCHANGED <<results, deadLetters, dltTopic, dropped, committed>>
  BY <1>2 DEF Outcome!vars, DeadLettered
<1>3. ASSUME log' = log, NEW c \in Consumers, OutcomeStep(c)
      PROVE  Outcome!Next
  <2>1. /\ current[c].part \in Partitions /\ current[c].off \in Nat
        /\ current[c].off < Len(log[current[c].part])
        /\ Event(c) \in Events
        /\ Event(c) \in {log[PartitionOf[Event(c)]][i] :
                            i \in DOMAIN log[PartitionOf[Event(c)]]}
    BY <1>3, HeldEvent DEF OutcomeStep
  <2>2. Outcome!MayDecide
    <3> SUFFICES ASSUME NEW e \in Events, results'[e] # results[e]
                 PROVE  /\ results[e] = None /\ results'[e] \in Statuses
                        /\ e \in {log[PartitionOf[e]][i] : i \in DOMAIN log[PartitionOf[e]]}
      BY DEF Outcome!MayDecide
    <3>1. results' = SavedBy(c)
      BY <1>3 DEF OutcomeStep
    <3>2. e = Event(c) /\ results[e] = None /\ results'[e] = status[c]
      BY <2>1, <3>1 DEF SavedBy, TypeOK
    <3> QED BY <2>1, <3>2 DEF TypeOK
  <2>3. /\ DeadLettered \subseteq DeadLettered'
        /\ DeadLettered' \ DeadLettered \subseteq {current[c]}
        /\ dropped \subseteq dropped'
        /\ dropped' \ dropped \subseteq {current[c]}
    <3>1. /\ deadLetters' \in {deadLetters, deadLetters \cup {current[c]}}
          /\ dltTopic' \in {dltTopic, WithCopyOf(current[c])}
          /\ dropped' \in {dropped, dropped \cup {current[c]}}
      BY <1>3 DEF OutcomeStep
    <3>2. deadLetters \subseteq Records /\ dltTopic \in [Records -> Nat]
      BY DEF TypeOK
    <3>3. \A r \in deadLetters \ {current[c]} : dltTopic'[r] = dltTopic[r]
      BY <3>1, <3>2 DEF WithCopyOf
    <3>4. current[c] \in deadLetters => dltTopic[current[c]] <= dltTopic'[current[c]]
      BY <3>1, <3>2 DEF WithCopyOf
    <3>5. \A r \in deadLetters : dltTopic[r] \in Nat
      BY <3>2
    <3>6. DeadLettered \subseteq DeadLettered'
      <4>1. SUFFICES ASSUME NEW r \in deadLetters, dltTopic[r] > 0
                     PROVE  r \in deadLetters' /\ dltTopic'[r] > 0
        BY DEF DeadLettered
      <4>2. r \in deadLetters'
        BY <3>1, <4>1
      <4>3. dltTopic'[r] = dltTopic[r] \/ dltTopic[r] <= dltTopic'[r]
        BY <3>3, <3>4, <4>1
      <4>4. dltTopic'[r] \in Nat /\ dltTopic[r] \in Nat
        BY <3>1, <3>2, <4>1 DEF WithCopyOf
      <4> QED BY <4>1, <4>2, <4>3, <4>4
    <3>7. DeadLettered' \ DeadLettered \subseteq {current[c]}
      BY <3>1, <3>3 DEF DeadLettered
    <3> QED BY <3>1, <3>6, <3>7
  <2>4. Outcome!MayDeadLetter /\ Outcome!MayAbandon
    BY <2>1, <2>3 DEF Outcome!MayDeadLetter, Outcome!MayAbandon
  <2>5. Outcome!MayCommit
    BY <1>3, CommitAllowed
  <2> QED BY <1>3, <2>2, <2>3, <2>4, <2>5 DEF Outcome!Next, Outcome!Progress
<1> QED BY <1>1, <1>2, <1>3, EveryOutcomeStep

(* The pipeline keeps its promise: whatever consumers, crashes, rebalances *)
(* and failing calls do, decisions are final, dead letters are kept, and   *)
(* commits move forward past settled records only.                         *)
THEOREM Refinement == Spec => ImplementsOutcome
<1>1. Init => Outcome!Init
  BY DEF Init, Outcome!Init, DeadLettered
<1> QED BY <1>1, StepSimulation, TypeCorrect, InductiveInvariant, KeyInvariant,
           PTL DEF Spec, ImplementsOutcome, Outcome!Spec
=============================================================================
