-------------------------- MODULE FraudSystemProofs --------------------------
(***************************************************************************)
(* Theorems of the composition, for every set of events, rows and requests *)
(* and every number of faults: it implements the administration alone, the *)
(* live and the replay stream stay apart, and no record is lost or made up. *)
(***************************************************************************)
EXTENDS FraudSystem, DltAdminProofs, FiniteSetTheorems

USE DltAssumption, SystemAssumption

-----------------------------------------------------------------------------
(* Every step of the system is a step of the administration or leaves it   *)
(* alone.                                                                  *)
LEMMA StepImplementsAdmin == [SystemNext]_systemVars => [Next]_vars
<1> SUFFICES ASSUME [SystemNext]_systemVars PROVE [Next]_vars
  OBVIOUS
<1>1. CASE UNCHANGED systemVars
  BY <1>1 DEF systemVars
<1>2. ASSUME NEW c \in ProducerConfigs, NEW e \in Events,
             Accept(c, e) \/ AcceptFails(c, e)
      PROVE  UNCHANGED vars
  BY <1>2 DEF Accept, AcceptFails
<1>3. ASSUME NEW c, NEW e, NEW d \in Rows, StoreRow(c, e, d)
      PROVE  [Next]_vars
  BY <1>3 DEF StoreRow, Next
<1>4. ASSUME NEW c \in ConsumerConfigs, Consume(c)
      PROVE  [Next]_vars
  BY <1>3, <1>4 DEF Consume, SkipDuplicate, Decide, DeadLetter
<1>5. ASSUME NEW c \in ConsumerConfigs, NEW e \in Events,
             DeliveryFails(c, e) \/ GiveUp(c, e)
      PROVE  [Next]_vars
  BY <1>3, <1>5 DEF DeliveryFails, GiveUp, FailedDelivery, RowPerhapsStored
<1>6. ASSUME NEW q \in Requests, Administer(q) \/ AdminStep(q)
      PROVE  Next
  BY <1>6 DEF Administer, AdminStep, Next, Step
<1>7. ASSUME NEW t \in Topics, NEW e \in Events, EventArrives(t, e)
      PROVE  UNCHANGED vars
  BY <1>7 DEF EventArrives
<1>8. ASSUME NEW d \in Rows, LateCopyArrives(d)
      PROVE  Next
  BY <1>8 DEF LateCopyArrives, Next
<1> QED BY <1>1, <1>2, <1>4, <1>5, <1>6, <1>7, <1>8 DEF SystemNext

(* The composition implements the administration: what is proved of        *)
(* reprocess and discard alone holds while intake and consumers run.       *)
THEOREM SystemImplementsAdmin == SystemSpec => Spec
<1>1. SystemInit => Init
  BY DEF SystemInit
<1> QED BY <1>1, StepImplementsAdmin, PTL DEF SystemSpec, Spec

(* The administration's invariant holds in the composition. *)
LEMMA AdminInvariant == SystemSpec => []Inv
BY SystemImplementsAdmin, DltInvariantHolds, PTL

-----------------------------------------------------------------------------
(* The streams. *)

(* The configurations a service starts with. *)
LEMMA ValidConfigs ==
    /\ \A c : ValidProducer(c) =>
          c.topic \in Topics /\ c.mode = ModeOf(c.topic)
    /\ \A c : ValidConsumer(c) =>
          /\ c.topic \in Topics /\ c.mode = ModeOf(c.topic)
          /\ c.group \in Groups /\ c.namespace = NamespaceOf(c.topic)
          /\ c.group = "fraud-event-consumer" <=> ModeOf(c.topic) = "LIVE"
BY DEF ValidProducer, ValidConsumer, Topics, Groups, ModeOf, NamespaceOf

(* Modes and namespaces tell the topics apart. *)
LEMMA TopicOfMode ==
    \A t, u \in Topics :
        /\ ModeOf(t) \in Modes /\ NamespaceOf(t) \in Namespaces
        /\ ModeOf(t) = ModeOf(u) => t = u
        /\ NamespaceOf(t) = NamespaceOf(u) => t = u
BY DEF Topics, Modes, Namespaces, ModeOf, NamespaceOf

Adds(F, t, e, n, G) == G = [F EXCEPT ![t][e] = @ + n]

(* Adding to one entry of a table of counts. *)
LEMMA Added ==
    ASSUME NEW F \in [Topics -> [Events -> Nat]], NEW t \in Topics,
           NEW e \in Events, NEW n \in Nat, NEW G,
           G = [F EXCEPT ![t][e] = @ + n]
    PROVE  /\ G \in [Topics -> [Events -> Nat]]
           /\ G[t][e] = F[t][e] + n
           /\ \A u \in Topics, f \in Events :
                 /\ G[u][f] >= F[u][f]
                 /\ u # t \/ f # e => G[u][f] = F[u][f]
OBVIOUS

(* A request keeps the streams apart: what it takes is its own mode's.     *)
LEMMA AcceptInvariant ==
    ASSUME SystemInv, StreamsAreIsolated, TypeOK', NEW c, NEW e \in Events,
           Accept(c, e) \/ AcceptFails(c, e)
    PROVE  SystemTypeOK' /\ SourceInv' /\ StreamsAreIsolated'
<1> DEFINE t == c.topic
<1>1. t \in Topics /\ c.mode = ModeOf(t) /\ c.mode \in Modes
  BY ValidConfigs, TopicOfMode DEF Accept, AcceptFails
<1>2. /\ receipt[e] = None
      /\ UNCHANGED <<status, handled, source, window, result, givenUp>>
  BY DEF Accept, AcceptFails, vars, dbVars
<1>0. /\ receipt \in [Events -> Modes \cup {None}]
      /\ records \in [Topics -> [Events -> Nat]]
      /\ adrift \in [Topics -> [Events -> Nat]]
      /\ orphans \in [Topics -> [Events -> Nat]]
      /\ streamFaults \in 0 .. MaxFaults /\ faults \in 0 .. MaxFaults
  BY DEF SystemInv, SystemTypeOK, TypeOK
<1>3. PICK n \in {0, 1} :
         /\ \/ records' = [records EXCEPT ![t][e] = @ + n] /\ adrift' = adrift
            \/ records' = records /\ adrift' = [adrift EXCEPT ![t][e] = @ + n]
         /\ \/ receipt' = [receipt EXCEPT ![e] = c.mode] /\ orphans' = orphans
            \/ receipt' = receipt /\ orphans' = [orphans EXCEPT ![t][e] = @ + n]
  <2>1. CASE Accept(c, e)
    BY <2>1 DEF Accept
  <2>2. CASE AcceptFails(c, e)
    BY <2>2 DEF AcceptFails
  <2> QED BY <2>1, <2>2
<1>4. streamFaults' \in 0 .. MaxFaults
  <2>1. \/ streamFaults' = streamFaults
        \/ faults + streamFaults < MaxFaults /\ streamFaults' = streamFaults + 1
    BY DEF Accept, AcceptFails, StreamFault
  <2> QED BY <1>0, <2>1
<1>5. /\ receipt' \in [Events -> Modes \cup {None}]
      /\ records' \in [Topics -> [Events -> Nat]]
      /\ adrift' \in [Topics -> [Events -> Nat]]
      /\ orphans' \in [Topics -> [Events -> Nat]]
  <2>1. n \in Nat
    OBVIOUS
  <2>2. records' \in [Topics -> [Events -> Nat]] /\ adrift' \in [Topics -> [Events -> Nat]]
    <3>1. CASE records' = [records EXCEPT ![t][e] = @ + n] /\ adrift' = adrift
      BY <1>0, <1>1, <2>1, <3>1, Added
    <3>2. CASE records' = records /\ adrift' = [adrift EXCEPT ![t][e] = @ + n]
      BY <1>0, <1>1, <2>1, <3>2, Added
    <3> QED BY <1>3, <3>1, <3>2
  <2>3. orphans' \in [Topics -> [Events -> Nat]]
    <3>1. CASE orphans' = orphans
      BY <1>0, <3>1
    <3>2. CASE orphans' = [orphans EXCEPT ![t][e] = @ + n]
      BY <1>0, <1>1, <2>1, <3>2, Added
    <3> QED BY <1>3, <3>1, <3>2
  <2>4. receipt' = receipt \/ receipt' = [receipt EXCEPT ![e] = c.mode]
    BY <1>3
  <2>5. receipt' \in [Events -> Modes \cup {None}]
    BY <1>0, <1>1, <2>4
  <2> QED BY <2>2, <2>3, <2>5
<1>6. SystemTypeOK'
  BY <1>2, <1>4, <1>5 DEF SystemInv, SystemTypeOK
<1>7. ASSUME NEW u \in Topics, NEW f \in Events
      PROVE  /\ records'[u][f] >= records[u][f]
             /\ Taken(u, f) => Taken(u, f)'
             /\ records'[u][f] + adrift'[u][f] > 0 =>
                   records[u][f] + adrift[u][f] > 0 \/ Taken(u, f)'
  <2>a. n \in Nat
    OBVIOUS
  <2> DEFINE all == records[u][f] + adrift[u][f]
             after == records'[u][f] + adrift'[u][f]
  <2>0. /\ records[u][f] \in Nat /\ adrift[u][f] \in Nat
        /\ records'[u][f] \in Nat /\ adrift'[u][f] \in Nat
    BY <1>0, <1>5
  <2>1. /\ records'[u][f] >= records[u][f]
        /\ u # t \/ f # e => after = all
        /\ u = t /\ f = e => after = all + n
    <3>1. CASE records' = [records EXCEPT ![t][e] = @ + n] /\ adrift' = adrift
      <4>1. /\ records'[t][e] = records[t][e] + n
            /\ records'[u][f] >= records[u][f]
            /\ u # t \/ f # e => records'[u][f] = records[u][f]
        BY <1>0, <1>1, <2>a, <3>1, Added
      <4> QED BY <2>0, <3>1, <4>1
    <3>2. CASE records' = records /\ adrift' = [adrift EXCEPT ![t][e] = @ + n]
      <4>1. /\ adrift'[t][e] = adrift[t][e] + n
            /\ u # t \/ f # e => adrift'[u][f] = adrift[u][f]
        BY <1>0, <1>1, <2>a, <3>2, Added
      <4> QED BY <2>0, <3>2, <4>1
    <3> QED BY <1>3, <3>1, <3>2
  <2>b. all \in Nat /\ after \in Nat
    BY <2>0
  <2> HIDE DEF all, after
  <2>2. CASE receipt' = [receipt EXCEPT ![e] = c.mode] /\ orphans' = orphans
    <3>1. /\ receipt'[e] = ModeOf(t)
          /\ f # e => receipt'[f] = receipt[f]
      BY <1>0, <1>1, <2>2
    <3>2. ModeOf(u) # None
      BY TopicOfMode
    <3>3. Taken(u, f) => Taken(u, f)'
      BY <1>0, <1>2, <2>2, <3>1, <3>2 DEF Taken
    <3>4. after > 0 => all > 0 \/ Taken(u, f)'
      BY <2>1, <3>1 DEF Taken
    <3> QED BY <2>1, <3>3, <3>4 DEF all, after
  <2>3. CASE receipt' = receipt /\ orphans' = [orphans EXCEPT ![t][e] = @ + n]
    <3>1. /\ orphans'[u][f] >= orphans[u][f]
          /\ orphans'[t][e] = orphans[t][e] + n
          /\ orphans[u][f] \in Nat /\ orphans[t][e] \in Nat
      BY <1>0, <1>1, <2>a, <2>3, Added
    <3>2. Taken(u, f) => Taken(u, f)'
      BY <1>5, <2>3, <3>1 DEF Taken
    <3>3. CASE u = t /\ f = e
      <4>1. after > 0 => all > 0 \/ orphans'[u][f] > 0
        BY <2>1, <2>b, <3>1, <3>3
      <4> QED BY <2>1, <3>2, <4>1 DEF Taken, all, after
    <3>4. CASE u # t \/ f # e
      BY <2>1, <3>2, <3>4 DEF all, after
    <3> QED BY <2>1, <3>2, <3>3, <3>4
  <2> QED BY <1>3, <2>2, <2>3
<1>8. SourceInv'
  <2> SUFFICES ASSUME NEW d \in Rows, status'[d] # "ABSENT"
               PROVE  /\ source'[d] \in Topics \X Nat
                      /\ records'[source'[d][1]][EventOf[d]] > 0
    BY DEF SourceInv
  <2>1. source[d] \in Topics \X Nat /\ records[source[d][1]][EventOf[d]] > 0
    BY <1>2 DEF SystemInv, SourceInv
  <2>2. source[d][1] \in Topics /\ EventOf[d] \in Events
    BY <2>1
  <2> QED BY <1>0, <1>2, <1>5, <1>7, <2>1, <2>2
<1>9. StreamsAreIsolated'
  BY <1>2, <1>7 DEF StreamsAreIsolated
<1> QED BY <1>6, <1>8, <1>9

(* A record that arrives late was counted when it was sent. *)
LEMMA ArrivalStreamInvariant ==
    ASSUME SystemInv, StreamsAreIsolated, TypeOK', NEW t \in Topics,
           NEW e \in Events, EventArrives(t, e)
    PROVE  /\ SystemTypeOK' /\ SourceInv' /\ StreamsAreIsolated'
           /\ Adds(records, t, e, 1, records') /\ Adds(adrift', t, e, 1, adrift)
<1>1. /\ records \in [Topics -> [Events -> Nat]]
      /\ adrift \in [Topics -> [Events -> Nat]] /\ adrift[t][e] > 0
      /\ records' = [records EXCEPT ![t][e] = @ + 1]
      /\ adrift' = [adrift EXCEPT ![t][e] = @ - 1]
      /\ UNCHANGED <<status, receipt, orphans, handled, source, window, result,
                     givenUp, streamFaults>>
  BY DEF EventArrives, SystemInv, SystemTypeOK, vars, dbVars
<1>2. /\ adrift' \in [Topics -> [Events -> Nat]]
      /\ adrift'[t][e] = adrift[t][e] - 1
      /\ \A u \in Topics, f \in Events :
            u # t \/ f # e => adrift'[u][f] = adrift[u][f]
  BY <1>1
<1>3. Adds(adrift', t, e, 1, adrift)
  <2>1. adrift[t][e] = adrift'[t][e] + 1
    BY <1>1, <1>2
  <2>2. adrift'[t] = [adrift[t] EXCEPT ![e] = adrift'[t][e]]
    BY <1>1, <1>2
  <2>3. adrift[t] = [adrift'[t] EXCEPT ![e] = @ + 1]
    BY <1>1, <1>2, <2>1, <2>2
  <2>4. adrift = [adrift' EXCEPT ![t] = [adrift'[t] EXCEPT ![e] = @ + 1]]
    BY <1>1, <1>2, <2>3
  <2> QED BY <1>2, <2>4 DEF Adds
<1>4. /\ records' \in [Topics -> [Events -> Nat]]
      /\ \A u \in Topics, f \in Events :
            /\ records'[u][f] >= records[u][f]
            /\ records'[u][f] + adrift'[u][f] = records[u][f] + adrift[u][f]
  <2>1. /\ records' \in [Topics -> [Events -> Nat]]
        /\ records'[t][e] = records[t][e] + 1
        /\ \A u \in Topics, f \in Events :
              /\ records'[u][f] >= records[u][f]
              /\ u # t \/ f # e => records'[u][f] = records[u][f]
    BY <1>1, Added
  <2>2. /\ records[t][e] \in Nat /\ adrift[t][e] \in Nat
    BY <1>1
  <2> QED BY <1>2, <2>1, <2>2
<1>5. SystemTypeOK'
  BY <1>1, <1>2, <1>4 DEF SystemInv, SystemTypeOK
<1>6. SourceInv'
  <2> SUFFICES ASSUME NEW d \in Rows, status'[d] # "ABSENT"
               PROVE  /\ source'[d] \in Topics \X Nat
                      /\ records'[source'[d][1]][EventOf[d]] > 0
    BY DEF SourceInv
  <2>1. source[d] \in Topics \X Nat /\ records[source[d][1]][EventOf[d]] > 0
    BY <1>1 DEF SystemInv, SourceInv
  <2>2. source[d][1] \in Topics /\ EventOf[d] \in Events
    BY <2>1
  <2> QED BY <1>1, <1>4, <2>1, <2>2
<1>7. StreamsAreIsolated'
  BY <1>1, <1>4 DEF StreamsAreIsolated, Taken
<1> QED BY <1>1, <1>3, <1>5, <1>6, <1>7 DEF Adds

(* What a delivery may change: the window of its namespace, the offset of  *)
(* its group, the result, and the row of its own record.                   *)
LEMMA DeliveryInvariant ==
    ASSUME SystemInv, StreamsAreIsolated, TypeOK', NEW c, NEW e \in Events,
           Delivered(c, e), UNCHANGED window \/ RecordWindow(c, e),
           UNCHANGED <<receipt, records, adrift, orphans>>,
           UNCHANGED handled \/ Acknowledge(c, e),
           result' \in {result, [result EXCEPT ![e] = c.mode]},
           givenUp' \in {givenUp, [givenUp EXCEPT ![e] = @ + 1]},
           streamFaults' \in 0 .. MaxFaults,
           UNCHANGED <<vars, source>> \/ \E d \in Rows : StoreRow(c, e, d)
    PROVE  SystemTypeOK' /\ SourceInv' /\ StreamsAreIsolated'
<1> DEFINE t == c.topic
           g == c.group
<1>1. /\ t \in Topics /\ c.mode = ModeOf(t) /\ c.mode \in Modes
      /\ g \in Groups /\ c.namespace = NamespaceOf(t)
      /\ c.namespace \in Namespaces
      /\ g = "fraud-event-consumer" <=> ModeOf(t) = "LIVE"
  BY ValidConfigs, TopicOfMode DEF Delivered
<1>2. /\ records \in [Topics -> [Events -> Nat]]
      /\ handled \in [Groups -> [Topics -> [Events -> Nat]]]
      /\ window \in [Namespaces -> SUBSET Events]
      /\ result \in [Events -> Modes \cup {None}]
      /\ givenUp \in [Events -> Nat]
      /\ source \in [Rows -> (Topics \X Nat) \cup {None}]
      /\ status \in [Rows -> Statuses \cup {"ABSENT"}]
  BY DEF SystemInv, SystemTypeOK, TypeOK
<1>3. records[t][e] > 0
  BY <1>1, <1>2 DEF Delivered, Waiting
<1>4. Taken(t, e)
  <2>1. records[t][e] \in Nat /\ adrift[t][e] \in Nat
    BY <1>1, <1>2 DEF SystemInv, SystemTypeOK
  <2>2. records[t][e] + adrift[t][e] > 0
    BY <1>3, <2>1
  <2> QED BY <1>1, <2>2 DEF StreamsAreIsolated
<1>5. \A u \in Topics, f \in Events : Taken(u, f)' <=> Taken(u, f)
  BY DEF Taken
<1>6. /\ handled' \in [Groups -> [Topics -> [Events -> Nat]]]
      /\ \A h \in Groups, u \in Topics, f \in Events :
            handled'[h][u][f] > 0 =>
               handled[h][u][f] > 0 \/ (h = g /\ u = t /\ f = e)
  <2>1. CASE handled' = handled
    BY <1>2, <2>1
  <2>2. CASE Acknowledge(c, e)
    <3>1. handled' = [handled EXCEPT ![g] = [handled[g] EXCEPT ![t] =
                        [handled[g][t] EXCEPT ![e] = handled[g][t][e] + 1]]]
      BY <1>1, <1>2, <2>2 DEF Acknowledge
    <3>2. /\ handled[g][t] \in [Events -> Nat]
          /\ handled[g][t][e] + 1 \in Nat
      BY <1>1, <1>2
    <3> DEFINE after == [handled[g][t] EXCEPT ![e] = handled[g][t][e] + 1]
    <3>3. /\ after \in [Events -> Nat]
          /\ \A f \in Events : after[f] > 0 => handled[g][t][f] > 0 \/ f = e
      BY <3>2
    <3>4. handled' = [handled EXCEPT ![g] = [handled[g] EXCEPT ![t] = after]]
      BY <3>1
    <3> HIDE DEF after
    <3> QED BY <1>1, <1>2, <3>3, <3>4
  <2> QED BY <2>1, <2>2
<1>7. /\ window' \in [Namespaces -> SUBSET Events]
      /\ \A n \in Namespaces, f \in Events :
            f \in window'[n] => f \in window[n] \/ (n = c.namespace /\ f = e)
  <2>1. CASE UNCHANGED window
    BY <1>2, <2>1
  <2>2. CASE window' = [window EXCEPT ![c.namespace] = @ \cup {e}]
    BY <1>1, <1>2, <2>2
  <2> QED BY <2>1, <2>2 DEF RecordWindow
<1>8. /\ result' \in [Events -> Modes \cup {None}]
      /\ \A f \in Events : result'[f] = result[f] \/ (f = e /\ result'[f] = ModeOf(t))
  BY <1>1, <1>2
<1>9. givenUp' \in [Events -> Nat]
  BY <1>2
<1>10. /\ source' \in [Rows -> (Topics \X Nat) \cup {None}]
       /\ SourceInv'
  <2>1. CASE UNCHANGED <<vars, source>>
    BY <1>2, <2>1 DEF SystemInv, SourceInv, vars, dbVars
  <2>2. ASSUME NEW d \in Rows, StoreRow(c, e, d), ~UNCHANGED <<vars, source>>
        PROVE  source' \in [Rows -> (Topics \X Nat) \cup {None}] /\ SourceInv'
    <3>1. /\ EventOf[d] = e
          /\ source' = [source EXCEPT ![d] = Position(c, e)]
          /\ status' = [status EXCEPT ![d] = "PENDING"]
      BY <2>2 DEF StoreRow, RecordFailure
    <3>2. Position(c, e) \in Topics \X Nat /\ Position(c, e)[1] = t
      BY <1>1, <1>2 DEF Position
    <3>3. \A x \in Rows \ {d} : source'[x] = source[x] /\ status'[x] = status[x]
      BY <1>2, <3>1
    <3>4. source'[d] = Position(c, e)
      BY <1>2, <3>1
    <3>5. source' \in [Rows -> (Topics \X Nat) \cup {None}]
      BY <1>2, <3>1, <3>2
    <3>6. ASSUME NEW x \in Rows, status'[x] # "ABSENT"
          PROVE  /\ source'[x] \in Topics \X Nat
                 /\ records'[source'[x][1]][EventOf[x]] > 0
      <4>1. CASE x = d
        BY <1>3, <3>1, <3>2, <3>4, <4>1
      <4>2. CASE x # d
        BY <3>3, <3>6, <4>2 DEF SystemInv, SourceInv
      <4> QED BY <4>1, <4>2
    <3> QED BY <3>5, <3>6 DEF SourceInv
  <2> QED BY <2>1, <2>2
<1>11. SystemTypeOK'
  BY <1>6, <1>7, <1>8, <1>9, <1>10 DEF SystemInv, SystemTypeOK
<1>12. StreamsAreIsolated'
  <2> SUFFICES ASSUME NEW u \in Topics, NEW f \in Events
               PROVE  /\ \/ records'[u][f] + adrift'[u][f] > 0
                         \/ f \in window'[NamespaceOf(u)]
                         \/ result'[f] = ModeOf(u)
                         => Taken(u, f)
                      /\ \A h \in Groups : handled'[h][u][f] > 0 =>
                            /\ Taken(u, f)
                            /\ h = "fraud-event-consumer" <=> ModeOf(u) = "LIVE"
    BY <1>5 DEF StreamsAreIsolated
  <2>1. records'[u][f] + adrift'[u][f] > 0 => Taken(u, f)
    BY DEF StreamsAreIsolated
  <2>2. f \in window'[NamespaceOf(u)] => Taken(u, f)
    BY <1>1, <1>4, <1>7, TopicOfMode DEF StreamsAreIsolated
  <2>3. result'[f] = ModeOf(u) => Taken(u, f)
    BY <1>1, <1>4, <1>8, TopicOfMode DEF StreamsAreIsolated
  <2>4. ASSUME NEW h \in Groups, handled'[h][u][f] > 0
        PROVE  /\ Taken(u, f)
               /\ h = "fraud-event-consumer" <=> ModeOf(u) = "LIVE"
    BY <1>1, <1>4, <1>6, <2>4 DEF StreamsAreIsolated
  <2> QED BY <2>1, <2>2, <2>3, <2>4
<1> QED BY <1>10, <1>11, <1>12

AdminAction ==
    \/ \E q \in Requests : Administer(q) \/ AdminStep(q)
    \/ \E d \in Rows : LateCopyArrives(d)

(* A request of the administration, or a send that arrives late, adds one  *)
(* copy of a stored row or none, and neither adds nor removes a row.       *)
LEMMA AdminChanges ==
    ASSUME SystemInv, AdminAction
    PROVE  /\ UNCHANGED <<receipt, adrift, orphans, handled, source, window, result,
                          givenUp, streamFaults>>
           /\ \/ topic' = topic /\ records' = records
              \/ \E d \in Rows : /\ status[d] # "ABSENT"
                                /\ topic' = [topic EXCEPT ![d] = @ + 1]
                                /\ CopyArrives(d)
           /\ \A d \in Rows : status'[d] = "ABSENT" <=> status[d] = "ABSENT"
<1>1. TypeOK /\ IInv
  BY DEF SystemInv, SystemTypeOK
<1>2. \A q \in Requests : pc[q] # "idle" => row[q] \in Rows /\ status[row[q]] # "ABSENT"
  BY <1>1, OneHolder DEF RequestOK
<1>3. ASSUME NEW q \in Requests, NEW d \in Rows, Reprocess(q, d) \/ Discard(q, d)
      PROVE  topic' = topic /\ status' = status
  BY <1>3 DEF Reprocess, Discard
<1>4. ASSUME NEW q \in Requests, PublishFails(q) \/ RecordDltAction(q) \/ Rollback(q)
      PROVE  topic' = topic /\ status' = status
  BY <1>4 DEF PublishFails, RecordDltAction, Rollback, dbVars
<1>5. ASSUME NEW q \in Requests, Publish(q)
      PROVE  /\ pc[q] # "idle" /\ status' = status
             /\ topic' = [topic EXCEPT ![row[q]] = @ + 1]
  BY <1>5 DEF Publish, dbVars
<1>6. ASSUME NEW q \in Requests, Commit(q) \/ CommitUnconfirmed(q)
      PROVE  /\ topic' = topic
             /\ \A d \in Rows : status'[d] = "ABSENT" <=> status[d] = "ABSENT"
  <2>1. pc[q] = "commit" /\ WriteBack(q) /\ topic' = topic
    BY <1>6 DEF Commit, CommitUnconfirmed
  <2>2. row[q] \in Rows /\ RequestOK(q) /\ outcome[q] \in Outcomes
    BY <1>1, <2>1, OneHolder DEF TypeOK
  <2>3. /\ status'[row[q]] = entity[q].status
        /\ \A d \in Rows \ {row[q]} : status'[d] = status[d]
    BY <1>1, <2>1, WriteBackValues
  <2>4. status[row[q]] # "ABSENT" /\ entity[q].status # "ABSENT"
    BY <2>2 DEF RequestOK, Outcomes, Attempted
  <2> QED BY <2>1, <2>3, <2>4
<1>7. ASSUME NEW d \in Rows, LateCopyArrives(d)
      PROVE  /\ status' = status /\ status[d] # "ABSENT"
             /\ topic' = [topic EXCEPT ![d] = @ + 1] /\ CopyArrives(d)
  BY <1>1, <1>7 DEF LateCopyArrives, SendArrives, IInv, LateInv, dbVars
<1>8. CASE \E q \in Requests : Administer(q)
  BY <1>3, <1>4, <1>6, <1>8 DEF Administer, streamVars
<1>9. CASE \E q \in Requests : AdminStep(q)
  BY <1>2, <1>4, <1>5, <1>6, <1>9 DEF AdminStep
<1>10. CASE \E d \in Rows : LateCopyArrives(d)
  BY <1>7, <1>10 DEF LateCopyArrives
<1> QED BY <1>8, <1>9, <1>10 DEF AdminAction

(* What is published stays in the stream it came from: every row has the   *)
(* topic of a record of its event.                                         *)
LEMMA AdminStreamInvariant ==
    ASSUME SystemInv, StreamsAreIsolated, TypeOK', AdminAction
    PROVE  SystemTypeOK' /\ SourceInv' /\ StreamsAreIsolated'
<1>1. /\ records \in [Topics -> [Events -> Nat]]
      /\ adrift \in [Topics -> [Events -> Nat]]
      /\ source \in [Rows -> (Topics \X Nat) \cup {None}]
  BY DEF SystemInv, SystemTypeOK
<1>2. /\ records' \in [Topics -> [Events -> Nat]]
      /\ \A u \in Topics, f \in Events :
            /\ records'[u][f] >= records[u][f]
            /\ records'[u][f] > 0 => records[u][f] > 0
  <2>1. CASE records' = records
    BY <1>1, <2>1
  <2>2. CASE \E d \in Rows : status[d] # "ABSENT" /\ CopyArrives(d)
    <3>1. PICK d \in Rows : status[d] # "ABSENT" /\ CopyArrives(d)
      BY <2>2
    <3> DEFINE t == source[d][1]
               e == EventOf[d]
    <3>2. source[d] \in Topics \X Nat /\ records[t][e] > 0
      BY <3>1 DEF SystemInv, SourceInv
    <3>3. t \in Topics /\ e \in Events
      BY <3>1, <3>2
    <3>4. records' = [records EXCEPT ![t][e] = @ + 1]
      BY <3>1 DEF CopyArrives, ReprocessTopic
    <3> HIDE DEF t, e
    <3>5. /\ records' \in [Topics -> [Events -> Nat]]
          /\ \A u \in Topics, f \in Events :
                /\ records'[u][f] >= records[u][f]
                /\ u # t \/ f # e => records'[u][f] = records[u][f]
      BY <1>1, <3>3, <3>4, Added
    <3> QED BY <3>2, <3>5
  <2> QED BY <2>1, <2>2, AdminChanges
<1>3. UNCHANGED <<receipt, adrift, orphans, handled, source, window, result, givenUp,
                  streamFaults>>
  BY AdminChanges
<1>4. SystemTypeOK'
  BY <1>2, <1>3 DEF SystemInv, SystemTypeOK
<1>5. SourceInv'
  <2> SUFFICES ASSUME NEW d \in Rows, status'[d] # "ABSENT"
               PROVE  /\ source'[d] \in Topics \X Nat
                      /\ records'[source'[d][1]][EventOf[d]] > 0
    BY DEF SourceInv
  <2>1. source[d] \in Topics \X Nat /\ records[source[d][1]][EventOf[d]] > 0
    BY AdminChanges DEF SystemInv, SourceInv
  <2>2. source[d][1] \in Topics /\ EventOf[d] \in Events
    BY <2>1
  <2> QED BY <1>1, <1>2, <1>3, <2>1, <2>2
<1>6. \A u \in Topics, f \in Events :
         records'[u][f] + adrift'[u][f] > 0 => records[u][f] + adrift[u][f] > 0
  <2> SUFFICES ASSUME NEW u \in Topics, NEW f \in Events,
                      records'[u][f] + adrift[u][f] > 0
               PROVE  records[u][f] + adrift[u][f] > 0
    BY <1>3
  <2>1. /\ records[u][f] \in Nat /\ records'[u][f] \in Nat /\ adrift[u][f] \in Nat
        /\ records'[u][f] > 0 => records[u][f] > 0
    BY <1>1, <1>2
  <2> QED BY <2>1
<1>7. StreamsAreIsolated'
  BY <1>3, <1>6 DEF StreamsAreIsolated, Taken
<1> QED BY <1>4, <1>5, <1>7

-----------------------------------------------------------------------------
(* The accounts.  A number that every row has is counted by a set of pairs *)
(* of a row and a number, so that sums over rows are cardinalities.        *)

(* A number of some rows is counted by pairs. *)
LEMMA CountedPairs ==
    ASSUME NEW rows \in SUBSET Rows, NEW n \in [Rows -> Nat]
    PROVE  /\ Counted(rows, n) \subseteq rows \X Nat
           /\ \A d, i : <<d, i>> \in Counted(rows, n) <=> d \in rows /\ i \in 1 .. n[d]
           /\ \A p \in Counted(rows, n) :
                 p = <<p[1], p[2]>> /\ p[1] \in rows /\ p[2] \in 1 .. n[p[1]]
<1>1. \A d, i : <<d, i>> \in Counted(rows, n) <=> d \in rows /\ i \in 1 .. n[d]
  BY DEF Counted
<1>2. ASSUME NEW p \in Counted(rows, n)
      PROVE  /\ p \in rows \X Nat
             /\ p = <<p[1], p[2]>> /\ p[1] \in rows /\ p[2] \in 1 .. n[p[1]]
  <2>1. PICK d \in rows : p \in {d} \X (1 .. n[d])
    BY DEF Counted
  <2> QED BY <2>1
<1> QED BY <1>1, <1>2

(* The counts of finitely many rows add up to a number. *)
LEMMA CountedIsFinite ==
    ASSUME NEW rows \in SUBSET Rows, NEW n \in [Rows -> Nat], IsFiniteSet(rows)
    PROVE  IsFiniteSet(Counted(rows, n)) /\ Cardinality(Counted(rows, n)) \in Nat
<1> DEFINE pairs == {{d} \X (1 .. n[d]) : d \in rows}
           f == [d \in rows |-> {d} \X (1 .. n[d])]
<1>1. f \in Surjection(rows, pairs)
  BY DEF Surjection
<1>2. IsFiniteSet(pairs)
  BY <1>1, FS_Surjection
<1>3. ASSUME NEW d \in rows PROVE IsFiniteSet({d} \X (1 .. n[d]))
  <2>1. n[d] \in Int
    BY n[d] \in Nat
  <2>2. IsFiniteSet({d})
    BY FS_Singleton
  <2>3. IsFiniteSet(1 .. n[d])
    BY <2>1, FS_Interval
  <2> QED BY <2>2, <2>3, FS_Product
<1>4. \A S \in pairs : IsFiniteSet(S)
  BY <1>3
<1>5. IsFiniteSet(UNION pairs)
  BY <1>2, <1>4, FS_UNION
<1> QED BY <1>5, FS_CardinalityType DEF Counted

(* More rows and higher numbers count no less. *)
LEMMA CountedGrows ==
    ASSUME NEW less \in SUBSET Rows, NEW more \in SUBSET Rows, less \subseteq more,
           IsFiniteSet(more), NEW n \in [Rows -> Nat], NEW m \in [Rows -> Nat],
           \A d \in less : n[d] <= m[d]
    PROVE  Cardinality(Counted(less, n)) <= Cardinality(Counted(more, m))
<1>1. IsFiniteSet(Counted(more, m))
  BY CountedIsFinite
<1>2. Counted(less, n) \subseteq Counted(more, m)
  <2> SUFFICES ASSUME NEW p \in Counted(less, n) PROVE p \in Counted(more, m)
    OBVIOUS
  <2>1. p = <<p[1], p[2]>> /\ p[1] \in less /\ p[2] \in 1 .. n[p[1]]
    BY CountedPairs
  <2>2. p[1] \in more /\ p[2] \in 1 .. m[p[1]]
    BY <2>1
  <2>3. <<p[1], p[2]>> \in Counted(more, m)
    BY <2>2, CountedPairs
  <2> QED BY <2>1, <2>3
<1> QED BY <1>1, <1>2, FS_Subset

(* One more of a row counts one more. *)
LEMMA CountedAdded ==
    ASSUME NEW rows \in SUBSET Rows, IsFiniteSet(rows), NEW d \in rows,
           NEW n \in [Rows -> Nat], NEW m \in [Rows -> Nat],
           m[d] = n[d] + 1, \A x \in rows \ {d} : m[x] = n[x]
    PROVE  Cardinality(Counted(rows, m)) = Cardinality(Counted(rows, n)) + 1
<1> DEFINE new == <<d, n[d] + 1>>
<1>a. /\ \A x, i : <<x, i>> \in Counted(rows, m) <=> x \in rows /\ i \in 1 .. m[x]
      /\ \A p \in Counted(rows, m) :
            p = <<p[1], p[2]>> /\ p[1] \in rows /\ p[2] \in 1 .. m[p[1]]
  BY CountedPairs
<1>2. new \notin Counted(rows, n)
  BY CountedPairs
<1>3. Counted(rows, m) = Counted(rows, n) \cup {new}
  <2>1. ASSUME NEW p \in Counted(rows, m) PROVE p \in Counted(rows, n) \cup {new}
    <3>1. p = <<p[1], p[2]>> /\ p[1] \in rows /\ p[2] \in 1 .. m[p[1]]
      BY <1>a
    <3>2. CASE p[2] \in 1 .. n[p[1]]
      BY <3>1, <3>2, CountedPairs
    <3>3. CASE p[2] \notin 1 .. n[p[1]]
      <4>1. p[1] = d /\ p[2] = n[d] + 1
        BY <3>1, <3>3
      <4> QED BY <3>1, <4>1
    <3> QED BY <3>2, <3>3
  <2>2. ASSUME NEW p \in Counted(rows, n) PROVE p \in Counted(rows, m)
    <3>1. p = <<p[1], p[2]>> /\ p[1] \in rows /\ p[2] \in 1 .. n[p[1]]
      BY CountedPairs
    <3>2. p[2] \in 1 .. m[p[1]]
      BY <3>1
    <3>3. <<p[1], p[2]>> \in Counted(rows, m)
      BY <1>a, <3>1, <3>2
    <3> QED BY <3>1, <3>3
  <2>3. new \in Counted(rows, m)
    BY <1>a
  <2> QED BY <2>1, <2>2, <2>3
<1>4. IsFiniteSet(Counted(rows, n)) /\ Cardinality(Counted(rows, n)) \in Nat
  BY CountedIsFinite
<1> HIDE DEF new
<1>5. Cardinality(Counted(rows, n) \cup {new}) = Cardinality(Counted(rows, n)) + 1
  BY <1>2, <1>4, FS_AddElement
<1> QED BY <1>3, <1>5, Zenon

(* Numbers bounded row by row are bounded in sum. *)
LEMMA CountedBound ==
    ASSUME NEW rows \in SUBSET Rows, IsFiniteSet(rows), NEW one \in SUBSET rows,
           NEW k \in Nat, NEW n \in [Rows -> Nat], NEW a \in [Rows -> Nat],
           NEW u \in [Rows -> Nat],
           \A d \in rows : /\ n[d] <= a[d] + u[d] + (IF d \in one THEN 1 ELSE 0)
                           /\ a[d] <= k
    PROVE  Cardinality(Counted(rows, n))
              <= k * Cardinality(rows) + Cardinality(Counted(rows, u))
                    + Cardinality(one)
<1> DEFINE all == Counted(rows, n)
           first == {p \in all : p[2] <= a[p[1]]}
           second == {p \in all : a[p[1]] < p[2] /\ p[2] <= a[p[1]] + u[p[1]]}
           last == {p \in all : a[p[1]] + u[p[1]] < p[2]}
<1>1. \A p \in all : /\ p = <<p[1], p[2]>> /\ p[1] \in rows /\ p[2] \in 1 .. n[p[1]]
                     /\ p[2] \in Nat /\ a[p[1]] \in Nat /\ u[p[1]] \in Nat
  <2>1. \A p \in all : p = <<p[1], p[2]>> /\ p[1] \in rows /\ p[2] \in 1 .. n[p[1]]
    BY CountedPairs
  <2> QED BY <2>1
<1>2. /\ IsFiniteSet(first) /\ Cardinality(first) \in Nat
      /\ Cardinality(first) <= k * Cardinality(rows)
  <2>1. first \subseteq rows \X (1 .. k)
    <3> SUFFICES ASSUME NEW p \in first PROVE p \in rows \X (1 .. k)
      OBVIOUS
    <3>1. p[1] \in rows /\ p[2] \in 1 .. k /\ p = <<p[1], p[2]>>
      BY <1>1
    <3> QED BY <3>1
  <2>2. IsFiniteSet(1 .. k) /\ Cardinality(1 .. k) = k
    BY FS_Interval
  <2>3. /\ IsFiniteSet(rows \X (1 .. k))
        /\ Cardinality(rows \X (1 .. k)) = Cardinality(rows) * k
    BY <2>2, FS_Product
  <2>4. Cardinality(rows) \in Nat
    BY FS_CardinalityType
  <2>5. Cardinality(rows) * k = k * Cardinality(rows)
    BY <2>4
  <2> HIDE DEF first
  <2> QED BY <2>1, <2>3, <2>5, FS_Subset, FS_CardinalityType
<1>3. /\ IsFiniteSet(second) /\ Cardinality(second) \in Nat
      /\ Cardinality(second) <= Cardinality(Counted(rows, u))
  <2> DEFINE f == [p \in second |-> <<p[1], p[2] - a[p[1]]>>]
  <2>1. ASSUME NEW p \in second
        PROVE  <<p[1], p[2] - a[p[1]]>> \in Counted(rows, u)
    <3>1. p[1] \in rows /\ p[2] - a[p[1]] \in 1 .. u[p[1]]
      BY <1>1
    <3> QED BY <3>1, CountedPairs
  <2>2. ASSUME NEW p \in second, NEW r \in second,
               <<p[1], p[2] - a[p[1]]>> = <<r[1], r[2] - a[r[1]]>>
        PROVE  p = r
    <3>1. p[1] = r[1] /\ p[2] - a[p[1]] = r[2] - a[p[1]]
      BY <2>2
    <3>2. p[2] \in Nat /\ r[2] \in Nat /\ a[p[1]] \in Nat
      BY <1>1
    <3>3. p[2] = r[2]
      BY <3>1, <3>2
    <3> QED BY <1>1, <3>1, <3>3
  <2> HIDE DEF second
  <2>3. f \in Injection(second, Counted(rows, u))
    BY <2>1, <2>2 DEF Injection, IsInjective
  <2>4. IsFiniteSet(Counted(rows, u))
    BY CountedIsFinite
  <2> HIDE DEF f
  <2> QED BY <2>3, <2>4, FS_Injection, FS_CardinalityType
<1>4. /\ IsFiniteSet(last) /\ Cardinality(last) \in Nat
      /\ Cardinality(last) <= Cardinality(one)
  <2> DEFINE f == [p \in last |-> p[1]]
  <2>1. ASSUME NEW p \in last
        PROVE  p[1] \in one /\ p[2] = a[p[1]] + u[p[1]] + 1
    <3>1. n[p[1]] \in Nat
      BY <1>1
    <3> QED BY <1>1, <3>1
  <2>2. ASSUME NEW p \in last, NEW r \in last, p[1] = r[1] PROVE p = r
    <3>1. p[1] = r[1] /\ p[2] = r[2]
      BY <2>1, <2>2
    <3> QED BY <1>1, <3>1
  <2> HIDE DEF last
  <2>3. f \in Injection(last, one)
    BY <2>1, <2>2 DEF Injection, IsInjective
  <2>4. IsFiniteSet(one)
    BY FS_Subset
  <2> HIDE DEF f
  <2> QED BY <2>3, <2>4, FS_Injection, FS_CardinalityType
<1>5. all \subseteq (first \cup second) \cup last
  BY <1>1
<1> HIDE DEF all, first, second, last
<1> DEFINE both == first \cup second
<1>6. /\ IsFiniteSet(both) /\ Cardinality(both) \in Nat
      /\ Cardinality(both) <= Cardinality(first) + Cardinality(second)
  <2>1. /\ IsFiniteSet(both)
        /\ Cardinality(both) = Cardinality(first) + Cardinality(second)
                                  - Cardinality(first \cap second)
    BY <1>2, <1>3, FS_Union
  <2>2. Cardinality(both) \in Nat /\ Cardinality(first \cap second) \in Nat
    BY <1>2, <2>1, FS_Intersection, FS_CardinalityType
  <2> QED BY <1>2, <1>3, <2>1, <2>2
<1> HIDE DEF both
<1>7. /\ IsFiniteSet(both \cup last)
      /\ Cardinality(both \cup last) <= Cardinality(both) + Cardinality(last)
  <2>1. /\ IsFiniteSet(both \cup last)
        /\ Cardinality(both \cup last) = Cardinality(both) + Cardinality(last)
                                            - Cardinality(both \cap last)
    BY <1>4, <1>6, FS_Union
  <2>2. Cardinality(both \cup last) \in Nat /\ Cardinality(both \cap last) \in Nat
    BY <1>6, <2>1, FS_Intersection, FS_CardinalityType
  <2> QED BY <1>4, <1>6, <2>1, <2>2
<1>8. Cardinality(all) <= Cardinality(both \cup last)
  BY <1>5, <1>7, FS_Subset DEF both
<1>9. /\ Cardinality(all) \in Nat /\ Cardinality(both \cup last) \in Nat
      /\ Cardinality(rows) \in Nat /\ Cardinality(one) \in Nat
      /\ Cardinality(Counted(rows, u)) \in Nat
  BY <1>7, CountedIsFinite, FS_CardinalityType, FS_Subset DEF all
<1>10. k * Cardinality(rows) \in Nat
  BY <1>9
<1> DEFINE X == k * Cardinality(rows)
<1> HIDE DEF X
<1>11. X \in Nat /\ Cardinality(first) <= X
  BY <1>2, <1>10 DEF X
<1>12. Cardinality(all) <= X + Cardinality(Counted(rows, u)) + Cardinality(one)
  BY <1>2, <1>3, <1>4, <1>6, <1>7, <1>8, <1>9, <1>11
<1> QED BY <1>12 DEF X, all

(* Adding to one entry of a table adds to the records of that event. *)
LEMMA AddedInBoth ==
    ASSUME NEW F \in [Topics -> [Events -> Nat]], NEW t \in Topics,
           NEW e \in Events, NEW n \in Nat, NEW G, Adds(F, t, e, n, G)
    PROVE  /\ InBothTopics(G, e) = InBothTopics(F, e) + n
           /\ \A f \in Events \ {e} : InBothTopics(G, f) = InBothTopics(F, f)
           /\ \A f \in Events : InBothTopics(F, f) \in Nat
<1> DEFINE live == "transaction-events"
           replay == "transaction-events-replay"
<1>1. /\ G[t][e] = F[t][e] + n
      /\ \A u \in Topics, f \in Events : u # t \/ f # e => G[u][f] = F[u][f]
  BY Added DEF Adds
<1>2. t \in {live, replay} /\ live # replay /\ live \in Topics /\ replay \in Topics
  BY DEF Topics
<1> HIDE DEF live, replay
<1>3. ASSUME NEW f \in Events PROVE F[live][f] \in Nat /\ F[replay][f] \in Nat
  BY <1>2
<1>4. ASSUME NEW H, NEW f
      PROVE  InBothTopics(H, f) = H[live][f] + H[replay][f]
  BY DEF InBothTopics, live, replay
<1>5. G[live][e] + G[replay][e] = F[live][e] + F[replay][e] + n
  <2>1. CASE t = live
    <3>1. G[live][e] = F[live][e] + n /\ G[replay][e] = F[replay][e]
      BY <1>1, <1>2, <2>1
    <3> QED BY <1>3, <3>1
  <2>2. CASE t = replay
    <3>1. G[replay][e] = F[replay][e] + n /\ G[live][e] = F[live][e]
      BY <1>1, <1>2, <2>2
    <3> QED BY <1>3, <3>1
  <2> QED BY <1>2, <2>1, <2>2
<1>6. \A f \in Events \ {e} : G[live][f] = F[live][f] /\ G[replay][f] = F[replay][f]
  BY <1>1, <1>2
<1>7. InBothTopics(G, e) = InBothTopics(F, e) + n
  BY <1>4, <1>5
<1>8. \A f \in Events \ {e} : InBothTopics(G, f) = InBothTopics(F, f)
  BY <1>4, <1>6
<1>9. \A f \in Events : InBothTopics(F, f) \in Nat
  BY <1>3, <1>4
<1> QED BY <1>7, <1>8, <1>9

(* The counts of an event are numbers. *)
LEMMA CountTypes ==
    ASSUME SystemTypeOK, NEW e \in Events
    PROVE  /\ \A F \in [Topics -> [Events -> Nat]] : InBothTopics(F, e) \in Nat
           /\ HandledOf(e) \in Nat /\ Receipts(e) \in Nat /\ givenUp[e] \in Nat
           /\ RowsOf(e) \in SUBSET Rows /\ PassedRows(e) \in SUBSET RowsOf(e)
<1>1. ASSUME NEW F \in [Topics -> [Events -> Nat]] PROVE InBothTopics(F, e) \in Nat
  BY DEF InBothTopics, Topics
<1>2. /\ handled["fraud-event-consumer"] \in [Topics -> [Events -> Nat]]
      /\ handled["fraud-event-replay-consumer"] \in [Topics -> [Events -> Nat]]
  BY DEF SystemTypeOK, Groups
<1>3. HandledOf(e) \in Nat
  BY <1>1, <1>2 DEF HandledOf
<1> QED BY <1>1, <1>3 DEF SystemTypeOK, Receipts, RowsOf, PassedRows

(* The rows and the copies of an event are finitely many. *)
LEMMA CopiesAreFinite ==
    ASSUME SystemTypeOK, OffsetInv, NEW e \in Events
    PROVE  /\ topic \in [Rows -> Nat]
           /\ RowsOf(e) \in SUBSET Rows /\ IsFiniteSet(RowsOf(e))
           /\ IsFiniteSet(CopiesOf(e)) /\ Cardinality(CopiesOf(e)) \in Nat
<1>1. topic \in [Rows -> Nat]
  BY DEF SystemTypeOK, TypeOK
<1>2. RowsOf(e) \in SUBSET Rows /\ IsFiniteSet(RowsOf(e))
  BY DEF OffsetInv, RowsOf
<1> QED BY <1>1, <1>2, CountedIsFinite DEF CopiesOf

(* New records disturb neither the offsets of the rows nor the groups. *)
LEMMA NewRecords ==
    ASSUME SystemInv, UNCHANGED <<handled, source, result, givenUp>>,
           \A d \in Rows : status'[d] = "ABSENT" <=> status[d] = "ABSENT",
           records' \in [Topics -> [Events -> Nat]],
           \A u \in Topics, f \in Events : records'[u][f] >= records[u][f]
    PROVE  /\ OffsetInv' /\ ProgressInv'
           /\ \A f \in Events : RowsOf(f)' = RowsOf(f)
<1>1. /\ records \in [Topics -> [Events -> Nat]]
      /\ handled \in [Groups -> [Topics -> [Events -> Nat]]]
      /\ OffsetInv /\ ProgressInv /\ SourceInv
  BY DEF SystemInv, SystemTypeOK, AccountInv
<1>2. \A f \in Events : RowsOf(f)' = RowsOf(f)
  BY DEF RowsOf
<1>3. ASSUME NEW f \in Events, NEW d \in RowsOf(f)
      PROVE  source[d][2] \in 1 .. records'[source[d][1]][f]
  <2>1. source[d] \in Topics \X Nat /\ source[d][2] \in 1 .. records[source[d][1]][f]
    BY <1>1 DEF OffsetInv, SourceInv, RowsOf
  <2>2. source[d][1] \in Topics
    BY <2>1
  <2>3. /\ records[source[d][1]][f] \in Nat /\ records'[source[d][1]][f] \in Nat
        /\ records'[source[d][1]][f] >= records[source[d][1]][f]
    BY <1>1, <2>2
  <2> QED BY <2>1, <2>3
<1>4. OffsetInv'
  BY <1>1, <1>2, <1>3 DEF OffsetInv
<1>5. ASSUME NEW f \in Events, NEW g \in Groups, NEW u \in Topics
      PROVE  handled[g][u][f] <= records'[u][f]
  <2>1. handled[g][u][f] <= records[u][f]
    BY <1>1 DEF ProgressInv
  <2>2. handled[g][u][f] \in Nat /\ records[u][f] \in Nat /\ records'[u][f] \in Nat
    BY <1>1
  <2>3. records'[u][f] >= records[u][f]
    OBVIOUS
  <2> QED BY <2>1, <2>2, <2>3
<1>6. \A f \in Events : PassedRows(f)' = PassedRows(f) /\ HandledOf(f)' = HandledOf(f)
  BY <1>2 DEF PassedRows, HandledOf
<1>7. ProgressInv'
  BY <1>1, <1>5, <1>6 DEF ProgressInv
<1> QED BY <1>2, <1>4, <1>7

(* Records, and sends that may still become one. *)
SentOf(e) == InBothTopics(records, e) + InBothTopics(adrift, e)

(* A request of the intake sends an event for a receipt or as an orphan. *)
LEMMA AcceptAccounts ==
    ASSUME SystemInv, NEW c, NEW e \in Events, Accept(c, e) \/ AcceptFails(c, e)
    PROVE  AccountInv'
<1> DEFINE t == c.topic
<1>1. /\ receipt[e] = None /\ t \in Topics /\ c.mode \in Modes
      /\ UNCHANGED <<status, topic, handled, source, result, givenUp>>
  BY ValidConfigs, TopicOfMode DEF Accept, AcceptFails, vars, dbVars
<1>2. /\ receipt \in [Events -> Modes \cup {None}]
      /\ records \in [Topics -> [Events -> Nat]]
      /\ adrift \in [Topics -> [Events -> Nat]]
      /\ orphans \in [Topics -> [Events -> Nat]]
      /\ SystemTypeOK /\ OffsetInv /\ OriginInv
  BY DEF SystemInv, SystemTypeOK, AccountInv
<1>3. PICK n \in {0, 1} :
         /\ \/ records' = [records EXCEPT ![t][e] = @ + n] /\ adrift' = adrift
            \/ records' = records /\ adrift' = [adrift EXCEPT ![t][e] = @ + n]
         /\ \/ receipt' = [receipt EXCEPT ![e] = c.mode] /\ orphans' = orphans
            \/ receipt' = receipt /\ orphans' = [orphans EXCEPT ![t][e] = @ + n]
  <2>1. CASE Accept(c, e)
    BY <2>1 DEF Accept
  <2>2. CASE AcceptFails(c, e)
    BY <2>2 DEF AcceptFails
  <2> QED BY <2>1, <2>2
<1>4. n \in Nat
  OBVIOUS
<1>5. /\ records' \in [Topics -> [Events -> Nat]]
      /\ \A u \in Topics, f \in Events : records'[u][f] >= records[u][f]
  <2>1. CASE records' = [records EXCEPT ![t][e] = @ + n]
    BY <1>1, <1>2, <1>4, <2>1, Added
  <2>2. CASE records' = records
    BY <1>2, <2>2
  <2> QED BY <1>3, <2>1, <2>2
<1>6. /\ SentOf(e)' = SentOf(e) + n
      /\ \A f \in Events \ {e} : SentOf(f)' = SentOf(f)
      /\ \A f \in Events : SentOf(f) \in Nat
  <2>1. \A f \in Events : InBothTopics(records, f) \in Nat /\ InBothTopics(adrift, f) \in Nat
    BY <1>2, CountTypes
  <2>2. CASE records' = [records EXCEPT ![t][e] = @ + n] /\ adrift' = adrift
    <3>1. Adds(records, t, e, n, records')
      BY <2>2 DEF Adds
    <3>2. \A f \in Events : InBothTopics(adrift', f) = InBothTopics(adrift, f)
      BY <2>2
    <3> HIDE DEF t
    <3>3. /\ InBothTopics(records', e) = InBothTopics(records, e) + n
          /\ \A f \in Events \ {e} : InBothTopics(records', f) = InBothTopics(records, f)
      BY <1>1, <1>2, <1>4, <3>1, AddedInBoth
    <3> QED BY <1>4, <2>1, <3>2, <3>3 DEF SentOf, InBothTopics
  <2>3. CASE records' = records /\ adrift' = [adrift EXCEPT ![t][e] = @ + n]
    <3>1. Adds(adrift, t, e, n, adrift')
      BY <2>3 DEF Adds
    <3>2. \A f \in Events : InBothTopics(records', f) = InBothTopics(records, f)
      BY <2>3
    <3>4. adrift \in [Topics -> [Events -> Nat]] /\ t \in Topics
      BY <1>1, <1>2
    <3> HIDE DEF t
    <3>3. /\ InBothTopics(adrift', e) = InBothTopics(adrift, e) + n
          /\ \A f \in Events \ {e} : InBothTopics(adrift', f) = InBothTopics(adrift, f)
      BY <1>4, <3>1, <3>4, AddedInBoth
    <3> QED BY <1>4, <2>1, <3>2, <3>3 DEF SentOf, InBothTopics
  <2> QED BY <1>3, <2>1, <2>2, <2>3 DEF SentOf
<1>7. /\ OffsetInv' /\ ProgressInv'
      /\ \A f \in Events : RowsOf(f)' = RowsOf(f)
  BY <1>1, <1>5, NewRecords
<1>8. \A f \in Events : CopiesOf(f)' = CopiesOf(f)
  BY <1>1, <1>7 DEF CopiesOf, Counted
<1>9. \A f \in Events : Receipts(f) \in Nat /\ InBothTopics(orphans, f) \in Nat
  BY <1>2, CountTypes
<1>10. \A f \in Events : /\ f = e => Receipts(f)' + InBothTopics(orphans', f)
                                       >= Receipts(f) + InBothTopics(orphans, f) + n
                         /\ f # e => /\ Receipts(f)' = Receipts(f)
                                     /\ InBothTopics(orphans', f) = InBothTopics(orphans, f)
  <2>1. CASE receipt' = [receipt EXCEPT ![e] = c.mode] /\ orphans' = orphans
    <3>1. /\ Receipts(e)' = 1 /\ Receipts(e) = 0
          /\ \A f \in Events \ {e} : Receipts(f)' = Receipts(f)
      BY <1>1, <1>2, <2>1 DEF Receipts
    <3> QED BY <1>9, <2>1, <3>1
  <2>2. CASE receipt' = receipt /\ orphans' = [orphans EXCEPT ![t][e] = @ + n]
    <3>1. \A f \in Events : Receipts(f)' = Receipts(f)
      BY <2>2 DEF Receipts
    <3>2. /\ InBothTopics(orphans', e) = InBothTopics(orphans, e) + n
          /\ \A f \in Events \ {e} : InBothTopics(orphans', f) = InBothTopics(orphans, f)
      <4>1. Adds(orphans, t, e, n, orphans')
        BY <2>2 DEF Adds
      <4>2. orphans \in [Topics -> [Events -> Nat]] /\ t \in Topics
        BY <1>1, <1>2
      <4> HIDE DEF t
      <4> QED BY <1>4, <4>1, <4>2, AddedInBoth
    <3> QED BY <1>9, <3>1, <3>2
  <2> QED BY <1>3, <2>1, <2>2
<1>11. \A f \in Events : Receipts(f)' \in Nat /\ InBothTopics(orphans', f) \in Nat
  <2>1. CASE receipt' = [receipt EXCEPT ![e] = c.mode] /\ orphans' = orphans
    BY <1>9, <2>1 DEF Receipts
  <2>2. CASE receipt' = receipt /\ orphans' = [orphans EXCEPT ![t][e] = @ + n]
    <3>1. orphans' \in [Topics -> [Events -> Nat]]
      BY <1>1, <1>2, <1>4, <2>2, Added
    <3> QED BY <1>2, <2>2, <3>1, CountTypes DEF Receipts
  <2> QED BY <1>3, <2>1, <2>2
<1>12. OriginInv'
  <2> SUFFICES ASSUME NEW f \in Events
               PROVE  SentOf(f)' <=
                        Receipts(f)' + InBothTopics(orphans', f)
                          + Cardinality(CopiesOf(f)')
    BY DEF OriginInv, SentOf, InBothTopics
  <2>1. /\ SentOf(f) <=
              Receipts(f) + InBothTopics(orphans, f) + Cardinality(CopiesOf(f))
        /\ Cardinality(CopiesOf(f)) \in Nat
    BY <1>2, CopiesAreFinite DEF OriginInv, SentOf
  <2>2. Cardinality(CopiesOf(f)') = Cardinality(CopiesOf(f))
    BY <1>8
  <2>3. CASE f = e
    BY <1>4, <1>6, <1>9, <1>10, <1>11, <2>1, <2>2, <2>3
  <2>4. CASE f # e
    BY <1>6, <1>10, <2>1, <2>2, <2>4
  <2> QED BY <2>3, <2>4
<1> QED BY <1>7, <1>12 DEF AccountInv

(* A record that arrives late was accounted for when it was sent. *)
LEMMA ArrivalAccounts ==
    ASSUME SystemInv, StreamsAreIsolated, TypeOK', NEW t \in Topics,
           NEW e \in Events, EventArrives(t, e)
    PROVE  AccountInv'
<1>1. /\ UNCHANGED <<status, topic, receipt, orphans, handled, source, result, givenUp>>
      /\ Adds(records, t, e, 1, records') /\ Adds(adrift', t, e, 1, adrift)
      /\ records' \in [Topics -> [Events -> Nat]]
      /\ adrift' \in [Topics -> [Events -> Nat]]
  BY ArrivalStreamInvariant DEF EventArrives, vars, dbVars, SystemTypeOK
<1>2. /\ records \in [Topics -> [Events -> Nat]]
      /\ SystemTypeOK /\ OriginInv /\ 1 \in Nat
  BY DEF SystemInv, SystemTypeOK, AccountInv
<1>3. \A u \in Topics, f \in Events : records'[u][f] >= records[u][f]
  BY <1>1, <1>2, Added DEF Adds
<1>4. /\ OffsetInv' /\ ProgressInv'
      /\ \A f \in Events : RowsOf(f)' = RowsOf(f)
  BY <1>1, <1>3, NewRecords
<1>5. /\ InBothTopics(records', e) = InBothTopics(records, e) + 1
      /\ \A f \in Events \ {e} : InBothTopics(records', f) = InBothTopics(records, f)
      /\ \A f \in Events : InBothTopics(records, f) \in Nat
  BY <1>1, <1>2, AddedInBoth
<1>6. /\ InBothTopics(adrift, e) = InBothTopics(adrift', e) + 1
      /\ \A f \in Events \ {e} : InBothTopics(adrift, f) = InBothTopics(adrift', f)
      /\ \A f \in Events : InBothTopics(adrift', f) \in Nat
  BY <1>1, <1>2, AddedInBoth
<1>7. ASSUME NEW f \in Events
      PROVE  InBothTopics(records', f) + InBothTopics(adrift', f)
                = InBothTopics(records, f) + InBothTopics(adrift, f)
  BY <1>5, <1>6
<1>8. \A f \in Events : CopiesOf(f)' = CopiesOf(f) /\ Receipts(f)' = Receipts(f)
  BY <1>1, <1>4 DEF CopiesOf, Counted, Receipts
<1>9. OriginInv'
  <2> SUFFICES ASSUME NEW f \in Events
               PROVE  InBothTopics(records', f) + InBothTopics(adrift', f) <=
                        Receipts(f) + InBothTopics(orphans, f) + Cardinality(CopiesOf(f))
    BY <1>1, <1>8 DEF OriginInv, InBothTopics
  <2> QED BY <1>2, <1>7 DEF OriginInv
<1> QED BY <1>4, <1>9 DEF AccountInv

(* A delivery may store the row of its own record, and touches no other.   *)
LEMMA RowStored ==
    ASSUME SystemInv, NEW c, NEW e \in Events, Delivered(c, e), UNCHANGED records,
           UNCHANGED <<vars, source>> \/ \E d \in Rows : StoreRow(c, e, d)
    PROVE  /\ OffsetInv' /\ UNCHANGED topic
           /\ \A f \in Events :
                 /\ RowsOf(f) \subseteq RowsOf(f)'
                 /\ f # e => RowsOf(f)' = RowsOf(f)
                 /\ \A d \in RowsOf(f) : source'[d] = source[d]
<1>1. /\ OffsetInv /\ SourceInv
      /\ records \in [Topics -> [Events -> Nat]]
      /\ handled \in [Groups -> [Topics -> [Events -> Nat]]]
      /\ source \in [Rows -> (Topics \X Nat) \cup {None}]
      /\ status \in [Rows -> Statuses \cup {"ABSENT"}]
  BY DEF SystemInv, SystemTypeOK, TypeOK, AccountInv
<1>2. CASE UNCHANGED <<vars, source>>
  <2>1. UNCHANGED <<status, topic, source>>
    BY <1>2 DEF vars, dbVars
  <2>2. \A f : RowsOf(f)' = RowsOf(f)
    BY <2>1 DEF RowsOf
  <2> QED BY <1>1, <2>1, <2>2 DEF OffsetInv
<1>3. ASSUME NEW d \in Rows, StoreRow(c, e, d), ~UNCHANGED <<vars, source>>
      PROVE  /\ OffsetInv' /\ UNCHANGED topic
             /\ \A f \in Events :
                   /\ RowsOf(f) \subseteq RowsOf(f)'
                   /\ f # e => RowsOf(f)' = RowsOf(f)
                   /\ \A x \in RowsOf(f) : source'[x] = source[x]
  <2> DEFINE p == Position(c, e)
  <2>1. /\ EventOf[d] = e /\ status[d] = "ABSENT" /\ UNCHANGED topic
        /\ \A x \in Rows : EventOf[x] = e => source[x] # p
        /\ source' = [source EXCEPT ![d] = p]
        /\ status' = [status EXCEPT ![d] = "PENDING"]
    BY <1>3 DEF StoreRow, RecordFailure
  <2>2. p[1] \in Topics /\ p[2] \in 1 .. records[p[1]][e] /\ p \in Topics \X Nat
    <3>1. c.topic \in Topics /\ c.group \in Groups
      BY ValidConfigs DEF Delivered
    <3>2. /\ handled[c.group][c.topic][e] \in Nat /\ records[c.topic][e] \in Nat
          /\ handled[c.group][c.topic][e] < records[c.topic][e]
      BY <1>1, <3>1 DEF Delivered, Waiting
    <3> QED BY <3>1, <3>2 DEF Position
  <2> HIDE DEF p
  <2>3. /\ source'[d] = p /\ status'[d] = "PENDING"
        /\ \A x \in Rows \ {d} : source'[x] = source[x] /\ status'[x] = status[x]
    BY <1>1, <2>1
  <2>4. ASSUME NEW f \in Events
        PROVE  /\ d \notin RowsOf(f)
               /\ RowsOf(f)' = IF f = e THEN RowsOf(f) \cup {d} ELSE RowsOf(f)
    BY <2>1, <2>3 DEF RowsOf
  <2>5. \A f \in Events : \A x \in RowsOf(f) : x \in Rows \ {d} /\ source'[x] = source[x]
    BY <2>3, <2>4 DEF RowsOf
  <2>6. ASSUME NEW f \in Events
        PROVE  /\ IsFiniteSet(RowsOf(f)')
               /\ \A x, y \in RowsOf(f)' : source'[x] = source'[y] => x = y
               /\ \A x \in RowsOf(f)' : source'[x][2] \in 1 .. records[source'[x][1]][f]
    <3>1. /\ IsFiniteSet(RowsOf(f))
          /\ \A x, y \in RowsOf(f) : source[x] = source[y] => x = y
          /\ \A x \in RowsOf(f) : source[x][2] \in 1 .. records[source[x][1]][f]
      BY <1>1 DEF OffsetInv
    <3>2. CASE f = e
      <4>1. RowsOf(f)' = RowsOf(f) \cup {d}
        BY <2>4, <3>2
      <4>2. IsFiniteSet(RowsOf(f) \cup {d})
        BY <3>1, FS_AddElement
      <4>3. \A x \in RowsOf(f) : source'[x] # p
        BY <2>1, <2>5, <3>2 DEF RowsOf
      <4>4. ASSUME NEW x \in RowsOf(f)', NEW y \in RowsOf(f)', source'[x] = source'[y]
            PROVE  x = y
        BY <2>3, <2>5, <3>1, <4>1, <4>3, <4>4
      <4>5. ASSUME NEW x \in RowsOf(f)'
            PROVE  source'[x][2] \in 1 .. records[source'[x][1]][f]
        BY <2>2, <2>3, <2>5, <3>1, <3>2, <4>1
      <4>6. IsFiniteSet(RowsOf(f)')
        BY <4>1, <4>2, Zenon
      <4> QED BY <4>4, <4>5, <4>6
    <3>3. CASE f # e
      <4>1. RowsOf(f)' = RowsOf(f)
        BY <2>4, <3>3
      <4> QED BY <2>5, <3>1, <4>1
    <3> QED BY <3>2, <3>3
  <2>7. \A x \in Rows : status'[x] = "ABSENT" => source'[x] = None
    BY <1>1, <2>3 DEF OffsetInv
  <2>8. OffsetInv'
    BY <2>6, <2>7 DEF OffsetInv
  <2> QED BY <2>1, <2>4, <2>5, <2>8
<1> QED BY <1>2, <1>3

(* A delivery that is acknowledged counts one record more. *)
LEMMA Acknowledged ==
    ASSUME SystemTypeOK, NEW c, NEW e \in Events, Delivered(c, e), Acknowledge(c, e)
    PROVE  /\ handled' \in [Groups -> [Topics -> [Events -> Nat]]]
           /\ HandledOf(e)' = HandledOf(e) + 1
           /\ \A f \in Events \ {e} : HandledOf(f)' = HandledOf(f)
           /\ \A g \in Groups, t \in Topics, f \in Events :
                 handled'[g][t][f] = IF g = c.group /\ t = c.topic /\ f = e
                                     THEN handled[g][t][f] + 1 ELSE handled[g][t][f]
<1> DEFINE g == c.group
           t == c.topic
<1>1. g \in Groups /\ t \in Topics
  BY ValidConfigs DEF Delivered
<1>2. handled \in [Groups -> [Topics -> [Events -> Nat]]]
  BY DEF SystemTypeOK
<1>3. handled' = [handled EXCEPT ![g] = [handled[g] EXCEPT ![t][e] = @ + 1]]
  BY <1>1, <1>2 DEF Acknowledge
<1>4. handled[g] \in [Topics -> [Events -> Nat]]
  BY <1>1, <1>2
<1>5. Adds(handled[g], t, e, 1, handled'[g])
  BY <1>1, <1>2, <1>3 DEF Adds
<1>6. \A h \in Groups \ {g} : handled'[h] = handled[h]
  BY <1>2, <1>3
<1>7. /\ handled'[g] \in [Topics -> [Events -> Nat]]
      /\ \A u \in Topics, f \in Events :
            handled'[g][u][f] = IF u = t /\ f = e THEN handled[g][u][f] + 1
                                ELSE handled[g][u][f]
  BY <1>1, <1>4, <1>5, Added DEF Adds
<1>8. /\ InBothTopics(handled'[g], e) = InBothTopics(handled[g], e) + 1
      /\ \A f \in Events \ {e} : InBothTopics(handled'[g], f) = InBothTopics(handled[g], f)
      /\ \A f \in Events : InBothTopics(handled[g], f) \in Nat
  <2>1. 1 \in Nat
    OBVIOUS
  <2> HIDE DEF g, t
  <2> QED BY <1>1, <1>4, <1>5, <2>1, AddedInBoth
<1>9. handled' \in [Groups -> [Topics -> [Events -> Nat]]]
  BY <1>2, <1>3, <1>6, <1>7
<1> DEFINE live == "fraud-event-consumer"
           replay == "fraud-event-replay-consumer"
<1>10. g \in {live, replay} /\ live # replay /\ live \in Groups /\ replay \in Groups
  BY <1>1 DEF Groups
<1>11. /\ \A f : HandledOf(f) = InBothTopics(handled[live], f) + InBothTopics(handled[replay], f)
       /\ \A f : HandledOf(f)' = InBothTopics(handled'[live], f) + InBothTopics(handled'[replay], f)
  BY DEF HandledOf, InBothTopics
<1> HIDE DEF g, t, live, replay
<1>12. \A h \in Groups, f \in Events : InBothTopics(handled[h], f) \in Nat
  BY <1>2, CountTypes
<1>13. HandledOf(e)' = HandledOf(e) + 1
  <2>1. CASE g = live
    <3>1. handled'[replay] = handled[replay]
      BY <1>6, <1>10, <2>1
    <3> QED BY <1>8, <1>10, <1>11, <1>12, <2>1, <3>1
  <2>2. CASE g = replay
    <3>1. handled'[live] = handled[live]
      BY <1>6, <1>10, <2>2
    <3> QED BY <1>8, <1>10, <1>11, <1>12, <2>2, <3>1
  <2> QED BY <1>10, <2>1, <2>2
<1>14. ASSUME NEW f \in Events \ {e} PROVE HandledOf(f)' = HandledOf(f)
  <2>1. ASSUME NEW h \in Groups PROVE InBothTopics(handled'[h], f) = InBothTopics(handled[h], f)
    BY <1>6, <1>8
  <2> QED BY <1>10, <1>11, <2>1
<1>15. \A h \in Groups, u \in Topics, f \in Events :
          handled'[h][u][f] = IF h = g /\ u = t /\ f = e
                              THEN handled[h][u][f] + 1 ELSE handled[h][u][f]
  BY <1>6, <1>7
<1> QED BY <1>9, <1>13, <1>14, <1>15 DEF g, t

(* What a delivery passes it has decided, given up, or stored under a row  *)
(* of its own.                                                             *)
LEMMA DeliveryAccounts ==
    ASSUME SystemInv, NEW c, NEW e \in Events, Delivered(c, e),
           UNCHANGED <<receipt, records, adrift, orphans>>,
           UNCHANGED <<vars, source>> \/ \E d \in Rows : StoreRow(c, e, d),
           result' \in {result, [result EXCEPT ![e] = c.mode]},
           givenUp' \in {givenUp, [givenUp EXCEPT ![e] = @ + 1]},
           \/ UNCHANGED handled
           \/ /\ Acknowledge(c, e)
              /\ \/ result'[e] # None
                 \/ givenUp' = [givenUp EXCEPT ![e] = @ + 1]
                 \/ \E d \in Rows : StoreRow(c, e, d)
    PROVE  AccountInv'
<1> DEFINE t == c.topic
           g == c.group
<1>1. t \in Topics /\ g \in Groups /\ g = GroupOf(t) /\ c.mode # None
  <2>1. ValidConsumer(c)
    BY DEF Delivered
  <2>2. t \in Topics /\ g \in Groups /\ g = GroupOf(t) /\ c.mode \in Modes
    BY <2>1 DEF ValidConsumer, GroupOf, Topics, Groups, Modes
  <2> QED BY <2>2
<1>2. /\ SystemTypeOK /\ OffsetInv /\ ProgressInv /\ OriginInv /\ SourceInv
      /\ records \in [Topics -> [Events -> Nat]]
      /\ handled \in [Groups -> [Topics -> [Events -> Nat]]]
      /\ source \in [Rows -> (Topics \X Nat) \cup {None}]
      /\ result \in [Events -> Modes \cup {None}]
      /\ givenUp \in [Events -> Nat]
  BY DEF SystemInv, SystemTypeOK, AccountInv
<1>3. /\ OffsetInv' /\ UNCHANGED topic
      /\ \A f \in Events :
            /\ RowsOf(f) \subseteq RowsOf(f)'
            /\ f # e => RowsOf(f)' = RowsOf(f)
            /\ \A d \in RowsOf(f) : source'[d] = source[d]
  BY RowStored
<1>4. /\ \A h \in Groups, u \in Topics, f \in Events :
            /\ handled'[h][u][f] \in Nat /\ handled[h][u][f] \in Nat
            /\ handled'[h][u][f] >= handled[h][u][f]
            /\ f # e => handled'[h][u][f] = handled[h][u][f]
            /\ handled'[h][u][f] # handled[h][u][f] =>
                  h = g /\ u = t /\ handled'[h][u][f] = handled[h][u][f] + 1
  <2>1. CASE UNCHANGED handled
    BY <1>2, <2>1
  <2>2. CASE Acknowledge(c, e)
    BY <1>2, <2>2, Acknowledged
  <2> QED BY <2>1, <2>2
<1>5. ASSUME NEW h \in Groups, NEW u \in Topics, NEW f \in Events
      PROVE  handled'[h][u][f] <= records[u][f]
  <2>1. handled[h][u][f] <= records[u][f]
    BY <1>2 DEF ProgressInv
  <2>2. handled[g][t][e] < records[t][e]
    BY DEF Delivered, Waiting
  <2>3. records[u][f] \in Nat /\ handled'[h][u][f] \in Nat /\ handled[h][u][f] \in Nat
    BY <1>2, <1>4
  <2> QED BY <1>4, <2>1, <2>2, <2>3
<1>6. \A d \in Rows, f \in Events : d \in RowsOf(f) =>
         /\ source[d][1] \in Topics /\ source[d][2] \in Nat
         /\ GroupOf(source[d][1]) \in Groups
  BY <1>2 DEF SourceInv, RowsOf, GroupOf, Groups
<1>7. ASSUME NEW f \in Events PROVE PassedRows(f) \subseteq PassedRows(f)'
  <2> SUFFICES ASSUME NEW d \in PassedRows(f) PROVE d \in PassedRows(f)'
    OBVIOUS
  <2>1. /\ d \in RowsOf(f) /\ d \in Rows
        /\ source[d][2] <= handled[GroupOf(source[d][1])][source[d][1]][f]
    BY DEF PassedRows, RowsOf
  <2>2. /\ source[d][1] \in Topics /\ source[d][2] \in Nat
        /\ GroupOf(source[d][1]) \in Groups
    BY <1>6, <2>1
  <2>3. source[d][2] <= handled'[GroupOf(source[d][1])][source[d][1]][f]
    BY <1>4, <2>1, <2>2
  <2>4. d \in RowsOf(f)' /\ source'[d] = source[d]
    BY <1>3, <2>1
  <2> QED BY <2>3, <2>4 DEF PassedRows, GroupOf
<1>8. ASSUME NEW f \in Events \ {e}
      PROVE  PassedRows(f)' = PassedRows(f) /\ HandledOf(f)' = HandledOf(f)
  <2>1. RowsOf(f)' = RowsOf(f) /\ \A d \in RowsOf(f) : source'[d] = source[d]
    BY <1>3
  <2>2. PassedRows(f)' = PassedRows(f)
    <3>1. ASSUME NEW d \in PassedRows(f)' PROVE d \in PassedRows(f)
      <4>1. /\ d \in RowsOf(f) /\ d \in Rows /\ source'[d] = source[d]
            /\ source[d][2] <= handled'[GroupOf(source[d][1])][source[d][1]][f]
        BY <2>1 DEF PassedRows, RowsOf, GroupOf
      <4>2. source[d][1] \in Topics /\ GroupOf(source[d][1]) \in Groups
        BY <1>6, <4>1
      <4>3. source[d][2] <= handled[GroupOf(source[d][1])][source[d][1]][f]
        BY <1>4, <4>1, <4>2
      <4> QED BY <4>1, <4>3 DEF PassedRows
    <3> QED BY <1>7, <3>1
  <2>3. HandledOf(f)' = HandledOf(f)
    <3>1. CASE UNCHANGED handled
      BY <3>1 DEF HandledOf
    <3>2. CASE Acknowledge(c, e)
      BY <1>2, <3>2, Acknowledged
    <3> QED BY <3>1, <3>2
  <2> QED BY <2>2, <2>3
<1>9. /\ IsFiniteSet(PassedRows(e)) /\ Cardinality(PassedRows(e)) \in Nat
      /\ IsFiniteSet(PassedRows(e)') /\ Cardinality(PassedRows(e)') \in Nat
      /\ Cardinality(PassedRows(e)) <= Cardinality(PassedRows(e)')
  <2>1. PassedRows(e)' \subseteq RowsOf(e)'
    BY DEF PassedRows
  <2>2. IsFiniteSet(RowsOf(e)')
    BY <1>3 DEF OffsetInv
  <2>3. IsFiniteSet(PassedRows(e)')
    BY <2>1, <2>2, FS_Subset
  <2> HIDE DEF g, t
  <2>4. PassedRows(e) \subseteq PassedRows(e)'
    BY <1>7
  <2> QED BY <2>3, <2>4, FS_Subset, FS_CardinalityType
<1>10. ASSUME Acknowledge(c, e), NEW d \in Rows, StoreRow(c, e, d)
       PROVE  Cardinality(PassedRows(e)) + 1 <= Cardinality(PassedRows(e)')
  <2>1. /\ EventOf[d] = e /\ source'[d] = Position(c, e)
        /\ status[d] = "ABSENT" => status'[d] = "PENDING"
        /\ status[d] # "ABSENT" => status'[d] = status[d] /\ source[d] = Position(c, e)
    <3>1. CASE source[d] = Position(c, e) /\ UNCHANGED <<vars, source>>
      <4>1. UNCHANGED <<status, source>> /\ EventOf[d] = e
        BY <1>10, <3>1 DEF vars, dbVars, StoreRow
      <4>2. Position(c, e) \in Topics \X Nat
        BY <1>1, <1>2 DEF Position
      <4>3. status[d] # "ABSENT"
        BY <1>2, <3>1, <4>2, SourceAssumption DEF OffsetInv
      <4> QED BY <3>1, <4>1, <4>3
    <3>2. CASE RecordFailure(d) /\ source' = [source EXCEPT ![d] = Position(c, e)]
      <4>1. status[d] = "ABSENT" /\ status' = [status EXCEPT ![d] = "PENDING"]
        BY <3>2 DEF RecordFailure
      <4>2. status \in [Rows -> Statuses \cup {"ABSENT"}]
        BY <1>2 DEF SystemTypeOK, TypeOK
      <4> QED BY <1>2, <1>10, <3>2, <4>1, <4>2 DEF StoreRow
    <3> QED BY <1>10, <3>1, <3>2 DEF StoreRow
  <2>2. Position(c, e) = <<t, handled[g][t][e] + 1>>
    BY DEF Position
  <2>3. handled'[g][t][e] = handled[g][t][e] + 1 /\ handled[g][t][e] \in Nat
    BY <1>1, <1>2, <1>10, Acknowledged
  <2> HIDE DEF g, t
  <2>4. d \in RowsOf(e)'
    BY <2>1 DEF RowsOf
  <2>5. d \in PassedRows(e)'
    <3>1. source'[d][1] = t /\ source'[d][2] = handled[g][t][e] + 1
      BY <2>1, <2>2
    <3>2. source'[d][2] <= handled'[g][t][e]
      BY <2>3, <3>1
    <3> QED BY <1>1, <2>4, <3>1, <3>2 DEF PassedRows, GroupOf
  <2>6. d \notin PassedRows(e)
    <3>1. CASE status[d] = "ABSENT"
      BY <3>1 DEF PassedRows, RowsOf
    <3>2. CASE status[d] # "ABSENT"
      <4>1. source[d][1] = t /\ source[d][2] = handled[g][t][e] + 1
        BY <2>1, <2>2, <3>2
      <4>2. ~(source[d][2] <= handled[g][t][e])
        BY <2>3, <4>1
      <4> QED BY <1>1, <4>1, <4>2 DEF PassedRows
    <3> QED BY <3>1, <3>2
  <2>7. PassedRows(e) \cup {d} \subseteq PassedRows(e)'
    BY <1>7, <2>5
  <2>8. /\ IsFiniteSet(PassedRows(e) \cup {d})
        /\ Cardinality(PassedRows(e) \cup {d}) = Cardinality(PassedRows(e)) + 1
    BY <1>9, <2>6, FS_AddElement
  <2>9. Cardinality(PassedRows(e) \cup {d}) <= Cardinality(PassedRows(e)')
    BY <1>9, <2>7, FS_Subset
  <2> QED BY <2>8, <2>9
<1>11. ASSUME result'[e] = None
       PROVE  HandledOf(e)' <= Cardinality(PassedRows(e)') + givenUp'[e]
  <2>1. result[e] = None
    BY <1>1, <1>2, <1>11
  <2>2. HandledOf(e) <= Cardinality(PassedRows(e)) + givenUp[e]
    BY <1>2, <2>1 DEF ProgressInv
  <2>3. HandledOf(e) \in Nat /\ givenUp[e] \in Nat
    BY <1>2, CountTypes
  <2>4. /\ givenUp'[e] \in Nat /\ givenUp'[e] >= givenUp[e]
        /\ givenUp' = [givenUp EXCEPT ![e] = @ + 1] => givenUp'[e] = givenUp[e] + 1
    BY <1>2
  <2>5. CASE UNCHANGED handled
    <3>1. HandledOf(e)' = HandledOf(e)
      BY <2>5 DEF HandledOf
    <3> QED BY <1>9, <2>2, <2>3, <2>4, <3>1
  <2>6. CASE /\ Acknowledge(c, e)
             /\ \/ givenUp' = [givenUp EXCEPT ![e] = @ + 1]
                \/ \E d \in Rows : StoreRow(c, e, d)
    <3>1. HandledOf(e)' = HandledOf(e) + 1
      BY <1>2, <2>6, Acknowledged
    <3>2. CASE givenUp' = [givenUp EXCEPT ![e] = @ + 1]
      BY <1>9, <2>2, <2>3, <2>4, <3>1, <3>2
    <3>3. CASE \E d \in Rows : StoreRow(c, e, d)
      <4>1. Cardinality(PassedRows(e)) + 1 <= Cardinality(PassedRows(e)')
        BY <1>10, <2>6, <3>3
      <4> QED BY <1>9, <2>2, <2>3, <2>4, <3>1, <4>1
    <3> QED BY <2>6, <3>2, <3>3
  <2> QED BY <1>11, <2>5, <2>6
<1>12. ASSUME NEW f \in Events, result'[f] = None
       PROVE  HandledOf(f)' <= Cardinality(PassedRows(f)') + givenUp'[f]
  <2>1. CASE f = e
    BY <1>11, <1>12, <2>1
  <2>2. CASE f # e
    <3>1. result[f] = None /\ givenUp'[f] = givenUp[f]
      BY <1>2, <1>12, <2>2
    <3>2. HandledOf(f) <= Cardinality(PassedRows(f)) + givenUp[f]
      BY <1>2, <3>1 DEF ProgressInv
    <3>3. PassedRows(f)' = PassedRows(f) /\ HandledOf(f)' = HandledOf(f)
      BY <1>8, <2>2
    <3> QED BY <3>1, <3>2, <3>3
  <2> QED BY <2>1, <2>2
<1>13. ProgressInv'
  BY <1>5, <1>12 DEF ProgressInv
<1>14. OriginInv'
  <2> SUFFICES ASSUME NEW f \in Events
               PROVE  SentOf(f) <=
                        Receipts(f) + InBothTopics(orphans, f)
                          + Cardinality(CopiesOf(f)')
    BY DEF OriginInv, Receipts, SentOf, InBothTopics
  <2>1. /\ SentOf(f) <=
              Receipts(f) + InBothTopics(orphans, f) + Cardinality(CopiesOf(f))
        /\ InBothTopics(records, f) \in Nat /\ InBothTopics(adrift, f) \in Nat
        /\ InBothTopics(orphans, f) \in Nat
        /\ Receipts(f) \in Nat /\ SentOf(f) \in Nat
    BY <1>2, CountTypes DEF OriginInv, SystemTypeOK, SentOf
  <2>2. /\ topic \in [Rows -> Nat] /\ RowsOf(f) \in SUBSET Rows
        /\ Cardinality(CopiesOf(f)) \in Nat
    BY <1>2, CopiesAreFinite
  <2>3. IsFiniteSet(RowsOf(f)') /\ RowsOf(f)' \in SUBSET Rows
    BY <1>3 DEF OffsetInv, RowsOf
  <2>4. \A d \in RowsOf(f) : topic[d] <= topic[d]
    BY <2>2
  <2>5. RowsOf(f) \subseteq RowsOf(f)'
    BY <1>3
  <2> DEFINE R == RowsOf(f)'
  <2> HIDE DEF R
  <2>6. Cardinality(Counted(RowsOf(f), topic)) <= Cardinality(Counted(R, topic))
    BY <2>2, <2>3, <2>4, <2>5, CountedGrows DEF R
  <2>7. Cardinality(Counted(R, topic)) \in Nat
    BY <2>2, <2>3, CountedIsFinite DEF R
  <2>8. CopiesOf(f)' = Counted(R, topic) /\ CopiesOf(f) = Counted(RowsOf(f), topic)
    BY <1>3 DEF CopiesOf, Counted, R
  <2> QED BY <2>1, <2>2, <2>6, <2>7, <2>8
<1> QED BY <1>3, <1>13, <1>14 DEF AccountInv

(* Each record an operator adds is a copy of a row. *)
LEMMA AdminAccounts ==
    ASSUME SystemInv, AdminAction
    PROVE  AccountInv'
<1>1. /\ SystemTypeOK /\ OffsetInv /\ OriginInv /\ SourceInv
      /\ records \in [Topics -> [Events -> Nat]]
      /\ adrift \in [Topics -> [Events -> Nat]]
      /\ orphans \in [Topics -> [Events -> Nat]]
      /\ topic \in [Rows -> Nat]
  BY DEF SystemInv, SystemTypeOK, TypeOK, AccountInv
<1>2. /\ UNCHANGED <<receipt, adrift, orphans, handled, source, result, givenUp>>
      /\ \A d \in Rows : status'[d] = "ABSENT" <=> status[d] = "ABSENT"
  BY AdminChanges
<1>3. \A f \in Events : /\ InBothTopics(records, f) \in Nat
                        /\ InBothTopics(adrift, f) \in Nat
                        /\ InBothTopics(orphans, f) \in Nat
                        /\ Receipts(f) \in Nat
                        /\ RowsOf(f) \in SUBSET Rows /\ IsFiniteSet(RowsOf(f))
                        /\ Cardinality(CopiesOf(f)) \in Nat
                        /\ InBothTopics(records, f) + InBothTopics(adrift, f) <=
                              Receipts(f) + InBothTopics(orphans, f)
                                 + Cardinality(CopiesOf(f))
  BY <1>1, CountTypes, CopiesAreFinite DEF OriginInv
<1>4. \A f \in Events : /\ Receipts(f)' = Receipts(f)
                        /\ InBothTopics(adrift, f)' = InBothTopics(adrift, f)
                        /\ InBothTopics(orphans, f)' = InBothTopics(orphans, f)
  BY <1>2 DEF Receipts, InBothTopics
<1>5. CASE topic' = topic /\ records' = records
  <2>1. /\ OffsetInv' /\ ProgressInv'
        /\ \A f \in Events : RowsOf(f)' = RowsOf(f)
    <3>1. \A u \in Topics, f \in Events : records'[u][f] >= records[u][f]
      BY <1>1, <1>5
    <3> QED BY <1>1, <1>2, <1>5, <3>1, NewRecords
  <2>2. \A f \in Events : CopiesOf(f)' = CopiesOf(f)
    BY <1>5, <2>1 DEF CopiesOf, Counted
  <2>3. \A f \in Events : InBothTopics(records, f)' = InBothTopics(records, f)
    BY <1>5 DEF InBothTopics
  <2>4. OriginInv'
    BY <1>3, <1>4, <2>2, <2>3 DEF OriginInv
  <2> QED BY <2>1, <2>4 DEF AccountInv
<1>6. ASSUME NEW d \in Rows, status[d] # "ABSENT", CopyArrives(d),
             topic' = [topic EXCEPT ![d] = @ + 1]
      PROVE  AccountInv'
  <2> DEFINE t == source[d][1]
             e == EventOf[d]
  <2>1. e \in Events /\ d \in RowsOf(e)
    BY <1>6 DEF RowsOf
  <2>2. t \in Topics
    <3>1. source[d] \in Topics \X Nat
      BY <1>1, <1>6 DEF SourceInv
    <3> QED BY <3>1
  <2>3. records' = [records EXCEPT ![t][e] = @ + 1]
    BY <1>6 DEF CopyArrives, ReprocessTopic
  <2>4. topic' \in [Rows -> Nat] /\ topic'[d] = topic[d] + 1
        /\ \A x \in Rows \ {d} : topic'[x] = topic[x]
    BY <1>1, <1>6
  <2>5. Adds(records, t, e, 1, records') /\ 1 \in Nat
    BY <2>3 DEF Adds
  <2> HIDE DEF t, e
  <2>6. /\ records' \in [Topics -> [Events -> Nat]]
        /\ \A u \in Topics, f \in Events : records'[u][f] >= records[u][f]
    BY <1>1, <2>1, <2>2, <2>3, <2>5, Added
  <2>7. /\ InBothTopics(records', e) = InBothTopics(records, e) + 1
        /\ \A f \in Events \ {e} : InBothTopics(records', f) = InBothTopics(records, f)
    BY <1>1, <2>1, <2>2, <2>5, AddedInBoth
  <2>8. /\ OffsetInv' /\ ProgressInv'
        /\ \A f \in Events : RowsOf(f)' = RowsOf(f)
    BY <1>2, <2>6, NewRecords
  <2>9. Cardinality(Counted(RowsOf(e), topic')) = Cardinality(CopiesOf(e)) + 1
    <3>1. RowsOf(e) \in SUBSET Rows /\ IsFiniteSet(RowsOf(e))
      BY <1>3, <2>1
    <3>2. \A x \in RowsOf(e) \ {d} : topic'[x] = topic[x]
      BY <2>4, <3>1
    <3> QED BY <1>1, <2>1, <2>4, <3>1, <3>2, CountedAdded DEF CopiesOf
  <2>10. ASSUME NEW f \in Events \ {e}
         PROVE  Cardinality(Counted(RowsOf(f), topic')) = Cardinality(CopiesOf(f))
    <3>1. d \notin RowsOf(f) /\ RowsOf(f) \in SUBSET Rows
      BY DEF RowsOf, e
    <3>2. Counted(RowsOf(f), topic') = Counted(RowsOf(f), topic)
      BY <2>4, <3>1 DEF Counted
    <3> QED BY <3>2 DEF CopiesOf
  <2>11. \A f \in Events : Cardinality(CopiesOf(f)') = Cardinality(Counted(RowsOf(f), topic'))
    BY <2>8 DEF CopiesOf, Counted
  <2>12. ASSUME NEW f \in Events
         PROVE  InBothTopics(records', f) + InBothTopics(adrift, f) <=
                   Receipts(f) + InBothTopics(orphans, f) + Cardinality(CopiesOf(f)')
    <3>1. CASE f = e
      BY <1>3, <2>7, <2>9, <2>11, <3>1
    <3>2. CASE f # e
      BY <1>3, <2>7, <2>10, <2>11, <3>2
    <3> QED BY <3>1, <3>2
  <2>13. OriginInv'
    <3>1. \A f : InBothTopics(records, f)' = InBothTopics(records', f)
      BY DEF InBothTopics
    <3> QED BY <1>4, <2>12, <3>1 DEF OriginInv
  <2> QED BY <2>8, <2>13 DEF AccountInv
<1> QED BY <1>5, <1>6, AdminChanges

(* Nothing is there at the start. *)
LEMMA AccountsStart == SystemInit => AccountInv
<1> SUFFICES ASSUME SystemInit PROVE AccountInv
  OBVIOUS
<1>1. /\ status = [d \in Rows |-> "ABSENT"]
      /\ source = [d \in Rows |-> None]
      /\ topic = [d \in Rows |-> 0]
  BY DEF SystemInit, Init
<1>2. ASSUME NEW e \in Events
      PROVE  /\ RowsOf(e) = {} /\ PassedRows(e) = {} /\ CopiesOf(e) = {}
             /\ HandledOf(e) = 0 /\ givenUp[e] = 0 /\ Receipts(e) = 0
             /\ InBothTopics(records, e) = 0 /\ InBothTopics(adrift, e) = 0
             /\ InBothTopics(orphans, e) = 0
  <2>1. RowsOf(e) = {}
    BY <1>1 DEF RowsOf
  <2>2. PassedRows(e) = {} /\ CopiesOf(e) = {}
    BY <2>1 DEF PassedRows, CopiesOf, Counted
  <2>3. /\ InBothTopics(records, e) = 0 /\ InBothTopics(adrift, e) = 0
        /\ InBothTopics(orphans, e) = 0
        /\ HandledOf(e) = 0 /\ givenUp[e] = 0 /\ Receipts(e) = 0
    BY DEF SystemInit, InBothTopics, HandledOf, Receipts, Topics, Groups
  <2> QED BY <2>1, <2>2, <2>3
<1>3. IsFiniteSet({}) /\ Cardinality({}) = 0
  BY FS_EmptySet
<1>4. OffsetInv
  <2>1. \A d \in Rows : status[d] = "ABSENT" => source[d] = None
    BY <1>1
  <2>2. \A e \in Events : IsFiniteSet(RowsOf(e))
    BY <1>2, <1>3
  <2> QED BY <1>2, <2>1, <2>2 DEF OffsetInv
<1>5. ProgressInv
  <2>1. \A e \in Events, g \in Groups, u \in Topics : handled[g][u][e] <= records[u][e]
    BY DEF SystemInit
  <2>2. \A e \in Events : Cardinality(PassedRows(e)) = 0
    BY <1>2, <1>3
  <2> QED BY <1>2, <2>1, <2>2 DEF ProgressInv
<1>6. OriginInv
  <2>1. \A e \in Events : Cardinality(CopiesOf(e)) = 0
    BY <1>2, <1>3
  <2> QED BY <1>2, <2>1 DEF OriginInv
<1> QED BY <1>4, <1>5, <1>6 DEF AccountInv

(* The accounts of an event, from its rows and the groups' offsets.        *)
LEMMA AccountsAdd ==
    ASSUME SystemInv, StreamsAreIsolated
    PROVE  RecordsAreAccounted
<1>1. /\ SystemTypeOK /\ OffsetInv /\ ProgressInv /\ OriginInv /\ CopiesAreAttempts
      /\ records \in [Topics -> [Events -> Nat]]
      /\ handled \in [Groups -> [Topics -> [Events -> Nat]]]
      /\ adrift \in [Topics -> [Events -> Nat]]
      /\ topic \in [Rows -> Nat] /\ late \in [Rows -> Nat] /\ attempts \in [Rows -> Nat]
      /\ unsettled \in [Rows -> Nat]
  BY DEF SystemInv, SystemTypeOK, TypeOK, AccountInv, IInv
<1>2. ASSUME NEW e \in Events
      PROVE  /\ result[e] = None => HandledOf(e) <= Cardinality(RowsOf(e)) + givenUp[e]
             /\ HandledOf(e) <= InBothTopics(records, e)
             /\ InBothTopics(records, e)
                   <= Receipts(e) + InBothTopics(orphans, e)
                        + MaxAttempts * Cardinality(RowsOf(e))
                        + Cardinality(HiddenOf(e))
                        + Cardinality({d \in RowsOf(e) : InFlight(d)})
  <2>1. /\ HandledOf(e) \in Nat /\ givenUp[e] \in Nat /\ Receipts(e) \in Nat
        /\ InBothTopics(records, e) \in Nat /\ InBothTopics(adrift, e) \in Nat
        /\ InBothTopics(orphans, e) \in Nat
        /\ PassedRows(e) \in SUBSET RowsOf(e)
    BY <1>1, CountTypes DEF SystemTypeOK
  <2>2. /\ RowsOf(e) \in SUBSET Rows /\ IsFiniteSet(RowsOf(e))
        /\ Cardinality(CopiesOf(e)) \in Nat
    BY <1>1, CopiesAreFinite
  <2>3. /\ Cardinality(PassedRows(e)) <= Cardinality(RowsOf(e))
        /\ Cardinality(PassedRows(e)) \in Nat /\ Cardinality(RowsOf(e)) \in Nat
    BY <2>1, <2>2, FS_Subset, FS_CardinalityType
  <2>4. result[e] = None => HandledOf(e) <= Cardinality(RowsOf(e)) + givenUp[e]
    <3>1. result[e] = None => HandledOf(e) <= Cardinality(PassedRows(e)) + givenUp[e]
      BY <1>1 DEF ProgressInv
    <3> QED BY <2>1, <2>3, <3>1
  <2>5. HandledOf(e) <= InBothTopics(records, e)
    <3> DEFINE live == "transaction-events"
               replay == "transaction-events-replay"
               liveGroup == "fraud-event-consumer"
               replayGroup == "fraud-event-replay-consumer"
    <3>1. /\ live \in Topics /\ replay \in Topics
          /\ liveGroup \in Groups /\ replayGroup \in Groups
          /\ ModeOf(live) = "LIVE" /\ ModeOf(replay) = "REPLAY"
          /\ liveGroup # replayGroup
      BY DEF Topics, Groups, ModeOf
    <3>2. HandledOf(e) = (handled[liveGroup][live][e] + handled[liveGroup][replay][e])
                          + (handled[replayGroup][live][e] + handled[replayGroup][replay][e])
      BY DEF HandledOf, InBothTopics
    <3>3. InBothTopics(records, e) = records[live][e] + records[replay][e]
      BY DEF InBothTopics
    <3> HIDE DEF live, replay, liveGroup, replayGroup
    <3>4. \A g \in Groups, u \in Topics :
             /\ handled[g][u][e] \in Nat /\ handled[g][u][e] <= records[u][e]
             /\ handled[g][u][e] > 0 => (g = liveGroup <=> ModeOf(u) = "LIVE")
      BY <1>1 DEF ProgressInv, StreamsAreIsolated, liveGroup
    <3>5. handled[liveGroup][replay][e] = 0 /\ handled[replayGroup][live][e] = 0
      BY <3>1, <3>4
    <3>6. records[live][e] \in Nat /\ records[replay][e] \in Nat
      BY <1>1, <3>1
    <3> QED BY <3>1, <3>2, <3>3, <3>4, <3>5, <3>6
  <2> DEFINE working == {d \in RowsOf(e) : InFlight(d)}
  <2>6. Cardinality(CopiesOf(e)) <= MaxAttempts * Cardinality(RowsOf(e))
                                      + Cardinality(HiddenOf(e)) + Cardinality(working)
    <3>1. \A d \in RowsOf(e) :
             /\ topic[d] <= attempts[d] + unsettled[d] + (IF d \in working THEN 1 ELSE 0)
             /\ attempts[d] <= MaxAttempts
      <4> SUFFICES ASSUME NEW d \in RowsOf(e)
                   PROVE  /\ topic[d] <= attempts[d] + unsettled[d]
                                            + (IF d \in working THEN 1 ELSE 0)
                          /\ attempts[d] <= MaxAttempts
        OBVIOUS
      <4>1. /\ d \in Rows /\ topic[d] \in Nat /\ late[d] \in Nat
            /\ attempts[d] \in Nat /\ unsettled[d] \in Nat
        BY <1>1, <2>2
      <4>2. /\ topic[d] + late[d] <= attempts[d] + unsettled[d]
                                       + (IF InFlight(d) THEN 1 ELSE 0)
            /\ attempts[d] <= MaxAttempts
        BY <1>1, <4>1 DEF CopiesAreAttempts, Sends
      <4> QED BY <4>1, <4>2
    <3>2. working \in SUBSET RowsOf(e) /\ MaxAttempts \in Nat
      OBVIOUS
    <3> HIDE DEF working
    <3> QED BY <1>1, <2>2, <3>1, <3>2, CountedBound DEF CopiesOf, HiddenOf
  <2>7. /\ Cardinality(HiddenOf(e)) \in Nat /\ Cardinality(working) \in Nat
        /\ MaxAttempts * Cardinality(RowsOf(e)) \in Nat
    <3>1. Cardinality(HiddenOf(e)) \in Nat
      BY <1>1, <2>2, CountedIsFinite DEF HiddenOf
    <3>2. IsFiniteSet(working)
      BY <2>2, FS_Subset
    <3> QED BY <2>3, <3>1, <3>2, FS_CardinalityType
  <2> DEFINE X == MaxAttempts * Cardinality(RowsOf(e))
  <2> HIDE DEF working, X
  <2>8. InBothTopics(records, e) <= Receipts(e) + InBothTopics(orphans, e)
                                       + Cardinality(CopiesOf(e))
    <3>1. InBothTopics(records, e) + InBothTopics(adrift, e)
             <= Receipts(e) + InBothTopics(orphans, e) + Cardinality(CopiesOf(e))
      BY <1>1 DEF OriginInv
    <3> QED BY <2>1, <2>2, <3>1
  <2>9. InBothTopics(records, e) <= Receipts(e) + InBothTopics(orphans, e) + X
                                       + Cardinality(HiddenOf(e)) + Cardinality(working)
    <3>1. /\ Cardinality(CopiesOf(e)) <= X + Cardinality(HiddenOf(e)) + Cardinality(working)
          /\ X \in Nat
      BY <2>6, <2>7 DEF X
    <3> QED BY <2>1, <2>2, <2>7, <2>8, <3>1
  <2> QED BY <2>4, <2>5, <2>9 DEF working, X
<1>3. \A e \in Events :
         /\ \A x, y \in RowsOf(e) : source[x] = source[y] => x = y
         /\ \A d \in RowsOf(e) : source[d][2] \in 1 .. records[source[d][1]][e]
  BY <1>1 DEF OffsetInv
<1> QED BY <1>2, <1>3 DEF RecordsAreAccounted

-----------------------------------------------------------------------------
(* The inductive invariant of the composition, for any number of events,   *)
(* rows, operators and faults.                                             *)
LEMMA StreamInvariant == SystemSpec => [](SystemInv /\ StreamsAreIsolated)
<1> DEFINE StreamInv ==
              SystemTypeOK /\ SourceInv /\ StreamsAreIsolated /\ AccountInv
<1>1. SystemInit /\ Inv => StreamInv
  BY AccountsStart DEF SystemInit, Init, Inv, SystemTypeOK, SourceInv, StreamsAreIsolated,
         Modes, Namespaces, NamespaceOf, ModeOf
<1>2. Inv /\ Inv' /\ StreamInv /\ [SystemNext]_systemVars => StreamInv'
  <2> SUFFICES ASSUME Inv, Inv', StreamInv, [SystemNext]_systemVars PROVE StreamInv'
    OBVIOUS
  <2>1. SystemInv /\ StreamsAreIsolated /\ TypeOK'
    BY DEF SystemInv, Inv
  <2>2. CASE UNCHANGED systemVars
    <3>1. SystemTypeOK' /\ SourceInv' /\ StreamsAreIsolated'
      BY <2>1, <2>2 DEF systemVars, streamVars, vars, dbVars, SystemInv,
         SystemTypeOK, SourceInv, StreamsAreIsolated, Taken
    <3>2. UNCHANGED <<receipt, records, adrift, orphans, handled, source, result,
                      givenUp, status, topic>>
      BY <2>2 DEF systemVars, streamVars, vars, dbVars
    <3>3. \A e : /\ RowsOf(e)' = RowsOf(e) /\ PassedRows(e)' = PassedRows(e)
                 /\ CopiesOf(e)' = CopiesOf(e) /\ HandledOf(e)' = HandledOf(e)
                 /\ Receipts(e)' = Receipts(e)
      BY <3>2 DEF RowsOf, PassedRows, CopiesOf, Counted, HandledOf, Receipts
    <3>4. AccountInv'
      BY <2>1, <3>2, <3>3 DEF SystemInv, AccountInv, OffsetInv, ProgressInv,
         OriginInv, InBothTopics
    <3> QED BY <3>1, <3>4
  <2>3. ASSUME NEW c \in ProducerConfigs, NEW e \in Events,
               Accept(c, e) \/ AcceptFails(c, e)
        PROVE  StreamInv'
    BY <2>1, <2>3, AcceptInvariant, AcceptAccounts
  <2>4. ASSUME NEW c \in ConsumerConfigs, NEW e \in Events,
               \/ SkipDuplicate(c, e) \/ Decide(c, e)
               \/ \E d \in Rows : DeadLetter(c, e, d)
               \/ DeliveryFails(c, e) \/ GiveUp(c, e)
        PROVE  StreamInv'
    <3>1. streamFaults' \in 0 .. MaxFaults
      <4>1. \/ streamFaults' = streamFaults
            \/ faults + streamFaults < MaxFaults /\ streamFaults' = streamFaults + 1
        BY <2>4 DEF SkipDuplicate, Decide, DeadLetter, DeliveryFails, GiveUp,
                    FailedDelivery, StreamFault
      <4> QED BY <2>1, <4>1 DEF SystemInv, SystemTypeOK, TypeOK
    <3>2. /\ Delivered(c, e) /\ UNCHANGED <<receipt, records, adrift, orphans>>
          /\ UNCHANGED window \/ RecordWindow(c, e)
          /\ UNCHANGED handled \/ Acknowledge(c, e)
          /\ result' \in {result, [result EXCEPT ![e] = c.mode]}
          /\ givenUp' \in {givenUp, [givenUp EXCEPT ![e] = @ + 1]}
          /\ UNCHANGED <<vars, source>> \/ \E d \in Rows : StoreRow(c, e, d)
      BY <2>4 DEF SkipDuplicate, Decide, DeadLetter, DeliveryFails, GiveUp,
                  FailedDelivery, RowPerhapsStored
    <3>3. \/ UNCHANGED handled
          \/ /\ Acknowledge(c, e)
             /\ \/ result'[e] # None
                \/ givenUp' = [givenUp EXCEPT ![e] = @ + 1]
                \/ \E d \in Rows : StoreRow(c, e, d)
      <4>1. CASE Decide(c, e)
        <5>0. ValidConsumer(c)
          BY <4>1 DEF Decide, Delivered
        <5>2. c.topic \in Topics /\ c.mode = ModeOf(c.topic)
          BY <5>0, ValidConfigs
        <5>3. c.mode \in Modes
          BY <5>2, TopicOfMode
        <5>1. c.mode # None /\ result \in [Events -> Modes \cup {None}]
          BY <2>1, <5>3 DEF SystemInv, SystemTypeOK
        <5> QED BY <4>1, <5>1 DEF Decide
      <4>2. CASE SkipDuplicate(c, e)
        BY <4>2 DEF SkipDuplicate
      <4>3. CASE \E d \in Rows : DeadLetter(c, e, d)
        BY <4>3 DEF DeadLetter
      <4>4. CASE DeliveryFails(c, e) \/ GiveUp(c, e)
        BY <4>4 DEF DeliveryFails, GiveUp
      <4> QED BY <2>4, <4>1, <4>2, <4>3, <4>4
    <3>4. AccountInv'
      BY <2>1, <3>2, <3>3, DeliveryAccounts
    <3> QED BY <2>1, <3>1, <3>2, <3>4, DeliveryInvariant
  <2>5. ASSUME NEW q \in Requests, Administer(q) \/ AdminStep(q)
        PROVE  StreamInv'
    BY <2>1, <2>5, AdminStreamInvariant, AdminAccounts DEF AdminAction
  <2>6. ASSUME NEW d \in Rows, LateCopyArrives(d)
        PROVE  StreamInv'
    BY <2>1, <2>6, AdminStreamInvariant, AdminAccounts DEF AdminAction
  <2>7. ASSUME NEW t \in Topics, NEW e \in Events, EventArrives(t, e)
        PROVE  StreamInv'
    BY <2>1, <2>7, ArrivalStreamInvariant, ArrivalAccounts
  <2> QED BY <2>2, <2>3, <2>4, <2>5, <2>6, <2>7 DEF SystemNext, Consume
<1>3. Inv /\ StreamInv => SystemInv /\ StreamsAreIsolated
  BY DEF Inv, SystemInv
<1> HIDE DEF StreamInv
<1> QED BY <1>1, <1>2, <1>3, AdminInvariant, PTL DEF SystemSpec

(* Types, the administration's progress and the sources of the rows agree  *)
(* in every reachable state of the composition.                            *)
THEOREM SystemInvariantHolds == SystemSpec => []SystemInv
BY StreamInvariant, PTL

(* A historical replay never reaches the live topic, window or results of  *)
(* an event the live API has not taken, and the other way round: however   *)
(* many dead letters operators reprocess, and whatever fails               *)
(* (FraudStreamConfig, DeadLetterReprocessPublisher).                      *)
THEOREM StreamsIsolated == SystemSpec => []StreamsAreIsolated
BY StreamInvariant, PTL

(* Nothing vanishes and nothing multiplies: each record a group has passed *)
(* is decided, has a dead letter of its own or was given up, and operators *)
(* add no more records than the attempts of the dead letters and the sends *)
(* that faults hid, whatever the interleaving of intake, deliveries that   *)
(* fail and requests (recordFailure against reprocess).                    *)
THEOREM RecordsAccounted == SystemSpec => []RecordsAreAccounted
<1>1. SystemInv /\ StreamsAreIsolated => RecordsAreAccounted
  BY AccountsAdd
<1> QED BY <1>1, StreamInvariant, PTL

(* Audit log and attempts agree with the rows while consumers store new    *)
(* dead letters and intake goes on (reprocess, discard, recordFailure).    *)
THEOREM SystemAudits == SystemSpec => [](AuditAgrees /\ CopiesAreAttempts)
BY SystemImplementsAdmin, AuditCorrect, CopiesBounded, PTL

(* A reprocessed or discarded row is final in the composition as well, and *)
(* its payload is not sent again: what arrives later was sent before.      *)
THEOREM SystemTerminalIsFinal == SystemSpec => TerminalIsFinal
BY SystemImplementsAdmin, TerminalFinal, PTL
=============================================================================
