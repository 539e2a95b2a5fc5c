# TLA+ specifications of the fraud event streaming system

The system takes transaction events over HTTP, stores a receipt, publishes
them to Kafka, and lets a consumer group compute a fraud decision for each
event from a Redis sliding window and a set of rules. Events that cannot be
processed become dead letters, which operators reprocess or discard. These
specifications model the parts in which several actors share state: the intake
of the API, the consumer pipeline, the sliding window, the administration of
dead letters, the live and the replay deployment side by side, and the
preparation, replay and evaluation of a labelled dataset. Java sources are
below `src/app-api` and `src/app-consumer` of the repository, scripts below
`src/scripts/data`; `PROJECT.json` maps each definition to its lines.

## 1. Inventory

| Component | State | Operations | Interacts with |
| --- | --- | --- | --- |
| Event intake (`TransactionEventIntakeService`, `KafkaTransactionEventProducer`, app-api) | `transaction_event_receipts`, unique on `event_id`, status RECEIVED / PUBLISHED / PUBLISH_FAILED | `accept`: lookup, time check, insert, send, update, commit | sends to `transaction-events` inside the database transaction |
| Consumer pipeline (`TransactionEventListener` and the services it calls, app-consumer) | Kafka offsets; `event_processing_logs`, `fraud_detection_results` (unique on `event_id`), `dead_letter_events` (unique on the record); DLT topic; the drill's in-memory set | `onMessage` / `processMessage`, `recordProcessedEvent`, `saveResult`, `recordFailure`, `publish`, `failIfConfigured`; the container's poll, redelivery and commit | reads `transaction-events`, calls the window and the rules, writes `transaction-events-dlt` |
| Redis sliding window (`RedisRecentTransactionWindowStore`) | per user a ZSET scored by event time; per event a hash with the amount; a TTL on both | `recordAndGetWindow`: HSET, ZADD, ZREMRANGEBYSCORE, two EXPIREs, ZRANGEBYSCORE, HGET per member | called by the pipeline; shared by all consumers |
| Dead-letter administration (`DeadLetterEventAdminService`, app-api) | `dead_letter_events` status and attempts, `admin_audit_logs` | `reprocess`, `discard` (and read-only queries) | row written by the consumer; sends to the record's source topic |
| Rule engine (`FraudRuleEngine` and its rules) | none | `evaluate`: scores, cap, level and decision | called by the pipeline |
| Stream modes (`FraudStreamConfig` of both applications) | configuration | validation of topics, group and Redis namespace in live and replay mode | selects topic, group and key prefix |
| PaySim replay (`replay_paysim_events.py`) | counters and a capped list of failures, written as a report | validate, send, retry, classify, report | HTTP API |
| PaySim evaluation (`evaluate_paysim_replay_results.py`, `paysim_evaluation_policy.py`) | a confusion matrix, written as a report | match labels, results and rejected events; apply a threshold policy | replay report; exported results |
| PaySim preparation (`prepare_paysim_dataset.py`) | three files of lines and a report | read a row, check it, append; write the report last | output of the three parts below; labels and events of a replay |
| Use of the prepared files (`validate_paysim_outputs.py`, `generate_paysim_samples.py`) | a summary; a sample of two files and a manifest | check files and report against each other; choose, check, write | prepared files |
| PaySim profile (`profile_paysim_v3.py`) | counters, a batch, a table; the profile | read a row, insert batches, aggregate | the raw file |
| Workload manifests | none | static validation of JSON documents | none |
| Admin queries, HTTP layer, metrics, drills, load tests | none that a decision reads | | |

What is hard to test in these parts, in the order of `hazards` in
`PROJECT.json`:

- **Redelivery, crashes and rebalances** between any two calls of the
  listener. No transaction spans the processing log, the result, Redis, the
  dead letter and the commit; correctness rests on the order of the calls and
  on unique constraints.
- **Giving up.** The container has no error handler of its own, so after the
  last delivery Spring Kafka's default handler moves on.
- **Several commands on one key.** The window is written and read by
  commands that other consumers' commands, failures and expiry separate.
- **Event time against arrival order.** Clean-up follows the event that is
  processed, not the newest one.
- **A Kafka send inside a database transaction**, in the intake and in
  reprocessing: the send cannot be rolled back, and one that timed out may
  arrive long after the commit of the request that made it.
- **Locks held across that send**: row locks, and the wait of an insert for
  another transaction's insert of the same key.
- **Any constraint violation is taken for a duplicate**, in three services.
- **Retries of a client whose answers are lost**: a request the client gave up
  may be handled before, between or after its repetitions.
- **Live and replay deployments on one database**: topics, groups and Redis
  namespaces are apart, receipts, results and dead letters are shared.
- **Reports derived from a capped list**, warnings that are all a reader has
  to tell a complete report from another, and thresholds that two programs
  keep for themselves.
- **Files that several runs of a script leave behind**: a forced run truncates
  the files of an earlier one before it has read a row and writes its report
  last; a file may end anywhere after a kill, and an eventId is a row number.

Properties that make each part correct: an offset is committed only past
records with an outcome, and decisions are final (pipeline); an answer holds
exactly the recorded events of the event-time window unless a stated reason
applies, and keys expire (window); terminal states are final, the audit log
tells the truth, copies in the topic are attempts (administration); an event
is accepted once, and an accepted event is in the topic (intake); a score is
monotone in what is known (rule engine); nothing of an event reaches the
topic, window, offsets or results of a mode unless an API of that mode has
taken it (stream modes); the counters of a replay add up and a
retry publishes nothing twice (replay); every label is counted once, exclusion
is called complete only when it is, and a report without a warning is complete
(evaluation); events and labels belong together and validated files are the
work of one run (preparation).

## 2. Modules

| Module | Models | Status |
| --- | --- | --- |
| `FraudConsumer` | the pipeline: one action per call of `processMessage` that reads or writes shared state | checked, safety proved |
| `FraudOutcome` | what the pipeline promises, as an abstract specification | refinement checked and proved |
| `FraudConsumerProofs` | type correctness and safety of `FraudConsumer` | proved |
| `FraudRefinementProofs` | `FraudConsumer` implements `FraudOutcome` | proved |
| `SlidingWindow` | `recordAndGetWindow`: one action per Redis command | checked, safety proved |
| `SlidingWindowProofs` | theorems about `SlidingWindow` | proved |
| `DltAdmin` | `reprocess` and `discard` with lock, send, audit and commit | checked as part of `FraudSystem` |
| `DltAdminProofs` | theorems about `DltAdmin` | proved |
| `FraudSystem` | intake, consumers and `DltAdmin` in a live and a replay deployment over one database; extends `DltAdmin` | checked |
| `FraudSystemProofs` | `FraudSystem` implements `DltAdmin`, keeps the streams apart and accounts for every record | proved |
| `Intake` | `accept` with lookup, insert, send and commit | checked |
| `IntakeProofs` | theorems about `Intake` | proved |
| `FraudRuleEngine` | matched rules, score, level and decision, as operators | checked through the modules that extend it |
| `PaySimReplay` | the replay client against an API and a consumer | checked as part of `PaySimEvaluation` |
| `PaySimEvaluation` | the evaluation of a replay; extends `PaySimReplay` | checked |
| `PaySimProofs` | theorems about scores, decisions, the replay and its evaluation | proved |
| `PaySimPreparation` | the preparation, row by row, with stops and kills | checked as part of `PaySimProfile` |
| `PaySimOutputs` | validation and sample generation; extends `PaySimPreparation` | checked as part of `PaySimProfile` |
| `PaySimProfile` | the profiler beside them; extends `PaySimOutputs` | checked |
| `PaySimDataProofs` | theorems about the three | proved |
| `MC*` | small instances for TLC; each run has a `.cfg` | |

Definitions named `...OffByOne`, `...Unlocked` and the like, marked *Faulty
variant* in their comments, are not part of any specification: each is a
plausible mistake in the definition it precedes, and is there to show that a
property would notice it.

### FraudConsumer

Broker state is `log`, `committed`, `owner`, `position`, `deliveries`; the
stores are one variable per table, topic or Redis structure; `pc` holds the
call a consumer makes next and `current` its record. The rules, amounts and
payloads are reduced to which tables and evaluations an event is rejected by
(`LogRejects`, `ResultRejects`, `DltRejects`, `RuleFailing`, `Undecodable`).

| Action | Code |
| --- | --- |
| `RecordProcessedEvent` | `EventProcessingLogService.recordProcessedEvent` |
| `ExistsResultForEventId` | the result precheck; a hit goes straight to the acknowledgment |
| `RecordAndGetWindow` | the window store as the listener sees it: it never throws and answers with a status, DEGRADED when an update may be missing; what the window holds is the subject of `SlidingWindow` |
| `EvaluateRules`, `SaveResult` | rule evaluation; `saveResult` with its unique constraint |
| `FindDeadLetter`, `SaveNewDeadLetter`, `SaveNewDeadLetterConflicts`, `PublishDeadLetter` | `DeadLetterEventService.recordFailure` and `publish` |
| `Acknowledge` | the synchronous manual commit; rejected when the partition was lost |
| `FailIfConfigured` | `StatefulRedeliveryFailureInjector` at its three points |
| `CallFails` | any call throws, its effect applied or not |
| `HandleError` (in four actions) | the default error handler: redeliver, or move on at the last delivery |
| `Publish`, `Assign`, `Revoke`, `Crash`, `Restart`, `Poll` | producers, the group coordinator, process death, the container |

A consumer that lost its partition keeps running until its method returns,
as a listener thread does. `dropped` is a history variable: records given up
without a result and without a dead letter. `dltTopic` counts the copies of
each record in the dead-letter topic: nothing but the order of save, publish
and acknowledge keeps them few, since only the row is unique.

### SlidingWindow

Redis is a set of members per user (`zset`), the events with a hash (`hash`)
and an expiry per key. `Tick` moves one clock, shared by Redis and the API,
and removes keys that are due. The time to live is a variable that never
changes, so that one run covers several. An amount sum is represented by the set of
events it sums (`counted`), count by its cardinality. The history variables
`addedAt`, `expected` and `disturbed` record when a member was added last,
what a range read should have returned, and which users had a call that
failed; `caught` are the events one of whose keys expired between their own
call's write and its EXPIRE. A command that times out is applied at
once or not at all; a later application is not modelled, since a connection
answers in order. The too-late check runs in live mode only.

### DltAdmin

A request reads the row under `findByIdForUpdate` into an entity of its own,
decides, sends, inserts an audit row and commits; only `WriteBack` at the
commit changes the table. `ApiException` commits as well (`noRollbackFor`),
which is how a failed attempt is recorded. `Rollback` is a failing audit
insert, a failing commit or a dead process, `CommitUnconfirmed` a connection
lost after the commit; `unsettled` counts sends whose transaction rolled back.
`get(5s)` gives up a send that the producer goes on with, so a send that fails
is in the topic at once, or is `late`: it arrives (`SendArrives`) at any later
time, after the commit of REPROCESS_FAILED, after a discard, or never. A
transaction that dies during the send leaves it in the same way.

### FraudSystem

Two deployments, live and replay, share receipts, results and dead letters and
have topics, groups and Redis namespaces of their own. `ValidProducer` and
`ValidConsumer` are the validators of the two `FraudStreamConfig`s: services
start with any configuration and stop unless they pass. The administration is
`DltAdmin` step by step; what reaches `topic` there, in time (`CopyArrives`) or
late (`LateCopyArrives`), is a record in the topic that the row names. Late
sends of the intake are `adrift`. The rest is coarser than in its own module: a
request to the intake and the delivery of a record are one step each, with the
outcomes that `Intake` and `FraudConsumer` give them. `DeliveryFails` and
`GiveUp` share `FailedDelivery`: the delivery throws before or after it has
recorded the window, and after that the row or the result. A result that
another consumer stores between precheck and save is a `SkipDuplicate` that
recorded the window. Records of an event in a topic are counted, not ordered:
offsets matter for the identity of a dead letter only (`Position`).

### Intake

A request looks the eventId up, checks its time, inserts the receipt
(`saveAndFlush`), sends, marks the receipt and commits. `inserter` is the
open transaction that holds an eventId: a second insert waits for its end and
then either succeeds or fails on the constraint. A send that was given up is
in the topic, or `late`, or gone, as in `DltAdmin`. Requests rejected by bean
validation change no state and are left out.

### FraudRuleEngine, PaySimReplay, PaySimEvaluation

`FraudRuleEngine` has no state: a message is its amount, hour and location, a
window its status, count and sum, and the operators give the matched rules,
the capped score, the level and the decision.

`PaySimReplay` is the client of `replay_paysim_events.py`: `AcceptRow` and
`RejectRow` read a row (the payload contract is reduced to its verdict, the
`kind` of a row), `Answered`, `TimesOut`, `Unreachable` and `ConnectionLost`
are the ends of a request, each followed in the same step by the retry or the
count in `send_with_retry`. The API handles a request in one step with the
outcomes that `Intake` has; `HandleLate` is a request nobody waits for any
more. `Consume` is the pipeline reduced to the score it stores. `lost` is a
history variable: copies whose receipt was rolled back. `copies` counts sends
that arrive at all; since `Consume` may come at any later time, one that
arrives late is one that is consumed late. An eventId is a pair
of prefix and event, so no event is mistaken for a prefixed one.

`PaySimEvaluation` adds one action: the evaluation reads the export and the
report at any moment after the replay has ended, while the consumer may still
be at work, with its options: with or without the replay report, an event
prefix, missing results counted or not, rejected rows excluded or not, a rule
version required or not, either threshold policy. It refuses, or it writes
matrix, decisions, levels, rates (fractions of naturals), warnings and
readiness.

### PaySimPreparation, PaySimOutputs, PaySimProfile

A raw file is a sequence of rows, a row its native type, user, step, labels
and flaws; `Checks` is the order in which `normalize_row` looks at them, and
`Verdict` its outcome, an uncaught `TypeError` among them. A written line is
the run and the row it was made from, of which the eventId is the row number
alone. `job` is the script at work; `Open` truncates the files,
`AcceptRow` and `RejectRow` append, `WriteReport` ends. `StopAtRow` is an
exception or `--fail-fast`; a kill, while the files are opened
(`KilledOpening`), at work (`Killed`) or in the report (`KilledReporting`),
leaves of each open file some prefix of its lines, the last perhaps torn. `whole` is a
history variable: the last run over the files wrote its report.

`PaySimOutputs` adds the validator, which reads all files in one step, and the
sample generator, which writes its three files one after the other. The
scripts run one at a time, as an operator starts them. The preparation takes
any path and any names (`odd` of a job: a file name or a dataset slug other
than the published ones, a path with an identifier in it) and copies the type
column of a rejected row verbatim; the validator refuses such names and scans
events, rejected lines and report for raw identifiers. `PaySimProfile` adds
the profiler and composes all four (`DataNext`); it shares no output with the
others, so it is not interleaved with them.

## 3. Runs

| Run | Question | Result |
| --- | --- | --- |
| `consumer_safety` | two consumers, two records of one partition, four kinds of events, three faults: are offsets committed only past accounted records, is every promise of `FraudOutcome` kept, do fewer faults than deliveries lose nothing, is a record dead-lettered at most once more than there were faults? | holds, 129,930 states |
| `consumer_liveness` | with a drill that fails once per process and two faults against four deliveries: is every record handled, does the lag return to zero? | holds, 53,776 states |
| `window_exact` | two consumers, one user, five events out of order and at the edges of lateness, redeliveries, expiry with a short and a long time to live, one failing command: does an answer miss a member only for a stated reason, do keys keep a TTL, is an answer given within the time to live complete but for named exceptions? | holds, 764,102 states |
| `system` | a live and a replay deployment and two operators on the dead letters of one event, sends that fail and arrive later or never, rollbacks, failing deliveries, records given up: is every record accounted for, do the streams stay apart, are terminal rows final and the audit truthful, are locks released and reprocessed records handled? | holds, 137,673 states |
| `intake` | three requests for the same ids, sends that fail and arrive later or never, rollbacks, unconfirmed commits: is an event accepted once and then in the topic, are copies receipts or rolled-back sends, does nobody wait for ever? | holds, 22,616 states |
| `paysim` | a replay of up to three rows with retries, lost answers, late requests and corrupt rows, then an evaluation at any time: do the counters add up, is nothing published twice by a retry, is a complete exclusion complete and a report without a warning too, do both programs agree on the extremes, does the replay end? | holds |
| `dataset` | two runs of the preparation over the same files, stopped or killed anywhere, with validation, samples and profiles in between: do events and labels belong together, are validated files the work of one run, does every refusal have a named reason, do samples and profiles say what their rows say? | holds, 260,911 states |
| `event_loss` | "no silent event loss" (docs/10) | violated |
| `malformed` | missing required fields and undeserializable events are "kept in the DLT" (docs/10) | violated |
| `dlt_duplicate` | "on a duplicate the existing row is read and published" (docs/07) | violated |
| `window_out_of_order` | "its own window, not arrival order" (docs/51, docs/06) | violated |
| `prepared_validates` | "validate processed outputs after preprocessing" (scripts/data/README.md) | violated |

### Bounds

- `MaxLog` = 2 records per partition: one to commit past another. Partitions
  share nothing but eventIds, which the Kafka key ties to one partition, so
  TLC runs one; the theorems cover any number.
- `MaxFaults` and `MaxDeliveries`: 3 faults against 2 deliveries let records
  be given up; 2 against 4 (with up to one drill failure per process) do not.
  With 3 faults a record is in the dead-letter topic up to 4 times: the bound
  of `DeadLetterCopiesArePaid` is reached.
- Two consumers are enough for a rebalance during processing and for two
  writers of one row; a third waits in the place of the second.
- `SlidingWindow`: a window of one tick, with events before, inside and after
  it; times to live at the boundary; `MaxTime` beyond the last expiry that
  can matter; `MaxDelay` bounds the age of an event while it is processed.
- `system`: one event, since records, receipts and results of different events
  share nothing; two rows, so that a reprocessed record that fails again has
  its own, of which one cannot be read back; two requests of two operators,
  one more than `MaxAttempts` = 1, so the limit is reached and passed; two
  faults, which intake, consumers and administration share; late sends, which
  arrive between any two of these steps. What is proved of
  the administration for every bound holds of the composition
  (`SystemImplementsAdmin`).
- `intake`: four requests, of which three at a time, allow a retry after a
  failure while two others wait.
- `paysim`: two faults and one retry, so a request fails, is repeated and
  fails again, or arrives late beside its repetition; three failures against
  a list of two; scores 20, 30, 70, 100 and those a window adds, on both sides
  of the levels; command lines with and without prefix, limit, dry run and
  stopping at the first error. `Unreachable` is not a fault: the API may be
  away for good.
- `dataset`: five raw files of three to six rows that between them have every
  native type and every verdict; two of them with equal counters and different
  rows, the case a validator could be deceived by; a rejected row with an
  identifier for a type; paths and names the validator refuses; two runs, for one over the
  files of another, and one kill; batches of two rows, so that a last batch is
  empty, partial and full.

Symmetry is used where only safety is checked and only for consumers.

### Fairness

`ProcessMessage`, `Poll`, `Restart` and `Assign` are weakly fair: a listener
thread keeps running, the container polls an assigned partition, a dead
process is restarted by its supervisor, the coordinator assigns free
partitions. Publications and faults are not fair. Fairness of `Poll` per
partition is not justified for a consumer with an undecodable record, whose
poll throws as a whole; the run that has one uses a single partition.

In `Intake` and `FraudSystem` the steps of a request are fair: the thread runs
and a send ends within its five seconds. `SystemFairSpec` also assumes that
each deployment keeps a consumer running that handles or dead-letters the
records that wait (`Consume`); failing deliveries and new requests are not
fair, and a failing delivery costs one of finitely many faults. The steps of
the replay client are fair (`ClientStep`): every request has a timeout. The
API and the consumer owe it nothing. The scripts of the preparation are not
fair: nothing is promised of them but what they leave behind.

## 4. What the models show of the code

Where the code does not do what a document says:

1. **Records given up.** A call that fails on every delivery (a database
   outage of a few seconds is enough) makes the default handler move on; the
   next acknowledgment commits past the record. The loss needs as many faults
   as deliveries: `FewFaultsLoseNothing` shows fewer lose nothing.
2. **Malformed events.** A row that breaks a NOT NULL or width constraint is
   taken for a duplicate and acknowledged, without result and dead letter;
   an undecodable payload blocks its partition and is never dead-lettered.
3. **The duplicate dead letter.** After the constraint violation the second
   lookup runs in the aborted transaction and throws; the redelivery recovers,
   at the price of one delivery.
4. **Late events.** The clean-up of a newer event removes members that an
   older event within the allowed lateness still needs.
5. **Prepared files and their validator.** The preparation writes normalized
   types and rejects unmapped native types by name; the validator knows
   neither, so a file with a CASH_IN, CASH_OUT or DEBIT row is refused.

Smaller observations follow from the exceptions in properties that hold:

- `KeysExpire` excepts users with a failed call: a failure between the write
  of a key and its EXPIRE leaves it without TTL until the user's next event,
  whatever `docs/06` says of the TTL as a memory guard.
- `ReportAddsUp` and `ReplayEnds` speak of a replay that ends with a report;
  a connection closed while the client waits for the answer raises an
  exception nothing catches, and a row that is not JSON one behind
  `--max-events` is still parsed: both end the script without a report.
- `SuccessesArePublished` is an inequality: an event this replay published is
  counted as a duplicate when the first answer was lost.
- `DecisionsAgree` speaks of the extremes only: what the consumer sends to
  review with a score of 30 to 49 is not predicted positive by the evaluation.
- `StreamsAreIsolated` excepts events whose request was rolled back after the
  send: such an event can be decided in one mode and have its receipt in the
  other, since receipts and results are shared.
- `RecordsAreAccounted` bounds the records of an event by `MaxAttempts` *per
  row*: a record that fails again after it was reprocessed gets a row of its
  own, with new attempts, so nothing bounds the attempts per event.
- `ValidatedIsOneRun` and `SampleIsTrue` say that the report belongs to the
  files only if the last run wrote it: after a forced run that was killed, the
  report of the earlier run stays, and with equal counters it validates.
- `VerdictIsExplained` and `DataInv` allow for a CSV line cut short: its
  missing columns raise an exception nothing catches, whatever `--fail-fast`.
- `ConflictIsJustified` excepts receipts that do not fit their columns: such
  a first request is answered 409 as a duplicate.

- `AcceptedOnceAndPublished` says of an *accepted* event that it is in the
  topic. Of a refused one it says nothing: 503 and PUBLISH_FAILED mean that the
  send was not confirmed, and the event may be in the topic or arrive later.
- `TerminalIsFinal` says that no request *sends* a discarded payload any more.
  A send that was given up before the discard may still arrive after it, and
  nothing in the code could stop it.
- `DeadLetterCopiesArePaid`: the dead-letter topic is not unique per record. A
  publication whose acknowledgment or whose answer is lost is repeated, and a
  consumer that lost its partition publishes beside the new owner; each copy
  beyond the first costs a fault.
- `VerdictIsExplained` names what a whole output is refused for: the names and
  paths its report repeats, no row at all, too many rejected rows, the default
  salt where another is required, an accepted row whose normalized type the validator
  does not know, a row rejected for its native type, a rejected row whose type
  column looks like a raw identifier. The preparation prevents none of these.

### What an answer of the window may miss

The shipped defaults (window 5 min, TTL 10 min, lateness 5 min, skew 5 min) do
not make the time to live longer than window, lateness and skew together, and
nothing in the code enforces a relation between them. So no property here
assumes one. `AnswersInTimeAreComplete` speaks of an answer given less than
TTL - Window after the eventTime of its event: with the defaults five minutes,
the allowed lateness, of which waiting in the topic uses up a part. It has
every recorded event of its window, in any order of arrival, except

- members that the clean-up of a newer event removed (observation 4 above);
- members, or the event itself, one of whose keys expired between the write of
  their own call and its EXPIRE, while the key still had an old time to live
  (`caught`): the member is lost although it has just been written;
- members of users with a failed call (`disturbed`): that call is answered
  DEGRADED, later ones, which may miss what it did not write, are not;
- members dated later than their arrival: they were written before their
  eventTime, so their hash expires that much earlier.

`MCSlidingWindow_exact` has both a time to live at the boundary of the window
and lateness (2) and a longer one (4), events as late as allowed and one tick
later, and one dated in the future; the theorem `AnswersInTime` covers every
combination of settings.

## 5. Proofs

Every invariant and action property the runs check is a theorem, for all values
of the constants that satisfy the named assumptions of the modules
(`...Assumption`). What remains for TLC alone is liveness.

### Consumer

`FraudConsumerProofs` proves, for every set of events, partitions and
consumers, every partitioning, delivery limit and number of faults, and from
`ConsumerAssumption` alone:

- `TypeCorrect`: `Spec => []TypeOK`;
- `ConsumerInvariantHolds`: `Spec => []Inv`, with
  `Inv == TypeOK /\ IInv /\ LossInv /\ CopiesInv`;
- `CommitSafety`: `Spec => []CommitRequiresOutcome`;
- `LossNeedsFaults`: `Spec => []FewFaultsLoseNothing`;
- `CopiesNeedFaults`: `Spec => []DeadLetterCopiesArePaid`.

`CommitRequiresOutcome` is not inductive: it says nothing of a consumer that
is about to commit. `IInv` adds that all records below a partition's
*position* are accounted for, that the record a consumer processes is at the
position of its partition while it owns it, and what its progress implies
(logged after the first call, dead-lettered before publishing, accounted for
before acknowledging). The argument has two halves. `StepGrows` shows that no
step takes anything back that an outcome rests on, so `Accounted` is stable
(`AccountedStays`). `GroupInvariant` and `ConsumerInvariant` then show that
each step that moves a position or a commit does so past an accounted record;
steps of other consumers are dealt with once, in `StepOfOther`.

`LossInv` counts deliveries against faults. That records are given up only for
as many faults as deliveries is a matter of who pays for
a delivery: `FaultInv` says that with the drill off the deliveries of a record
used up so far are covered by faults. There is one more way to fail a
delivery, the lost race for the row of a dead letter. It costs a fault too,
but that of a consumer that lost the partition, so `FaultInv` keeps account of
these stragglers and of the owner that found no row where there is one now.

`CopiesInv` counts copies in the dead-letter topic against faults. A copy is
published by the owner of the partition or by a straggler, and after the
owner's copy the record is acknowledged, unless a fault intervenes. So copies
that may yet be published are counted in advance: one for each straggler with
the record (`Stragglers`), one if the group has yet to deal with it
(`StillToCome`); with those already there they are at most one more than the
faults (`CopiesPaid`). A step that publishes turns one into the other, and a
step that makes a straggler, or the group deal with the record once more, is a
fault. `ConsumerAssumption` includes that the set of consumers is finite, since
stragglers are counted.

`FraudRefinementProofs` proves `Refinement`: `Spec => ImplementsOutcome`. A
decision of `FraudOutcome` maps to the tables of the pipeline, so a step must
keep what is decided (`OutcomeStep`, from the monotonicity half above and
`KeyInv`: rows have the key of a record in the log) and commit only forward
past settled records (`CommitAllowed`, from `IInv`); `StepSimulation` puts the
two together.

### Administration, intake and their composition

`DltAdminProofs` proves from `DltAssumption`: `DltTypeCorrect`,
`DltInvariantHolds`, `AuditCorrect`, `CopiesBounded`, `TerminalFinal` and
`NeverStuck`. `IInv` says that a request between lookup and end holds the lock
of its row, that its entity is the stored row carried to its step, and that
its sends and audit record are those of the step; everything the properties
relate changes only under that lock, so `WriteBack` writes on what it read.

`IntakeProofs` proves from `IntakeAssumption`: `IntakeTypeCorrect`,
`IntakeInvariantHolds`, `AcceptedOnce`, `CopiesBounded`, `ReceiptFinal` and
`ConflictJustified`. `IInv` says what each step of a
request has sent and holds (`RequestInv`), that the inserter of an eventId is
a request between its insert and its commit (`InserterInv`), and that no
answer of a stored event exists without a receipt (`AnswerInv`); two requests
can then not both reach their commit with the same eventId.

`FraudSystemProofs` proves from `SystemAssumption`, `SourceAssumption` and
`DltAssumption`:

- `SystemImplementsAdmin`: `SystemSpec => Spec`. Every step of the composition
  is a step of the administration or leaves it alone; storing a dead letter is
  its `RecordFailure`. So every safety theorem about `DltAdmin` holds while
  intake and consumers of both modes run (`SystemAudits`,
  `SystemTerminalIsFinal`).
- `SystemInvariantHolds` and `StreamsIsolated`. `StreamsAreIsolated` says
  nothing of where a dead letter goes; `SourceInv` adds that a row names a
  topic in which its event has a record, so what reprocessing publishes there
  was taken there before. `AcceptInvariant`, `DeliveryInvariant` and
  `AdminStreamInvariant` treat the three kinds of steps.
- `RecordsAccounted`: `SystemSpec => []RecordsAreAccounted`. `AccountInv` is
  the ledger behind it: a row has the place of a record and no record has two
  (`OffsetInv`), an undecided event has a row or a loss for each record that a
  group has passed (`ProgressInv`), and records come from receipts, rolled back
  requests and copies (`OriginInv`). A delivery that fails after it has stored
  its row puts that row *ahead* of the group, so the ledger counts the rows at
  or below what the group has passed (`PassedRows`), not all rows: otherwise a
  record could be passed on the row of another. Sums over rows are
  cardinalities of sets of pairs of a row and a number, which makes them
  amenable to the theorems about finite sets.

### Window

`SlidingWindowProofs` proves from `WindowAssumption`, for any number of users,
events, consumers, times to live and failures: `WindowTypeCorrect`,
`WindowInvariantHolds`, `ExactWindow`, `KeysDoExpire` and `AnswersInTime`. An
answer is put together by commands that other calls, failures and expiry
separate, so its exactness rests on four things (`Inv`): keys without a time to
live have a call that will still set it or a failed one behind them
(`KeysPending`); a member was added, after its event was received
(`MembersInv`); what was added less than a time to live ago, was not passed by a
clean-up and belongs to a user without a failed call is in both keys, and
stays or will have its time extended (`KeptInv`); and a call between its range
read and its answer has read, or will still find, every such member
(`CallInv`). Each command has a lemma that it keeps `KeptInv`
(`PutAllKeeps` to `TickKeeps`) and one for the calls in progress
(`SendWriteCall` to `OtherCalls`); `AnswersInTime` then is arithmetic: a member
that is not from the future was added no earlier than its eventTime, which is at
most a window before that of the answered event, so an answer in time is within
its time to live. That only the member's own call can lose it without a failure
or a clean-up is why `caught` is a set of events and not of users.

### Replay and evaluation

`PaySimProofs` proves `DegradedScoresAreLowest` and `EvaluationAgrees` from
the invariant that a stored result is the rule engine's score of the event
with some window (`ResultsInvariant`, only `Consume` decides), the fact that
more matched rules never lower a score (`ScoreSumMonotone`), and the
boundaries of levels and policies (`ScoreDecides`).

From `EngineAssumption`, `ReplayAssumption` and `EvaluationAssumption` it also
proves, for inputs of any length, any number of retries, faults and failures in
the report's list, and any policy: `ReplayInvariantHolds` (`EvalInv`),
`ReportsAddUp`, `RetriesNeverDuplicate`, `SuccessesAreReal`,
`ExclusionsAreComplete`, `MatricesAddUp` and `QuietReportsAreComplete`.

- *The replay* (`StateInv`). The counters add up only together with the row at
  hand: while a request is on its way the outcomes are one short of the
  accepted rows (`SendInv`), and rejected rows and listed failures are rows
  that were read (`FailuresInv`). `SettleCounters` treats the end of a request
  once for all ways to end. For the copies in the topic, `HandleStep` treats
  the API once for requests in time and late ones; `PublishedStep` counts the
  events this replay published, to which each success adds one of its own.
- *The report* (`ReportInv`). A report is what `BuildReport` makes of the state
  it was written in, and that state is still there, so that a property of a
  report is a fact about an operator (`ExclusionFollows`, `MatrixFollows`,
  `QuietFollows`).
- *Counting.* That the exclusion is complete when as many ids are listed as
  rows were rejected is an injection of ids into rows (`ExclusionCounts`). The
  matrix is a partition of the labels (`LabelCounts`); the levels count the
  scored events, shown by adding one pair of level and label at a time, of
  which there are eight (`AddBin`, `LevelsCountScored`); `F1Facts` compares
  fractions of naturals.

### Preparation, samples, profile

`PaySimDataProofs` proves from `PreparationAssumption`, `ReportAssumption`,
`OutputsAssumption` and `ProfileAssumption`, for any raw files, command lines,
batch size, runs and kills:

- `PreparationHolds`: `PrepSpec => []PrepInv`, and `DataInvariantHolds`:
  `DataSpec => []DataInv`, which adds `SampleInv`, `ProfilingInv` and
  `ProfileInv`;
- `ValidatedOutputsAreOneRun`, `VerdictsAreExplained`, `SamplesAreTrue` and
  `ProfilesAgree`.

*Files.* Written row numbers rise within a file and the label beside an event
is its own (`LinesAgree`); that this survives the next row needs that the
counters of a run at work are the lines it has written (`CountersAgree`), and
that it survives a kill needs what a prefix with a torn end keeps
(`RemainsRise`, `RemainsAgree`). The validator sees the files only, so what it
lets pass is one run because a file has no gap before any of its lines
(`FilesInv`): the first line's run is that of all. What a whole report says of
its files is `Worked`, which holds of a run at work (`RunningInv`) and, once its
report is written, until the files are opened again (`WrittenInv`).
`ReportInv` outlives the files: a report tells the rows of its command line.
A refusal has one of the reasons named because with `Worked` each check of the
validator comes down to one of them (`EventsVerdict`, `RejectedVerdict`,
`ReportVerdict`).

*Samples.* The two files that are sampled may differ in length, when a kill has
cut one. A row that is in both has one place and the same line
(`SamePlace`); so if the same ids are found in both, the places, and the lines
put in the order of the ids, are the same (`PickedAgree`). `SamplingInv` carries
this over the writing of the three files.

*Profile.* Table and batch together list the accepted rows read so far, in
their order and each once, and the reasons sum up to the rejected rows
(`ProfilingInv`): that no row is lost or inserted twice at the boundary of a
batch is this invariant and nothing else. A complete profile was then made of
a list of all accepted rows (`Made`), and `MadeIsRight` compares the
aggregates with the rows. An aggregate is a count by groups, a group is a set
of rows (`Class`), and a sum over groups is the number of their rows by a
bijection (`GroupSums`). `NearestRanks` shows that the row at the offset is the
least value that enough groups do not exceed, `TopFacts` that a set of the
largest groups exists for every size, by extending a smaller one.

### Model-checked only

Liveness: `EveryRecordHandled`, `LagDrains`, `RequestsEnd`, `RowsAreReleased`,
`RecordsAreHandled` and `ReplayEnds` rest on fairness and ENABLED, which the
proof system does not treat. And the five runs that show a disagreement are
counterexamples, which need no proof.

No recursive definition and no fold is left in the modules the theorems are
about: sums are cardinalities of sets of pairs, the k-th of a sorted set is the
one with k - 1 before it. That keeps induction over data out of the proofs;
where an argument goes by size (`TopFacts`, `Least`), it uses well-founded sets
of natural numbers.

## 6. Not modelled

- Workload manifests: `validate_v3_workload_manifest.py` compares fields of a
  document with constants; it has no state and no step to interleave.
- Two further scripts that compare two sets of numbers once:
  `verify_paysim_native_replay_contract.py` and
  `verify_paysim_rule_threshold_regression.py`.
- Admin queries, authentication, exception mapping, metrics, logging: they
  keep no state that a decision reads.
- Drills, load tests and dashboards drive the system from outside; what they
  inject is an action of the models.
- In the replay and the evaluation: pacing, and distributions by type and by
  rule, which no count depends on.
- In the preparation: the form of single fields (timestamps, hashes, widths),
  which the preparation writes as the validator reads them; the averages of the
  profile, which round.

## 7. What could be added

1. Offsets in `FraudSystem`: an order of the records of a topic, so that
   `FraudConsumer` itself can take the place of the one-step delivery.
2. The status that `FraudConsumer` takes from its window shown to be what
   `SlidingWindow` answers, and the one-step API of `PaySimReplay` what `Intake` implements.
