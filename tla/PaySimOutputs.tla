---------------------------- MODULE PaySimOutputs ----------------------------
(***************************************************************************)
(* What is done with the prepared files: validate_paysim_outputs.py checks *)
(* them against each other and the report, generate_paysim_samples.py      *)
(* takes a small sample with a manifest from them.                         *)
(*                                                                         *)
(* The eventId of a line is made of its row number alone, so two runs of   *)
(* the preparation give the same ids to different events.                  *)
(***************************************************************************)
EXTENDS PaySimPreparation, SequencesExt

CONSTANTS
    MaxRejects,      \* --max-reject-ratio, in hundredths
    SampleRequests   \* the command lines of the sample generation

SampleRequestType == [strategy: {"head", "balanced"}, size: Nat \ {0},
                      strict: BOOLEAN, force: BOOLEAN]

ASSUME OutputsAssumption ==
    /\ MaxRejects \in Nat
    /\ SampleRequests \subseteq SampleRequestType

VARIABLES
    summary,         \* the file of --summary-output, or None
    sampling,        \* what the generation has yet to write, or None
    sample,          \* the sample files; None for one that does not exist
    sampleWhole      \* history: the last generation wrote all of them

sampleVars == <<summary, sampling, sample, sampleWhole>>

SampleFiles == {"events", "labels", "manifest"}

OutputsTypeOK ==
    /\ PrepTypeOK
    /\ summary \in [Streams \cup {"fraud", "flagged"} -> Nat] \cup {None}
    /\ DOMAIN sample = SampleFiles
    /\ \A f \in SampleFiles \ {"manifest"} :
          sample[f] \in Seq(Lines \cup {Torn}) \cup {None}
    /\ sampleWhole \in BOOLEAN
    /\ sampling # None => job = None

OutputsInit ==
    /\ PrepInit
    /\ summary = None
    /\ sampling = None
    /\ sample = [f \in SampleFiles |-> None]
    /\ sampleWhole = TRUE

Idle == job = None /\ sampling = None

-----------------------------------------------------------------------------
(* validate_paysim_outputs.py. *)

(* VALID_TYPES and VALID_REJECT_REASONS of the validator, which knows the  *)
(* native types only and no reason for an unmapped one.                    *)
ValidTypes == NativeTypes

ValidRejectReasons ==
    {"MISSING_REQUIRED_COLUMN", "INVALID_STEP", "INVALID_TYPE", "INVALID_AMOUNT",
     "INVALID_BALANCE", "INVALID_LABEL", "UNSUPPORTED_ROW"}

Present == \A f \in DOMAIN disk : disk[f] # None

(* Every line of the file is JSON. *)
Parses(f) == Torn \notin Range(disk[f])

EventIds(lines) == {l.row : l \in Range(lines)}

EventType(l) == TypeMapping[RowOf(l).type]

ValidateEvents ==
    /\ Parses("events")
    /\ IsInjective([i \in DOMAIN disk["events"] |-> disk["events"][i].row])
    /\ \A l \in Range(disk["events"]) : EventType(l) \in ValidTypes

ValidateLabels ==
    /\ Parses("labels")
    /\ IsInjective([i \in DOMAIN disk["labels"] |-> disk["labels"][i].row])
    /\ EventIds(disk["labels"]) = EventIds(disk["events"])

(* RAW_IDENTIFIER_PATTERN occurs in the line of a rejected row: its        *)
(* rawType is the text of the type column.                                 *)
ShowsIdentifier(l) == RowOf(l).type = "C123"

ValidateRejected ==
    /\ Parses("rejected")
    /\ \A l \in Range(disk["rejected"]) :
          ~ShowsIdentifier(l) /\ Verdict(RowOf(l)) \in ValidRejectReasons

CountLines(f, flag) == Cardinality({i \in DOMAIN disk[f] : RowOf(disk[f][i])[flag]})

ValidateCounts(c) ==
    /\ c["total"] # 0
    /\ c["accepted"] = Len(disk["events"])
    /\ c["rejected"] = Len(disk["rejected"])
    /\ c["total"] = c["accepted"] + c["rejected"]
    /\ c["fraud"] = CountLines("labels", "fraud")
    /\ c["flagged"] = CountLines("labels", "flagged")
    /\ 100 * c["rejected"] <= MaxRejects * c["total"]

(* eventTypeCounts are compared with the eventType of the events. *)
ValidateTypeCounts(counts) ==
    \A t \in ValidTypes :
        counts[t] = Cardinality({i \in DOMAIN disk["events"] :
                                    EventType(disk["events"][i]) = t})

ValidateReport(strict) ==
    /\ disk["report"] # Torn
    /\ disk["report"].job.odd = {}
    /\ strict => disk["report"].job.salt # "default-local"
    /\ ValidateCounts(disk["report"].counters)
    /\ Len(disk["labels"]) = disk["report"].counters["accepted"]
    /\ ValidateTypeCounts(disk["report"].types)

Validates(strict) ==
    /\ Present
    /\ ValidateEvents
    /\ ValidateLabels
    /\ ValidateRejected
    /\ ValidateReport(strict)

(* A validation that fails writes nothing; an earlier summary stays.       *)
Validate ==
    /\ Idle
    /\ Validates(FALSE)
    /\ summary' = [f \in Streams |-> Len(disk[f])] @@
                  [f \in {"fraud", "flagged"} |-> disk["report"].counters[f]]
    /\ UNCHANGED <<prepVars, sampling, sample, sampleWhole>>

-----------------------------------------------------------------------------
(* generate_paysim_samples.py. *)

Take(s, n) == SubSeq(s, 1, IF n < Len(s) THEN n ELSE Len(s))

Ids(lines) == [i \in DOMAIN lines |-> lines[i].row]

(* The members of S in the order of their keys, which are different. *)
SortedBy(S, key) ==
    [k \in 1 .. Cardinality(S) |->
        CHOOSE x \in S : Cardinality({y \in S : key[y] < key[x]}) = k - 1]

(* All lines, those of a fraud first. *)
FraudFirst(lines) ==
    LET place == [i \in DOMAIN lines |->
                     IF RowOf(lines[i]).fraud THEN i ELSE Len(lines) + i]
    IN [k \in DOMAIN lines |-> lines[SortedBy(DOMAIN lines, place)[k]]]

(* The first events; or fraud first, then the others, from the labels. *)
ChooseIds(r) ==
    IF r.strategy = "head" THEN Take(Ids(disk["events"]), r.size)
    ELSE Take(Ids(FraudFirst(disk["labels"])), r.size)

PlaceOf(ids, id) == CHOOSE k \in DOMAIN ids : ids[k] = id

(* The lines with the chosen ids, in the order in which they were chosen;  *)
(* an id the file does not have has no line.                               *)
SelectRows(f, ids) ==
    LET chosen == {i \in DOMAIN disk[f] : disk[f][i].row \in Range(ids)}
        order == [i \in chosen |-> PlaceOf(ids, disk[f][i].row)]
        sorted == SortedBy(chosen, order)
    IN [k \in DOMAIN sorted |-> disk[f][sorted[k]]]

Manifest(r, labels) ==
    [source |-> disk["report"].job, strategy |-> r.strategy, size |-> r.size,
     sampleLabels |-> Len(labels),
     sampleFraudRows |-> Cardinality({i \in DOMAIN labels : RowOf(labels[i]).fraud}),
     whole |-> whole]

(* Faulty variant: the two files are not compared. *)
ValidateGeneratedLoosely(events, labels) == events # <<>>

ValidateGenerated(events, labels) == EventIds(events) = EventIds(labels)

(* Everything is read and checked before the first file is written.        *)
Generate(r) ==
    /\ Idle
    /\ disk["events"] # None /\ disk["labels"] # None /\ disk["report"] # None
    /\ r.force \/ \A f \in SampleFiles : sample[f] = None
    /\ disk["report"] # Torn
    /\ "identifier" \notin disk["report"].job.odd
    /\ r.strict => disk["report"].job.salt # "default-local"
    /\ Parses("events") /\ Parses("labels")
    /\ LET ids == ChooseIds(r)
           events == SelectRows("events", ids)
           labels == SelectRows("labels", ids)
       IN
       /\ ids # <<>>
       /\ ValidateGenerated(events, labels)
       /\ sampling' = [todo |-> <<"events", "labels", "manifest">>,
                       events |-> events, labels |-> labels,
                       manifest |-> Manifest(r, labels)]
    /\ sampleWhole' = FALSE
    /\ UNCHANGED <<prepVars, summary, sample>>

WriteSample ==
    /\ sampling # None
    /\ sample' = [sample EXCEPT ![Head(sampling.todo)] = sampling[Head(sampling.todo)]]
    /\ IF Len(sampling.todo) = 1
       THEN sampling' = None /\ sampleWhole' = TRUE
       ELSE /\ sampling' = [sampling EXCEPT !.todo = Tail(@)]
            /\ UNCHANGED sampleWhole
    /\ UNCHANGED <<prepVars, summary>>

(* Killed in the middle of a file: its opening has emptied it.             *)
KilledWriting ==
    /\ Kill
    /\ sampling # None
    /\ sampling' = None
    /\ LET f == Head(sampling.todo) IN
       \E left \in (IF f = "manifest" THEN {Torn} ELSE Remains(sampling[f])) :
           sample' = [sample EXCEPT ![f] = left]
    /\ UNCHANGED <<job, counters, types, disk, jobs, whole, summary, sampleWhole>>

OutputsNext ==
    \/ sampling = None /\ Prepare /\ UNCHANGED sampleVars
    \/ Validate
    \/ \E r \in SampleRequests : Generate(r)
    \/ WriteSample
    \/ KilledWriting

OutputsSpec == OutputsInit /\ [][OutputsNext]_<<prepVars, sampleVars>>

-----------------------------------------------------------------------------
(* What a validation lets pass is the work of one run, all of it up to a   *)
(* row: events and labels are the same rows of the same dataset under the  *)
(* same salt, without a gap, whatever was killed or left over from earlier *)
(* runs.  That the report is of that run as well it cannot see: it takes a *)
(* run that wrote its report (validate_events to validate_report).         *)
ValidatedIsOneRun ==
    Idle /\ Validates(FALSE) =>
        /\ disk["events"] = disk["labels"]
        /\ \E j \in Jobs :
              /\ \A l \in Range(disk["events"]) : l.job = j
              /\ \A n \in Accepted(j), m \in EventIds(disk["events"]) :
                     n < m => n \in EventIds(disk["events"])
        /\ whole => LET j == disk["report"].job IN
              /\ \A l \in Range(disk["events"]) \cup Range(disk["rejected"]) : l.job = j
              /\ EventIds(disk["events"]) = Accepted(j)

Unmapped(r) == Verdict(r) = "UNSUPPORTED_NATIVE_TYPE:DEBIT"

(* What the files of a run that wrote its report are refused for: the      *)
(* names its report repeats, no row, too many rejected rows, the salt, an  *)
(* accepted row whose normalized type is not a native one, a row rejected  *)
(* for its native type, a rejected row whose type looks like an identifier.*)
Excusable(strict) ==
    LET j == disk["report"].job
        c == disk["report"].counters
    IN
    \/ j.odd # {}
    \/ c["total"] = 0
    \/ 100 * c["rejected"] > MaxRejects * c["total"]
    \/ strict /\ j.salt = "default-local"
    \/ \E l \in Range(disk["events"]) : RowOf(l).type \in {"CASH_OUT", "CASH_IN"}
    \/ \E l \in Range(disk["rejected"]) : Unmapped(RowOf(l)) \/ ShowsIdentifier(l)

(* The files of a run that wrote its report are refused for these reasons  *)
(* and no other: no line it wrote and none of its counts is wrong, for any *)
(* mixture of rows (process counts as it writes, validate compares).       *)
VerdictIsExplained ==
    Idle /\ whole /\ disk["report"] # None =>
        \A strict \in BOOLEAN : Validates(strict) <=> ~Excusable(strict)

(* "Validate processed outputs after preprocessing": the files of a run    *)
(* that wrote its report, under the published names, of rows without a     *)
(* flaw, are valid.                                                        *)
PreparedOutputValidates ==
    (/\ Idle /\ whole /\ disk["report"] # None
     /\ disk["report"].job.odd = {} /\ disk["events"] # <<>>
     /\ \A l \in Range(disk["rejected"]) : Unmapped(RowOf(l)))
        => Validates(FALSE)

(* Two sample files and their manifest: the labels are those of the        *)
(* events, and the manifest counts them and names their source.            *)
Sampled(events, labels, m) ==
    /\ events = labels
    /\ m.sampleLabels = Len(events)
    /\ m.sampleLabels \in 1 .. m.size
    /\ m.sampleFraudRows = Cardinality({l \in Range(labels) : RowOf(l).fraud})
    /\ m.whole => \A l \in Range(events) : l.job = m.source

(* A sample that was written to its end is closed, its labels are those of *)
(* its events, and its manifest counts them; and it names the dataset and  *)
(* the salt of its lines if the prepared files came with their own report. *)
(* The prepared files may have been killed, replaced or mixed before and   *)
(* since (validate_generated compares the ids before anything is written). *)
SampleIsTrue ==
    sampleWhole /\ sample["manifest"] # None =>
        Sampled(sample["events"], sample["labels"], sample["manifest"])

(* While the files are written, those that are hold what was checked.      *)
SamplingInv ==
    /\ DOMAIN sample = SampleFiles
    /\ sampling # None =>
        /\ ~sampleWhole
        /\ DOMAIN sampling = {"todo", "events", "labels", "manifest"}
        /\ Sampled(sampling.events, sampling.labels, sampling.manifest)
        /\ \/ sampling.todo = <<"events", "labels", "manifest">>
           \/ /\ sampling.todo = <<"labels", "manifest">>
              /\ sample["events"] = sampling.events
           \/ /\ sampling.todo = <<"manifest">>
              /\ sample["events"] = sampling.events
              /\ sample["labels"] = sampling.labels

SampleInv == SamplingInv /\ SampleIsTrue
=============================================================================
