-------------------------- MODULE PaySimPreparation --------------------------
(***************************************************************************)
(* scripts/data/prepare_paysim_dataset.py: turns the raw PaySim CSV into   *)
(* three files of lines, events, labels and rejected rows, and a report.   *)
(*                                                                         *)
(* The script reads row by row and writes as it goes; the report comes     *)
(* last.  It may be stopped by a row, or killed at any moment, in which    *)
(* case each open file keeps some prefix of its lines, the last of them    *)
(* perhaps torn.  With --force it works over the files of an earlier run.  *)
(***************************************************************************)
EXTENDS Naturals, Sequences, FiniteSets

CONSTANTS
    Datasets,      \* raw CSV files, by their sha256
    RowsOf,        \* the rows of a raw file
    Users,         \* values of nameOrig
    Jobs,          \* the command lines the script may be started with
    Torn,          \* a line that is not JSON
    None

CONSTANTS
    MaxJobs,       \* bound: runs of the script
    MaxKills       \* bound: killed scripts

NativeTypes == {"PAYMENT", "TRANSFER", "CASH_OUT", "CASH_IN", "DEBIT"}

(* TYPE_MAPPINGS: DEBIT has no normalized type. *)
TypeMapping == [PAYMENT |-> "PAYMENT", TRANSFER |-> "TRANSFER",
                CASH_OUT |-> "WITHDRAWAL", CASH_IN |-> "DEPOSIT"]

(* What may be wrong with a row besides its type.  A line of the CSV that  *)
(* ends early has no value in its last columns, which is neither a         *)
(* malformed nor an empty one.                                             *)
Flaws == {"step", "noAmount", "amount", "balance", "noBalance", "name", "label"}

(* What the type column may hold besides: a text that looks like a user's  *)
(* raw identifier, as in a line whose columns are shifted, or another one. *)
OtherTypes == {"C123", "OTHER"}

RawRows == [type: NativeTypes \cup OtherTypes, flaws: SUBSET Flaws,
            user: Users, step: Nat, fraud: BOOLEAN, flagged: BOOLEAN]

HashSaltSources == {"cli", "env", "default-local"}

(* What may be unusual in the names that a report repeats: --dataset-slug  *)
(* or the input's file name are not the published ones, or a name (a path, *)
(* the salt's environment variable) looks like a raw identifier.           *)
Oddities == {"slug", "file", "identifier"}

JobType == [data: Datasets, salt: HashSaltSources, limit: Nat \cup {None},
            failFast: BOOLEAN, force: BOOLEAN, odd: SUBSET Oddities]

ASSUME PreparationAssumption ==
    /\ RowsOf \in [Datasets -> Seq(RawRows)]
    /\ Jobs \subseteq JobType
    /\ None \notin JobType \cup Nat \cup Seq([job: JobType, row: Nat] \cup {Torn})
    /\ Torn \notin [job: JobType, row: Nat] \cup {None}
    /\ MaxJobs \in Nat
    /\ MaxKills \in Nat

VARIABLES
    job,           \* the command line of the script at work, or None
    counters,      \* its counters
    types,         \* its count of accepted rows per native type
    disk,          \* the output files; None for one that does not exist
    jobs,          \* number of runs so far
    kills,         \* number of killed scripts so far
    whole          \* history: the last run over the files wrote its report

prepVars == <<job, counters, types, disk, jobs, kills, whole>>

Lines == [job: JobType, row: Nat]

Streams == {"events", "labels", "rejected"}

CounterNames == {"total", "accepted", "rejected", "fraud", "flagged"}

Report(j) == [job |-> j, counters |-> counters, types |-> types]

Reports == [job: Jobs, counters: [CounterNames -> Nat],
            types: [NativeTypes -> Nat]]

ASSUME ReportAssumption == Torn \notin Reports

PrepTypeOK ==
    /\ job \in Jobs \cup {None}
    /\ counters \in [CounterNames -> Nat]
    /\ job # None => counters["total"] <= Len(RowsOf[job.data])
    /\ types \in [NativeTypes -> Nat]
    /\ DOMAIN disk = Streams \cup {"report"}
    /\ \A f \in Streams : disk[f] \in Seq(Lines \cup {Torn}) \cup {None}
    /\ disk["report"] \in Reports \cup {Torn, None}
    /\ jobs \in 0 .. MaxJobs
    /\ kills \in 0 .. MaxKills
    /\ whole \in BOOLEAN

PrepInit ==
    /\ job = None
    /\ counters = [c \in CounterNames |-> 0]
    /\ types = [t \in NativeTypes |-> 0]
    /\ disk = [f \in Streams \cup {"report"} |-> None]
    /\ jobs = 0
    /\ kills = 0
    /\ whole = TRUE

-----------------------------------------------------------------------------
(* normalize_row: the checks in their order; the first that fails decides. *)

Check(flaw, verdict) == [flaw |-> flaw, verdict |-> verdict]

Checks ==
    <<Check("step", "INVALID_STEP"), Check("type", "INVALID_TYPE"),
      Check("unmapped", "UNSUPPORTED_NATIVE_TYPE:DEBIT"),
      Check("noAmount", "TypeError"), Check("amount", "INVALID_AMOUNT"),
      Check("balance", "INVALID_BALANCE"), Check("noBalance", "TypeError"),
      Check("name", "UNSUPPORTED_ROW"), Check("label", "INVALID_LABEL")>>

FlawsOf(r) ==
    r.flaws \cup (IF r.type \notin NativeTypes THEN {"type"} ELSE {})
            \cup (IF r.type \in NativeTypes \ DOMAIN TypeMapping
                  THEN {"unmapped"} ELSE {})

Failing(r) == {i \in DOMAIN Checks : Checks[i].flaw \in FlawsOf(r)}

Verdict(r) ==
    IF Failing(r) = {} THEN "accepted"
    ELSE Checks[CHOOSE i \in Failing(r) : \A k \in Failing(r) : i <= k].verdict

-----------------------------------------------------------------------------
(* process. *)

Add(c, names) == [n \in CounterNames |-> c[n] + (IF n \in names THEN 1 ELSE 0)]

Append1(d, f, l) == [d EXCEPT ![f] = Append(@, l)]

(* An existing output is overwritten only with --force. *)
EnsureOutputs(j) == j.force \/ \A f \in DOMAIN disk : disk[f] = None

Truncated(streams) ==
    [f \in DOMAIN disk |-> IF f \in streams THEN <<>> ELSE disk[f]]

Start(j) ==
    /\ job = None
    /\ jobs < MaxJobs
    /\ EnsureOutputs(j)
    /\ jobs' = jobs + 1
    /\ counters' = [c \in CounterNames |-> 0]
    /\ types' = [t \in NativeTypes |-> 0]
    /\ whole' = FALSE

Open(j) ==
    /\ Start(j)
    /\ job' = j
    /\ disk' = Truncated(Streams)
    /\ UNCHANGED kills

Kill ==
    /\ kills < MaxKills
    /\ kills' = kills + 1

(* Killed before the last of the three files is opened. *)
KilledOpening(j) ==
    /\ Kill
    /\ Start(j)
    /\ disk' \in {Truncated({"events"}), Truncated({"events", "labels"})}
    /\ UNCHANGED job

(* The reader has a row and the limit, if any, is not reached. *)
HasRow ==
    /\ counters["total"] < Len(RowsOf[job.data])
    /\ job.limit # None => counters["total"] < job.limit

Row == RowsOf[job.data][counters["total"] + 1]

Line == [job |-> job, row |-> counters["total"] + 1]

(* Faulty variant: a row's type is counted before its labels are read. *)
RejectRowTypeCounted ==
    /\ job # None
    /\ HasRow
    /\ Verdict(Row) \notin {"accepted", "TypeError"}
    /\ ~job.failFast
    /\ counters' = Add(counters, {"total", "rejected"})
    /\ types' = IF Verdict(Row) = "INVALID_LABEL"
                THEN [types EXCEPT ![Row.type] = @ + 1] ELSE types
    /\ disk' = Append1(disk, "rejected", Line)
    /\ UNCHANGED <<job, jobs, kills, whole>>

RejectRow ==
    /\ job # None
    /\ HasRow
    /\ Verdict(Row) \notin {"accepted", "TypeError"}
    /\ ~job.failFast
    /\ counters' = Add(counters, {"total", "rejected"})
    /\ disk' = Append1(disk, "rejected", Line)
    /\ UNCHANGED <<job, types, jobs, kills, whole>>

(* --reject-policy fail-fast, or a value that is missing: Decimal(None)    *)
(* raises a TypeError, which nothing catches.  The files are closed.       *)
StopAtRow ==
    /\ job # None
    /\ HasRow
    /\ \/ Verdict(Row) = "TypeError"
       \/ Verdict(Row) # "accepted" /\ job.failFast
    /\ job' = None
    /\ UNCHANGED <<counters, types, disk, jobs, kills, whole>>

(* Faulty variant: the label of a rejected row is kept. *)
AcceptRowLabelFirst ==
    /\ job # None
    /\ HasRow
    /\ Verdict(Row) \in {"accepted", "INVALID_LABEL"}
    /\ IF Verdict(Row) = "accepted"
       THEN /\ counters' = Add(counters, {"total", "accepted"})
            /\ disk' = Append1(Append1(disk, "events", Line), "labels", Line)
       ELSE /\ counters' = Add(counters, {"total", "rejected"})
            /\ disk' = Append1(disk, "labels", Line)
    /\ UNCHANGED <<job, types, jobs, kills, whole>>

AcceptRow ==
    /\ job # None
    /\ HasRow
    /\ Verdict(Row) = "accepted"
    /\ counters' = Add(counters, {"total", "accepted"}
                          \cup (IF Row.fraud THEN {"fraud"} ELSE {})
                          \cup (IF Row.flagged THEN {"flagged"} ELSE {}))
    /\ types' = [types EXCEPT ![Row.type] = @ + 1]
    /\ disk' = Append1(Append1(disk, "events", Line), "labels", Line)
    /\ UNCHANGED <<job, jobs, kills, whole>>

(* Faulty variant: --force does not reach the report. *)
WriteReportOnce ==
    /\ job # None
    /\ ~HasRow
    /\ disk' = IF disk["report"] # None THEN disk
               ELSE [disk EXCEPT !["report"] = Report(job)]
    /\ job' = None
    /\ whole' = TRUE
    /\ UNCHANGED <<counters, types, jobs, kills>>

WriteReport ==
    /\ job # None
    /\ ~HasRow
    /\ disk' = [disk EXCEPT !["report"] = Report(job)]
    /\ job' = None
    /\ whole' = TRUE
    /\ UNCHANGED <<counters, types, jobs, kills>>

(* What a killed script leaves of the lines it wrote to a file. *)
Remains(s) ==
    {SubSeq(s, 1, n) : n \in 0 .. Len(s)}
        \cup {Append(SubSeq(s, 1, n), Torn) : n \in 0 .. Len(s) - 1}

Killed ==
    /\ Kill
    /\ job # None
    /\ job' = None
    /\ \E e \in Remains(disk["events"]), l \in Remains(disk["labels"]),
          r \in Remains(disk["rejected"]) :
          disk' = [disk EXCEPT !["events"] = e, !["labels"] = l, !["rejected"] = r]
    /\ UNCHANGED <<counters, types, jobs, whole>>

(* Killed while it writes the report, the other files closed.              *)
KilledReporting ==
    /\ Kill
    /\ job # None
    /\ ~HasRow
    /\ job' = None
    /\ disk' = [disk EXCEPT !["report"] = Torn]
    /\ UNCHANGED <<counters, types, jobs, whole>>

Prepare ==
    \/ \E j \in Jobs : Open(j)
    \/ \E j \in Jobs : KilledOpening(j)
    \/ RejectRow
    \/ StopAtRow
    \/ AcceptRow
    \/ WriteReport
    \/ Killed
    \/ KilledReporting

PrepSpec == PrepInit /\ [][Prepare]_prepVars

-----------------------------------------------------------------------------
(* The rows of an output line, and what they are. *)
RowOf(l) == RowsOf[l.job.data][l.row]

Rising(s) == \A i, k \in DOMAIN s : i < k /\ s[i] # Torn /\ s[k] # Torn =>
                 s[i].row < s[k].row /\ s[i].job = s[k].job

Agree(s, t) == \A i \in DOMAIN s \cap DOMAIN t :
                   s[i] # Torn /\ t[i] # Torn => s[i] = t[i]

(* Whatever was killed, restarted or rejected, an eventId occurs once in   *)
(* the events and the label beside an event is its own: the replay and the *)
(* evaluation join the two files by these ids (process writes the event    *)
(* and the label of a row together, after every check).                    *)
LinesAgree ==
    /\ \A f \in Streams : disk[f] # None => Rising(disk[f])
    /\ disk["events"] # None /\ disk["labels"] # None =>
          Agree(disk["events"], disk["labels"])

(* While the script runs: its counters are the lines it has written.       *)
CountersAgree ==
    job # None =>
        /\ \A f \in Streams : disk[f] \in Seq(Lines)
        /\ \A f \in Streams : \A i \in DOMAIN disk[f] :
              disk[f][i].job = job /\ disk[f][i].row <= counters["total"]
        /\ Len(disk["events"]) = counters["accepted"]
        /\ Len(disk["labels"]) = counters["accepted"]
        /\ Len(disk["rejected"]) = counters["rejected"]
        /\ counters["total"] = counters["accepted"] + counters["rejected"]

LinesInv == PrepTypeOK /\ LinesAgree /\ CountersAgree

(* The rows a command line accepts, of those it reads.                     *)
LastRow(j) == IF j.limit # None /\ j.limit < Len(RowsOf[j.data])
              THEN j.limit ELSE Len(RowsOf[j.data])

Accepted(j) ==
    {n \in 1 .. LastRow(j) : Verdict(RowsOf[j.data][n]) = "accepted"}

OfType(j, nt) ==
    {n \in 1 .. LastRow(j) : /\ RowsOf[j.data][n].type = nt
                             /\ Verdict(RowsOf[j.data][n]) = "accepted"}

(* No accepted row is missing before another one.                          *)
Gapless(s) ==
    \A i \in DOMAIN s : s[i] # Torn =>
        /\ s[i].job \in Jobs /\ s[i].row \in Accepted(s[i].job)
        /\ \A n \in Accepted(s[i].job) : n < s[i].row =>
              \E k \in 1 .. i - 1 : s[k] = [job |-> s[i].job, row |-> n]

FilesInv ==
    \A f \in {"events", "labels"} : disk[f] # None => Gapless(disk[f])

WithFlag(s, flag) == Cardinality({i \in DOMAIN s : RowOf(s[i])[flag]})

WithType(s, nt) == Cardinality({i \in DOMAIN s : RowOf(s[i]).type = nt})

(* The files d hold what the counters c and t say a run of j has done.     *)
Worked(d, j, c, t) ==
    /\ j \in Jobs
    /\ \A f \in Streams : d[f] \in Seq(Lines) /\ \A i \in DOMAIN d[f] : d[f][i].job = j
    /\ d["labels"] = d["events"]
    /\ Len(d["events"]) = c["accepted"]
    /\ Len(d["rejected"]) = c["rejected"]
    /\ c["total"] = c["accepted"] + c["rejected"]
    /\ c["total"] <= LastRow(j)
    /\ \A n \in Accepted(j) : n <= c["total"] =>
          \E i \in DOMAIN d["events"] : d["events"][i].row = n
    /\ \A i \in DOMAIN d["rejected"] :
          Verdict(RowOf(d["rejected"][i])) \notin {"accepted", "TypeError"}
    /\ \A flag \in {"fraud", "flagged"} :
          c[flag] = WithFlag(d["labels"], flag)
    /\ \A nt \in NativeTypes : t[nt] = WithType(d["events"], nt)

RunningInv == job # None => ~whole /\ Worked(disk, job, counters, types)

WrittenInv ==
    whole /\ disk["report"] # None =>
        LET r == disk["report"] IN
        /\ r \in Reports
        /\ Worked(disk, r.job, r.counters, r.types)
        /\ LastRow(r.job) <= r.counters["total"]

(* A report tells the rows its command line accepts, whatever has become   *)
(* of the files that were written with it.                                 *)
ReportInv ==
    disk["report"] \notin {None, Torn} =>
        LET r == disk["report"] IN
        /\ r \in Reports
        /\ r.counters["total"] = LastRow(r.job)
        /\ r.counters["total"] = r.counters["accepted"] + r.counters["rejected"]
        /\ r.counters["accepted"] = Cardinality(Accepted(r.job))
        /\ \A nt \in NativeTypes : r.types[nt] = Cardinality(OfType(r.job, nt))

(* The inductive invariant of the preparation: besides the above, a file   *)
(* of events or labels has no gap, a run at work has counted what it has   *)
(* written, and so had the run whose report is whole.                      *)
PrepInv == LinesInv /\ FilesInv /\ RunningInv /\ WrittenInv /\ ReportInv
=============================================================================
