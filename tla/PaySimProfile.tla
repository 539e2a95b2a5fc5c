---------------------------- MODULE PaySimProfile ----------------------------
(***************************************************************************)
(* profile_paysim_v3.py: reads a raw file with the row checks of the       *)
(* preparation, inserts the accepted rows into a database in batches, and  *)
(* writes aggregates per user, per user and step, per type and per step.   *)
(*                                                                         *)
(* DataSpec puts it beside the preparation and the use of its output; the  *)
(* scripts share the raw files only.                                       *)
(***************************************************************************)
EXTENDS PaySimOutputs

CONSTANTS
    ProfileJobs,   \* the command lines the profiler may be started with
    BatchSize      \* rows per insert

ASSUME ProfileAssumption ==
    /\ ProfileJobs \subseteq [data: Datasets, limit: Nat \cup {None}, force: BOOLEAN]
    /\ BatchSize \in Nat \ {0}

VARIABLES
    profiling,     \* the command line of the profiler at work, or None
    tally,         \* its counters
    reasons,       \* rejected rows per reason
    batch,         \* accepted rows not yet inserted
    rows,          \* the rows of the table events
    profile        \* the output; None if it does not exist

profileVars == <<profiling, tally, reasons, batch, rows, profile>>

dataVars == <<prepVars, sampleVars, profileVars>>

Reasons == {Checks[i].verdict : i \in DOMAIN Checks} \ {"TypeError"}

(* What a profiler has in memory and in its temporary directory. *)
Forgotten ==
    /\ tally' = [c \in {"total", "accepted", "rejected", "fraud"} |-> 0]
    /\ reasons' = [v \in Reasons |-> 0]
    /\ batch' = <<>>
    /\ rows' = <<>>

ProfileInit ==
    /\ profiling = None
    /\ tally = [c \in {"total", "accepted", "rejected", "fraud"} |-> 0]
    /\ reasons = [v \in Reasons |-> 0]
    /\ batch = <<>>
    /\ rows = <<>>
    /\ profile = None

-----------------------------------------------------------------------------
(* The aggregates of the rows in the table, each a row of the raw file. *)

CeilPercent(n, q) == (n * q + 99) \div 100

QuantileOffset(n, q) ==
    IF CeilPercent(n, q) = 0 THEN 0 ELSE CeilPercent(n, q) - 1

(* event_count of each group: the rows with its key. *)
CountBy(keys) == [k \in Range(keys) |-> Cardinality({i \in DOMAIN keys : keys[i] = k})]

(* ORDER BY event_count LIMIT 1 OFFSET o: the groups with a smaller count  *)
(* end at or before o, those with at most this count after it.             *)
AtOffset(count, o) ==
    CHOOSE v \in Range(count) :
        /\ Cardinality({k \in DOMAIN count : count[k] < v}) <= o
        /\ o < Cardinality({k \in DOMAIN count : count[k] <= v})

Quantiles(count) ==
    LET n == Cardinality(DOMAIN count) IN
    [q \in {50, 95, 99} |-> IF n = 0 THEN 0 ELSE AtOffset(count, QuantileOffset(n, q))]

MaxCount(count) == IF DOMAIN count = {} THEN 0 ELSE Max(Range(count))

TopUserCount(n) == IF n = 0 THEN 0 ELSE Max({1, CeilPercent(n, 1)})

(* SUM(event_count) over some groups: as many as their pairs of a group and *)
(* a number up to its count.                                               *)
SumOf(count, groups) == Cardinality(UNION {{g} \X (1 .. count[g]) : g \in groups})

(* ORDER BY event_count DESC LIMIT n. *)
Top(count, n) ==
    CHOOSE top \in SUBSET DOMAIN count :
        /\ Cardinality(top) = n
        /\ \A g \in top, h \in DOMAIN count \ top : count[g] >= count[h]

(* The events of the one percent of users with most of them. *)
TopEvents(users) == SumOf(users, Top(users, TopUserCount(Cardinality(DOMAIN users))))

(* The events of users who have others. *)
Repeated(users) == SumOf(users, {u \in DOMAIN users : users[u] >= 2})

Aggregates(data, s) ==
    LET user(n) == RowsOf[data][n].user
        step(n) == RowsOf[data][n].step
        users == CountBy([i \in DOMAIN s |-> user(s[i])])
        userSteps == CountBy([i \in DOMAIN s |-> <<user(s[i]), step(s[i])>>])
        steps == CountBy([i \in DOMAIN s |-> step(s[i])])
        usersWith(m) == {k[1] : k \in {g \in DOMAIN userSteps : userSteps[g] >= m}}
    IN [users |-> Cardinality(DOMAIN users),
        perUser |-> Quantiles(users),
        maxPerUser |-> MaxCount(users),
        topEvents |-> TopEvents(users),
        perUserStep |-> Quantiles(userSteps),
        maxPerUserStep |-> MaxCount(userSteps),
        usersWith2 |-> Cardinality(usersWith(2)),
        usersWith5 |-> Cardinality(usersWith(5)),
        repeated |-> Repeated(users),
        types |-> CountBy([i \in DOMAIN s |-> RowsOf[data][s[i]].type]),
        steps |-> steps,
        peak |-> MaxCount(steps)]

-----------------------------------------------------------------------------
(* process. *)

StartProfile(j) ==
    /\ profiling = None
    /\ profile = None \/ j.force
    /\ profiling' = j
    /\ Forgotten
    /\ UNCHANGED profile

Unread ==
    /\ profiling # None
    /\ tally["total"] < Len(RowsOf[profiling.data])
    /\ profiling.limit # None => tally["total"] < profiling.limit

Current == RowsOf[profiling.data][tally["total"] + 1]

Tally(names) ==
    tally' = [c \in DOMAIN tally |-> tally[c] + (IF c \in names THEN 1 ELSE 0)]

ProfileRejectedRow ==
    /\ Unread
    /\ Verdict(Current) \notin {"accepted", "TypeError"}
    /\ Tally({"total", "rejected"})
    /\ reasons' = [reasons EXCEPT ![Verdict(Current)] = @ + 1]
    /\ UNCHANGED <<profiling, batch, rows, profile>>

(* A missing value: a TypeError, the temporary directory is removed.       *)
ProfileStops ==
    /\ Unread
    /\ Verdict(Current) = "TypeError"
    /\ profiling' = None
    /\ Forgotten
    /\ UNCHANGED profile

(* Faulty variant: a full batch is inserted, but not emptied. *)
InsertedKeeping(full) ==
    IF Len(full) >= BatchSize
    THEN rows' = rows \o full /\ batch' = full
    ELSE batch' = full /\ UNCHANGED rows

(* A full batch is inserted at once. *)
Inserted(full) ==
    IF Len(full) >= BatchSize
    THEN rows' = rows \o full /\ batch' = <<>>
    ELSE batch' = full /\ UNCHANGED rows

ProfileAcceptedRow ==
    /\ Unread
    /\ Verdict(Current) = "accepted"
    /\ Tally({"total", "accepted"} \cup (IF Current.fraud THEN {"fraud"} ELSE {}))
    /\ Inserted(Append(batch, tally["total"] + 1))
    /\ UNCHANGED <<profiling, reasons, profile>>

(* The rest of the batch is inserted, the aggregates are computed, and the *)
(* output is written last.                                                 *)
WriteProfile ==
    /\ profiling # None
    /\ ~Unread
    /\ profile' = [job |-> profiling, tally |-> tally, reasons |-> reasons,
                   aggregates |-> Aggregates(profiling.data, rows \o batch)]
    /\ profiling' = None
    /\ Forgotten

ProfileKilled ==
    /\ profiling # None
    /\ Kill
    /\ profiling' = None
    /\ Forgotten
    /\ profile' \in {profile} \cup (IF Unread THEN {} ELSE {Torn})
    /\ UNCHANGED <<job, counters, types, disk, jobs, whole>>

Profile ==
    \/ \E j \in ProfileJobs : StartProfile(j)
    \/ ProfileRejectedRow
    \/ ProfileStops
    \/ ProfileAcceptedRow
    \/ WriteProfile

DataInit == OutputsInit /\ ProfileInit

(* The profiler works while no other script does: they share no output, so *)
(* their interleaving makes no difference.                                 *)
DataNext ==
    \/ profiling = None /\ OutputsNext /\ UNCHANGED profileVars
    \/ Idle /\ Profile /\ UNCHANGED <<prepVars, sampleVars>>
    \/ ProfileKilled /\ UNCHANGED sampleVars

DataSpec == DataInit /\ [][DataNext]_dataVars

-----------------------------------------------------------------------------
(* The nearest rank: the smallest count that q percent of the groups do    *)
(* not exceed.                                                             *)
IsNearestRank(v, q, count) ==
    LET share(w) == 100 * Cardinality({k \in DOMAIN count : count[k] <= w})
        enough(w) == share(w) >= q * Cardinality(DOMAIN count)
    IN enough(v) /\ \A w \in Range(count) : enough(w) => v <= w

(* The count of a group, if there is one. *)
CountOf(count, k) == IF k \in DOMAIN count THEN count[k] ELSE 0

(* The counts of a complete profile are those of the rows its command line *)
(* accepts.                                                                *)
CountsAgree ==
    LET j == profile.job
        a == profile.aggregates
        used == Accepted(j)
        perUser == [u \in {RowsOf[j.data][n].user : n \in used} |->
                       Cardinality({n \in used : RowsOf[j.data][n].user = u})]
    IN
    /\ profile.tally["accepted"] = Cardinality(used)
    /\ profile.tally["total"] = Cardinality(used) + profile.tally["rejected"]
    /\ a.users = Cardinality(DOMAIN perUser)
    /\ \A q \in {50, 95, 99} :
          used # {} => IsNearestRank(a.perUser[q], q, perUser)
    /\ a.maxPerUser >= a.maxPerUserStep
    /\ a.peak >= a.maxPerUserStep
    /\ a.usersWith5 <= a.usersWith2

(* Its sums over groups are those of the rows. *)
SumsAgree ==
    LET a == profile.aggregates
        n == profile.tally["accepted"]
    IN
    /\ SumOf(profile.reasons, Reasons) = profile.tally["rejected"]
    /\ SumOf(a.steps, DOMAIN a.steps) = n
    /\ a.topEvents >= a.maxPerUser
    /\ a.usersWith2 <= a.repeated
    /\ n - a.repeated + a.usersWith2 <= a.users

(* And a report of the preparation of the same rows says the same. *)
ReportAgrees ==
    LET j == profile.job
        report == disk["report"]
    IN
    (report \notin {None, Torn}
        /\ report.job.data = j.data /\ report.job.limit = j.limit) =>
            /\ report.counters["accepted"] = profile.tally["accepted"]
            /\ report.counters["rejected"] = profile.tally["rejected"]
            /\ \A t \in NativeTypes :
                  report.types[t] = CountOf(profile.aggregates.types, t)

(* What a complete profile says is what the raw rows give, whatever the    *)
(* size of the batches, the limit and the rejected rows; and preparation   *)
(* and profile of the same file agree on accepted and rejected rows and on *)
(* the native types (the last, partial batch is inserted after the loop).  *)
ProfileAgrees ==
    profile \notin {None, Torn} => CountsAgree /\ SumsAgree /\ ReportAgrees

(* s lists the numbers of S in their order. *)
Listed(s, S) ==
    /\ Range(s) = S
    /\ \A i, k \in DOMAIN s : i < k => s[i] < s[k]

(* The table and the batch hold the accepted rows read so far, each once.  *)
ProfilingInv ==
    profiling # None =>
        /\ profiling \in ProfileJobs
        /\ tally \in [{"total", "accepted", "rejected", "fraud"} -> Nat]
        /\ tally["total"] <= LastRow(profiling)
        /\ rows \in Seq(Nat) /\ batch \in Seq(Nat) /\ Len(batch) < BatchSize
        /\ Listed(rows \o batch, {n \in Accepted(profiling) : n <= tally["total"]})
        /\ tally["accepted"] = Len(rows \o batch)
        /\ tally["total"] = tally["accepted"] + tally["rejected"]
        /\ reasons \in [Reasons -> Nat]
        /\ SumOf(reasons, Reasons) = tally["rejected"]

(* A complete profile was made of all the rows its command line accepts.   *)
ProfileInv ==
    profile \notin {None, Torn} =>
        LET j == profile.job IN
        /\ j \in ProfileJobs
        /\ profile.tally \in [{"total", "accepted", "rejected", "fraud"} -> Nat]
        /\ profile.tally["total"] = LastRow(j)
        /\ profile.tally["total"] = profile.tally["accepted"] + profile.tally["rejected"]
        /\ profile.tally["accepted"] = Cardinality(Accepted(j))
        /\ \A t \in NativeTypes :
              CountOf(profile.aggregates.types, t) = Cardinality(OfType(j, t))

(* The inductive invariant of the three scripts.                           *)
DataInv == PrepInv /\ SampleInv /\ ProfilingInv /\ ProfileInv
=============================================================================
