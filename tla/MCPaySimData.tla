---------------------------- MODULE MCPaySimData ----------------------------
(* Small raw files for TLC: rows of each native type and with each kind of *)
(* flaw, two files whose counters agree, and command lines that work over  *)
(* the files of one another.                                               *)
EXTENDS PaySimProfile

CONSTANTS u1, u2, u3, dPlain, dOther, dNative, dShort, dMany

RowAt(step, t, u, fraud, flaws) ==
    [type |-> t, flaws |-> flaws, user |-> u, step |-> step, fraud |-> fraud,
     flagged |-> fraud]

RawRow(t, u, fraud, flaws) == RowAt(1, t, u, fraud, flaws)

(* dPlain and dOther give the same counters, of different rows; dMany is   *)
(* for the profiler, with users of several rows in one step and in two.    *)
SampleRows ==
    [d \in Datasets |->
        CASE d = dPlain -> <<RawRow("PAYMENT", u1, TRUE, {}),
                             RawRow("PAYMENT", u1, FALSE, {"label"}),
                             RawRow("TRANSFER", u2, FALSE, {})>>
          [] d = dOther -> <<RawRow("PAYMENT", u2, FALSE, {}),
                             RawRow("TRANSFER", u1, TRUE, {}),
                             RawRow("OTHER", u1, FALSE, {"amount"})>>
          [] d = dNative -> <<RawRow("CASH_OUT", u1, FALSE, {}),
                              RawRow("DEBIT", u1, FALSE, {"balance"}),
                              RawRow("PAYMENT", u2, FALSE, {})>>
          [] d = dShort -> <<RawRow("PAYMENT", u1, FALSE, {}),
                             RawRow("C123", u2, FALSE, {"step", "noAmount"}),
                             RawRow("CASH_IN", u2, FALSE, {"noBalance", "label"})>>
          [] d = dMany -> <<RawRow("PAYMENT", u1, FALSE, {}),
                            RawRow("PAYMENT", u2, TRUE, {}),
                            RawRow("TRANSFER", u1, FALSE, {}),
                            RowAt(2, "CASH_IN", u1, FALSE, {}),
                            RowAt(2, "PAYMENT", u3, FALSE, {}),
                            RawRow("PAYMENT", u3, FALSE, {"name"})>>]

Command(d, salt, limit, failFast, force) ==
    [data |-> d, salt |-> salt, limit |-> limit, failFast |-> failFast,
     force |-> force, odd |-> {}]

SampleJobs ==
    {Command(dPlain, "cli", None, FALSE, FALSE),
     Command(dPlain, "default-local", 2, FALSE, TRUE),
     Command(dOther, "env", None, FALSE, TRUE),
     Command(dNative, "cli", None, TRUE, TRUE),
     Command(dNative, "cli", 2, FALSE, TRUE),
     Command(dShort, "cli", None, FALSE, TRUE),
     Command(dShort, "env", 2, FALSE, FALSE)}
        \cup {[Command(dPlain, "env", 1, FALSE, FALSE) EXCEPT !.odd = o] :
                  o \in {{"slug", "file"}, {"identifier"}}}

ProfileCommands ==
    {[data |-> dMany, limit |-> 5, force |-> TRUE],
     [data |-> dShort, limit |-> None, force |-> FALSE]}

Requests ==
    {[strategy |-> "head", size |-> 1, strict |-> TRUE, force |-> TRUE],
     [strategy |-> "balanced", size |-> 2, strict |-> FALSE, force |-> FALSE],
     [strategy |-> "balanced", size |-> 1, strict |-> FALSE, force |-> TRUE]}
=============================================================================
