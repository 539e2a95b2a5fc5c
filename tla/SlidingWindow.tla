--------------------------- MODULE SlidingWindow ---------------------------
(***************************************************************************)
(* RedisRecentTransactionWindowStore: the ZSET of recent events per user   *)
(* and the hash per event from which the consumer computes the window      *)
(* [eventTime - window, eventTime] of the event it processes.              *)
(*                                                                         *)
(* recordAndGetWindow is a sequence of Redis commands without a            *)
(* transaction.  Each command is one action, so that the calls of several  *)
(* consumers, the expiry of keys and failures come between any two.  Redis *)
(* itself is external: ZADD and HSET keep the TTL of a key, EXPIRE has no  *)
(* effect on a missing key, an empty ZSET is no key.                       *)
(***************************************************************************)
EXTENDS Naturals

CONSTANTS
    Events,          \* events, identified by their eventId
    Users,
    UserOf,          \* the user of an event
    EventTime,       \* eventTime of an event: its score in the ZSET
    ReceivedAt,      \* receivedAt of an event, stamped by the API
    Consumers,       \* threads that call recordAndGetWindow
    Window,          \* fraud.sliding-window.window
    Ttls,            \* values of fraud.sliding-window.ttl
    AllowedLateness, \* fraud.sliding-window.allowed-lateness
    Skew,            \* how far the API lets eventTime lie after receivedAt
    Replay,          \* fraud.stream mode is replay
    Never,           \* the expiry of a key without TTL, or of no key
    None

CONSTANTS
    MaxDelay,        \* time from receivedAt to the end of a call
    MaxTime,         \* bound: the clock stops here
    MaxFailures      \* bound: failing commands

ASSUME WindowAssumption ==
    /\ UserOf \in [Events -> Users]
    /\ EventTime \in [Events -> Nat]
    /\ ReceivedAt \in [Events -> Nat]
    /\ Skew \in Nat
    /\ \A e \in Events : EventTime[e] <= ReceivedAt[e] + Skew
    /\ Users \cap Events = {}
    /\ Window \in Nat
    /\ Ttls \subseteq Nat \ {0}
    /\ AllowedLateness \in Nat
    /\ Replay \in BOOLEAN
    /\ Never \notin Nat
    /\ None \notin Events
    /\ MaxDelay \in Nat
    /\ MaxTime \in Nat
    /\ MaxFailures \in Nat

VARIABLES
    ttl,             \* fraud.sliding-window.ttl of this deployment
    zset,            \* members of a user's ZSET; none when the key is absent
    hash,            \* events with a metadata hash
    expiry           \* when a key expires, or Never

redisVars == <<zset, hash, expiry>>

VARIABLES
    now,             \* the clock of Redis and of the API
    pc,              \* the command a consumer sends next, or its last answer
    event,           \* the event a consumer processes, or None
    pending,         \* members whose amount it has still to read
    counted          \* members whose amount it has read

VARIABLES
    addedAt,         \* history: when an event was last added, or Never
    expected,        \* history: the events a consumer's range read should
                     \*   return, each with the time it was last added
    disturbed,       \* history: users with a failed call
    caught,          \* history: events one of whose keys expired between its
                     \*   own call's write and its EXPIRE
    failures         \* number of failed commands

historyVars == <<addedAt, expected, disturbed, caught, failures>>

vars == <<ttl, redisVars, now, pc, event, pending, counted, historyVars>>

Keys == Users \cup Events

Writes == {"putAll", "zadd", "removeRange", "expireUser", "expireEvent"}

Calling == Writes \cup {"range", "amounts"}

Answers == {"NORMAL", "TOO_LATE", "REDIS_UNAVAILABLE"}

Busy(c) == pc[c] \in Calling

TypeOK ==
    /\ ttl \in Ttls
    /\ zset \in [Users -> SUBSET Events]
    /\ hash \subseteq Events
    /\ expiry \in [Keys -> Nat \cup {Never}]
    /\ now \in 0 .. MaxTime
    /\ pc \in [Consumers -> Calling \cup Answers]
    /\ event \in [Consumers -> Events \cup {None}]
    /\ \A c \in Consumers : Busy(c) => event[c] \in Events
    /\ pending \in [Consumers -> SUBSET Events]
    /\ counted \in [Consumers -> SUBSET Events]
    /\ addedAt \in [Events -> Nat \cup {Never}]
    /\ expected \in [Consumers -> SUBSET (Events \X Nat)]
    /\ disturbed \subseteq Users
    /\ caught \subseteq Events
    /\ failures \in 0 .. MaxFailures

Init ==
    /\ ttl \in Ttls
    /\ zset = [u \in Users |-> {}]
    /\ hash = {}
    /\ expiry = [k \in Keys |-> Never]
    /\ now = 0
    /\ pc = [c \in Consumers |-> "NORMAL"]
    /\ event = [c \in Consumers |-> None]
    /\ pending = [c \in Consumers |-> {}]
    /\ counted = [c \in Consumers |-> {}]
    /\ addedAt = [e \in Events |-> Never]
    /\ expected = [c \in Consumers |-> {}]
    /\ disturbed = {}
    /\ caught = {}
    /\ failures = 0

-----------------------------------------------------------------------------
(* What the store computes from an event. *)

(* In the event-time window of e, both ends included. *)
InWindow(m, e) ==
    /\ EventTime[e] <= EventTime[m] + Window
    /\ EventTime[m] <= EventTime[e]

(* Lateness is receivedAt - eventTime; the live window skips an event      *)
(* later than allowed, a replay window takes every event.                  *)
IsTooLateForLiveWindow(e) ==
    /\ ~Replay
    /\ ReceivedAt[e] > EventTime[e] + AllowedLateness

-----------------------------------------------------------------------------
(* The commands that write, each for the event being processed. *)

HashPutAll(e) ==
    /\ hash' = hash \cup {e}
    /\ UNCHANGED <<zset, expiry, addedAt>>

ZSetAdd(e) ==
    /\ zset' = [zset EXCEPT ![UserOf[e]] = @ \cup {e}]
    /\ addedAt' = [addedAt EXCEPT ![e] = now]
    /\ UNCHANGED <<hash, expiry>>

(* Faulty variant: removes the score windowStart as well. *)
ZSetRemoveRangeInclusive(e) ==
    LET kept == {m \in zset[UserOf[e]] : EventTime[e] < EventTime[m] + Window}
    IN
    /\ zset' = [zset EXCEPT ![UserOf[e]] = kept]
    /\ expiry' = [expiry EXCEPT ![UserOf[e]] = IF kept = {} THEN Never ELSE @]
    /\ UNCHANGED <<hash, addedAt>>

(* Removes the scores 0 .. windowStart - 1. *)
ZSetRemoveRange(e) ==
    LET kept == {m \in zset[UserOf[e]] : EventTime[e] <= EventTime[m] + Window}
    IN
    /\ zset' = [zset EXCEPT ![UserOf[e]] = kept]
    /\ expiry' = [expiry EXCEPT ![UserOf[e]] = IF kept = {} THEN Never ELSE @]
    /\ UNCHANGED <<hash, addedAt>>

(* Faulty variant: a time to live is set when the key has none (NX), as    *)
(* one may do to spare the command.                                        *)
ExpireUserKeyOnce(e) ==
    /\ expiry' = [expiry EXCEPT ![UserOf[e]] =
                      IF zset[UserOf[e]] = {} THEN Never
                      ELSE IF @ # Never THEN @ ELSE now + ttl]
    /\ UNCHANGED <<zset, hash, addedAt>>

ExpireUserKey(e) ==
    /\ expiry' = [expiry EXCEPT ![UserOf[e]] =
                      IF zset[UserOf[e]] = {} THEN Never ELSE now + ttl]
    /\ UNCHANGED <<zset, hash, addedAt>>

(* Faulty variant: likewise for the hash, so that a redelivered event      *)
(* keeps its first expiry.                                                 *)
ExpireEventKeyOnce(e) ==
    /\ expiry' = [expiry EXCEPT ![e] = IF e \notin hash THEN Never
                                       ELSE IF @ # Never THEN @ ELSE now + ttl]
    /\ UNCHANGED <<zset, hash, addedAt>>

ExpireEventKey(e) ==
    /\ expiry' = [expiry EXCEPT ![e] = IF e \in hash THEN now + ttl ELSE Never]
    /\ UNCHANGED <<zset, hash, addedAt>>

Write(c) ==
    \/ pc[c] = "putAll" /\ HashPutAll(event[c])
    \/ pc[c] = "zadd" /\ ZSetAdd(event[c])
    \/ pc[c] = "removeRange" /\ ZSetRemoveRange(event[c])
    \/ pc[c] = "expireUser" /\ ExpireUserKey(event[c])
    \/ pc[c] = "expireEvent" /\ ExpireEventKey(event[c])

(* Faulty variant: only the user's key gets a time to live. *)
FollowingWithoutEventTtl == [putAll |-> "zadd", zadd |-> "removeRange",
                             removeRange |-> "expireUser", expireUser |-> "range",
                             expireEvent |-> "range"]

(* The order in which recordAndGetWindowOrThrow sends them. *)
Following == [putAll |-> "zadd", zadd |-> "removeRange",
              removeRange |-> "expireUser", expireUser |-> "expireEvent",
              expireEvent |-> "range"]

-----------------------------------------------------------------------------
(* The call. *)

Answer(c, a) ==
    /\ pc' = [pc EXCEPT ![c] = a]
    /\ event' = [event EXCEPT ![c] = None]
    /\ pending' = [pending EXCEPT ![c] = {}]
    /\ counted' = [counted EXCEPT ![c] = {}]
    /\ expected' = [expected EXCEPT ![c] = {}]

(* A consumer may process an event again: a redelivery, or the new owner   *)
(* of a partition beside the old one.                                      *)
RecordAndGetWindow(c, e) ==
    /\ ~Busy(c)
    /\ ReceivedAt[e] <= now
    /\ now <= ReceivedAt[e] + MaxDelay
    /\ ~IsTooLateForLiveWindow(e)
    /\ pc' = [pc EXCEPT ![c] = "putAll"]
    /\ event' = [event EXCEPT ![c] = e]
    /\ UNCHANGED <<redisVars, now, pending, counted, historyVars>>

SkipTooLate(c, e) ==
    /\ ~Busy(c)
    /\ ReceivedAt[e] <= now
    /\ IsTooLateForLiveWindow(e)
    /\ Answer(c, "TOO_LATE")
    /\ UNCHANGED <<redisVars, now, addedAt, disturbed, caught, failures>>

SendWrite(c) ==
    /\ pc[c] \in Writes
    /\ Write(c)
    /\ pc' = [pc EXCEPT ![c] = Following[pc[c]]]
    /\ UNCHANGED <<now, event, pending, counted, expected, disturbed, caught,
                   failures>>

(* What the window should hold: the events recorded for the user. *)
RecordedInWindow(e) ==
    {m \in Events : /\ addedAt[m] # Never
                    /\ UserOf[m] = UserOf[e]
                    /\ InWindow(m, e)}

RecordedMembers(e) == {<<m, addedAt[m]>> : m \in RecordedInWindow(e)}

RangeByScore(c) ==
    /\ pc[c] = "range"
    /\ pending' = [pending EXCEPT ![c] =
                       {m \in zset[UserOf[event[c]]] : InWindow(m, event[c])}]
    /\ expected' = [expected EXCEPT ![c] = RecordedMembers(event[c])]
    /\ pc' = [pc EXCEPT ![c] = "amounts"]
    /\ UNCHANGED <<redisVars, now, event, counted, addedAt, disturbed, caught,
                   failures>>

(* The amounts are read one by one, in the order of the scores; a member   *)
(* without a hash is not counted.                                          *)
GetAmount(c) ==
    /\ pc[c] = "amounts"
    /\ \E m \in pending[c] :
          /\ \A n \in pending[c] : EventTime[m] <= EventTime[n]
          /\ pending' = [pending EXCEPT ![c] = @ \ {m}]
          /\ counted' = [counted EXCEPT ![c] = @ \cup ({m} \cap hash)]
    /\ UNCHANGED <<redisVars, now, pc, event, historyVars>>

(* The count and sum of the amounts read are the answer. *)
Answered(c) == pc[c] = "amounts" /\ pending[c] = {}

ReturnWindow(c) ==
    /\ Answered(c)
    /\ Answer(c, "NORMAL")
    /\ UNCHANGED <<redisVars, now, addedAt, disturbed, caught, failures>>

(* A command throws: applied by Redis or not, the call ends here and what  *)
(* it has written stays.                                                   *)
CommandFails(c) ==
    /\ failures < MaxFailures
    /\ failures' = failures + 1
    /\ Busy(c)
    /\ Write(c) \/ UNCHANGED <<redisVars, addedAt>>
    /\ Answer(c, "REDIS_UNAVAILABLE")
    /\ disturbed' = disturbed \cup {UserOf[event[c]]}
    /\ UNCHANGED <<now, caught>>

(* A call that has added its event, or written its hash, and has still to  *)
(* give the user's key, or the event's, its time to live.                  *)
WillExpireUser(m) ==
    \E c \in Consumers : pc[c] \in {"removeRange", "expireUser"} /\ event[c] = m

WillExpireEvent(m) ==
    \E c \in Consumers :
        /\ pc[c] \in {"zadd", "removeRange", "expireUser", "expireEvent"}
        /\ event[c] = m

(* Time passes, and the keys whose time has come disappear. *)
Tick ==
    /\ now < MaxTime
    /\ \A c \in Consumers : Busy(c) => now < ReceivedAt[event[c]] + MaxDelay
    /\ now' = now + 1
    /\ zset' = [u \in Users |-> IF expiry[u] = now + 1 THEN {} ELSE zset[u]]
    /\ hash' = {e \in hash : expiry[e] # now + 1}
    /\ expiry' = [k \in Keys |-> IF expiry[k] = now + 1 THEN Never ELSE expiry[k]]
    /\ caught' = caught \cup
          {e \in Events :
              \/ WillExpireUser(e) /\ expiry[UserOf[e]] = now + 1
              \/ WillExpireEvent(e) /\ expiry[e] = now + 1}
    /\ UNCHANGED <<pc, event, pending, counted, addedAt, expected, disturbed,
                   failures>>

Step ==
    \/ \E c \in Consumers, e \in Events : RecordAndGetWindow(c, e)
    \/ \E c \in Consumers, e \in Events : SkipTooLate(c, e)
    \/ \E c \in Consumers : SendWrite(c)
    \/ \E c \in Consumers : RangeByScore(c)
    \/ \E c \in Consumers : GetAmount(c)
    \/ \E c \in Consumers : ReturnWindow(c)
    \/ \E c \in Consumers : CommandFails(c)
    \/ Tick

Next == Step /\ UNCHANGED ttl

Spec == Init /\ [][Next]_vars

-----------------------------------------------------------------------------
(* A newer event of the user whose window m is not in has been recorded,   *)
(* so its clean-up may have removed m.                                     *)
Passed(m) ==
    \E x \in Events :
        /\ addedAt[x] # Never
        /\ UserOf[x] = UserOf[m]
        /\ EventTime[x] > EventTime[m] + Window

(* Added less than a time to live ago. *)
Fresh(x) == now < x[2] + ttl

Members(c) == {x[1] : x \in expected[c]}

FreshMembers(c) == {x[1] : x \in {y \in expected[c] : Fresh(y)}}

Reliable(c) == UserOf[event[c]] \notin disturbed

Kept(m) == m \notin caught /\ ~Passed(m)

(* An answer counts nothing but recorded events of the user in the         *)
(* event-time window.  It misses one of them only if a newer event's       *)
(* clean-up passed it, its time to live is over, one of its keys expired   *)
(* between its own call's write and EXPIRE, or a call for the user failed  *)
(* (recordAndGetWindowOrThrow from putAll to the sum).                     *)
WindowIsExact ==
    \A c \in Consumers : Answered(c) =>
        /\ counted[c] \subseteq Members(c)
        /\ Reliable(c) =>
              {m \in FreshMembers(c) : Kept(m)} \subseteq counted[c]

(* A key without time to live belongs to a call in progress, or a call for *)
(* its user failed: clean-up, EXPIRE and the expiry of keys leave no other *)
(* key behind.                                                             *)
KeyUser(k) == IF k \in Users THEN k ELSE UserOf[k]

KeyExists(k) == k \in hash \/ (k \in Users /\ zset[k] # {})

KeysExpire ==
    \A k \in Keys : KeyExists(k) /\ expiry[k] = Never =>
        \/ KeyUser(k) \in disturbed
        \/ \E c \in Consumers : Busy(c) /\ UserOf[event[c]] = KeyUser(k)

(* "Its own decision uses the event-time window ending at that event's     *)
(* eventTime, not arrival order."                                          *)
WindowIsEventTime ==
    \A c \in Consumers : Answered(c) => counted[c] = Members(c)

(* With the shipped defaults (window 5m, ttl 10m, application.yml:42-43):  *)
(* an answer given less than ttl - window after the eventTime of its event *)
(* misses no recorded event of the window for being expired, whatever      *)
(* order they arrived in.  Excepted, as in WindowIsExact: clean-up by a    *)
(* newer event, a key that expired within the event's own call, a failed   *)
(* call; and an event stamped later than its own arrival, which is added   *)
(* before its eventTime and gone that much earlier.                        *)
InTime(c) == now + Window < EventTime[event[c]] + ttl

AnswersInTimeAreComplete ==
    \A c \in Consumers : Answered(c) /\ Reliable(c) /\ InTime(c) =>
        {m \in Members(c) : Kept(m) /\ EventTime[m] <= ReceivedAt[m]}
            \subseteq counted[c]

-----------------------------------------------------------------------------
(* Why the answer is exact. *)

WillExpireZset(u) == \E m \in Events : UserOf[m] = u /\ WillExpireUser(m)

KeysPending ==
    /\ \A u \in Users : zset[u] # {} /\ expiry[u] = Never =>
          u \in disturbed \/ WillExpireZset(u)
    /\ \A m \in hash : expiry[m] = Never =>
          UserOf[m] \in disturbed \/ WillExpireEvent(m)

(* Only events that arrived, and not after now, are added; only events     *)
(* that were added are members, each of its own user's ZSET.               *)
MembersInv ==
    /\ \A m \in Events : addedAt[m] # Never =>
          ReceivedAt[m] <= addedAt[m] /\ addedAt[m] <= now
    /\ \A u \in Users : \A m \in zset[u] : UserOf[m] = u /\ addedAt[m] # Never

Current(m) ==
    /\ addedAt[m] # Never
    /\ UserOf[m] \notin disturbed
    /\ Kept(m)
    /\ now < addedAt[m] + ttl

LastsUntil(k, t) == expiry[k] = Never \/ expiry[k] >= t

(* What was added less than a time to live ago is there, and stays until   *)
(* its time is over or its own call, which will extend it, is hit by the   *)
(* expiry.                                                                 *)
KeptInv ==
    \A m \in Events : Current(m) =>
        /\ m \in zset[UserOf[m]] /\ m \in hash
        /\ LastsUntil(UserOf[m], addedAt[m] + ttl) \/ WillExpireUser(m)
        /\ LastsUntil(m, addedAt[m] + ttl) \/ WillExpireEvent(m)

(* How far a call is. *)
CallOK(c) ==
    LET e == event[c] IN
    /\ ReceivedAt[e] <= now /\ now <= ReceivedAt[e] + MaxDelay
    /\ ~IsTooLateForLiveWindow(e)
    /\ pc[c] = "zadd" /\ Reliable(c) /\ e \notin caught => e \in hash
    /\ pc[c] \notin {"putAll", "zadd"} => addedAt[e] # Never
    /\ pc[c] = "amounts" =>
          /\ \A x \in expected[c] :
                /\ InWindow(x[1], e)
                /\ addedAt[x[1]] # Never /\ x[2] <= addedAt[x[1]]
                /\ ReceivedAt[x[1]] <= x[2] /\ UserOf[x[1]] = UserOf[e]
          /\ pending[c] \cup counted[c] \subseteq Members(c)
          /\ Reliable(c) =>
                {m \in FreshMembers(c) : Kept(m)} \subseteq pending[c] \cup counted[c]

CallInv ==
    \A c \in Consumers :
        /\ Busy(c) => CallOK(c)
        /\ pc[c] # "amounts" => counted[c] = {}

(* What every reachable state satisfies: the type, and the inductive       *)
(* invariant behind the exactness of an answer (recordAndGetWindowOrThrow, *)
(* the expiry of keys and the calls of other consumers in between).        *)
Inv == TypeOK /\ KeysPending /\ MembersInv /\ KeptInv /\ CallInv
=============================================================================
