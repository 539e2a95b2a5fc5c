------------------------- MODULE SlidingWindowProofs -------------------------
(***************************************************************************)
(* Theorems of the sliding window, for every set of users and events, any  *)
(* number of consumers, every window, time to live and delay.              *)
(***************************************************************************)
EXTENDS SlidingWindow, TLAPS

USE WindowAssumption

-----------------------------------------------------------------------------
(* Types. *)

(* A write keeps the types of what it may touch. *)
LEMMA WriteType ==
    ASSUME TypeOK, NEW c \in Consumers, Busy(c), Write(c)
    PROVE  /\ zset' \in [Users -> SUBSET Events]
           /\ hash' \subseteq Events
           /\ expiry' \in [Keys -> Nat \cup {Never}]
           /\ addedAt' \in [Events -> Nat \cup {Never}]
<1>1. /\ event[c] \in Events /\ UserOf[event[c]] \in Users
      /\ zset \in [Users -> SUBSET Events] /\ hash \subseteq Events
      /\ expiry \in [Keys -> Nat \cup {Never}] /\ now \in Nat
      /\ addedAt \in [Events -> Nat \cup {Never}]
      /\ now + ttl \in Nat
  BY DEF TypeOK
<1>2. UserOf[event[c]] \in Keys /\ event[c] \in Keys
  BY <1>1 DEF Keys
<1>3. CASE HashPutAll(event[c])
  BY <1>1, <1>3 DEF HashPutAll
<1>4. CASE ZSetAdd(event[c])
  BY <1>1, <1>4 DEF ZSetAdd
<1>5. CASE ZSetRemoveRange(event[c])
  BY <1>1, <1>2, <1>5 DEF ZSetRemoveRange
<1>6. CASE ExpireUserKey(event[c])
  BY <1>1, <1>2, <1>6 DEF ExpireUserKey
<1>7. CASE ExpireEventKey(event[c])
  BY <1>1, <1>2, <1>7 DEF ExpireEventKey
<1> QED BY <1>3, <1>4, <1>5, <1>6, <1>7 DEF Write

(* The order of the commands. *)
LEMMA FollowingOf ==
    /\ Following["putAll"] = "zadd" /\ Following["zadd"] = "removeRange"
    /\ Following["removeRange"] = "expireUser"
    /\ Following["expireUser"] = "expireEvent"
    /\ Following["expireEvent"] = "range"
    /\ \A p \in Writes : Following[p] \in Calling
BY DEF Following, Writes, Calling

(* The end of a call keeps the types. *)
LEMMA AnswerType ==
    ASSUME TypeOK, NEW c \in Consumers, NEW a \in Answers, Answer(c, a)
    PROVE  /\ pc' \in [Consumers -> Calling \cup Answers]
           /\ event' \in [Consumers -> Events \cup {None}]
           /\ \A b \in Consumers : Busy(b)' => event'[b] \in Events
           /\ pending' \in [Consumers -> SUBSET Events]
           /\ counted' \in [Consumers -> SUBSET Events]
           /\ expected' \in [Consumers -> SUBSET (Events \X Nat)]
BY DEF TypeOK, Answer, Busy, Answers, Calling, Writes

LEMMA TypeInvariant == TypeOK /\ [Next]_vars => TypeOK'
<1> SUFFICES ASSUME TypeOK, [Next]_vars PROVE TypeOK'
  OBVIOUS
<1>1. CASE UNCHANGED vars
  BY <1>1 DEF TypeOK, vars, redisVars, historyVars, Busy
<1>2. ASSUME NEW c \in Consumers, NEW e \in Events, RecordAndGetWindow(c, e),
             ttl' = ttl
      PROVE  TypeOK'
  BY <1>2 DEF TypeOK, RecordAndGetWindow, redisVars, historyVars, Busy,
              Calling, Writes
<1>3. ASSUME NEW c \in Consumers, NEW e \in Events, SkipTooLate(c, e), ttl' = ttl
      PROVE  TypeOK'
  BY <1>3, AnswerType DEF TypeOK, SkipTooLate, redisVars, Answers
<1>4. ASSUME NEW c \in Consumers, SendWrite(c), ttl' = ttl
      PROVE  TypeOK'
  <2>1. Busy(c) /\ pc[c] \in Writes /\ Write(c)
    BY <1>4 DEF SendWrite, Busy, Calling
  <2>2. /\ zset' \in [Users -> SUBSET Events] /\ hash' \subseteq Events
        /\ expiry' \in [Keys -> Nat \cup {Never}]
        /\ addedAt' \in [Events -> Nat \cup {Never}]
    BY <2>1, WriteType
  <2>3. Following[pc[c]] \in Calling
    BY <2>1, FollowingOf
  <2> QED BY <1>4, <2>1, <2>2, <2>3 DEF TypeOK, SendWrite, Busy
<1>5. ASSUME NEW c \in Consumers, RangeByScore(c), ttl' = ttl
      PROVE  TypeOK'
  <2>1. /\ event[c] \in Events /\ UserOf[event[c]] \in Users
        /\ zset[UserOf[event[c]]] \subseteq Events
    BY <1>5 DEF RangeByScore, TypeOK, Busy, Calling
  <2>2. RecordedMembers(event[c]) \in SUBSET (Events \X Nat)
    BY DEF RecordedMembers, RecordedInWindow, TypeOK
  <2> QED BY <1>5, <2>1, <2>2 DEF TypeOK, RangeByScore, redisVars, Busy, Calling
<1>6. ASSUME NEW c \in Consumers, GetAmount(c), ttl' = ttl
      PROVE  TypeOK'
  BY <1>6 DEF TypeOK, GetAmount, redisVars, historyVars, Busy
<1>7. ASSUME NEW c \in Consumers, ReturnWindow(c), ttl' = ttl
      PROVE  TypeOK'
  BY <1>7, AnswerType DEF TypeOK, ReturnWindow, redisVars, Answers
<1>8. ASSUME NEW c \in Consumers, CommandFails(c), ttl' = ttl
      PROVE  TypeOK'
  <2>1. /\ zset' \in [Users -> SUBSET Events] /\ hash' \subseteq Events
        /\ expiry' \in [Keys -> Nat \cup {Never}]
        /\ addedAt' \in [Events -> Nat \cup {Never}]
    BY <1>8, WriteType DEF CommandFails, TypeOK, redisVars
  <2>2. Answer(c, "REDIS_UNAVAILABLE") /\ "REDIS_UNAVAILABLE" \in Answers
    BY <1>8 DEF CommandFails, Answers
  <2>3. /\ disturbed' \subseteq Users /\ failures' \in 0 .. MaxFailures
        /\ now' = now /\ caught' = caught
    BY <1>8 DEF CommandFails, TypeOK
  <2> QED BY <1>8, <2>1, <2>2, <2>3, AnswerType DEF TypeOK
<1>9. ASSUME Tick, ttl' = ttl
      PROVE  TypeOK'
  <2>1. /\ zset' \in [Users -> SUBSET Events] /\ hash' \subseteq Events
        /\ expiry' \in [Keys -> Nat \cup {Never}]
    BY <1>9 DEF Tick, TypeOK
  <2>2. now' \in 0 .. MaxTime /\ caught' \subseteq Events
    BY <1>9 DEF Tick, TypeOK
  <2> QED BY <1>9, <2>1, <2>2 DEF Tick, TypeOK, Busy
<1> QED BY <1>1, <1>2, <1>3, <1>4, <1>5, <1>6, <1>7, <1>8, <1>9 DEF Next, Step

(* Every variable of the window store keeps its type.                      *)
THEOREM WindowTypeCorrect == Spec => []TypeOK
<1>1. Init => TypeOK
  BY DEF Init, TypeOK, Busy, Calling, Writes, Answers
<1> QED BY <1>1, TypeInvariant, PTL DEF Spec

-----------------------------------------------------------------------------
(* What a step does to the keys. *)

(* A command of consumer c's call, which goes on or has failed.            *)
WriteStep(c) ==
    /\ Busy(c) /\ Write(c)
    /\ now' = now /\ ttl' = ttl
    /\ disturbed \subseteq disturbed' /\ caught' = caught
    /\ \A b \in Consumers \ {c} : pc'[b] = pc[b] /\ event'[b] = event[b]
    /\ \/ pc'[c] = Following[pc[c]] /\ event'[c] = event[c]
       \/ UserOf[event[c]] \in disturbed'

StoreInv == KeysPending /\ MembersInv /\ KeptInv

(* A call that goes on will still extend the keys it was going to extend.  *)
LEMMA PromisesKept ==
    ASSUME TypeOK, NEW c \in Consumers, NEW e \in Events, e = event[c],
           NEW v \in Users, v = UserOf[e], WriteStep(c)
    PROVE  /\ \A m \in Events : WillExpireUser(m) /\ UserOf[m] \notin disturbed' =>
                 WillExpireUser(m)' \/ (pc[c] = "expireUser" /\ m = e)
           /\ \A u \in Users : WillExpireZset(u) /\ u \notin disturbed' =>
                 WillExpireZset(u)' \/ (pc[c] = "expireUser" /\ u = v)
           /\ \A m \in Events : WillExpireEvent(m) /\ UserOf[m] \notin disturbed' =>
                 WillExpireEvent(m)' \/ (pc[c] = "expireEvent" /\ m = e)
           /\ v \notin disturbed' =>
                 /\ pc[c] \in {"zadd", "removeRange"} =>
                       WillExpireUser(e)' /\ WillExpireZset(v)'
                 /\ pc[c] \in {"putAll", "zadd", "removeRange", "expireUser"} =>
                       WillExpireEvent(e)'
<1>1. /\ pc[c] \in Writes
      /\ v \notin disturbed' => pc'[c] = Following[pc[c]] /\ event'[c] = e
      /\ \A b \in Consumers \ {c} : pc'[b] = pc[b] /\ event'[b] = event[b]
  BY DEF WriteStep, Write, Writes
<1>2. ASSUME NEW m \in Events, WillExpireUser(m), UserOf[m] \notin disturbed'
      PROVE  WillExpireUser(m)' \/ (pc[c] = "expireUser" /\ m = e)
  <2>1. PICK b \in Consumers : /\ pc[b] \in {"removeRange", "expireUser"}
                               /\ event[b] = m
    BY <1>2 DEF WillExpireUser
  <2>2. CASE b # c
    BY <1>1, <2>1, <2>2 DEF WillExpireUser
  <2>3. CASE b = c /\ pc[c] = "removeRange"
    BY <1>1, <1>2, <2>1, <2>3, FollowingOf DEF WillExpireUser
  <2>4. CASE b = c /\ pc[c] = "expireUser"
    BY <2>1, <2>4
  <2> QED BY <2>1, <2>2, <2>3, <2>4
<1>6. ASSUME NEW u \in Users, WillExpireZset(u), u \notin disturbed'
      PROVE  WillExpireZset(u)' \/ (pc[c] = "expireUser" /\ u = v)
  BY <1>2, <1>6 DEF WillExpireZset
<1>3. ASSUME NEW m \in Events, WillExpireEvent(m), UserOf[m] \notin disturbed'
      PROVE  WillExpireEvent(m)' \/ (pc[c] = "expireEvent" /\ m = e)
  <2>1. PICK b \in Consumers :
           /\ pc[b] \in {"zadd", "removeRange", "expireUser", "expireEvent"}
           /\ event[b] = m
    BY <1>3 DEF WillExpireEvent
  <2>2. CASE b # c
    BY <1>1, <2>1, <2>2 DEF WillExpireEvent
  <2>3. CASE b = c /\ pc[c] # "expireEvent"
    BY <1>1, <1>3, <2>1, <2>3, FollowingOf DEF WillExpireEvent
  <2>4. CASE b = c /\ pc[c] = "expireEvent"
    BY <2>1, <2>4
  <2> QED BY <2>1, <2>2, <2>3, <2>4
<1>4. ASSUME v \notin disturbed', pc[c] \in {"zadd", "removeRange"}
      PROVE  WillExpireUser(e)' /\ WillExpireZset(v)'
  BY <1>1, <1>4, FollowingOf DEF WillExpireUser, WillExpireZset
<1>5. ASSUME v \notin disturbed',
             pc[c] \in {"putAll", "zadd", "removeRange", "expireUser"}
      PROVE  WillExpireEvent(e)'
  BY <1>1, <1>5, FollowingOf DEF WillExpireEvent
<1> QED BY <1>2, <1>3, <1>4, <1>5, <1>6

(* Time and additions go forward, so what has been passed stays passed.    *)
LEMMA PassedStays ==
    ASSUME TypeOK, NEW m \in Events,
           \A x \in Events : addedAt[x] # Never => addedAt'[x] # Never
    PROVE  Passed(m) => Passed(m)'
BY DEF Passed

(* HSET: the hash is there, and its expiry is still to be set.             *)
LEMMA PutAllKeeps ==
    ASSUME TypeOK, StoreInv, NEW c \in Consumers, NEW e \in Events, e = event[c],
           NEW v \in Users, v = UserOf[e], WriteStep(c),
           pc[c] = "putAll", HashPutAll(e)
    PROVE  StoreInv'
<1>1. /\ hash' = hash \cup {e}
      /\ UNCHANGED <<zset, expiry, addedAt, now, ttl>>
      /\ disturbed \subseteq disturbed' /\ caught' = caught
  BY DEF HashPutAll, WriteStep
<1>2. /\ \A m \in Events : WillExpireUser(m) /\ UserOf[m] \notin disturbed' =>
            WillExpireUser(m)'
      /\ \A u \in Users : WillExpireZset(u) /\ u \notin disturbed' => WillExpireZset(u)'
      /\ \A m \in Events : WillExpireEvent(m) /\ UserOf[m] \notin disturbed' =>
            WillExpireEvent(m)'
      /\ v \notin disturbed' => WillExpireEvent(e)'
  BY PromisesKept
<1>3. KeysPending'
  <2>1. \A u \in Users : zset'[u] # {} /\ expiry'[u] = Never =>
           u \in disturbed' \/ WillExpireZset(u)'
    BY <1>1, <1>2 DEF StoreInv, KeysPending
  <2>2. ASSUME NEW m \in hash', expiry'[m] = Never
        PROVE  UserOf[m] \in disturbed' \/ WillExpireEvent(m)'
    <3>1. CASE m = e
      BY <1>2, <3>1
    <3>2. CASE m \in hash
      <4>1. m \in Events
        BY <3>2 DEF TypeOK
      <4> QED BY <1>1, <1>2, <2>2, <3>2, <4>1 DEF StoreInv, KeysPending
    <3> QED BY <1>1, <2>2, <3>1, <3>2
  <2> QED BY <2>1, <2>2 DEF KeysPending
<1>4. MembersInv'
  BY <1>1 DEF StoreInv, MembersInv
<1>5. KeptInv'
  <2> SUFFICES ASSUME NEW m \in Events, Current(m)'
               PROVE  /\ m \in zset'[UserOf[m]] /\ m \in hash'
                      /\ \/ LastsUntil(UserOf[m], addedAt[m] + ttl)'
                         \/ WillExpireUser(m)'
                      /\ LastsUntil(m, addedAt[m] + ttl)' \/ WillExpireEvent(m)'
    BY DEF KeptInv
  <2>1. Current(m) /\ UserOf[m] \notin disturbed' /\ UserOf[m] \in Users
    BY <1>1 DEF Current, Kept, Passed
  <2> QED BY <1>1, <1>2, <2>1 DEF StoreInv, KeptInv, LastsUntil
<1> QED BY <1>3, <1>4, <1>5 DEF StoreInv

(* ZADD: the event is a member with a hash, and both keys are still to get *)
(* their expiry.                                                           *)
LEMMA ZAddKeeps ==
    ASSUME TypeOK, StoreInv, NEW c \in Consumers, NEW e \in Events, e = event[c],
           NEW v \in Users, v = UserOf[e], WriteStep(c), CallOK(c),
           pc[c] = "zadd", ZSetAdd(e)
    PROVE  StoreInv'
<1>1. /\ zset' = [zset EXCEPT ![v] = @ \cup {e}]
      /\ addedAt' = [addedAt EXCEPT ![e] = now]
      /\ UNCHANGED <<hash, expiry, now, ttl>>
      /\ disturbed \subseteq disturbed' /\ caught' = caught
  BY DEF ZSetAdd, WriteStep
<1>2. /\ zset \in [Users -> SUBSET Events] /\ hash \subseteq Events
      /\ addedAt \in [Events -> Nat \cup {Never}]
      /\ now \in Nat /\ now # Never
  BY DEF TypeOK
<1>3. /\ \A m \in Events : WillExpireUser(m) /\ UserOf[m] \notin disturbed' =>
            WillExpireUser(m)'
      /\ \A u \in Users : WillExpireZset(u) /\ u \notin disturbed' => WillExpireZset(u)'
      /\ \A m \in Events : WillExpireEvent(m) /\ UserOf[m] \notin disturbed' =>
            WillExpireEvent(m)'
      /\ v \notin disturbed' =>
            WillExpireUser(e)' /\ WillExpireZset(v)' /\ WillExpireEvent(e)'
  BY PromisesKept
<1>4. /\ \A u \in Users \ {v} : zset'[u] = zset[u]
      /\ zset'[v] = zset[v] \cup {e}
      /\ \A m \in Events \ {e} : addedAt'[m] = addedAt[m]
      /\ addedAt'[e] = now
  BY <1>1, <1>2
<1>5. KeysPending'
  <2>1. ASSUME NEW u \in Users, zset'[u] # {}, expiry'[u] = Never
        PROVE  u \in disturbed' \/ WillExpireZset(u)'
    <3>1. CASE u = v
      BY <1>3, <3>1
    <3>2. CASE u # v
      BY <1>1, <1>3, <1>4, <2>1, <3>2 DEF StoreInv, KeysPending
    <3> QED BY <3>1, <3>2
  <2>2. \A m \in hash' : expiry'[m] = Never =>
           UserOf[m] \in disturbed' \/ WillExpireEvent(m)'
    BY <1>1, <1>2, <1>3 DEF StoreInv, KeysPending
  <2> QED BY <2>1, <2>2 DEF KeysPending
<1>6. MembersInv'
  <2>1. ReceivedAt[e] <= now
    BY DEF CallOK
  <2>2. \A m \in Events : addedAt'[m] # Never =>
           ReceivedAt[m] <= addedAt'[m] /\ addedAt'[m] <= now'
    BY <1>1, <1>2, <1>4, <2>1 DEF StoreInv, MembersInv
  <2>3. ASSUME NEW u \in Users, NEW m \in zset'[u]
        PROVE  UserOf[m] = u /\ addedAt'[m] # Never
    <3>1. CASE m = e /\ u = v
      BY <1>2, <1>4, <3>1
    <3>2. CASE m \in zset[u]
      <4>1. m \in Events /\ UserOf[m] = u /\ addedAt[m] # Never
        BY <1>2, <3>2 DEF StoreInv, MembersInv
      <4> QED BY <1>2, <1>4, <4>1
    <3> QED BY <1>4, <2>3, <3>1, <3>2
  <2> QED BY <2>2, <2>3 DEF MembersInv
<1>7. KeptInv'
  <2> SUFFICES ASSUME NEW m \in Events, Current(m)'
               PROVE  /\ m \in zset'[UserOf[m]] /\ m \in hash'
                      /\ \/ LastsUntil(UserOf[m], addedAt[m] + ttl)'
                         \/ WillExpireUser(m)'
                      /\ LastsUntil(m, addedAt[m] + ttl)' \/ WillExpireEvent(m)'
    BY DEF KeptInv
  <2>1. UserOf[m] \notin disturbed' /\ UserOf[m] \in Users
    BY DEF Current
  <2>2. CASE m = e
    BY <1>1, <1>3, <1>4, <2>1, <2>2 DEF CallOK, Reliable, Current, Kept
  <2>3. CASE m # e
    <3>1. ~Passed(m)
      BY <1>2, <1>4, PassedStays DEF Current, Kept
    <3>2. Current(m) /\ addedAt'[m] = addedAt[m]
      BY <1>1, <1>4, <2>1, <2>3, <3>1 DEF Current, Kept
    <3>3. /\ m \in zset[UserOf[m]] /\ m \in hash
          /\ LastsUntil(UserOf[m], addedAt[m] + ttl) \/ WillExpireUser(m)
          /\ LastsUntil(m, addedAt[m] + ttl) \/ WillExpireEvent(m)
      BY <3>2 DEF StoreInv, KeptInv
    <3> QED BY <1>1, <1>3, <1>4, <2>1, <3>2, <3>3 DEF LastsUntil
  <2> QED BY <2>2, <2>3
<1> QED BY <1>5, <1>6, <1>7 DEF StoreInv

(* ZREMRANGEBYSCORE: what goes has been passed by the event of the call.   *)
LEMMA RemoveRangeKeeps ==
    ASSUME TypeOK, StoreInv, NEW c \in Consumers, NEW e \in Events, e = event[c],
           NEW v \in Users, v = UserOf[e], WriteStep(c), CallOK(c),
           pc[c] = "removeRange", ZSetRemoveRange(e)
    PROVE  StoreInv'
<1> DEFINE kept == {m \in zset[v] : EventTime[e] <= EventTime[m] + Window}
<1>1. /\ zset' = [zset EXCEPT ![v] = kept]
      /\ expiry' = [expiry EXCEPT ![v] = IF kept = {} THEN Never ELSE @]
      /\ UNCHANGED <<hash, addedAt, now, ttl>>
      /\ disturbed \subseteq disturbed' /\ caught' = caught
  BY DEF ZSetRemoveRange, WriteStep
<1>2. /\ zset \in [Users -> SUBSET Events] /\ hash \subseteq Events
      /\ expiry \in [Keys -> Nat \cup {Never}] /\ Users \subseteq Keys
      /\ Events \subseteq Keys
  BY DEF TypeOK, Keys
<1>3. /\ \A m \in Events : WillExpireUser(m) /\ UserOf[m] \notin disturbed' =>
            WillExpireUser(m)'
      /\ \A u \in Users : WillExpireZset(u) /\ u \notin disturbed' => WillExpireZset(u)'
      /\ \A m \in Events : WillExpireEvent(m) /\ UserOf[m] \notin disturbed' =>
            WillExpireEvent(m)'
      /\ v \notin disturbed' => WillExpireZset(v)'
  BY PromisesKept
<1>4. /\ \A u \in Users \ {v} : zset'[u] = zset[u] /\ expiry'[u] = expiry[u]
      /\ zset'[v] = kept
      /\ \A m \in Events : expiry'[m] = expiry[m]
  BY <1>1, <1>2
<1>5. KeysPending'
  <2>1. ASSUME NEW u \in Users, zset'[u] # {}, expiry'[u] = Never
        PROVE  u \in disturbed' \/ WillExpireZset(u)'
    <3>1. CASE u = v
      BY <1>3, <3>1
    <3>2. CASE u # v
      BY <1>1, <1>3, <1>4, <2>1, <3>2 DEF StoreInv, KeysPending
    <3> QED BY <3>1, <3>2
  <2>2. \A m \in hash' : expiry'[m] = Never =>
           UserOf[m] \in disturbed' \/ WillExpireEvent(m)'
    BY <1>1, <1>2, <1>3, <1>4 DEF StoreInv, KeysPending
  <2> QED BY <2>1, <2>2 DEF KeysPending
<1>6. MembersInv'
  BY <1>1, <1>4 DEF StoreInv, MembersInv
<1>7. KeptInv'
  <2> SUFFICES ASSUME NEW m \in Events, Current(m)'
               PROVE  /\ m \in zset'[UserOf[m]] /\ m \in hash'
                      /\ \/ LastsUntil(UserOf[m], addedAt[m] + ttl)'
                         \/ WillExpireUser(m)'
                      /\ LastsUntil(m, addedAt[m] + ttl)' \/ WillExpireEvent(m)'
    BY DEF KeptInv
  <2>1. /\ UserOf[m] \notin disturbed' /\ UserOf[m] \in Users
        /\ Current(m) /\ ~Passed(m)
    BY <1>1 DEF Current, Kept, Passed
  <2>2. /\ m \in zset[UserOf[m]] /\ m \in hash
        /\ LastsUntil(UserOf[m], addedAt[m] + ttl) \/ WillExpireUser(m)
        /\ LastsUntil(m, addedAt[m] + ttl) \/ WillExpireEvent(m)
    BY <2>1 DEF StoreInv, KeptInv
  <2>3. LastsUntil(m, addedAt[m] + ttl)' \/ WillExpireEvent(m)'
    BY <1>1, <1>3, <1>4, <2>1, <2>2 DEF LastsUntil
  <2>4. CASE UserOf[m] = v
    <3>1. addedAt[e] # Never
      BY DEF CallOK
    <3>2. EventTime[e] <= EventTime[m] + Window
      BY <1>1, <2>1, <2>4, <3>1 DEF Passed
    <3>3. m \in kept /\ expiry'[v] = expiry[v]
      BY <1>1, <1>2, <2>2, <2>4, <3>2
    <3> QED BY <1>1, <1>3, <1>4, <2>1, <2>2, <2>3, <2>4, <3>3 DEF LastsUntil
  <2>5. CASE UserOf[m] # v
    BY <1>1, <1>3, <1>4, <2>1, <2>2, <2>3, <2>5 DEF LastsUntil
  <2> QED BY <2>4, <2>5
<1> QED BY <1>5, <1>6, <1>7 DEF StoreInv

(* EXPIRE of the user's key: a full time to live from now.                 *)
LEMMA ExpireUserKeeps ==
    ASSUME TypeOK, StoreInv, NEW c \in Consumers, NEW e \in Events, e = event[c],
           NEW v \in Users, v = UserOf[e], WriteStep(c),
           pc[c] = "expireUser", ExpireUserKey(e)
    PROVE  StoreInv'
<1>1. /\ expiry' = [expiry EXCEPT ![v] = IF zset[v] = {} THEN Never ELSE now + ttl]
      /\ UNCHANGED <<zset, hash, addedAt, now, ttl>>
      /\ disturbed \subseteq disturbed' /\ caught' = caught
  BY DEF ExpireUserKey, WriteStep
<1>2. /\ zset \in [Users -> SUBSET Events] /\ hash \subseteq Events
      /\ expiry \in [Keys -> Nat \cup {Never}] /\ Users \subseteq Keys
      /\ Events \subseteq Keys /\ now \in Nat /\ ttl \in Nat
      /\ addedAt \in [Events -> Nat \cup {Never}]
  BY DEF TypeOK, Keys
<1>3. /\ \A m \in Events \ {e} : WillExpireUser(m) /\ UserOf[m] \notin disturbed' =>
            WillExpireUser(m)'
      /\ \A u \in Users \ {v} : WillExpireZset(u) /\ u \notin disturbed' =>
            WillExpireZset(u)'
      /\ \A m \in Events : WillExpireEvent(m) /\ UserOf[m] \notin disturbed' =>
            WillExpireEvent(m)'
  BY PromisesKept
<1>4. /\ \A u \in Users \ {v} : expiry'[u] = expiry[u]
      /\ expiry'[v] = IF zset[v] = {} THEN Never ELSE now + ttl
      /\ \A m \in Events : expiry'[m] = expiry[m]
      /\ now + ttl # Never
  BY <1>1, <1>2
<1>5. KeysPending'
  <2>1. ASSUME NEW u \in Users, zset'[u] # {}, expiry'[u] = Never
        PROVE  u \in disturbed' \/ WillExpireZset(u)'
    BY <1>1, <1>3, <1>4, <2>1 DEF StoreInv, KeysPending
  <2>2. \A m \in hash' : expiry'[m] = Never =>
           UserOf[m] \in disturbed' \/ WillExpireEvent(m)'
    BY <1>1, <1>2, <1>3, <1>4 DEF StoreInv, KeysPending
  <2> QED BY <2>1, <2>2 DEF KeysPending
<1>6. MembersInv'
  BY <1>1 DEF StoreInv, MembersInv
<1>7. KeptInv'
  <2> SUFFICES ASSUME NEW m \in Events, Current(m)'
               PROVE  /\ m \in zset'[UserOf[m]] /\ m \in hash'
                      /\ \/ LastsUntil(UserOf[m], addedAt[m] + ttl)'
                         \/ WillExpireUser(m)'
                      /\ LastsUntil(m, addedAt[m] + ttl)' \/ WillExpireEvent(m)'
    BY DEF KeptInv
  <2>1. /\ UserOf[m] \notin disturbed' /\ UserOf[m] \in Users
        /\ Current(m)
    BY <1>1 DEF Current, Kept, Passed
  <2>2. /\ m \in zset[UserOf[m]] /\ m \in hash
        /\ LastsUntil(UserOf[m], addedAt[m] + ttl) \/ WillExpireUser(m)
        /\ LastsUntil(m, addedAt[m] + ttl) \/ WillExpireEvent(m)
    BY <2>1 DEF StoreInv, KeptInv
  <2>3. LastsUntil(m, addedAt[m] + ttl)' \/ WillExpireEvent(m)'
    BY <1>1, <1>3, <1>4, <2>1, <2>2 DEF LastsUntil
  <2>4. CASE UserOf[m] = v
    <3>1. addedAt[m] \in Nat /\ addedAt[m] <= now
      BY <1>2, <2>1 DEF StoreInv, MembersInv, Current
    <3>2. LastsUntil(UserOf[m], addedAt[m] + ttl)'
      BY <1>1, <1>2, <1>4, <2>4, <3>1 DEF LastsUntil
    <3> QED BY <1>1, <2>2, <2>3, <3>2
  <2>5. CASE UserOf[m] # v
    BY <1>1, <1>3, <1>4, <2>1, <2>2, <2>3, <2>5 DEF LastsUntil
  <2> QED BY <2>4, <2>5
<1> QED BY <1>5, <1>6, <1>7 DEF StoreInv

(* EXPIRE of the event's key. *)
LEMMA ExpireEventKeeps ==
    ASSUME TypeOK, StoreInv, NEW c \in Consumers, NEW e \in Events, e = event[c],
           NEW v \in Users, v = UserOf[e], WriteStep(c),
           pc[c] = "expireEvent", ExpireEventKey(e)
    PROVE  StoreInv'
<1>1. /\ expiry' = [expiry EXCEPT ![e] = IF e \in hash THEN now + ttl ELSE Never]
      /\ UNCHANGED <<zset, hash, addedAt, now, ttl>>
      /\ disturbed \subseteq disturbed' /\ caught' = caught
  BY DEF ExpireEventKey, WriteStep
<1>2. /\ zset \in [Users -> SUBSET Events] /\ hash \subseteq Events
      /\ expiry \in [Keys -> Nat \cup {Never}] /\ Users \subseteq Keys
      /\ Events \subseteq Keys /\ now \in Nat /\ ttl \in Nat
      /\ addedAt \in [Events -> Nat \cup {Never}]
  BY DEF TypeOK, Keys
<1>3. /\ \A m \in Events : WillExpireUser(m) /\ UserOf[m] \notin disturbed' =>
            WillExpireUser(m)'
      /\ \A u \in Users : WillExpireZset(u) /\ u \notin disturbed' => WillExpireZset(u)'
      /\ \A m \in Events \ {e} : WillExpireEvent(m) /\ UserOf[m] \notin disturbed' =>
            WillExpireEvent(m)'
  BY PromisesKept
<1>4. /\ \A u \in Users : expiry'[u] = expiry[u]
      /\ expiry'[e] = IF e \in hash THEN now + ttl ELSE Never
      /\ \A m \in Events \ {e} : expiry'[m] = expiry[m]
      /\ now + ttl # Never
  BY <1>1, <1>2
<1>5. KeysPending'
  <2>1. ASSUME NEW u \in Users, zset'[u] # {}, expiry'[u] = Never
        PROVE  u \in disturbed' \/ WillExpireZset(u)'
    BY <1>1, <1>3, <1>4, <2>1 DEF StoreInv, KeysPending
  <2>2. \A m \in hash' : expiry'[m] = Never =>
           UserOf[m] \in disturbed' \/ WillExpireEvent(m)'
    BY <1>1, <1>2, <1>3, <1>4 DEF StoreInv, KeysPending
  <2> QED BY <2>1, <2>2 DEF KeysPending
<1>6. MembersInv'
  BY <1>1 DEF StoreInv, MembersInv
<1>7. KeptInv'
  <2> SUFFICES ASSUME NEW m \in Events, Current(m)'
               PROVE  /\ m \in zset'[UserOf[m]] /\ m \in hash'
                      /\ \/ LastsUntil(UserOf[m], addedAt[m] + ttl)'
                         \/ WillExpireUser(m)'
                      /\ LastsUntil(m, addedAt[m] + ttl)' \/ WillExpireEvent(m)'
    BY DEF KeptInv
  <2>1. /\ UserOf[m] \notin disturbed' /\ UserOf[m] \in Users
        /\ Current(m)
    BY <1>1 DEF Current, Kept, Passed
  <2>2. /\ m \in zset[UserOf[m]] /\ m \in hash
        /\ LastsUntil(UserOf[m], addedAt[m] + ttl) \/ WillExpireUser(m)
        /\ LastsUntil(m, addedAt[m] + ttl) \/ WillExpireEvent(m)
    BY <2>1 DEF StoreInv, KeptInv
  <2>3. LastsUntil(UserOf[m], addedAt[m] + ttl)' \/ WillExpireUser(m)'
    BY <1>1, <1>3, <1>4, <2>1, <2>2 DEF LastsUntil
  <2>4. CASE m = e
    <3>1. addedAt[m] \in Nat /\ addedAt[m] <= now
      BY <1>2, <2>1 DEF StoreInv, MembersInv, Current
    <3>2. LastsUntil(m, addedAt[m] + ttl)'
      BY <1>1, <1>2, <1>4, <2>2, <2>4, <3>1 DEF LastsUntil
    <3> QED BY <1>1, <2>2, <2>3, <3>2
  <2>5. CASE m # e
    BY <1>1, <1>3, <1>4, <2>1, <2>2, <2>3, <2>5 DEF LastsUntil
  <2> QED BY <2>4, <2>5
<1> QED BY <1>5, <1>6, <1>7 DEF StoreInv

(* Every command keeps what is in the store, whether its call goes on or   *)
(* ends here.                                                              *)
LEMMA WriteKeeps ==
    ASSUME TypeOK, StoreInv, NEW c \in Consumers, WriteStep(c), CallOK(c)
    PROVE  StoreInv'
<1>1. PICK e \in Events : e = event[c]
  BY DEF WriteStep, TypeOK
<1>2. PICK v \in Users : v = UserOf[e]
  OBVIOUS
<1> QED BY <1>1, <1>2, PutAllKeeps, ZAddKeeps, RemoveRangeKeeps, ExpireUserKeeps,
           ExpireEventKeeps DEF WriteStep, Write

(* A step that touches neither the keys nor a call that writes keeps them. *)
LEMMA ReadKeeps ==
    ASSUME TypeOK, StoreInv, UNCHANGED <<zset, hash, expiry, now, addedAt, ttl>>,
           disturbed \subseteq disturbed', caught' = caught,
           \A c \in Consumers :
              \/ pc'[c] = pc[c] /\ event'[c] = event[c]
              \/ pc[c] \notin Writes
              \/ UserOf[event[c]] \in disturbed'
    PROVE  StoreInv'
<1>1. /\ \A m \in Events : WillExpireUser(m) /\ UserOf[m] \notin disturbed' =>
            WillExpireUser(m)'
      /\ \A u \in Users : WillExpireZset(u) /\ u \notin disturbed' => WillExpireZset(u)'
      /\ \A m \in Events : WillExpireEvent(m) /\ UserOf[m] \notin disturbed' =>
            WillExpireEvent(m)'
  BY DEF WillExpireUser, WillExpireZset, WillExpireEvent, Writes
<1>2. KeysPending'
  BY <1>1 DEF StoreInv, KeysPending, TypeOK
<1>3. MembersInv'
  BY DEF StoreInv, MembersInv
<1>4. ASSUME NEW m \in Events, Current(m)'
      PROVE  Current(m) /\ UserOf[m] \notin disturbed' /\ UserOf[m] \in Users
  BY <1>4 DEF Current, Kept, Passed
<1>5. KeptInv'
  BY <1>1, <1>4 DEF StoreInv, KeptInv, LastsUntil
<1> QED BY <1>2, <1>3, <1>5 DEF StoreInv

(* Time passes: a key that disappears was past the time to live of its     *)
(* latest addition, or is its own call's to extend, which is then noted.   *)
LEMMA TickKeeps ==
    ASSUME TypeOK, StoreInv, Tick, ttl' = ttl
    PROVE  StoreInv'
<1>1. /\ now' = now + 1 /\ UNCHANGED <<pc, event, addedAt, ttl>>
      /\ now \in Nat /\ ttl \in Nat
      /\ disturbed' = disturbed /\ caught \subseteq caught'
      /\ hash \subseteq Events /\ hash' = {e \in hash : expiry[e] # now + 1}
      /\ zset \in [Users -> SUBSET Events]
      /\ \A u \in Users : zset'[u] = IF expiry[u] = now + 1 THEN {} ELSE zset[u]
      /\ \A k \in Keys : expiry'[k] = IF expiry[k] = now + 1 THEN Never ELSE expiry[k]
      /\ Users \subseteq Keys /\ Events \subseteq Keys
      /\ expiry \in [Keys -> Nat \cup {Never}]
      /\ addedAt \in [Events -> Nat \cup {Never}]
  BY DEF Tick, TypeOK, Keys
<1>2. /\ \A m \in Events : WillExpireUser(m) /\ expiry[UserOf[m]] = now + 1 =>
            m \in caught'
      /\ \A m \in Events : WillExpireEvent(m) /\ expiry[m] = now + 1 => m \in caught'
  BY DEF Tick
<1>3. /\ \A m \in Events : WillExpireUser(m)' <=> WillExpireUser(m)
      /\ \A u \in Users : WillExpireZset(u)' <=> WillExpireZset(u)
      /\ \A m \in Events : WillExpireEvent(m)' <=> WillExpireEvent(m)
  BY <1>1 DEF WillExpireUser, WillExpireZset, WillExpireEvent
<1>4. KeysPending'
  <2>1. \A u \in Users : zset'[u] # {} /\ expiry'[u] = Never =>
           u \in disturbed' \/ WillExpireZset(u)'
    BY <1>1, <1>3 DEF StoreInv, KeysPending
  <2>2. \A m \in hash' : expiry'[m] = Never =>
           UserOf[m] \in disturbed' \/ WillExpireEvent(m)'
    BY <1>1, <1>3 DEF StoreInv, KeysPending
  <2> QED BY <2>1, <2>2 DEF KeysPending
<1>5. MembersInv'
  BY <1>1 DEF StoreInv, MembersInv
<1>6. KeptInv'
  <2> SUFFICES ASSUME NEW m \in Events, Current(m)'
               PROVE  /\ m \in zset'[UserOf[m]] /\ m \in hash'
                      /\ \/ LastsUntil(UserOf[m], addedAt[m] + ttl)'
                         \/ WillExpireUser(m)'
                      /\ LastsUntil(m, addedAt[m] + ttl)' \/ WillExpireEvent(m)'
    BY DEF KeptInv
  <2>1. /\ UserOf[m] \notin disturbed' /\ UserOf[m] \in Users
        /\ addedAt[m] \in Nat /\ now + 1 < addedAt[m] + ttl
        /\ Current(m) /\ m \notin caught'
    BY <1>1 DEF Current, Kept, Passed
  <2>2. /\ m \in zset[UserOf[m]] /\ m \in hash
        /\ LastsUntil(UserOf[m], addedAt[m] + ttl) \/ WillExpireUser(m)
        /\ LastsUntil(m, addedAt[m] + ttl) \/ WillExpireEvent(m)
    BY <2>1 DEF StoreInv, KeptInv
  <2>3. expiry[UserOf[m]] # now + 1 /\ expiry[m] # now + 1
    BY <1>1, <1>2, <2>1, <2>2 DEF LastsUntil
  <2>4. /\ expiry'[UserOf[m]] = expiry[UserOf[m]] /\ expiry'[m] = expiry[m]
        /\ m \in zset'[UserOf[m]] /\ m \in hash'
    BY <1>1, <2>1, <2>2, <2>3
  <2> QED BY <1>1, <1>3, <2>1, <2>2, <2>4 DEF LastsUntil
<1> QED BY <1>4, <1>5, <1>6 DEF StoreInv

-----------------------------------------------------------------------------
(* What a step does to a call. *)

(* The rest of the system moves on: the clock within the call's delay,     *)
(* other additions, failures of other calls.                               *)
WorldMoves(c) ==
    /\ ttl' = ttl
    /\ now' \in Nat /\ now <= now' /\ now' <= ReceivedAt[event[c]] + MaxDelay
    /\ disturbed \subseteq disturbed' /\ caught \subseteq caught'
    /\ \A x \in Events : addedAt[x] # Never =>
          addedAt'[x] \in Nat /\ addedAt[x] <= addedAt'[x]

SameCall(c) ==
    /\ pc'[c] = pc[c] /\ event'[c] = event[c] /\ pending'[c] = pending[c]
    /\ counted'[c] = counted[c] /\ expected'[c] = expected[c]

(* A call in progress is not harmed by what others do.                     *)
LEMMA OthersKeep ==
    ASSUME TypeOK, NEW c \in Consumers, Busy(c), CallOK(c), WorldMoves(c),
           SameCall(c),
           pc[c] = "zadd" /\ event[c] \in hash /\ event[c] \notin caught'
              => event[c] \in hash'
    PROVE  CallOK(c)'
<1> DEFINE e == event[c]
<1>1. /\ e \in Events /\ event'[c] = e /\ UserOf[e] \in Users
      /\ addedAt \in [Events -> Nat \cup {Never}] /\ now \in Nat /\ ttl \in Nat
      /\ expected[c] \subseteq Events \X Nat
  BY DEF TypeOK, SameCall
<1>2. Reliable(c)' => Reliable(c)
  BY DEF Reliable, WorldMoves, SameCall
<1>3. /\ ReceivedAt[e] <= now' /\ now' <= ReceivedAt[e] + MaxDelay
      /\ ~IsTooLateForLiveWindow(e)
      /\ pc[c] \notin {"putAll", "zadd"} => addedAt'[e] # Never
      /\ pc[c] = "zadd" /\ Reliable(c)' /\ e \notin caught' => e \in hash'
  BY <1>1, <1>2 DEF CallOK, WorldMoves, Reliable, SameCall
<1>4. ASSUME pc[c] = "amounts"
      PROVE  /\ \A x \in expected[c] :
                   /\ InWindow(x[1], e)
                   /\ addedAt'[x[1]] # Never /\ x[2] <= addedAt'[x[1]]
                   /\ ReceivedAt[x[1]] <= x[2] /\ UserOf[x[1]] = UserOf[e]
             /\ pending[c] \cup counted[c] \subseteq Members(c)
             /\ Reliable(c)' =>
                   {m \in FreshMembers(c)' : Kept(m)'}
                       \subseteq pending[c] \cup counted[c]
  <2>1. ASSUME NEW x \in expected[c]
        PROVE  /\ InWindow(x[1], e)
               /\ addedAt'[x[1]] # Never /\ x[2] <= addedAt'[x[1]]
               /\ ReceivedAt[x[1]] <= x[2] /\ UserOf[x[1]] = UserOf[e]
    <3>1. x[1] \in Events /\ x[2] \in Nat
      BY <1>1
    <3>2. /\ InWindow(x[1], e)
          /\ addedAt[x[1]] # Never /\ x[2] <= addedAt[x[1]]
          /\ ReceivedAt[x[1]] <= x[2] /\ UserOf[x[1]] = UserOf[e]
      BY <1>4 DEF CallOK
    <3> QED BY <1>1, <3>1, <3>2 DEF WorldMoves
  <2>2. pending[c] \cup counted[c] \subseteq Members(c)
    BY <1>4 DEF CallOK
  <2>3. ASSUME Reliable(c)', NEW m \in FreshMembers(c)', Kept(m)'
        PROVE  m \in pending[c] \cup counted[c]
    <3>1. PICK x \in expected[c] : x[1] = m /\ now' < x[2] + ttl
      BY <2>3 DEF FreshMembers, Fresh, SameCall, WorldMoves
    <3>2. m \in Events /\ x[2] \in Nat
      BY <1>1, <3>1
    <3>3. m \in FreshMembers(c)
      BY <1>1, <3>1, <3>2 DEF FreshMembers, Fresh, WorldMoves
    <3>4. Kept(m)
      BY <2>3, <3>2, PassedStays DEF Kept, WorldMoves
    <3> QED BY <1>2, <1>4, <2>3, <3>3, <3>4 DEF CallOK
  <2> QED BY <2>1, <2>2, <2>3
<1>5. Members(c)' = Members(c)
  BY DEF Members, SameCall
<1> QED BY <1>1, <1>3, <1>4, <1>5 DEF CallOK, SameCall

(* The next command of a call. *)
LEMMA SendWriteCall ==
    ASSUME TypeOK, NEW c \in Consumers, CallOK(c), SendWrite(c), ttl' = ttl
    PROVE  CallOK(c)'
<1> DEFINE e == event[c]
<1>1. /\ e \in Events /\ event'[c] = e /\ UserOf[e] \in Users /\ now' = now
      /\ pc[c] \in Writes /\ pc'[c] = Following[pc[c]] /\ disturbed' = disturbed
      /\ caught' = caught
      /\ addedAt \in [Events -> Nat \cup {Never}] /\ now \in Nat
      /\ Write(c)
  BY DEF SendWrite, TypeOK, Busy, Calling
<1>2. pc'[c] \in {"zadd", "removeRange", "expireUser", "expireEvent", "range"}
  BY <1>1, FollowingOf DEF Writes
<1>3. pc'[c] = "zadd" => pc[c] = "putAll"
  BY <1>1, FollowingOf DEF Writes
<1>4. pc'[c] = "zadd" => e \in hash'
  BY <1>1, <1>3 DEF Write, HashPutAll
<1>5. pc'[c] # "zadd" => addedAt'[e] # Never
  <2>1. CASE pc[c] = "putAll"
    BY <1>1, <2>1, FollowingOf
  <2>2. CASE pc[c] = "zadd"
    BY <1>1, <2>2 DEF Write, ZSetAdd
  <2>3. CASE pc[c] \notin {"putAll", "zadd"}
    <3>1. addedAt' = addedAt
      BY <1>1, <2>3 DEF Write, ZSetRemoveRange, ExpireUserKey, ExpireEventKey
    <3> QED BY <2>3, <3>1 DEF CallOK
  <2> QED BY <2>1, <2>2, <2>3
<1>6. /\ ReceivedAt[e] <= now' /\ now' <= ReceivedAt[e] + MaxDelay
      /\ ~IsTooLateForLiveWindow(e) /\ pc'[c] # "amounts"
  BY <1>1, <1>2 DEF CallOK
<1> HIDE DEF e
<1> QED BY <1>1, <1>4, <1>5, <1>6 DEF CallOK

(* The range read finds every member the answer is to count. *)
LEMMA RangeCall ==
    ASSUME TypeOK, StoreInv, NEW c \in Consumers, CallOK(c), counted[c] = {},
           RangeByScore(c), ttl' = ttl
    PROVE  CallOK(c)'
<1> DEFINE e == event[c]
<1>1. /\ e \in Events /\ UserOf[e] \in Users /\ event' = event /\ now' = now
      /\ addedAt' = addedAt /\ disturbed' = disturbed /\ caught' = caught
      /\ counted' = counted
      /\ pc'[c] = "amounts" /\ pc[c] = "range"
      /\ expected'[c] = RecordedMembers(e)
      /\ pending'[c] = {m \in zset[UserOf[e]] : InWindow(m, e)}
      /\ addedAt \in [Events -> Nat \cup {Never}] /\ now \in Nat /\ ttl \in Nat
      /\ zset \in [Users -> SUBSET Events]
  <2>1. pc[c] = "range" /\ Busy(c)
    BY DEF RangeByScore, Busy, Calling
  <2>2. e \in Events /\ UserOf[e] \in Users
    BY <2>1 DEF TypeOK
  <2>3. /\ UNCHANGED <<event, now, addedAt, disturbed, caught, counted>>
        /\ pc' = [pc EXCEPT ![c] = "amounts"]
        /\ expected' = [expected EXCEPT ![c] = RecordedMembers(e)]
        /\ pending' = [pending EXCEPT ![c] = {m \in zset[UserOf[e]] : InWindow(m, e)}]
    BY DEF RangeByScore
  <2>4. /\ pc \in [Consumers -> Calling \cup Answers]
        /\ expected \in [Consumers -> SUBSET (Events \X Nat)]
        /\ pending \in [Consumers -> SUBSET Events]
        /\ addedAt \in [Events -> Nat \cup {Never}]
        /\ zset \in [Users -> SUBSET Events]
    BY DEF TypeOK
  <2>5. now \in Nat /\ ttl \in Nat
    BY WindowAssumption DEF TypeOK
  <2>6. pc'[c] = "amounts" /\ expected'[c] = RecordedMembers(e)
        /\ pending'[c] = {m \in zset[UserOf[e]] : InWindow(m, e)}
    BY <2>3, <2>4
  <2> QED BY <2>1, <2>2, <2>3, <2>4, <2>5, <2>6
<1>2. ASSUME NEW x \in expected'[c]
      PROVE  /\ x[1] \in Events /\ x[2] = addedAt[x[1]] /\ addedAt[x[1]] # Never
             /\ InWindow(x[1], e) /\ UserOf[x[1]] = UserOf[e]
             /\ ReceivedAt[x[1]] <= x[2] /\ x[2] <= addedAt[x[1]]
  BY <1>1, <1>2 DEF RecordedMembers, RecordedInWindow, StoreInv, MembersInv
<1>3. ASSUME NEW m \in RecordedInWindow(e)
      PROVE  m \in Members(c)'
  <2>1. <<m, addedAt[m]>> \in expected'[c]
    BY <1>1 DEF RecordedMembers
  <2>2. <<m, addedAt[m]>>[1] = m
    OBVIOUS
  <2>3. Members(c)' = {x[1] : x \in expected'[c]}
    BY DEF Members
  <2> QED BY <2>1, <2>2, <2>3
<1>4. pending'[c] \cup counted'[c] \subseteq Members(c)'
  BY <1>1, <1>3 DEF RecordedInWindow, StoreInv, MembersInv
<1>5. ASSUME Reliable(c)', NEW m \in FreshMembers(c)', Kept(m)'
      PROVE  m \in pending'[c]
  <2>1. PICK x \in expected'[c] : x[1] = m /\ now < x[2] + ttl
    BY <1>1, <1>5 DEF FreshMembers, Fresh
  <2>2. Current(m) /\ InWindow(m, e) /\ UserOf[m] = UserOf[e] /\ m \in Events
    BY <1>1, <1>2, <1>5, <2>1 DEF Current, Reliable, Kept, Passed
  <2> QED BY <1>1, <2>2 DEF StoreInv, KeptInv
<1>6. ReceivedAt[e] <= now /\ now <= ReceivedAt[e] + MaxDelay
      /\ ~IsTooLateForLiveWindow(e) /\ addedAt[e] # Never
  BY <1>1 DEF CallOK
<1> QED BY <1>1, <1>2, <1>4, <1>5, <1>6 DEF CallOK

(* A member whose amount is read now is current, so its hash is there. *)
LEMMA AmountCall ==
    ASSUME TypeOK, StoreInv, NEW c \in Consumers, CallOK(c), GetAmount(c),
           ttl' = ttl
    PROVE  CallOK(c)'
<1> DEFINE e == event[c]
<1>1. /\ e \in Events /\ UserOf[e] \in Users /\ event' = event /\ now' = now
      /\ addedAt' = addedAt /\ disturbed' = disturbed /\ caught' = caught
      /\ expected' = expected
      /\ pc' = pc /\ pc[c] = "amounts"
      /\ addedAt \in [Events -> Nat \cup {Never}] /\ now \in Nat /\ ttl \in Nat
      /\ expected[c] \subseteq Events \X Nat
  BY DEF GetAmount, TypeOK, Busy, Calling, redisVars, historyVars
<1>2. PICK r \in pending[c] : /\ pending'[c] = pending[c] \ {r}
                              /\ counted'[c] = counted[c] \cup ({r} \cap hash)
  BY DEF GetAmount, TypeOK
<1>3. /\ \A x \in expected[c] :
            /\ InWindow(x[1], e)
            /\ addedAt[x[1]] # Never /\ x[2] <= addedAt[x[1]]
            /\ ReceivedAt[x[1]] <= x[2] /\ UserOf[x[1]] = UserOf[e]
      /\ pending[c] \cup counted[c] \subseteq Members(c)
      /\ Reliable(c) =>
            {m \in FreshMembers(c) : Kept(m)} \subseteq pending[c] \cup counted[c]
      /\ ReceivedAt[e] <= now /\ now <= ReceivedAt[e] + MaxDelay
      /\ ~IsTooLateForLiveWindow(e) /\ addedAt[e] # Never
  BY <1>1 DEF CallOK
<1>4. ASSUME Reliable(c), NEW m \in FreshMembers(c), Kept(m)
      PROVE  m \in pending'[c] \cup counted'[c]
  <2>1. m \in pending[c] \cup counted[c]
    BY <1>3, <1>4
  <2>2. CASE m = r
    <3>1. PICK x \in expected[c] : x[1] = m /\ now < x[2] + ttl
      BY <1>4 DEF FreshMembers, Fresh
    <3>2. m \in Events /\ Current(m)
      BY <1>1, <1>3, <1>4, <3>1 DEF Current, Reliable
    <3> QED BY <1>2, <2>2, <3>2 DEF StoreInv, KeptInv
  <2>3. CASE m # r
    BY <1>2, <2>1, <2>3
  <2> QED BY <2>2, <2>3
<1>5. Members(c)' = Members(c) /\ FreshMembers(c)' = FreshMembers(c)
  BY <1>1 DEF Members, FreshMembers, Fresh
<1>6. (Reliable(c)' <=> Reliable(c)) /\ \A m : Kept(m)' <=> Kept(m)
  BY <1>1 DEF Reliable, Kept, Passed
<1>7. pending'[c] \cup counted'[c] \subseteq Members(c)
  BY <1>2, <1>3
<1> QED BY <1>1, <1>3, <1>4, <1>5, <1>6, <1>7 DEF CallOK

-----------------------------------------------------------------------------
(* Every step keeps the store and every call. *)

(* What a step of one consumer leaves to the calls of the others.          *)
LEMMA OtherCalls ==
    ASSUME TypeOK, CallInv, NEW c \in Consumers, ttl' = ttl, now' = now,
           disturbed \subseteq disturbed', caught' = caught,
           hash \subseteq hash',
           \A x \in Events : addedAt[x] # Never =>
              addedAt'[x] \in Nat /\ addedAt[x] <= addedAt'[x],
           \A b \in Consumers \ {c} : SameCall(b)
    PROVE  \A b \in Consumers \ {c} :
              /\ Busy(b)' => CallOK(b)'
              /\ pc'[b] # "amounts" => counted'[b] = {}
<1> SUFFICES ASSUME NEW b \in Consumers, b # c
             PROVE  /\ Busy(b)' => CallOK(b)'
                    /\ pc'[b] # "amounts" => counted'[b] = {}
  OBVIOUS
<1>1. SameCall(b)
  OBVIOUS
<1>2. pc'[b] # "amounts" => counted'[b] = {}
  BY <1>1 DEF CallInv, SameCall
<1>3. ASSUME Busy(b)'
      PROVE  CallOK(b)'
  <2>1. Busy(b) /\ CallOK(b)
    BY <1>1, <1>3 DEF CallInv, SameCall, Busy
  <2>2. WorldMoves(b)
    BY <2>1 DEF WorldMoves, CallOK, TypeOK
  <2> QED BY <1>1, <2>1, <2>2, OthersKeep
<1> QED BY <1>2, <1>3

(* A write adds, and no write takes back an addition or a hash. *)
LEMMA WriteAdds ==
    ASSUME TypeOK, MembersInv, NEW c \in Consumers, Busy(c), Write(c)
    PROVE  /\ hash \subseteq hash'
           /\ \A x \in Events : addedAt[x] # Never =>
                 addedAt'[x] \in Nat /\ addedAt[x] <= addedAt'[x]
<1>1. /\ event[c] \in Events /\ now \in Nat
      /\ addedAt \in [Events -> Nat \cup {Never}]
  BY DEF TypeOK
<1>2. CASE ZSetAdd(event[c])
  BY <1>1, <1>2 DEF ZSetAdd, MembersInv
<1>3. CASE ~ZSetAdd(event[c])
  <2>1. addedAt' = addedAt /\ hash \subseteq hash'
    BY <1>3 DEF Write, HashPutAll, ZSetRemoveRange, ExpireUserKey, ExpireEventKey
  <2> QED BY <1>1, <2>1
<1> QED BY <1>2, <1>3

(* The end of a call leaves nothing to keep for it. *)
LEMMA AnswerEnds ==
    ASSUME TypeOK, NEW c \in Consumers, NEW a \in Answers, Answer(c, a)
    PROVE  /\ ~Busy(c)' /\ counted'[c] = {}
           /\ \A b \in Consumers \ {c} : SameCall(b)
BY DEF TypeOK, Answer, Busy, SameCall, Answers, Calling, Writes

LEMMA InvKept == Inv /\ [Next]_vars => Inv'
<1> SUFFICES ASSUME Inv, [Next]_vars
             PROVE  StoreInv' /\ CallInv'
  BY TypeInvariant DEF Inv, StoreInv
<1>0. TypeOK /\ StoreInv /\ MembersInv /\ CallInv
  BY DEF Inv, StoreInv
<1>1. CASE UNCHANGED vars
  <2>1. StoreInv'
    BY <1>0, <1>1, ReadKeeps DEF vars, redisVars, historyVars
  <2>2. CallInv'
    BY <1>0, <1>1 DEF vars, redisVars, historyVars, CallInv, CallOK, Busy, Reliable,
       Members, FreshMembers, Fresh, Kept, Passed
  <2> QED BY <2>1, <2>2
<1>2. ASSUME NEW c \in Consumers, NEW e \in Events, RecordAndGetWindow(c, e),
             ttl' = ttl
      PROVE  StoreInv' /\ CallInv'
  <2>1. /\ UNCHANGED <<zset, hash, expiry, now, addedAt, disturbed, caught, counted>>
        /\ ~Busy(c) /\ pc'[c] = "putAll" /\ event'[c] = e
        /\ \A b \in Consumers \ {c} : SameCall(b)
        /\ addedAt \in [Events -> Nat \cup {Never}]
    BY <1>0, <1>2 DEF RecordAndGetWindow, redisVars, historyVars, TypeOK, SameCall
  <2>2. StoreInv'
    BY <1>0, <1>2, <2>1, ReadKeeps DEF SameCall, Busy, Calling
  <2>3. CallOK(c)' /\ counted'[c] = {}
    BY <1>0, <1>2, <2>1 DEF CallOK, RecordAndGetWindow, CallInv, Busy, Calling
  <2>4. \A b \in Consumers \ {c} :
           /\ Busy(b)' => CallOK(b)'
           /\ pc'[b] # "amounts" => counted'[b] = {}
    BY <1>0, <1>2, <2>1, OtherCalls
  <2> QED BY <2>2, <2>3, <2>4 DEF CallInv
<1>3. ASSUME NEW c \in Consumers, NEW e \in Events, SkipTooLate(c, e), ttl' = ttl
      PROVE  StoreInv' /\ CallInv'
  <2>1. /\ UNCHANGED <<zset, hash, expiry, now, addedAt, disturbed, caught>>
        /\ ~Busy(c)
        /\ Answer(c, "TOO_LATE") /\ "TOO_LATE" \in Answers
        /\ addedAt \in [Events -> Nat \cup {Never}]
    BY <1>0, <1>3 DEF SkipTooLate, redisVars, Answers, TypeOK
  <2>2. /\ ~Busy(c)' /\ counted'[c] = {}
        /\ \A b \in Consumers \ {c} : SameCall(b)
    BY <1>0, <2>1, AnswerEnds
  <2>3. StoreInv'
    BY <1>0, <1>3, <2>1, <2>2, ReadKeeps DEF SameCall, Busy, Calling
  <2>4. \A b \in Consumers \ {c} :
           /\ Busy(b)' => CallOK(b)'
           /\ pc'[b] # "amounts" => counted'[b] = {}
    BY <1>0, <1>3, <2>1, <2>2, OtherCalls
  <2> QED BY <2>2, <2>3, <2>4 DEF CallInv
<1>4. ASSUME NEW c \in Consumers, SendWrite(c), ttl' = ttl
      PROVE  StoreInv' /\ CallInv'
  <2>1. /\ Busy(c) /\ Write(c) /\ CallOK(c) /\ pc[c] \in Writes
        /\ pc'[c] = Following[pc[c]] /\ event'[c] = event[c]
        /\ UNCHANGED <<now, disturbed, caught, counted>>
        /\ \A b \in Consumers \ {c} : SameCall(b)
    BY <1>0, <1>4 DEF SendWrite, Busy, Calling, TypeOK, SameCall, CallInv
  <2>2. StoreInv'
    BY <1>0, <1>4, <2>1, WriteKeeps DEF WriteStep, SameCall
  <2>3. CallOK(c)' /\ counted'[c] = {}
    BY <1>0, <1>4, <2>1, SendWriteCall DEF CallInv, Writes
  <2>4. \A b \in Consumers \ {c} :
           /\ Busy(b)' => CallOK(b)'
           /\ pc'[b] # "amounts" => counted'[b] = {}
    BY <1>0, <1>4, <2>1, WriteAdds, OtherCalls
  <2> QED BY <2>2, <2>3, <2>4 DEF CallInv
<1>5. ASSUME NEW c \in Consumers, RangeByScore(c), ttl' = ttl
      PROVE  StoreInv' /\ CallInv'
  <2>1. /\ UNCHANGED <<zset, hash, expiry, now, addedAt, disturbed, caught, counted>>
        /\ pc[c] = "range" /\ pc'[c] = "amounts" /\ event' = event
        /\ \A b \in Consumers \ {c} : SameCall(b)
        /\ addedAt \in [Events -> Nat \cup {Never}]
        /\ CallOK(c) /\ counted[c] = {}
    BY <1>0, <1>5 DEF RangeByScore, redisVars, TypeOK, SameCall, CallInv, Busy, Calling
  <2>2. StoreInv'
    BY <1>0, <1>5, <2>1, ReadKeeps DEF SameCall, Writes
  <2>3. CallOK(c)'
    BY <1>0, <1>5, <2>1, RangeCall
  <2>4. \A b \in Consumers \ {c} :
           /\ Busy(b)' => CallOK(b)'
           /\ pc'[b] # "amounts" => counted'[b] = {}
    BY <1>0, <1>5, <2>1, OtherCalls
  <2> QED BY <2>1, <2>2, <2>3, <2>4 DEF CallInv
<1>6. ASSUME NEW c \in Consumers, GetAmount(c), ttl' = ttl
      PROVE  StoreInv' /\ CallInv'
  <2>1. /\ UNCHANGED <<zset, hash, expiry, now, addedAt, disturbed, caught, pc, event>>
        /\ pc[c] = "amounts"
        /\ \A b \in Consumers \ {c} : SameCall(b)
        /\ addedAt \in [Events -> Nat \cup {Never}]
        /\ CallOK(c)
    BY <1>0, <1>6 DEF GetAmount, redisVars, historyVars, TypeOK, SameCall, CallInv,
       Busy, Calling
  <2>2. StoreInv'
    BY <1>0, <1>6, <2>1, ReadKeeps
  <2>3. CallOK(c)'
    BY <1>0, <1>6, <2>1, AmountCall
  <2>4. \A b \in Consumers \ {c} :
           /\ Busy(b)' => CallOK(b)'
           /\ pc'[b] # "amounts" => counted'[b] = {}
    BY <1>0, <1>6, <2>1, OtherCalls
  <2> QED BY <2>1, <2>2, <2>3, <2>4 DEF CallInv
<1>7. ASSUME NEW c \in Consumers, ReturnWindow(c), ttl' = ttl
      PROVE  StoreInv' /\ CallInv'
  <2>1. /\ UNCHANGED <<zset, hash, expiry, now, addedAt, disturbed, caught>>
        /\ pc[c] = "amounts"
        /\ Answer(c, "NORMAL") /\ "NORMAL" \in Answers
        /\ addedAt \in [Events -> Nat \cup {Never}]
    BY <1>0, <1>7 DEF ReturnWindow, Answered, redisVars, Answers, TypeOK
  <2>2. /\ ~Busy(c)' /\ counted'[c] = {}
        /\ \A b \in Consumers \ {c} : SameCall(b)
    BY <1>0, <2>1, AnswerEnds
  <2>3. StoreInv'
    BY <1>0, <1>7, <2>1, <2>2, ReadKeeps DEF SameCall, Writes
  <2>4. \A b \in Consumers \ {c} :
           /\ Busy(b)' => CallOK(b)'
           /\ pc'[b] # "amounts" => counted'[b] = {}
    BY <1>0, <1>7, <2>1, <2>2, OtherCalls
  <2> QED BY <2>2, <2>3, <2>4 DEF CallInv
<1>8. ASSUME NEW c \in Consumers, CommandFails(c), ttl' = ttl
      PROVE  StoreInv' /\ CallInv'
  <2>1. /\ Busy(c) /\ CallOK(c) /\ now' = now
        /\ Answer(c, "REDIS_UNAVAILABLE") /\ "REDIS_UNAVAILABLE" \in Answers
        /\ disturbed \subseteq disturbed' /\ UserOf[event[c]] \in disturbed'
        /\ caught' = caught
        /\ Write(c) \/ UNCHANGED <<zset, hash, expiry, addedAt>>
        /\ addedAt \in [Events -> Nat \cup {Never}]
    BY <1>0, <1>8 DEF CommandFails, redisVars, Answers, TypeOK, CallInv
  <2>2. /\ ~Busy(c)' /\ counted'[c] = {}
        /\ \A b \in Consumers \ {c} : SameCall(b)
    BY <1>0, <2>1, AnswerEnds
  <2>3. StoreInv'
    <3>1. CASE Write(c)
      BY <1>0, <1>8, <2>1, <2>2, <3>1, WriteKeeps DEF WriteStep, SameCall
    <3>2. CASE UNCHANGED <<zset, hash, expiry, addedAt>>
      BY <1>0, <1>8, <2>1, <2>2, <3>2, ReadKeeps DEF SameCall
    <3> QED BY <2>1, <3>1, <3>2
  <2>4. /\ hash \subseteq hash'
        /\ \A x \in Events : addedAt[x] # Never =>
              addedAt'[x] \in Nat /\ addedAt[x] <= addedAt'[x]
    BY <1>0, <2>1, WriteAdds
  <2>5. \A b \in Consumers \ {c} :
           /\ Busy(b)' => CallOK(b)'
           /\ pc'[b] # "amounts" => counted'[b] = {}
    BY <1>0, <1>8, <2>1, <2>2, <2>4, OtherCalls
  <2> QED BY <2>2, <2>3, <2>5 DEF CallInv
<1>9. ASSUME Tick, ttl' = ttl
      PROVE  StoreInv' /\ CallInv'
  <2>1. StoreInv'
    BY <1>0, <1>9, TickKeeps
  <2>2. ASSUME NEW c \in Consumers
        PROVE  /\ Busy(c)' => CallOK(c)'
               /\ pc'[c] # "amounts" => counted'[c] = {}
    <3>1. SameCall(c)
      BY <1>9 DEF Tick, SameCall
    <3>2. pc'[c] # "amounts" => counted'[c] = {}
      BY <1>0, <3>1 DEF CallInv, SameCall
    <3>3. ASSUME Busy(c)'
          PROVE  CallOK(c)'
      <4>1. Busy(c) /\ CallOK(c) /\ event[c] \in Events
        BY <1>0, <3>1, <3>3 DEF CallInv, SameCall, Busy, TypeOK
      <4>2. WorldMoves(c)
        <5>1. now \in Nat /\ ReceivedAt[event[c]] + MaxDelay \in Nat
          BY <1>0, <4>1 DEF TypeOK
        <5>2. now' = now + 1 /\ now < ReceivedAt[event[c]] + MaxDelay
          BY <1>9, <4>1 DEF Tick
        <5>3. addedAt' = addedAt /\ disturbed' = disturbed /\ caught \subseteq caught'
          BY <1>9 DEF Tick
        <5>4. \A x \in Events : addedAt[x] # Never => addedAt[x] \in Nat
          BY <1>0 DEF TypeOK
        <5> QED BY <1>9, <5>1, <5>2, <5>3, <5>4 DEF WorldMoves
      <4>3. pc[c] = "zadd" /\ event[c] \in hash /\ event[c] \notin caught'
               => event[c] \in hash'
        BY <1>9, <4>1 DEF Tick, WillExpireEvent
      <4> QED BY <1>0, <3>1, <4>1, <4>2, <4>3, OthersKeep
    <3> QED BY <3>2, <3>3
  <2> QED BY <2>1, <2>2 DEF CallInv
<1> QED BY <1>1, <1>2, <1>3, <1>4, <1>5, <1>6, <1>7, <1>8, <1>9 DEF Next, Step

LEMMA InitInv == Init => Inv
<1> SUFFICES ASSUME Init PROVE Inv
  OBVIOUS
<1>1. TypeOK
  BY DEF Init, TypeOK, Busy, Calling, Writes, Answers
<1>2. KeysPending /\ MembersInv /\ KeptInv
  BY DEF Init, KeysPending, MembersInv, KeptInv, Current
<1>3. CallInv
  BY DEF Init, CallInv, Busy, Calling, Writes
<1> QED BY <1>1, <1>2, <1>3 DEF Inv

(* Every reachable state of the store and of the calls in progress         *)
(* satisfies the invariant of recordAndGetWindowOrThrow.                   *)
THEOREM WindowInvariantHolds == Spec => []Inv
BY InitInv, InvKept, PTL DEF Spec

-----------------------------------------------------------------------------
(* What the invariant says of an answer. *)

(* An answer counts only recorded events in the window, and all of them    *)
(* but those a clean-up, a time to live, an expiry within the event's own  *)
(* call or a failed call took.                                             *)
THEOREM ExactWindow == Spec => []WindowIsExact
<1>1. Inv => WindowIsExact
  BY DEF Inv, WindowIsExact, CallInv, CallOK, Answered, Busy, Calling
<1> QED BY <1>1, WindowInvariantHolds, PTL

(* A key without a time to live belongs to a call in progress or a failed  *)
(* call of its user.                                                       *)
THEOREM KeysDoExpire == Spec => []KeysExpire
<1>1. ASSUME Inv PROVE KeysExpire
  <2>1. KeysPending /\ hash \subseteq Events
    BY <1>1 DEF Inv, TypeOK
  <2>2. ASSUME NEW k \in Keys, KeyExists(k), expiry[k] = Never
        PROVE  \/ KeyUser(k) \in disturbed
               \/ \E c \in Consumers : Busy(c) /\ UserOf[event[c]] = KeyUser(k)
    <3>1. CASE k \in Users
      <4>1. k \notin hash
        BY <2>1, <3>1
      <4> QED BY <2>1, <2>2, <3>1, <4>1
             DEF KeysPending, KeyExists, KeyUser, WillExpireZset, WillExpireUser,
                 Busy, Calling, Writes
    <3>2. CASE k \notin Users
      BY <2>1, <2>2, <3>2
         DEF KeysPending, KeyExists, KeyUser, WillExpireEvent, Busy, Calling, Writes
    <3> QED BY <3>1, <3>2
  <2> QED BY <2>2 DEF KeysExpire
<1> QED BY <1>1, WindowInvariantHolds, PTL

(* With the shipped defaults, and any others, an answer given less than    *)
(* ttl - window after the eventTime of its event misses no recorded event  *)
(* of the window for being expired, but one stamped later than its arrival *)
(* or one whose key expired within its own call.                           *)
THEOREM AnswersInTime == Spec => []AnswersInTimeAreComplete
<1>1. ASSUME Inv PROVE AnswersInTimeAreComplete
  <2> SUFFICES ASSUME NEW c \in Consumers, Answered(c), Reliable(c), InTime(c),
                      NEW m \in Members(c), Kept(m), EventTime[m] <= ReceivedAt[m]
               PROVE  m \in counted[c]
    BY DEF AnswersInTimeAreComplete
  <2>1. Busy(c) /\ pc[c] = "amounts" /\ pending[c] = {} /\ TypeOK /\ CallOK(c)
    BY <1>1 DEF Inv, CallInv, Answered, Busy, Calling
  <2>2. PICK x \in expected[c] : x[1] = m
    BY DEF Members
  <2>3. /\ event[c] \in Events /\ m \in Events /\ x[2] \in Nat
        /\ now \in Nat /\ ttl \in Nat
    BY <2>1, <2>2 DEF TypeOK
  <2>4. InWindow(m, event[c]) /\ ReceivedAt[m] <= x[2]
    BY <2>1, <2>2 DEF CallOK
  <2>5. now < x[2] + ttl
    BY <2>3, <2>4 DEF InWindow, InTime
  <2>6. m \in FreshMembers(c)
    BY <2>2, <2>5 DEF FreshMembers, Fresh
  <2> QED BY <2>1, <2>6 DEF CallOK
<1> QED BY <1>1, WindowInvariantHolds, PTL
=============================================================================
