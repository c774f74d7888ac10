---------------------------- MODULE RecordsProofs ----------------------------
(***************************************************************************)
(* Proofs about the services of MCServices that keep records: copies of rows  *)
(* in Redis, codes that belong to rows, the records of an account, the tasks   *)
(* of a rule.  Each is for any constants that fit its assumption.  The          *)
(* variables of one name are of one service at a time, as in MCServices.      *)
(***************************************************************************)
EXTENDS Integers, FiniteSets, FiniteSetTheorems, WellFoundedInduction, SequenceTheorems, TLAPS

CONSTANTS Handlers, Servers, None, Users,
          DeviceTokens, DevicePlatforms, Blank,              \* of TokenCache
          TokenRequests, TokenFaults,
          BoardRequests, BoardFaults,                        \* of AnnouncementBoard
          CodeRequests, CodeFaults,                          \* of EmailCodes
          Creators, RecordDates, MonthFirsts, RecordInputs,  \* of AccountRecords
          Withdrawals, GoldPrices, RecordsEver, RecordFaults,
          WeekLen, LastWeek, MonthStarts, MonthsPerYear,     \* of RecurringTasks
          Holidays, NewRules, TaskDays, RuleRequests

VARIABLES request, requests, faults,
          device, system, cache, topic, tasks, mixed, left,  \* of TokenCache
          stray,
          row, count, content, list, hits, tracked, views,   \* of AnnouncementBoard
          raced, late, sync,
          kept, mailed, drawn, user, trials, spent, shared,  \* of EmailCodes
          today, lock, fired, type, goldRun, records,        \* of AccountRecords
          withdrawals, between, cut, ofJob,
          rule, skips, run, started, freed, complete,        \* of RecurringTasks
          mingled

Devices == INSTANCE TokenCache WITH
  Tokens <- DeviceTokens, Platforms <- DevicePlatforms, Empty <- Blank, late <- stray,
  MaxRequests <- TokenRequests, MaxFaults <- TokenFaults
Board == INSTANCE AnnouncementBoard WITH
  job <- sync, MaxRequests <- BoardRequests, MaxFaults <- BoardFaults
Codes == INSTANCE EmailCodes WITH MaxRequests <- CodeRequests, MaxFaults <- CodeFaults
Assets == INSTANCE AccountRecords WITH
  run <- goldRun, crossed <- between, Handlers <- Creators, Dates <- RecordDates,
  Firsts <- MonthFirsts, Inputs <- RecordInputs, Taken <- Withdrawals, Prices <- GoldPrices,
  MaxRecords <- RecordsEver, MaxFaults <- RecordFaults
Tasks == INSTANCE RecurringTasks WITH
  crossed <- mingled, NoDate <- None, Rules <- NewRules, MaxDays <- TaskDays,
  MaxRequests <- RuleRequests

-----------------------------------------------------------------------------
(* TokenCache: the copies of the device tokens, and the topic.             *)

\* What a request of the tokens holds, by its stage.
LEMMA TokenRequestTypes ==
  ASSUME Devices!TypeOK, NEW h \in Handlers, request[h] # None
  PROVE  /\ request[h] \in Devices!Request
         /\ request[h].stage # "invalidate" => request[h].user \in Users
         /\ request[h].stage \in {"touch", "look", "replace"} =>
              /\ request[h].token \in DeviceTokens /\ request[h].platform \in DevicePlatforms
              /\ request[h].old \in {None} \cup Users
         /\ request[h].stage = "invalidate" =>
              /\ request[h].todo \in Seq(Users) /\ request[h].todo # <<>>
              /\ request[h].tasks \subseteq Devices!Task
         /\ request[h].stage = "delete" => request[h].token \in DeviceTokens
         /\ request[h].stage = "store" =>
              request[h].tokens \subseteq DeviceTokens /\ request[h].stale \in BOOLEAN
         /\ request[h].stage = "push" => request[h].tokens \subseteq DeviceTokens \cup {Blank}
         /\ request[h].stage = "setting" => request[h].on \in BOOLEAN
<1>1. request[h] \in Devices!Request
  BY DEF Devices!TypeOK
<1> QED BY <1>1 DEF Devices!Request

\* A fill is marked, or a request stays as it is.
LEMMA OutdatedFills ==
  ASSUME Devices!ConstantsAssumption,
         NEW req \in [Handlers -> {None} \cup Devices!Request], NEW us
  PROVE  /\ Devices!Outdated(req, us) \in [Handlers -> {None} \cup Devices!Request]
         /\ \A x \in Handlers :
              IF req[x] # None /\ req[x].stage = "store" /\ req[x].user \in us
                THEN /\ Devices!Outdated(req, us)[x] # None
                     /\ Devices!Outdated(req, us)[x].stage = "store"
                     /\ Devices!Outdated(req, us)[x].user = req[x].user
                     /\ Devices!Outdated(req, us)[x].tokens = req[x].tokens
                     /\ Devices!Outdated(req, us)[x].stale
                ELSE Devices!Outdated(req, us)[x] = req[x]
<1> DEFINE fill(x) == req[x] # None /\ req[x].stage = "store" /\ req[x].user \in us
<1>1. ASSUME NEW x \in Handlers, fill(x)
      PROVE  /\ [req[x] EXCEPT !.stale = TRUE] \in Devices!Request
             /\ [req[x] EXCEPT !.stale = TRUE].stage = "store"
             /\ [req[x] EXCEPT !.stale = TRUE].user = req[x].user
             /\ [req[x] EXCEPT !.stale = TRUE].tokens = req[x].tokens
             /\ [req[x] EXCEPT !.stale = TRUE].stale
  <2>1. req[x] \in [stage : {"store"}, user : Users, tokens : SUBSET DeviceTokens, stale : BOOLEAN]
    BY <1>1 DEF Devices!Request
  <2> QED BY <2>1 DEF Devices!Request
<1>2. \A x \in Handlers : Devices!Outdated(req, us)[x] =
                            IF fill(x) THEN [req[x] EXCEPT !.stale = TRUE] ELSE req[x]
  BY DEF Devices!Outdated
<1>3. None \notin Devices!Request
  BY DEF Devices!ConstantsAssumption
<1>4. Devices!Outdated(req, us) \in [Handlers -> {None} \cup Devices!Request]
  BY <1>1, <1>2 DEF Devices!Outdated
<1> QED BY <1>1, <1>2, <1>3, <1>4

\* The request of one handler is replaced.
LEMMA TokenGoesOn ==
  ASSUME Devices!TypeOK, NEW h \in Handlers, NEW r \in {None} \cup Devices!Request
  PROVE  [request EXCEPT ![h] = r] \in [Handlers -> {None} \cup Devices!Request]
  BY DEF Devices!TypeOK

LEMMA RegistrationTypes ==
  ASSUME Devices!ConstantsAssumption, Devices!TypeOK, NEW h \in Handlers,
         \/ \E u \in Users, t \in DeviceTokens, p \in DevicePlatforms : Devices!RegisterRead(h, u, t, p)
         \/ Devices!RegisterTouch(h) \/ Devices!RegisterLook(h) \/ Devices!RegisterReplace(h)
  PROVE  Devices!TypeOK'
<1>1. ASSUME NEW u \in Users, NEW t \in DeviceTokens, NEW p \in DevicePlatforms,
             Devices!RegisterRead(h, u, t, p)
      PROVE  Devices!TypeOK'
  <2> DEFINE old == IF device[t] = None THEN None ELSE device[t].user
             r == [stage |-> IF old = u THEN "touch" ELSE "look",
                   user |-> u, token |-> t, platform |-> p, old |-> old]
  <2>1. old \in {None} \cup Users
    BY DEF Devices!TypeOK
  <2>2. r \in Devices!Request
    BY <2>1 DEF Devices!Request
  <2>3. request' = [request EXCEPT ![h] = r]
    BY <1>1 DEF Devices!RegisterRead
  <2>4. request' \in [Handlers -> {None} \cup Devices!Request]
    BY <2>2, <2>3, TokenGoesOn
  <2> QED BY <1>1, <2>4 DEF Devices!RegisterRead, Devices!NewRequest, Devices!TypeOK, Devices!ghosts,
             Devices!ConstantsAssumption
<1>2. ASSUME Devices!RegisterTouch(h) PROVE Devices!TypeOK'
  <2>1. request[h] # None /\ request[h].stage = "touch"
    BY <1>2 DEF Devices!RegisterTouch, Devices!At
  <2> DEFINE r == request[h]
             next == [stage |-> "invalidate", todo |-> <<r.user>>, tasks |-> {}]
  <2>2. r.token \in DeviceTokens /\ r.user \in Users /\ r.platform \in DevicePlatforms
    BY <2>1, TokenRequestTypes
  <2>3. next \in Devices!Request
    BY <2>2 DEF Devices!Request
  <2>4. request' \in [Handlers -> {None} \cup Devices!Request]
    BY <1>2, <2>3, TokenGoesOn DEF Devices!RegisterTouch, Devices!Done
  <2>5. device' \in [DeviceTokens -> {None} \cup [user : Users, platform : DevicePlatforms]]
    <3>1. ASSUME device[r.token] # None
          PROVE  [device[r.token] EXCEPT !.platform = r.platform]
                   \in [user : Users, platform : DevicePlatforms]
      BY <3>1, <2>2 DEF Devices!TypeOK
    <3> QED BY <1>2, <2>2, <3>1 DEF Devices!RegisterTouch, Devices!TypeOK
  <2> QED BY <1>2, <2>4, <2>5 DEF Devices!RegisterTouch, Devices!TypeOK, Devices!ghosts
<1>3. ASSUME Devices!RegisterLook(h) PROVE Devices!TypeOK'
  <2>1. request[h] # None /\ request[h].stage = "look"
    BY <1>3 DEF Devices!RegisterLook, Devices!At
  <2> DEFINE r == request[h]
             next == [stage |-> "replace", user |-> r.user, token |-> r.token,
                      platform |-> r.platform, old |-> r.old,
                      seen |-> Devices!SamePlatform(r.user, r.platform) # {}]
  <2>2. next \in Devices!Request
    BY <2>1, TokenRequestTypes DEF Devices!Request
  <2>3. request' \in [Handlers -> {None} \cup Devices!Request]
    BY <1>3, <2>2, TokenGoesOn DEF Devices!RegisterLook
  <2> QED BY <1>3, <2>3 DEF Devices!RegisterLook, Devices!TypeOK, Devices!ghosts
<1>4. ASSUME Devices!RegisterReplace(h) PROVE Devices!TypeOK'
  <2>1. request[h] # None /\ request[h].stage = "replace"
    BY <1>4 DEF Devices!RegisterReplace, Devices!At
  <2> DEFINE r     == request[h]
             own   == IF r.seen THEN Devices!SamePlatform(r.user, r.platform) ELSE {}
             gone  == own \cup (IF r.old = None THEN {} ELSE {r.token})
             fits  == IF r.old = None THEN r.token \in own \/ device[r.token] = None
                                      ELSE device[r.token] # None
             third == {device[t].user : t \in {x \in {r.token} : device[x] # None}}
                        \ {r.old, r.user}
             begun == {[do |-> "check", user |-> r.user, token |-> r.token]}
                          \cup (IF r.old = None THEN {}
                                ELSE {[do |-> "leave", user |-> r.old, token |-> r.token]})
             next  == [stage |-> "invalidate", todo |-> Devices!Owners(r.old, r.user),
                       tasks |-> begun]
  <2>2. /\ r.token \in DeviceTokens /\ r.user \in Users /\ r.platform \in DevicePlatforms
        /\ r.old \in {None} \cup Users
    BY <2>1, TokenRequestTypes
  <2>3. Devices!Owners(r.old, r.user) \in Seq(Users) /\ Devices!Owners(r.old, r.user) # <<>>
    BY <2>2 DEF Devices!Owners
  <2>4. begun \subseteq Devices!Task
    BY <2>2 DEF Devices!Task
  <2>5. next \in Devices!Request
    BY <2>3, <2>4 DEF Devices!Request
  <2>6. \/ ~fits /\ request' = [request EXCEPT ![h] = None] /\ UNCHANGED <<device, left, stray>>
        \/ /\ device' = [t \in DeviceTokens |->
                    CASE t = r.token -> [user |-> r.user, platform |-> r.platform]
                      [] t \in gone \ {r.token} -> None
                      [] OTHER -> device[t]]
           /\ request' = Devices!Outdated([request EXCEPT ![h] = next], third)
           /\ stray' = stray \cup third
           /\ left' = left \cup (gone \ {r.token})
    BY <1>4 DEF Devices!RegisterReplace, Devices!Done
  <2>7. [request EXCEPT ![h] = next] \in [Handlers -> {None} \cup Devices!Request]
    BY <2>5, TokenGoesOn
  <2>8. request' \in [Handlers -> {None} \cup Devices!Request]
    <3>1. Devices!Outdated([request EXCEPT ![h] = next], third)
            \in [Handlers -> {None} \cup Devices!Request]
      <4> HIDE DEF third, next
      <4> QED BY <2>7, OutdatedFills
    <3>2. [request EXCEPT ![h] = None] \in [Handlers -> {None} \cup Devices!Request]
      BY TokenGoesOn
    <3> QED BY <2>6, <3>1, <3>2
  <2>9. third \subseteq Users /\ gone \subseteq DeviceTokens
    BY <2>2 DEF Devices!TypeOK, Devices!SamePlatform, Devices!TokensOf
  <2>10. device' \in [DeviceTokens -> {None} \cup [user : Users, platform : DevicePlatforms]]
    BY <2>2, <2>6 DEF Devices!TypeOK
  <2> QED BY <1>4, <2>6, <2>8, <2>9, <2>10 DEF Devices!RegisterReplace, Devices!TypeOK
<1> QED BY <1>1, <1>2, <1>3, <1>4

LEMMA InvalidationTypes ==
  ASSUME Devices!ConstantsAssumption, Devices!TypeOK, NEW h \in Handlers,
         \/ Devices!Invalidate(h) \/ Devices!InvalidateFails(h)
         \/ Devices!DeleteRow(h) \/ \E u \in Users, t \in DeviceTokens : Devices!DeleteRead(h, u, t)
  PROVE  Devices!TypeOK'
<1>1. ASSUME Devices!Invalidate(h) PROVE Devices!TypeOK'
  <2>1. request[h] # None /\ request[h].stage = "invalidate"
    BY <1>1 DEF Devices!Invalidate, Devices!At
  <2> DEFINE r    == request[h]
             u    == Head(r.todo)
             last == Len(r.todo) = 1
             next == IF last THEN None ELSE [r EXCEPT !.todo = Tail(@)]
             new  == IF last THEN r.tasks ELSE {}
  <2>2. r.todo \in Seq(Users) /\ r.todo # <<>> /\ r.tasks \subseteq Devices!Task
    BY <2>1, TokenRequestTypes
  <2>3. u \in Users
    BY <2>2
  <2>4. next \in {None} \cup Devices!Request
    <3>1. CASE last
      BY <3>1
    <3>2. CASE ~last
      <4>1. Tail(r.todo) \in Seq(Users) /\ Tail(r.todo) # <<>>
        <5>1. Len(r.todo) \in Nat /\ Len(r.todo) # 0
          BY <2>2, EmptySeq
        <5>2. Tail(r.todo) \in Seq(Users) /\ Len(Tail(r.todo)) = Len(r.todo) - 1
          BY <2>2, HeadTailProperties
        <5>3. Len(Tail(r.todo)) # 0
          BY <3>2, <5>1, <5>2
        <5> QED BY <5>2, <5>3, EmptySeq
      <4>2. r \in [stage : {"invalidate"}, todo : Seq(Users) \ {<<>>}, tasks : SUBSET Devices!Task]
        BY <2>1, TokenRequestTypes DEF Devices!Request
      <4>3. [r EXCEPT !.todo = Tail(@)] \in Devices!Request
        BY <4>1, <4>2 DEF Devices!Request
      <4> QED BY <3>2, <4>3
    <3> QED BY <3>1, <3>2
  <2>5. request' = Devices!Outdated([request EXCEPT ![h] = next], {u})
    BY <1>1 DEF Devices!Invalidate
  <2>6. request' \in [Handlers -> {None} \cup Devices!Request]
    BY <2>4, <2>5, TokenGoesOn, OutdatedFills
  <2>7. tasks' = tasks \cup new /\ mixed' = mixed \cup Devices!Mixed(new)
    BY <1>1 DEF Devices!Invalidate, Devices!Start
  <2>8. new \subseteq Devices!Task
    BY <2>2
  <2>9. Devices!Mixed(new) \subseteq DeviceTokens
    BY <2>8 DEF Devices!Mixed, Devices!Task
  <2>10. cache' = [cache EXCEPT ![u] = {}] /\ stray' = stray \ {u}
    BY <1>1 DEF Devices!Invalidate
  <2>11. cache' \in [Users -> SUBSET (DeviceTokens \cup {Blank})]
    BY <2>10 DEF Devices!TypeOK
  <2> QED BY <1>1, <2>6, <2>7, <2>8, <2>9, <2>10, <2>11 DEF Devices!Invalidate, Devices!TypeOK
<1>2. ASSUME Devices!InvalidateFails(h) PROVE Devices!TypeOK'
  <2>1. request[h] # None /\ request[h].stage = "invalidate"
    BY <1>2 DEF Devices!InvalidateFails, Devices!At
  <2> DEFINE us == Devices!ToSet(request[h].todo)
  <2>2. /\ request[h].todo \in Seq(Users) /\ request[h].tasks \subseteq Devices!Task
    BY <2>1, TokenRequestTypes
  <2>3. us \subseteq Users
    BY <2>2 DEF Devices!ToSet
  <2>4. request' = Devices!Outdated([request EXCEPT ![h] = None], us)
    BY <1>2 DEF Devices!InvalidateFails
  <2>5. request' \in [Handlers -> {None} \cup Devices!Request]
    BY <2>4, TokenGoesOn, OutdatedFills
  <2>6. {k.token : k \in request[h].tasks} \subseteq DeviceTokens
    BY <2>2 DEF Devices!Task
  <2>7. /\ stray' = stray \cup us /\ mixed' = mixed \cup {k.token : k \in request[h].tasks}
        /\ faults' \in 0..TokenFaults
    BY <1>2 DEF Devices!InvalidateFails, Devices!NewFault, Devices!TypeOK,
       Devices!ConstantsAssumption
  <2> QED BY <1>2, <2>3, <2>5, <2>6, <2>7 DEF Devices!InvalidateFails, Devices!TypeOK
<1>3. ASSUME Devices!DeleteRow(h) PROVE Devices!TypeOK'
  <2>1. request[h] # None /\ request[h].stage = "delete"
    BY <1>3 DEF Devices!DeleteRow, Devices!At
  <2> DEFINE u == request[h].user
             t == request[h].token
             others == {device[t].user} \ {u}
             next == [stage |-> "invalidate", todo |-> <<u>>, tasks |-> {}]
  <2>2. u \in Users /\ t \in DeviceTokens
    BY <2>1, TokenRequestTypes
  <2>3. next \in Devices!Request
    BY <2>2 DEF Devices!Request
  <2>4. CASE device[t] = None
    <3>1. request' = [request EXCEPT ![h] = None] /\ UNCHANGED <<device, stray, left>>
      BY <1>3, <2>4 DEF Devices!DeleteRow, Devices!Done
    <3>2. request' \in [Handlers -> {None} \cup Devices!Request]
      BY <3>1, TokenGoesOn
    <3> QED BY <1>3, <3>1, <3>2 DEF Devices!DeleteRow, Devices!TypeOK
  <2>5. CASE device[t] # None
    <3>1. /\ device' = [device EXCEPT ![t] = None]
          /\ request' = Devices!Outdated([request EXCEPT ![h] = next], others)
          /\ stray' = stray \cup others
          /\ left' = left \cup ({t} \cap (topic \cup {k.token : k \in tasks}))
      BY <1>3, <2>5 DEF Devices!DeleteRow
    <3>2. request' \in [Handlers -> {None} \cup Devices!Request]
      <4> HIDE DEF others, next
      <4> QED BY <2>3, <3>1, TokenGoesOn, OutdatedFills
    <3>3. others \subseteq Users
      BY <2>2, <2>5 DEF Devices!TypeOK
    <3>4. device' \in [DeviceTokens -> {None} \cup [user : Users, platform : DevicePlatforms]]
      BY <3>1 DEF Devices!TypeOK
    <3> QED BY <1>3, <2>2, <3>1, <3>2, <3>3, <3>4 DEF Devices!DeleteRow, Devices!TypeOK
  <2> QED BY <2>4, <2>5
<1>4. ASSUME NEW u \in Users, NEW t \in DeviceTokens, Devices!DeleteRead(h, u, t)
      PROVE  Devices!TypeOK'
  <2> DEFINE leave == {[do |-> "leave", user |-> u, token |-> t]}
             next  == [stage |-> "delete", user |-> u, token |-> t]
  <2>1. next \in Devices!Request
    BY DEF Devices!Request
  <2>2. request' = [request EXCEPT ![h] = next]
    BY <1>4 DEF Devices!DeleteRead
  <2>3. request' \in [Handlers -> {None} \cup Devices!Request]
    BY <2>1, <2>2, TokenGoesOn
  <2>4. leave \subseteq Devices!Task
    BY DEF Devices!Task
  <2>5. Devices!Mixed(leave) \subseteq DeviceTokens
    BY <2>4 DEF Devices!Mixed, Devices!Task
  <2>6. tasks' = tasks \cup leave /\ mixed' = mixed \cup Devices!Mixed(leave)
    BY <1>4 DEF Devices!DeleteRead, Devices!Start
  <2>7. tasks' \subseteq Devices!Task /\ mixed' \subseteq DeviceTokens
    BY <2>4, <2>5, <2>6 DEF Devices!TypeOK
  <2>8. requests' \in 0..TokenRequests
    BY <1>4 DEF Devices!DeleteRead, Devices!NewRequest, Devices!TypeOK, Devices!ConstantsAssumption
  <2> QED BY <1>4, <2>3, <2>7, <2>8 DEF Devices!DeleteRead, Devices!TypeOK
<1> QED BY <1>1, <1>2, <1>3, <1>4

LEMMA PushTypes ==
  ASSUME Devices!ConstantsAssumption, Devices!TypeOK, NEW h \in Handlers,
         \/ \E u \in Users : Devices!Look(h, u)
         \/ Devices!Hit(h) \/ Devices!Miss(h) \/ Devices!Store(h)
         \/ \E refused \in SUBSET DeviceTokens : Devices!Push(h, refused)
  PROVE  Devices!TypeOK'
<1>1. ASSUME NEW u \in Users, Devices!Look(h, u) PROVE Devices!TypeOK'
  <2> DEFINE next == [stage |-> IF cache[u] = {} THEN "miss" ELSE "hit", user |-> u]
  <2>1. next \in Devices!Request
    BY DEF Devices!Request
  <2>2. request' \in [Handlers -> {None} \cup Devices!Request]
    BY <1>1, <2>1, TokenGoesOn DEF Devices!Look
  <2> QED BY <1>1, <2>2
      DEF Devices!Look, Devices!NewRequest, Devices!TypeOK, Devices!ConstantsAssumption, Devices!ghosts
<1>2. ASSUME Devices!Hit(h) PROVE Devices!TypeOK'
  <2> DEFINE u == request[h].user
             tokens == IF cache[u] = {Blank} THEN {} ELSE cache[u]
             next == [stage |-> "push", user |-> u, tokens |-> tokens]
  <2>1. request[h] # None /\ request[h].stage = "hit"
    BY <1>2 DEF Devices!Hit, Devices!At
  <2>2. u \in Users
    BY <2>1, TokenRequestTypes
  <2>3. tokens \subseteq DeviceTokens \cup {Blank}
    BY <2>2 DEF Devices!TypeOK
  <2>4. next \in Devices!Request
    BY <2>2, <2>3 DEF Devices!Request
  <2>5. request' \in [Handlers -> {None} \cup Devices!Request]
    BY <1>2, <2>4, TokenGoesOn DEF Devices!Hit
  <2> QED BY <1>2, <2>5 DEF Devices!Hit, Devices!TypeOK, Devices!ghosts
<1>3. ASSUME Devices!Miss(h) PROVE Devices!TypeOK'
  <2> DEFINE u == request[h].user
             next == [stage |-> "store", user |-> u, tokens |-> Devices!TokensOf(u), stale |-> FALSE]
  <2>1. request[h] # None /\ request[h].stage = "miss"
    BY <1>3 DEF Devices!Miss, Devices!At
  <2>2. u \in Users /\ Devices!TokensOf(u) \subseteq DeviceTokens
    BY <2>1, TokenRequestTypes DEF Devices!TokensOf
  <2>3. next \in Devices!Request
    BY <2>2 DEF Devices!Request
  <2>4. request' \in [Handlers -> {None} \cup Devices!Request]
    BY <1>3, <2>3, TokenGoesOn DEF Devices!Miss
  <2> QED BY <1>3, <2>4 DEF Devices!Miss, Devices!TypeOK, Devices!ghosts
<1>4. ASSUME Devices!Store(h) PROVE Devices!TypeOK'
  <2> DEFINE r == request[h]
             next == [stage |-> "push", user |-> r.user, tokens |-> r.tokens]
  <2>1. request[h] # None /\ request[h].stage = "store"
    BY <1>4 DEF Devices!Store, Devices!At
  <2>2. r.user \in Users /\ r.tokens \subseteq DeviceTokens
    BY <2>1, TokenRequestTypes
  <2>3. next \in Devices!Request
    BY <2>2 DEF Devices!Request
  <2>4. request' \in [Handlers -> {None} \cup Devices!Request]
    BY <1>4, <2>3, TokenGoesOn DEF Devices!Store
  <2>5. cache' \in [Users -> SUBSET (DeviceTokens \cup {Blank})]
    BY <1>4, <2>2 DEF Devices!Store, Devices!TypeOK
  <2>6. stray' \subseteq Users
    BY <1>4, <2>2 DEF Devices!Store, Devices!TypeOK
  <2> QED BY <1>4, <2>4, <2>5, <2>6 DEF Devices!Store, Devices!TypeOK
<1>5. ASSUME NEW refused \in SUBSET DeviceTokens, Devices!Push(h, refused) PROVE Devices!TypeOK'
  <2> DEFINE u == request[h].user
             rows == {t \in refused : device[t] # None}
             others == {device[t].user : t \in rows} \ {u}
             next == [stage |-> "invalidate", todo |-> <<u>>, tasks |-> {}]
  <2>1. request[h] # None /\ request[h].stage = "push"
    BY <1>5 DEF Devices!Push, Devices!At
  <2>2. u \in Users
    BY <2>1, TokenRequestTypes
  <2>3. next \in Devices!Request
    BY <2>2 DEF Devices!Request
  <2>4. CASE refused = {}
    <3>1. request' = [request EXCEPT ![h] = None] /\ UNCHANGED <<device, faults, stray, left>>
      BY <1>5, <2>4 DEF Devices!Push, Devices!Done
    <3>2. request' \in [Handlers -> {None} \cup Devices!Request]
      BY <3>1, TokenGoesOn
    <3> QED BY <1>5, <3>1, <3>2 DEF Devices!Push, Devices!TypeOK
  <2>5. CASE refused # {}
    <3>1. /\ device' = [t \in DeviceTokens |-> IF t \in rows THEN None ELSE device[t]]
          /\ request' = Devices!Outdated([request EXCEPT ![h] = next], others)
          /\ stray' = stray \cup others /\ left' = left \cup rows
          /\ Devices!NewFault
      BY <1>5, <2>5 DEF Devices!Push
    <3>2. request' \in [Handlers -> {None} \cup Devices!Request]
      <4> HIDE DEF others, next
      <4> QED BY <2>3, <3>1, TokenGoesOn, OutdatedFills
    <3>3. others \subseteq Users /\ rows \subseteq DeviceTokens
      BY DEF Devices!TypeOK
    <3>4. device' \in [DeviceTokens -> {None} \cup [user : Users, platform : DevicePlatforms]]
      BY <3>1 DEF Devices!TypeOK
    <3>5. stray' \subseteq Users /\ left' \subseteq DeviceTokens
      <4> HIDE DEF others, rows
      <4> QED BY <3>1, <3>3 DEF Devices!TypeOK
    <3>6. faults' \in 0..TokenFaults
      BY <3>1 DEF Devices!NewFault, Devices!TypeOK, Devices!ConstantsAssumption
    <3> QED BY <1>5, <3>2, <3>4, <3>5, <3>6 DEF Devices!Push, Devices!TypeOK
  <2> QED BY <2>4, <2>5
<1> QED BY <1>1, <1>2, <1>3, <1>4, <1>5

LEMMA TopicTypes ==
  ASSUME Devices!ConstantsAssumption, Devices!TypeOK,
         \/ \E h \in Handlers : \/ \E u \in Users, on \in BOOLEAN : Devices!SettingWrite(h, u, on)
                                \/ Devices!SettingTasks(h)
         \/ \E u \in Users : Devices!Expire(u)
         \/ \E k \in tasks : \/ Devices!TaskChecks(k) \/ Devices!TaskJoins(k)
                             \/ Devices!TaskLeaves(k) \/ Devices!TaskFails(k)
  PROVE  Devices!TypeOK'
<1>1. ASSUME NEW h \in Handlers, NEW u \in Users, NEW on \in BOOLEAN, Devices!SettingWrite(h, u, on)
      PROVE  Devices!TypeOK'
  <2> DEFINE next == [stage |-> "setting", user |-> u, on |-> on]
  <2>1. next \in Devices!Request
    BY DEF Devices!Request
  <2>2. request' \in [Handlers -> {None} \cup Devices!Request]
    BY <1>1, <2>1, TokenGoesOn DEF Devices!SettingWrite
  <2> QED BY <1>1, <2>2
      DEF Devices!SettingWrite, Devices!NewRequest, Devices!TypeOK, Devices!ConstantsAssumption,
          Devices!ghosts
<1>2. ASSUME NEW h \in Handlers, Devices!SettingTasks(h) PROVE Devices!TypeOK'
  <2> DEFINE u == request[h].user
             do == IF request[h].on THEN "join" ELSE "leave"
             new == {[do |-> do, user |-> u, token |-> t] : t \in Devices!TokensOf(u)}
  <2>1. request[h] # None /\ request[h].stage = "setting"
    BY <1>2 DEF Devices!SettingTasks, Devices!At
  <2>2. u \in Users /\ Devices!TokensOf(u) \subseteq DeviceTokens
    BY <2>1, TokenRequestTypes DEF Devices!TokensOf
  <2>3. new \subseteq Devices!Task
    BY <2>2 DEF Devices!Task
  <2>4. Devices!Mixed(new) \subseteq DeviceTokens
    BY <2>3 DEF Devices!Mixed, Devices!Task
  <2>5. /\ tasks' = tasks \cup new
        /\ mixed' = mixed \cup Devices!Mixed(new)
             \cup (IF system[u] # request[h].on THEN Devices!TokensOf(u) ELSE {})
        /\ request' = [request EXCEPT ![h] = None]
    BY <1>2 DEF Devices!SettingTasks, Devices!Start, Devices!Done
  <2>6. request' \in [Handlers -> {None} \cup Devices!Request]
    BY <2>5, TokenGoesOn
  <2> QED BY <1>2, <2>2, <2>3, <2>4, <2>5, <2>6 DEF Devices!SettingTasks, Devices!TypeOK
<1>3. ASSUME NEW u \in Users, Devices!Expire(u) PROVE Devices!TypeOK'
  BY <1>3 DEF Devices!Expire, Devices!TypeOK
<1>4. ASSUME NEW k \in tasks, Devices!TaskChecks(k) PROVE Devices!TypeOK'
  <2>1. [k EXCEPT !.do = "join"] \in Devices!Task
    BY DEF Devices!TypeOK, Devices!Task
  <2>2. tasks' \subseteq Devices!Task
    BY <1>4, <2>1 DEF Devices!TaskChecks, Devices!TypeOK
  <2> QED BY <1>4, <2>2 DEF Devices!TaskChecks, Devices!TypeOK, Devices!ghosts
<1>5. ASSUME NEW k \in tasks,
             \/ Devices!TaskJoins(k) \/ Devices!TaskLeaves(k) \/ Devices!TaskFails(k)
      PROVE  Devices!TypeOK'
  <2>1. k.token \in DeviceTokens
    BY DEF Devices!TypeOK, Devices!Task
  <2> QED BY <1>5, <2>1
      DEF Devices!TaskJoins, Devices!TaskLeaves, Devices!TaskFails, Devices!NewFault,
          Devices!TypeOK, Devices!ghosts, Devices!ConstantsAssumption
<1> QED BY <1>1, <1>2, <1>3, <1>4, <1>5

LEMMA TokensTypedStep ==
  ASSUME Devices!ConstantsAssumption, Devices!TypeOK, [Devices!Next]_Devices!vars
  PROVE  Devices!TypeOK'
<1>1. CASE UNCHANGED Devices!vars
  BY <1>1 DEF Devices!vars, Devices!TypeOK
<1>2. CASE Devices!Next
  BY <1>2, RegistrationTypes, InvalidationTypes, PushTypes, TopicTypes DEF Devices!Next
<1> QED BY <1>1, <1>2

LEMMA TokensTypedInit == ASSUME Devices!ConstantsAssumption, Devices!Init PROVE Devices!TypeOK
  BY DEF Devices!ConstantsAssumption, Devices!Init, Devices!TypeOK

\* Every request, task and copy is of its kind, whatever crosses.
THEOREM TokensTypeCorrect ==
  ASSUME Devices!ConstantsAssumption PROVE Devices!Spec => []Devices!TypeOK
<1>1. Devices!Init => Devices!TypeOK
  BY TokensTypedInit
<1>2. Devices!TypeOK /\ [Devices!Next]_Devices!vars => Devices!TypeOK'
  BY TokensTypedStep
<1> QED BY <1>1, <1>2, PTL DEF Devices!Spec

\* A fill that is not marked, of a user, with the tokens it has read.
Fresh(x, u, s) ==
  /\ Devices!At(x, "store") /\ ~request[x].stale
  /\ request[x].user = u /\ request[x].tokens = s

\* What is copied, or is on its way to be, is what the rows are, but for users whose copy is
\* still to be deleted or was not deleted in time.
CopiesRight ==
  \A u \in Users \ (stray \cup Devices!Uninvalidated) :
    cache[u] # {} => cache[u] = IF Devices!TokensOf(u) = {} THEN {Blank} ELSE Devices!TokensOf(u)
FillsRight ==
  \A x \in Handlers, u \in Users \ Devices!Uninvalidated, s \in SUBSET DeviceTokens :
    Fresh(x, u, s) => s = Devices!TokensOf(u)
CopiesFollow == CopiesRight /\ FillsRight

LEMMA Outstanding ==
  /\ \A u : u \in Devices!Uninvalidated <=>
       \E x \in Handlers : Devices!At(x, "invalidate") /\ u \in Devices!ToSet(request[x].todo)
  /\ \A u : u \in Devices!Uninvalidated' <=>
       \E x \in Handlers : Devices!At(x, "invalidate")' /\ u \in Devices!ToSet(request'[x].todo)
BY DEF Devices!Uninvalidated

\* What a step of one request, and of the fills that it makes out of date, leaves to others.
LEMMA OthersStay ==
  ASSUME Devices!ConstantsAssumption, Devices!TypeOK,
         NEW h \in Handlers, NEW r \in {None} \cup Devices!Request, NEW us,
         \/ us = {} /\ request' = [request EXCEPT ![h] = r]
         \/ request' = Devices!Outdated([request EXCEPT ![h] = r], us)
  PROVE  /\ request'[h] # None <=> r # None
         /\ r # None /\ r.stage # "store" => request'[h] = r
         /\ r # None => request'[h].stage = r.stage
         /\ \A x \in Handlers \ {h} : ~Devices!At(x, "store") => request'[x] = request[x]
         /\ \A x \in Handlers \ {h} : Devices!At(x, "store") => Devices!At(x, "store")'
         /\ \A x \in Handlers : \A u, s : Fresh(x, u, s)' =>
              \/ x # h /\ Fresh(x, u, s) /\ u \notin us
              \/ x = h /\ r # None /\ r.stage = "store" /\ r.user = u /\ r.tokens = s
<1>1. [request EXCEPT ![h] = r] \in [Handlers -> {None} \cup Devices!Request]
  BY TokenGoesOn
<1>2. \A x \in Handlers : [request EXCEPT ![h] = r][x] = IF x = h THEN r ELSE request[x]
  BY DEF Devices!TypeOK
<1> DEFINE marked(x) == /\ IF x = h THEN r # None /\ r.stage = "store" /\ r.user \in us
                                    ELSE Devices!At(x, "store") /\ request[x].user \in us
                        /\ request'[x] # None /\ request'[x].stage = "store" /\ request'[x].stale
<1>3. \A x \in Handlers :
        \/ marked(x)
        \/ /\ ~(IF x = h THEN r # None /\ r.stage = "store" /\ r.user \in us
                         ELSE Devices!At(x, "store") /\ request[x].user \in us)
           /\ request'[x] = IF x = h THEN r ELSE request[x]
  <2>1. CASE us = {} /\ request' = [request EXCEPT ![h] = r]
    BY <2>1, <1>2
  <2>2. CASE request' = Devices!Outdated([request EXCEPT ![h] = r], us)
    <3> DEFINE req == [request EXCEPT ![h] = r]
    <3>1. \A x \in Handlers :
            IF req[x] # None /\ req[x].stage = "store" /\ req[x].user \in us
              THEN request'[x] # None /\ request'[x].stage = "store" /\ request'[x].stale
              ELSE request'[x] = req[x]
      <4> HIDE DEF req
      <4> QED BY <1>1, <2>2, OutdatedFills DEF req
    <3> QED BY <3>1, <1>2 DEF Devices!At
  <2> QED BY <2>1, <2>2
<1> QED BY <1>3 DEF Devices!At, Fresh

\* The users whose copy is to be deleted stay so, and those of the new request join them.
LEMMA OutstandingStays ==
  ASSUME Devices!ConstantsAssumption, Devices!TypeOK,
         NEW h \in Handlers, NEW r \in {None} \cup Devices!Request, NEW us,
         \/ us = {} /\ request' = [request EXCEPT ![h] = r]
         \/ request' = Devices!Outdated([request EXCEPT ![h] = r], us)
  PROVE  /\ ~Devices!At(h, "invalidate") => Devices!Uninvalidated \subseteq Devices!Uninvalidated'
         /\ \A x \in Handlers \ {h} : \A u :
              Devices!At(x, "invalidate") /\ u \in Devices!ToSet(request[x].todo)
                => u \in Devices!Uninvalidated'
         /\ r # None /\ r.stage = "invalidate" =>
              Devices!ToSet(r.todo) \subseteq Devices!Uninvalidated'
<1>1. \A x \in Handlers \ {h} : Devices!At(x, "invalidate") =>
        Devices!At(x, "invalidate")' /\ request'[x] = request[x]
  BY OthersStay DEF Devices!At
<1>2. r # None /\ r.stage = "invalidate" => Devices!At(h, "invalidate")' /\ request'[h] = r
  BY OthersStay DEF Devices!At
<1> QED BY <1>1, <1>2, Outstanding

\* The tokens of some users change, whose copies are now to be deleted or are given up.
LEMMA CopiesKept ==
  ASSUME Devices!TypeOK, CopiesFollow, NEW us,
         \A u \in Users \ us : Devices!TokensOf(u)' = Devices!TokensOf(u),
         us \subseteq Devices!Uninvalidated' \cup stray',
         cache' = cache, stray \subseteq stray',
         Devices!Uninvalidated \subseteq Devices!Uninvalidated',
         \A x \in Handlers, u \in Users, s \in SUBSET DeviceTokens : Fresh(x, u, s)' =>
           \/ Fresh(x, u, s) /\ u \notin us
           \/ s = Devices!TokensOf(u)' \/ u \in Devices!Uninvalidated'
  PROVE  CopiesFollow'
BY DEF CopiesFollow, CopiesRight, FillsRight

\* A step of one request that changes no tokens of a user.
LEMMA CopiesAlone ==
  ASSUME Devices!ConstantsAssumption, Devices!TypeOK, CopiesFollow,
         NEW h \in Handlers, NEW r \in {None} \cup Devices!Request,
         request' = [request EXCEPT ![h] = r], ~Devices!At(h, "invalidate"),
         \A u \in Users : r # None /\ r.stage = "store" /\ r.user = u => r.tokens = Devices!TokensOf(u),
         \A u \in Users : Devices!TokensOf(u)' = Devices!TokensOf(u),
         cache' = cache, stray' = stray
  PROVE  CopiesFollow'
<1>1. Devices!Uninvalidated \subseteq Devices!Uninvalidated'
  BY OutstandingStays
<1>2. \A x \in Handlers, u \in Users, s \in SUBSET DeviceTokens : Fresh(x, u, s)' =>
        Fresh(x, u, s) \/ s = Devices!TokensOf(u)'
  <2>1. \A x \in Handlers : \A u, s : Fresh(x, u, s)' =>
          \/ Fresh(x, u, s)
          \/ x = h /\ r # None /\ r.stage = "store" /\ r.user = u /\ r.tokens = s
    BY DEF Fresh, Devices!At, Devices!TypeOK
  <2> QED BY <2>1
<1> QED BY <1>1, <1>2, CopiesKept

LEMMA CopiesQuietStep ==
  ASSUME Devices!ConstantsAssumption, Devices!TypeOK, CopiesFollow, NEW h \in Handlers,
         \/ \E u \in Users, t \in DeviceTokens, p \in DevicePlatforms : Devices!RegisterRead(h, u, t, p)
         \/ Devices!RegisterTouch(h) \/ Devices!RegisterLook(h)
         \/ \E u \in Users, t \in DeviceTokens : Devices!DeleteRead(h, u, t)
         \/ \E u \in Users : Devices!Look(h, u) \/ \E on \in BOOLEAN : Devices!SettingWrite(h, u, on)
         \/ Devices!Hit(h) \/ Devices!Miss(h) \/ Devices!SettingTasks(h)
  PROVE  CopiesFollow'
<1> DEFINE r == request'[h]
<1>1. request' \in [Handlers -> {None} \cup Devices!Request]
  BY RegistrationTypes, InvalidationTypes, PushTypes, TopicTypes DEF Devices!TypeOK
<1>2. /\ ~Devices!At(h, "invalidate") /\ cache' = cache /\ stray' = stray
      /\ \E q : request' = [request EXCEPT ![h] = q]
      /\ \A t \in DeviceTokens : (device'[t] = None <=> device[t] = None)
                                 /\ (device[t] # None => device'[t].user = device[t].user)
  <2>1. CASE Devices!RegisterTouch(h)
    <3> DEFINE q == request[h]
    <3>1. q.token \in DeviceTokens
      BY <2>1, TokenRequestTypes DEF Devices!RegisterTouch, Devices!At
    <3>2. ASSUME device[q.token] # None
          PROVE  /\ [device[q.token] EXCEPT !.platform = q.platform] # None
                 /\ [device[q.token] EXCEPT !.platform = q.platform].user = device[q.token].user
      <4>1. device[q.token] \in [user : Users, platform : DevicePlatforms]
        BY <3>1, <3>2 DEF Devices!TypeOK
      <4>2. q.platform \in DevicePlatforms
        BY <2>1, TokenRequestTypes DEF Devices!RegisterTouch, Devices!At
      <4> QED BY <4>1, <4>2 DEF Devices!ConstantsAssumption
    <3>3. \A t \in DeviceTokens : (device'[t] = None <=> device[t] = None)
                                 /\ (device[t] # None => device'[t].user = device[t].user)
      BY <2>1, <3>1, <3>2 DEF Devices!RegisterTouch, Devices!TypeOK
    <3> QED BY <2>1, <3>3 DEF Devices!RegisterTouch, Devices!At, Devices!Done, Devices!ghosts
  <2>2. CASE ~Devices!RegisterTouch(h)
    <3>1. /\ cache' = cache /\ stray' = stray /\ device' = device
          /\ \E q : request' = [request EXCEPT ![h] = q]
      BY <2>2 DEF Devices!RegisterRead, Devices!RegisterLook, Devices!DeleteRead, Devices!Look,
         Devices!SettingWrite, Devices!Hit, Devices!Miss, Devices!SettingTasks, Devices!Done,
         Devices!ghosts
    <3>2. ~Devices!At(h, "invalidate")
      BY <2>2 DEF Devices!RegisterRead, Devices!RegisterLook, Devices!DeleteRead, Devices!Look,
         Devices!SettingWrite, Devices!Hit, Devices!Miss, Devices!SettingTasks, Devices!At
    <3> QED BY <3>1, <3>2
  <2> QED BY <2>1, <2>2
<1>3. request' = [request EXCEPT ![h] = r] /\ r \in {None} \cup Devices!Request
  BY <1>1, <1>2 DEF Devices!TypeOK
<1>4. \A u \in Users : Devices!TokensOf(u)' = Devices!TokensOf(u)
  BY <1>2 DEF Devices!TokensOf
<1>5. \A u \in Users : r # None /\ r.stage = "store" /\ r.user = u => r.tokens = Devices!TokensOf(u)
  <2>1. CASE Devices!Miss(h)
    BY <2>1, <1>1 DEF Devices!Miss, Devices!TypeOK
  <2>2. CASE ~Devices!Miss(h)
    <3>1. \/ r = None
          \/ r.stage \in {"touch", "look", "replace", "invalidate", "delete", "miss", "hit",
                          "setting", "push"}
      <4>1. request \in [Handlers -> {None} \cup Devices!Request]
        BY DEF Devices!TypeOK
      <4>2. ASSUME NEW u \in Users, NEW t \in DeviceTokens,
                   \/ \E p \in DevicePlatforms : Devices!RegisterRead(h, u, t, p)
                   \/ Devices!DeleteRead(h, u, t)
            PROVE  r.stage \in {"touch", "look", "delete"}
        BY <4>1, <4>2 DEF Devices!RegisterRead, Devices!DeleteRead
      <4>3. ASSUME Devices!RegisterTouch(h) \/ Devices!SettingTasks(h)
            PROVE  r = None \/ r.stage = "invalidate"
        BY <4>1, <4>3 DEF Devices!RegisterTouch, Devices!SettingTasks, Devices!Done
      <4>4. ASSUME Devices!RegisterLook(h) \/ Devices!Hit(h) PROVE r.stage \in {"replace", "push"}
        BY <4>1, <4>4 DEF Devices!RegisterLook, Devices!Hit
      <4>5. ASSUME NEW u \in Users,
                   Devices!Look(h, u) \/ \E on \in BOOLEAN : Devices!SettingWrite(h, u, on)
            PROVE  r.stage \in {"miss", "hit", "setting"}
        BY <4>1, <4>5 DEF Devices!Look, Devices!SettingWrite
      <4> HIDE DEF r
      <4> QED BY <2>2, <4>2, <4>3, <4>4, <4>5
    <3> QED BY <3>1
  <2> QED BY <2>1, <2>2
<1>6. PICK q \in {None} \cup Devices!Request : q = r
  BY <1>3
<1>7. /\ request' = [request EXCEPT ![h] = q]
      /\ \A u \in Users : q # None /\ q.stage = "store" /\ q.user = u => q.tokens = Devices!TokensOf(u)
  BY <1>3, <1>5, <1>6
<1> HIDE DEF r
<1> QED BY <1>2, <1>4, <1>7, CopiesAlone

\* A step that changes the tokens of some users: one of them the request is to delete the
\* copies of, the copies of the others are given up.
LEMMA CopiesGivenUp ==
  ASSUME Devices!ConstantsAssumption, Devices!TypeOK, CopiesFollow,
         NEW h \in Handlers, NEW r \in Devices!Request, NEW us,
         request' = Devices!Outdated([request EXCEPT ![h] = r], us),
         ~Devices!At(h, "invalidate"), r.stage = "invalidate",
         \A u \in Users : \/ Devices!TokensOf(u)' = Devices!TokensOf(u)
                          \/ u \in us \/ u \in Devices!ToSet(r.todo),
         cache' = cache, stray' = stray \cup us
  PROVE  CopiesFollow'
<1> DEFINE changed == us \cup Devices!ToSet(r.todo)
<1>1. r # None
  BY DEF Devices!ConstantsAssumption
<1>2. /\ Devices!Uninvalidated \subseteq Devices!Uninvalidated'
      /\ Devices!ToSet(r.todo) \subseteq Devices!Uninvalidated'
  BY <1>1, OutstandingStays
<1>3. \A x \in Handlers : \A u, s : Fresh(x, u, s)' => Fresh(x, u, s) /\ u \notin us
  BY <1>1, OthersStay
<1>4. \A x \in Handlers, u \in Users, s \in SUBSET DeviceTokens : Fresh(x, u, s)' =>
        \/ Fresh(x, u, s) /\ u \notin changed
        \/ s = Devices!TokensOf(u)' \/ u \in Devices!Uninvalidated'
  BY <1>2, <1>3
<1>5. \A u \in Users \ changed : Devices!TokensOf(u)' = Devices!TokensOf(u)
  OBVIOUS
<1>6. changed \subseteq Devices!Uninvalidated' \cup stray'
  BY <1>2
<1> HIDE DEF changed
<1> QED BY <1>2, <1>4, <1>5, <1>6, CopiesKept

LEMMA CopiesRegisterStep ==
  ASSUME Devices!ConstantsAssumption, Devices!TypeOK, CopiesFollow, NEW h \in Handlers,
         Devices!RegisterReplace(h)
  PROVE  CopiesFollow'
<1>1. request[h] # None /\ request[h].stage = "replace"
  BY DEF Devices!RegisterReplace, Devices!At
<1> DEFINE r     == request[h]
           own   == IF r.seen THEN Devices!SamePlatform(r.user, r.platform) ELSE {}
           gone  == own \cup (IF r.old = None THEN {} ELSE {r.token})
           fits  == IF r.old = None THEN r.token \in own \/ device[r.token] = None
                                    ELSE device[r.token] # None
           third == {device[t].user : t \in {x \in {r.token} : device[x] # None}}
                      \ {r.old, r.user}
           begun == {[do |-> "check", user |-> r.user, token |-> r.token]}
                        \cup (IF r.old = None THEN {}
                              ELSE {[do |-> "leave", user |-> r.old, token |-> r.token]})
           next  == [stage |-> "invalidate", todo |-> Devices!Owners(r.old, r.user),
                     tasks |-> begun]
<1>2. /\ r.token \in DeviceTokens /\ r.user \in Users /\ r.platform \in DevicePlatforms
      /\ r.old \in {None} \cup Users
  BY <1>1, TokenRequestTypes
<1>3. CASE ~fits
  <2>1. request' = [request EXCEPT ![h] = None] /\ UNCHANGED <<device, cache, stray>>
    BY <1>3 DEF Devices!RegisterReplace, Devices!Done
  <2>2. ~Devices!At(h, "invalidate")
    BY <1>1 DEF Devices!At
  <2>3. \A u \in Users : Devices!TokensOf(u)' = Devices!TokensOf(u)
    BY <2>1 DEF Devices!TokensOf
  <2> QED BY <2>1, <2>2, <2>3, CopiesAlone
<1>4. CASE fits
  <2>1. /\ device' = [t \in DeviceTokens |->
                  CASE t = r.token -> [user |-> r.user, platform |-> r.platform]
                    [] t \in gone \ {r.token} -> None
                    [] OTHER -> device[t]]
        /\ request' = Devices!Outdated([request EXCEPT ![h] = next], third)
        /\ stray' = stray \cup third /\ cache' = cache
    BY <1>4 DEF Devices!RegisterReplace
  <2>2. Devices!Owners(r.old, r.user) \in Seq(Users) /\ Devices!Owners(r.old, r.user) # <<>>
    BY <1>2 DEF Devices!Owners
  <2>3. next \in Devices!Request
    BY <1>2, <2>2 DEF Devices!Request, Devices!Task
  <2>4. r.user \in Devices!ToSet(next.todo) /\ (r.old # None => r.old \in Devices!ToSet(next.todo))
    BY DEF Devices!Owners, Devices!ToSet
  <2>5. [user |-> r.user, platform |-> r.platform] # None
    BY <1>2 DEF Devices!ConstantsAssumption
  <2>6. \A t \in DeviceTokens \ {r.token} :
          device'[t] = device[t] \/ (device'[t] = None /\ device[t] # None /\ device[t].user = r.user)
    BY <1>2, <2>1 DEF Devices!SamePlatform, Devices!TokensOf
  <2>7. device'[r.token].user = r.user
    BY <1>2, <2>1
  <2>8. ASSUME NEW u \in Users, u \notin third, u # r.user, u # r.old
        PROVE  Devices!TokensOf(u)' = Devices!TokensOf(u)
    <3>1. \A t \in DeviceTokens \ {r.token} :
            (device'[t] # None /\ device'[t].user = u <=> device[t] # None /\ device[t].user = u)
      BY <2>6, <2>8
    <3>2. ~(device[r.token] # None /\ device[r.token].user = u)
      BY <2>8
    <3>3. ~(device'[r.token] # None /\ device'[r.token].user = u)
      BY <2>7, <2>8
    <3> QED BY <3>1, <3>2, <3>3 DEF Devices!TokensOf
  <2>9. \A u \in Users : \/ Devices!TokensOf(u)' = Devices!TokensOf(u)
                         \/ u \in third \/ u \in Devices!ToSet(next.todo)
    <3>1. None \notin Users
      BY DEF Devices!ConstantsAssumption
    <3> HIDE DEF third, next
    <3> QED BY <2>4, <2>8, <3>1
  <2>10. ~Devices!At(h, "invalidate") /\ next.stage = "invalidate"
    BY <1>1 DEF Devices!At
  <2> HIDE DEF next, third
  <2> QED BY <2>1, <2>3, <2>9, <2>10, CopiesGivenUp
<1> QED BY <1>3, <1>4

LEMMA CopiesRemoveStep ==
  ASSUME Devices!ConstantsAssumption, Devices!TypeOK, CopiesFollow, NEW h \in Handlers,
         \/ Devices!DeleteRow(h)
         \/ \E refused \in SUBSET DeviceTokens : Devices!Push(h, refused)
  PROVE  CopiesFollow'
<1> DEFINE u == request[h].user
           next == [stage |-> "invalidate", todo |-> <<u>>, tasks |-> {}]
<1>1. request[h] # None /\ request[h].stage \in {"delete", "push"}
  BY DEF Devices!DeleteRow, Devices!Push, Devices!At
<1>2. u \in Users /\ (request[h].stage = "delete" => request[h].token \in DeviceTokens)
  BY <1>1, TokenRequestTypes
<1>3. ~Devices!At(h, "invalidate")
  BY <1>1 DEF Devices!At
<1>4. next \in Devices!Request /\ next.stage = "invalidate" /\ u \in Devices!ToSet(next.todo)
  BY <1>2 DEF Devices!Request, Devices!ToSet
<1>5. ASSUME request' = [request EXCEPT ![h] = None], UNCHANGED <<device, stray, cache>>
      PROVE  CopiesFollow'
  <2>1. \A v \in Users : Devices!TokensOf(v)' = Devices!TokensOf(v)
    BY <1>5 DEF Devices!TokensOf
  <2> QED BY <1>3, <1>5, <2>1, CopiesAlone
<1>6. ASSUME NEW rows \in SUBSET DeviceTokens, NEW others,
             \A t \in rows : device[t] # None /\ device[t].user \in others \cup {u},
             \A t \in DeviceTokens : device'[t] = IF t \in rows THEN None ELSE device[t],
             request' = Devices!Outdated([request EXCEPT ![h] = next], others),
             stray' = stray \cup others, cache' = cache
      PROVE  CopiesFollow'
  <2>1. \A v \in Users : v \notin others /\ v # u => Devices!TokensOf(v)' = Devices!TokensOf(v)
    BY <1>6 DEF Devices!TokensOf
  <2>2. \A v \in Users : \/ Devices!TokensOf(v)' = Devices!TokensOf(v)
                         \/ v \in others \/ v \in Devices!ToSet(next.todo)
    BY <1>4, <2>1
  <2> HIDE DEF next
  <2> QED BY <1>3, <1>4, <1>6, <2>2, CopiesGivenUp
<1>7. CASE Devices!DeleteRow(h)
  <2> DEFINE t == request[h].token
             others == {device[t].user} \ {u}
  <2>1. t \in DeviceTokens
    BY <1>2, <1>7 DEF Devices!DeleteRow, Devices!At
  <2>2. CASE device[t] = None
    BY <1>5, <1>7, <2>2 DEF Devices!DeleteRow, Devices!Done
  <2>3. CASE device[t] # None
    <3>1. /\ device' = [device EXCEPT ![t] = None]
          /\ request' = Devices!Outdated([request EXCEPT ![h] = next], others)
          /\ stray' = stray \cup others /\ cache' = cache
      BY <1>7, <2>3 DEF Devices!DeleteRow
    <3>2. \A x \in DeviceTokens : device'[x] = IF x \in {t} THEN None ELSE device[x]
      BY <3>1 DEF Devices!TypeOK
    <3>3. \A x \in {t} : device[x] # None /\ device[x].user \in others \cup {u}
      BY <2>3
    <3>4. {t} \in SUBSET DeviceTokens
      BY <2>1
    <3> HIDE DEF others, next, t, u
    <3> QED BY <1>6, <3>1, <3>2, <3>3, <3>4
  <2> QED BY <2>2, <2>3
<1>8. ASSUME NEW refused \in SUBSET DeviceTokens, Devices!Push(h, refused) PROVE CopiesFollow'
  <2> DEFINE rows == {t \in refused : device[t] # None}
             others == {device[t].user : t \in rows} \ {u}
  <2>1. CASE refused = {}
    BY <1>5, <1>8, <2>1 DEF Devices!Push, Devices!Done
  <2>2. CASE refused # {}
    <3>1. /\ device' = [t \in DeviceTokens |-> IF t \in rows THEN None ELSE device[t]]
          /\ request' = Devices!Outdated([request EXCEPT ![h] = next], others)
          /\ stray' = stray \cup others /\ cache' = cache
      BY <1>8, <2>2 DEF Devices!Push
    <3>2. \A t \in rows : device[t] # None /\ device[t].user \in others \cup {u}
      OBVIOUS
    <3>3. \A t \in DeviceTokens : device'[t] = IF t \in rows THEN None ELSE device[t]
      BY <3>1
    <3>4. rows \in SUBSET DeviceTokens
      OBVIOUS
    <3> HIDE DEF others, rows, next, u
    <3> QED BY <1>6, <3>1, <3>2, <3>3, <3>4
  <2> QED BY <2>1, <2>2
<1> QED BY <1>7, <1>8

LEMMA CopiesInvalidateStep ==
  ASSUME Devices!ConstantsAssumption, Devices!TypeOK, CopiesFollow, NEW h \in Handlers,
         Devices!Invalidate(h) \/ Devices!InvalidateFails(h)
  PROVE  CopiesFollow'
<1>1. request[h] # None /\ request[h].stage = "invalidate"
  BY DEF Devices!Invalidate, Devices!InvalidateFails, Devices!At
<1>2. request[h].todo \in Seq(Users) /\ request[h].todo # <<>>
  BY <1>1, TokenRequestTypes
<1>3. \A v \in Users : Devices!TokensOf(v)' = Devices!TokensOf(v)
  BY DEF Devices!Invalidate, Devices!InvalidateFails, Devices!TokensOf
<1>4. ASSUME NEW us, NEW r \in {None} \cup Devices!Request,
             request' = Devices!Outdated([request EXCEPT ![h] = r], us),
             r = None \/ r.stage = "invalidate",
             Devices!ToSet(request[h].todo) \subseteq us \cup Devices!Uninvalidated'
      PROVE  /\ Devices!Uninvalidated \subseteq us \cup Devices!Uninvalidated'
             /\ \A x \in Handlers : \A u, s : Fresh(x, u, s)' => Fresh(x, u, s) /\ u \notin us
  <2>1. \A x \in Handlers \ {h} : \A u :
          Devices!At(x, "invalidate") /\ u \in Devices!ToSet(request[x].todo)
            => u \in Devices!Uninvalidated'
    BY <1>4, OutstandingStays
  <2>2. Devices!Uninvalidated \subseteq us \cup Devices!Uninvalidated'
    BY <1>4, <2>1, Outstanding
  <2>3. \A x \in Handlers : \A u, s : Fresh(x, u, s)' => Fresh(x, u, s) /\ u \notin us
    BY <1>4, OthersStay
  <2> QED BY <2>2, <2>3
<1>5. CASE Devices!Invalidate(h)
  <2> DEFINE q == request[h]
             v == Head(q.todo)
             last == Len(q.todo) = 1
             next == IF last THEN None ELSE [q EXCEPT !.todo = Tail(@)]
             us == {v}
  <2>1. /\ request' = Devices!Outdated([request EXCEPT ![h] = next], us)
        /\ cache' = [cache EXCEPT ![v] = {}] /\ stray' = stray \ us
    BY <1>5 DEF Devices!Invalidate
  <2>2. q \in [stage : {"invalidate"}, todo : Seq(Users) \ {<<>>}, tasks : SUBSET Devices!Task]
    BY <1>1, TokenRequestTypes DEF Devices!Request
  <2>3. Len(q.todo) \in Nat \ {0} /\ DOMAIN q.todo = 1..Len(q.todo) /\ v = q.todo[1] /\ v \in Users
    <3>1. Len(q.todo) \in Nat /\ Len(q.todo) # 0
      BY <1>2, EmptySeq
    <3> QED BY <1>2, <3>1
  <2>4. ASSUME ~last
        PROVE  /\ Tail(q.todo) \in Seq(Users) /\ Tail(q.todo) # <<>>
               /\ Devices!ToSet(q.todo) \subseteq {v} \cup Devices!ToSet(Tail(q.todo))
    <3>1. /\ Tail(q.todo) \in Seq(Users) /\ Len(Tail(q.todo)) = Len(q.todo) - 1
          /\ \A i \in 1..Len(Tail(q.todo)) : Tail(q.todo)[i] = q.todo[i + 1]
      BY <1>2, HeadTailProperties
    <3>2. Tail(q.todo) # <<>>
      <4>1. Len(Tail(q.todo)) # 0
        BY <2>3, <2>4, <3>1
      <4> QED BY <3>1, <4>1, EmptySeq
    <3>3. ASSUME NEW i \in 1..Len(q.todo) PROVE q.todo[i] \in {v} \cup Devices!ToSet(Tail(q.todo))
      <4>1. CASE i = 1
        BY <2>3, <4>1
      <4>2. CASE i # 1
        <5>1. i - 1 \in 1..Len(Tail(q.todo)) /\ i = (i - 1) + 1
          BY <2>3, <3>1, <4>2
        <5>2. Tail(q.todo)[i - 1] = q.todo[i] /\ i - 1 \in DOMAIN Tail(q.todo)
          BY <3>1, <5>1
        <5> QED BY <5>2 DEF Devices!ToSet
      <4> QED BY <4>1, <4>2
    <3> QED BY <2>3, <3>1, <3>2, <3>3 DEF Devices!ToSet
  <2>5. /\ next \in {None} \cup Devices!Request /\ (next = None \/ next.stage = "invalidate")
        /\ ~last => next \in Devices!Request
    <3>1. ASSUME ~last PROVE [q EXCEPT !.todo = Tail(@)] \in Devices!Request
                              /\ [q EXCEPT !.todo = Tail(@)].stage = "invalidate"
      BY <2>2, <2>4, <3>1 DEF Devices!Request
    <3> QED BY <3>1
  <2>6. Devices!ToSet(q.todo) \subseteq us \cup Devices!Uninvalidated'
    <3>1. CASE last
      BY <2>3, <3>1 DEF Devices!ToSet
    <3>2. CASE ~last
      <4>1. next # None /\ next.todo = Tail(q.todo)
        <5>1. next = [q EXCEPT !.todo = Tail(@)]
          BY <3>2
        <5>2. next # None
          BY <2>5, <3>2, <5>1 DEF Devices!ConstantsAssumption
        <5> QED BY <2>2, <5>1, <5>2
      <4>2. Devices!ToSet(next.todo) \subseteq Devices!Uninvalidated'
        <5> HIDE DEF next, us
        <5> QED BY <2>1, <2>5, <4>1, OutstandingStays
      <4>3. Devices!ToSet(q.todo) \subseteq {v} \cup Devices!ToSet(next.todo)
        BY <2>4, <3>2, <4>1
      <4> QED BY <4>2, <4>3
    <3> QED BY <3>1, <3>2
  <2>7. /\ Devices!Uninvalidated \subseteq us \cup Devices!Uninvalidated'
        /\ \A x \in Handlers : \A u, s : Fresh(x, u, s)' => Fresh(x, u, s) /\ u \notin us
    <3> HIDE DEF next, us
    <3> QED BY <1>4, <2>1, <2>5, <2>6
  <2>8. \A u \in Users : cache'[u] = IF u \in us THEN {} ELSE cache[u]
    BY <2>1, <2>3 DEF Devices!TypeOK
  <2> HIDE DEF us, next
  <2>9. \A u \in Users \ (stray' \cup Devices!Uninvalidated') :
          u \in us \/ u \notin stray \cup Devices!Uninvalidated
    BY <2>1, <2>7
  <2>10. CopiesRight'
    BY <1>3, <2>7, <2>8, <2>9 DEF CopiesFollow, CopiesRight
  <2>11. FillsRight'
    BY <1>3, <2>7, <2>8, <2>9 DEF CopiesFollow, FillsRight
  <2> QED BY <2>10, <2>11 DEF CopiesFollow
<1>6. CASE Devices!InvalidateFails(h)
  <2> DEFINE us == Devices!ToSet(request[h].todo)
  <2>1. /\ request' = Devices!Outdated([request EXCEPT ![h] = None], us)
        /\ cache' = cache /\ stray' = stray \cup us
    BY <1>6 DEF Devices!InvalidateFails
  <2>2. /\ Devices!Uninvalidated \subseteq us \cup Devices!Uninvalidated'
        /\ \A x \in Handlers : \A u, s : Fresh(x, u, s)' => Fresh(x, u, s) /\ u \notin us
    <3>1. us \subseteq us \cup Devices!Uninvalidated'
      OBVIOUS
    <3> QED BY <1>4, <2>1, <3>1
  <2> HIDE DEF us
  <2>3. CopiesRight'
    BY <1>3, <2>1, <2>2 DEF CopiesFollow, CopiesRight
  <2>4. FillsRight'
    BY <1>3, <2>1, <2>2 DEF CopiesFollow, FillsRight
  <2> QED BY <2>3, <2>4 DEF CopiesFollow
<1> QED BY <1>5, <1>6

LEMMA CopiesStoreStep ==
  ASSUME Devices!ConstantsAssumption, Devices!TypeOK, CopiesFollow, NEW h \in Handlers,
         Devices!Store(h)
  PROVE  CopiesFollow'
<1> DEFINE r == request[h]
           next == [stage |-> "push", user |-> r.user, tokens |-> r.tokens]
<1>1. request[h] # None /\ request[h].stage = "store"
  BY DEF Devices!Store, Devices!At
<1>2. r.user \in Users /\ r.tokens \subseteq DeviceTokens /\ r.stale \in BOOLEAN
  BY <1>1, TokenRequestTypes
<1>3. next \in Devices!Request
  BY <1>2 DEF Devices!Request
<1>4. /\ request' = [request EXCEPT ![h] = next]
      /\ cache' = [cache EXCEPT ![r.user] = IF r.tokens = {} THEN {Blank} ELSE @ \cup r.tokens]
      /\ stray' = IF r.stale THEN stray \cup {r.user} ELSE stray
  BY DEF Devices!Store
<1>5. \A x \in Handlers : \A u, s : Fresh(x, u, s)' => Fresh(x, u, s)
  BY <1>4 DEF Fresh, Devices!At, Devices!TypeOK
<1>6. \A v \in Users : Devices!TokensOf(v)' = Devices!TokensOf(v)
  BY DEF Devices!Store, Devices!TokensOf
<1>7. Devices!Uninvalidated' = Devices!Uninvalidated
  <2>1. \A x \in Handlers : /\ Devices!At(x, "invalidate")' <=> Devices!At(x, "invalidate")
                            /\ Devices!At(x, "invalidate") => request'[x] = request[x]
    BY <1>1, <1>4 DEF Devices!At, Devices!TypeOK
  <2> QED BY <2>1, Outstanding
<1>8. ASSUME NEW u \in Users \ (stray' \cup Devices!Uninvalidated'), cache'[u] # {}
      PROVE  cache'[u] = IF Devices!TokensOf(u) = {} THEN {Blank} ELSE Devices!TokensOf(u)
  <2>1. u \notin stray /\ u \notin Devices!Uninvalidated
    BY <1>4, <1>7, <1>8
  <2>2. CASE u # r.user
    BY <1>4, <1>8, <2>1, <2>2 DEF CopiesFollow, CopiesRight, Devices!TypeOK
  <2>3. CASE u = r.user
    <3>1. ~r.stale
      BY <1>4, <1>8, <2>3
    <3>2. Fresh(h, u, r.tokens)
      BY <1>1, <2>3, <3>1 DEF Fresh, Devices!At
    <3>3. r.tokens = Devices!TokensOf(u)
      BY <1>2, <2>1, <3>2 DEF CopiesFollow, CopiesRight, FillsRight
    <3>4. cache'[u] = IF r.tokens = {} THEN {Blank} ELSE cache[u] \cup r.tokens
      BY <1>4, <2>3 DEF Devices!TypeOK
    <3>5. cache[u] # {} => cache[u] = IF Devices!TokensOf(u) = {} THEN {Blank} ELSE Devices!TokensOf(u)
      BY <2>1 DEF CopiesFollow, CopiesRight, FillsRight
    <3> QED BY <3>3, <3>4, <3>5
  <2> QED BY <2>2, <2>3
<1>9. CopiesRight'
  BY <1>6, <1>8 DEF CopiesRight
<1>10. FillsRight'
  BY <1>5, <1>6, <1>7 DEF CopiesFollow, FillsRight
<1> QED BY <1>9, <1>10 DEF CopiesFollow

LEMMA CopiesStep ==
  ASSUME Devices!ConstantsAssumption, Devices!TypeOK, CopiesFollow, [Devices!Next]_Devices!vars
  PROVE  CopiesFollow'
<1>1. ASSUME UNCHANGED <<device, request>>, stray' \subseteq stray,
             \A u \in Users : (cache'[u] = cache[u] /\ (u \in stray => u \in stray'))
                               \/ cache'[u] = {}
      PROVE  CopiesFollow'
  <2>1. Devices!Uninvalidated' = Devices!Uninvalidated
    BY <1>1 DEF Devices!Uninvalidated, Devices!At
  <2>2. \A v \in Users : Devices!TokensOf(v)' = Devices!TokensOf(v)
    BY <1>1 DEF Devices!TokensOf
  <2>3. \A x \in Handlers : \A u, s : Fresh(x, u, s)' => Fresh(x, u, s)
    BY <1>1 DEF Fresh, Devices!At
  <2>4. ASSUME NEW u \in Users \ (stray' \cup Devices!Uninvalidated'), cache'[u] # {}
        PROVE  cache'[u] = IF Devices!TokensOf(u) = {} THEN {Blank} ELSE Devices!TokensOf(u)
    BY <1>1, <2>1, <2>4 DEF CopiesFollow, CopiesRight, FillsRight
  <2>5. CopiesRight'
    BY <2>1, <2>2, <2>3, <2>4 DEF CopiesFollow, CopiesRight
  <2>6. FillsRight'
    BY <2>1, <2>2, <2>3, <2>4 DEF CopiesFollow, FillsRight
  <2> QED BY <2>5, <2>6 DEF CopiesFollow
<1>2. CASE UNCHANGED Devices!vars
  BY <1>1, <1>2 DEF Devices!vars
<1>3. ASSUME NEW u \in Users, Devices!Expire(u) PROVE CopiesFollow'
  <2>1. \A v \in Users : (cache'[v] = cache[v] /\ (v \in stray => v \in stray')) \/ cache'[v] = {}
    BY <1>3 DEF Devices!Expire, Devices!TypeOK
  <2> QED BY <1>1, <1>3, <2>1 DEF Devices!Expire
<1>4. ASSUME NEW k \in tasks, \/ Devices!TaskChecks(k) \/ Devices!TaskJoins(k)
                              \/ Devices!TaskLeaves(k) \/ Devices!TaskFails(k)
      PROVE  CopiesFollow'
  BY <1>1, <1>4 DEF Devices!TaskChecks, Devices!TaskJoins, Devices!TaskLeaves, Devices!TaskFails,
     Devices!ghosts
<1>5. CASE Devices!Next
  BY <1>3, <1>4, <1>5, CopiesQuietStep, CopiesRegisterStep, CopiesRemoveStep,
     CopiesInvalidateStep, CopiesStoreStep DEF Devices!Next
<1> QED BY <1>2, <1>5

-----------------------------------------------------------------------------
(* The topic of the announcements.                                         *)

\* What a request is still to do: to start tasks for a token after its registration, and to
\* let it leave its former user; to delete its row; to move the tokens of a user.
StartedBy(q, t) == q # None /\ q.stage = "invalidate" /\ \E k \in q.tasks : k.token = t
HandedBy(q, t)  == q # None /\ q.stage = "invalidate" /\ \E k \in q.tasks : k.token = t /\ k.do = "leave"
DeletedBy(q, t) == q # None /\ q.stage = "delete" /\ q.token = t
MovedBy(q, u)   == q # None /\ q.stage = "setting" /\ q.user = u
Starting(t) == \E x \in Handlers : StartedBy(request[x], t)
Handed(t)   == \E x \in Handlers : HandedBy(request[x], t)
Deleting(t) == \E x \in Handlers : DeletedBy(request[x], t)
Moving(u)   == \E x \in Handlers : MovedBy(request[x], u)

\* A row whose place on the topic is only for tasks and new registrations to change.
Quiet(t) == t \notin mixed /\ device[t] # None /\ ~Moving(device[t].user) /\ ~Deleting(t) /\ ~Handed(t)
On(t) == system[device[t].user]

\* A registration that takes a token away starts two tasks for it.
Paired(q) ==
  q # None /\ q.stage = "invalidate" => \A k \in q.tasks :
    \/ k.do = "check"
    \/ k.do = "leave" /\ \E x \in q.tasks : x.do = "check" /\ x.token = k.token
AllPaired == \A x \in Handlers : Paired(request[x])
OneTask == \A k, l \in tasks : k.token = l.token /\ k # l => k.token \in mixed

\* A token without a row has left the topic, or will, or is remembered as one that did not.
GoneLeaves ==
  \A t \in DeviceTokens \ mixed : device[t] = None =>
    t \in left \/ (t \notin topic /\ \A k \in tasks : k.token = t => k.do = "leave")

\* What is on the topic although its user's setting is off has been left behind, or leaves.
OffLeaves ==
  \A t \in DeviceTokens : Quiet(t) /\ ~On(t) /\ t \in topic =>
    t \in left \/ \E k \in tasks : k.token = t /\ k.do = "leave"

\* A task does what the setting of the token's user says.
Fits(k, t) ==
  /\ k.do = "check" => device[t].user = k.user \/ (Starting(t) /\ t \in left)
  /\ k.do = "join"  => On(t) \/ t \in left
  /\ k.do = "leave" => ~On(t) \/ Starting(t)
TasksFit == \A k \in tasks, t \in DeviceTokens : k.token = t /\ Quiet(t) => Fits(k, t)

\* What nothing is to be done for any more is on the topic if its user's setting is on.
OnJoined ==
  \A t \in DeviceTokens : Quiet(t) /\ ~Starting(t) /\ On(t) =>
    t \in topic \/ \E k \in tasks : k.token = t

TopicFollows == AllPaired /\ OneTask /\ GoneLeaves /\ OffLeaves /\ TasksFit /\ OnJoined

\* What is to be done changes with the one request that takes a step.
LEMMA WorkChanges ==
  ASSUME Devices!ConstantsAssumption, Devices!TypeOK, AllPaired,
         NEW h \in Handlers, NEW r \in {None} \cup Devices!Request, NEW us,
         \/ us = {} /\ request' = [request EXCEPT ![h] = r]
         \/ request' = Devices!Outdated([request EXCEPT ![h] = r], us)
  PROVE  /\ \A t : /\ Starting(t)' => Starting(t) \/ StartedBy(r, t)
                   /\ Starting(t) => Starting(t)' \/ StartedBy(request[h], t)
                   /\ StartedBy(r, t) => Starting(t)'
         /\ \A t : /\ Handed(t)' => Handed(t) \/ HandedBy(r, t)
                   /\ Handed(t) => Handed(t)' \/ HandedBy(request[h], t)
                   /\ HandedBy(r, t) => Handed(t)'
         /\ \A t : /\ Deleting(t)' => Deleting(t) \/ DeletedBy(r, t)
                   /\ Deleting(t) => Deleting(t)' \/ DeletedBy(request[h], t)
                   /\ DeletedBy(r, t) => Deleting(t)'
         /\ \A u : /\ Moving(u)' => Moving(u) \/ MovedBy(r, u)
                   /\ Moving(u) => Moving(u)' \/ MovedBy(request[h], u)
                   /\ MovedBy(r, u) => Moving(u)'
         /\ Paired(r) => AllPaired'
<1>1. \A x \in Handlers :
        \/ request'[x] = IF x = h THEN r ELSE request[x]
        \/ /\ request'[x] # None /\ request'[x].stage = "store"
           /\ IF x = h THEN r # None /\ r.stage = "store" ELSE request[x] # None /\ request[x].stage = "store"
  BY OthersStay DEF Devices!At
<1>2. \A x \in Handlers : \A t :
        /\ StartedBy(request'[x], t) <=> StartedBy(IF x = h THEN r ELSE request[x], t)
        /\ HandedBy(request'[x], t) <=> HandedBy(IF x = h THEN r ELSE request[x], t)
        /\ DeletedBy(request'[x], t) <=> DeletedBy(IF x = h THEN r ELSE request[x], t)
        /\ MovedBy(request'[x], t) <=> MovedBy(IF x = h THEN r ELSE request[x], t)
  BY <1>1 DEF StartedBy, HandedBy, DeletedBy, MovedBy
<1>3. \A x \in Handlers : Paired(IF x = h THEN r ELSE request[x]) => Paired(request'[x])
  BY <1>1 DEF Paired
<1>4. Paired(r) => AllPaired'
  BY <1>3 DEF AllPaired
<1>5. \A t : /\ Starting(t)' <=> \E x \in Handlers : StartedBy(IF x = h THEN r ELSE request[x], t)
             /\ Handed(t)' <=> \E x \in Handlers : HandedBy(IF x = h THEN r ELSE request[x], t)
             /\ Deleting(t)' <=> \E x \in Handlers : DeletedBy(IF x = h THEN r ELSE request[x], t)
             /\ Moving(t)' <=> \E x \in Handlers : MovedBy(IF x = h THEN r ELSE request[x], t)
  BY <1>2 DEF Starting, Handed, Deleting, Moving
<1>6. \A t : /\ Starting(t)' => Starting(t) \/ StartedBy(r, t)
             /\ Starting(t) => Starting(t)' \/ StartedBy(request[h], t)
             /\ StartedBy(r, t) => Starting(t)'
  BY <1>5 DEF Starting
<1>7. \A t : /\ Handed(t)' => Handed(t) \/ HandedBy(r, t)
             /\ Handed(t) => Handed(t)' \/ HandedBy(request[h], t)
             /\ HandedBy(r, t) => Handed(t)'
  BY <1>5 DEF Handed
<1>8. \A t : /\ Deleting(t)' => Deleting(t) \/ DeletedBy(r, t)
             /\ Deleting(t) => Deleting(t)' \/ DeletedBy(request[h], t)
             /\ DeletedBy(r, t) => Deleting(t)'
  BY <1>5 DEF Deleting
<1>9. \A u : /\ Moving(u)' => Moving(u) \/ MovedBy(r, u)
             /\ Moving(u) => Moving(u)' \/ MovedBy(request[h], u)
             /\ MovedBy(r, u) => Moving(u)'
  BY <1>5 DEF Moving
<1> QED BY <1>4, <1>6, <1>7, <1>8, <1>9

\* A step that starts and ends no task: for every token it leaves things as they were, or has
\* a registration about it begin.
LEMMA TopicKept ==
  ASSUME TopicFollows, AllPaired', topic' = topic, tasks' = tasks,
         mixed \subseteq mixed', left \subseteq left',
         \A t \in DeviceTokens : Quiet(t)' =>
           \/ /\ Quiet(t) /\ device'[t].user = device[t].user
              /\ (On(t)' <=> On(t)) /\ (Starting(t) => Starting(t)')
           \/ /\ Starting(t)' /\ (t \in topic => t \in left')
              /\ \A k \in tasks : k.token = t => k.do = "leave" \/ t \in left',
         \A t \in DeviceTokens \ mixed' : device'[t] = None =>
           device[t] = None \/ t \in left' \/ (t \notin topic /\ \A k \in tasks : k.token # t)
  PROVE  TopicFollows'
<1>1. OneTask'
  BY DEF TopicFollows, OneTask
<1>2. GoneLeaves'
  BY DEF TopicFollows, GoneLeaves
<1>3. OffLeaves'
  BY DEF TopicFollows, OffLeaves
<1>4. TasksFit'
  <2> SUFFICES ASSUME NEW k \in tasks, NEW t \in DeviceTokens, k.token = t, Quiet(t)'
               PROVE  Fits(k, t)'
    BY DEF TasksFit
  <2>1. CASE Quiet(t) /\ device'[t].user = device[t].user /\ (On(t)' <=> On(t)) /\ (Starting(t) => Starting(t)')
    <3>1. Fits(k, t)
      BY <2>1 DEF TopicFollows, TasksFit
    <3> QED BY <2>1, <3>1 DEF Fits
  <2>2. CASE Starting(t)' /\ (k.do = "leave" \/ t \in left')
    BY <2>2 DEF Fits
  <2> QED BY <2>1, <2>2
<1>5. OnJoined'
  BY DEF TopicFollows, OnJoined
<1> QED BY <1>1, <1>2, <1>3, <1>4, <1>5 DEF TopicFollows

\* A step of one request that is not about the topic.
LEMMA TopicAlone ==
  ASSUME Devices!ConstantsAssumption, Devices!TypeOK, TopicFollows,
         NEW h \in Handlers, NEW r \in {None} \cup Devices!Request, NEW us,
         \/ us = {} /\ request' = [request EXCEPT ![h] = r]
         \/ request' = Devices!Outdated([request EXCEPT ![h] = r], us),
         \A t : StartedBy(r, t) <=> StartedBy(request[h], t),
         \A t : HandedBy(request[h], t) => HandedBy(r, t),
         \A u : MovedBy(request[h], u) => MovedBy(r, u),
         Paired(r), UNCHANGED <<topic, tasks>>, mixed \subseteq mixed', left \subseteq left',
         \A t \in DeviceTokens : device'[t] # None =>
           device[t] # None /\ device'[t].user = device[t].user,
         \A t \in DeviceTokens \ mixed' : device'[t] = None =>
           device[t] = None \/ t \in left' \/ (t \notin topic /\ \A k \in tasks : k.token # t),
         \A t : DeletedBy(request[h], t) => DeletedBy(r, t) \/ device'[t] = None,
         \A u \in Users : system'[u] = system[u] \/ MovedBy(r, u)
  PROVE  TopicFollows'
<1>1. AllPaired
  BY DEF TopicFollows
<1> DEFINE same == /\ \A t : Starting(t)' <=> Starting(t)
                   /\ \A t : Handed(t) => Handed(t)'
                   /\ \A t : Deleting(t) => Deleting(t)' \/ device'[t] = None
                   /\ \A u : Moving(u) => Moving(u)'
                   /\ \A u : MovedBy(r, u) => Moving(u)'
                   /\ AllPaired'
<1>2. same
  <2>1. \A t : /\ Starting(t)' => Starting(t) \/ StartedBy(r, t)
               /\ Starting(t) => Starting(t)' \/ StartedBy(request[h], t)
               /\ StartedBy(r, t) => Starting(t)'
    BY <1>1, WorkChanges
  <2>2. \A t : /\ Handed(t) => Handed(t)' \/ HandedBy(request[h], t)
               /\ HandedBy(r, t) => Handed(t)'
    BY <1>1, WorkChanges
  <2>3. \A t : /\ Deleting(t) => Deleting(t)' \/ DeletedBy(request[h], t)
               /\ DeletedBy(r, t) => Deleting(t)'
    BY <1>1, WorkChanges
  <2>4. \A u : /\ Moving(u) => Moving(u)' \/ MovedBy(request[h], u)
               /\ MovedBy(r, u) => Moving(u)'
    BY <1>1, WorkChanges
  <2>5. AllPaired'
    BY <1>1, WorkChanges
  <2>6. \A t : StartedBy(request[h], t) => Starting(t)
    BY DEF Starting
  <2> QED BY <2>1, <2>2, <2>3, <2>4, <2>5, <2>6
<1>3. ASSUME NEW t \in DeviceTokens, Quiet(t)'
      PROVE  /\ Quiet(t) /\ device'[t].user = device[t].user
             /\ (On(t)' <=> On(t)) /\ (Starting(t) => Starting(t)')
  <2>1. /\ device'[t] # None /\ device[t] # None /\ device'[t].user = device[t].user
        /\ t \notin mixed' /\ ~Deleting(t)' /\ ~Handed(t)'
    BY <1>3 DEF Quiet
  <2>2. ~Moving(device[t].user) /\ ~MovedBy(r, device[t].user)
    <3>1. PICK v : v = device[t].user
      OBVIOUS
    <3>2. ~Moving(v)'
      BY <1>3, <2>1, <3>1 DEF Quiet, Moving
    <3>3. ~Moving(v) /\ ~MovedBy(r, v)
      BY <1>2, <3>2
    <3> QED BY <3>1, <3>3
  <2>3. Quiet(t)
    BY <1>2, <2>1, <2>2 DEF Quiet
  <2>4. device[t].user \in Users
    BY <2>1 DEF Devices!TypeOK
  <2>5. On(t)' <=> On(t)
    BY <2>1, <2>2, <2>4 DEF On
  <2> QED BY <1>2, <2>1, <2>3, <2>5
<1> QED BY <1>2, <1>3, TopicKept

\* A step of one request that reads, or that writes no row of another user.
LEMMA TopicReadStep ==
  ASSUME Devices!ConstantsAssumption, Devices!TypeOK, TopicFollows, NEW h \in Handlers,
         \/ \E u \in Users, t \in DeviceTokens, p \in DevicePlatforms : Devices!RegisterRead(h, u, t, p)
         \/ Devices!RegisterTouch(h) \/ Devices!RegisterLook(h)
         \/ \E u \in Users : Devices!Look(h, u) \/ \E on \in BOOLEAN : Devices!SettingWrite(h, u, on)
         \/ Devices!Hit(h) \/ Devices!Miss(h) \/ Devices!Store(h)
  PROVE  TopicFollows'
<1> DEFINE r == request'[h]
           q == request[h]
           calm == /\ q = None \/ q.stage \notin {"invalidate", "delete", "setting"}
                   /\ r = None \/ r.stage # "invalidate" \/ r.tasks = {}
                   /\ UNCHANGED <<topic, tasks, mixed, left>>
                   /\ \A t \in DeviceTokens : /\ device'[t] = None <=> device[t] = None
                                              /\ device[t] # None => device'[t].user = device[t].user
                   /\ \A u \in Users : system'[u] = system[u] \/ MovedBy(r, u)
<1>1. request' \in [Handlers -> {None} \cup Devices!Request]
  BY RegistrationTypes, PushTypes, TopicTypes DEF Devices!TypeOK
<1>2. \A q2 : request' = [request EXCEPT ![h] = q2] => r = q2
  BY DEF Devices!TypeOK
<1>3. calm /\ \E q2 : request' = [request EXCEPT ![h] = q2]
  <2>1. CASE Devices!RegisterTouch(h)
    <3>1. q.token \in DeviceTokens /\ q.platform \in DevicePlatforms
      BY <2>1, TokenRequestTypes DEF Devices!RegisterTouch, Devices!At
    <3>2. ASSUME device[q.token] # None
          PROVE  /\ [device[q.token] EXCEPT !.platform = q.platform] # None
                 /\ [device[q.token] EXCEPT !.platform = q.platform].user = device[q.token].user
      <4>1. device[q.token] \in [user : Users, platform : DevicePlatforms]
        BY <3>1, <3>2 DEF Devices!TypeOK
      <4> QED BY <3>1, <4>1 DEF Devices!ConstantsAssumption
    <3>3. \A t \in DeviceTokens : /\ device'[t] = None <=> device[t] = None
                                  /\ device[t] # None => device'[t].user = device[t].user
      BY <2>1, <3>1, <3>2 DEF Devices!RegisterTouch, Devices!TypeOK
    <3>4. \E q2 : request' = [request EXCEPT ![h] = q2] /\ (q2 = None \/ q2.tasks = {})
      BY <2>1 DEF Devices!RegisterTouch, Devices!Done
    <3>5. q.stage = "touch"
      BY <2>1 DEF Devices!RegisterTouch, Devices!At
    <3>6. r = None \/ r.tasks = {}
      BY <1>2, <3>4
    <3>7. UNCHANGED <<topic, tasks, mixed, left, system>>
      BY <2>1 DEF Devices!RegisterTouch, Devices!ghosts
    <3> QED BY <3>3, <3>4, <3>5, <3>6, <3>7
  <2>2. CASE \E u \in Users, on \in BOOLEAN : Devices!SettingWrite(h, u, on)
    <3>1. PICK u \in Users, on \in BOOLEAN : Devices!SettingWrite(h, u, on)
      BY <2>2
    <3>2. r = [stage |-> "setting", user |-> u, on |-> on]
      BY <3>1, <1>2 DEF Devices!SettingWrite
    <3>3. r # None
      BY <3>2, <1>1 DEF Devices!ConstantsAssumption, Devices!Request
    <3>4. MovedBy(r, u)
      BY <3>2, <3>3 DEF MovedBy
    <3>5. \A v \in Users : system'[v] = system[v] \/ MovedBy(r, v)
      BY <3>1, <3>4 DEF Devices!SettingWrite, Devices!TypeOK
    <3>6. \E q2 : request' = [request EXCEPT ![h] = q2]
      BY <3>1 DEF Devices!SettingWrite
    <3>7. q = None /\ UNCHANGED <<topic, tasks, mixed, left, device>>
      BY <3>1 DEF Devices!SettingWrite, Devices!ghosts
    <3>8. r.stage # "invalidate"
      BY <3>2
    <3> QED BY <3>5, <3>6, <3>7, <3>8
  <2>3. CASE ~Devices!RegisterTouch(h) /\ ~(\E u \in Users, on \in BOOLEAN : Devices!SettingWrite(h, u, on))
    <3>1. UNCHANGED <<topic, tasks, mixed, left, device, system>>
      BY <2>3 DEF Devices!RegisterRead, Devices!RegisterLook, Devices!Look, Devices!Hit,
         Devices!Miss, Devices!Store, Devices!ghosts
    <3>2. q = None \/ q.stage \notin {"invalidate", "delete", "setting"}
      BY <2>3 DEF Devices!RegisterRead, Devices!RegisterLook, Devices!Look, Devices!Hit,
         Devices!Miss, Devices!Store, Devices!At
    <3>3. \E q2 : request' = [request EXCEPT ![h] = q2]
      BY <2>3 DEF Devices!RegisterRead, Devices!RegisterLook, Devices!Look, Devices!Hit,
         Devices!Miss, Devices!Store
    <3>4. r.stage # "invalidate"
      <4>1. request \in [Handlers -> {None} \cup Devices!Request]
        BY DEF Devices!TypeOK
      <4>2. CASE \E u \in Users, t \in DeviceTokens, p \in DevicePlatforms : Devices!RegisterRead(h, u, t, p)
        BY <4>1, <4>2 DEF Devices!RegisterRead
      <4>3. CASE \/ Devices!RegisterLook(h) \/ \E u \in Users : Devices!Look(h, u)
        BY <4>1, <4>3 DEF Devices!RegisterLook, Devices!Look
      <4>4. CASE Devices!Hit(h) \/ Devices!Miss(h) \/ Devices!Store(h)
        BY <4>1, <4>4 DEF Devices!Hit, Devices!Miss, Devices!Store
      <4> QED BY <2>3, <4>2, <4>3, <4>4
    <3> QED BY <3>1, <3>2, <3>3, <3>4
  <2> QED BY <2>1, <2>2, <2>3
<1>4. request' = [request EXCEPT ![h] = r] /\ r \in {None} \cup Devices!Request
  BY <1>1, <1>2, <1>3
<1>5. /\ \A t : ~StartedBy(r, t) /\ ~StartedBy(q, t) /\ ~HandedBy(q, t) /\ ~DeletedBy(q, t)
      /\ \A u : ~MovedBy(q, u)
      /\ Paired(r)
  BY <1>3 DEF StartedBy, HandedBy, DeletedBy, MovedBy, Paired
<1> HIDE DEF r
<1>6. {} = {}
  OBVIOUS
<1> QED BY <1>3, <1>4, <1>5, <1>6, TopicAlone

\* A step of one request that removes rows, or begins no task.
LEMMA TopicRemoveStep ==
  ASSUME Devices!ConstantsAssumption, Devices!TypeOK, TopicFollows, NEW h \in Handlers,
         \/ Devices!DeleteRow(h) \/ \E refused \in SUBSET DeviceTokens : Devices!Push(h, refused)
  PROVE  TopicFollows'
<1> DEFINE q == request[h]
<1>1. CASE Devices!DeleteRow(h)
  <2>1. q # None /\ q.stage = "delete"
    BY <1>1 DEF Devices!DeleteRow, Devices!At
  <2>2. q.user \in Users /\ q.token \in DeviceTokens
    BY <2>1, TokenRequestTypes
  <2>3. CASE device[q.token] = None
    <3>1. /\ request' = [request EXCEPT ![h] = None]
          /\ UNCHANGED <<device, left, topic, tasks, mixed, system>>
      BY <1>1, <2>3 DEF Devices!DeleteRow, Devices!Done
    <3>2. /\ \A t : ~StartedBy(None, t) /\ ~StartedBy(q, t) /\ ~HandedBy(q, t)
          /\ \A t : DeletedBy(q, t) => device'[t] = None
          /\ \A u : ~MovedBy(q, u)
          /\ Paired(None)
      BY <2>1, <2>3, <3>1 DEF StartedBy, HandedBy, DeletedBy, MovedBy, Paired
    <3>3. {} = {}
      OBVIOUS
    <3> QED BY <3>1, <3>2, <3>3, TopicAlone
  <2>4. CASE device[q.token] # None
    <3> DEFINE others == {device[q.token].user} \ {q.user}
               next == [stage |-> "invalidate", todo |-> <<q.user>>, tasks |-> {}]
    <3>1. /\ request' = Devices!Outdated([request EXCEPT ![h] = next], others)
          /\ device' = [device EXCEPT ![q.token] = None]
          /\ left' = left \cup ({q.token} \cap (topic \cup {k.token : k \in tasks}))
          /\ UNCHANGED <<topic, tasks, mixed, system>>
      BY <1>1, <2>4 DEF Devices!DeleteRow
    <3>2. next \in Devices!Request
      BY <2>2 DEF Devices!Request
    <3>3. /\ \A t : ~StartedBy(next, t) /\ ~StartedBy(q, t) /\ ~HandedBy(q, t)
          /\ \A t : DeletedBy(q, t) => t = q.token
          /\ \A u : ~MovedBy(q, u)
          /\ Paired(next)
      BY <2>1 DEF StartedBy, HandedBy, DeletedBy, MovedBy, Paired
    <3>4. /\ device'[q.token] = None
          /\ \A t \in DeviceTokens \ {q.token} : device'[t] = device[t]
      BY <2>2, <3>1 DEF Devices!TypeOK
    <3>5. q.token \in left' \/ (q.token \notin topic /\ \A k \in tasks : k.token # q.token)
      BY <3>1
    <3>6. left \subseteq left'
      BY <3>1
    <3> HIDE DEF others, next
    <3> QED BY <3>1, <3>2, <3>3, <3>4, <3>5, <3>6, TopicAlone
  <2> QED BY <2>3, <2>4
<1>2. ASSUME NEW refused \in SUBSET DeviceTokens, Devices!Push(h, refused) PROVE TopicFollows'
  <2>1. q # None /\ q.stage = "push"
    BY <1>2 DEF Devices!Push, Devices!At
  <2>2. q.user \in Users
    BY <2>1, TokenRequestTypes
  <2> DEFINE rows == {t \in refused : device[t] # None}
             others == {device[t].user : t \in rows} \ {q.user}
             next == [stage |-> "invalidate", todo |-> <<q.user>>, tasks |-> {}]
  <2>3. /\ \A t : ~StartedBy(q, t) /\ ~HandedBy(q, t) /\ ~DeletedBy(q, t)
        /\ \A u : ~MovedBy(q, u)
        /\ \A t : ~StartedBy(next, t) /\ ~StartedBy(None, t)
        /\ Paired(next) /\ Paired(None)
    BY <2>1 DEF StartedBy, HandedBy, DeletedBy, MovedBy, Paired
  <2>4. UNCHANGED <<topic, tasks, mixed, system>>
    BY <1>2 DEF Devices!Push
  <2>5. CASE refused = {}
    <3>1. request' = [request EXCEPT ![h] = None] /\ UNCHANGED <<device, left>>
      BY <1>2, <2>5 DEF Devices!Push, Devices!Done
    <3>2. {} = {}
      OBVIOUS
    <3> QED BY <2>3, <2>4, <3>1, <3>2, TopicAlone
  <2>6. CASE refused # {}
    <3>1. /\ request' = Devices!Outdated([request EXCEPT ![h] = next], others)
          /\ device' = [t \in DeviceTokens |-> IF t \in rows THEN None ELSE device[t]]
          /\ left' = left \cup rows
      BY <1>2, <2>6 DEF Devices!Push
    <3>2. next \in Devices!Request
      BY <2>2 DEF Devices!Request
    <3>3. /\ left \subseteq left'
          /\ \A t \in DeviceTokens : /\ device'[t] # None => device'[t] = device[t]
                                     /\ device'[t] = None => device[t] = None \/ t \in left'
      BY <3>1
    <3> HIDE DEF others, next, rows
    <3> QED BY <2>3, <2>4, <3>1, <3>2, <3>3, TopicAlone
  <2> QED BY <2>5, <2>6
<1> QED BY <1>1, <1>2

\* A registration: what was on the topic for a former row is left behind, and the tasks for
\* the new row are to start.
LEMMA TopicReplaceStep ==
  ASSUME Devices!ConstantsAssumption, Devices!TypeOK, TopicFollows, NEW h \in Handlers,
         Devices!RegisterReplace(h)
  PROVE  TopicFollows'
<1>1. request[h] # None /\ request[h].stage = "replace"
  BY DEF Devices!RegisterReplace, Devices!At
<1> DEFINE q     == request[h]
           own   == IF q.seen THEN Devices!SamePlatform(q.user, q.platform) ELSE {}
           gone  == own \cup (IF q.old = None THEN {} ELSE {q.token})
           fits  == IF q.old = None THEN q.token \in own \/ device[q.token] = None
                                    ELSE device[q.token] # None
           third == {device[t].user : t \in {x \in {q.token} : device[x] # None}} \ {q.old, q.user}
           begun == {[do |-> "check", user |-> q.user, token |-> q.token]}
                        \cup (IF q.old = None THEN {}
                              ELSE {[do |-> "leave", user |-> q.old, token |-> q.token]})
           next  == [stage |-> "invalidate", todo |-> Devices!Owners(q.old, q.user), tasks |-> begun]
<1>2. /\ q.token \in DeviceTokens /\ q.user \in Users /\ q.platform \in DevicePlatforms
      /\ q.old \in {None} \cup Users
  BY <1>1, TokenRequestTypes
<1>3. UNCHANGED <<topic, tasks, mixed, system>>
  BY DEF Devices!RegisterReplace
<1>4. \A t : ~StartedBy(q, t) /\ ~HandedBy(q, t) /\ ~DeletedBy(q, t) /\ ~MovedBy(q, t)
  BY <1>1 DEF StartedBy, HandedBy, DeletedBy, MovedBy
<1>5. CASE ~fits
  <2>1. request' = [request EXCEPT ![h] = None] /\ UNCHANGED <<device, left>>
    BY <1>5 DEF Devices!RegisterReplace, Devices!Done
  <2>2. (\A t : ~StartedBy(None, t)) /\ Paired(None)
    BY DEF StartedBy, Paired
  <2>3. {} = {}
    OBVIOUS
  <2> QED BY <1>3, <1>4, <2>1, <2>2, <2>3, TopicAlone
<1>6. CASE fits
  <2>1. /\ device' = [t \in DeviceTokens |->
               CASE t = q.token -> [user |-> q.user, platform |-> q.platform]
                 [] t \in gone \ {q.token} -> None
                 [] OTHER -> device[t]]
        /\ request' = Devices!Outdated([request EXCEPT ![h] = next], third)
        /\ left' = left \cup (gone \ {q.token})
    BY <1>6 DEF Devices!RegisterReplace
  <2>2. next \in Devices!Request
    <3>1. Devices!Owners(q.old, q.user) \in Seq(Users) \ {<<>>}
      BY <1>2 DEF Devices!Owners
    <3>2. begun \subseteq Devices!Task
      BY <1>2 DEF Devices!Task
    <3> QED BY <3>1, <3>2 DEF Devices!Request
  <2>3. next # None
    BY <2>2 DEF Devices!ConstantsAssumption
  <2> DEFINE check == [do |-> "check", user |-> q.user, token |-> q.token]
             leave == [do |-> "leave", user |-> q.old, token |-> q.token]
  <2>11. /\ check \in begun /\ check.do = "check" /\ check.token = q.token
         /\ leave.do = "leave" /\ leave.token = q.token
         /\ q.old # None => leave \in begun
         /\ \A k \in begun : k = check \/ k = leave
         /\ next.stage = "invalidate" /\ next.tasks = begun
    OBVIOUS
  <2>4. Paired(next)
    <3> HIDE DEF check, leave, begun, next
    <3> QED BY <2>11 DEF Paired
  <2>5. /\ \A t : StartedBy(next, t) <=> t = q.token
        /\ q.old # None => HandedBy(next, q.token)
    <3> HIDE DEF check, leave, begun, next
    <3> QED BY <2>3, <2>11 DEF StartedBy, HandedBy
  <2>6. AllPaired
    BY DEF TopicFollows
  <2>7. /\ \A t : /\ Starting(t) => Starting(t)'
                  /\ StartedBy(next, t) => Starting(t)'
        /\ \A t : /\ Handed(t) => Handed(t)'
                  /\ HandedBy(next, t) => Handed(t)'
        /\ \A t : Deleting(t) => Deleting(t)'
        /\ \A u : Moving(u) => Moving(u)'
        /\ AllPaired'
    <3> HIDE DEF third, next
    <3>1. \A t : /\ Starting(t) => Starting(t)'
                 /\ StartedBy(next, t) => Starting(t)'
      BY <1>4, <2>1, <2>2, <2>6, WorkChanges
    <3>2. \A t : /\ Handed(t) => Handed(t)'
                 /\ HandedBy(next, t) => Handed(t)'
      BY <1>4, <2>1, <2>2, <2>6, WorkChanges
    <3>3. \A t : Deleting(t) => Deleting(t)'
      BY <1>4, <2>1, <2>2, <2>6, WorkChanges
    <3>4. \A u : Moving(u) => Moving(u)'
      BY <1>4, <2>1, <2>2, <2>6, WorkChanges
    <3>5. AllPaired'
      BY <2>1, <2>2, <2>4, <2>6, WorkChanges
    <3> QED BY <3>1, <3>2, <3>3, <3>4, <3>5
  <2>8. /\ device'[q.token] = [user |-> q.user, platform |-> q.platform]
        /\ \A t \in DeviceTokens \ {q.token} :
             device'[t] = IF t \in gone THEN None ELSE device[t]
    BY <1>2, <2>1
  <2>9. ASSUME NEW t \in DeviceTokens, Quiet(t)'
        PROVE  \/ /\ Quiet(t) /\ device'[t].user = device[t].user
                  /\ (On(t)' <=> On(t)) /\ (Starting(t) => Starting(t)')
               \/ /\ Starting(t)' /\ (t \in topic => t \in left')
                  /\ \A k \in tasks : k.token = t => k.do = "leave" \/ t \in left'
    <3>1. t \notin mixed /\ device'[t] # None /\ ~Deleting(t)' /\ ~Handed(t)'
      BY <1>3, <2>9 DEF Quiet
    <3>2. ASSUME device[t] # None, device'[t].user = device[t].user
          PROVE  Quiet(t) /\ (On(t)' <=> On(t))
      <4>1. PICK v : v = device[t].user
        OBVIOUS
      <4>2. ~Moving(v)'
        BY <2>9, <3>2, <4>1 DEF Quiet, Moving
      <4>3. ~Moving(v)
        BY <2>7, <4>2
      <4> QED BY <1>3, <2>7, <3>1, <3>2, <4>1, <4>3 DEF Quiet, On
    <3>3. CASE t # q.token
      BY <2>7, <2>8, <3>1, <3>2, <3>3
    <3>4. CASE t = q.token
      <4>1. q.old = None
        BY <2>5, <2>7, <3>1, <3>4
      <4>2. CASE q.token \in own
        <5>1. device[t] # None /\ device[t].user = q.user
          BY <3>4, <4>2 DEF Devices!SamePlatform, Devices!TokensOf
        <5> QED BY <2>7, <2>8, <3>2, <3>4, <5>1
      <4>3. CASE device[q.token] = None
        <5>1. t \in left \/ (t \notin topic /\ \A k \in tasks : k.token = t => k.do = "leave")
          BY <3>1, <3>4, <4>3 DEF TopicFollows, GoneLeaves
        <5>2. Starting(t)'
          BY <2>5, <2>7, <3>4
        <5> QED BY <2>1, <5>1, <5>2
      <4> QED BY <1>6, <4>1, <4>2, <4>3
    <3> QED BY <3>3, <3>4
  <2>10. /\ left \subseteq left'
         /\ \A t \in DeviceTokens : device'[t] = None => device[t] = None \/ t \in left'
    <3>1. [user |-> q.user, platform |-> q.platform] # None
      BY <1>2 DEF Devices!ConstantsAssumption
    <3> QED BY <2>1, <2>8, <3>1
  <2> QED BY <1>3, <2>7, <2>9, <2>10, TopicKept
<1> QED BY <1>5, <1>6

\* The copies are deleted, or not; with the last of them the tasks of the request start.
LEMMA TopicInvalidateStep ==
  ASSUME Devices!ConstantsAssumption, Devices!TypeOK, TopicFollows, NEW h \in Handlers,
         Devices!Invalidate(h) \/ Devices!InvalidateFails(h)
  PROVE  TopicFollows'
<1> DEFINE q == request[h]
<1>1. q # None /\ q.stage = "invalidate"
  BY DEF Devices!Invalidate, Devices!InvalidateFails, Devices!At
<1>2. q \in Devices!Request /\ q.todo \in Seq(Users) /\ q.todo # <<>> /\ q.tasks \subseteq Devices!Task
  BY <1>1, TokenRequestTypes
<1>3. (\A t : ~DeletedBy(q, t)) /\ \A u : ~MovedBy(q, u)
  BY <1>1 DEF DeletedBy, MovedBy
<1>4. AllPaired /\ Paired(q)
  BY DEF TopicFollows, AllPaired
<1>5. (\A t : ~StartedBy(None, t)) /\ Paired(None)
  BY DEF StartedBy, Paired
<1>6. CASE Devices!Invalidate(h) /\ Len(q.todo) # 1
  <2> DEFINE u == Head(q.todo)
             next == [q EXCEPT !.todo = Tail(@)]
  <2>1. /\ request' = Devices!Outdated([request EXCEPT ![h] = next], {u})
        /\ tasks' = tasks /\ mixed \subseteq mixed'
        /\ UNCHANGED <<device, system, topic, left>>
    BY <1>6 DEF Devices!Invalidate, Devices!Start
  <2>2. next \in Devices!Request
    <3>1. Tail(q.todo) \in Seq(Users) /\ Tail(q.todo) # <<>>
      <4>1. Len(q.todo) \in Nat /\ Len(q.todo) # 0
        BY <1>2, EmptySeq
      <4>2. Tail(q.todo) \in Seq(Users) /\ Len(Tail(q.todo)) = Len(q.todo) - 1
        BY <1>2, HeadTailProperties
      <4>3. Len(Tail(q.todo)) # 0
        BY <1>6, <4>1, <4>2
      <4> QED BY <4>2, <4>3, EmptySeq
    <3>2. q \in [stage : {"invalidate"}, todo : Seq(Users) \ {<<>>}, tasks : SUBSET Devices!Task]
      BY <1>1, <1>2 DEF Devices!Request
    <3> QED BY <3>1, <3>2 DEF Devices!Request
  <2>3. next # None /\ next.stage = "invalidate" /\ next.tasks = q.tasks
    <3>1. next.stage = "invalidate" /\ next.tasks = q.tasks
      <4>1. q \in [stage : {"invalidate"}, todo : Seq(Users) \ {<<>>}, tasks : SUBSET Devices!Task]
        BY <1>1, <1>2 DEF Devices!Request
      <4> QED BY <4>1
    <3> QED BY <2>2, <3>1 DEF Devices!ConstantsAssumption
  <2> HIDE DEF next, u
  <2>4. /\ \A t : StartedBy(next, t) <=> StartedBy(q, t)
        /\ \A t : HandedBy(q, t) => HandedBy(next, t)
        /\ Paired(next)
    BY <1>1, <1>4, <2>3 DEF StartedBy, HandedBy, Paired
  <2> QED BY <1>3, <2>1, <2>2, <2>4, TopicAlone
<1>7. CASE Devices!InvalidateFails(h)
  <2> DEFINE us == Devices!ToSet(q.todo)
  <2>1. /\ request' = Devices!Outdated([request EXCEPT ![h] = None], us)
        /\ mixed' = mixed \cup {k.token : k \in q.tasks}
        /\ UNCHANGED <<device, system, topic, tasks, left>>
    BY <1>7 DEF Devices!InvalidateFails
  <2> HIDE DEF us
  <2>2. /\ \A t : Starting(t) => Starting(t)' \/ StartedBy(q, t)
        /\ \A t : Handed(t) => Handed(t)' \/ HandedBy(q, t)
        /\ \A t : Deleting(t) => Deleting(t)'
        /\ \A u : Moving(u) => Moving(u)'
        /\ AllPaired'
    <3>1. \A t : Starting(t) => Starting(t)' \/ StartedBy(q, t)
      BY <1>4, <2>1, WorkChanges
    <3>2. \A t : Handed(t) => Handed(t)' \/ HandedBy(q, t)
      BY <1>4, <2>1, WorkChanges
    <3>3. \A t : Deleting(t) => Deleting(t)'
      BY <1>3, <1>4, <2>1, WorkChanges
    <3>4. \A u : Moving(u) => Moving(u)'
      BY <1>3, <1>4, <2>1, WorkChanges
    <3>5. AllPaired'
      BY <1>4, <1>5, <2>1, WorkChanges
    <3> QED BY <3>1, <3>2, <3>3, <3>4, <3>5
  <2>3. ASSUME NEW t \in DeviceTokens, Quiet(t)'
        PROVE  /\ Quiet(t) /\ device'[t].user = device[t].user
               /\ (On(t)' <=> On(t)) /\ (Starting(t) => Starting(t)')
    <3>1. t \notin mixed' /\ device'[t] # None /\ ~Deleting(t)' /\ ~Handed(t)'
      BY <2>3 DEF Quiet
    <3>2. ~StartedBy(q, t) /\ ~HandedBy(q, t)
      BY <2>1, <3>1 DEF StartedBy, HandedBy
    <3>3. ~Moving(device[t].user)
      <4>1. PICK v : v = device[t].user
        OBVIOUS
      <4>2. ~Moving(v)'
        BY <2>1, <2>3, <4>1 DEF Quiet, Moving
      <4> QED BY <2>2, <4>1, <4>2
    <3> QED BY <2>1, <2>2, <3>1, <3>2, <3>3 DEF Quiet, On
  <2> QED BY <2>1, <2>2, <2>3, TopicKept
<1>8. CASE Devices!Invalidate(h) /\ Len(q.todo) = 1
  <2> DEFINE u == Head(q.todo)
  <2>1. /\ request' = Devices!Outdated([request EXCEPT ![h] = None], {u})
        /\ tasks' = tasks \cup q.tasks /\ mixed' = mixed \cup Devices!Mixed(q.tasks)
        /\ UNCHANGED <<device, system, topic, left>>
    BY <1>8 DEF Devices!Invalidate, Devices!Start
  <2> HIDE DEF u
  <2>2. /\ \A t : Starting(t) => Starting(t)' \/ StartedBy(q, t)
        /\ \A t : Handed(t) => Handed(t)' \/ HandedBy(q, t)
        /\ \A t : Deleting(t) => Deleting(t)'
        /\ \A v : Moving(v) => Moving(v)'
        /\ AllPaired'
    <3>1. \A t : Starting(t) => Starting(t)' \/ StartedBy(q, t)
      BY <1>4, <2>1, WorkChanges
    <3>2. \A t : Handed(t) => Handed(t)' \/ HandedBy(q, t)
      BY <1>4, <2>1, WorkChanges
    <3>3. \A t : Deleting(t) => Deleting(t)'
      BY <1>3, <1>4, <2>1, WorkChanges
    <3>4. \A v : Moving(v) => Moving(v)'
      BY <1>3, <1>4, <2>1, WorkChanges
    <3>5. AllPaired'
      BY <1>4, <1>5, <2>1, WorkChanges
    <3> QED BY <3>1, <3>2, <3>3, <3>4, <3>5
  \* a new task whose token is not mixed is alone, and checks a token of its user
  <2>3. ASSUME NEW k \in q.tasks, k.token \notin mixed'
        PROVE  /\ \A y \in tasks' : y.token = k.token => y = k
               /\ k.do = "check" /\ k.token \in Devices!TokensOf(k.user)
    <3>1. \A y \in tasks \cup q.tasks : y.token = k.token => y = k
      BY <2>1, <2>3 DEF Devices!Mixed
    <3>2. k.do = "check" => k.token \in Devices!TokensOf(k.user)
      BY <2>1, <2>3 DEF Devices!Mixed
    <3>3. k.do = "check"
      BY <1>1, <1>4, <3>1 DEF Paired
    <3> QED BY <2>1, <3>1, <3>2, <3>3
  <2>4. OneTask'
    <3> SUFFICES ASSUME NEW k \in tasks', NEW l \in tasks', k.token = l.token, k # l,
                        k.token \notin mixed'
                 PROVE  FALSE
      BY DEF OneTask
    <3>1. k \notin q.tasks /\ l \notin q.tasks
      BY <2>3
    <3> QED BY <2>1, <3>1 DEF TopicFollows, OneTask
  <2>5. GoneLeaves'
    <3> SUFFICES ASSUME NEW t \in DeviceTokens, t \notin mixed', device'[t] = None, t \notin left'
                 PROVE  t \notin topic' /\ \A k \in tasks' : k.token = t => k.do = "leave"
      BY DEF GoneLeaves
    <3>1. \A k \in q.tasks : k.token # t
      BY <2>1, <2>3 DEF Devices!TokensOf
    <3> QED BY <2>1, <3>1 DEF TopicFollows, GoneLeaves
  <2>6. ASSUME NEW t \in DeviceTokens, Quiet(t)'
        PROVE  /\ Quiet(t) /\ (On(t)' <=> On(t))
               /\ StartedBy(q, t) => \E k \in q.tasks :
                    k.token = t /\ k.do = "check" /\ device[t].user = k.user
                    /\ \A y \in tasks' : y.token = t => y = k
               /\ ~StartedBy(q, t) => /\ Starting(t) => Starting(t)'
                                      /\ \A k \in tasks' : k.token = t => k \in tasks
    <3>1. t \notin mixed' /\ device'[t] # None /\ ~Deleting(t)' /\ ~Handed(t)'
      BY <2>6 DEF Quiet
    <3>2. ~HandedBy(q, t)
      BY <2>3, <3>1 DEF HandedBy
    <3>3. ~Moving(device[t].user)
      <4>1. PICK v : v = device[t].user
        OBVIOUS
      <4>2. ~Moving(v)'
        BY <2>1, <2>6, <4>1 DEF Quiet, Moving
      <4> QED BY <2>2, <4>1, <4>2
    <3>4. Quiet(t) /\ (On(t)' <=> On(t))
      BY <2>1, <2>2, <3>1, <3>2, <3>3 DEF Quiet, On
    <3>5. StartedBy(q, t) => \E k \in q.tasks :
            k.token = t /\ k.do = "check" /\ device[t].user = k.user
            /\ \A y \in tasks' : y.token = t => y = k
      BY <2>3, <3>1 DEF StartedBy, Devices!TokensOf
    <3>6. ~StartedBy(q, t) => /\ Starting(t) => Starting(t)'
                              /\ \A k \in tasks' : k.token = t => k \in tasks
      BY <1>1, <2>1, <2>2 DEF StartedBy
    <3> QED BY <3>4, <3>5, <3>6
  <2>7. OffLeaves'
    BY <2>1, <2>6 DEF TopicFollows, OffLeaves
  <2>8. TasksFit'
    <3> SUFFICES ASSUME NEW k \in tasks', NEW t \in DeviceTokens, k.token = t, Quiet(t)'
                 PROVE  Fits(k, t)'
      BY DEF TasksFit
    <3>1. CASE StartedBy(q, t)
      <4>1. k.do = "check" /\ device[t].user = k.user
        BY <2>6, <3>1
      <4> QED BY <2>1, <4>1 DEF Fits
    <3>2. CASE ~StartedBy(q, t)
      <4>1. Fits(k, t)
        BY <2>6, <3>2 DEF TopicFollows, TasksFit
      <4> QED BY <2>1, <2>6, <3>2, <4>1 DEF Fits
    <3> QED BY <3>1, <3>2
  <2>9. OnJoined'
    <3> SUFFICES ASSUME NEW t \in DeviceTokens, Quiet(t)', ~Starting(t)', On(t)'
                 PROVE  t \in topic' \/ \E k \in tasks' : k.token = t
      BY DEF OnJoined
    <3>1. CASE StartedBy(q, t)
      BY <2>1, <2>6, <3>1
    <3>2. CASE ~StartedBy(q, t)
      BY <2>1, <2>6, <3>2 DEF TopicFollows, OnJoined
    <3> QED BY <3>1, <3>2
  <2> QED BY <2>2, <2>4, <2>5, <2>7, <2>8, <2>9 DEF TopicFollows
<1> QED BY <1>6, <1>7, <1>8

\* A deletion begins, or the tokens of a user are moved: the tasks for them start.
LEMMA TopicStartStep ==
  ASSUME Devices!ConstantsAssumption, Devices!TypeOK, TopicFollows, NEW h \in Handlers,
         \/ \E u \in Users, t \in DeviceTokens : Devices!DeleteRead(h, u, t)
         \/ Devices!SettingTasks(h)
  PROVE  TopicFollows'
<1> DEFINE q == request[h]
<1>1. AllPaired
  BY DEF TopicFollows
<1>2. ASSUME NEW u \in Users, NEW t \in DeviceTokens, Devices!DeleteRead(h, u, t)
      PROVE  TopicFollows'
  <2> DEFINE next == [stage |-> "delete", user |-> u, token |-> t]
             leave == [do |-> "leave", user |-> u, token |-> t]
  <2>1. /\ q = None /\ t \in Devices!TokensOf(u)
        /\ request' = [request EXCEPT ![h] = next]
        /\ tasks' = tasks \cup {leave} /\ mixed' = mixed \cup Devices!Mixed({leave})
        /\ UNCHANGED <<device, system, topic, left>>
    BY <1>2 DEF Devices!DeleteRead, Devices!Start, Devices!ghosts
  <2>2. next \in Devices!Request /\ next # None
    BY DEF Devices!Request, Devices!ConstantsAssumption
  <2>3. /\ \A x : /\ ~StartedBy(q, x) /\ ~HandedBy(q, x) /\ ~DeletedBy(q, x) /\ ~MovedBy(q, x)
                  /\ ~StartedBy(next, x) /\ ~HandedBy(next, x) /\ ~MovedBy(next, x)
        /\ DeletedBy(next, t) /\ Paired(next)
    BY <2>1, <2>2 DEF StartedBy, HandedBy, DeletedBy, MovedBy, Paired
  <2>4. leave.do = "leave" /\ leave.token = t
    OBVIOUS
  <2>5. \A y \in tasks : y.token = t /\ y # leave => t \in mixed'
    BY <2>1, <2>4 DEF Devices!Mixed
  <2> HIDE DEF next, leave
  <2>6. /\ \A x : Starting(x) => Starting(x)'
        /\ \A x : Handed(x) => Handed(x)'
        /\ \A x : Deleting(x) => Deleting(x)'
        /\ Deleting(t)'
        /\ \A v : Moving(v) => Moving(v)'
        /\ AllPaired'
    <3>1. {} = {}
      OBVIOUS
    <3>2. \A x : Starting(x) => Starting(x)'
      BY <1>1, <2>1, <2>2, <2>3, <3>1, WorkChanges
    <3>3. \A x : Handed(x) => Handed(x)'
      BY <1>1, <2>1, <2>2, <2>3, <3>1, WorkChanges
    <3>4. \A x : /\ Deleting(x) => Deleting(x)'
                 /\ DeletedBy(next, x) => Deleting(x)'
      BY <1>1, <2>1, <2>2, <2>3, <3>1, WorkChanges
    <3>5. \A v : Moving(v) => Moving(v)'
      BY <1>1, <2>1, <2>2, <2>3, <3>1, WorkChanges
    <3>6. AllPaired'
      BY <1>1, <2>1, <2>2, <2>3, <3>1, WorkChanges
    <3> QED BY <2>3, <3>2, <3>3, <3>4, <3>5, <3>6
  <2>7. ASSUME NEW x \in DeviceTokens, Quiet(x)'
        PROVE  x # t /\ Quiet(x) /\ (On(x)' <=> On(x)) /\ (Starting(x) => Starting(x)')
    <3>1. x \notin mixed' /\ device'[x] # None /\ ~Deleting(x)' /\ ~Handed(x)'
      BY <2>7 DEF Quiet
    <3>2. ~Moving(device[x].user)
      <4>1. PICK v : v = device[x].user
        OBVIOUS
      <4>2. ~Moving(v)'
        BY <2>1, <2>7, <4>1 DEF Quiet, Moving
      <4> QED BY <2>6, <4>1, <4>2
    <3> QED BY <2>1, <2>6, <3>1, <3>2 DEF Quiet, On
  <2>8. OneTask'
    BY <2>1, <2>4, <2>5 DEF TopicFollows, OneTask
  <2>9. GoneLeaves'
    BY <2>1, <2>4 DEF TopicFollows, GoneLeaves
  <2>10. OffLeaves'
    BY <2>1, <2>7 DEF TopicFollows, OffLeaves
  <2>11. TasksFit'
    <3> SUFFICES ASSUME NEW k \in tasks', NEW x \in DeviceTokens, k.token = x, Quiet(x)'
                 PROVE  Fits(k, x)'
      BY DEF TasksFit
    <3>1. Fits(k, x)
      BY <2>1, <2>4, <2>7 DEF TopicFollows, TasksFit
    <3> QED BY <2>1, <2>7, <3>1 DEF Fits
  <2>12. OnJoined'
    BY <2>1, <2>7 DEF TopicFollows, OnJoined
  <2> QED BY <2>6, <2>8, <2>9, <2>10, <2>11, <2>12 DEF TopicFollows
<1>3. CASE Devices!SettingTasks(h)
  <2>1. q # None /\ q.stage = "setting"
    BY <1>3 DEF Devices!SettingTasks, Devices!At
  <2> DEFINE u == q.user
             do == IF q.on THEN "join" ELSE "leave"
             new == {[do |-> do, user |-> u, token |-> t] : t \in Devices!TokensOf(u)}
  <2>2. u \in Users /\ q.on \in BOOLEAN
    BY <2>1, TokenRequestTypes
  <2>3. /\ request' = [request EXCEPT ![h] = None]
        /\ tasks' = tasks \cup new
        /\ mixed' = mixed \cup Devices!Mixed(new)
             \cup (IF system[u] # q.on THEN Devices!TokensOf(u) ELSE {})
        /\ UNCHANGED <<device, system, topic, left>>
    BY <1>3 DEF Devices!SettingTasks, Devices!Start, Devices!Done
  <2>4. /\ \A x : /\ ~StartedBy(q, x) /\ ~HandedBy(q, x) /\ ~DeletedBy(q, x)
                  /\ ~StartedBy(None, x) /\ ~HandedBy(None, x)
        /\ \A v : MovedBy(q, v) => v = u
        /\ Paired(None)
    BY <2>1 DEF StartedBy, HandedBy, DeletedBy, MovedBy, Paired
  <2>5. /\ \A x : Starting(x) => Starting(x)'
        /\ \A x : Handed(x) => Handed(x)'
        /\ \A x : Deleting(x) => Deleting(x)'
        /\ \A v : Moving(v) => Moving(v)' \/ v = u
        /\ AllPaired'
    <3>1. {} = {}
      OBVIOUS
    <3>2. \A x : Starting(x) => Starting(x)'
      BY <1>1, <2>3, <2>4, <3>1, WorkChanges
    <3>3. \A x : Handed(x) => Handed(x)'
      BY <1>1, <2>3, <2>4, <3>1, WorkChanges
    <3>4. \A x : Deleting(x) => Deleting(x)'
      BY <1>1, <2>3, <2>4, <3>1, WorkChanges
    <3>5. \A v : Moving(v) => Moving(v)' \/ v = u
      BY <1>1, <2>3, <2>4, <3>1, WorkChanges
    <3>6. AllPaired'
      BY <1>1, <2>3, <2>4, <3>1, WorkChanges
    <3> QED BY <3>2, <3>3, <3>4, <3>5, <3>6
  \* the tasks that start are those of the user's tokens, as the setting of the request says
  <2>6. /\ \A k \in new : /\ k.token \in Devices!TokensOf(u)
                          /\ k.do = IF q.on THEN "join" ELSE "leave"
        /\ \A t \in Devices!TokensOf(u) : \E k \in new : k.token = t
    <3>1. ASSUME NEW k \in new
          PROVE  k.token \in Devices!TokensOf(u) /\ k.do = IF q.on THEN "join" ELSE "leave"
      <4>1. PICK t \in Devices!TokensOf(u) : k = [do |-> do, user |-> u, token |-> t]
        OBVIOUS
      <4> QED BY <4>1
    <3>2. ASSUME NEW t \in Devices!TokensOf(u) PROVE \E k \in new : k.token = t
      <4>1. [do |-> do, user |-> u, token |-> t] \in new
        OBVIOUS
      <4> QED BY <4>1
    <3> QED BY <3>1, <3>2
  <2>7. \A k \in new : \A y \in tasks \cup new : y # k /\ y.token = k.token => k.token \in mixed'
    BY <2>3 DEF Devices!Mixed
  <2> HIDE DEF new, do
  <2>8. ASSUME NEW t \in DeviceTokens, Quiet(t)'
        PROVE  /\ On(t)' <=> On(t)
               /\ \/ /\ device[t].user # u /\ Quiet(t) /\ (Starting(t) => Starting(t)')
                     /\ \A k \in tasks' : k.token = t => k \in tasks
                  \/ \E k \in tasks' : k.token = t /\ k.do = (IF On(t) THEN "join" ELSE "leave")
                                       /\ \A y \in tasks' : y.token = t => y = k
    <3>1. t \notin mixed' /\ device[t] # None /\ ~Deleting(t)' /\ ~Handed(t)'
      BY <2>3, <2>8 DEF Quiet
    <3>2. On(t)' <=> On(t)
      BY <2>3 DEF On
    <3>3. CASE device[t].user # u
      <4>1. PICK v : v = device[t].user
        OBVIOUS
      <4>2. ~Moving(v)'
        BY <2>3, <2>8, <4>1 DEF Quiet, Moving
      <4>3. Quiet(t)
        BY <2>3, <2>5, <3>1, <3>3, <4>1, <4>2 DEF Quiet
      <4>4. \A k \in tasks' : k.token = t => k \in tasks
        BY <2>3, <2>6, <3>3 DEF Devices!TokensOf
      <4> QED BY <2>5, <3>2, <3>3, <4>3, <4>4
    <3>4. CASE device[t].user = u
      <4>1. t \in Devices!TokensOf(u)
        BY <3>1, <3>4 DEF Devices!TokensOf
      <4>2. On(t) <=> q.on
        BY <2>2, <2>3, <3>1, <3>4, <4>1 DEF On, Devices!TypeOK
      <4>3. PICK k \in new : k.token = t
        BY <2>6, <4>1
      <4>4. \A y \in tasks \cup new : y.token = t => y = k
        BY <2>7, <3>1, <4>3
      <4>5. k.do = IF On(t) THEN "join" ELSE "leave"
        BY <2>6, <4>2
      <4> QED BY <2>3, <3>2, <4>3, <4>4, <4>5
    <3> QED BY <3>3, <3>4
  <2>9. OneTask'
    BY <2>3, <2>7 DEF TopicFollows, OneTask
  <2>10. GoneLeaves'
    <3> SUFFICES ASSUME NEW t \in DeviceTokens, t \notin mixed', device'[t] = None, t \notin left'
                 PROVE  t \notin topic' /\ \A k \in tasks' : k.token = t => k.do = "leave"
      BY DEF GoneLeaves
    <3>1. \A k \in new : k.token # t
      BY <2>3, <2>6 DEF Devices!TokensOf
    <3> QED BY <2>3, <3>1 DEF TopicFollows, GoneLeaves
  <2>11. OffLeaves'
    <3> SUFFICES ASSUME NEW t \in DeviceTokens, Quiet(t)', ~On(t)', t \in topic'
                 PROVE  t \in left' \/ \E k \in tasks' : k.token = t /\ k.do = "leave"
      BY DEF OffLeaves
    <3>1. CASE Quiet(t)
      BY <2>3, <2>8, <3>1 DEF TopicFollows, OffLeaves
    <3>2. CASE ~Quiet(t)
      BY <2>8, <3>2
    <3> QED BY <3>1, <3>2
  <2>12. TasksFit'
    <3> SUFFICES ASSUME NEW k \in tasks', NEW t \in DeviceTokens, k.token = t, Quiet(t)'
                 PROVE  Fits(k, t)'
      BY DEF TasksFit
    <3>1. CASE device[t].user # u /\ Quiet(t) /\ (Starting(t) => Starting(t)') /\ k \in tasks
      <4>1. Fits(k, t)
        BY <3>1 DEF TopicFollows, TasksFit
      <4> QED BY <2>3, <2>8, <3>1, <4>1 DEF Fits
    <3>2. CASE k.do = (IF On(t) THEN "join" ELSE "leave")
      BY <2>8, <3>2 DEF Fits
    <3> QED BY <2>8, <3>1, <3>2
  <2>13. OnJoined'
    <3> SUFFICES ASSUME NEW t \in DeviceTokens, Quiet(t)', ~Starting(t)', On(t)'
                 PROVE  t \in topic' \/ \E k \in tasks' : k.token = t
      BY DEF OnJoined
    <3> QED BY <2>3, <2>8 DEF TopicFollows, OnJoined
  <2> QED BY <2>5, <2>9, <2>10, <2>11, <2>12, <2>13 DEF TopicFollows
<1> QED BY <1>2, <1>3

\* A task ends, or goes on from its check.
LEMMA TopicTaskStep ==
  ASSUME Devices!ConstantsAssumption, Devices!TypeOK, TopicFollows, NEW k \in tasks,
         \/ Devices!TaskChecks(k) \/ Devices!TaskJoins(k)
         \/ Devices!TaskLeaves(k) \/ Devices!TaskFails(k)
  PROVE  TopicFollows'
<1>1. /\ request' = request /\ device' = device /\ system' = system /\ mixed \subseteq mixed'
  BY DEF Devices!TaskChecks, Devices!TaskJoins, Devices!TaskLeaves, Devices!TaskFails,
     Devices!ghosts
<1>2. /\ \A t : /\ Starting(t)' <=> Starting(t)
                /\ Quiet(t)' => Quiet(t)
                /\ On(t)' <=> On(t)
      /\ AllPaired'
  <2>1. AllPaired'
    BY <1>1 DEF TopicFollows, AllPaired
  <2>2. \A t : Starting(t)' <=> Starting(t)
    BY <1>1 DEF Starting
  <2>3. \A t : On(t)' <=> On(t)
    BY <1>1 DEF On
  <2>4. \A t : Quiet(t)' => Quiet(t)
    BY <1>1 DEF Quiet, Moving, Deleting, Handed
  <2> QED BY <2>1, <2>2, <2>3, <2>4
<1>3. \A l \in tasks : l # k /\ l.token = k.token => k.token \in mixed
  BY DEF TopicFollows, OneTask
<1>4. \A t \in DeviceTokens : k.token = t /\ Quiet(t) => Fits(k, t)
  BY DEF TopicFollows, TasksFit
<1>5. CASE Devices!TaskChecks(k)
  <2> DEFINE join == [k EXCEPT !.do = "join"]
  <2>1. /\ k.do = "check" /\ UNCHANGED <<topic, mixed, left>>
        /\ tasks' = (tasks \ {k}) \cup (IF system[k.user] THEN {join} ELSE {})
    BY <1>5 DEF Devices!TaskChecks, Devices!ghosts
  <2>2. join.do = "join" /\ join.token = k.token
    BY DEF Devices!TypeOK, Devices!Task
  <2> HIDE DEF join
  <2>3. OneTask'
    BY <1>3, <2>1, <2>2 DEF TopicFollows, OneTask
  <2>4. GoneLeaves'
    BY <1>1, <2>1, <2>2 DEF TopicFollows, GoneLeaves
  <2>5. OffLeaves'
    BY <1>2, <2>1 DEF TopicFollows, OffLeaves
  <2>6. TasksFit'
    <3> SUFFICES ASSUME NEW l \in tasks', NEW t \in DeviceTokens, l.token = t, Quiet(t)'
                 PROVE  Fits(l, t)'
      BY DEF TasksFit
    <3>1. CASE l \in tasks
      <4>1. Fits(l, t)
        BY <1>2, <3>1 DEF TopicFollows, TasksFit
      <4> QED BY <1>1, <1>2, <2>1, <4>1 DEF Fits
    <3>2. CASE l = join /\ system[k.user]
      <4>1. Fits(k, t)
        BY <1>2, <1>4, <2>2, <3>2
      <4> QED BY <1>1, <1>2, <2>1, <2>2, <3>2, <4>1 DEF Fits, On
    <3> QED BY <2>1, <3>1, <3>2
  <2>7. OnJoined'
    <3> SUFFICES ASSUME NEW t \in DeviceTokens, Quiet(t)', ~Starting(t)', On(t)', t \notin topic'
                 PROVE  \E l \in tasks' : l.token = t
      BY DEF OnJoined
    <3>1. PICK l \in tasks : l.token = t
      BY <1>2, <2>1 DEF TopicFollows, OnJoined
    <3>2. CASE l = k
      <4>1. system[k.user]
        BY <1>2, <1>4, <2>1, <3>1, <3>2 DEF Fits, On
      <4> QED BY <2>1, <2>2, <3>1, <3>2, <4>1
    <3>3. CASE l # k
      BY <2>1, <3>1, <3>3
    <3> QED BY <3>2, <3>3
  <2> QED BY <1>2, <2>3, <2>4, <2>5, <2>6, <2>7 DEF TopicFollows
<1>6. CASE Devices!TaskJoins(k)
  <2>1. /\ k.do = "join" /\ topic' = topic \cup {k.token} /\ tasks' = tasks \ {k}
        /\ UNCHANGED <<mixed, left>>
    BY <1>6 DEF Devices!TaskJoins, Devices!ghosts
  <2>2. OneTask'
    BY <2>1 DEF TopicFollows, OneTask
  <2>3. GoneLeaves'
    BY <1>1, <2>1 DEF TopicFollows, GoneLeaves
  <2>4. OffLeaves'
    BY <1>2, <1>4, <2>1 DEF TopicFollows, OffLeaves, Fits
  <2>5. TasksFit'
    <3> SUFFICES ASSUME NEW l \in tasks', NEW t \in DeviceTokens, l.token = t, Quiet(t)'
                 PROVE  Fits(l, t)'
      BY DEF TasksFit
    <3>1. Fits(l, t)
      BY <1>2, <2>1 DEF TopicFollows, TasksFit
    <3> QED BY <1>1, <1>2, <2>1, <3>1 DEF Fits
  <2>6. OnJoined'
    BY <1>2, <2>1 DEF TopicFollows, OnJoined
  <2> QED BY <1>2, <2>2, <2>3, <2>4, <2>5, <2>6 DEF TopicFollows
<1>7. CASE Devices!TaskLeaves(k)
  <2>1. /\ k.do = "leave" /\ topic' = topic \ {k.token} /\ tasks' = tasks \ {k}
        /\ left' = left \ {k.token} /\ mixed' = mixed
    BY <1>7 DEF Devices!TaskLeaves
  <2>2. OneTask'
    BY <2>1 DEF TopicFollows, OneTask
  <2>3. GoneLeaves'
    <3> SUFFICES ASSUME NEW t \in DeviceTokens, t \notin mixed', device'[t] = None, t \notin left'
                 PROVE  t \notin topic' /\ \A l \in tasks' : l.token = t => l.do = "leave"
      BY DEF GoneLeaves
    <3>1. CASE t = k.token
      BY <1>3, <2>1, <3>1
    <3>2. CASE t # k.token
      BY <1>1, <2>1, <3>2 DEF TopicFollows, GoneLeaves
    <3> QED BY <3>1, <3>2
  <2>4. OffLeaves'
    <3> SUFFICES ASSUME NEW t \in DeviceTokens, Quiet(t)', ~On(t)', t \in topic'
                 PROVE  t \in left' \/ \E l \in tasks' : l.token = t /\ l.do = "leave"
      BY DEF OffLeaves
    <3>1. t # k.token
      BY <2>1
    <3> QED BY <1>2, <2>1, <3>1 DEF TopicFollows, OffLeaves
  <2>5. TasksFit'
    <3> SUFFICES ASSUME NEW l \in tasks', NEW t \in DeviceTokens, l.token = t, Quiet(t)'
                 PROVE  Fits(l, t)'
      BY DEF TasksFit
    <3>1. Fits(l, t)
      BY <1>2, <2>1 DEF TopicFollows, TasksFit
    <3>2. t # k.token
      BY <1>2, <1>3, <2>1 DEF Quiet
    <3> QED BY <1>1, <1>2, <2>1, <3>1, <3>2 DEF Fits
  <2>6. OnJoined'
    <3> SUFFICES ASSUME NEW t \in DeviceTokens, Quiet(t)', ~Starting(t)', On(t)'
                 PROVE  t \in topic' \/ \E l \in tasks' : l.token = t
      BY DEF OnJoined
    <3>1. t # k.token
      BY <1>2, <1>4, <2>1 DEF Fits
    <3> QED BY <1>2, <2>1, <3>1 DEF TopicFollows, OnJoined
  <2> QED BY <1>2, <2>2, <2>3, <2>4, <2>5, <2>6 DEF TopicFollows
<1>8. CASE Devices!TaskFails(k)
  <2>1. /\ tasks' = tasks \ {k} /\ mixed' = mixed \cup {k.token} /\ UNCHANGED <<topic, left>>
    BY <1>8 DEF Devices!TaskFails
  <2>2. \A t : Quiet(t)' => t # k.token
    BY <2>1 DEF Quiet
  <2>3. OneTask'
    BY <2>1 DEF TopicFollows, OneTask
  <2>4. GoneLeaves'
    BY <1>1, <2>1 DEF TopicFollows, GoneLeaves
  <2>5. OffLeaves'
    BY <1>2, <2>1, <2>2 DEF TopicFollows, OffLeaves
  <2>6. TasksFit'
    <3> SUFFICES ASSUME NEW l \in tasks', NEW t \in DeviceTokens, l.token = t, Quiet(t)'
                 PROVE  Fits(l, t)'
      BY DEF TasksFit
    <3>1. Fits(l, t)
      BY <1>2, <2>1 DEF TopicFollows, TasksFit
    <3> QED BY <1>1, <1>2, <2>1, <3>1 DEF Fits
  <2>7. OnJoined'
    <3> SUFFICES ASSUME NEW t \in DeviceTokens, Quiet(t)', ~Starting(t)', On(t)'
                 PROVE  t \in topic' \/ \E l \in tasks' : l.token = t
      BY DEF OnJoined
    <3>1. t # k.token
      BY <2>2
    <3> QED BY <1>2, <2>1, <3>1 DEF TopicFollows, OnJoined
  <2> QED BY <1>2, <2>3, <2>4, <2>5, <2>6, <2>7 DEF TopicFollows
<1> QED BY <1>5, <1>6, <1>7, <1>8

LEMMA TopicStep ==
  ASSUME Devices!ConstantsAssumption, Devices!TypeOK, TopicFollows, [Devices!Next]_Devices!vars
  PROVE  TopicFollows'
<1>1. ASSUME UNCHANGED <<request, device, system, topic, tasks, mixed, left>>
      PROVE  TopicFollows'
  <2>1. /\ AllPaired' /\ OneTask' /\ GoneLeaves'
    BY <1>1 DEF TopicFollows, AllPaired, OneTask, GoneLeaves
  <2>2. \A t : (Starting(t)' <=> Starting(t)) /\ (On(t)' <=> On(t)) /\ (Quiet(t)' <=> Quiet(t))
    BY <1>1 DEF Starting, On, Quiet, Moving, Deleting, Handed
  <2>3. OffLeaves' /\ OnJoined'
    BY <1>1, <2>2 DEF TopicFollows, OffLeaves, OnJoined
  <2>4. TasksFit'
    BY <1>1, <2>2 DEF TopicFollows, TasksFit, Fits
  <2> QED BY <2>1, <2>3, <2>4 DEF TopicFollows
<1>2. CASE UNCHANGED Devices!vars
  BY <1>1, <1>2 DEF Devices!vars
<1>3. ASSUME NEW u \in Users, Devices!Expire(u) PROVE TopicFollows'
  BY <1>1, <1>3 DEF Devices!Expire
<1>4. CASE Devices!Next
  BY <1>3, <1>4, TopicReadStep, TopicRemoveStep, TopicReplaceStep, TopicInvalidateStep,
     TopicStartStep, TopicTaskStep DEF Devices!Next
<1> QED BY <1>2, <1>4

LEMMA TokensBegin ==
  ASSUME Devices!ConstantsAssumption, Devices!Init PROVE CopiesFollow /\ TopicFollows
<1>1. CopiesFollow
  BY DEF Devices!Init, CopiesFollow, CopiesRight, FillsRight, Fresh, Devices!At
<1>2. AllPaired /\ OneTask /\ TasksFit
  BY DEF Devices!Init, AllPaired, Paired, OneTask, TasksFit
<1>3. GoneLeaves /\ OffLeaves /\ OnJoined
  BY DEF Devices!Init, GoneLeaves, OffLeaves, OnJoined, Quiet
<1> QED BY <1>1, <1>2, <1>3 DEF TopicFollows

LEMMA TokensAgree ==
  ASSUME Devices!ConstantsAssumption, Devices!TypeOK, CopiesFollow, TopicFollows
  PROVE  Devices!TokenCopiesAgree
<1>1. ASSUME NEW u \in Users \ (stray \cup Devices!Uninvalidated), cache[u] # {}
      PROVE  /\ cache[u] \ {Blank} = Devices!TokensOf(u)
             /\ Blank \in cache[u] => Devices!TokensOf(u) = {}
  <2>1. cache[u] = IF Devices!TokensOf(u) = {} THEN {Blank} ELSE Devices!TokensOf(u)
    BY <1>1 DEF CopiesFollow, CopiesRight
  <2>2. Blank \notin Devices!TokensOf(u)
    BY DEF Devices!TokensOf, Devices!ConstantsAssumption
  <2> QED BY <2>1, <2>2
<1>2. ASSUME NEW t \in DeviceTokens \ (mixed \cup Devices!Unsettled), device[t] # None
      PROVE  IF system[device[t].user] THEN t \in topic ELSE t \in topic => t \in left
  <2>1. \A k \in tasks : k.token # t
    BY <1>2 DEF Devices!Unsettled
  <2>2. ~Starting(t)
    BY <1>2 DEF Devices!Unsettled, Starting, StartedBy, Devices!At
  <2>3. ~Handed(t)
    BY <2>2 DEF Starting, StartedBy, Handed, HandedBy
  <2>4. ~Deleting(t)
    BY <1>2 DEF Devices!Unsettled, Deleting, DeletedBy, Devices!At
  <2>5. ~Moving(device[t].user)
    <3>1. t \in Devices!TokensOf(device[t].user)
      BY <1>2 DEF Devices!TokensOf
    <3> QED BY <1>2, <3>1 DEF Devices!Unsettled, Moving, MovedBy, Devices!At
  <2>6. Quiet(t)
    BY <1>2, <2>3, <2>4, <2>5 DEF Quiet
  <2> QED BY <2>1, <2>2, <2>6 DEF TopicFollows, OffLeaves, OnJoined, On
<1> QED BY <1>1, <1>2 DEF Devices!TokenCopiesAgree

\* The copies of the tokens and the topic follow the rows (getUserTokens, registerToken,
\* deleteToken, updateSettings): a copy that no invalidation is on its way for is that of the
\* rows, but after a fill that overtook one, and a token that no task is to move is on the
\* topic as its user's setting says.
THEOREM TokenCopiesAgreeHolds ==
  ASSUME Devices!ConstantsAssumption PROVE Devices!Spec => []Devices!TokenCopiesAgree
<1> DEFINE Inv == Devices!TypeOK /\ CopiesFollow /\ TopicFollows
<1>1. Devices!Init => Inv
  BY TokensTypedInit, TokensBegin
<1>2. Inv /\ [Devices!Next]_Devices!vars => Inv'
  <2> SUFFICES ASSUME Inv, [Devices!Next]_Devices!vars PROVE Inv'
    OBVIOUS
  <2>1. Devices!TypeOK'
    BY TokensTypedStep
  <2>2. CopiesFollow'
    BY CopiesStep
  <2>3. TopicFollows'
    BY TopicStep
  <2> QED BY <2>1, <2>2, <2>3
<1>3. Inv => Devices!TokenCopiesAgree
  BY TokensAgree
<1> QED BY <1>1, <1>2, <1>3, PTL DEF Devices!Spec

-----------------------------------------------------------------------------
(* AnnouncementBoard: the copies of an announcement, and its views.        *)

\* A fill of a copy that is not out of date, and what it has read.
Filling(x, stage, s) ==
  /\ Board!At(x, stage) /\ ~request[x].stale
  /\ request[x].got = s

\* Nobody is at work on an announcement that there is not; and one is read as one.
BoardBegins ==
  row = None => /\ content = None
                /\ \A x \in Handlers : request[x] = None \/ request[x].stage = "store list"
OneRead ==
  \A x \in Handlers : Board!At(x, "store content") => \E c \in Board!Copy : request[x].got = {c}

\* What is copied, or is on its way to be, is what is found.
CopyRight ==
  /\ "content" \notin late \cup Board!Dropping /\ content # None => {content} = Board!Found
  /\ "list" \notin late \cup Board!Dropping /\ list # None => list = Board!Found
FillRight ==
  \A x \in Handlers, s \in SUBSET Board!Copy :
    /\ "content" \notin Board!Dropping /\ Filling(x, "store content", s) => s = Board!Found
    /\ "list" \notin Board!Dropping /\ Filling(x, "store list", s) => s = Board!Found

\* One run at a time carries no more than there is, and what it carries is counted once.
OneRun ==
  \A x, y \in Servers : sync[x] # None /\ sync[y] # None => x = y
Carried(x) ==
  /\ sync[x].stage = "add" => sync[x].n <= hits /\ count + hits = views
  /\ sync[x].stage = "subtract" => sync[x].n <= hits /\ count + hits - sync[x].n = views
  /\ sync[x].stage = "delete" => hits = 0 /\ count + hits = views
  /\ sync[x].stage = "untrack" => count + hits = views
ViewsCounted ==
  ~raced => /\ OneRun /\ hits >= 0
            /\ \A x \in Servers : sync[x] # None => Carried(x)
            /\ (\A x \in Servers : sync[x] = None) => count + hits = views

BoardInvariant ==
  Board!TypeOK /\ BoardBegins /\ OneRead /\ CopyRight /\ FillRight /\ ViewsCounted

\* What a request holds, by its stage.
LEMMA BoardRequestTypes ==
  ASSUME Board!TypeOK, NEW h \in Handlers, request[h] # None
  PROVE  /\ request[h] \in Board!Request
         /\ request[h].stage \in {"store content", "store list"} =>
              /\ request[h].got \subseteq Board!Copy /\ request[h].stale \in BOOLEAN
              /\ request[h] \in [stage : {"store content", "store list"}, got : SUBSET Board!Copy,
                                 stale : BOOLEAN]
<1>1. request[h] \in Board!Request
  BY DEF Board!TypeOK
<1> QED BY <1>1 DEF Board!Request

\* The fills of a copy are marked, and the other requests stay as they are.
LEMMA OutdatedCopies ==
  ASSUME Board!ConstantsAssumption, NEW req \in [Handlers -> {None} \cup Board!Request],
         NEW copy \in {"store content", "store list"}
  PROVE  /\ Board!Outdated(req, copy) \in [Handlers -> {None} \cup Board!Request]
         /\ \A x \in Handlers :
              IF req[x] # None /\ req[x].stage = copy
                THEN /\ Board!Outdated(req, copy)[x] # None
                     /\ Board!Outdated(req, copy)[x].stage = copy
                     /\ Board!Outdated(req, copy)[x].got = req[x].got
                     /\ Board!Outdated(req, copy)[x].stale
                ELSE Board!Outdated(req, copy)[x] = req[x]
<1> DEFINE fill(x) == req[x] # None /\ req[x].stage = copy
<1>1. ASSUME NEW x \in Handlers, fill(x)
      PROVE  /\ [req[x] EXCEPT !.stale = TRUE] \in Board!Request
             /\ [req[x] EXCEPT !.stale = TRUE].stage = copy
             /\ [req[x] EXCEPT !.stale = TRUE].got = req[x].got
             /\ [req[x] EXCEPT !.stale = TRUE].stale
  <2>1. req[x] \in [stage : {"store content", "store list"}, got : SUBSET Board!Copy, stale : BOOLEAN]
    BY <1>1 DEF Board!Request
  <2> QED BY <1>1, <2>1 DEF Board!Request
<1>2. \A x \in Handlers : Board!Outdated(req, copy)[x] =
                            IF fill(x) THEN [req[x] EXCEPT !.stale = TRUE] ELSE req[x]
  BY DEF Board!Outdated
<1>3. None \notin Board!Request
  BY DEF Board!ConstantsAssumption
<1>4. Board!Outdated(req, copy) \in [Handlers -> {None} \cup Board!Request]
  BY <1>1, <1>2 DEF Board!Outdated
<1> QED BY <1>1, <1>2, <1>3, <1>4

\* A step that changes none of the copies: one request goes on, and not with a fill.
LEMMA BoardGoesOn ==
  ASSUME Board!ConstantsAssumption, BoardInvariant, NEW h \in Handlers,
         NEW r \in {None} \cup Board!Request, request' = [request EXCEPT ![h] = r],
         row # None, UNCHANGED <<row, content, list, late>>,
         ~Board!At(h, "drop content"), ~Board!At(h, "drop list"),
         r # None => r.stage \notin {"store content", "store list"}
  PROVE  /\ request' \in [Handlers -> {None} \cup Board!Request]
         /\ BoardBegins' /\ OneRead' /\ CopyRight' /\ FillRight'
<1>1. request \in [Handlers -> {None} \cup Board!Request]
  BY DEF BoardInvariant, Board!TypeOK
<1>2. Board!Dropping \subseteq Board!Dropping'
  <2>1. \A x \in Handlers : /\ Board!At(x, "drop content") => Board!At(x, "drop content")'
                            /\ Board!At(x, "drop list") => Board!At(x, "drop list")'
    BY <1>1 DEF Board!At
  <2> QED BY <2>1 DEF Board!Dropping
<1>3. \A x \in Handlers : /\ Board!At(x, "store content")' => request'[x] = request[x]
                          /\ Board!At(x, "store list")' => request'[x] = request[x]
  BY <1>1 DEF Board!At
<1>4. Board!Found' = Board!Found
  BY DEF Board!Found, Board!Exists
<1>5. OneRead'
  BY <1>3 DEF BoardInvariant, OneRead, Board!At
<1>6. CopyRight'
  BY <1>2, <1>4 DEF BoardInvariant, CopyRight
<1>7. FillRight'
  BY <1>2, <1>3, <1>4 DEF BoardInvariant, FillRight, Filling, Board!At
<1> QED BY <1>1, <1>5, <1>6, <1>7 DEF BoardBegins

\* A step after which some copies cs are gone or known to be late, and their fills marked.
LEMMA BoardGivesUp ==
  ASSUME Board!ConstantsAssumption, BoardInvariant, NEW cs \in SUBSET {"content", "list"},
         Board!Found' = Board!Found \/ {"content", "list"} \subseteq cs \cup Board!Dropping',
         "content" \in cs => content' = None \/ "content" \in late',
         "content" \notin cs => content' = content,
         "list" \in cs => list' = None \/ "list" \in late',
         "list" \notin cs => list' = list,
         late \subseteq cs \cup late', Board!Dropping \subseteq cs \cup Board!Dropping',
         \A x \in Handlers :
           /\ Board!At(x, "store content")' =>
                /\ Board!At(x, "store content") /\ request'[x].got = request[x].got
                /\ request[x].stale => request'[x].stale
                /\ "content" \in cs => request'[x].stale
           /\ Board!At(x, "store list")' =>
                /\ Board!At(x, "store list") /\ request'[x].got = request[x].got
                /\ request[x].stale => request'[x].stale
                /\ "list" \in cs => request'[x].stale
  PROVE  OneRead' /\ CopyRight' /\ FillRight'
<1>1. OneRead'
  BY DEF BoardInvariant, OneRead
<1>2. CopyRight'
  BY DEF BoardInvariant, CopyRight
<1>3. FillRight'
  BY DEF BoardInvariant, FillRight, Filling
<1> QED BY <1>1, <1>2, <1>3

\* The counting is left alone.
LEMMA ViewsKept ==
  ASSUME BoardInvariant, UNCHANGED Board!counting PROVE ViewsCounted'
BY DEF BoardInvariant, Board!counting, ViewsCounted, OneRun, Carried

LEMMA BoardWriteStep ==
  ASSUME Board!ConstantsAssumption, BoardInvariant,
         \/ \E h \in Handlers : \/ Board!Create(h) \/ Board!Find(h, "update")
                                \/ Board!Find(h, "remove") \/ Board!Write(h)
         \/ Board!TogglePin
  PROVE  BoardInvariant'
<1>1. /\ request \in [Handlers -> {None} \cup Board!Request] /\ row \in {None} \cup Board!Row
      /\ None \notin Board!Row /\ None \notin Board!Request
      /\ requests \in 0..BoardRequests /\ BoardRequests \in Nat
  BY DEF BoardInvariant, Board!TypeOK, Board!ConstantsAssumption
<1>2. /\ UNCHANGED Board!counting
      /\ content' = content /\ list' = list /\ requests' \in 0..BoardRequests /\ faults' = faults
      /\ late' = late \/ late' = {"content", "list"}
  <2>1. ASSUME NEW h \in Handlers, Board!Create(h) \/ Board!Find(h, "update") \/ Board!Find(h, "remove")
        PROVE  /\ UNCHANGED Board!counting /\ UNCHANGED Board!copies
               /\ requests' \in 0..BoardRequests /\ faults' = faults
    <3>1. Board!NewRequest /\ UNCHANGED Board!counting /\ UNCHANGED Board!copies /\ faults' = faults
      BY <2>1 DEF Board!Create, Board!Find
    <3> QED BY <1>1, <3>1 DEF Board!NewRequest
  <2>2. ASSUME NEW h \in Handlers, Board!Write(h)
        PROVE  UNCHANGED <<requests, faults>> /\ UNCHANGED Board!counting /\ UNCHANGED Board!copies
    BY <2>2 DEF Board!Write
  <2>3. ASSUME Board!TogglePin
        PROVE  /\ UNCHANGED Board!counting /\ UNCHANGED <<content, list>>
               /\ requests' \in 0..BoardRequests /\ faults' = faults /\ late' = {"content", "list"}
    <3>1. /\ Board!NewRequest /\ UNCHANGED Board!counting /\ UNCHANGED <<content, list>>
          /\ faults' = faults /\ late' = {"content", "list"}
      BY <2>3 DEF Board!TogglePin
    <3> QED BY <1>1, <3>1 DEF Board!NewRequest
  <2> QED BY <1>1, <2>1, <2>2, <2>3 DEF Board!copies
<1>3. ViewsCounted'
  BY <1>2, ViewsKept
<1>4. ASSUME row' \in {None} \cup Board!Row, request' \in [Handlers -> {None} \cup Board!Request],
             row' # None, OneRead', CopyRight', FillRight'
      PROVE  BoardInvariant'
  <2>1. Board!TypeOK'
    BY <1>2, <1>4 DEF BoardInvariant, Board!TypeOK, Board!counting
  <2> QED BY <1>3, <1>4, <2>1 DEF BoardInvariant, BoardBegins
<1>5. ASSUME NEW h \in Handlers, Board!Create(h) PROVE BoardInvariant'
  <2> DEFINE next == [stage |-> "drop list"]
  <2>1. /\ row = None /\ row' = [text |-> 0, pinned |-> FALSE, alive |-> TRUE]
        /\ request' = [request EXCEPT ![h] = next] /\ late' = late
    BY <1>5 DEF Board!Create, Board!Go, Board!copies
  <2>2. next \in Board!Request
    BY DEF Board!Request
  <2>3. content = None /\ \A x \in Handlers : request[x] = None \/ request[x].stage = "store list"
    BY <2>1 DEF BoardInvariant, BoardBegins
  <2>4. Board!At(h, "drop list")'
    BY <1>1, <2>1, <2>2 DEF Board!At
  <2>5. "list" \in Board!Dropping'
    BY <2>4 DEF Board!Dropping
  <2>6. \A x \in Handlers : ~Board!At(x, "store content")'
    BY <1>1, <2>1, <2>3 DEF Board!At
  <2>7. row' \in Board!Row
    BY <2>1 DEF Board!Row
  <2>8. CopyRight' /\ FillRight' /\ OneRead'
    BY <1>2, <2>3, <2>5, <2>6 DEF CopyRight, FillRight, OneRead, Filling
  <2> QED BY <1>1, <1>4, <2>1, <2>2, <2>7, <2>8
<1>6. ASSUME NEW h \in Handlers, NEW do \in {"update", "remove"}, Board!Find(h, do)
      PROVE  BoardInvariant'
  <2> DEFINE next == [stage |-> do]
  <2>1. /\ row # None /\ row' = row /\ request[h] = None
        /\ request' = [request EXCEPT ![h] = next] /\ late' = late
    BY <1>6 DEF Board!Find, Board!Go, Board!copies, Board!Exists
  <2>2. next \in Board!Request
    BY DEF Board!Request
  <2>3. OneRead' /\ CopyRight' /\ FillRight'
    <3>1. ~Board!At(h, "drop content") /\ ~Board!At(h, "drop list")
      BY <2>1 DEF Board!At
    <3>2. next.stage \notin {"store content", "store list"}
      OBVIOUS
    <3> HIDE DEF next
    <3> QED BY <1>2, <2>1, <2>2, <3>1, <3>2, BoardGoesOn
  <2> QED BY <1>1, <1>4, <2>1, <2>2, <2>3
<1>7. ASSUME NEW h \in Handlers, Board!Write(h) PROVE BoardInvariant'
  <2> DEFINE next == [stage |-> "drop content"]
  <2>1. /\ request[h] # None /\ request[h].stage \in {"update", "remove"}
        /\ request' = [request EXCEPT ![h] = next] /\ late' = late
    BY <1>7 DEF Board!Write, Board!Go, Board!copies, Board!At
  <2>2. next \in Board!Request
    BY DEF Board!Request
  <2>3. row \in Board!Row
    BY <1>1, <2>1 DEF BoardInvariant, BoardBegins
  <2>4. row' \in Board!Row
    <3>1. CASE \E p \in {row.pinned, TRUE} : row' = [row EXCEPT !.text = @ + 1, !.pinned = p]
      <4>1. PICK p \in {row.pinned, TRUE} : row' = [row EXCEPT !.text = @ + 1, !.pinned = p]
        BY <3>1
      <4> DEFINE half == [row EXCEPT !.text = row.text + 1]
      <4>2. row.text + 1 \in Nat /\ row.pinned \in BOOLEAN
        BY <2>3 DEF Board!Row
      <4>3. half \in Board!Row /\ p \in BOOLEAN
        <5> DEFINE n == row.text + 1
        <5>1. n \in Nat
          BY <4>2
        <5> HIDE DEF n
        <5>2. [row EXCEPT !.text = n] \in Board!Row
          BY <2>3, <5>1 DEF Board!Row
        <5> QED BY <4>2, <5>2 DEF n
      <4>4. row' = [half EXCEPT !.pinned = p]
        BY <2>3, <4>1 DEF Board!Row
      <4> QED BY <4>3, <4>4 DEF Board!Row
    <3>2. CASE row' = [row EXCEPT !.alive = FALSE]
      BY <2>3, <3>2 DEF Board!Row
    <3> QED BY <1>7, <3>1, <3>2 DEF Board!Write
  <2>5. Board!At(h, "drop content")'
    BY <1>1, <2>1, <2>2 DEF Board!At
  <2>6. {"content", "list"} \subseteq Board!Dropping'
    BY <2>5 DEF Board!Dropping
  <2>7. Board!Dropping \subseteq {"content", "list"}
    BY DEF Board!Dropping
  <2>8. OneRead' /\ CopyRight' /\ FillRight'
    <3>1. \A x \in Handlers : /\ Board!At(x, "store content")' => request'[x] = request[x]
                              /\ Board!At(x, "store list")' => request'[x] = request[x]
      BY <1>1, <2>1, <2>2 DEF Board!At
    <3>2. OneRead'
      BY <3>1 DEF BoardInvariant, OneRead, Board!At
    <3> QED BY <2>6, <3>2 DEF CopyRight, FillRight
  <2> QED BY <1>1, <1>4, <2>1, <2>2, <2>4, <2>8
<1>8. ASSUME Board!TogglePin PROVE BoardInvariant'
  <2> DEFINE half == Board!Outdated(request, "store content")
  <2>1. /\ row # None /\ row' = [row EXCEPT !.pinned = ~@]
        /\ request' = Board!Outdated(half, "store list") /\ late' = {"content", "list"}
    BY <1>8 DEF Board!TogglePin, Board!Exists
  <2>2. row' \in Board!Row
    BY <1>1, <2>1 DEF Board!Row
  <2>3. half \in [Handlers -> {None} \cup Board!Request]
    BY <1>1, OutdatedCopies
  <2>4. \A x \in Handlers :
           IF request[x] # None /\ request[x].stage = "store content"
             THEN /\ half[x] # None /\ half[x].stage = "store content"
                  /\ half[x].got = request[x].got /\ half[x].stale
             ELSE half[x] = request[x]
    BY <1>1, OutdatedCopies
  <2> HIDE DEF half
  <2>5. request' \in [Handlers -> {None} \cup Board!Request]
    BY <2>1, <2>3, OutdatedCopies
  <2>6. \A x \in Handlers :
           IF half[x] # None /\ half[x].stage = "store list"
             THEN /\ request'[x] # None /\ request'[x].stage = "store list"
                  /\ request'[x].got = half[x].got /\ request'[x].stale
             ELSE request'[x] = half[x]
    BY <2>1, <2>3, OutdatedCopies
  <2>7. \A x \in Handlers :
          /\ Board!At(x, "store content")' =>
                Board!At(x, "store content") /\ request'[x].got = request[x].got /\ request'[x].stale
          /\ Board!At(x, "store list")' =>
                Board!At(x, "store list") /\ request'[x].got = request[x].got /\ request'[x].stale
          /\ Board!At(x, "drop content") => Board!At(x, "drop content")'
          /\ Board!At(x, "drop list") => Board!At(x, "drop list")'
    BY <2>4, <2>6 DEF Board!At
  <2>8. OneRead' /\ CopyRight' /\ FillRight'
    <3>1. OneRead'
      BY <2>7 DEF BoardInvariant, OneRead
    <3>2. CopyRight' /\ FillRight'
      BY <2>1, <2>7 DEF CopyRight, FillRight, Filling
    <3> QED BY <3>1, <3>2
  <2> QED BY <1>1, <1>4, <2>2, <2>5, <2>8
<1> QED BY <1>5, <1>6, <1>7, <1>8

LEMMA BoardDropStep ==
  ASSUME Board!ConstantsAssumption, BoardInvariant,
         \/ \E h \in Handlers : Board!DropContent(h) \/ Board!DropList(h) \/ Board!DropFails(h)
         \/ Board!ExpireContent \/ Board!ExpireList
  PROVE  BoardInvariant'
<1>1. /\ request \in [Handlers -> {None} \cup Board!Request]
      /\ None \notin Board!Request /\ BoardFaults \in Nat /\ faults \in 0..BoardFaults
  BY DEF BoardInvariant, Board!TypeOK, Board!ConstantsAssumption
<1>2. /\ UNCHANGED Board!counting /\ row' = row /\ requests' = requests
      /\ faults' \in 0..BoardFaults
      /\ content' \in {None, content} /\ list' \in {None, list} /\ late' \subseteq late \cup {"content", "list"}
  <2>1. ASSUME NEW h \in Handlers, Board!DropContent(h) \/ Board!DropList(h)
        PROVE  /\ UNCHANGED Board!counting /\ row' = row /\ requests' = requests /\ faults' = faults
               /\ content' \in {None, content} /\ list' \in {None, list} /\ late' \subseteq late
    BY <2>1 DEF Board!DropContent, Board!DropList
  <2>2. ASSUME NEW h \in Handlers, Board!DropFails(h)
        PROVE  /\ UNCHANGED Board!counting /\ row' = row /\ requests' = requests
               /\ faults' \in 0..BoardFaults
               /\ UNCHANGED <<content, list>> /\ late' \subseteq late \cup {"content", "list"}
    <3>1. /\ Board!NewFault /\ UNCHANGED Board!counting /\ row' = row /\ requests' = requests
          /\ UNCHANGED <<content, list>> /\ late' \subseteq late \cup {"content", "list"}
      BY <2>2 DEF Board!DropFails
    <3> QED BY <1>1, <3>1 DEF Board!NewFault
  <2>3. ASSUME Board!ExpireContent \/ Board!ExpireList
        PROVE  /\ UNCHANGED Board!counting /\ row' = row /\ requests' = requests /\ faults' = faults
               /\ content' \in {None, content} /\ list' \in {None, list} /\ late' \subseteq late
    BY <2>3 DEF Board!ExpireContent, Board!ExpireList
  <2> QED BY <1>1, <2>1, <2>2, <2>3
<1>3. ViewsCounted'
  BY <1>2, ViewsKept
<1>4. Board!Found' = Board!Found
  BY <1>2 DEF Board!Found, Board!Exists
<1>5. ASSUME request' \in [Handlers -> {None} \cup Board!Request], BoardBegins', OneRead',
             CopyRight', FillRight'
      PROVE  BoardInvariant'
  <2>1. Board!TypeOK'
    BY <1>2, <1>5 DEF BoardInvariant, Board!TypeOK, Board!counting
  <2> QED BY <1>3, <1>5, <2>1 DEF BoardInvariant
<1>6. CASE Board!ExpireContent \/ Board!ExpireList
  <2>1. /\ request' = request
        /\ \/ content' = None /\ late' = late \ {"content"} /\ list' = list
           \/ list' = None /\ late' = late \ {"list"} /\ content' = content
    BY <1>6 DEF Board!ExpireContent, Board!ExpireList
  <2>2. Board!Dropping' = Board!Dropping
    BY <2>1 DEF Board!Dropping, Board!At
  <2>3. CopyRight'
    BY <1>4, <2>1, <2>2 DEF BoardInvariant, CopyRight
  <2>4. FillRight' /\ OneRead'
    BY <1>4, <2>1, <2>2 DEF BoardInvariant, FillRight, OneRead, Filling, Board!At
  <2>5. BoardBegins'
    BY <1>2, <2>1 DEF BoardInvariant, BoardBegins
  <2> QED BY <1>1, <1>5, <2>1, <2>3, <2>4, <2>5
\* the fills of the copies cs are marked, and the request goes on with r
<1>7. ASSUME NEW h \in Handlers, NEW r \in {None} \cup Board!Request, NEW copy \in {"store content", "store list"},
             request' = Board!Outdated([request EXCEPT ![h] = r], copy),
             r = None \/ r.stage = "drop list", row # None
      PROVE  /\ request' \in [Handlers -> {None} \cup Board!Request] /\ BoardBegins'
             /\ \A x \in Handlers :
                  /\ Board!At(x, "store content")' =>
                       /\ Board!At(x, "store content") /\ request'[x].got = request[x].got
                       /\ request[x].stale => request'[x].stale
                       /\ copy = "store content" => request'[x].stale
                  /\ Board!At(x, "store list")' =>
                       /\ Board!At(x, "store list") /\ request'[x].got = request[x].got
                       /\ request[x].stale => request'[x].stale
                       /\ copy = "store list" => request'[x].stale
                  /\ x # h => /\ Board!At(x, "drop content") => Board!At(x, "drop content")'
                              /\ Board!At(x, "drop list") => Board!At(x, "drop list")'
             /\ r # None => Board!At(h, "drop list")'
  <2> DEFINE req == [request EXCEPT ![h] = r]
  <2>1. req \in [Handlers -> {None} \cup Board!Request]
    BY <1>1
  <2>2. \A x \in Handlers : req[x] = IF x = h THEN r ELSE request[x]
    BY <1>1
  <2> HIDE DEF req
  <2>3. /\ request' \in [Handlers -> {None} \cup Board!Request]
        /\ \A x \in Handlers :
              IF req[x] # None /\ req[x].stage = copy
                THEN /\ request'[x] # None /\ request'[x].stage = copy
                     /\ request'[x].got = req[x].got /\ request'[x].stale
                ELSE request'[x] = req[x]
    BY <1>7, <2>1, OutdatedCopies DEF req
  <2>4. BoardBegins'
    BY <1>2, <1>7 DEF BoardBegins
  <2> QED BY <1>7, <2>2, <2>3, <2>4 DEF Board!At
<1>8. ASSUME NEW h \in Handlers, request[h] # None, request[h].stage \in {"drop content", "drop list"}
      PROVE  row # None
  BY <1>8 DEF BoardInvariant, BoardBegins
<1>9. ASSUME NEW h \in Handlers, Board!DropContent(h) PROVE BoardInvariant'
  <2> DEFINE next == [stage |-> "drop list"]
  <2>1. /\ request[h] # None /\ request[h].stage = "drop content"
        /\ content' = None /\ late' = late \ {"content"} /\ list' = list
        /\ request' = Board!Outdated([request EXCEPT ![h] = next], "store content")
    BY <1>9 DEF Board!DropContent, Board!At
  <2>2. next \in Board!Request /\ next # None /\ next.stage = "drop list"
    <3>1. next \in Board!Request /\ next.stage = "drop list"
      BY DEF Board!Request
    <3> QED BY <1>1, <3>1
  <2> HIDE DEF next
  <2>3. /\ request' \in [Handlers -> {None} \cup Board!Request] /\ BoardBegins'
        /\ \A x \in Handlers :
             /\ Board!At(x, "store content")' =>
                  /\ Board!At(x, "store content") /\ request'[x].got = request[x].got
                  /\ request[x].stale => request'[x].stale
                  /\ request'[x].stale
             /\ Board!At(x, "store list")' =>
                  /\ Board!At(x, "store list") /\ request'[x].got = request[x].got
                  /\ request[x].stale => request'[x].stale
        /\ Board!At(h, "drop list")'
    BY <1>7, <1>8, <2>1, <2>2
  <2>4. Board!Dropping \subseteq {"content"} \cup Board!Dropping'
    BY <2>3 DEF Board!Dropping
  <2>5. OneRead' /\ CopyRight' /\ FillRight'
    <3> DEFINE cs == {"content"}
    <3>1. /\ cs \in SUBSET {"content", "list"} /\ "content" \in cs /\ "list" \notin cs
          /\ late \subseteq cs \cup late' /\ Board!Dropping \subseteq cs \cup Board!Dropping'
      BY <2>1, <2>4
    <3> HIDE DEF cs
    <3> QED BY <1>4, <2>1, <2>3, <3>1, BoardGivesUp
  <2> QED BY <1>5, <2>3, <2>5
<1>10. ASSUME NEW h \in Handlers,
              Board!DropList(h) \/ (Board!DropFails(h) /\ Board!At(h, "drop list"))
       PROVE  BoardInvariant'
  <2>1. /\ request[h] # None /\ request[h].stage = "drop list"
        /\ \/ list' = None /\ late' = late \ {"list"}
           \/ list' = list /\ late' = late \cup {"list"}
        /\ content' = content
        /\ request' = Board!Outdated([request EXCEPT ![h] = None], "store list")
    BY <1>10 DEF Board!DropList, Board!DropFails, Board!At
  <2>2. /\ request' \in [Handlers -> {None} \cup Board!Request] /\ BoardBegins'
        /\ \A x \in Handlers :
             /\ Board!At(x, "store content")' =>
                  /\ Board!At(x, "store content") /\ request'[x].got = request[x].got
                  /\ request[x].stale => request'[x].stale
             /\ Board!At(x, "store list")' =>
                  /\ Board!At(x, "store list") /\ request'[x].got = request[x].got
                  /\ request[x].stale => request'[x].stale
                  /\ request'[x].stale
             /\ x # h => (Board!At(x, "drop content") => Board!At(x, "drop content")')
    BY <1>7, <1>8, <2>1
  <2>3. \A x \in Handlers : Board!At(x, "drop content") => Board!At(x, "drop content")'
    BY <2>1, <2>2 DEF Board!At
  <2>4. Board!Dropping \subseteq {"list"} \cup Board!Dropping'
    BY <2>3 DEF Board!Dropping
  <2>5. OneRead' /\ CopyRight' /\ FillRight'
    <3> DEFINE cs == {"list"}
    <3>1. /\ cs \in SUBSET {"content", "list"} /\ "list" \in cs /\ "content" \notin cs
          /\ late \subseteq cs \cup late' /\ Board!Dropping \subseteq cs \cup Board!Dropping'
          /\ list' = None \/ "list" \in late'
      BY <2>1, <2>4
    <3> HIDE DEF cs
    <3> QED BY <1>4, <2>1, <2>2, <3>1, BoardGivesUp
  <2> QED BY <1>5, <2>2, <2>5
<1>11. ASSUME NEW h \in Handlers, Board!DropFails(h), Board!At(h, "drop content")
       PROVE  BoardInvariant'
  <2> DEFINE half == Board!Outdated([request EXCEPT ![h] = None], "store content")
  <2>1. /\ request[h] # None /\ request[h].stage = "drop content"
        /\ content' = content /\ list' = list /\ late' = {"content", "list"}
        /\ request' = Board!Outdated(half, "store list")
    BY <1>11 DEF Board!DropFails, Board!At
  <2> DEFINE req == [request EXCEPT ![h] = None]
  <2>2. /\ req \in [Handlers -> {None} \cup Board!Request]
        /\ \A x \in Handlers : req[x] = IF x = h THEN None ELSE request[x]
    BY <1>1
  <2> HIDE DEF req
  <2>3. /\ half \in [Handlers -> {None} \cup Board!Request]
        /\ \A x \in Handlers :
              IF req[x] # None /\ req[x].stage = "store content"
                THEN /\ half[x] # None /\ half[x].stage = "store content"
                     /\ half[x].got = req[x].got /\ half[x].stale
                ELSE half[x] = req[x]
    BY <2>2, OutdatedCopies DEF req
  <2> HIDE DEF half
  <2>4. /\ request' \in [Handlers -> {None} \cup Board!Request]
        /\ \A x \in Handlers :
              IF half[x] # None /\ half[x].stage = "store list"
                THEN /\ request'[x] # None /\ request'[x].stage = "store list"
                     /\ request'[x].got = half[x].got /\ request'[x].stale
                ELSE request'[x] = half[x]
    BY <2>1, <2>3, OutdatedCopies
  <2>5. OneRead' /\ CopyRight' /\ FillRight'
    <3>1. OneRead'
      <4>1. ASSUME NEW x \in Handlers, Board!At(x, "store content")'
            PROVE  Board!At(x, "store content") /\ request'[x].got = request[x].got
        <5>1. half[x] # None /\ half[x].stage = "store content" /\ request'[x] = half[x]
          BY <2>4, <4>1 DEF Board!At
        <5> QED BY <2>2, <2>3, <5>1 DEF Board!At
      <4> QED BY <4>1 DEF BoardInvariant, OneRead
    <3>2. CopyRight' /\ FillRight'
      BY <2>1, <2>2, <2>3, <2>4 DEF CopyRight, FillRight, Filling, Board!At
    <3> QED BY <3>1, <3>2
  <2>6. BoardBegins'
    BY <1>2, <1>8, <2>1 DEF BoardBegins
  <2> QED BY <1>5, <2>4, <2>5, <2>6
<1>12. ASSUME NEW h \in Handlers, Board!DropFails(h)
       PROVE  Board!At(h, "drop content") \/ Board!At(h, "drop list")
  BY <1>12 DEF Board!DropFails
<1> QED BY <1>6, <1>9, <1>10, <1>11, <1>12

LEMMA BoardReadStep ==
  ASSUME Board!ConstantsAssumption, BoardInvariant, NEW h \in Handlers,
         \/ Board!FindOne(h) \/ Board!ReadOne(h) \/ Board!StoreOne(h)
         \/ Board!FindAll(h) \/ Board!StoreList(h)
  PROVE  BoardInvariant'
<1>1. /\ request \in [Handlers -> {None} \cup Board!Request] /\ row \in {None} \cup Board!Row
      /\ None \notin Board!Row /\ None \notin Board!Request
      /\ requests \in 0..BoardRequests /\ BoardRequests \in Nat
  BY DEF BoardInvariant, Board!TypeOK, Board!ConstantsAssumption
<1>2. UNCHANGED Board!counting /\ row' = row /\ faults' = faults /\ requests' \in 0..BoardRequests
  <2>1. CASE Board!FindOne(h) \/ Board!FindAll(h)
    <3>1. Board!NewRequest /\ UNCHANGED Board!counting /\ row' = row /\ faults' = faults
      BY <2>1 DEF Board!FindOne, Board!FindAll
    <3> QED BY <1>1, <3>1 DEF Board!NewRequest
  <2>2. CASE Board!ReadOne(h) \/ Board!StoreOne(h) \/ Board!StoreList(h)
    <3>1. requests' = requests /\ UNCHANGED Board!counting /\ row' = row /\ faults' = faults
      BY <2>2 DEF Board!ReadOne, Board!StoreOne, Board!StoreList
    <3> QED BY <1>1, <3>1
  <2> QED BY <2>1, <2>2
<1>3. ViewsCounted'
  BY <1>2, ViewsKept
<1>4. Board!Found' = Board!Found /\ Board!Found \in SUBSET Board!Copy
  <2>1. Board!Found' = Board!Found
    BY <1>2 DEF Board!Found, Board!Exists
  <2>2. Board!Exists => [text |-> row.text, pinned |-> row.pinned] \in Board!Copy
    BY <1>1 DEF Board!Exists, Board!Row, Board!Copy
  <2> QED BY <2>1, <2>2 DEF Board!Found
<1>5. ASSUME request' \in [Handlers -> {None} \cup Board!Request], BoardBegins', OneRead',
             CopyRight', FillRight', content' \in {None} \cup Board!Copy,
             list' \in {None} \cup SUBSET Board!Copy, late' \subseteq {"content", "list"}
      PROVE  BoardInvariant'
  <2>1. Board!TypeOK'
    BY <1>2, <1>5 DEF BoardInvariant, Board!TypeOK, Board!counting
  <2> QED BY <1>3, <1>5, <2>1 DEF BoardInvariant
<1>6. /\ content \in {None} \cup Board!Copy /\ list \in {None} \cup SUBSET Board!Copy
      /\ late \subseteq {"content", "list"}
  BY DEF BoardInvariant, Board!TypeOK
\* who fills a copy, or counts a view next, drops none
<1>7. ~Board!At(h, "drop content") /\ ~Board!At(h, "drop list")
  BY DEF Board!FindOne, Board!ReadOne, Board!StoreOne, Board!FindAll, Board!StoreList, Board!At
<1>8. ASSUME NEW r \in {None} \cup Board!Request, request' = [request EXCEPT ![h] = r]
      PROVE  /\ request' \in [Handlers -> {None} \cup Board!Request] /\ request'[h] = r
             /\ Board!Dropping \subseteq Board!Dropping'
             /\ \A x \in Handlers \ {h} : request'[x] = request[x]
  <2>1. /\ request' \in [Handlers -> {None} \cup Board!Request] /\ request'[h] = r
        /\ \A x \in Handlers \ {h} : request'[x] = request[x]
    BY <1>1, <1>8
  <2>2. \A x \in Handlers : /\ Board!At(x, "drop content") => Board!At(x, "drop content")'
                            /\ Board!At(x, "drop list") => Board!At(x, "drop list")'
    BY <1>7, <2>1 DEF Board!At
  <2>3. Board!Dropping \subseteq Board!Dropping'
    BY <2>2 DEF Board!Dropping
  <2> QED BY <2>1, <2>3
<1>9. CASE Board!FindOne(h) \/ (Board!ReadOne(h) /\ ~Board!Exists)
  <2>1. PICK r \in {None, [stage |-> "view"], [stage |-> "read"]} :
          request' = [request EXCEPT ![h] = r]
    BY <1>9 DEF Board!FindOne, Board!ReadOne, Board!Go, Board!Done
  <2>2. r \in {None} \cup Board!Request /\ (r # None => r.stage \notin {"store content", "store list"})
    <3>1. [stage |-> "view"] \in Board!Request /\ [stage |-> "read"] \in Board!Request
      BY DEF Board!Request
    <3>2. [stage |-> "view"].stage = "view" /\ [stage |-> "read"].stage = "read"
      OBVIOUS
    <3>3. CASE r = [stage |-> "view"]
      BY <3>1, <3>2, <3>3
    <3>4. CASE r = [stage |-> "read"]
      BY <3>1, <3>2, <3>4
    <3> QED BY <2>1, <3>3, <3>4
  <2>3. row # None /\ UNCHANGED <<content, list, late>>
    BY <1>9 DEF Board!FindOne, Board!ReadOne, Board!At, Board!copies, BoardInvariant, BoardBegins
  <2>4. /\ request' \in [Handlers -> {None} \cup Board!Request]
        /\ BoardBegins' /\ OneRead' /\ CopyRight' /\ FillRight'
    BY <1>2, <1>7, <2>1, <2>2, <2>3, BoardGoesOn
  <2> QED BY <1>5, <1>6, <2>3, <2>4
<1>10. CASE Board!FindAll(h) \/ (Board!ReadOne(h) /\ Board!Exists)
  <2> DEFINE r(st) == [stage |-> st, got |-> Board!Found, stale |-> FALSE]
  <2>1. PICK st \in {"store content", "store list"} :
          /\ request' = [request EXCEPT ![h] = r(st)]
          /\ st = "store content" => Board!Exists
    BY <1>10 DEF Board!FindAll, Board!ReadOne, Board!Go
  <2>2. r(st) \in Board!Request
    BY <1>4 DEF Board!Request
  <2>3. /\ r(st).stage = st /\ r(st).got = Board!Found
    OBVIOUS
  <2>4. UNCHANGED <<content, list, late>>
    BY <1>10 DEF Board!FindAll, Board!ReadOne, Board!copies
  <2> HIDE DEF r
  <2>5. /\ request' \in [Handlers -> {None} \cup Board!Request] /\ request'[h] = r(st)
        /\ Board!Dropping \subseteq Board!Dropping'
        /\ \A x \in Handlers \ {h} : request'[x] = request[x]
    BY <1>8, <2>1, <2>2
  <2>6. BoardBegins'
    BY <1>2, <2>1, <2>3, <2>4, <2>5 DEF BoardInvariant, BoardBegins, Board!Exists
  <2>7. Board!Exists => \E c \in Board!Copy : Board!Found = {c}
    <3> DEFINE c == [text |-> row.text, pinned |-> row.pinned]
    <3>1. Board!Exists => c \in Board!Copy
      BY <1>1 DEF Board!Exists, Board!Row, Board!Copy
    <3>2. Board!Exists => Board!Found = {c}
      BY DEF Board!Found
    <3> QED BY <3>1, <3>2
  <2>8. OneRead'
    <3> SUFFICES ASSUME NEW x \in Handlers, Board!At(x, "store content")'
                 PROVE  \E c \in Board!Copy : request'[x].got = {c}
      BY DEF OneRead
    <3>1. CASE x = h
      BY <2>1, <2>3, <2>5, <2>7, <3>1 DEF Board!At
    <3>2. CASE x # h
      BY <2>5, <3>2 DEF BoardInvariant, OneRead, Board!At
    <3> QED BY <3>1, <3>2
  <2>9. CopyRight'
    BY <1>4, <2>4, <2>5 DEF BoardInvariant, CopyRight
  <2>10. FillRight'
    <3> SUFFICES ASSUME NEW x \in Handlers, NEW s \in SUBSET Board!Copy
                 PROVE  /\ "content" \notin Board!Dropping' /\ Filling(x, "store content", s)'
                             => s = Board!Found'
                        /\ "list" \notin Board!Dropping' /\ Filling(x, "store list", s)'
                             => s = Board!Found'
      BY DEF FillRight
    <3>1. CASE x = h
      BY <1>4, <2>3, <2>5, <3>1 DEF Filling
    <3>2. CASE x # h
      BY <1>4, <2>5, <3>2 DEF BoardInvariant, FillRight, Filling, Board!At
    <3> QED BY <3>1, <3>2
  <2> QED BY <1>5, <1>6, <2>4, <2>5, <2>6, <2>8, <2>9, <2>10
<1>11. CASE Board!StoreOne(h) \/ Board!StoreList(h)
  <2> DEFINE q == request[h]
  <2>1. q # None /\ q.stage \in {"store content", "store list"}
    BY <1>11 DEF Board!StoreOne, Board!StoreList, Board!At
  <2>2. q.got \subseteq Board!Copy /\ q.stale \in BOOLEAN
    BY <2>1, BoardRequestTypes DEF BoardInvariant
  <2>3. PICK r \in {None, [stage |-> "view"]} :
          /\ request' = [request EXCEPT ![h] = r]
          /\ q.stage = "store list" => r = None
    BY <1>11 DEF Board!StoreOne, Board!StoreList, Board!Go, Board!Done, Board!At
  <2>4. r \in {None} \cup Board!Request /\ (r # None => r.stage \notin {"store content", "store list"})
    <3>1. [stage |-> "view"] \in Board!Request
      BY DEF Board!Request
    <3>2. CASE r = [stage |-> "view"]
      BY <3>1, <3>2
    <3> QED BY <2>3, <3>2
  <2>5. /\ request' \in [Handlers -> {None} \cup Board!Request] /\ request'[h] = r
        /\ Board!Dropping \subseteq Board!Dropping'
        /\ \A x \in Handlers \ {h} : request'[x] = request[x]
    BY <1>8, <2>3, <2>4
  <2>6. OneRead'
    BY <2>4, <2>5 DEF BoardInvariant, OneRead, Board!At
  <2>7. FillRight'
    BY <1>4, <2>4, <2>5 DEF BoardInvariant, FillRight, Filling, Board!At
  <2>8. CASE Board!StoreOne(h)
    <3>1. q.stage = "store content" /\ list' = list
      BY <2>8 DEF Board!StoreOne, Board!At
    <3>2. PICK c \in Board!Copy : q.got = {c}
      BY <2>1, <3>1 DEF BoardInvariant, OneRead, Board!At
    <3>3. content' = c /\ late' = IF q.stale THEN late \cup {"content"} ELSE late \ {"content"}
      BY <2>8, <3>2 DEF Board!StoreOne
    <3>4. "content" \notin Board!Dropping /\ ~q.stale => {c} = Board!Found
      <4>1. ~q.stale => Filling(h, "store content", {c})
        BY <2>1, <3>1, <3>2 DEF Filling, Board!At
      <4> QED BY <4>1 DEF BoardInvariant, FillRight
    <3>5. CopyRight'
      BY <1>4, <2>2, <2>5, <3>1, <3>3, <3>4 DEF BoardInvariant, CopyRight
    <3>6. BoardBegins'
      BY <1>2, <2>1, <3>1 DEF BoardInvariant, BoardBegins
    <3> QED BY <1>5, <1>6, <2>5, <2>6, <2>7, <3>1, <3>3, <3>5, <3>6
  <2>9. CASE Board!StoreList(h)
    <3>1. /\ q.stage = "store list" /\ content' = content /\ list' = q.got
          /\ late' = IF q.stale THEN late \cup {"list"} ELSE late \ {"list"}
      BY <2>9 DEF Board!StoreList, Board!At
    <3>2. "list" \notin Board!Dropping /\ ~q.stale => q.got = Board!Found
      <4>1. ~q.stale => Filling(h, "store list", q.got)
        BY <2>1, <3>1 DEF Filling, Board!At
      <4> QED BY <2>2, <4>1 DEF BoardInvariant, FillRight
    <3>3. CopyRight'
      BY <1>4, <2>2, <2>5, <3>1, <3>2 DEF BoardInvariant, CopyRight
    <3>4. BoardBegins'
      BY <1>2, <2>3, <2>5, <3>1 DEF BoardInvariant, BoardBegins
    <3> QED BY <1>5, <1>6, <2>2, <2>5, <2>6, <2>7, <3>1, <3>3, <3>4
  <2> QED BY <1>11, <2>8, <2>9
<1> QED BY <1>9, <1>10, <1>11

LEMMA BoardViewStep ==
  ASSUME Board!ConstantsAssumption, BoardInvariant, NEW h \in Handlers,
         Board!View(h) \/ Board!Track(h)
  PROVE  BoardInvariant'
<1>1. /\ request[h] # None /\ request[h].stage \in {"view", "track"}
      /\ UNCHANGED <<row, count, sync, requests, faults, content, list, late>>
  BY DEF Board!View, Board!Track, Board!At, Board!copies
<1>2. row # None /\ ~Board!At(h, "drop content") /\ ~Board!At(h, "drop list")
  BY <1>1 DEF BoardInvariant, BoardBegins, Board!At
<1>3. PICK r \in {None, [stage |-> "track"]} : request' = [request EXCEPT ![h] = r]
  BY DEF Board!View, Board!Track, Board!Go, Board!Done
<1>4. r \in {None} \cup Board!Request /\ (r # None => r.stage \notin {"store content", "store list"})
  <2>1. [stage |-> "track"] \in Board!Request
    BY DEF Board!Request
  <2>2. CASE r = [stage |-> "track"]
    BY <2>1, <2>2
  <2> QED BY <1>3, <2>2
<1>5. /\ request' \in [Handlers -> {None} \cup Board!Request]
      /\ BoardBegins' /\ OneRead' /\ CopyRight' /\ FillRight'
  BY <1>1, <1>2, <1>3, <1>4, BoardGoesOn
<1>6. hits \in Int /\ count \in Nat /\ views \in Nat /\ sync \in [Servers -> {None} \cup Board!Run]
      /\ None \notin Board!Run /\ tracked \in BOOLEAN /\ raced \in BOOLEAN
  BY DEF BoardInvariant, Board!TypeOK, Board!ConstantsAssumption
<1>7. CASE Board!View(h)
  <2>1. /\ hits' = hits + 1 /\ views' = views + 1 /\ tracked' = tracked
        /\ raced' = (raced \/ \E s \in Servers : sync[s] # None /\ sync[s].stage = "delete")
    BY <1>7 DEF Board!View
  <2>2. Board!TypeOK'
    BY <1>1, <1>5, <1>6, <2>1 DEF BoardInvariant, Board!TypeOK
  <2>3. ViewsCounted'
    <3> SUFFICES ASSUME ~raced'
                 PROVE  /\ OneRun' /\ hits' >= 0
                        /\ \A x \in Servers : sync'[x] # None => Carried(x)'
                        /\ (\A x \in Servers : sync'[x] = None) => count' + hits' = views'
      BY DEF ViewsCounted
    <3>1. /\ ~raced /\ \A x \in Servers : sync[x] # None => sync[x].stage # "delete"
      BY <2>1
    <3>2. /\ OneRun /\ hits >= 0 /\ \A x \in Servers : sync[x] # None => Carried(x)
          /\ (\A x \in Servers : sync[x] = None) => count + hits = views
      BY <3>1 DEF BoardInvariant, ViewsCounted
    <3>3. ASSUME NEW x \in Servers, sync'[x] # None PROVE Carried(x)'
      <4>1. Carried(x) /\ sync[x].stage # "delete" /\ sync[x] \in Board!Run
        BY <1>1, <1>6, <3>1, <3>2, <3>3
      <4>2. sync[x].stage \in {"add", "subtract"} => sync[x].n \in Nat
        BY <4>1 DEF Board!Run
      <4> QED BY <1>1, <1>6, <2>1, <4>1, <4>2 DEF Carried
    <3>4. OneRun'
      BY <1>1, <3>2 DEF OneRun
    <3> QED BY <1>1, <1>6, <2>1, <3>2, <3>3, <3>4
  <2> QED BY <1>5, <2>2, <2>3 DEF BoardInvariant
<1>8. CASE Board!Track(h)
  <2>1. UNCHANGED <<hits, views, raced>> /\ tracked' = TRUE
    BY <1>8 DEF Board!Track
  <2>2. Board!TypeOK'
    BY <1>1, <1>5, <1>6, <2>1 DEF BoardInvariant, Board!TypeOK
  <2>3. ViewsCounted'
    BY <1>1, <2>1 DEF BoardInvariant, ViewsCounted, OneRun, Carried
  <2> QED BY <1>5, <2>2, <2>3 DEF BoardInvariant
<1> QED BY <1>7, <1>8

LEMMA BoardSyncStep ==
  ASSUME Board!ConstantsAssumption, BoardInvariant, NEW s \in Servers,
         \/ Board!Collect(s) \/ Board!Add(s) \/ Board!Subtract(s)
         \/ Board!Delete(s) \/ Board!Untrack(s) \/ Board!SyncFails(s)
  PROVE  BoardInvariant'
<1>1. UNCHANGED <<row, request, requests, content, list, late, views>>
  BY DEF Board!Collect, Board!Add, Board!Subtract, Board!Delete, Board!Untrack, Board!SyncFails,
     Board!copies
<1>2. /\ hits \in Int /\ count \in Nat /\ views \in Nat /\ sync \in [Servers -> {None} \cup Board!Run]
      /\ None \notin Board!Run /\ tracked \in BOOLEAN /\ raced \in BOOLEAN
      /\ faults \in 0..BoardFaults /\ BoardFaults \in Nat
  BY DEF BoardInvariant, Board!TypeOK, Board!ConstantsAssumption
<1>3. BoardBegins' /\ OneRead' /\ CopyRight' /\ FillRight'
  <2>1. Board!Found' = Board!Found /\ Board!Dropping' = Board!Dropping
    BY <1>1 DEF Board!Found, Board!Exists, Board!Dropping, Board!At
  <2>2. BoardBegins' /\ OneRead'
    BY <1>1 DEF BoardInvariant, BoardBegins, OneRead, Board!At
  <2>3. CopyRight'
    BY <1>1, <2>1 DEF BoardInvariant, CopyRight
  <2>4. FillRight'
    BY <1>1, <2>1 DEF BoardInvariant, FillRight, Filling, Board!At
  <2> QED BY <2>2, <2>3, <2>4
<1>4. /\ sync[s] # None =>
            /\ sync[s] \in Board!Run /\ sync[s].stage \in {"add", "subtract", "delete", "untrack"}
            /\ sync[s].stage \in {"add", "subtract"} => sync[s].n \in Nat
  <2>1. sync[s] # None => sync[s] \in Board!Run
    BY <1>2
  <2> QED BY <2>1 DEF Board!Run
\* what a run becomes, with the views in the row and those in Redis
<1> DEFINE told(j) ==
      /\ j = None => count' + hits' = views
      /\ j # None =>
           /\ j.stage = "add" => j.n <= hits' /\ count' + hits' = views
           /\ j.stage = "subtract" => j.n <= hits' /\ count' + hits' - j.n = views
           /\ j.stage = "delete" => hits' = 0 /\ count' + hits' = views
           /\ j.stage = "untrack" => count' + hits' = views
<1>5. ASSUME NEW j \in {None} \cup Board!Run, sync' = [sync EXCEPT ![s] = j],
             hits' \in Int, count' \in Nat, tracked' \in BOOLEAN, raced' \in BOOLEAN,
             faults' \in 0..BoardFaults,
             ~raced' =>
               /\ ~raced /\ hits' >= 0
               /\ (\A x \in Servers \ {s} : sync[x] = None) /\ told(j)
      PROVE  BoardInvariant'
  <2>1. \A x \in Servers : sync'[x] = IF x = s THEN j ELSE sync[x]
    BY <1>2, <1>5
  <2>2. Board!TypeOK'
    BY <1>1, <1>2, <1>5 DEF BoardInvariant, Board!TypeOK
  <2>3. ViewsCounted'
    <3> SUFFICES ASSUME ~raced'
                 PROVE  /\ OneRun' /\ hits' >= 0
                        /\ \A x \in Servers : sync'[x] # None => Carried(x)'
                        /\ (\A x \in Servers : sync'[x] = None) => count' + hits' = views'
      BY DEF ViewsCounted
    <3>1. OneRun'
      BY <1>5, <2>1 DEF OneRun
    <3>2. ASSUME NEW x \in Servers, sync'[x] # None PROVE Carried(x)'
      <4>1. x = s /\ sync'[x] = j /\ j # None
        BY <1>5, <2>1, <3>2
      <4> QED BY <1>1, <1>5, <4>1 DEF Carried
    <3> QED BY <1>1, <1>5, <2>1, <3>1, <3>2
  <2> QED BY <1>3, <2>2, <2>3 DEF BoardInvariant
\* what an unraced run was
<1>6. ASSUME ~raced
      PROVE  /\ hits >= 0
             /\ sync[s] # None => Carried(s) /\ \A x \in Servers \ {s} : sync[x] = None
             /\ (\A x \in Servers : sync[x] = None) => count + hits = views
  BY <1>6 DEF BoardInvariant, ViewsCounted, OneRun
<1>7. CASE Board!Collect(s)
  <2> DEFINE j == [stage |-> "add", n |-> hits]
  <2>1. /\ sync[s] = None /\ hits > 0 /\ sync' = [sync EXCEPT ![s] = j]
        /\ raced' = (raced \/ \E o \in Servers : sync[o] # None)
        /\ UNCHANGED <<count, hits, tracked, faults>>
    BY <1>7 DEF Board!Collect
  <2>2. j \in Board!Run /\ j.stage = "add" /\ j.n = hits
    BY <1>2, <2>1 DEF Board!Run
  <2> HIDE DEF j
  <2>3. ~raced' => ~raced /\ \A x \in Servers : sync[x] = None
    BY <2>1
  <2>4. ~raced' => ~raced /\ hits' >= 0 /\ (\A x \in Servers \ {s} : sync[x] = None) /\ told(j)
    BY <1>2, <1>6, <2>1, <2>2, <2>3
  <2> HIDE DEF told
  <2> QED BY <1>2, <1>5, <2>1, <2>2, <2>4
<1>8. CASE Board!Add(s)
  <2> DEFINE j == [sync[s] EXCEPT !.stage = "subtract"]
  <2>1. /\ sync[s] # None /\ sync[s].stage = "add" /\ sync' = [sync EXCEPT ![s].stage = "subtract"]
        /\ count' = count + sync[s].n /\ UNCHANGED <<hits, tracked, raced, faults>>
    BY <1>8 DEF Board!Add
  <2>2. j \in Board!Run /\ j.stage = "subtract" /\ j.n = sync[s].n
    <3>1. sync[s] \in [stage : {"add", "subtract"}, n : Nat]
      BY <1>4, <2>1 DEF Board!Run
    <3> QED BY <3>1 DEF Board!Run
  <2>3. sync' = [sync EXCEPT ![s] = j]
    BY <2>1
  <2> HIDE DEF j
  <2>4. ~raced => /\ sync[s].n <= hits /\ count + hits = views /\ hits >= 0
                  /\ \A x \in Servers \ {s} : sync[x] = None
    BY <1>6, <2>1 DEF Carried
  <2>5. ~raced' => ~raced /\ hits' >= 0 /\ (\A x \in Servers \ {s} : sync[x] = None) /\ told(j)
    BY <1>2, <1>4, <2>1, <2>2, <2>4
  <2>6. count' \in Nat
    BY <1>2, <1>4, <2>1
  <2> HIDE DEF told
  <2> QED BY <1>2, <1>5, <2>1, <2>2, <2>3, <2>5, <2>6
<1>9. CASE Board!Subtract(s)
  <2> DEFINE rest == hits - sync[s].n
             j == IF rest <= 0 THEN [stage |-> "delete"] ELSE None
  <2>1. /\ sync[s] # None /\ sync[s].stage = "subtract" /\ sync' = [sync EXCEPT ![s] = j]
        /\ hits' = rest /\ UNCHANGED <<count, tracked, raced, faults>>
    BY <1>9 DEF Board!Subtract
  <2>2. j \in {None} \cup Board!Run /\ (j # None => j.stage = "delete" /\ rest <= 0)
    BY DEF Board!Run
  <2>3. rest \in Int
    BY <1>2, <1>4, <2>1
  <2>4. ~raced => /\ rest >= 0 /\ count + rest = views
                  /\ \A x \in Servers \ {s} : sync[x] = None
    BY <1>2, <1>4, <1>6, <2>1 DEF Carried
  <2> HIDE DEF j, rest
  <2>5. ~raced' => ~raced /\ hits' >= 0 /\ (\A x \in Servers \ {s} : sync[x] = None) /\ told(j)
    BY <1>2, <2>1, <2>2, <2>3, <2>4
  <2> HIDE DEF told
  <2> QED BY <1>2, <1>5, <2>1, <2>2, <2>3, <2>5
<1>10. CASE Board!Delete(s)
  <2> DEFINE j == [stage |-> "untrack"]
  <2>1. /\ sync[s] # None /\ sync[s].stage = "delete" /\ sync' = [sync EXCEPT ![s] = j]
        /\ hits' = 0 /\ UNCHANGED <<count, tracked, raced, faults>>
    BY <1>10 DEF Board!Delete
  <2>2. j \in Board!Run /\ j.stage = "untrack"
    BY DEF Board!Run
  <2>3. ~raced => /\ hits = 0 /\ count + hits = views /\ \A x \in Servers \ {s} : sync[x] = None
    BY <1>6, <2>1 DEF Carried
  <2> HIDE DEF j
  <2>4. ~raced' => ~raced /\ hits' >= 0 /\ (\A x \in Servers \ {s} : sync[x] = None) /\ told(j)
    BY <1>2, <2>1, <2>2, <2>3
  <2>5. hits' \in Int /\ count' \in Nat /\ tracked' \in BOOLEAN /\ raced' \in BOOLEAN
    BY <1>2, <2>1
  <2> HIDE DEF told
  <2> QED BY <1>2, <1>5, <2>1, <2>2, <2>4, <2>5
<1>11. CASE Board!Untrack(s)
  <2>1. /\ sync[s] # None /\ sync[s].stage = "untrack" /\ sync' = [sync EXCEPT ![s] = None]
        /\ tracked' = FALSE /\ UNCHANGED <<count, hits, raced, faults>>
    BY <1>11 DEF Board!Untrack
  <2>2. ~raced => /\ hits >= 0 /\ count + hits = views /\ \A x \in Servers \ {s} : sync[x] = None
    BY <1>6, <2>1 DEF Carried
  <2>3. ~raced' => ~raced /\ hits' >= 0 /\ (\A x \in Servers \ {s} : sync[x] = None) /\ told(None)
    BY <1>2, <2>1, <2>2
  <2> HIDE DEF told
  <2> QED BY <1>2, <1>5, <2>1, <2>3
<1>12. CASE Board!SyncFails(s)
  <2>1. /\ sync[s] # None /\ Board!NewFault /\ sync' = [sync EXCEPT ![s] = None]
        /\ raced' = (raced \/ sync[s].stage = "subtract") /\ UNCHANGED <<count, hits, tracked>>
    BY <1>12 DEF Board!SyncFails
  <2>2. faults' \in 0..BoardFaults
    BY <1>2, <2>1 DEF Board!NewFault
  <2>3. ~raced' => /\ ~raced /\ hits >= 0 /\ count + hits = views
                   /\ \A x \in Servers \ {s} : sync[x] = None
    BY <1>2, <1>4, <1>6, <2>1 DEF Carried
  <2>4. ~raced' => ~raced /\ hits' >= 0 /\ (\A x \in Servers \ {s} : sync[x] = None) /\ told(None)
    BY <1>2, <2>1, <2>3
  <2> HIDE DEF told
  <2> QED BY <1>2, <1>5, <2>1, <2>2, <2>4
<1> QED BY <1>7, <1>8, <1>9, <1>10, <1>11, <1>12

LEMMA BoardInvariantStep ==
  ASSUME Board!ConstantsAssumption, BoardInvariant, [Board!Next]_Board!vars
  PROVE  BoardInvariant'
<1>1. CASE UNCHANGED Board!vars
  <2>1. Board!TypeOK' /\ BoardBegins' /\ OneRead'
    BY <1>1 DEF Board!vars, BoardInvariant, Board!TypeOK, BoardBegins, OneRead, Board!At
  <2>2. Board!Found' = Board!Found /\ Board!Dropping' = Board!Dropping
    BY <1>1 DEF Board!vars, Board!Found, Board!Exists, Board!Dropping, Board!At
  <2>3. CopyRight' /\ FillRight'
    BY <1>1, <2>2 DEF Board!vars, BoardInvariant, CopyRight, FillRight, Filling, Board!At
  <2>4. ViewsCounted'
    BY <1>1 DEF Board!vars, BoardInvariant, ViewsCounted, OneRun, Carried
  <2> QED BY <2>1, <2>3, <2>4 DEF BoardInvariant
<1>2. CASE Board!Next
  BY <1>2, BoardWriteStep, BoardDropStep, BoardReadStep, BoardViewStep, BoardSyncStep
  DEF Board!Next
<1> QED BY <1>1, <1>2

LEMMA BoardInvariantInit ==
  ASSUME Board!ConstantsAssumption, Board!Init PROVE BoardInvariant
<1>1. Board!TypeOK
  <2>1. requests \in 0..BoardRequests /\ faults \in 0..BoardFaults
    BY DEF Board!ConstantsAssumption, Board!Init
  <2>2. late \subseteq {"content", "list"} /\ raced \in BOOLEAN /\ tracked \in BOOLEAN
    BY DEF Board!Init
  <2>3. count \in Nat /\ hits \in Int /\ views \in Nat
    BY DEF Board!Init
  <2> QED BY <2>1, <2>2, <2>3 DEF Board!Init, Board!TypeOK
<1>3. BoardBegins /\ OneRead
  BY DEF Board!Init, BoardBegins, OneRead, Board!At
<1>2. CopyRight /\ FillRight /\ ViewsCounted
  BY DEF Board!Init, CopyRight, FillRight, Filling, ViewsCounted, OneRun, Board!At
<1> QED BY <1>1, <1>2, <1>3 DEF BoardInvariant

LEMMA BoardFollows ==
  ASSUME Board!ConstantsAssumption, BoardInvariant PROVE Board!BoardFollowsRow
<1>1. ASSUME ~raced
      PROVE  \/ Board!Counted = {} /\ count + hits = views
             \/ \E s \in Board!Counted : Board!Counted = {s} /\ count + hits - sync[s].n = views
  <2>1. /\ OneRun /\ \A x \in Servers : sync[x] # None => Carried(x)
        /\ (\A x \in Servers : sync[x] = None) => count + hits = views
    BY <1>1 DEF BoardInvariant, ViewsCounted
  <2>2. CASE \A x \in Servers : sync[x] = None
    BY <2>1, <2>2 DEF Board!Counted
  <2>3. CASE \E x \in Servers : sync[x] # None
    <3>1. PICK x \in Servers : sync[x] # None
      BY <2>3
    <3>2. sync[x] \in Board!Run
      BY <3>1 DEF BoardInvariant, Board!TypeOK
    <3>3. sync[x].stage \in {"add", "subtract", "delete", "untrack"}
      BY <3>2 DEF Board!Run
    <3>4. CASE sync[x].stage = "subtract"
      <4>1. Board!Counted = {x}
        BY <2>1, <3>1, <3>4 DEF OneRun, Board!Counted
      <4> QED BY <2>1, <3>1, <3>4, <4>1 DEF Carried
    <3>5. CASE sync[x].stage # "subtract"
      <4>1. Board!Counted = {}
        BY <2>1, <3>1, <3>5 DEF OneRun, Board!Counted
      <4> QED BY <2>1, <3>1, <3>3, <3>5, <4>1 DEF Carried
    <3> QED BY <3>4, <3>5
  <2> QED BY <2>2, <2>3
<1> QED BY <1>1 DEF BoardInvariant, CopyRight, Board!BoardFollowsRow

\* Every row, copy, request and run is of its kind (AnnouncementService,
\* AnnouncementScheduler): a request writes an announcement that there is.
THEOREM BoardTypeCorrect ==
  ASSUME Board!ConstantsAssumption PROVE Board!Spec => []Board!TypeOK
<1>1. Board!Init => BoardInvariant
  BY BoardInvariantInit
<1>2. BoardInvariant /\ [Board!Next]_Board!vars => BoardInvariant'
  BY BoardInvariantStep
<1>3. BoardInvariant => Board!TypeOK
  BY DEF BoardInvariant
<1> QED BY <1>1, <1>2, <1>3, PTL DEF Board!Spec

\* What is read of an announcement is its row, or a copy that its change is about to delete
\* (findOne, findAll), and every view is counted once (syncAnnouncementViewCounts).
THEOREM BoardFollowsRowHolds ==
  ASSUME Board!ConstantsAssumption PROVE Board!Spec => []Board!BoardFollowsRow
<1>1. Board!Init => BoardInvariant
  BY BoardInvariantInit
<1>2. BoardInvariant /\ [Board!Next]_Board!vars => BoardInvariant'
  BY BoardInvariantStep
<1>3. BoardInvariant => Board!BoardFollowsRow
  BY BoardFollows
<1> QED BY <1>1, <1>2, <1>3, PTL DEF Board!Spec

-----------------------------------------------------------------------------
(* EmailCodes: what a code is good for.                                    *)

\* A request that was let in by a code of a kind, and one that has the row still to write.
InHand(x, k) == request[x] # None /\ request[x].stage \in {"row", "both"} /\ request[x].kind = k
Writing(x) == request[x].stage = "row" \/ "row" \in request[x].todo

\* Codes are drawn one after the other; one that is not sent yet is nobody else's.
CodesDrawn ==
  /\ drawn <= requests
  /\ \A x \in Handlers : request[x] # None => request[x].code <= drawn
  /\ \A k \in Codes!Kinds : kept[k] # None => kept[k] <= drawn
  /\ \A c \in Codes!Codes : c > drawn => spent[c] = 0
Unsent ==
  \A x \in Handlers : request[x] # None /\ request[x].stage \in {"create", "store"} =>
    /\ \A y \in Handlers \ {x} : request[y] # None => request[y].code # request[x].code
    /\ \A k \in Codes!Kinds : kept[k] # request[x].code
    /\ spent[request[x].code] = 0

\* Whoever was let in had been sent the code; two at once are remembered.
LetIn ==
  \A x \in Handlers, k \in Codes!Kinds : InHand(x, k) =>
    /\ [kind |-> k, code |-> request[x].code] \in mailed
    /\ \A y \in Handlers \ {x} : InHand(y, k) => request[x].code \in shared

\* A code that was written with once is kept for nobody else, or deleted by its request yet.
SetOnce ==
  \A c \in Codes!Codes \ shared :
    /\ spent[c] <= 1
    /\ spent[c] = 1 =>
         /\ \A x \in Handlers : InHand(x, "reset") /\ request[x].code = c => ~Writing(x)
         /\ kept["reset"] = c => \E x \in Handlers : InHand(x, "reset") /\ request[x].code = c
Deleted ==
  \A x \in Handlers, k \in Codes!Kinds :
    /\ InHand(x, k) /\ request[x].stage = "both" /\ "code" \notin request[x].todo
    /\ request[x].code \notin shared
    => kept[k] # request[x].code

\* Before the row there is only a sign-up; an address of a social login is never confirmed.
NoRowYet ==
  user = None =>
    /\ trials = 0 /\ \A k \in Codes!Kinds : kept[k] = None
    /\ \A x \in Handlers : request[x] = None \/ request[x].stage = "create"
SocialOnly ==
  user # None /\ ~user.local =>
    /\ trials = 0 /\ kept["verification"] = None
    /\ \A x \in Handlers : request[x] = None \/ request[x].kind = "reset"

\* The trial is given with the confirmation.
GivenOnce ==
  /\ user # None => (user.local /\ user.verified <=> trials > 0)
  /\ trials > 1 => \E m \in mailed : m.kind = "verification" /\ m.code \in shared
  /\ \A x \in Handlers :
       user # None /\ user.verified /\ InHand(x, "verification") /\ request[x].stage = "both"
         /\ "row" \in request[x].todo => request[x].code \in shared

CodesInvariant ==
  Codes!TypeOK /\ CodesDrawn /\ Unsent /\ LetIn /\ SetOnce /\ Deleted /\ NoRowYet
    /\ SocialOnly /\ GivenOnce

\* What a request of the codes holds.
LEMMA CodeRequestTypes ==
  ASSUME Codes!ConstantsAssumption, Codes!TypeOK, NEW h \in Handlers, request[h] # None
  PROVE  /\ request[h] \in Codes!Request /\ request[h].kind \in Codes!Kinds
         /\ request[h].code \in Codes!Codes /\ request[h].code \in Nat /\ request[h].code # None
         /\ request[h].stage \in {"create", "store", "mail", "row", "both"}
         /\ request[h].stage = "both" =>
              request[h] \in [stage : {"both"}, kind : Codes!Kinds, code : Codes!Codes,
                              todo : SUBSET {"row", "code"}]
         /\ request[h].stage # "both" =>
              request[h] \in [stage : {"create", "store", "mail", "row"}, kind : Codes!Kinds,
                              code : Codes!Codes]
<1>1. request[h] \in Codes!Request
  BY DEF Codes!TypeOK
<1>2. \A c \in Codes!Codes : c \in Nat /\ c # None
  BY DEF Codes!Codes, Codes!ConstantsAssumption
<1> QED BY <1>1, <1>2 DEF Codes!Request

\* A request goes on that holds no code in hand and begins to hold none.
LEMMA CodesGoOn ==
  ASSUME Codes!ConstantsAssumption, CodesInvariant, NEW h \in Handlers,
         NEW r \in {None} \cup Codes!Request, request' = [request EXCEPT ![h] = r],
         UNCHANGED <<kept, user, trials, spent, shared>>, mailed \subseteq mailed',
         request[h] # None => request[h].stage \notin {"row", "both"} \/ (r = None /\ request[h].stage = "row"),
         r # None => r.stage \notin {"row", "both"},
         user # None
  PROVE  LetIn' /\ SetOnce' /\ Deleted' /\ NoRowYet' /\ GivenOnce'
<1>1. \A x \in Handlers : request'[x] = IF x = h THEN r ELSE request[x]
  BY DEF CodesInvariant, Codes!TypeOK
<1>2. \A x \in Handlers : \A k : InHand(x, k)' => InHand(x, k) /\ request'[x] = request[x]
  BY <1>1 DEF InHand
<1>3. LetIn'
  BY <1>2 DEF CodesInvariant, LetIn
<1>4. SetOnce'
  <2> SUFFICES ASSUME NEW c \in Codes!Codes \ shared
               PROVE  /\ spent[c] <= 1
                      /\ spent[c] = 1 =>
                           /\ \A x \in Handlers : InHand(x, "reset")' /\ request'[x].code = c => ~Writing(x)'
                           /\ kept["reset"] = c =>
                                \E x \in Handlers : InHand(x, "reset")' /\ request'[x].code = c
    BY DEF SetOnce
  <2>1. spent[c] <= 1
    BY DEF CodesInvariant, SetOnce
  <2>2. ASSUME spent[c] = 1, NEW x \in Handlers, InHand(x, "reset")', request'[x].code = c
        PROVE  ~Writing(x)'
    BY <1>2, <2>2 DEF CodesInvariant, SetOnce, Writing
  <2>3. ASSUME spent[c] = 1, kept["reset"] = c
        PROVE  \E x \in Handlers : InHand(x, "reset")' /\ request'[x].code = c
    <3>1. PICK x \in Handlers : InHand(x, "reset") /\ request[x].code = c /\ ~Writing(x)
      BY <2>3 DEF CodesInvariant, SetOnce
    <3>2. x # h
      BY <3>1 DEF InHand, Writing
    <3> QED BY <1>1, <3>1, <3>2 DEF InHand
  <2> QED BY <2>1, <2>2, <2>3
<1>5. Deleted'
  BY <1>2 DEF CodesInvariant, Deleted
<1>6. GivenOnce'
  <2>1. \A x \in Handlers :
          user # None /\ user.verified /\ InHand(x, "verification")' /\ request'[x].stage = "both"
            /\ "row" \in request'[x].todo => request'[x].code \in shared
    BY <1>2 DEF CodesInvariant, GivenOnce
  <2>2. trials > 1 => \E m \in mailed' : m.kind = "verification" /\ m.code \in shared
    BY DEF CodesInvariant, GivenOnce
  <2> QED BY <2>1, <2>2 DEF CodesInvariant, GivenOnce
<1> QED BY <1>3, <1>4, <1>5, <1>6 DEF NoRowYet

\* A new code is drawn for a request.
LEMMA CodeDrawn ==
  ASSUME Codes!ConstantsAssumption, CodesInvariant, NEW h \in Handlers, NEW r,
         request[h] = None, requests < CodeRequests, requests' = requests + 1,
         drawn' = drawn + 1, request' = [request EXCEPT ![h] = r], r # None, r.code = drawn + 1,
         UNCHANGED <<kept, spent>>
  PROVE  /\ drawn + 1 \in Codes!Codes /\ drawn' \in 0..CodeRequests
         /\ requests' \in 0..CodeRequests /\ CodesDrawn' /\ Unsent'
<1>1. /\ drawn \in Nat /\ requests \in Nat /\ CodeRequests \in Nat /\ drawn <= requests
      /\ request \in [Handlers -> {None} \cup Codes!Request]
      /\ kept \in [Codes!Kinds -> Codes!Codes \cup {None}] /\ None \notin Codes!Codes
  BY DEF CodesInvariant, CodesDrawn, Codes!TypeOK, Codes!ConstantsAssumption
<1>2. \A x \in Handlers : request'[x] = IF x = h THEN r ELSE request[x]
  BY <1>1
<1>3. /\ drawn + 1 \in Codes!Codes /\ drawn' \in 0..CodeRequests
      /\ requests' \in 0..CodeRequests
  BY <1>1 DEF Codes!Codes
<1>4. \A x \in Handlers : request[x] # None => request[x].code \in Nat /\ request[x].code <= drawn
  BY CodeRequestTypes DEF CodesInvariant, CodesDrawn
<1>5. \A k \in Codes!Kinds : kept[k] # None => kept[k] \in Nat /\ kept[k] <= drawn
  BY <1>1 DEF CodesInvariant, CodesDrawn, Codes!Codes
<1>6. spent[drawn + 1] = 0
  BY <1>1, <1>3 DEF CodesInvariant, CodesDrawn
<1>7. CodesDrawn'
  <2>1. \A x \in Handlers : request'[x] # None => request'[x].code <= drawn'
    BY <1>1, <1>2, <1>4
  <2>2. \A k \in Codes!Kinds : kept'[k] # None => kept'[k] <= drawn'
    BY <1>1, <1>5
  <2>3. \A c \in Codes!Codes : c > drawn' => spent'[c] = 0
    BY <1>1 DEF CodesInvariant, CodesDrawn, Codes!Codes
  <2> QED BY <1>1, <2>1, <2>2, <2>3 DEF CodesDrawn
<1>8. Unsent'
  <2> SUFFICES ASSUME NEW x \in Handlers, request'[x] # None, request'[x].stage \in {"create", "store"}
               PROVE  /\ \A y \in Handlers \ {x} : request'[y] # None => request'[y].code # request'[x].code
                      /\ \A k \in Codes!Kinds : kept'[k] # request'[x].code
                      /\ spent'[request'[x].code] = 0
    BY DEF Unsent
  <2>1. drawn + 1 \in Nat /\ drawn + 1 > drawn /\ drawn + 1 # None
    BY <1>1, <1>3
  <2>2. CASE x = h
    <3>1. request'[x].code = drawn + 1
      BY <1>2, <2>2
    <3>2. \A y \in Handlers \ {x} : request'[y] # None => request'[y].code # drawn + 1
      BY <1>1, <1>2, <1>4, <2>2
    <3>3. \A k \in Codes!Kinds : kept'[k] # drawn + 1
      BY <1>1, <1>5, <2>1
    <3> QED BY <1>6, <3>1, <3>2, <3>3
  <2>3. CASE x # h
    <3>1. request'[x] = request[x] /\ request[x].code \in Nat /\ request[x].code <= drawn
      BY <1>2, <1>4, <2>3
    <3>2. \A y \in Handlers \ {x} : request'[y] # None => request'[y].code # request[x].code
      BY <1>1, <1>2, <3>1 DEF CodesInvariant, Unsent
    <3> QED BY <3>1, <3>2 DEF CodesInvariant, Unsent
  <2> QED BY <2>2, <2>3
<1> QED BY <1>3, <1>7, <1>8

\* A step that sends no code and draws none.
LEMMA CodesStay ==
  ASSUME Codes!ConstantsAssumption, CodesInvariant,
         UNCHANGED <<drawn, requests, spent>>,
         \A k \in Codes!Kinds : kept'[k] = kept[k] \/ kept'[k] = None,
         \A x \in Handlers : request'[x] # None =>
           /\ request[x] # None /\ request'[x].code = request[x].code
           /\ request'[x].stage \in {"create", "store"} => request[x].stage \in {"create", "store"}
  PROVE  CodesDrawn' /\ Unsent'
<1>1. CodesDrawn'
  BY DEF CodesInvariant, CodesDrawn
<1>2. \A x \in Handlers : request[x] # None => request[x].code # None
  BY CodeRequestTypes DEF CodesInvariant
<1>3. Unsent'
  BY <1>2 DEF CodesInvariant, Unsent
<1> QED BY <1>1, <1>3

LEMMA CodesAskStep ==
  ASSUME Codes!ConstantsAssumption, CodesInvariant, NEW h \in Handlers,
         Codes!Signup(h) \/ \E kind \in Codes!Kinds : Codes!Ask(h, kind)
  PROVE  CodesInvariant'
<1>1. PICK r : /\ \E k \in Codes!Kinds :
                    \/ r = [stage |-> "create", kind |-> "verification", code |-> drawn + 1] /\ user = None
                    \/ /\ r = [stage |-> "store", kind |-> k, code |-> drawn + 1]
                       /\ user # None /\ (k = "verification" => user.local)
               /\ request[h] = None /\ requests < CodeRequests /\ requests' = requests + 1
               /\ request' = [request EXCEPT ![h] = r]
  <2>1. CASE Codes!Signup(h)
    BY <2>1 DEF Codes!Signup, Codes!Begin, Codes!Kinds
  <2>2. ASSUME NEW kind \in Codes!Kinds, Codes!Ask(h, kind)
        PROVE  \E r : /\ \E k \in Codes!Kinds :
                           /\ r = [stage |-> "store", kind |-> k, code |-> drawn + 1]
                           /\ user # None /\ (k = "verification" => user.local)
                      /\ request[h] = None /\ requests < CodeRequests /\ requests' = requests + 1
                      /\ request' = [request EXCEPT ![h] = r]
    BY <2>2 DEF Codes!Ask, Codes!Begin
  <2> QED BY <2>1, <2>2
<1>2. drawn' = drawn + 1 /\ UNCHANGED <<user, kept, mailed, faults, trials, spent, shared>>
  BY DEF Codes!Signup, Codes!Ask, Codes!ghosts
<1>3. /\ r.code = drawn + 1 /\ r.stage \in {"create", "store"} /\ r.kind \in Codes!Kinds
      /\ user = None => r.stage = "create"
      /\ user # None /\ r.kind = "verification" => user.local
  BY <1>1 DEF Codes!Kinds
<1>4. drawn + 1 \in Codes!Codes
  BY <1>1 DEF CodesInvariant, CodesDrawn, Codes!TypeOK, Codes!ConstantsAssumption, Codes!Codes
<1>5. r \in Codes!Request
  BY <1>1, <1>4 DEF Codes!Request, Codes!Kinds
<1>6. r # None
  BY <1>5 DEF Codes!ConstantsAssumption
<1>7. /\ drawn' \in 0..CodeRequests /\ requests' \in 0..CodeRequests /\ CodesDrawn' /\ Unsent'
  BY <1>1, <1>2, <1>3, <1>6, CodeDrawn
<1>8. /\ request' \in [Handlers -> {None} \cup Codes!Request]
      /\ \A x \in Handlers : request'[x] = IF x = h THEN r ELSE request[x]
  BY <1>1, <1>5 DEF CodesInvariant, Codes!TypeOK
<1>9. Codes!TypeOK'
  BY <1>2, <1>7, <1>8 DEF CodesInvariant, Codes!TypeOK
<1>10. SocialOnly'
  BY <1>2, <1>3, <1>8 DEF CodesInvariant, SocialOnly, Codes!Kinds
<1>11. LetIn' /\ SetOnce' /\ Deleted' /\ NoRowYet' /\ GivenOnce'
  <2>1. CASE user # None
    BY <1>1, <1>2, <1>3, <1>5, <2>1, CodesGoOn
  <2>2. CASE user = None
    <3>1. /\ trials = 0 /\ \A k \in Codes!Kinds : kept[k] = None
          /\ \A x \in Handlers : request[x] = None \/ request[x].stage = "create"
      BY <2>2 DEF CodesInvariant, NoRowYet
    <3>2. \A x \in Handlers : request'[x] = None \/ request'[x].stage = "create"
      BY <1>3, <1>8, <2>2, <3>1
    <3>3. \A x \in Handlers : \A k : ~InHand(x, k)'
      BY <3>2 DEF InHand
    <3>4. LetIn' /\ Deleted'
      BY <3>3 DEF LetIn, Deleted
    <3>5. SetOnce'
      <4>1. kept["reset"] = None /\ None \notin Codes!Codes
        BY <3>1 DEF Codes!Kinds, Codes!ConstantsAssumption
      <4> QED BY <1>2, <3>3, <4>1 DEF CodesInvariant, SetOnce
    <3>6. NoRowYet'
      BY <1>2, <3>1, <3>2 DEF NoRowYet
    <3>7. GivenOnce'
      BY <1>2, <2>2, <3>1, <3>3 DEF GivenOnce
    <3> QED BY <3>4, <3>5, <3>6, <3>7
  <2> QED BY <2>1, <2>2
<1> QED BY <1>7, <1>9, <1>10, <1>11 DEF CodesInvariant

LEMMA CodesSendStep ==
  ASSUME Codes!ConstantsAssumption, CodesInvariant, NEW h \in Handlers,
         Codes!CreateUser(h) \/ Codes!Mail(h) \/ Codes!SendFails(h)
  PROVE  CodesInvariant'
<1> DEFINE q == request[h]
<1>1. /\ q # None /\ q.stage \in {"create", "store", "mail"}
      /\ UNCHANGED <<kept, drawn, requests, trials, spent, shared>>
  BY DEF Codes!CreateUser, Codes!Mail, Codes!SendFails, Codes!At, Codes!ghosts
<1>2. q \in [stage : {"create", "store", "mail", "row"}, kind : Codes!Kinds, code : Codes!Codes]
  BY <1>1, CodeRequestTypes DEF CodesInvariant
<1> DEFINE going == [q EXCEPT !.stage = "store"]
<1>3. /\ going \in Codes!Request /\ going.stage = "store" /\ going.kind = q.kind
      /\ going.code = q.code
  BY <1>2 DEF Codes!Request
<1>4. going # None
  BY <1>3 DEF Codes!ConstantsAssumption
<1>5. /\ mailed \subseteq mailed' /\ mailed' \subseteq [kind : Codes!Kinds, code : Codes!Codes]
      /\ faults' \in 0..CodeFaults
  <2>1. [kind |-> q.kind, code |-> q.code] \in [kind : Codes!Kinds, code : Codes!Codes]
    BY <1>2
  <2>2. mailed \subseteq [kind : Codes!Kinds, code : Codes!Codes] /\ faults \in 0..CodeFaults
        /\ CodeFaults \in Nat
    BY DEF CodesInvariant, Codes!TypeOK, Codes!ConstantsAssumption
  <2>3. mailed' = mailed \/ mailed' = mailed \cup {[kind |-> q.kind, code |-> q.code]}
    BY DEF Codes!CreateUser, Codes!Mail, Codes!SendFails
  <2>4. faults' = faults \/ Codes!Fault
    BY DEF Codes!CreateUser, Codes!Mail, Codes!SendFails
  <2>5. faults' \in 0..CodeFaults
    BY <2>2, <2>4 DEF Codes!Fault
  <2> QED BY <2>1, <2>2, <2>3, <2>5
<1>6. CASE user = None /\ Codes!CreateUser(h)
  <2>1. /\ user' = [local |-> TRUE, verified |-> FALSE] /\ q.stage = "create"
        /\ request' = [request EXCEPT ![h] = going]
    BY <1>6 DEF Codes!CreateUser, Codes!At
  <2> HIDE DEF going
  <2>2. /\ request' \in [Handlers -> {None} \cup Codes!Request]
        /\ \A x \in Handlers : request'[x] = IF x = h THEN going ELSE request[x]
    BY <1>3, <2>1 DEF CodesInvariant, Codes!TypeOK
  <2>3. user' \in Codes!Row /\ user'.local /\ ~user'.verified
    BY <2>1 DEF Codes!Row
  <2>4. user' # None
    BY <2>3 DEF Codes!ConstantsAssumption
  <2>5. Codes!TypeOK'
    BY <1>1, <1>5, <2>2, <2>3 DEF CodesInvariant, Codes!TypeOK
  <2>6. CodesDrawn' /\ Unsent'
    BY <1>1, <1>3, <2>1, <2>2, CodesStay
  <2>7. /\ trials = 0 /\ \A k \in Codes!Kinds : kept[k] = None
        /\ \A x \in Handlers : request[x] = None \/ request[x].stage = "create"
    BY <1>6 DEF CodesInvariant, NoRowYet
  <2>8. \A x \in Handlers : \A k : ~InHand(x, k)'
    BY <1>3, <2>2, <2>7 DEF InHand
  <2>9. LetIn' /\ Deleted'
    BY <2>8 DEF LetIn, Deleted
  <2>10. SetOnce'
    <3>1. kept["reset"] = None /\ None \notin Codes!Codes
      BY <2>7 DEF Codes!Kinds, Codes!ConstantsAssumption
    <3> QED BY <1>1, <2>8, <3>1 DEF CodesInvariant, SetOnce
  <2>11. NoRowYet' /\ SocialOnly' /\ GivenOnce'
    BY <1>1, <2>3, <2>4, <2>7, <2>8 DEF NoRowYet, SocialOnly, GivenOnce
  <2> QED BY <2>5, <2>6, <2>9, <2>10, <2>11 DEF CodesInvariant
<1>7. CASE ~(user = None /\ Codes!CreateUser(h))
  <2>1. user # None
    <3>1. CASE Codes!CreateUser(h)
      BY <1>7, <3>1
    <3>2. CASE q.stage \in {"store", "mail"}
      BY <1>1, <3>2 DEF CodesInvariant, NoRowYet
    <3>3. CASE Codes!Mail(h) \/ Codes!SendFails(h)
      BY <3>2, <3>3 DEF Codes!Mail, Codes!SendFails, Codes!At
    <3> QED BY <3>1, <3>3
  <2>2. request' = [request EXCEPT ![h] = None] /\ user' = user
    BY <2>1 DEF Codes!CreateUser, Codes!Mail, Codes!SendFails, Codes!Done
  <2>3. /\ request' \in [Handlers -> {None} \cup Codes!Request]
        /\ \A x \in Handlers : request'[x] = IF x = h THEN None ELSE request[x]
    BY <2>2 DEF CodesInvariant, Codes!TypeOK
  <2>4. Codes!TypeOK'
    BY <1>1, <1>5, <2>2, <2>3 DEF CodesInvariant, Codes!TypeOK
  <2>5. CodesDrawn' /\ Unsent'
    BY <1>1, <2>3, CodesStay
  <2>6. LetIn' /\ SetOnce' /\ Deleted' /\ NoRowYet' /\ GivenOnce'
    BY <1>1, <1>5, <2>1, <2>2, CodesGoOn
  <2>7. SocialOnly'
    BY <1>1, <2>2, <2>3 DEF CodesInvariant, SocialOnly
  <2> QED BY <2>4, <2>5, <2>6, <2>7 DEF CodesInvariant
<1> QED BY <1>6, <1>7

LEMMA CodesStoreStep ==
  ASSUME Codes!ConstantsAssumption, CodesInvariant, NEW h \in Handlers, Codes!Store(h)
  PROVE  CodesInvariant'
<1> DEFINE q == request[h]
           r == [q EXCEPT !.stage = "mail"]
<1>1. /\ q # None /\ q.stage = "store"
      /\ kept' = [kept EXCEPT ![q.kind] = q.code] /\ request' = [request EXCEPT ![h] = r]
      /\ UNCHANGED <<user, mailed, drawn, requests, faults, trials, spent, shared>>
  BY DEF Codes!Store, Codes!At, Codes!ghosts
<1>2. /\ q \in [stage : {"create", "store", "mail", "row"}, kind : Codes!Kinds, code : Codes!Codes]
      /\ q.kind \in Codes!Kinds /\ q.code \in Codes!Codes /\ q.code # None
  BY <1>1, CodeRequestTypes DEF CodesInvariant
<1>3. r \in Codes!Request /\ r.stage = "mail" /\ r.kind = q.kind /\ r.code = q.code
  BY <1>2 DEF Codes!Request
<1> HIDE DEF r
<1>4. /\ request' \in [Handlers -> {None} \cup Codes!Request]
      /\ \A x \in Handlers : request'[x] = IF x = h THEN r ELSE request[x]
      /\ kept' \in [Codes!Kinds -> Codes!Codes \cup {None}]
      /\ \A k \in Codes!Kinds : kept'[k] = IF k = q.kind THEN q.code ELSE kept[k]
  BY <1>1, <1>2, <1>3 DEF CodesInvariant, Codes!TypeOK
<1>5. Codes!TypeOK'
  BY <1>1, <1>4 DEF CodesInvariant, Codes!TypeOK
<1>6. /\ \A y \in Handlers \ {h} : request[y] # None => request[y].code # q.code
      /\ \A k \in Codes!Kinds : kept[k] # q.code
      /\ spent[q.code] = 0
  BY <1>1 DEF CodesInvariant, Unsent
<1>7. CodesDrawn'
  BY <1>1, <1>3, <1>4 DEF CodesInvariant, CodesDrawn
<1>8. Unsent'
  <2> SUFFICES ASSUME NEW x \in Handlers, request'[x] # None, request'[x].stage \in {"create", "store"}
               PROVE  /\ \A y \in Handlers \ {x} : request'[y] # None => request'[y].code # request'[x].code
                      /\ \A k \in Codes!Kinds : kept'[k] # request'[x].code
                      /\ spent'[request'[x].code] = 0
    BY DEF Unsent
  <2>1. x # h /\ request'[x] = request[x]
    BY <1>3, <1>4
  <2>2. /\ \A y \in Handlers \ {x} : request[y] # None => request[y].code # request[x].code
        /\ \A k \in Codes!Kinds : kept[k] # request[x].code
        /\ spent[request[x].code] = 0
    BY <2>1 DEF CodesInvariant, Unsent
  <2> QED BY <1>1, <1>3, <1>4, <1>6, <2>1, <2>2
<1>9. \A x \in Handlers : \A k :
        /\ InHand(x, k)' => InHand(x, k) /\ request'[x] = request[x] /\ x # h
        /\ InHand(x, k) => InHand(x, k)' /\ request'[x] = request[x] /\ x # h
  BY <1>1, <1>3, <1>4 DEF InHand
<1>10. user # None
  BY <1>1 DEF CodesInvariant, NoRowYet
<1>11. LetIn'
  BY <1>1, <1>9 DEF CodesInvariant, LetIn
<1>12. SetOnce'
  <2> SUFFICES ASSUME NEW c \in Codes!Codes \ shared
               PROVE  /\ spent[c] <= 1
                      /\ spent[c] = 1 =>
                           /\ \A x \in Handlers : InHand(x, "reset")' /\ request'[x].code = c => ~Writing(x)'
                           /\ kept'["reset"] = c =>
                                \E x \in Handlers : InHand(x, "reset")' /\ request'[x].code = c
    BY <1>1 DEF SetOnce
  <2>1. spent[c] <= 1
    BY DEF CodesInvariant, SetOnce
  <2>2. ASSUME spent[c] = 1, NEW x \in Handlers, InHand(x, "reset")', request'[x].code = c
        PROVE  ~Writing(x)'
    BY <1>9, <2>2 DEF CodesInvariant, SetOnce, Writing
  <2>3. ASSUME spent[c] = 1, kept'["reset"] = c
        PROVE  \E x \in Handlers : InHand(x, "reset")' /\ request'[x].code = c
    <3>1. kept["reset"] = c
      BY <1>4, <1>6, <2>3 DEF Codes!Kinds
    <3>2. PICK x \in Handlers : InHand(x, "reset") /\ request[x].code = c
      BY <2>3, <3>1 DEF CodesInvariant, SetOnce
    <3> QED BY <1>9, <3>2
  <2> QED BY <2>1, <2>2, <2>3
<1>13. Deleted'
  <2> SUFFICES ASSUME NEW x \in Handlers, NEW k \in Codes!Kinds,
                      InHand(x, k)', request'[x].stage = "both", "code" \notin request'[x].todo,
                      request'[x].code \notin shared
               PROVE  kept'[k] # request'[x].code
    BY <1>1 DEF Deleted
  <2>1. InHand(x, k) /\ request'[x] = request[x] /\ x # h
    BY <1>9
  <2>2. kept[k] # request[x].code
    BY <2>1 DEF CodesInvariant, Deleted
  <2>3. request[x].code # q.code
    BY <1>6, <2>1 DEF InHand
  <2> QED BY <1>4, <2>1, <2>2, <2>3
<1>14. NoRowYet' /\ SocialOnly'
  <2>1. ~user.local => q.kind = "reset"
    BY <1>1, <1>10 DEF CodesInvariant, SocialOnly
  <2>2. ~user.local => kept'["verification"] = None
    BY <1>4, <1>10, <2>1 DEF CodesInvariant, SocialOnly, Codes!Kinds
  <2> QED BY <1>1, <1>3, <1>4, <1>10, <2>1, <2>2 DEF CodesInvariant, NoRowYet, SocialOnly
<1>15. GivenOnce'
  BY <1>1, <1>9 DEF CodesInvariant, GivenOnce
<1> QED BY <1>5, <1>7, <1>8, <1>11, <1>12, <1>13, <1>14, <1>15 DEF CodesInvariant

\* A code is shown: a second one in hand is remembered with the first.
LEMMA CodesShowStep ==
  ASSUME Codes!ConstantsAssumption, CodesInvariant, NEW h \in Handlers, NEW m \in mailed,
         Codes!Show(h, m)
  PROVE  CodesInvariant'
<1> DEFINE r == [stage |-> "row", kind |-> m.kind, code |-> m.code]
           inHand == {o \in Handlers : /\ Codes!At(o, "row") \/ Codes!At(o, "both")
                                       /\ request[o].kind = m.kind}
<1>1. /\ kept[m.kind] = m.code /\ request[h] = None /\ requests < CodeRequests
      /\ requests' = requests + 1 /\ request' = [request EXCEPT ![h] = r]
      /\ shared' = shared \cup {request[o].code : o \in inHand}
                          \cup (IF inHand = {} THEN {} ELSE {m.code})
      /\ UNCHANGED <<user, kept, mailed, drawn, faults, trials, spent>>
  BY DEF Codes!Show, Codes!Begin
<1>2. /\ m.kind \in Codes!Kinds /\ m.code \in Codes!Codes /\ m.code # None
      /\ m = [kind |-> m.kind, code |-> m.code]
  BY DEF CodesInvariant, Codes!TypeOK, Codes!ConstantsAssumption
<1>3. r \in Codes!Request /\ r.stage = "row" /\ r.kind = m.kind /\ r.code = m.code
  BY <1>2 DEF Codes!Request
<1>4. r # None
  BY <1>3 DEF Codes!ConstantsAssumption
<1>5. \A o \in Handlers : o \in inHand <=> InHand(o, m.kind)
  BY DEF InHand, Codes!At
<1> HIDE DEF r, inHand
<1>6. /\ request' \in [Handlers -> {None} \cup Codes!Request]
      /\ \A x \in Handlers : request'[x] = IF x = h THEN r ELSE request[x]
  BY <1>1, <1>3 DEF CodesInvariant, Codes!TypeOK
<1>7. /\ \A o \in Handlers : InHand(o, m.kind) => request[o].code \in shared' /\ m.code \in shared'
      /\ shared \subseteq shared' /\ shared' \subseteq Codes!Codes
      /\ \A c \in shared' : c \in shared \/ \E o \in Handlers : InHand(o, m.kind)
  <2>1. inHand \subseteq Handlers
    BY DEF inHand
  <2>2. \A o \in inHand : request[o].code \in Codes!Codes
    BY <1>5, <2>1, CodeRequestTypes DEF CodesInvariant, InHand
  <2>3. shared \subseteq Codes!Codes
    BY DEF CodesInvariant, Codes!TypeOK
  <2> QED BY <1>1, <1>2, <1>5, <2>1, <2>2, <2>3
<1>8. requests' \in 0..CodeRequests
  BY <1>1 DEF CodesInvariant, Codes!TypeOK, Codes!ConstantsAssumption
<1>9. Codes!TypeOK'
  BY <1>1, <1>6, <1>7, <1>8 DEF CodesInvariant, Codes!TypeOK
<1>10. user # None
  BY <1>1, <1>2 DEF CodesInvariant, NoRowYet
<1>11. CodesDrawn'
  <2>1. drawn' <= requests'
    BY <1>1 DEF CodesInvariant, CodesDrawn, Codes!TypeOK
  <2>2. \A x \in Handlers : request'[x] # None => request'[x].code <= drawn'
    BY <1>1, <1>2, <1>3, <1>6 DEF CodesInvariant, CodesDrawn
  <2> QED BY <1>1, <2>1, <2>2 DEF CodesInvariant, CodesDrawn
<1>12. Unsent'
  BY <1>1, <1>2, <1>3, <1>6 DEF CodesInvariant, Unsent
<1>13. \A x \in Handlers : \A k :
         /\ InHand(x, k)' /\ x # h => InHand(x, k) /\ request'[x] = request[x]
         /\ InHand(x, k) => InHand(x, k)' /\ request'[x] = request[x] /\ x # h
         /\ InHand(h, k)' => k = m.kind
  BY <1>1, <1>3, <1>4, <1>6 DEF InHand
<1>14. LetIn'
  <2> SUFFICES ASSUME NEW x \in Handlers, NEW k \in Codes!Kinds, InHand(x, k)'
               PROVE  /\ [kind |-> k, code |-> request'[x].code] \in mailed'
                      /\ \A y \in Handlers \ {x} : InHand(y, k)' => request'[x].code \in shared'
    BY DEF LetIn
  <2>1. CASE x = h
    <3>1. k = m.kind /\ request'[x].code = m.code
      BY <1>3, <1>6, <1>13, <2>1
    <3>2. \A y \in Handlers \ {x} : InHand(y, k)' => m.code \in shared'
      BY <1>7, <1>13, <2>1, <3>1
    <3> QED BY <1>1, <1>2, <3>1, <3>2
  <2>2. CASE x # h
    <3>1. InHand(x, k) /\ request'[x] = request[x]
      BY <1>13, <2>2
    <3>2. \A y \in Handlers \ {x, h} : InHand(y, k)' => request[x].code \in shared
      BY <1>13, <3>1 DEF CodesInvariant, LetIn
    <3>3. InHand(h, k)' => request[x].code \in shared'
      BY <1>7, <1>13, <3>1
    <3> QED BY <1>1, <1>7, <3>1, <3>2, <3>3 DEF CodesInvariant, LetIn
  <2> QED BY <2>1, <2>2
<1>15. SetOnce'
  <2> SUFFICES ASSUME NEW c \in Codes!Codes \ shared'
               PROVE  /\ spent[c] <= 1
                      /\ spent[c] = 1 =>
                           /\ \A x \in Handlers : InHand(x, "reset")' /\ request'[x].code = c => ~Writing(x)'
                           /\ kept["reset"] = c =>
                                \E x \in Handlers : InHand(x, "reset")' /\ request'[x].code = c
    BY <1>1 DEF SetOnce
  <2>1. c \notin shared /\ spent[c] <= 1
    BY <1>7 DEF CodesInvariant, SetOnce
  <2>2. ASSUME spent[c] = 1, kept["reset"] = c
        PROVE  \E x \in Handlers : InHand(x, "reset")' /\ request'[x].code = c
    <3>1. PICK x \in Handlers : InHand(x, "reset") /\ request[x].code = c
      BY <2>1, <2>2 DEF CodesInvariant, SetOnce
    <3> QED BY <1>13, <3>1
  <2>3. ASSUME spent[c] = 1, NEW x \in Handlers, InHand(x, "reset")', request'[x].code = c
        PROVE  ~Writing(x)'
    <3>1. CASE x # h
      BY <1>13, <2>1, <2>3, <3>1 DEF CodesInvariant, SetOnce, Writing
    <3>2. CASE x = h
      <4>1. m.kind = "reset" /\ m.code = c
        BY <1>3, <1>6, <1>13, <2>3, <3>2
      <4>2. \E y \in Handlers : InHand(y, "reset")
        BY <1>1, <2>1, <2>3, <4>1 DEF CodesInvariant, SetOnce
      <4> QED BY <1>7, <4>1, <4>2
    <3> QED BY <3>1, <3>2
  <2> QED BY <2>1, <2>2, <2>3
<1>16. Deleted'
  BY <1>1, <1>3, <1>6, <1>7, <1>13 DEF CodesInvariant, Deleted
<1>17. NoRowYet' /\ SocialOnly'
  <2>1. ~user.local => m.kind = "reset"
    BY <1>1, <1>2, <1>10 DEF CodesInvariant, SocialOnly, Codes!Kinds
  <2> QED BY <1>1, <1>3, <1>6, <1>10, <2>1 DEF CodesInvariant, NoRowYet, SocialOnly
<1>18. GivenOnce'
  <2>1. trials > 1 => \E l \in mailed : l.kind = "verification" /\ l.code \in shared'
    BY <1>7 DEF CodesInvariant, GivenOnce
  <2>2. \A x \in Handlers :
          user # None /\ user.verified /\ InHand(x, "verification")' /\ request'[x].stage = "both"
            /\ "row" \in request'[x].todo => request'[x].code \in shared'
    BY <1>3, <1>6, <1>7, <1>13 DEF CodesInvariant, GivenOnce
  <2> QED BY <1>1, <2>1, <2>2 DEF CodesInvariant, GivenOnce
<1> QED BY <1>9, <1>11, <1>12, <1>14, <1>15, <1>16, <1>17, <1>18 DEF CodesInvariant

LEMMA CodesFindStep ==
  ASSUME Codes!ConstantsAssumption, CodesInvariant, NEW h \in Handlers, Codes!Find(h)
  PROVE  CodesInvariant'
<1> DEFINE q == request[h]
           r == [stage |-> "both", kind |-> q.kind, code |-> q.code, todo |-> {"row", "code"}]
<1>1. /\ q # None /\ q.stage = "row"
      /\ request' = [request EXCEPT ![h] =
                      IF user = None \/ (q.kind = "verification" /\ user.verified) THEN None ELSE r]
      /\ UNCHANGED <<user, kept, mailed, drawn, requests, faults, trials, spent, shared>>
  BY DEF Codes!Find, Codes!At, Codes!ghosts
<1>2. q.kind \in Codes!Kinds /\ q.code \in Codes!Codes
  BY <1>1, CodeRequestTypes DEF CodesInvariant
<1>3. /\ r \in Codes!Request /\ r.stage = "both" /\ r.kind = q.kind /\ r.code = q.code
      /\ r.todo = {"row", "code"}
  BY <1>2 DEF Codes!Request
<1>4. r # None
  BY <1>3 DEF Codes!ConstantsAssumption
<1>5. user # None
  BY <1>1 DEF CodesInvariant, NoRowYet
<1> HIDE DEF r
<1>6. /\ request' \in [Handlers -> {None} \cup Codes!Request]
      /\ \A x \in Handlers \ {h} : request'[x] = request[x]
      /\ request'[h] = IF q.kind = "verification" /\ user.verified THEN None ELSE r
  BY <1>1, <1>3, <1>5 DEF CodesInvariant, Codes!TypeOK
<1>7. Codes!TypeOK'
  BY <1>1, <1>6 DEF CodesInvariant, Codes!TypeOK
<1>8. CodesDrawn' /\ Unsent'
  <2>1. \A x \in Handlers : request'[x] # None =>
           /\ request[x] # None /\ request'[x].code = request[x].code
           /\ request'[x].stage \in {"create", "store"} => request[x].stage \in {"create", "store"}
    BY <1>1, <1>3, <1>6
  <2> QED BY <1>1, <2>1, CodesStay
<1>9. \A x \in Handlers : \A k : InHand(x, k)' =>
        /\ InHand(x, k) /\ request'[x].code = request[x].code
        /\ x # h => request'[x] = request[x]
        /\ x = h => request'[x] = r
  BY <1>1, <1>3, <1>6 DEF InHand
<1>10. LetIn'
  BY <1>1, <1>9 DEF CodesInvariant, LetIn
<1>11. SetOnce'
  <2> SUFFICES ASSUME NEW c \in Codes!Codes \ shared
               PROVE  /\ spent[c] <= 1
                      /\ spent[c] = 1 =>
                           /\ \A x \in Handlers : InHand(x, "reset")' /\ request'[x].code = c => ~Writing(x)'
                           /\ kept["reset"] = c =>
                                \E x \in Handlers : InHand(x, "reset")' /\ request'[x].code = c
    BY <1>1 DEF SetOnce
  <2>1. spent[c] <= 1
    BY DEF CodesInvariant, SetOnce
  <2>2. ASSUME spent[c] = 1, NEW x \in Handlers, InHand(x, "reset"), request[x].code = c
        PROVE  ~Writing(x) /\ x # h
    BY <1>1, <2>2 DEF CodesInvariant, SetOnce, Writing
  <2>3. ASSUME spent[c] = 1, NEW x \in Handlers, InHand(x, "reset")', request'[x].code = c
        PROVE  ~Writing(x)'
    BY <1>9, <2>2, <2>3 DEF Writing
  <2>4. ASSUME spent[c] = 1, kept["reset"] = c
        PROVE  \E x \in Handlers : InHand(x, "reset")' /\ request'[x].code = c
    <3>1. PICK x \in Handlers : InHand(x, "reset") /\ request[x].code = c
      BY <2>4 DEF CodesInvariant, SetOnce
    <3>2. x # h
      BY <2>2, <2>4, <3>1
    <3> QED BY <1>6, <3>1, <3>2 DEF InHand
  <2> QED BY <2>1, <2>3, <2>4
<1>12. Deleted'
  BY <1>1, <1>3, <1>9 DEF CodesInvariant, Deleted
<1>13. NoRowYet' /\ SocialOnly'
  <2>1. ~user.local => q.kind = "reset"
    BY <1>1, <1>5 DEF CodesInvariant, SocialOnly
  <2> QED BY <1>1, <1>3, <1>5, <1>6, <2>1 DEF CodesInvariant, NoRowYet, SocialOnly
<1>14. GivenOnce'
  <2>1. ASSUME NEW x \in Handlers, user.verified, InHand(x, "verification")',
               request'[x].stage = "both", "row" \in request'[x].todo
        PROVE  request'[x].code \in shared
    <3>1. CASE x = h
      BY <1>3, <1>4, <1>6, <2>1, <3>1 DEF InHand
    <3>2. CASE x # h
      BY <1>5, <1>9, <2>1, <3>2 DEF CodesInvariant, GivenOnce
    <3> QED BY <3>1, <3>2
  <2> QED BY <1>1, <2>1 DEF CodesInvariant, GivenOnce
<1> QED BY <1>7, <1>8, <1>10, <1>11, <1>12, <1>13, <1>14 DEF CodesInvariant

\* One of the two of a request is done.
LEMMA CodesDid ==
  ASSUME Codes!ConstantsAssumption, CodesInvariant, NEW h \in Handlers, Codes!At(h, "both"),
         NEW what \in {"row", "code"}, what \in request[h].todo, Codes!Did(h, what)
  PROVE  /\ request' \in [Handlers -> {None} \cup Codes!Request]
         /\ \A x \in Handlers \ {h} : request'[x] = request[x]
         /\ \A k : InHand(h, k)' => InHand(h, k)
         /\ request'[h] # None =>
              /\ request'[h].stage = "both" /\ request'[h].kind = request[h].kind
              /\ request'[h].code = request[h].code
              /\ request'[h].todo = request[h].todo \ {what}
         /\ request'[h] = None => request[h].todo = {what}
<1> DEFINE q == request[h]
           r == [q EXCEPT !.todo = @ \ {what}]
<1>1. /\ q # None /\ q.stage = "both"
      /\ q \in [stage : {"both"}, kind : Codes!Kinds, code : Codes!Codes, todo : SUBSET {"row", "code"}]
  BY CodeRequestTypes DEF CodesInvariant, Codes!At
<1>2. /\ r \in Codes!Request /\ r.stage = "both" /\ r.kind = q.kind /\ r.code = q.code
      /\ r.todo = q.todo \ {what}
  BY <1>1 DEF Codes!Request
<1>3. r # None
  BY <1>2 DEF Codes!ConstantsAssumption
<1>4. request' = [request EXCEPT ![h] = IF q.todo = {what} THEN None ELSE r]
  BY DEF Codes!Did
<1> HIDE DEF r
<1>5. /\ request' \in [Handlers -> {None} \cup Codes!Request]
      /\ \A x \in Handlers \ {h} : request'[x] = request[x]
      /\ request'[h] = IF q.todo = {what} THEN None ELSE r
  BY <1>2, <1>4 DEF CodesInvariant, Codes!TypeOK
<1> QED BY <1>1, <1>2, <1>3, <1>5 DEF InHand

\* What the others have in hand stays, and the request writes no row that it did not.
LEMMA CodesDidHand ==
  ASSUME Codes!ConstantsAssumption, CodesInvariant, NEW h \in Handlers, Codes!At(h, "both"),
         NEW what \in {"row", "code"}, what \in request[h].todo, Codes!Did(h, what)
  PROVE  /\ \A x \in Handlers : \A k : InHand(x, k)' =>
              /\ InHand(x, k) /\ request'[x].code = request[x].code
              /\ request'[x].stage = request[x].stage
              /\ Writing(x)' => Writing(x)
              /\ request'[x].stage = "both" /\ "row" \in request'[x].todo =>
                   request[x].stage = "both" /\ "row" \in request[x].todo
              /\ x # h => request'[x] = request[x]
         /\ \A x \in Handlers \ {h} : \A k : InHand(x, k) => InHand(x, k)'
         /\ \A x \in Handlers : request'[x] # None =>
              /\ request[x] # None /\ request'[x].code = request[x].code
              /\ request'[x].kind = request[x].kind
              /\ request'[x].stage = request[x].stage
         /\ user # None /\ InHand(h, request[h].kind) /\ request[h].kind \in Codes!Kinds
         /\ request[h].code \in Codes!Codes /\ request[h].code # None
<1>1. /\ request' \in [Handlers -> {None} \cup Codes!Request]
      /\ \A x \in Handlers \ {h} : request'[x] = request[x]
      /\ \A k : InHand(h, k)' => InHand(h, k)
      /\ request'[h] # None =>
           /\ request'[h].stage = "both" /\ request'[h].kind = request[h].kind
           /\ request'[h].code = request[h].code
           /\ request'[h].todo = request[h].todo \ {what}
  BY CodesDid
<1>2. request[h] # None /\ request[h].stage = "both"
  BY DEF Codes!At
<1>3. /\ user # None /\ InHand(h, request[h].kind) /\ request[h].kind \in Codes!Kinds
      /\ request[h].code \in Codes!Codes /\ request[h].code # None
  BY <1>2, CodeRequestTypes DEF CodesInvariant, NoRowYet, InHand
<1>4. \A x \in Handlers : request'[x] # None =>
        /\ request[x] # None /\ request'[x].code = request[x].code
        /\ request'[x].kind = request[x].kind /\ request'[x].stage = request[x].stage
  BY <1>1, <1>2
<1>5. \A x \in Handlers \ {h} : \A k : (InHand(x, k) <=> InHand(x, k)') /\ (Writing(x) <=> Writing(x)')
  BY <1>1 DEF InHand, Writing
<1>6. \A x \in Handlers : \A k : InHand(x, k)' =>
        /\ InHand(x, k) /\ request'[x].code = request[x].code
        /\ request'[x].stage = request[x].stage
        /\ Writing(x)' => Writing(x)
        /\ request'[x].stage = "both" /\ "row" \in request'[x].todo =>
             request[x].stage = "both" /\ "row" \in request[x].todo
        /\ x # h => request'[x] = request[x]
  <2> TAKE x \in Handlers
  <2>1. CASE x = h
    BY <1>1, <1>2, <2>1 DEF InHand, Writing
  <2>2. CASE x # h
    BY <1>1, <1>5, <2>2
  <2> QED BY <2>1, <2>2
<1> QED BY <1>3, <1>4, <1>5, <1>6

\* The row is written: the trial, or the password.
LEMMA CodesWriteStep ==
  ASSUME Codes!ConstantsAssumption, CodesInvariant, NEW h \in Handlers, Codes!WriteRow(h)
  PROVE  CodesInvariant'
<1> DEFINE q == request[h]
<1>1. /\ Codes!At(h, "both") /\ "row" \in q.todo /\ Codes!Did(h, "row")
      /\ UNCHANGED <<kept, mailed, drawn, requests, faults, shared>>
      /\ \/ /\ q.kind = "verification" /\ user' = [user EXCEPT !.verified = TRUE]
            /\ trials' = trials + 1 /\ spent' = spent
         \/ /\ q.kind # "verification" /\ spent' = [spent EXCEPT ![q.code] = @ + 1]
            /\ user' = user /\ trials' = trials
  BY DEF Codes!WriteRow
<1>2. /\ request' \in [Handlers -> {None} \cup Codes!Request]
      /\ request'[h] # None => request'[h].todo = q.todo \ {"row"}
      /\ request'[h] = None => q.todo = {"row"}
      /\ request'[h] # None => request'[h].stage = "both" /\ request'[h].code = q.code
                                 /\ request'[h].kind = q.kind
  BY <1>1, CodesDid
<1>3. /\ \A x \in Handlers : \A k : InHand(x, k)' =>
              /\ InHand(x, k) /\ request'[x].code = request[x].code
              /\ request'[x].stage = request[x].stage
              /\ Writing(x)' => Writing(x)
              /\ request'[x].stage = "both" /\ "row" \in request'[x].todo =>
                   request[x].stage = "both" /\ "row" \in request[x].todo
              /\ x # h => request'[x] = request[x]
      /\ \A x \in Handlers \ {h} : \A k : InHand(x, k) => InHand(x, k)'
  BY <1>1, CodesDidHand
<1>4. /\ \A x \in Handlers : request'[x] # None =>
           /\ request[x] # None /\ request'[x].code = request[x].code
           /\ request'[x].kind = request[x].kind
           /\ request'[x].stage = request[x].stage
      /\ user # None /\ InHand(h, q.kind) /\ q.kind \in Codes!Kinds
      /\ q.code \in Codes!Codes /\ q.code # None
  BY <1>1, CodesDidHand
<1>5. q # None /\ q.stage = "both"
  BY <1>1 DEF Codes!At
<1>6. /\ user \in Codes!Row /\ trials \in Nat /\ spent \in [Codes!Codes -> Nat]
      /\ user' \in Codes!Row /\ user'.local = user.local /\ trials' \in Nat
      /\ spent' \in [Codes!Codes -> Nat]
      /\ \A c \in Codes!Codes : spent'[c] = IF c = q.code /\ q.kind = "reset" THEN spent[c] + 1
                                            ELSE spent[c]
  <2>1. /\ user \in Codes!Row /\ trials \in Nat /\ spent \in [Codes!Codes -> Nat]
        /\ q.kind \in {"verification", "reset"}
    BY <1>4 DEF CodesInvariant, Codes!TypeOK, Codes!Kinds
  <2>2. /\ [user EXCEPT !.verified = TRUE] \in Codes!Row
        /\ [user EXCEPT !.verified = TRUE].local = user.local
    BY <2>1 DEF Codes!Row
  <2>3. user' \in Codes!Row /\ user'.local = user.local
    <3>1. CASE user' = user
      BY <2>1, <3>1
    <3>2. CASE user' = [user EXCEPT !.verified = TRUE]
      BY <2>2, <3>2 DEF Codes!Row
    <3> QED BY <1>1, <3>1, <3>2
  <2>4. trials' \in Nat
    BY <1>1, <2>1
  <2> QED BY <1>1, <1>4, <2>1, <2>3, <2>4
<1>7. user' # None
  BY <1>6 DEF Codes!ConstantsAssumption
<1>8. Codes!TypeOK'
  <2>1. user' \in {None} \cup Codes!Row /\ trials' \in Nat /\ spent' \in [Codes!Codes -> Nat]
    BY <1>6
  <2> QED BY <1>1, <1>2, <2>1 DEF CodesInvariant, Codes!TypeOK
<1>9. CodesDrawn'
  <2>1. \A x \in Handlers : request'[x] # None => request'[x].code <= drawn'
    BY <1>1, <1>4 DEF CodesInvariant, CodesDrawn
  <2>2. q.code <= drawn /\ q.code \in Nat /\ drawn \in Nat
    BY <1>4, <1>5 DEF CodesInvariant, CodesDrawn, Codes!TypeOK, Codes!Codes
  <2>3. \A c \in Codes!Codes : c > drawn' => spent'[c] = 0
    BY <1>1, <1>6, <2>2 DEF CodesInvariant, CodesDrawn, Codes!Codes
  <2> QED BY <1>1, <2>1, <2>3 DEF CodesInvariant, CodesDrawn
<1>10. Unsent'
  <2> SUFFICES ASSUME NEW x \in Handlers, request'[x] # None, request'[x].stage \in {"create", "store"}
               PROVE  /\ \A y \in Handlers \ {x} : request'[y] # None => request'[y].code # request'[x].code
                      /\ \A k \in Codes!Kinds : kept'[k] # request'[x].code
                      /\ spent'[request'[x].code] = 0
    BY DEF Unsent
  <2>1. /\ request[x] # None /\ request[x].stage \in {"create", "store"}
        /\ request'[x].code = request[x].code /\ x # h
    BY <1>4, <1>5
  <2>2. /\ \A y \in Handlers \ {x} : request[y] # None => request[y].code # request[x].code
        /\ \A k \in Codes!Kinds : kept[k] # request[x].code
        /\ spent[request[x].code] = 0
    BY <2>1 DEF CodesInvariant, Unsent
  <2>3. request[x].code \in Codes!Codes /\ request[x].code # q.code
    BY <1>5, <2>1, <2>2, CodeRequestTypes DEF CodesInvariant
  <2>4. spent'[request'[x].code] = 0
    BY <1>6, <2>1, <2>2, <2>3
  <2>5. \A y \in Handlers \ {x} : request'[y] # None => request'[y].code # request'[x].code
    BY <1>4, <2>1, <2>2
  <2> QED BY <1>1, <2>1, <2>2, <2>4, <2>5
<1>11. LetIn'
  BY <1>1, <1>3 DEF CodesInvariant, LetIn
<1>12. SetOnce'
  <2> SUFFICES ASSUME NEW c \in Codes!Codes \ shared
               PROVE  /\ spent'[c] <= 1
                      /\ spent'[c] = 1 =>
                           /\ \A x \in Handlers : InHand(x, "reset")' /\ request'[x].code = c => ~Writing(x)'
                           /\ kept["reset"] = c =>
                                \E x \in Handlers : InHand(x, "reset")' /\ request'[x].code = c
    BY <1>1 DEF SetOnce
  <2>1. /\ spent[c] \in Nat /\ spent[c] <= 1
        /\ spent[c] = 1 =>
             /\ \A x \in Handlers : InHand(x, "reset") /\ request[x].code = c => ~Writing(x)
             /\ kept["reset"] = c => \E x \in Handlers : InHand(x, "reset") /\ request[x].code = c
    BY <1>6 DEF CodesInvariant, SetOnce
  <2>2. CASE c = q.code /\ q.kind = "reset"
    <3>1. InHand(h, "reset") /\ Writing(h)
      BY <1>1, <1>4, <2>2 DEF Writing
    <3>2. spent[c] = 0 /\ spent'[c] = 1
      BY <1>6, <2>1, <2>2, <3>1
    <3>3. \A x \in Handlers \ {h} : ~InHand(x, "reset")
      BY <2>2, <3>1 DEF CodesInvariant, LetIn, Codes!Kinds
    <3>4. InHand(h, "reset")' => ~Writing(h)'
      BY <1>2 DEF InHand, Writing
    <3>5. ASSUME kept["reset"] = c
          PROVE  InHand(h, "reset")' /\ request'[h].code = c
      <4>1. "code" \in q.todo
        BY <1>5, <2>2, <3>1, <3>5 DEF CodesInvariant, Deleted, Codes!Kinds
      <4> QED BY <1>2, <2>2, <4>1 DEF InHand
    <3>6. \A x \in Handlers : InHand(x, "reset")' => x = h
      BY <1>3, <3>3
    <3> QED BY <3>2, <3>4, <3>5, <3>6
  <2>3. CASE ~(c = q.code /\ q.kind = "reset")
    <3>1. spent'[c] = spent[c]
      BY <1>6, <2>3
    <3>2. \A x \in Handlers : InHand(x, "reset") /\ request[x].code = c => x # h
      BY <2>3 DEF InHand
    <3>3. \A x \in Handlers : InHand(x, "reset") /\ request[x].code = c =>
             InHand(x, "reset")' /\ request'[x].code = c
      BY <1>3, <3>2
    <3>4. \A x \in Handlers : InHand(x, "reset")' /\ request'[x].code = c =>
             InHand(x, "reset") /\ request[x].code = c /\ (Writing(x)' => Writing(x))
      BY <1>3
    <3> QED BY <2>1, <3>1, <3>3, <3>4
  <2> QED BY <2>2, <2>3
<1>13. Deleted'
  <2> SUFFICES ASSUME NEW x \in Handlers, NEW k \in Codes!Kinds,
                      InHand(x, k)', request'[x].stage = "both", "code" \notin request'[x].todo,
                      request'[x].code \notin shared
               PROVE  kept[k] # request'[x].code
    BY <1>1 DEF Deleted
  <2>1. InHand(x, k) /\ request'[x].code = request[x].code /\ request[x].stage = "both"
    BY <1>3
  <2>2. "code" \notin request[x].todo
    <3>1. CASE x = h
      BY <1>2, <3>1 DEF InHand
    <3>2. CASE x # h
      BY <1>3, <3>2
    <3> QED BY <3>1, <3>2
  <2> QED BY <2>1, <2>2 DEF CodesInvariant, Deleted
<1>14. user.local \/ q.kind = "reset"
  BY <1>4, <1>5 DEF CodesInvariant, SocialOnly
<1>15. NoRowYet' /\ SocialOnly'
  <2>1. ~user.local => trials' = trials
    BY <1>1, <1>14
  <2> QED BY <1>1, <1>4, <1>6, <1>7, <2>1 DEF CodesInvariant, NoRowYet, SocialOnly
<1>16. GivenOnce'
  <2>1. CASE q.kind = "verification"
    <3>1. /\ user' = [user EXCEPT !.verified = TRUE] /\ trials' = trials + 1 /\ user.local
      BY <1>1, <1>14, <2>1
    <3>2. user'.local /\ user'.verified /\ trials' > 0
      BY <1>6, <3>1 DEF Codes!Row
    <3>3. ASSUME trials' > 1
          PROVE  \E m \in mailed : m.kind = "verification" /\ m.code \in shared
      <4>1. trials > 0
        BY <1>6, <3>1, <3>3
      <4>2. q.code \in shared
        BY <1>1, <1>4, <1>5, <2>1, <4>1 DEF CodesInvariant, GivenOnce
      <4>3. [kind |-> "verification", code |-> q.code] \in mailed
        BY <1>4, <2>1 DEF CodesInvariant, LetIn
      <4> QED BY <4>2, <4>3
    <3>4. \A x \in Handlers :
            InHand(x, "verification")' /\ request'[x].stage = "both"
              /\ "row" \in request'[x].todo => request'[x].code \in shared
      <4> SUFFICES ASSUME NEW x \in Handlers, InHand(x, "verification")',
                          "row" \in request'[x].todo
                   PROVE  request'[x].code \in shared
        OBVIOUS
      <4>1. x # h
        BY <1>2 DEF InHand
      <4>2. InHand(x, "verification") /\ request'[x].code = request[x].code
        BY <1>3
      <4> QED BY <1>4, <2>1, <4>1, <4>2 DEF CodesInvariant, LetIn
    <3> QED BY <1>1, <1>7, <3>2, <3>3, <3>4 DEF GivenOnce
  <2>2. CASE q.kind # "verification"
    <3>1. user' = user /\ trials' = trials
      BY <1>1, <2>2
    <3>2. \A x \in Handlers :
            user.verified /\ InHand(x, "verification")' /\ request'[x].stage = "both"
              /\ "row" \in request'[x].todo => request'[x].code \in shared
      BY <1>3, <1>4 DEF CodesInvariant, GivenOnce
    <3> QED BY <1>1, <3>1, <3>2 DEF CodesInvariant, GivenOnce
  <2> QED BY <2>1, <2>2
<1> QED BY <1>8, <1>9, <1>10, <1>11, <1>12, <1>13, <1>15, <1>16 DEF CodesInvariant

\* The code goes, whichever is kept by now, or stays because Redis failed.
LEMMA CodesDeleteStep ==
  ASSUME Codes!ConstantsAssumption, CodesInvariant, NEW h \in Handlers,
         Codes!DeleteCode(h) \/ Codes!DeleteFails(h)
  PROVE  CodesInvariant'
<1> DEFINE q == request[h]
<1>1. /\ Codes!At(h, "both") /\ "code" \in q.todo /\ Codes!Did(h, "code")
      /\ UNCHANGED <<user, mailed, drawn, requests, trials, spent>>
      /\ \/ kept' = [kept EXCEPT ![q.kind] = None] /\ shared' = shared /\ faults' = faults
         \/ kept' = kept /\ shared' = shared \cup {q.code} /\ Codes!Fault
  BY DEF Codes!DeleteCode, Codes!DeleteFails, Codes!ghosts
<1>2. /\ request' \in [Handlers -> {None} \cup Codes!Request]
      /\ request'[h] # None => request'[h].todo = q.todo \ {"code"}
  BY <1>1, CodesDid
<1>3. /\ \A x \in Handlers : \A k : InHand(x, k)' =>
              /\ InHand(x, k) /\ request'[x].code = request[x].code
              /\ request'[x].stage = request[x].stage
              /\ Writing(x)' => Writing(x)
              /\ request'[x].stage = "both" /\ "row" \in request'[x].todo =>
                   request[x].stage = "both" /\ "row" \in request[x].todo
              /\ x # h => request'[x] = request[x]
      /\ \A x \in Handlers \ {h} : \A k : InHand(x, k) => InHand(x, k)'
  BY <1>1, CodesDidHand
<1>4. /\ \A x \in Handlers : request'[x] # None =>
           /\ request[x] # None /\ request'[x].code = request[x].code
           /\ request'[x].kind = request[x].kind
           /\ request'[x].stage = request[x].stage
      /\ user # None /\ InHand(h, q.kind) /\ q.kind \in Codes!Kinds
      /\ q.code \in Codes!Codes /\ q.code # None
  BY <1>1, CodesDidHand
<1>5. /\ kept' \in [Codes!Kinds -> Codes!Codes \cup {None}]
      /\ \A k \in Codes!Kinds : kept'[k] = kept[k] \/ kept'[k] = None
      /\ kept'[q.kind] = None \/ q.code \in shared'
      /\ shared \subseteq shared' /\ shared' \subseteq Codes!Codes
      /\ \A k \in Codes!Kinds : k # q.kind => kept'[k] = kept[k]
  BY <1>1, <1>4 DEF CodesInvariant, Codes!TypeOK
<1>6. faults' \in 0..CodeFaults
  <2>1. faults \in 0..CodeFaults /\ CodeFaults \in Nat
    BY DEF CodesInvariant, Codes!TypeOK, Codes!ConstantsAssumption
  <2> QED BY <1>1, <2>1 DEF Codes!Fault
<1>7. Codes!TypeOK'
  BY <1>1, <1>2, <1>5, <1>6 DEF CodesInvariant, Codes!TypeOK
<1>8. CodesDrawn' /\ Unsent'
  BY <1>1, <1>4, <1>5, CodesStay
<1>9. LetIn'
  <2> SUFFICES ASSUME NEW x \in Handlers, NEW k \in Codes!Kinds, InHand(x, k)'
               PROVE  /\ [kind |-> k, code |-> request'[x].code] \in mailed'
                      /\ \A y \in Handlers \ {x} : InHand(y, k)' => request'[x].code \in shared'
    BY DEF LetIn
  <2>1. InHand(x, k) /\ request'[x].code = request[x].code
    BY <1>3
  <2>2. \A y \in Handlers : InHand(y, k)' => InHand(y, k)
    BY <1>3
  <2> QED BY <1>1, <1>5, <2>1, <2>2 DEF CodesInvariant, LetIn
<1>10. SetOnce'
  <2> SUFFICES ASSUME NEW c \in Codes!Codes \ shared'
               PROVE  /\ spent[c] <= 1
                      /\ spent[c] = 1 =>
                           /\ \A x \in Handlers : InHand(x, "reset")' /\ request'[x].code = c => ~Writing(x)'
                           /\ kept'["reset"] = c =>
                                \E x \in Handlers : InHand(x, "reset")' /\ request'[x].code = c
    BY <1>1 DEF SetOnce
  <2>1. c \notin shared /\ c # None /\ spent[c] <= 1
    BY <1>5 DEF CodesInvariant, SetOnce, Codes!ConstantsAssumption
  <2>2. ASSUME spent[c] = 1, NEW x \in Handlers, InHand(x, "reset")', request'[x].code = c
        PROVE  ~Writing(x)'
    BY <1>3, <2>1, <2>2 DEF CodesInvariant, SetOnce
  <2>3. ASSUME spent[c] = 1, kept'["reset"] = c
        PROVE  \E x \in Handlers : InHand(x, "reset")' /\ request'[x].code = c
    <3>1. kept["reset"] = c
      BY <1>5, <2>1, <2>3 DEF Codes!Kinds
    <3>2. PICK x \in Handlers : InHand(x, "reset") /\ request[x].code = c
      BY <2>1, <2>3, <3>1 DEF CodesInvariant, SetOnce
    <3>3. x # h
      <4>1. CASE q.kind = "reset"
        BY <1>5, <2>1, <2>3, <3>2, <4>1
      <4>2. CASE q.kind # "reset"
        BY <3>2, <4>2 DEF InHand
      <4> QED BY <4>1, <4>2
    <3> QED BY <1>3, <3>2, <3>3
  <2> QED BY <2>1, <2>2, <2>3
<1>11. Deleted'
  <2> SUFFICES ASSUME NEW x \in Handlers, NEW k \in Codes!Kinds,
                      InHand(x, k)', request'[x].stage = "both", "code" \notin request'[x].todo,
                      request'[x].code \notin shared'
               PROVE  kept'[k] # request'[x].code
    BY DEF Deleted
  <2>1. InHand(x, k) /\ request'[x].code = request[x].code /\ request[x].code \notin shared
    BY <1>3, <1>5
  <2>2. request[x].code # None
    BY <2>1, CodeRequestTypes DEF CodesInvariant, InHand
  <2>3. CASE x = h
    <3>1. k = q.kind
      BY <2>1, <2>3 DEF InHand
    <3> QED BY <1>5, <2>1, <2>2, <2>3, <3>1
  <2>4. CASE x # h
    <3>1. request'[x] = request[x]
      BY <1>3, <2>4
    <3>2. kept[k] # request[x].code
      BY <2>1, <3>1 DEF CodesInvariant, Deleted
    <3> QED BY <1>5, <2>1, <2>2, <3>2
  <2> QED BY <2>3, <2>4
<1>12. NoRowYet' /\ SocialOnly'
  BY <1>1, <1>4, <1>5 DEF CodesInvariant, NoRowYet, SocialOnly, Codes!Kinds
<1>13. GivenOnce'
  <2>1. trials > 1 => \E m \in mailed : m.kind = "verification" /\ m.code \in shared'
    BY <1>5 DEF CodesInvariant, GivenOnce
  <2>2. \A x \in Handlers :
          user.verified /\ InHand(x, "verification")' /\ request'[x].stage = "both"
            /\ "row" \in request'[x].todo => request'[x].code \in shared'
    BY <1>3, <1>4, <1>5 DEF CodesInvariant, GivenOnce
  <2> QED BY <1>1, <1>4, <2>1, <2>2 DEF CodesInvariant, GivenOnce
<1> QED BY <1>7, <1>8, <1>9, <1>10, <1>11, <1>12, <1>13 DEF CodesInvariant

LEMMA CodesExpireStep ==
  ASSUME Codes!ConstantsAssumption, CodesInvariant, NEW kind \in Codes!Kinds, Codes!Expire(kind)
  PROVE  CodesInvariant'
<1>1. /\ kept' = [kept EXCEPT ![kind] = None]
      /\ UNCHANGED <<user, mailed, request, drawn, requests, faults, trials, spent, shared>>
  BY DEF Codes!Expire, Codes!ghosts
<1>2. /\ kept' \in [Codes!Kinds -> Codes!Codes \cup {None}]
      /\ \A k \in Codes!Kinds : kept'[k] = kept[k] \/ kept'[k] = None
  BY <1>1 DEF CodesInvariant, Codes!TypeOK
<1>3. Codes!TypeOK'
  BY <1>1, <1>2 DEF CodesInvariant, Codes!TypeOK
<1>4. CodesDrawn' /\ Unsent'
  BY <1>1, <1>2, CodesStay
<1>5. \A x : \A k : (InHand(x, k)' <=> InHand(x, k)) /\ (Writing(x)' <=> Writing(x))
  BY <1>1 DEF InHand, Writing
<1>6. LetIn' /\ GivenOnce'
  BY <1>1, <1>5 DEF CodesInvariant, LetIn, GivenOnce
<1>7. None \notin Codes!Codes /\ "reset" \in Codes!Kinds /\ "verification" \in Codes!Kinds
  BY DEF Codes!ConstantsAssumption, Codes!Kinds
<1>8. SetOnce'
  BY <1>1, <1>2, <1>5, <1>7 DEF CodesInvariant, SetOnce
<1>9. Deleted'
  <2>1. \A x \in Handlers : request[x] # None => request[x].code # None
    BY CodeRequestTypes DEF CodesInvariant
  <2> QED BY <1>1, <1>2, <1>5, <2>1 DEF CodesInvariant, Deleted, InHand
<1>10. NoRowYet' /\ SocialOnly'
  BY <1>1, <1>2, <1>7 DEF CodesInvariant, NoRowYet, SocialOnly
<1> QED BY <1>3, <1>4, <1>6, <1>8, <1>9, <1>10 DEF CodesInvariant

LEMMA CodesInvariantStep ==
  ASSUME Codes!ConstantsAssumption, CodesInvariant, [Codes!Next]_(Codes!vars)
  PROVE  CodesInvariant'
<1>1. ASSUME NEW h \in Handlers,
             \/ Codes!Signup(h) \/ Codes!CreateUser(h) \/ Codes!Store(h) \/ Codes!Mail(h)
             \/ Codes!SendFails(h) \/ \E kind \in Codes!Kinds : Codes!Ask(h, kind)
             \/ \E m \in mailed : Codes!Show(h, m)
             \/ Codes!Find(h) \/ Codes!WriteRow(h) \/ Codes!DeleteCode(h) \/ Codes!DeleteFails(h)
      PROVE  CodesInvariant'
  <2>1. CASE Codes!Signup(h) \/ \E kind \in Codes!Kinds : Codes!Ask(h, kind)
    BY <2>1, CodesAskStep
  <2>2. CASE Codes!CreateUser(h) \/ Codes!Mail(h) \/ Codes!SendFails(h)
    BY <2>2, CodesSendStep
  <2>3. CASE Codes!Store(h)
    BY <2>3, CodesStoreStep
  <2>4. CASE \E m \in mailed : Codes!Show(h, m)
    BY <2>4, CodesShowStep
  <2>5. CASE Codes!Find(h)
    BY <2>5, CodesFindStep
  <2>6. CASE Codes!WriteRow(h)
    BY <2>6, CodesWriteStep
  <2>7. CASE Codes!DeleteCode(h) \/ Codes!DeleteFails(h)
    BY <2>7, CodesDeleteStep
  <2> QED BY <1>1, <2>1, <2>2, <2>3, <2>4, <2>5, <2>6, <2>7
<1>2. ASSUME NEW kind \in Codes!Kinds, Codes!Expire(kind)
      PROVE  CodesInvariant'
  BY <1>2, CodesExpireStep
<1>3. CASE UNCHANGED Codes!vars
  <2>1. UNCHANGED <<user, kept, mailed, request, drawn, requests, faults, trials, spent, shared>>
    BY <1>3 DEF Codes!vars, Codes!ghosts
  <2>2. \A x : \A k : (InHand(x, k)' <=> InHand(x, k)) /\ (Writing(x)' <=> Writing(x))
    BY <2>1 DEF InHand, Writing
  <2>3. Codes!TypeOK' /\ CodesDrawn' /\ Unsent' /\ NoRowYet' /\ SocialOnly'
    BY <2>1 DEF CodesInvariant, Codes!TypeOK, CodesDrawn, Unsent, NoRowYet, SocialOnly
  <2>4. LetIn' /\ SetOnce' /\ Deleted' /\ GivenOnce'
    BY <2>1, <2>2 DEF CodesInvariant, LetIn, SetOnce, Deleted, GivenOnce
  <2> QED BY <2>3, <2>4 DEF CodesInvariant
<1> QED BY <1>1, <1>2, <1>3 DEF Codes!Next

LEMMA CodesInvariantInit ==
  ASSUME Codes!ConstantsAssumption, Codes!Init
  PROVE  CodesInvariant
<1>1. /\ user \in {None, [local |-> FALSE, verified |-> TRUE]}
      /\ kept = [k \in Codes!Kinds |-> None] /\ mailed = {} /\ request = [h \in Handlers |-> None]
      /\ drawn = 0 /\ requests = 0 /\ faults = 0 /\ trials = 0
      /\ spent = [c \in Codes!Codes |-> 0] /\ shared = {}
      /\ CodeRequests \in Nat /\ CodeFaults \in Nat /\ None \notin Codes!Codes
  BY DEF Codes!Init, Codes!ConstantsAssumption
<1>2. user # None => user \in Codes!Row /\ ~user.local
  <2>1. [local |-> FALSE, verified |-> TRUE] \in Codes!Row
    BY DEF Codes!Row
  <2>2. user # None => user.local = FALSE
    BY <1>1
  <2> QED BY <1>1, <2>1, <2>2
<1>3. Codes!TypeOK
  BY <1>1, <1>2 DEF Codes!TypeOK
<1>4. \A x \in Handlers : \A k : ~InHand(x, k)
  BY <1>1 DEF InHand
<1>5. CodesDrawn /\ Unsent /\ NoRowYet /\ SocialOnly
  BY <1>1, <1>2 DEF CodesDrawn, Unsent, NoRowYet, SocialOnly, Codes!Codes, Codes!Kinds
<1>6. LetIn /\ Deleted
  BY <1>4 DEF LetIn, Deleted
<1>7. SetOnce
  BY <1>1 DEF SetOnce
<1>8. GivenOnce
  BY <1>1, <1>2, <1>4 DEF GivenOnce
<1> QED BY <1>3, <1>5, <1>6, <1>7, <1>8 DEF CodesInvariant

LEMMA CodesFromInvariant ==
  ASSUME Codes!ConstantsAssumption, CodesInvariant
  PROVE  Codes!CodesWorkOnce
<1>1. \A c \in Codes!Codes : spent[c] > 1 => c \in shared
  BY DEF CodesInvariant, SetOnce, Codes!TypeOK
<1>2. user = None => kept = [k \in Codes!Kinds |-> None]
  BY DEF CodesInvariant, NoRowYet, Codes!TypeOK
<1>3. /\ user # None => (user.local /\ user.verified <=> trials > 0)
      /\ trials > 1 => \E m \in mailed : m.kind = "verification" /\ m.code \in shared
  BY DEF CodesInvariant, GivenOnce
<1> QED BY <1>1, <1>2, <1>3 DEF Codes!CodesWorkOnce

\* Requests and rows keep their shapes, and the counters their bounds (the codes of
\* auth.service.ts).
THEOREM CodesTypeCorrect ==
  ASSUME Codes!ConstantsAssumption
  PROVE  Codes!Spec => []Codes!TypeOK
<1>1. CodesInvariant => Codes!TypeOK
  BY DEF CodesInvariant
<1> QED BY CodesInvariantInit, CodesInvariantStep, <1>1, PTL DEF Codes!Spec

\* However many codes an address is sent and however the requests that show them overlap, a
\* code sets a password once and the trial is given once, except where two had codes in hand
\* at once or a code could not be deleted (resetPassword, verifyEmail).
THEOREM CodesWorkOnceHolds ==
  ASSUME Codes!ConstantsAssumption
  PROVE  Codes!Spec => []Codes!CodesWorkOnce
BY CodesInvariantInit, CodesInvariantStep, CodesFromInvariant, PTL DEF Codes!Spec

-----------------------------------------------------------------------------
(* AccountRecords: what is about to be inserted goes on with what is there, as *)
(* long as nothing was inserted since it was looked at.                      *)

LiveOn(d) == Assets!On(d) \cap Assets!Snapshots

\* The job of a month runs once on each server, under the lock.
GoldUnderLock ==
  \A s \in Servers : goldRun[s] # Assets!Idle =>
    s \in fired /\ today \in MonthFirsts /\ (~between => lock = s)

\* What was read is what the rows were, before the last insertion.
RecordsRead ==
  \A h \in Creators : request[h] # None =>
    LET p == request[h] IN
    /\ p.seen <= Len(records)
    /\ p.seen = Len(records) =>
         /\ Assets!After(p.record.date) = {}
         /\ p.record.kind = "snapshot" => LiveOn(p.record.date) = {}

GoesOn(p) ==
  /\ p.record.date = today /\ p.record.kind = "snapshot" /\ p.seen <= Len(records)
  /\ ~between => (p.seen + 1..Len(records)) \cap ofJob = {}
  /\ p.seen = Len(records) =>
       /\ LiveOn(today) = {}
       /\ \/ \E i \in DOMAIN records : records[i] = None
          \/ Assets!ContinuesLast(p.record)
GoldRead ==
  \A s \in Servers : \A p \in {goldRun[s].pending} : goldRun[s].stage = "make" => GoesOn(p)

OneSnapshot == \A d \in RecordDates : \A i, j \in LiveOn(d) : i = j
InOrder ==
  \A i, j \in Assets!Ids : i < j /\ records[j].date # today =>
    records[i].date <= records[j].date

WithdrawalsRecorded ==
  /\ \A i \in withdrawals \ cut : records[i] # None /\ records[i].kind = "withdrawal"
  /\ \A i \in Assets!Ids : records[i].kind = "withdrawal" => i \in withdrawals

AssetInvariant ==
  /\ Assets!TypeOK /\ GoldUnderLock /\ RecordsRead /\ GoldRead
  /\ ~between => OneSnapshot /\ InOrder
  /\ WithdrawalsRecorded

\* Some integers, finitely many, have a greatest: by induction over the subsets.
LEMMA GreatestOfFinite ==
  ASSUME NEW S, IsFiniteSet(S), S # {}, \A x \in S : x \in Int
  PROVE  \E x \in S : \A y \in S : y <= x
<1> DEFINE Above(x) == {y \in S : y > x}
           T == {Above(x) : x \in S}
<1>1. IsWellFoundedOn(StrictSubsetOrdering(S), FiniteSubsetsOf(S))
  BY FS_StrictSubsetOrderingWellFounded
<1>2. \A x \in S : Above(x) \subseteq S
  OBVIOUS
<1>3. T \subseteq FiniteSubsetsOf(S) /\ T # {}
  <2>1. FiniteSubsetsOf(S) = SUBSET S
    BY FS_FiniteSubsetsOfFinite
  <2>2. T \subseteq SUBSET S
    BY <1>2
  <2>3. T # {}
    OBVIOUS
  <2> QED BY <2>1, <2>2, <2>3
<1> HIDE DEF T
<1>4. PICK m \in T : \A a \in T : ~(<<a, m>> \in StrictSubsetOrdering(S))
  BY <1>1, <1>3, WFMin
<1>5. PICK x \in S : m = Above(x)
  BY <1>4 DEF T
<1>6. ASSUME NEW y \in S, y > x PROVE FALSE
  <2>1. Above(y) \in T
    BY DEF T
  <2>2. /\ \A z \in S : z > y => z > x
        /\ y \in Above(x) /\ y \notin Above(y)
    BY <1>6
  <2>3. Above(y) \subseteq Above(x) /\ Above(y) # Above(x)
    BY <2>2
  <2> HIDE DEF Above
  <2>4. <<Above(y), m>> \in StrictSubsetOrdering(S)
    BY <1>2, <1>5, <2>3 DEF StrictSubsetOrdering
  <2> QED BY <1>4, <2>1, <2>4
<1>7. ASSUME NEW y \in S PROVE y <= x
  BY <1>6
<1> QED BY <1>7

LEMMA AssetTyped ==
  ASSUME Assets!ConstantsAssumption, Assets!TypeOK
  PROVE  /\ Len(records) \in Nat /\ DOMAIN records = 1..Len(records)
         /\ \A i \in DOMAIN records : records[i] \in {None} \cup Assets!Row
         /\ \A i \in Assets!Ids : /\ i \in Nat /\ i \in DOMAIN records /\ i <= Len(records)
                                 /\ records[i] \in Assets!Row /\ records[i].date \in Int
         /\ IsFiniteSet(Assets!Ids)
<1>1. records \in Seq({None} \cup Assets!Row)
  BY DEF Assets!TypeOK
<1>2. /\ Len(records) \in Nat /\ DOMAIN records = 1..Len(records)
      /\ \A i \in DOMAIN records : records[i] \in {None} \cup Assets!Row
  BY <1>1
<1>3. Assets!Ids \subseteq 1..Len(records)
  BY <1>2 DEF Assets!Ids
<1>4. IsFiniteSet(Assets!Ids)
  <2>1. IsFiniteSet(1..Len(records))
    BY <1>2, FS_Interval
  <2> QED BY <1>3, <2>1, FS_Subset
<1>5. \A i \in Assets!Ids : records[i] \in Assets!Row /\ records[i].date \in Int
  BY <1>2 DEF Assets!Ids, Assets!Row, Assets!ConstantsAssumption
<1> QED BY <1>2, <1>3, <1>4, <1>5

LEMMA AssetQueries ==
  ASSUME NEW d
  PROVE  /\ Assets!On(d) \subseteq Assets!Ids /\ Assets!Before(d) \subseteq Assets!Ids
         /\ Assets!After(d) \subseteq Assets!Ids /\ Assets!Snapshots \subseteq Assets!Ids
         /\ Assets!Weighed \subseteq Assets!Ids
BY DEF Assets!On, Assets!Before, Assets!After, Assets!Snapshots, Assets!Weighed

\* There is a newest one of some records.
LEMMA NewestIsOne ==
  ASSUME Assets!ConstantsAssumption, Assets!TypeOK, NEW S \in SUBSET Assets!Ids, S # {}
  PROVE  Assets!Newest(S) \in S
<1> DEFINE D == {records[i].date : i \in S}
<1>1. IsFiniteSet(S)
  BY AssetTyped, FS_Subset
<1>2. IsFiniteSet(D)
  <2>1. [i \in S |-> records[i].date] \in Surjection(S, D)
    BY DEF Surjection
  <2> QED BY <1>1, <2>1, FS_Surjection
<1>3. D # {} /\ \A x \in D : x \in Int
  BY AssetTyped
<1> HIDE DEF D
<1>4. PICK d \in D : \A x \in D : x <= d
  BY <1>2, <1>3, GreatestOfFinite
<1>5. PICK k \in S : records[k].date = d
  BY <1>4 DEF D
<1>6. k \in Assets!LastDay(S)
  <2>1. \A j \in S : records[j].date \in D
    BY DEF D
  <2> QED BY <1>4, <1>5, <2>1 DEF Assets!LastDay
<1> DEFINE L == Assets!LastDay(S)
<1>7. L \subseteq S /\ L # {}
  BY <1>6 DEF Assets!LastDay
<1> HIDE DEF L
<1>8. IsFiniteSet(L) /\ \A i \in L : i \in Int
  BY <1>1, <1>7, AssetTyped, FS_Subset
<1>9. \E i \in L : \A j \in L : j <= i
  BY <1>7, <1>8, GreatestOfFinite
<1>10. Assets!Newest(S) = CHOOSE i \in L : \A j \in L : j <= i
  BY DEF Assets!Newest, L
<1>11. Assets!Newest(S) \in L
  BY <1>9, <1>10
<1> QED BY <1>7, <1>11

LEMMA AssetRecordTyped ==
  ASSUME NEW d \in RecordDates, NEW kind \in {"snapshot", "withdrawal"}, NEW b \in Nat,
         NEW p \in Nat, NEW q \in Int, NEW g \in {None} \cup Nat
  PROVE  LET r == Assets!Record(d, kind, b, p, q, g) IN
         /\ r \in Assets!Row /\ r.date = d /\ r.kind = kind /\ r.balance = b
         /\ r.principal = p /\ r.profit = q /\ r.grams = g
BY DEF Assets!Record, Assets!Row

\* A record as it is computed, in each of the modes.
LEMMA ComputedTyped ==
  ASSUME Assets!ConstantsAssumption, Assets!TypeOK, NEW d \in RecordDates,
         NEW in \in RecordInputs, NEW price \in GoldPrices
  PROVE  LET r == Assets!Computed(d, in, price) IN
         r \in Assets!Row /\ r.date = d /\ r.kind = "snapshot"
<1>1. /\ price \in Nat
      /\ in \in [mode : {"AUTO"}, balance : Nat, added : Nat]
                \cup [mode : {"GOLD"}, grams : Nat, cost : {None} \cup Nat]
                \cup [mode : {"MANUAL"}, balance : Nat, principal : Nat, profit : Int]
  BY DEF Assets!ConstantsAssumption
<1>2. CASE in.mode = "AUTO"
  <2> DEFINE p == (IF Assets!Before(d) = {} THEN 0
                   ELSE records[Assets!Newest(Assets!Before(d))].principal) + in.added
  <2>1. in.balance \in Nat /\ in.added \in Nat
    BY <1>1, <1>2
  <2>2. ASSUME Assets!Before(d) # {}
        PROVE  records[Assets!Newest(Assets!Before(d))].principal \in Nat
    <3>1. Assets!Before(d) \in SUBSET Assets!Ids
      BY AssetQueries
    <3>2. Assets!Newest(Assets!Before(d)) \in Assets!Ids
      BY <2>2, <3>1, NewestIsOne
    <3>3. records[Assets!Newest(Assets!Before(d))] \in Assets!Row
      BY <3>2, AssetTyped
    <3> QED BY <3>3 DEF Assets!Row
  <2>3. p \in Nat
    BY <2>1, <2>2
  <2>4. Assets!Computed(d, in, price) =
          Assets!Record(d, "snapshot", in.balance, p, in.balance - p, None)
    BY <1>2 DEF Assets!Computed
  <2> HIDE DEF p
  <2>5. in.balance - p \in Int
    BY <2>1, <2>3
  <2> QED BY <2>1, <2>3, <2>4, <2>5, AssetRecordTyped
<1>3. CASE in.mode = "GOLD"
  <2> DEFINE b == in.grams * price
             p == IF in.cost = None THEN b ELSE in.cost
  <2>1. in.grams \in Nat /\ in.cost \in {None} \cup Nat
    BY <1>1, <1>3
  <2>2. b \in Nat /\ p \in Nat /\ b - p \in Int
    BY <1>1, <2>1
  <2>3. Assets!Computed(d, in, price) = Assets!Record(d, "snapshot", b, p, b - p, in.grams)
    BY <1>3 DEF Assets!Computed
  <2> HIDE DEF b, p
  <2> QED BY <2>1, <2>2, <2>3, AssetRecordTyped
<1>4. CASE in.mode = "MANUAL"
  <2>1. in.balance \in Nat /\ in.principal \in Nat /\ in.profit \in Int
    BY <1>1, <1>4
  <2>2. Assets!Computed(d, in, price) =
          Assets!Record(d, "snapshot", in.balance, in.principal, in.profit, None)
    BY <1>4 DEF Assets!Computed
  <2> QED BY <2>1, <2>2, AssetRecordTyped
<1> QED BY <1>1, <1>2, <1>3, <1>4

\* A withdrawal keeps an account balanced, but for principal taken from one at a loss.
LEMMA WithdrawnTyped ==
  ASSUME Assets!ConstantsAssumption, NEW d \in RecordDates, NEW r \in Assets!Row,
         NEW w \in Withdrawals
  PROVE  LET n == Assets!Withdrawn(d, r, w) IN
         /\ n \in Assets!Row /\ n.date = d /\ n.kind = "withdrawal"
         /\ Assets!Balanced(r) /\ Assets!Safe(r, w) => Assets!Balanced(n)
<1> DEFINE a == w.amount
           p == r.principal
           q == r.profit
           b == Assets!Greatest(0, r.balance - a)
<1>1. /\ a \in Nat /\ p \in Nat /\ q \in Int /\ r.balance \in Nat
      /\ w.type \in {"PRINCIPAL", "PROFIT"}
  BY DEF Assets!ConstantsAssumption, Assets!Row
<1>2. b = (IF 0 < r.balance - a THEN r.balance - a ELSE 0) /\ b \in Nat
  BY <1>1 DEF Assets!Greatest
<1>3. \A x, y \in Int : /\ Assets!Least(x, y) = IF x < y THEN x ELSE y
                        /\ Assets!Greatest(x, y) = IF x > y THEN x ELSE y
  BY DEF Assets!Least, Assets!Greatest
<1>4. CASE w.type = "PRINCIPAL"
  <2> DEFINE f == Assets!Least(p, a)
             g == Assets!Greatest(0, q - (a - f))
  <2>1. Assets!Withdrawn(d, r, w) = Assets!Record(d, "withdrawal", b, p - f, g, None)
    BY <1>4 DEF Assets!Withdrawn
  <2>2. f = (IF p < a THEN p ELSE a) /\ f \in Nat /\ p - f \in Nat
    BY <1>1, <1>3
  <2>3. g = (IF 0 > q - (a - f) THEN 0 ELSE q - (a - f)) /\ g \in Int
    BY <1>1, <1>3, <2>2
  <2>4. r.balance = p + q /\ q >= 0 => b = (p - f) + g
    <3> HIDE DEF a, p, q, b, f, g
    <3>1. r.balance \in Nat
      BY <1>1
    <3> DEFINE s == r.balance
    <3>2. b = (IF 0 < s - a THEN s - a ELSE 0) /\ s \in Nat
      BY <1>2, <3>1
    <3> HIDE DEF s
    <3>3. s = p + q /\ q >= 0 => b = (p - f) + g
      BY <1>1, <2>2, <2>3, <3>2
    <3> QED BY <3>3 DEF s
  <2> HIDE DEF a, p, q, b, f, g
  <2>5. LET n == Assets!Record(d, "withdrawal", b, p - f, g, None) IN
        /\ n \in Assets!Row /\ n.date = d /\ n.kind = "withdrawal" /\ n.balance = b
        /\ n.principal = p - f /\ n.profit = g
    BY <1>2, <2>2, <2>3, AssetRecordTyped
  <2>6. Assets!Safe(r, w) => q >= 0
    BY <1>4 DEF Assets!Safe, q
  <2>7. Assets!Balanced(r) => r.balance = p + q
    BY DEF Assets!Balanced, p, q
  <2> QED BY <2>1, <2>4, <2>5, <2>6, <2>7 DEF Assets!Balanced
<1>5. CASE w.type = "PROFIT"
  <2> DEFINE f == Assets!Least(q, a)
             g == Assets!Greatest(0, p - (a - f))
  <2>1. Assets!Withdrawn(d, r, w) = Assets!Record(d, "withdrawal", b, g, q - f, None)
    BY <1>5 DEF Assets!Withdrawn
  <2>2. f = (IF q < a THEN q ELSE a) /\ f \in Int /\ q - f \in Int
    BY <1>1, <1>3
  <2>3. g = (IF 0 > p - (a - f) THEN 0 ELSE p - (a - f)) /\ g \in Nat
    BY <1>1, <1>3, <2>2
  <2>4. r.balance = p + q => b = g + (q - f)
    <3> HIDE DEF a, p, q, b, f, g
    <3>1. r.balance \in Nat
      BY <1>1
    <3> DEFINE s == r.balance
    <3>2. b = (IF 0 < s - a THEN s - a ELSE 0) /\ s \in Nat
      BY <1>2, <3>1
    <3> HIDE DEF s
    <3>3. s = p + q => b = g + (q - f)
      BY <1>1, <2>2, <2>3, <3>2
    <3> QED BY <3>3 DEF s
  <2> HIDE DEF a, p, q, b, f, g
  <2>5. LET n == Assets!Record(d, "withdrawal", b, g, q - f, None) IN
        /\ n \in Assets!Row /\ n.date = d /\ n.kind = "withdrawal" /\ n.balance = b
        /\ n.principal = g /\ n.profit = q - f
    BY <1>2, <2>2, <2>3, AssetRecordTyped
  <2>6. Assets!Balanced(r) => r.balance = p + q
    BY DEF Assets!Balanced, p, q
  <2> QED BY <2>1, <2>4, <2>5, <2>6 DEF Assets!Balanced
<1> QED BY <1>1, <1>4, <1>5

\* The records stay as they are.
LEMMA AssetRecordsKept ==
  ASSUME Assets!ConstantsAssumption, AssetInvariant,
         UNCHANGED <<today, records, withdrawals, cut, ofJob>>, between' \in {between, TRUE},
         type' \in {"GOLD", "OTHER"},
         request' \in [Creators -> {None} \cup Assets!Insertion],
         lock' \in {None} \cup Servers, fired' \subseteq Servers,
         goldRun' \in [Servers -> Assets!Run], faults' \in 0..RecordFaults,
         GoldUnderLock', RecordsRead', GoldRead'
  PROVE  AssetInvariant'
<1>1. Assets!TypeOK'
  <2>1. between' \in BOOLEAN
    BY DEF AssetInvariant, Assets!TypeOK
  <2> QED BY <2>1 DEF AssetInvariant, Assets!TypeOK
<1>2. (~between => OneSnapshot /\ InOrder)'
  <2>1. between' = FALSE => between = FALSE
    OBVIOUS
  <2>2. OneSnapshot => OneSnapshot'
    BY DEF OneSnapshot, LiveOn, Assets!On, Assets!Snapshots, Assets!Ids
  <2>3. InOrder => InOrder'
    BY DEF InOrder, Assets!Ids
  <2> QED BY <2>1, <2>2, <2>3 DEF AssetInvariant
<1>3. WithdrawalsRecorded'
  BY DEF AssetInvariant, WithdrawalsRecorded, Assets!Ids
<1> QED BY <1>1, <1>2, <1>3 DEF AssetInvariant

\* What is read of the records stays, with them and with what was inserted by the job.
LEMMA AssetReadsKept ==
  ASSUME UNCHANGED <<today, records, ofJob>>, between' \in {between, TRUE}
  PROVE  /\ request' = request /\ RecordsRead => RecordsRead'
         /\ \A p : GoesOn(p) => GoesOn(p)'
         /\ goldRun' = goldRun /\ GoldRead => GoldRead'
<1>1. \A d : LiveOn(d)' = LiveOn(d) /\ Assets!After(d)' = Assets!After(d)
  BY DEF LiveOn, Assets!On, Assets!Snapshots, Assets!After, Assets!Ids
<1>2. \A r : Assets!ContinuesLast(r)' <=> Assets!ContinuesLast(r)
  BY DEF Assets!ContinuesLast, Assets!LastDay, Assets!Before, Assets!Weighed, Assets!Ids
<1>3. request' = request /\ RecordsRead => RecordsRead'
  BY <1>1 DEF RecordsRead
<1>4. ASSUME NEW p, GoesOn(p) PROVE GoesOn(p)'
  <2>1. LiveOn(today)' = LiveOn(today)
    BY DEF LiveOn, Assets!On, Assets!Snapshots, Assets!Ids
  <2>2. between' = FALSE => between = FALSE
    OBVIOUS
  <2>3. Assets!ContinuesLast(p.record)' <=> Assets!ContinuesLast(p.record)
    BY <1>2
  <2> QED BY <1>4, <2>1, <2>2, <2>3 DEF GoesOn
<1>5. goldRun' = goldRun /\ GoldRead => GoldRead'
  BY <1>4 DEF GoldRead
<1> QED BY <1>3, <1>4, <1>5

\* So do those that remain of the runs.
LEMMA AssetRunsKept ==
  ASSUME UNCHANGED <<today, records, ofJob>>, between' \in {between, TRUE}, GoldRead,
         \A s \in Servers : goldRun'[s].stage = "make" => goldRun'[s] = goldRun[s]
  PROVE  GoldRead'
<1>1. ASSUME NEW s \in Servers, goldRun'[s].stage = "make", NEW p \in {goldRun'[s].pending}
      PROVE  GoesOn(p)'
  <2>1. goldRun[s].stage = "make" /\ p \in {goldRun[s].pending}
    BY <1>1
  <2>2. GoesOn(p)
    BY <2>1 DEF GoldRead
  <2> QED BY <2>2, AssetReadsKept
<1> QED BY <1>1 DEF GoldRead

\* A request reads the records that its own goes on with.
LEMMA AssetReadStep ==
  ASSUME Assets!ConstantsAssumption, AssetInvariant, NEW h \in Creators, NEW d \in RecordDates,
         \/ \E in \in RecordInputs, price \in GoldPrices : Assets!RecordRead(h, d, in, price)
         \/ \E w \in Withdrawals : Assets!WithdrawRead(h, d, w)
  PROVE  AssetInvariant'
<1>1. UNCHANGED <<type, today, records, withdrawals, lock, fired, goldRun, faults, between, cut,
                  ofJob>>
  BY DEF Assets!RecordRead, Assets!WithdrawRead
<1>2. PICK r \in Assets!Row :
         /\ request' = [request EXCEPT ![h] = Assets!Pending(r)] /\ r.date = d
         /\ Assets!After(d) = {} /\ (r.kind = "snapshot" => LiveOn(d) = {})
  <2>1. ASSUME NEW in \in RecordInputs, NEW price \in GoldPrices,
               Assets!RecordRead(h, d, in, price)
        PROVE  \E r \in Assets!Row :
                 /\ request' = [request EXCEPT ![h] = Assets!Pending(r)] /\ r.date = d
                 /\ Assets!After(d) = {} /\ (r.kind = "snapshot" => LiveOn(d) = {})
    <3> DEFINE r == Assets!Computed(d, in, price)
    <3>1. /\ request' = [request EXCEPT ![h] = Assets!Pending(r)]
          /\ Assets!After(d) = {} /\ LiveOn(d) = {}
      BY <2>1 DEF Assets!RecordRead, LiveOn
    <3>2. r \in Assets!Row /\ r.date = d
      BY ComputedTyped DEF AssetInvariant
    <3> HIDE DEF r
    <3> QED BY <3>1, <3>2
  <2>2. ASSUME NEW w \in Withdrawals, Assets!WithdrawRead(h, d, w)
        PROVE  \E r \in Assets!Row :
                 /\ request' = [request EXCEPT ![h] = Assets!Pending(r)] /\ r.date = d
                 /\ Assets!After(d) = {} /\ (r.kind = "snapshot" => LiveOn(d) = {})
    <3> DEFINE S == Assets!Before(d) \cup Assets!On(d)
               r == Assets!Withdrawn(d, records[Assets!Newest(S)], w)
    <3>1. /\ request' = [request EXCEPT ![h] = Assets!Pending(r)]
          /\ Assets!After(d) = {} /\ S # {}
      BY <2>2 DEF Assets!WithdrawRead
    <3>2. S \in SUBSET Assets!Ids
      BY AssetQueries
    <3> HIDE DEF S
    <3>3. records[Assets!Newest(S)] \in Assets!Row
      BY <3>1, <3>2, NewestIsOne, AssetTyped DEF AssetInvariant
    <3>4. r \in Assets!Row /\ r.date = d /\ r.kind = "withdrawal"
      BY <3>3, WithdrawnTyped
    <3> HIDE DEF r
    <3> QED BY <3>1, <3>4
  <2> QED BY <2>1, <2>2
<1> DEFINE n == Assets!Pending(r)
<1>3. n \in Assets!Insertion /\ n.record = r /\ n.seen = Len(records)
  BY AssetTyped DEF AssetInvariant, Assets!Pending, Assets!Insertion
<1> HIDE DEF n
<1>4. /\ request' \in [Creators -> {None} \cup Assets!Insertion]
      /\ \A g \in Creators : request'[g] = IF g = h THEN n ELSE request[g]
  BY <1>2, <1>3 DEF n, AssetInvariant, Assets!TypeOK
<1>5. RecordsRead'
  <2>1. \A e : LiveOn(e)' = LiveOn(e) /\ Assets!After(e)' = Assets!After(e)
    BY <1>1 DEF LiveOn, Assets!On, Assets!Snapshots, Assets!After, Assets!Ids
  <2>2. ASSUME NEW g \in Creators, request'[g] # None
        PROVE  LET p == request'[g] IN
               /\ p.seen <= Len(records)
               /\ p.seen = Len(records) =>
                    /\ Assets!After(p.record.date) = {}
                    /\ p.record.kind = "snapshot" => LiveOn(p.record.date) = {}
    <3>1. CASE g = h
      <4>1. Len(records) \in Nat
        BY AssetTyped DEF AssetInvariant
      <4> QED BY <1>2, <1>3, <1>4, <3>1, <4>1
    <3>2. CASE g # h
      BY <1>4, <2>2, <3>2 DEF AssetInvariant, RecordsRead
    <3> QED BY <3>1, <3>2
  <2> QED BY <1>1, <2>1, <2>2 DEF RecordsRead
<1>6. GoldRead' /\ GoldUnderLock'
  BY <1>1, AssetReadsKept DEF AssetInvariant, GoldUnderLock, Assets!Idle
<1>7. /\ lock' \in {None} \cup Servers /\ fired' \subseteq Servers
      /\ goldRun' \in [Servers -> Assets!Run] /\ faults' \in 0..RecordFaults
      /\ type' \in {"GOLD", "OTHER"}
  BY <1>1 DEF AssetInvariant, Assets!TypeOK
<1> QED BY <1>1, <1>4, <1>5, <1>6, <1>7, AssetRecordsKept

\* A record is inserted after the others.
LEMMA AssetInserted ==
  ASSUME Assets!ConstantsAssumption, AssetInvariant, NEW p \in Assets!Insertion, NEW others,
         Assets!Insert(p, others)
  PROVE  /\ records' \in Seq({None} \cup Assets!Row) /\ Len(records') = Len(records) + 1
         /\ DOMAIN records' = DOMAIN records \cup {Len(records) + 1}
         /\ \A i \in DOMAIN records : records'[i] = records[i]
         /\ records'[Len(records) + 1] = p.record /\ p.record \in Assets!Row
         /\ Assets!Ids' = Assets!Ids \cup {Len(records) + 1}
         /\ between' = (between \/ (p.seen + 1..Len(records)) \cap others # {})
         /\ between' \in BOOLEAN
<1>1. records \in Seq({None} \cup Assets!Row) /\ p.record \in Assets!Row
  BY DEF AssetInvariant, Assets!TypeOK, Assets!Insertion
<1>2. /\ records' = Append(records, p.record)
      /\ between' = (between \/ (p.seen + 1..Len(records)) \cap others # {})
  BY DEF Assets!Insert
<1>3. /\ records' \in Seq({None} \cup Assets!Row) /\ Len(records') = Len(records) + 1
      /\ \A i \in 1..Len(records) : records'[i] = records[i]
      /\ records'[Len(records) + 1] = p.record
  BY <1>1, <1>2
<1>4. Len(records) \in Nat /\ DOMAIN records = 1..Len(records)
  BY AssetTyped DEF AssetInvariant
<1>5. DOMAIN records' = 1..Len(records) + 1
  BY <1>3
<1>6. DOMAIN records' = DOMAIN records \cup {Len(records) + 1}
  BY <1>4, <1>5
<1>7. p.record # None
  BY <1>1 DEF Assets!ConstantsAssumption
<1>8. Assets!Ids' = Assets!Ids \cup {Len(records) + 1}
  BY <1>3, <1>4, <1>6, <1>7 DEF Assets!Ids
<1>9. between' \in BOOLEAN
  BY <1>2 DEF AssetInvariant, Assets!TypeOK
<1> QED BY <1>1, <1>2, <1>3, <1>4, <1>6, <1>8, <1>9

\* The history goes on when nothing came in between.
LEMMA AssetHistoryGrows ==
  ASSUME Assets!ConstantsAssumption, AssetInvariant, NEW p \in Assets!Insertion, NEW others,
         Assets!Insert(p, others), OneSnapshot, InOrder, UNCHANGED today,
         p.record.kind = "snapshot" => LiveOn(p.record.date) = {},
         p.record.date = today \/ Assets!After(p.record.date) = {}
  PROVE  OneSnapshot' /\ InOrder'
<1> DEFINE n == Len(records) + 1
<1>1. /\ \A i \in Assets!Ids : records'[i] = records[i]
      /\ records'[n] = p.record /\ p.record \in Assets!Row
      /\ Assets!Ids' = Assets!Ids \cup {n}
  BY AssetInserted DEF Assets!Ids
<1>2. \A i \in Assets!Ids : i \in Nat /\ i < n
  BY AssetTyped DEF AssetInvariant
<1>3. n \in Nat
  BY AssetTyped DEF AssetInvariant
<1> HIDE DEF n
<1>4. OneSnapshot'
  <2>1. \A d, i : i \in LiveOn(d)' <=> /\ i \in Assets!Ids' /\ records'[i].date = d
                                       /\ records'[i].kind = "snapshot"
    BY DEF LiveOn, Assets!On, Assets!Snapshots
  <2>2. \A d, i : i \in LiveOn(d) <=> /\ i \in Assets!Ids /\ records[i].date = d
                                      /\ records[i].kind = "snapshot"
    BY DEF LiveOn, Assets!On, Assets!Snapshots
  <2>3. ASSUME NEW d \in RecordDates, NEW i, NEW j, i \in LiveOn(d)', j \in LiveOn(d)'
        PROVE  i = j
    <3>1. i \in LiveOn(d) \/ (i = n /\ p.record.date = d /\ LiveOn(d) = {})
      BY <1>1, <2>1, <2>2, <2>3
    <3>2. j \in LiveOn(d) \/ (j = n /\ p.record.date = d /\ LiveOn(d) = {})
      BY <1>1, <2>1, <2>2, <2>3
    <3> QED BY <3>1, <3>2 DEF OneSnapshot
  <2> QED BY <2>3 DEF OneSnapshot
<1>5. InOrder'
  <2>1. ASSUME NEW i \in Assets!Ids', NEW j \in Assets!Ids', i < j, records'[j].date # today
        PROVE  records'[i].date <= records'[j].date
    <3>1. CASE i \in Assets!Ids /\ j \in Assets!Ids
      BY <1>1, <2>1, <3>1 DEF InOrder
    <3>2. CASE i \in Assets!Ids /\ j = n
      <4>1. records'[i] = records[i] /\ records'[j] = p.record
        BY <1>1, <3>2
      <4>2. ~(records[i].date > p.record.date)
        BY <2>1, <3>2, <4>1 DEF Assets!After
      <4>3. records[i].date \in Int /\ p.record.date \in Int
        BY <1>1, <3>2, AssetTyped DEF AssetInvariant, Assets!Row, Assets!ConstantsAssumption
      <4> QED BY <4>1, <4>2, <4>3
    <3>3. CASE i = n
      <4>1. j \in Assets!Ids \/ j = n
        BY <1>1
      <4>2. ~(n < j)
        BY <1>2, <1>3, <4>1
      <4> QED BY <2>1, <3>3, <4>2
    <3> QED BY <1>1, <2>1, <3>1, <3>2, <3>3
  <2> QED BY <2>1 DEF InOrder
<1> QED BY <1>4, <1>5

\* After an insertion nothing that was read is of the records as they are.
LEMMA AssetReadsOutdated ==
  ASSUME Assets!ConstantsAssumption, AssetInvariant, NEW p \in Assets!Insertion, NEW others,
         Assets!Insert(p, others), UNCHANGED today,
         \A h \in Creators : request'[h] \in {None, request[h]},
         \A s \in Servers : goldRun'[s] \in {Assets!Idle, goldRun[s]},
         \A s \in Servers : goldRun'[s].stage = "make" /\ ~between' =>
           (goldRun[s].pending.seen + 1..Len(records')) \cap ofJob' = {}
  PROVE  RecordsRead' /\ GoldRead'
<1>1. Len(records') = Len(records) + 1 /\ Len(records) \in Nat
  BY AssetInserted, AssetTyped DEF AssetInvariant
<1>2. /\ request \in [Creators -> {None} \cup Assets!Insertion]
      /\ goldRun \in [Servers -> Assets!Run]
  BY DEF AssetInvariant, Assets!TypeOK
<1>3. \A x \in Assets!Insertion : x.seen \in Nat
  BY DEF Assets!Insertion
<1>4. ASSUME NEW h \in Creators, request'[h] # None
      PROVE  request'[h].seen <= Len(records') /\ request'[h].seen # Len(records')
  <2>1. request'[h] = request[h] /\ request[h] \in Assets!Insertion
    BY <1>2, <1>4
  <2>2. request[h].seen <= Len(records) /\ request[h].seen \in Nat
    BY <1>3, <1>4, <2>1 DEF AssetInvariant, RecordsRead
  <2> QED BY <1>1, <2>1, <2>2
<1>5. RecordsRead'
  BY <1>4 DEF RecordsRead
<1>6. ASSUME NEW s \in Servers, goldRun'[s].stage = "make"
      PROVE  LET x == goldRun'[s].pending IN
             /\ x.record.date = today' /\ x.record.kind = "snapshot" /\ x.seen <= Len(records')
             /\ ~between' => (x.seen + 1..Len(records')) \cap ofJob' = {}
             /\ x.seen # Len(records')
  <2>1. goldRun'[s] = goldRun[s]
    BY <1>6 DEF Assets!Idle
  <2>2. goldRun[s].pending \in Assets!Insertion
    BY <1>2, <1>6, <2>1 DEF Assets!Run
  <2>3. /\ goldRun[s].pending.record.date = today /\ goldRun[s].pending.record.kind = "snapshot"
        /\ goldRun[s].pending.seen <= Len(records)
    BY <1>6, <2>1 DEF AssetInvariant, GoldRead, GoesOn
  <2>4. goldRun[s].pending.seen \in Nat
    BY <1>3, <2>2
  <2>5. goldRun[s].pending.seen <= Len(records') /\ goldRun[s].pending.seen # Len(records')
    BY <1>1, <2>3, <2>4
  <2> QED BY <1>6, <2>1, <2>3, <2>5
<1>7. GoldRead'
  <2>1. ASSUME NEW s \in Servers, goldRun'[s].stage = "make", NEW x \in {goldRun'[s].pending}
        PROVE  GoesOn(x)'
    BY <1>6, <2>1 DEF GoesOn
  <2> QED BY <2>1 DEF GoldRead
<1> QED BY <1>5, <1>7

\* A withdrawal and its record go in together.
LEMMA AssetWriteStep ==
  ASSUME Assets!ConstantsAssumption, AssetInvariant, NEW h \in Creators, Assets!Write(h)
  PROVE  AssetInvariant'
<1> DEFINE p == request[h]
           n == Len(records) + 1
           others == DOMAIN records
<1>1. /\ request[h] # None /\ Assets!Insert(p, others)
      /\ withdrawals' = IF p.record.kind = "withdrawal" THEN withdrawals \cup {n} ELSE withdrawals
      /\ request' = [request EXCEPT ![h] = None]
      /\ UNCHANGED <<type, today, lock, fired, goldRun, faults, cut, ofJob>>
  BY DEF Assets!Write
<1>2. /\ request \in [Creators -> {None} \cup Assets!Insertion]
      /\ withdrawals \subseteq DOMAIN records /\ cut \subseteq DOMAIN records
      /\ ofJob \subseteq DOMAIN records
  BY DEF AssetInvariant, Assets!TypeOK
<1>3. p \in Assets!Insertion
  BY <1>1, <1>2
<1>4. /\ p.seen \in Nat /\ p.seen <= Len(records)
      /\ p.seen = Len(records) =>
           /\ Assets!After(p.record.date) = {}
           /\ p.record.kind = "snapshot" => LiveOn(p.record.date) = {}
  BY <1>1, <1>3 DEF AssetInvariant, RecordsRead, Assets!Insertion
<1>5. Len(records) \in Nat /\ DOMAIN records = 1..Len(records)
  BY AssetTyped DEF AssetInvariant
<1> HIDE DEF p, others
<1>6. /\ records' \in Seq({None} \cup Assets!Row) /\ Len(records') = Len(records) + 1
      /\ DOMAIN records' = DOMAIN records \cup {n}
      /\ \A i \in DOMAIN records : records'[i] = records[i]
      /\ records'[n] = p.record /\ p.record \in Assets!Row
      /\ Assets!Ids' = Assets!Ids \cup {n}
      /\ between' = (between \/ (p.seen + 1..Len(records)) \cap others # {})
      /\ between' \in BOOLEAN
  BY <1>1, <1>3, AssetInserted
<1>7. /\ \A g \in Creators : request'[g] \in {None, request[g]}
      /\ request' \in [Creators -> {None} \cup Assets!Insertion]
  BY <1>1, <1>2
<1>8. ~between' => ~between /\ p.seen = Len(records)
  <2>1. ASSUME ~between' PROVE ~between /\ p.seen = Len(records)
    <3>1. ~between /\ (p.seen + 1..Len(records)) \cap others = {}
      BY <1>6, <2>1
    <3>2. CASE p.seen < Len(records)
      <4>1. Len(records) \in p.seen + 1..Len(records) /\ Len(records) \in others
        BY <1>4, <1>5, <3>2 DEF others
      <4> QED BY <3>1, <4>1
    <3> QED BY <1>4, <1>5, <3>1, <3>2
  <2> QED BY <2>1
<1>9. RecordsRead' /\ GoldRead'
  <2>1. ASSUME NEW s \in Servers, goldRun'[s].stage = "make", ~between'
        PROVE  (goldRun[s].pending.seen + 1..Len(records')) \cap ofJob' = {}
    <3> DEFINE k == goldRun[s].pending.seen
    <3>1. (k + 1..Len(records)) \cap ofJob = {}
      BY <1>1, <1>8, <2>1 DEF AssetInvariant, GoldRead, GoesOn
    <3>2. k \in Nat
      <4>1. goldRun[s] \in Assets!Run
        BY DEF AssetInvariant, Assets!TypeOK
      <4> QED BY <1>1, <2>1, <4>1 DEF Assets!Run, Assets!Insertion
    <3> HIDE DEF k
    <3>3. \A i \in ofJob : i \in 1..Len(records)
      BY <1>2, <1>5
    <3>4. \A i \in ofJob : ~(i \in k + 1..Len(records) + 1)
      BY <1>5, <3>1, <3>2, <3>3
    <3> QED BY <1>1, <1>6, <3>4 DEF k
  <2>2. \A s \in Servers : goldRun'[s] \in {Assets!Idle, goldRun[s]}
    BY <1>1
  <2> QED BY <1>1, <1>3, <1>7, <2>1, <2>2, AssetReadsOutdated
<1>10. GoldUnderLock'
  BY <1>1, <1>8 DEF AssetInvariant, GoldUnderLock, Assets!Idle
<1>11. (~between => OneSnapshot /\ InOrder)'
  <2>1. ASSUME ~between' PROVE OneSnapshot' /\ InOrder'
    BY <1>1, <1>3, <1>4, <1>8, <2>1, AssetHistoryGrows DEF AssetInvariant
  <2> QED BY <2>1
<1>12. WithdrawalsRecorded'
  <2>1. \A i \in DOMAIN records : i # n
    BY <1>5
  <2>2. p.record # None
    BY <1>6 DEF Assets!ConstantsAssumption
  <2>3. ASSUME NEW i \in withdrawals' \ cut'
        PROVE  records'[i] # None /\ records'[i].kind = "withdrawal"
    <3>1. CASE i \in withdrawals
      <4>1. records'[i] = records[i] /\ i \in withdrawals \ cut
        BY <1>1, <1>2, <1>6, <2>3, <3>1
      <4> QED BY <4>1 DEF AssetInvariant, WithdrawalsRecorded
    <3>2. CASE i = n /\ p.record.kind = "withdrawal"
      BY <1>6, <2>2, <3>2
    <3> QED BY <1>1, <2>3, <3>1, <3>2
  <2>4. ASSUME NEW i \in Assets!Ids', records'[i].kind = "withdrawal"
        PROVE  i \in withdrawals'
    <3>1. CASE i \in Assets!Ids
      <4>1. records'[i] = records[i]
        BY <1>6, <3>1 DEF Assets!Ids
      <4>2. i \in withdrawals
        BY <2>4, <3>1, <4>1 DEF AssetInvariant, WithdrawalsRecorded
      <4> QED BY <1>1, <4>2
    <3>2. CASE i = n
      BY <1>1, <1>6, <2>4, <3>2
    <3> QED BY <1>6, <3>1, <3>2
  <2> QED BY <2>3, <2>4 DEF WithdrawalsRecorded
<1>13. Assets!TypeOK'
  <2>1. /\ withdrawals' \subseteq DOMAIN records' /\ cut' \subseteq DOMAIN records'
        /\ ofJob' \subseteq DOMAIN records'
    BY <1>1, <1>2, <1>6
  <2> QED BY <1>1, <1>6, <1>7, <2>1 DEF AssetInvariant, Assets!TypeOK
<1> QED BY <1>9, <1>10, <1>11, <1>12, <1>13 DEF AssetInvariant

\* The record of the month.
LEMMA AssetMakeStep ==
  ASSUME Assets!ConstantsAssumption, AssetInvariant, NEW s \in Servers, Assets!Make(s)
  PROVE  AssetInvariant'
<1> DEFINE p == goldRun[s].pending
           n == Len(records) + 1
           others == DOMAIN records \ ofJob
<1>1. /\ goldRun[s].stage = "make" /\ Assets!Insert(p, others)
      /\ ofJob' = ofJob \cup {n} /\ lock' = (IF lock = s THEN None ELSE lock)
      /\ goldRun' = [goldRun EXCEPT ![s] = Assets!Idle]
      /\ UNCHANGED <<type, today, withdrawals, request, fired, faults, cut>>
  BY DEF Assets!Make, Assets!Release
<1>2. /\ goldRun \in [Servers -> Assets!Run] /\ lock \in {None} \cup Servers
      /\ withdrawals \subseteq DOMAIN records /\ cut \subseteq DOMAIN records
      /\ ofJob \subseteq DOMAIN records
  BY DEF AssetInvariant, Assets!TypeOK
<1>3. p \in Assets!Insertion /\ goldRun[s] # Assets!Idle
  BY <1>1, <1>2 DEF Assets!Run, Assets!Idle
<1>4. /\ p.seen \in Nat /\ p.seen <= Len(records)
      /\ p.record.date = today /\ p.record.kind = "snapshot"
      /\ ~between => (p.seen + 1..Len(records)) \cap ofJob = {}
      /\ p.seen = Len(records) => LiveOn(today) = {}
  BY <1>1, <1>3 DEF AssetInvariant, GoldRead, GoesOn, Assets!Insertion
<1>5. Len(records) \in Nat /\ DOMAIN records = 1..Len(records)
  BY AssetTyped DEF AssetInvariant
<1> HIDE DEF p, others
<1>6. /\ records' \in Seq({None} \cup Assets!Row) /\ Len(records') = Len(records) + 1
      /\ DOMAIN records' = DOMAIN records \cup {n}
      /\ \A i \in DOMAIN records : records'[i] = records[i]
      /\ records'[n] = p.record /\ p.record \in Assets!Row
      /\ Assets!Ids' = Assets!Ids \cup {n}
      /\ between' = (between \/ (p.seen + 1..Len(records)) \cap others # {})
      /\ between' \in BOOLEAN
  BY <1>1, <1>3, AssetInserted
<1>7. /\ \A t \in Servers : goldRun'[t] = IF t = s THEN Assets!Idle ELSE goldRun[t]
      /\ goldRun' \in [Servers -> Assets!Run] /\ lock' \in {None} \cup Servers
  <2>1. Assets!Idle \in Assets!Run
    BY DEF Assets!Idle, Assets!Run
  <2> QED BY <1>1, <1>2, <2>1
<1>8. ~between' => ~between /\ p.seen = Len(records)
  <2>1. ASSUME ~between' PROVE ~between /\ p.seen = Len(records)
    <3>1. /\ ~between /\ (p.seen + 1..Len(records)) \cap others = {}
          /\ (p.seen + 1..Len(records)) \cap ofJob = {}
      BY <1>4, <1>6, <2>1
    <3>2. CASE p.seen < Len(records)
      <4>1. Len(records) \in p.seen + 1..Len(records) /\ Len(records) \in DOMAIN records
        BY <1>4, <1>5, <3>2
      <4>2. Len(records) \in others \/ Len(records) \in ofJob
        BY <4>1 DEF others
      <4> QED BY <3>1, <4>1, <4>2
    <3> QED BY <1>4, <1>5, <3>1, <3>2
  <2> QED BY <2>1
<1>9. ASSUME NEW t \in Servers, goldRun'[t] # Assets!Idle, ~between' PROVE FALSE
  <2>1. t # s /\ goldRun[t] # Assets!Idle /\ ~between
    BY <1>7, <1>8, <1>9
  <2> QED BY <1>3, <2>1 DEF AssetInvariant, GoldUnderLock
<1>10. RecordsRead' /\ GoldRead'
  <2>1. \A t \in Servers : goldRun'[t].stage = "make" /\ ~between' =>
           (goldRun[t].pending.seen + 1..Len(records')) \cap ofJob' = {}
    <3>1. Assets!Idle.stage # "make"
      BY DEF Assets!Idle
    <3> QED BY <1>9, <3>1
  <2>2. /\ \A t \in Servers : goldRun'[t] \in {Assets!Idle, goldRun[t]}
        /\ \A g \in Creators : request'[g] \in {None, request[g]}
    BY <1>1, <1>7
  <2> QED BY <1>1, <1>3, <2>1, <2>2, AssetReadsOutdated
<1>11. GoldUnderLock'
  <2>1. ASSUME NEW t \in Servers, goldRun'[t] # Assets!Idle
        PROVE  t \in fired /\ today \in MonthFirsts
    BY <1>7, <2>1 DEF AssetInvariant, GoldUnderLock
  <2> QED BY <1>1, <1>9, <2>1 DEF GoldUnderLock, Assets!Idle
<1>12. (~between => OneSnapshot /\ InOrder)'
  <2>1. ASSUME ~between' PROVE OneSnapshot' /\ InOrder'
    BY <1>1, <1>3, <1>4, <1>8, <2>1, AssetHistoryGrows DEF AssetInvariant
  <2> QED BY <2>1
<1>13. WithdrawalsRecorded'
  <2>1. ASSUME NEW i \in withdrawals' \ cut'
        PROVE  records'[i] # None /\ records'[i].kind = "withdrawal"
    <3>1. records'[i] = records[i] /\ i \in withdrawals \ cut
      BY <1>1, <1>2, <1>6, <2>1
    <3> QED BY <3>1 DEF AssetInvariant, WithdrawalsRecorded
  <2>2. ASSUME NEW i \in Assets!Ids', records'[i].kind = "withdrawal"
        PROVE  i \in withdrawals'
    <3>1. CASE i \in Assets!Ids
      <4>1. records'[i] = records[i]
        BY <1>6, <3>1 DEF Assets!Ids
      <4> QED BY <1>1, <2>2, <3>1, <4>1 DEF AssetInvariant, WithdrawalsRecorded
    <3>2. CASE i = n
      BY <1>4, <1>6, <2>2, <3>2
    <3> QED BY <1>6, <3>1, <3>2
  <2> QED BY <2>1, <2>2 DEF WithdrawalsRecorded
<1>14. Assets!TypeOK'
  <2>1. /\ withdrawals' \subseteq DOMAIN records' /\ cut' \subseteq DOMAIN records'
        /\ ofJob' \subseteq DOMAIN records'
    BY <1>1, <1>2, <1>6
  <2> QED BY <1>1, <1>6, <1>7, <2>1 DEF AssetInvariant, Assets!TypeOK
<1> QED BY <1>10, <1>11, <1>12, <1>13, <1>14 DEF AssetInvariant

\* A record is deleted, by hand or with its withdrawal.
LEMMA AssetRemoveStep ==
  ASSUME Assets!ConstantsAssumption, AssetInvariant, NEW i \in 1..RecordsEver,
         Assets!RemoveRecord(i) \/ Assets!RemoveWithdrawal(i)
  PROVE  AssetInvariant'
<1>1. /\ records' = [records EXCEPT ![i] = None]
      /\ UNCHANGED <<type, today, request, lock, fired, goldRun, faults, between, ofJob>>
      /\ \/ withdrawals' = withdrawals /\ cut' = cut \cup ({i} \cap withdrawals)
         \/ withdrawals' = withdrawals \ {i} /\ cut' = cut
  BY DEF Assets!RemoveRecord, Assets!RemoveWithdrawal
<1>2. /\ records \in Seq({None} \cup Assets!Row)
      /\ withdrawals \subseteq DOMAIN records /\ cut \subseteq DOMAIN records
  BY DEF AssetInvariant, Assets!TypeOK
<1>3. i \in DOMAIN records
  BY <1>2 DEF Assets!RemoveRecord, Assets!RemoveWithdrawal, Assets!Ids
<1>4. /\ records' \in Seq({None} \cup Assets!Row) /\ Len(records') = Len(records)
      /\ DOMAIN records' = DOMAIN records
      /\ \A j \in DOMAIN records : records'[j] = IF j = i THEN None ELSE records[j]
  BY <1>1, <1>2, <1>3
<1>5. /\ Assets!Ids' \subseteq Assets!Ids
      /\ \A j \in Assets!Ids' : records'[j] = records[j] /\ j # i
  BY <1>4 DEF Assets!Ids
<1>6. Assets!TypeOK'
  <2>1. withdrawals' \subseteq DOMAIN records' /\ cut' \subseteq DOMAIN records'
    BY <1>1, <1>2, <1>4
  <2> QED BY <1>1, <1>4, <2>1 DEF AssetInvariant, Assets!TypeOK
<1>7. \A d : LiveOn(d)' \subseteq LiveOn(d) /\ Assets!After(d)' \subseteq Assets!After(d)
  BY <1>5 DEF LiveOn, Assets!On, Assets!Snapshots, Assets!After
<1>8. GoldUnderLock'
  BY <1>1 DEF AssetInvariant, GoldUnderLock, Assets!Idle
<1>9. RecordsRead'
  BY <1>1, <1>4, <1>7 DEF AssetInvariant, RecordsRead
<1>10. GoldRead'
  <2>1. \E j \in DOMAIN records' : records'[j] = None
    BY <1>3, <1>4
  <2>2. LiveOn(today)' \subseteq LiveOn(today)
    BY <1>1, <1>5 DEF LiveOn, Assets!On, Assets!Snapshots
  <2>3. ASSUME NEW s \in Servers, NEW p \in {goldRun'[s].pending}, goldRun'[s].stage = "make"
        PROVE  GoesOn(p)'
    <3>1. GoesOn(p)
      BY <1>1, <2>3 DEF AssetInvariant, GoldRead
    <3> QED BY <1>1, <1>4, <2>1, <2>2, <3>1 DEF GoesOn
  <2> QED BY <2>3 DEF GoldRead
<1>11. OneSnapshot => OneSnapshot'
  <2>1. \A d : LiveOn(d)' \subseteq LiveOn(d)
    BY <1>7
  <2> QED BY <2>1 DEF OneSnapshot
<1>12. InOrder => InOrder'
  BY <1>1, <1>5 DEF InOrder
<1>13. WithdrawalsRecorded'
  <2>1. ASSUME NEW j \in withdrawals' \ cut'
        PROVE  records'[j] # None /\ records'[j].kind = "withdrawal"
    <3>1. j # i /\ j \in withdrawals \ cut
      BY <1>1, <2>1
    <3>2. records'[j] = records[j]
      BY <1>2, <1>4, <3>1
    <3> QED BY <3>1, <3>2 DEF AssetInvariant, WithdrawalsRecorded
  <2>2. ASSUME NEW j \in Assets!Ids', records'[j].kind = "withdrawal"
        PROVE  j \in withdrawals'
    <3>1. j \in Assets!Ids /\ records'[j] = records[j] /\ j # i
      BY <1>5
    <3>2. j \in withdrawals
      BY <2>2, <3>1 DEF AssetInvariant, WithdrawalsRecorded
    <3> QED BY <1>1, <3>1, <3>2
  <2> QED BY <2>1, <2>2 DEF WithdrawalsRecorded
<1> QED BY <1>1, <1>6, <1>8, <1>9, <1>10, <1>11, <1>12, <1>13 DEF AssetInvariant

\* The type is changed, or the lock or a run ends.
LEMMA AssetFaultStep ==
  ASSUME Assets!ConstantsAssumption, AssetInvariant,
         \/ Assets!ChangeType \/ Assets!LockExpires
         \/ \E s \in Servers : Assets!JobFails(s)
  PROVE  AssetInvariant'
<1>1. /\ UNCHANGED <<today, records, withdrawals, request, fired, cut, ofJob>>
      /\ between' \in {between, TRUE} /\ type' \in {"GOLD", "OTHER"}
      /\ lock \in {None} \cup Servers /\ goldRun \in [Servers -> Assets!Run]
      /\ faults \in 0..RecordFaults /\ RecordFaults \in Nat
  BY DEF Assets!ChangeType, Assets!LockExpires, Assets!JobFails, AssetInvariant, Assets!TypeOK,
         Assets!ConstantsAssumption
<1>2. \A s \in Servers : goldRun'[s] \in {Assets!Idle, goldRun[s]}
  BY <1>1 DEF Assets!ChangeType, Assets!LockExpires, Assets!JobFails
<1>3. goldRun' \in [Servers -> Assets!Run] /\ lock' \in {None} \cup Servers
  <2>1. Assets!Idle \in Assets!Run
    BY DEF Assets!Idle, Assets!Run
  <2> QED BY <1>1, <2>1 DEF Assets!ChangeType, Assets!LockExpires, Assets!JobFails, Assets!Release
<1>4. faults' \in 0..RecordFaults
  BY <1>1 DEF Assets!ChangeType, Assets!LockExpires, Assets!JobFails
<1>5. GoldUnderLock'
  <2>1. CASE Assets!ChangeType
    BY <2>1 DEF Assets!ChangeType, AssetInvariant, GoldUnderLock, Assets!Idle
  <2>2. CASE Assets!LockExpires
    BY <2>2 DEF Assets!LockExpires, AssetInvariant, GoldUnderLock, Assets!Idle
  <2>3. ASSUME NEW s \in Servers, Assets!JobFails(s) PROVE GoldUnderLock'
    <3>1. /\ goldRun' = [goldRun EXCEPT ![s] = Assets!Idle] /\ goldRun[s] # Assets!Idle
          /\ lock' = (IF lock = s THEN None ELSE lock)
          /\ UNCHANGED <<today, fired, between>>
      BY <2>3 DEF Assets!JobFails, Assets!Release
    <3>2. ASSUME NEW t \in Servers, goldRun'[t] # Assets!Idle
          PROVE  t \in fired /\ today \in MonthFirsts /\ (~between => lock' = t)
      <4>1. t # s /\ goldRun[t] # Assets!Idle
        BY <1>1, <3>1, <3>2
      <4>2. t \in fired /\ today \in MonthFirsts /\ (~between => lock = t /\ lock = s)
        BY <3>1, <4>1 DEF AssetInvariant, GoldUnderLock
      <4> QED BY <4>1, <4>2
    <3> QED BY <3>1, <3>2 DEF GoldUnderLock, Assets!Idle
  <2> QED BY <2>1, <2>2, <2>3
<1>6. RecordsRead'
  BY <1>1, AssetReadsKept DEF AssetInvariant
<1>7. GoldRead'
  <2>1. \A s \in Servers : goldRun'[s].stage = "make" => goldRun'[s] = goldRun[s]
    BY <1>2 DEF Assets!Idle
  <2> QED BY <1>1, <2>1, AssetRunsKept DEF AssetInvariant
<1>8. request' \in [Creators -> {None} \cup Assets!Insertion] /\ fired' \subseteq Servers
  BY <1>1 DEF AssetInvariant, Assets!TypeOK
<1> QED BY <1>1, <1>3, <1>4, <1>5, <1>6, <1>7, <1>8, AssetRecordsKept

\* A run begins, where the lock is free.
LEMMA AssetFireStep ==
  ASSUME Assets!ConstantsAssumption, AssetInvariant, NEW s \in Servers, Assets!Fire(s)
  PROVE  AssetInvariant'
<1>1. /\ today \in MonthFirsts /\ s \notin fired /\ fired' = fired \cup {s}
      /\ UNCHANGED <<type, today, records, withdrawals, request, faults, between, cut, ofJob>>
  BY DEF Assets!Fire
<1>2. /\ lock \in {None} \cup Servers /\ goldRun \in [Servers -> Assets!Run]
      /\ fired \subseteq Servers
  BY DEF AssetInvariant, Assets!TypeOK
<1>3. goldRun[s] = Assets!Idle
  BY <1>1 DEF AssetInvariant, GoldUnderLock
<1>4. \/ /\ lock = None /\ lock' = s
         /\ goldRun' = [goldRun EXCEPT ![s] = [stage |-> "list", pending |-> None]]
      \/ lock' = lock /\ goldRun' = goldRun
  <2>1. [Assets!Idle EXCEPT !.stage = "list"] = [stage |-> "list", pending |-> None]
    BY DEF Assets!Idle
  <2>2. goldRun' = [goldRun EXCEPT ![s].stage = "list"]
          => goldRun' = [goldRun EXCEPT ![s] = [goldRun[s] EXCEPT !.stage = "list"]]
    OBVIOUS
  <2> QED BY <1>3, <2>1, <2>2 DEF Assets!Fire
<1> DEFINE n == [stage |-> "list", pending |-> None]
<1>5. n \in Assets!Run /\ n.stage = "list"
  BY DEF Assets!Run
<1> HIDE DEF n
<1>6. goldRun' \in [Servers -> Assets!Run] /\ lock' \in {None} \cup Servers
  BY <1>2, <1>4, <1>5 DEF n
<1>7. \A t \in Servers : goldRun'[t] = goldRun[t] \/ (t = s /\ goldRun'[t] = n /\ lock' = s /\ lock = None)
  BY <1>2, <1>4 DEF n
<1>8. GoldUnderLock'
  <2>1. ASSUME NEW t \in Servers, goldRun'[t] # Assets!Idle
        PROVE  t \in fired' /\ today \in MonthFirsts /\ (~between => lock' = t)
    <3>1. CASE goldRun'[t] = goldRun[t]
      <4>1. t \in fired /\ (~between => lock = t)
        BY <2>1, <3>1 DEF AssetInvariant, GoldUnderLock
      <4>2. t # None
        BY DEF Assets!ConstantsAssumption
      <4> QED BY <1>1, <1>4, <4>1, <4>2
    <3>2. CASE t = s /\ lock' = s
      BY <1>1, <3>2
    <3> QED BY <1>7, <3>1, <3>2
  <2> QED BY <1>1, <2>1 DEF GoldUnderLock, Assets!Idle
<1>9. RecordsRead'
  BY <1>1, AssetReadsKept DEF AssetInvariant
<1>10. GoldRead'
  <2>1. \A t \in Servers : goldRun'[t].stage = "make" => goldRun'[t] = goldRun[t]
    BY <1>5, <1>7
  <2> QED BY <1>1, <2>1, AssetRunsKept DEF AssetInvariant
<1>11. /\ type' \in {"GOLD", "OTHER"} /\ request' \in [Creators -> {None} \cup Assets!Insertion]
       /\ fired' \subseteq Servers /\ faults' \in 0..RecordFaults
  BY <1>1, <1>2 DEF AssetInvariant, Assets!TypeOK
<1> QED BY <1>1, <1>6, <1>8, <1>9, <1>10, <1>11, AssetRecordsKept

\* The newest weight, at the price of the day.
LEMMA AssetLookStep ==
  ASSUME Assets!ConstantsAssumption, AssetInvariant, NEW s \in Servers, Assets!Look(s)
  PROVE  AssetInvariant'
<1>1. /\ goldRun[s].stage = "list" /\ goldRun \in [Servers -> Assets!Run]
      /\ lock \in {None} \cup Servers
      /\ UNCHANGED <<type, today, records, withdrawals, request, fired, faults, between, cut, ofJob>>
  BY DEF Assets!Look, AssetInvariant, Assets!TypeOK
<1>2. goldRun[s] # Assets!Idle
  BY <1>1 DEF Assets!Idle
<1>3. s \in fired /\ today \in MonthFirsts /\ (~between => lock = s)
  BY <1>2 DEF AssetInvariant, GoldUnderLock
<1>4. \/ /\ goldRun' = [goldRun EXCEPT ![s] = Assets!Idle]
         /\ lock' = (IF lock = s THEN None ELSE lock)
      \/ \E n \in Assets!Run :
           /\ goldRun' = [goldRun EXCEPT ![s] = n] /\ lock' = lock
           /\ \A p \in {n.pending} : GoesOn(p)
  <2>1. CASE type # "GOLD" \/ Assets!Weighed = {} \/ LiveOn(today) # {}
    BY <2>1 DEF Assets!Look, Assets!Release, LiveOn
  <2>2. CASE type = "GOLD" /\ Assets!Weighed # {} /\ LiveOn(today) = {}
    <3>1. PICK price \in GoldPrices, w \in Assets!LastDay(Assets!Weighed),
               q \in IF Assets!Before(today) = {} THEN {None}
                                        ELSE Assets!LastDay(Assets!Before(today)) :
            LET b == records[w].grams * price
                principal == IF q = None THEN b ELSE records[q].principal
            IN /\ goldRun' = [goldRun EXCEPT ![s] =
                    [stage |-> "make",
                     pending |-> Assets!Pending(Assets!Record(today, "snapshot", b, principal,
                                                b - principal, records[w].grams))]]
               /\ lock' = lock
      BY <2>2 DEF Assets!Look, LiveOn
    <3> DEFINE g == records[w].grams
               b == g * price
               m == IF q = None THEN b ELSE records[q].principal
               r == Assets!Record(today, "snapshot", b, m, b - m, g)
               n == [stage |-> "make", pending |-> Assets!Pending(r)]
    <3>2. w \in Assets!Weighed /\ w \in Assets!Ids
      BY AssetQueries DEF Assets!LastDay
    <3>3. g \in Nat
      <4>1. records[w] \in Assets!Row
        BY <3>2, AssetTyped DEF AssetInvariant
      <4>2. g # None
        BY <3>2 DEF Assets!Weighed
      <4> QED BY <4>1, <4>2 DEF Assets!Row
    <3>4. price \in Nat /\ today \in RecordDates /\ today \in Int
      BY <1>3 DEF Assets!ConstantsAssumption
    <3> HIDE DEF g
    <3>5. b \in Nat
      BY <3>3, <3>4
    <3> HIDE DEF b
    <3>6. q # None => q \in Assets!Before(today) /\ records[q].principal \in Nat
      <4>1. ASSUME q # None PROVE q \in Assets!Before(today)
        BY <4>1 DEF Assets!LastDay
      <4>2. ASSUME q # None PROVE records[q] \in Assets!Row
        BY <4>1, <4>2, AssetQueries, AssetTyped DEF AssetInvariant
      <4> QED BY <4>1, <4>2 DEF Assets!Row
    <3>7. m \in Nat /\ b - m \in Int
      BY <3>5, <3>6
    <3>8. r \in Assets!Row /\ r.date = today /\ r.kind = "snapshot" /\ r.grams = g /\ r.principal = m
      <4> HIDE DEF m
      <4>1. b - m \in Int
        BY <3>7
      <4> QED BY <3>3, <3>4, <3>5, <3>7, <4>1 DEF Assets!Record, Assets!Row
    <3> HIDE DEF r
    <3>9. Len(records) \in Nat
      BY AssetTyped DEF AssetInvariant
    <3>10. n \in Assets!Run /\ n.pending.record = r /\ n.pending.seen = Len(records)
      BY <3>8, <3>9 DEF Assets!Run, Assets!Pending, Assets!Insertion
    <3>11. (Len(records) + 1..Len(records)) \cap ofJob = {}
      BY <3>9
    <3>12. Assets!ContinuesLast(r)
      <4>1. ASSUME NEW i \in Assets!LastDay(Assets!Before(today)),
                   Assets!LastDay(Assets!Before(today)) = {i},
                   i \in Assets!LastDay(Assets!Weighed)
            PROVE  g = records[i].grams /\ m = records[i].principal
        <5>1. i \in Assets!Before(today) /\ i \in Assets!Ids /\ i \in Assets!Weighed
          BY AssetQueries, <4>1 DEF Assets!LastDay
        <5>2. records[w].date <= records[i].date /\ records[i].date <= records[w].date
          BY <3>2, <4>1, <5>1 DEF Assets!LastDay
        <5>3. records[w].date = records[i].date
          <6>1. records[w].date \in Int /\ records[i].date \in Int
            BY <3>2, <5>1, AssetTyped DEF AssetInvariant
          <6> QED BY <5>2, <6>1
        <5>4. w \in Assets!LastDay(Assets!Before(today))
          <6>1. w \in Assets!Before(today)
            BY <3>2, <5>1, <5>3 DEF Assets!Before
          <6> QED BY <4>1, <5>3, <6>1 DEF Assets!LastDay
        <5>5. w = i
          BY <4>1, <5>4
        <5>6. q = i /\ q # None
          <6>1. q = i
            BY <4>1, <5>1
          <6>2. i # None
            <7>1. i \in Nat
              BY <5>1, AssetTyped DEF AssetInvariant
            <7> QED BY <7>1 DEF Assets!ConstantsAssumption
          <6> QED BY <6>1, <6>2
        <5> QED BY <5>5, <5>6 DEF g
      <4> QED BY <3>8, <4>1 DEF Assets!ContinuesLast
    <3>13. \A p \in {n.pending} : GoesOn(p)
      BY <2>2, <3>8, <3>9, <3>10, <3>11, <3>12 DEF GoesOn
    <3>14. goldRun' = [goldRun EXCEPT ![s] = n] /\ lock' = lock
      BY <3>1 DEF r, b, g
    <3> HIDE DEF n
    <3> QED BY <3>10, <3>13, <3>14
  <2> QED BY <2>1, <2>2
<1>5. GoldUnderLock' /\ goldRun' \in [Servers -> Assets!Run] /\ lock' \in {None} \cup Servers
  <2>1. CASE /\ goldRun' = [goldRun EXCEPT ![s] = Assets!Idle]
             /\ lock' = (IF lock = s THEN None ELSE lock)
    <3>1. ASSUME NEW t \in Servers, goldRun'[t] # Assets!Idle
          PROVE  t \in fired /\ today \in MonthFirsts /\ (~between => lock' = t)
      <4>1. t # s /\ goldRun[t] # Assets!Idle
        BY <1>1, <2>1, <3>1
      <4>2. t \in fired /\ today \in MonthFirsts /\ (~between => lock = t)
        BY <4>1 DEF AssetInvariant, GoldUnderLock
      <4> QED BY <1>3, <4>1, <4>2
    <3>2. Assets!Idle \in Assets!Run
      BY DEF Assets!Idle, Assets!Run
    <3> QED BY <1>1, <2>1, <3>1, <3>2 DEF GoldUnderLock, Assets!Idle
  <2>2. ASSUME NEW n \in Assets!Run, goldRun' = [goldRun EXCEPT ![s] = n], lock' = lock
        PROVE  GoldUnderLock' /\ goldRun' \in [Servers -> Assets!Run] /\ lock' \in {None} \cup Servers
    <3>1. ASSUME NEW t \in Servers, goldRun'[t] # Assets!Idle
          PROVE  t \in fired /\ today \in MonthFirsts /\ (~between => lock' = t)
      <4>1. goldRun[t] # Assets!Idle
        BY <1>1, <1>2, <2>2, <3>1
      <4> QED BY <2>2, <4>1 DEF AssetInvariant, GoldUnderLock
    <3> QED BY <1>1, <2>2, <3>1 DEF GoldUnderLock, Assets!Idle
  <2> QED BY <1>4, <2>1, <2>2
<1>6. RecordsRead' /\ (\A p : GoesOn(p) => GoesOn(p)')
  BY <1>1, AssetReadsKept DEF AssetInvariant
<1>7. GoldRead'
  <2>1. ASSUME NEW t \in Servers, goldRun'[t].stage = "make", NEW p \in {goldRun'[t].pending}
        PROVE  GoesOn(p)'
    <3>1. GoesOn(p)
      <4>1. CASE t # s
        BY <1>1, <1>4, <2>1, <4>1 DEF AssetInvariant, GoldRead
      <4>2. CASE t = s
        BY <1>1, <1>4, <2>1, <4>2 DEF Assets!Idle
      <4> QED BY <4>1, <4>2
    <3> QED BY <1>6, <3>1
  <2> QED BY <2>1 DEF GoldRead
<1>8. /\ type' \in {"GOLD", "OTHER"} /\ request' \in [Creators -> {None} \cup Assets!Insertion]
      /\ fired' \subseteq Servers /\ faults' \in 0..RecordFaults
  BY <1>1 DEF AssetInvariant, Assets!TypeOK
<1> QED BY <1>1, <1>5, <1>6, <1>7, <1>8, AssetRecordsKept

LEMMA AssetsCardinality ==
  ASSUME NEW S
  PROVE  Assets!Cardinality(S) = Cardinality(S)
BY Zenon DEF Assets!Cardinality, Cardinality

LEMMA AssetInvariantInitially ==
  ASSUME Assets!ConstantsAssumption, Assets!Init
  PROVE  AssetInvariant
<1>1. /\ type \in {"GOLD", "OTHER"} /\ today \in {0} \cup MonthFirsts
      /\ records = <<>> /\ withdrawals = {} /\ cut = {} /\ ofJob = {}
      /\ request = [h \in Creators |-> None] /\ goldRun = [s \in Servers |-> Assets!Idle]
      /\ lock = None /\ fired = {} /\ faults = 0 /\ between = FALSE
  BY DEF Assets!Init
<1>2. Assets!Idle \in Assets!Run /\ Assets!Idle.stage = "idle"
  BY DEF Assets!Idle, Assets!Run
<1>3. Assets!TypeOK
  <2>1. /\ records \in Seq({None} \cup Assets!Row) /\ faults \in 0..RecordFaults
    BY <1>1 DEF Assets!ConstantsAssumption
  <2>2. /\ request \in [Creators -> {None} \cup Assets!Insertion]
        /\ goldRun \in [Servers -> Assets!Run]
    BY <1>1, <1>2
  <2> QED BY <1>1, <2>1, <2>2 DEF Assets!TypeOK
<1>4. Assets!Ids = {}
  BY <1>1 DEF Assets!Ids
<1>5. GoldUnderLock /\ RecordsRead
  BY <1>1 DEF GoldUnderLock, RecordsRead
<1>6. GoldRead
  BY <1>1, <1>2 DEF GoldRead
<1>7. OneSnapshot
  <2>1. \A d : LiveOn(d) = {}
    BY <1>4 DEF LiveOn, Assets!On
  <2> QED BY <2>1 DEF OneSnapshot
<1>8. InOrder /\ WithdrawalsRecorded
  BY <1>1, <1>4 DEF InOrder, WithdrawalsRecorded
<1> QED BY <1>3, <1>5, <1>6, <1>7, <1>8 DEF AssetInvariant

LEMMA AssetInvariantStep ==
  ASSUME Assets!ConstantsAssumption, AssetInvariant, [Assets!Next]_Assets!vars
  PROVE  AssetInvariant'
<1>1. CASE UNCHANGED Assets!vars
  <2>1. UNCHANGED <<type, today, records, withdrawals, request, lock, fired, goldRun, faults,
                    between, cut, ofJob>>
    BY <1>1 DEF Assets!vars
  <2>2. /\ type' \in {"GOLD", "OTHER"} /\ request' \in [Creators -> {None} \cup Assets!Insertion]
        /\ fired' \subseteq Servers /\ faults' \in 0..RecordFaults
        /\ lock' \in {None} \cup Servers /\ goldRun' \in [Servers -> Assets!Run]
    BY <2>1 DEF AssetInvariant, Assets!TypeOK
  <2>3. GoldUnderLock'
    BY <2>1 DEF AssetInvariant, GoldUnderLock, Assets!Idle
  <2>4. RecordsRead' /\ GoldRead'
    BY <2>1, AssetReadsKept DEF AssetInvariant
  <2> QED BY <2>1, <2>2, <2>3, <2>4, AssetRecordsKept
<1>2. CASE Assets!Next
  <2>1. ASSUME NEW h \in Creators, NEW d \in RecordDates,
               \/ \E in \in RecordInputs, price \in GoldPrices : Assets!RecordRead(h, d, in, price)
               \/ \E w \in Withdrawals : Assets!WithdrawRead(h, d, w)
        PROVE  AssetInvariant'
    BY <2>1, AssetReadStep
  <2>2. ASSUME NEW h \in Creators, Assets!Write(h) PROVE AssetInvariant'
    BY <2>2, AssetWriteStep
  <2>3. ASSUME NEW i \in 1..RecordsEver, Assets!RemoveRecord(i) \/ Assets!RemoveWithdrawal(i)
        PROVE  AssetInvariant'
    BY <2>3, AssetRemoveStep
  <2>4. ASSUME NEW s \in Servers, \/ Assets!Fire(s) \/ Assets!Look(s)
                                  \/ Assets!Make(s) \/ Assets!JobFails(s)
        PROVE  AssetInvariant'
    BY <2>4, AssetFireStep, AssetLookStep, AssetMakeStep, AssetFaultStep
  <2>5. CASE Assets!ChangeType \/ Assets!LockExpires
    BY <2>5, AssetFaultStep
  <2> QED BY <1>2, <2>1, <2>2, <2>3, <2>4, <2>5 DEF Assets!Next
<1> QED BY <1>1, <1>2

\* A withdrawal leaves what it took from, or less.
LEMMA OneHistoryFromInvariant ==
  ASSUME Assets!ConstantsAssumption, AssetInvariant
  PROVE  Assets!TypeOK /\ Assets!RecordsMakeOneHistory
<1>1. ASSUME ~between, NEW d \in RecordDates
      PROVE  Assets!Cardinality(Assets!On(d) \cap Assets!Snapshots) <= 1
  <2>1. \A i, j \in LiveOn(d) : i = j
    BY <1>1 DEF AssetInvariant, OneSnapshot
  <2>2. CASE LiveOn(d) = {}
    BY <2>2, FS_EmptySet, AssetsCardinality DEF LiveOn
  <2>3. ASSUME NEW i \in LiveOn(d) PROVE Cardinality(LiveOn(d)) = 1
    <3>1. LiveOn(d) = {i}
      BY <2>1
    <3> QED BY <3>1, FS_Singleton
  <2> QED BY <2>2, <2>3, AssetsCardinality DEF LiveOn
<1>2. ~between => InOrder
  BY DEF AssetInvariant
<1>3. ASSUME NEW s \in Servers, goldRun[s].stage = "make", goldRun[s].pending.seen = Len(records)
      PROVE  \/ \E i \in DOMAIN records : records[i] = None
             \/ Assets!ContinuesLast(goldRun[s].pending.record)
  BY <1>3 DEF AssetInvariant, GoldRead, GoesOn
<1>4. ASSUME NEW i \in Assets!Ids, NEW d \in RecordDates, NEW w \in Withdrawals,
             Assets!Balanced(records[i]), Assets!Safe(records[i], w)
      PROVE  Assets!Balanced(Assets!Withdrawn(d, records[i], w))
  <2>1. records[i] \in Assets!Row
    BY AssetTyped DEF AssetInvariant
  <2> QED BY <1>4, <2>1, WithdrawnTyped
<1> QED BY <1>1, <1>2, <1>3, <1>4 DEF AssetInvariant, InOrder, WithdrawalsRecorded,
                                      Assets!RecordsMakeOneHistory

THEOREM AccountRecordsTypeCorrect ==
  ASSUME Assets!ConstantsAssumption
  PROVE  Assets!Spec => []Assets!TypeOK
<1>1. Assets!Init => AssetInvariant
  BY AssetInvariantInitially
<1>2. AssetInvariant /\ [Assets!Next]_Assets!vars => AssetInvariant'
  BY AssetInvariantStep
<1>3. AssetInvariant => Assets!TypeOK
  BY OneHistoryFromInvariant
<1> QED BY <1>1, <1>2, <1>3, PTL DEF Assets!Spec

THEOREM RecordsMakeOneHistoryHolds ==
  ASSUME Assets!ConstantsAssumption
  PROVE  Assets!Spec => []Assets!RecordsMakeOneHistory
<1>1. Assets!Init => AssetInvariant
  BY AssetInvariantInitially
<1>2. AssetInvariant /\ [Assets!Next]_Assets!vars => AssetInvariant'
  BY AssetInvariantStep
<1>3. AssetInvariant => Assets!RecordsMakeOneHistory
  BY OneHistoryFromInvariant
<1> QED BY <1>1, <1>2, <1>3, PTL DEF Assets!Spec

-----------------------------------------------------------------------------
(* RecurringTasks: the type; what is generated is left to TLC.              *)

\* A generation at work has a rule.
TasksInvariant == Tasks!TypeOK /\ \A w \in Tasks!Workers : run[w] # None => started # 0

LEMMA TaskDates ==
  ASSUME Tasks!ConstantsAssumption, NEW S \in SUBSET Tasks!Dates
  PROVE  Tasks!Cardinality(S) \in Nat
<1>1. IsFiniteSet(Tasks!Dates)
  <2>1. Tasks!LastDay(Len(MonthStarts) - 1) \in Int
    <3>1. Len(MonthStarts) \in Nat /\ Len(MonthStarts) - 1 + 1 = Len(MonthStarts)
      BY DEF Tasks!ConstantsAssumption
    <3>2. MonthStarts[Len(MonthStarts)] \in Nat
      BY <3>1 DEF Tasks!ConstantsAssumption
    <3> QED BY <3>1, <3>2 DEF Tasks!LastDay
  <2> QED BY <2>1, FS_Interval DEF Tasks!Dates
<1>2. Cardinality(S) \in Nat
  BY <1>1, FS_Subset, FS_CardinalityType
<1>3. Tasks!Cardinality(S) = Cardinality(S)
  BY Zenon DEF Cardinality, Tasks!Cardinality
<1> QED BY <1>2, <1>3

\* The row keeps its columns.
LEMMA TaskRuleWritten ==
  ASSUME Tasks!TypeOK, started # 0, started' = started,
         \/ rule' = rule
         \/ \E a \in BOOLEAN : rule' = [rule EXCEPT !.active = a]
         \/ \E n \in Nat : rule' = [rule EXCEPT !.generated = n]
  PROVE  /\ rule'.active \in BOOLEAN /\ rule'.generated \in Nat
         /\ \E r \in NewRules : rule' = Tasks!Stored(r, rule'.active, rule'.generated)
<1>1. PICK r \in NewRules : rule = Tasks!Stored(r, rule.active, rule.generated)
  BY DEF Tasks!TypeOK
<1>2. rule.active \in BOOLEAN /\ rule.generated \in Nat
  BY DEF Tasks!TypeOK
<1>3. \A a, n : /\ Tasks!Stored(r, a, n).active = a /\ Tasks!Stored(r, a, n).generated = n
  BY DEF Tasks!Stored
<1>4. \A a : [rule EXCEPT !.active = a] = Tasks!Stored(r, a, rule.generated)
  <2> DEFINE b == rule.active
             n == rule.generated
  <2>1. rule = Tasks!Stored(r, b, n)
    BY <1>1
  <2> HIDE DEF b, n
  <2>2. \A a : [Tasks!Stored(r, b, n) EXCEPT !.active = a] = Tasks!Stored(r, a, n)
    BY DEF Tasks!Stored
  <2> QED BY <2>1, <2>2 DEF n
<1>5. \A m : [rule EXCEPT !.generated = m] = Tasks!Stored(r, rule.active, m)
  <2> DEFINE b == rule.active
             n == rule.generated
  <2>1. rule = Tasks!Stored(r, b, n)
    BY <1>1
  <2> HIDE DEF b, n
  <2>2. \A m : [Tasks!Stored(r, b, n) EXCEPT !.generated = m] = Tasks!Stored(r, b, m)
    BY DEF Tasks!Stored
  <2> QED BY <2>1, <2>2 DEF b
<1>6. PICK a \in BOOLEAN, n \in Nat : rule' = Tasks!Stored(r, a, n)
  BY <1>1, <1>2, <1>4, <1>5
<1>7. rule'.active = a /\ rule'.generated = n
  BY <1>3, <1>6
<1> QED BY <1>6, <1>7

\* A generation goes on, or is over; the row, the tasks and the lock are written.
LEMMA TaskWorkStep ==
  ASSUME Tasks!ConstantsAssumption, TasksInvariant, NEW w \in Tasks!Workers,
         NEW r \in {None} \cup Tasks!Run, run' = [run EXCEPT ![w] = r],
         started' = started, started # 0,
         \/ rule' = rule
         \/ \E a \in BOOLEAN : rule' = [rule EXCEPT !.active = a]
         \/ \E n \in Nat : rule' = [rule EXCEPT !.generated = n],
         tasks' \in [Tasks!Dates -> Nat], lock' \in Servers \cup {None}, fired' \subseteq Servers,
         complete' \in 0..TaskDays, mingled' \in BOOLEAN, requests' \in Nat,
         UNCHANGED <<today, skips, freed>>
  PROVE  TasksInvariant'
<1>1. run \in [Tasks!Workers -> {None} \cup Tasks!Run]
  BY DEF TasksInvariant, Tasks!TypeOK
<1>2. run' \in [Tasks!Workers -> {None} \cup Tasks!Run]
  BY <1>1
<1>3. /\ rule'.active \in BOOLEAN /\ rule'.generated \in Nat
      /\ \E q \in NewRules : rule' = Tasks!Stored(q, rule'.active, rule'.generated)
  BY TaskRuleWritten DEF TasksInvariant
<1>4. (\E q \in NewRules : rule = Tasks!Stored(q, rule.active, rule.generated))'
  BY <1>3 DEF Tasks!Stored
<1>5. Tasks!TypeOK'
  BY <1>2, <1>3, <1>4 DEF TasksInvariant, Tasks!TypeOK
<1> QED BY <1>5 DEF TasksInvariant

LEMMA TaskGenerateStep ==
  ASSUME Tasks!ConstantsAssumption, TasksInvariant, NEW w \in Tasks!Workers,
         Tasks!Generate(w) \/ Tasks!Insert(w) \/ Tasks!InsertFails(w)
  PROVE  TasksInvariant'
<1>1. /\ run[w] # None /\ started # 0 /\ run[w] \in Tasks!Run
      /\ rule.active \in BOOLEAN /\ rule.generated \in Nat /\ today \in 1..TaskDays
      /\ tasks \in [Tasks!Dates -> Nat] /\ lock \in Servers \cup {None} /\ fired \subseteq Servers
      /\ complete \in 0..TaskDays /\ mingled \in BOOLEAN /\ requests \in Nat
  BY DEF TasksInvariant, Tasks!TypeOK, Tasks!Generate, Tasks!Insert, Tasks!InsertFails
<1>2. UNCHANGED <<today, skips, freed, started, lock, fired, requests>>
  BY DEF Tasks!Generate, Tasks!Insert, Tasks!InsertFails
<1>3. CASE Tasks!Generate(w)
  <2>1. /\ \/ \E S \in SUBSET Tasks!Dates :
                run' = [run EXCEPT ![w] = [stage |-> "write", day |-> today, dates |-> S,
                                           generated |-> rule.generated]]
           \/ run' = [run EXCEPT ![w] = None]
        /\ rule' = rule \/ rule' = [rule EXCEPT !.active = FALSE]
        /\ UNCHANGED <<tasks, complete>>
    BY <1>3 DEF Tasks!Generate, Tasks!Finish
  <2>2. PICK r \in {None} \cup Tasks!Run : run' = [run EXCEPT ![w] = r]
    BY <1>1, <2>1 DEF Tasks!Run
  <2>3. mingled' \in BOOLEAN
    BY <1>3 DEF Tasks!Generate
  <2> QED BY <1>1, <1>2, <2>1, <2>2, <2>3, TaskWorkStep
<1>4. CASE Tasks!Insert(w)
  <2> DEFINE r == run[w]
  <2>1. r.stage = "write" /\ run' = [run EXCEPT ![w] = None] /\ UNCHANGED mingled
    BY <1>4 DEF Tasks!Insert, Tasks!Finish
  <2>2. /\ r.dates \subseteq Tasks!Dates /\ r.generated \in Nat /\ r.day \in 1..TaskDays
    BY <1>1, <2>1 DEF Tasks!Run
  <2>3. r.generated + Tasks!Cardinality(r.dates) \in Nat
    BY <2>2, TaskDates
  <2>4. rule' = rule \/ rule' = [rule EXCEPT !.generated = r.generated + Tasks!Cardinality(r.dates)]
    BY <1>4 DEF Tasks!Insert
  <2>5. tasks' \in [Tasks!Dates -> Nat]
    BY <1>1, <1>4 DEF Tasks!Insert
  <2>6. complete' \in 0..TaskDays
    <3>1. complete' = r.day \/ complete' = complete
      BY <1>4 DEF Tasks!Insert
    <3> QED BY <1>1, <2>2, <3>1
  <2> QED BY <1>1, <1>2, <2>1, <2>3, <2>4, <2>5, <2>6, TaskWorkStep
<1>5. CASE Tasks!InsertFails(w)
  <2>1. run' = [run EXCEPT ![w] = None] /\ UNCHANGED <<rule, tasks, complete, mingled>>
    BY <1>5 DEF Tasks!InsertFails, Tasks!Finish
  <2> QED BY <1>1, <1>2, <2>1, TaskWorkStep
<1> QED BY <1>3, <1>4, <1>5

LEMMA TaskJobStep ==
  ASSUME Tasks!ConstantsAssumption, TasksInvariant,
         \/ \E s \in Servers : Tasks!Fire(s) \/ Tasks!Release(s)
         \/ Tasks!LockExpires
  PROVE  TasksInvariant'
<1>1. /\ tasks \in [Tasks!Dates -> Nat] /\ lock \in Servers \cup {None} /\ fired \subseteq Servers
      /\ complete \in 0..TaskDays /\ mingled \in BOOLEAN /\ requests \in Nat
      /\ run \in [Tasks!Workers -> {None} \cup Tasks!Run]
  BY DEF TasksInvariant, Tasks!TypeOK
<1>2. ASSUME NEW s \in Servers, Tasks!Fire(s) PROVE TasksInvariant'
  <2>1. s \in Tasks!Workers
    BY DEF Tasks!Workers
  <2>2. /\ rule # None /\ fired' = fired \cup {s}
        /\ \/ lock' = s /\ run' = [run EXCEPT ![s] = [stage |-> "read"]]
           \/ lock' = lock /\ run' = [run EXCEPT ![s] = run[s]]
        /\ UNCHANGED <<today, rule, tasks, skips, requests, started, freed, complete, mingled>>
    BY <1>1, <1>2, <2>1 DEF Tasks!Fire
  <2>3. started # 0
    BY <2>2 DEF TasksInvariant, Tasks!TypeOK
  <2>4. [stage |-> "read"] \in Tasks!Run /\ run[s] \in {None} \cup Tasks!Run
    BY <1>1, <2>1 DEF Tasks!Run
  <2>5. fired' \subseteq Servers /\ lock' \in Servers \cup {None}
    BY <1>1, <2>2
  <2> QED BY <1>1, <2>1, <2>2, <2>3, <2>4, <2>5, TaskWorkStep
<1>3. CASE (\E s \in Servers : Tasks!Release(s)) \/ Tasks!LockExpires
  <2>1. /\ lock' = None /\ mingled' \in {mingled, TRUE}
        /\ UNCHANGED <<today, rule, tasks, skips, fired, run, requests, started, freed, complete>>
    BY <1>3 DEF Tasks!Release, Tasks!LockExpires
  <2>2. Tasks!TypeOK'
    BY <1>1, <2>1 DEF TasksInvariant, Tasks!TypeOK, Tasks!Stored
  <2> QED BY <2>1, <2>2 DEF TasksInvariant
<1> QED BY <1>2, <1>3

\* Users create, pause, skip, delete and complete.
LEMMA TaskUserStep ==
  ASSUME Tasks!ConstantsAssumption, TasksInvariant,
         \/ Tasks!PauseRecurring \/ \E d \in Tasks!Dates : Tasks!SkipRecurring(d)
         \/ \E d \in Tasks!Taken, scope \in {"current", "future", "all"} : Tasks!DeleteTask(d, scope)
  PROVE  TasksInvariant'
<1>1. /\ tasks \in [Tasks!Dates -> Nat] /\ requests \in Nat /\ skips \subseteq Tasks!Dates
      /\ freed \subseteq Tasks!Dates
  BY DEF TasksInvariant, Tasks!TypeOK
<1>2. /\ rule # None /\ requests' = requests + 1
      /\ UNCHANGED <<today, lock, fired, run, started, complete, mingled>>
  BY DEF Tasks!PauseRecurring, Tasks!SkipRecurring, Tasks!DeleteTask, Tasks!NewRequest
<1>3. started # 0 /\ rule.active \in BOOLEAN
  BY <1>2 DEF TasksInvariant, Tasks!TypeOK
<1>4. rule' = rule \/ \E a \in BOOLEAN : rule' = [rule EXCEPT !.active = a]
  BY <1>3 DEF Tasks!PauseRecurring, Tasks!SkipRecurring, Tasks!DeleteTask
<1>5. /\ rule'.active \in BOOLEAN /\ rule'.generated \in Nat
      /\ \E q \in NewRules : rule' = Tasks!Stored(q, rule'.active, rule'.generated)
  BY <1>2, <1>3, <1>4, TaskRuleWritten DEF TasksInvariant
<1>6. (\E q \in NewRules : rule = Tasks!Stored(q, rule.active, rule.generated))'
  BY <1>5 DEF Tasks!Stored
<1>7. skips' \subseteq Tasks!Dates
  BY <1>1 DEF Tasks!PauseRecurring, Tasks!SkipRecurring, Tasks!DeleteTask
<1>8. /\ tasks' \in [Tasks!Dates -> Nat] /\ freed' \subseteq Tasks!Dates
  <2>1. CASE UNCHANGED <<tasks, freed>>
    BY <1>1, <2>1
  <2>2. ASSUME NEW d \in Tasks!Taken, NEW scope \in {"current", "future", "all"},
               Tasks!DeleteTask(d, scope)
        PROVE  tasks' \in [Tasks!Dates -> Nat] /\ freed' \subseteq Tasks!Dates
    <3>1. d \in Tasks!Dates /\ tasks[d] > 0 /\ Tasks!Taken \subseteq Tasks!Dates
      BY DEF Tasks!Taken
    <3>2. PICK gone \in SUBSET Tasks!Dates :
             /\ scope = "current" => gone = {d}
             /\ tasks' = [e \in Tasks!Dates |-> IF e \notin gone THEN tasks[e]
                            ELSE IF scope = "current" THEN tasks[e] - 1 ELSE 0]
             /\ freed' = freed \cup gone
      <4> DEFINE g == CASE scope = "current" -> {d}
                        [] scope = "future"  -> {e \in Tasks!Taken : e >= d}
                        [] scope = "all"     -> Tasks!Taken
      <4>1. g \subseteq Tasks!Dates /\ (scope = "current" => g = {d})
        BY <3>1
      <4>2. /\ tasks' = [e \in Tasks!Dates |-> IF e \notin g THEN tasks[e]
                           ELSE IF scope = "current" THEN tasks[e] - 1 ELSE 0]
            /\ freed' = freed \cup g
        BY <2>2 DEF Tasks!DeleteTask
      <4> HIDE DEF g
      <4> QED BY <4>1, <4>2
    <3>3. \A e \in Tasks!Dates :
            (IF e \notin gone THEN tasks[e] ELSE IF scope = "current" THEN tasks[e] - 1 ELSE 0) \in Nat
      BY <1>1, <3>1, <3>2
    <3> QED BY <1>1, <3>2, <3>3
  <2> QED BY <2>1, <2>2 DEF Tasks!PauseRecurring, Tasks!SkipRecurring
<1>9. Tasks!TypeOK'
  BY <1>1, <1>2, <1>3, <1>5, <1>6, <1>7, <1>8 DEF TasksInvariant, Tasks!TypeOK
<1> QED BY <1>2, <1>3, <1>9 DEF TasksInvariant

LEMMA TaskCreateStep ==
  ASSUME Tasks!ConstantsAssumption, TasksInvariant, NEW h \in Handlers, Tasks!CreateTask(h)
  PROVE  TasksInvariant'
<1>1. PICK r \in NewRules, first \in today..today + 1 :
         /\ rule' = Tasks!Stored(r, TRUE, 0) /\ tasks' = [tasks EXCEPT ![first] = 1]
         /\ run' = [run EXCEPT ![h] = IF r.generation = "AUTO_SCHEDULER" THEN [stage |-> "read"]
                                                                       ELSE None]
  BY DEF Tasks!CreateTask
<1>2. /\ started' = today
      /\ UNCHANGED <<today, skips, lock, fired, requests, freed, complete, mingled>>
  BY DEF Tasks!CreateTask
<1>3. today \in 1..TaskDays /\ TaskDays \in Nat
  BY DEF TasksInvariant, Tasks!TypeOK, Tasks!ConstantsAssumption
<1>4. started' \in 0..TaskDays /\ started' # 0
  BY <1>2, <1>3
<1>5. /\ run \in [Tasks!Workers -> {None} \cup Tasks!Run] /\ tasks \in [Tasks!Dates -> Nat]
      /\ h \in Tasks!Workers
  BY DEF TasksInvariant, Tasks!TypeOK, Tasks!Workers
<1>6. run' \in [Tasks!Workers -> {None} \cup Tasks!Run]
  <2>1. [stage |-> "read"] \in Tasks!Run
    BY DEF Tasks!Run
  <2> QED BY <1>1, <1>5, <2>1
<1>7. tasks' \in [Tasks!Dates -> Nat]
  BY <1>1, <1>5
<1>8. PICK a \in BOOLEAN : rule'.active = a /\ rule'.generated = 0 /\ rule' = Tasks!Stored(r, a, 0)
  <2>1. PICK a \in BOOLEAN : rule' = Tasks!Stored(r, a, 0)
    BY <1>1
  <2> QED BY <2>1 DEF Tasks!Stored
<1>9. (\E q \in NewRules : rule = Tasks!Stored(q, rule.active, rule.generated))'
  <2>1. rule' = Tasks!Stored(r, rule'.active, rule'.generated)
    BY <1>1, <1>8
  <2> QED BY <2>1 DEF Tasks!Stored
<1>10. Tasks!TypeOK'
  <2>1. /\ today' \in 1..TaskDays /\ skips' \subseteq Tasks!Dates
        /\ lock' \in Servers \cup {None} /\ fired' \subseteq Servers
        /\ requests' \in Nat /\ freed' \subseteq Tasks!Dates /\ complete' \in 0..TaskDays
        /\ mingled' \in BOOLEAN
    BY <1>2 DEF TasksInvariant, Tasks!TypeOK
  <2>2. rule'.active \in BOOLEAN /\ rule'.generated \in Nat
    BY <1>8
  <2> QED BY <1>4, <1>6, <1>7, <1>9, <2>1, <2>2 DEF Tasks!TypeOK
<1> QED BY <1>4, <1>10 DEF TasksInvariant

LEMMA TaskCompleteStep ==
  ASSUME Tasks!ConstantsAssumption, TasksInvariant, NEW h \in Handlers, NEW d \in Tasks!Taken,
         Tasks!CompleteTask(h, d)
  PROVE  TasksInvariant'
<1>1. /\ tasks \in [Tasks!Dates -> Nat] /\ lock \in Servers \cup {None} /\ fired \subseteq Servers
      /\ complete \in 0..TaskDays /\ mingled \in BOOLEAN /\ requests \in Nat
      /\ run \in [Tasks!Workers -> {None} \cup Tasks!Run] /\ today \in 1..TaskDays
  BY DEF TasksInvariant, Tasks!TypeOK
<1>2. /\ rule # None /\ requests' = requests + 1
      /\ UNCHANGED <<today, tasks, skips, lock, fired, started, freed, complete>>
  BY DEF Tasks!CompleteTask, Tasks!NewRequest
<1>3. started # 0 /\ rule.generated \in Nat /\ h \in Tasks!Workers
  BY <1>2 DEF TasksInvariant, Tasks!TypeOK, Tasks!Workers
<1>4. /\ rule' = rule \/ rule' = [rule EXCEPT !.active = FALSE]
      /\ \/ run' = run
         \/ \E S \in SUBSET Tasks!Dates :
              run' = [run EXCEPT ![h] = [stage |-> "write", day |-> today, dates |-> S,
                                         generated |-> rule.generated]]
  BY DEF Tasks!CompleteTask
<1>5. PICK r \in {None} \cup Tasks!Run : run' = [run EXCEPT ![h] = r]
  <2>1. CASE run' = run
    <3>1. run' = [run EXCEPT ![h] = run[h]] /\ run[h] \in {None} \cup Tasks!Run
      BY <1>1, <1>3, <2>1
    <3> QED BY <3>1
  <2>2. CASE run' # run
    BY <1>1, <1>3, <1>4, <2>2 DEF Tasks!Run
  <2> QED BY <2>1, <2>2
<1>6. mingled' \in BOOLEAN /\ requests' \in Nat
  BY <1>1, <1>2 DEF Tasks!CompleteTask
<1> QED BY <1>1, <1>2, <1>3, <1>4, <1>5, <1>6, TaskWorkStep

LEMMA TaskDayStep ==
  ASSUME Tasks!ConstantsAssumption, TasksInvariant, Tasks!NextDay
  PROVE  TasksInvariant'
<1>1. /\ today < TaskDays /\ today' = today + 1 /\ fired' = {}
      /\ UNCHANGED <<rule, tasks, skips, lock, run, requests, started, freed, complete, mingled>>
  BY DEF Tasks!NextDay
<1>2. today' \in 1..TaskDays
  BY <1>1 DEF TasksInvariant, Tasks!TypeOK, Tasks!ConstantsAssumption
<1>3. Tasks!TypeOK'
  BY <1>1, <1>2 DEF TasksInvariant, Tasks!TypeOK, Tasks!Stored
<1> QED BY <1>1, <1>3 DEF TasksInvariant

LEMMA TasksInvariantStep ==
  ASSUME Tasks!ConstantsAssumption, TasksInvariant, [Tasks!Next]_(Tasks!vars)
  PROVE  TasksInvariant'
<1>1. CASE \/ \E h \in Handlers : Tasks!CreateTask(h)
           \/ \E w \in Tasks!Workers : Tasks!Generate(w) \/ Tasks!Insert(w) \/ Tasks!InsertFails(w)
  BY <1>1, TaskCreateStep, TaskGenerateStep
<1>2. CASE \/ \E s \in Servers : Tasks!Fire(s) \/ Tasks!Release(s)
           \/ Tasks!LockExpires \/ Tasks!NextDay
  BY <1>2, TaskJobStep, TaskDayStep
<1>3. CASE \/ Tasks!PauseRecurring \/ \E d \in Tasks!Dates : Tasks!SkipRecurring(d)
           \/ \E d \in Tasks!Taken, scope \in {"current", "future", "all"} : Tasks!DeleteTask(d, scope)
  BY <1>3, TaskUserStep
<1>4. CASE \E d \in Tasks!Taken, h \in Handlers : Tasks!CompleteTask(h, d)
  BY <1>4, TaskCompleteStep
<1>5. CASE UNCHANGED Tasks!vars
  BY <1>5 DEF Tasks!vars, TasksInvariant, Tasks!TypeOK, Tasks!Stored
<1> QED BY <1>1, <1>2, <1>3, <1>4, <1>5 DEF Tasks!Next

LEMMA TasksInvariantInit ==
  ASSUME Tasks!ConstantsAssumption, Tasks!Init
  PROVE  TasksInvariant
<1>1. TaskDays \in Nat \ {0} /\ 1 \in 1..TaskDays /\ 0 \in 0..TaskDays
  BY DEF Tasks!ConstantsAssumption
<1> QED BY <1>1 DEF Tasks!Init, TasksInvariant, Tasks!TypeOK

\* The rule, its tasks, generations and days keep their shapes (RecurringTaskService).
THEOREM TasksTypeCorrect ==
  ASSUME Tasks!ConstantsAssumption
  PROVE  Tasks!Spec => []Tasks!TypeOK
<1>1. TasksInvariant => Tasks!TypeOK
  BY DEF TasksInvariant
<1> QED BY TasksInvariantInit, TasksInvariantStep, <1>1, PTL DEF Tasks!Spec
=============================================================================
