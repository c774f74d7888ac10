---------------------------- MODULE ServicesProofs ----------------------------
(***************************************************************************)
(* Proofs about the smaller services of MCServices, each for any constants   *)
(* that fit its assumption.  The variables of one name are of one service at  *)
(* a time, as in MCServices.                                                *)
(***************************************************************************)
EXTENDS Integers, FiniteSets, FiniteSetTheorems, WellFoundedInduction, SequenceTheorems, TLAPS

CONSTANTS Handlers, Servers, None, Keep,
          Users, Writer, Texts, Ttl, MemoRequests, MaxTicks,  \* of MemoLocks
          Targets, Limit, ReportRequests, ReportFaults,      \* of GroupReports
          Period, Day, Events, MaxTime, MaxVersions,         \* of Subscriptions
          SubscriptionRequests,
          Names, Frequents, Storages, MaxItems, MaxStock,    \* of ShoppingFridge
          ShopRequests, ShopFaults,
          AlertUnits, Recipients, AlertChanges, AlertFaults, \* of Alerts
          Recs, Creators, NewRecs, RecChanges, RecRequests,  \* of RecurringExpenses
          RecFaults, Calendar,
          Goals, NewGoals, Changes, Amounts,                 \* of SavingsGoals
          SavingsRequests, SavingsFaults,
          RoutineBadges, NewRoutines, RoutineUpdates,        \* of Routines
          RoutineDays, RoutineRequests, RoutineFaults

VARIABLES request, requests, faults, fired, run,
          memo, editLock, ticks, lease, early, blind,        \* of MemoLocks
          reports, counter, made, missed, decided, raced,    \* of GroupReports
          platform, now, store, notices, sub, user, report,  \* of Subscriptions
          restore, version, newest, bare, skewed, granted,
          cart, fridge, frequent, storages, carts, stocked,  \* of ShoppingFridge
          bought, emptied, late, twice,
          job, due, members, lock, sent, changes, runs,      \* of Alerts
          again, steady, trouble,
          today, recs, gone, expenses, up, since, crossed,   \* of RecurringExpenses
          shifted, troubled,
          goals, autoRows, jobLock, overran,                 \* of SavingsGoals
          routine, pauses, logs, earned, group, category,    \* of Routines
          misread, unjudged

Memos   == INSTANCE MemoLocks WITH Owner <- Writer, MaxRequests <- MemoRequests
Reports == INSTANCE GroupReports WITH MaxRequests <- ReportRequests, MaxFaults <- ReportFaults
Subs    == INSTANCE Subscriptions WITH MaxRequests <- SubscriptionRequests
Shop    == INSTANCE ShoppingFridge WITH MaxRequests <- ShopRequests, MaxFaults <- ShopFaults
Alert   == INSTANCE Alerts WITH
  Units <- AlertUnits, Users <- Recipients, MaxChanges <- AlertChanges,
  MaxFaults <- AlertFaults
Recurring == INSTANCE RecurringExpenses WITH
  Handlers <- Creators, Changes <- RecChanges, MaxRequests <- RecRequests,
  MaxFaults <- RecFaults
Savings == INSTANCE SavingsGoals WITH
  lock <- jobLock, MaxRequests <- SavingsRequests, MaxFaults <- SavingsFaults
Routine == INSTANCE Routines WITH
  raced <- misread, Badges <- RoutineBadges, Creations <- NewRoutines,
  Updates <- RoutineUpdates, MaxDays <- RoutineDays, MaxRequests <- RoutineRequests,
  MaxFaults <- RoutineFaults

-----------------------------------------------------------------------------
(* MemoLocks: the edit lock of a memo.                                     *)

\* What a request of a memo holds.
LEMMA MemoRequestTypes ==
  ASSUME Memos!TypeOK, NEW h \in Handlers, request[h] # None
  PROVE  /\ request[h] \in Memos!Request
         /\ request[h].user \in Users
         /\ request[h].op = "update" =>
              request[h].text \in Texts \cup {None} /\ request[h].shared \in BOOLEAN \cup {None}
         /\ request[h].op = "pin" => request[h].pinned \in BOOLEAN
<1>1. request[h] \in Memos!Request
  BY DEF Memos!TypeOK
<1> QED BY <1>1 DEF Memos!Request

\* A request that comes in, one that goes on, and one that ends.
LEMMA MemoBegins ==
  ASSUME Memos!ConstantsAssumption, Memos!TypeOK, NEW h \in Handlers, NEW r \in Memos!Request,
         Memos!Begin(h, r)
  PROVE  request' \in [Handlers -> {None} \cup Memos!Request] /\ requests' \in 0..MemoRequests
  BY DEF Memos!ConstantsAssumption, Memos!TypeOK, Memos!Begin, Memos!NewRequest

LEMMA MemoGoesOn ==
  ASSUME Memos!TypeOK, NEW h \in Handlers, NEW op, NEW stage, Memos!At(h, op, stage),
         NEW next, \/ op = "update" /\ next = "checked"
                   \/ op = "acquire" /\ next = "own",
         request' = [request EXCEPT ![h].stage = next]
  PROVE  request' \in [Handlers -> {None} \cup Memos!Request]
<1>1. /\ request \in [Handlers -> {None} \cup Memos!Request]
      /\ request[h] # None /\ request[h].op = op
  BY DEF Memos!TypeOK, Memos!At
<1>2. [request[h] EXCEPT !.stage = next] \in Memos!Request
  BY <1>1 DEF Memos!Request
<1> QED BY <1>1, <1>2

LEMMA MemoEnds ==
  ASSUME Memos!TypeOK, NEW h \in Handlers, Memos!End(h)
  PROVE  request' \in [Handlers -> {None} \cup Memos!Request] /\ early' \subseteq Handlers
  BY DEF Memos!TypeOK, Memos!End

\* Every step of the requests leaves the state well-typed.
LEMMA MemoEditType ==
  ASSUME Memos!ConstantsAssumption, Memos!TypeOK, Memos!Edit
  PROVE  Memos!TypeOK'
<1>1. ASSUME NEW h \in Handlers, NEW u \in Users, NEW t \in Texts \cup {None},
             NEW s \in BOOLEAN \cup {None}, Memos!UpdateRead(h, u, t, s)
      PROVE  Memos!TypeOK'
  <2> DEFINE r == [op |-> "update", stage |-> "read", user |-> u, text |-> t, shared |-> s]
  <2>1. r \in Memos!Request
    BY DEF Memos!Request
  <2>2. Memos!Begin(h, r)
    BY <1>1 DEF Memos!UpdateRead
  <2> QED BY <1>1, <2>1, <2>2, MemoBegins DEF Memos!UpdateRead, Memos!TypeOK
<1>2. ASSUME NEW h \in Handlers, NEW u \in Users, Memos!RemoveRead(h, u) PROVE Memos!TypeOK'
  <2> DEFINE r == [op |-> "remove", stage |-> "read", user |-> u]
  <2>1. r \in Memos!Request
    BY DEF Memos!Request
  <2>2. Memos!Begin(h, r)
    BY <1>2 DEF Memos!RemoveRead
  <2> QED BY <1>2, <2>1, <2>2, MemoBegins DEF Memos!RemoveRead, Memos!TypeOK
<1>3. ASSUME NEW h \in Handlers, NEW u \in Users, Memos!PinRead(h, u) PROVE Memos!TypeOK'
  <2> DEFINE r == [op |-> "pin", stage |-> "read", user |-> u, pinned |-> ~memo.pinned]
  <2>1. r \in Memos!Request
    BY DEF Memos!Request
  <2>2. Memos!Begin(h, r)
    BY <1>3 DEF Memos!PinRead
  <2> QED BY <1>3, <2>1, <2>2, MemoBegins DEF Memos!PinRead, Memos!TypeOK
<1>4. ASSUME NEW h \in Handlers, Memos!UpdateCheck(h) PROVE Memos!TypeOK'
  <2>1. request' \in [Handlers -> {None} \cup Memos!Request] /\ early' \subseteq Handlers
    BY <1>4, MemoGoesOn, MemoEnds DEF Memos!UpdateCheck, Memos!TypeOK
  <2> QED BY <1>4, <2>1 DEF Memos!UpdateCheck, Memos!TypeOK
<1>5. ASSUME NEW h \in Handlers, Memos!UpdateWrite(h) PROVE Memos!TypeOK'
  <2>1. request[h] # None /\ request[h].op = "update"
    BY <1>5 DEF Memos!UpdateWrite, Memos!At
  <2>2. memo' \in Memos!Memo
    BY <1>5, <2>1, MemoRequestTypes DEF Memos!UpdateWrite, Memos!TypeOK, Memos!Memo
  <2> QED BY <1>5, <2>2, MemoEnds DEF Memos!UpdateWrite, Memos!TypeOK
<1>6. ASSUME NEW h \in Handlers, Memos!RemoveWrite(h) PROVE Memos!TypeOK'
  <2>1. memo' \in Memos!Memo
    BY <1>6 DEF Memos!RemoveWrite, Memos!TypeOK, Memos!Memo
  <2> QED BY <1>6, <2>1, MemoEnds DEF Memos!RemoveWrite, Memos!TypeOK
<1>7. ASSUME NEW h \in Handlers, Memos!PinWrite(h) PROVE Memos!TypeOK'
  <2>1. request[h] # None /\ request[h].op = "pin"
    BY <1>7 DEF Memos!PinWrite, Memos!At
  <2>2. memo' \in Memos!Memo
    BY <1>7, <2>1, MemoRequestTypes DEF Memos!PinWrite, Memos!TypeOK, Memos!Memo
  <2> QED BY <1>7, <2>2, MemoEnds DEF Memos!PinWrite, Memos!TypeOK
<1> QED BY <1>1, <1>2, <1>3, <1>4, <1>5, <1>6, <1>7 DEF Memos!Edit

\* A lock with its time limit renewed, and a lease that is told to a client.
LEMMA MemoRenewed ==
  ASSUME Memos!ConstantsAssumption, Memos!TypeOK, NEW u \in Users, NEW n \in {0, Ttl}
  PROVE  /\ (IF Memos!Holds(u) THEN [editLock EXCEPT !.ttl = Ttl] ELSE editLock)
              \in {None} \cup Memos!Lock
         /\ [lease EXCEPT ![u] = n] \in [Users -> 0..Ttl]
<1>1. Ttl \in 1..Ttl /\ n \in 0..Ttl
  BY DEF Memos!ConstantsAssumption
<1>2. ASSUME Memos!Holds(u) PROVE [editLock EXCEPT !.ttl = Ttl] \in Memos!Lock
  BY <1>1, <1>2 DEF Memos!Holds, Memos!TypeOK, Memos!Lock
<1> QED BY <1>1, <1>2 DEF Memos!TypeOK

LEMMA MemoLockType ==
  ASSUME Memos!ConstantsAssumption, Memos!TypeOK, Memos!Locking
  PROVE  Memos!TypeOK'
<1>1. ASSUME NEW h \in Handlers, NEW u \in Users, Memos!Acquire(h, u) PROVE Memos!TypeOK'
  <2>1. CASE editLock = None
    <3>1. [user |-> u, ttl |-> Ttl] \in Memos!Lock /\ lease' \in [Users -> 0..Ttl]
      BY <1>1, <2>1 DEF Memos!Acquire, Memos!TypeOK, Memos!Lock, Memos!ConstantsAssumption
    <3>2. requests' \in 0..MemoRequests
      BY <1>1, <2>1 DEF Memos!Acquire, Memos!NewRequest, Memos!TypeOK,
                        Memos!ConstantsAssumption
    <3> QED BY <1>1, <2>1, <3>1, <3>2 DEF Memos!Acquire, Memos!Checked, Memos!TypeOK
  <2>2. CASE editLock # None
    <3> DEFINE r == [op |-> "acquire", stage |-> "taken", user |-> u]
    <3>1. r \in Memos!Request
      BY DEF Memos!Request
    <3>2. Memos!Begin(h, r)
      BY <1>1, <2>2 DEF Memos!Acquire
    <3> QED BY <1>1, <2>2, <3>1, <3>2, MemoBegins DEF Memos!Acquire, Memos!TypeOK
  <2> QED BY <2>1, <2>2
<1>2. ASSUME NEW h \in Handlers, Memos!AcquireLook(h) PROVE Memos!TypeOK'
  <2>1. request' \in [Handlers -> {None} \cup Memos!Request] /\ early' \subseteq Handlers
    BY <1>2, MemoGoesOn, MemoEnds DEF Memos!AcquireLook, Memos!TypeOK
  <2> QED BY <1>2, <2>1 DEF Memos!AcquireLook, Memos!TypeOK
<1>3. ASSUME NEW h \in Handlers, Memos!AcquireRenew(h) PROVE Memos!TypeOK'
  <2>1. request[h].user \in Users
    BY <1>3, MemoRequestTypes DEF Memos!AcquireRenew, Memos!At
  <2>2. editLock' \in {None} \cup Memos!Lock /\ lease' \in [Users -> 0..Ttl]
    BY <1>3, <2>1, MemoRenewed DEF Memos!AcquireRenew
  <2>3. blind' \in BOOLEAN
    BY <1>3 DEF Memos!AcquireRenew
  <2> QED BY <1>3, <2>2, <2>3, MemoEnds DEF Memos!AcquireRenew, Memos!TypeOK
<1>4. ASSUME NEW u \in Users, Memos!NewRequest PROVE requests' \in 0..MemoRequests
  BY <1>4 DEF Memos!NewRequest, Memos!TypeOK, Memos!ConstantsAssumption
<1>5. ASSUME NEW u \in Users, Memos!Heartbeat(u) PROVE Memos!TypeOK'
  <2>1. editLock' \in {None} \cup Memos!Lock /\ lease' \in [Users -> 0..Ttl]
    BY <1>5, MemoRenewed DEF Memos!Heartbeat
  <2> QED BY <1>4, <1>5, <2>1 DEF Memos!Heartbeat, Memos!TypeOK
<1>6. ASSUME NEW u \in Users, Memos!ReleaseLock(u) PROVE Memos!TypeOK'
  <2>1. lease' \in [Users -> 0..Ttl]
    BY <1>6, MemoRenewed DEF Memos!ReleaseLock
  <2> QED BY <1>4, <1>6, <2>1 DEF Memos!ReleaseLock, Memos!TypeOK
<1> QED BY <1>1, <1>2, <1>3, <1>5, <1>6 DEF Memos!Locking

LEMMA MemoTickType ==
  ASSUME Memos!ConstantsAssumption, Memos!TypeOK, Memos!Tick
  PROVE  Memos!TypeOK'
<1>1. editLock' \in {None} \cup Memos!Lock
  <2>1. CASE editLock = None \/ editLock.ttl = 1
    BY <2>1 DEF Memos!Tick
  <2>2. CASE ~(editLock = None \/ editLock.ttl = 1)
    <3>1. editLock \in Memos!Lock /\ editLock.ttl \in 2..Ttl
      BY <2>2 DEF Memos!TypeOK, Memos!Lock, Memos!ConstantsAssumption
    <3>2. editLock.ttl - 1 \in 1..Ttl
      BY <3>1 DEF Memos!ConstantsAssumption
    <3>3. editLock' = [editLock EXCEPT !.ttl = @ - 1]
      BY <2>2 DEF Memos!Tick
    <3> QED BY <3>1, <3>2, <3>3 DEF Memos!Lock
  <2> QED BY <2>1, <2>2
<1>2. lease' \in [Users -> 0..Ttl]
  BY DEF Memos!Tick, Memos!TypeOK, Memos!ConstantsAssumption
<1>3. ticks' \in 0..MaxTicks
  BY DEF Memos!Tick, Memos!TypeOK, Memos!ConstantsAssumption
<1> QED BY <1>1, <1>2, <1>3 DEF Memos!Tick, Memos!TypeOK

LEMMA MemoTypeStep ==
  ASSUME Memos!ConstantsAssumption, Memos!TypeOK, [Memos!Next]_Memos!vars
  PROVE  Memos!TypeOK'
<1>1. CASE UNCHANGED Memos!vars
  BY <1>1 DEF Memos!vars, Memos!TypeOK
<1> QED BY <1>1, MemoEditType, MemoLockType, MemoTickType DEF Memos!Next

LEMMA MemoTypeInit == ASSUME Memos!ConstantsAssumption, Memos!Init PROVE Memos!TypeOK
<1>1. memo \in Memos!Memo
  BY DEF Memos!Init, Memos!Memo
<1>2. lease \in [Users -> 0..Ttl] /\ 0 \in 0..MemoRequests /\ 0 \in 0..MaxTicks
  BY DEF Memos!Init, Memos!ConstantsAssumption
<1> QED BY <1>1, <1>2 DEF Memos!Init, Memos!TypeOK

\* Type correctness of MemoLocks.
THEOREM MemosTypeCorrect == ASSUME Memos!ConstantsAssumption PROVE Memos!Spec => []Memos!TypeOK
  BY MemoTypeInit, MemoTypeStep, PTL DEF Memos!Spec


\* The lease a client was told of is not over before the lock that it holds, unless a
\* renewal failed unnoticed: it takes the lock to keep the leases of two clients apart.
MemoLeases ==
  \/ blind
  \/ \A u \in Users : lease[u] > 0 => Memos!Holds(u) /\ lease[u] <= editLock.ttl

\* The client v is told of a lease of n ticks.
MemoTold(v, n) == lease' = [lease EXCEPT ![v] = n]

LEMMA MemoLeasesStep ==
  ASSUME Memos!ConstantsAssumption, Memos!TypeOK, MemoLeases, [Memos!Next]_Memos!vars
  PROVE  MemoLeases'
<1>0. /\ lease \in [Users -> 0..Ttl] /\ Ttl \in Nat \ {0} /\ blind \in BOOLEAN
      /\ editLock \in {None} \cup Memos!Lock /\ None \notin Memos!Lock
      /\ \A u \in Users : lease[u] \in 0..Ttl
  BY DEF Memos!TypeOK, Memos!ConstantsAssumption
<1> DEFINE Kept == UNCHANGED <<editLock, lease, blind>>
<1>11. Memos!Edit => Kept
  BY DEF Memos!Edit, Memos!UpdateRead, Memos!RemoveRead, Memos!PinRead, Memos!UpdateCheck,
         Memos!UpdateWrite, Memos!RemoveWrite, Memos!PinWrite
<1>12. /\ \A h \in Handlers, v \in Users : Memos!Acquire(h, v) /\ editLock # None => Kept
       /\ \A h \in Handlers : Memos!AcquireLook(h) => Kept
  BY DEF Memos!Acquire, Memos!AcquireLook
<1>13. blind => blind'
  <2>1. /\ \A h \in Handlers, v \in Users : Memos!Acquire(h, v) => blind' = blind
        /\ \A h \in Handlers : Memos!AcquireRenew(h) => (blind => blind')
    BY DEF Memos!Acquire, Memos!AcquireRenew
  <2>2. \A v \in Users : Memos!Heartbeat(v) \/ Memos!ReleaseLock(v) => blind' = blind
    BY DEF Memos!Heartbeat, Memos!ReleaseLock
  <2>3. Memos!Tick \/ UNCHANGED Memos!vars => blind' = blind
    BY DEF Memos!Tick, Memos!vars
  <2> QED BY <1>11, <1>12, <2>1, <2>2, <2>3 DEF Memos!Next, Memos!Locking
<1>2. SUFFICES ASSUME ~blind, ~blind', NEW u \in Users, lease'[u] > 0
               PROVE  Memos!Holds(u)' /\ lease'[u] <= editLock'.ttl
  BY <1>13 DEF MemoLeases
<1>3. \A v \in Users : lease[v] > 0 => Memos!Holds(v) /\ lease[v] <= editLock.ttl
  BY <1>2 DEF MemoLeases
<1>1. CASE Kept
  BY <1>1, <1>2, <1>3 DEF Memos!Holds
<1> HIDE DEF Kept
<1>4. ASSUME NEW v \in Users, NEW n \in {0, Ttl}, MemoTold(v, n)
      PROVE  /\ u # v => lease[u] > 0 /\ lease'[u] = lease[u]
             /\ u = v => lease'[u] = Ttl /\ n = Ttl
  BY <1>0, <1>2, <1>4 DEF MemoTold
<1>5. ASSUME NEW v \in Users, Memos!Holds(v)
      PROVE  /\ [editLock EXCEPT !.ttl = Ttl].user = v /\ [editLock EXCEPT !.ttl = Ttl].ttl = Ttl
             /\ [editLock EXCEPT !.ttl = Ttl] # None
             /\ \A w \in Users : w # v => lease[w] = 0
  <2>1. editLock \in Memos!Lock /\ editLock.user = v
    BY <1>0, <1>5 DEF Memos!Holds
  <2>2. [editLock EXCEPT !.ttl = Ttl] \in Memos!Lock
    BY <1>0, <2>1 DEF Memos!Lock
  <2>3. \A w \in Users : w # v => lease[w] = 0
    BY <1>0, <1>3, <2>1 DEF Memos!Holds
  <2> QED BY <1>0, <2>1, <2>2, <2>3 DEF Memos!Lock
<1>6. ASSUME NEW h \in Handlers, NEW v \in Users, Memos!Acquire(h, v), editLock = None
      PROVE  Memos!Holds(u)' /\ lease'[u] <= editLock'.ttl
  <2>1. editLock' = [user |-> v, ttl |-> Ttl] /\ MemoTold(v, Ttl)
    BY <1>6 DEF Memos!Acquire, MemoTold
  <2>2. editLock' \in Memos!Lock
    BY <1>0, <2>1 DEF Memos!Lock
  <2>3. u = v
    BY <1>3, <1>4, <1>6, <2>1 DEF Memos!Holds
  <2> QED BY <1>0, <1>4, <2>1, <2>2, <2>3 DEF Memos!Holds
<1>7. ASSUME NEW h \in Handlers, Memos!AcquireRenew(h)
      PROVE  Memos!Holds(u)' /\ lease'[u] <= editLock'.ttl
  <2> DEFINE v == request[h].user
  <2>1. v \in Users /\ Memos!Holds(v)
    BY <1>2, <1>7, MemoRequestTypes DEF Memos!AcquireRenew, Memos!At
  <2>2. editLock' = [editLock EXCEPT !.ttl = Ttl] /\ MemoTold(v, Ttl)
    BY <1>7, <2>1 DEF Memos!AcquireRenew, MemoTold
  <2> HIDE DEF v
  <2>3. u = v
    BY <1>4, <1>5, <2>1, <2>2
  <2> QED BY <1>0, <1>4, <1>5, <2>1, <2>2, <2>3 DEF Memos!Holds
<1>8. ASSUME NEW v \in Users, Memos!Heartbeat(v)
      PROVE  Memos!Holds(u)' /\ lease'[u] <= editLock'.ttl
  <2>1. CASE Memos!Holds(v)
    <3>1. editLock' = [editLock EXCEPT !.ttl = Ttl] /\ MemoTold(v, Ttl)
      BY <1>8, <2>1 DEF Memos!Heartbeat, MemoTold
    <3>2. u = v
      BY <1>4, <1>5, <2>1, <3>1
    <3> QED BY <1>0, <1>4, <1>5, <2>1, <3>1, <3>2 DEF Memos!Holds
  <2>2. CASE ~Memos!Holds(v)
    <3>1. editLock' = editLock /\ MemoTold(v, 0)
      BY <1>8, <2>2 DEF Memos!Heartbeat, MemoTold
    <3> QED BY <1>0, <1>3, <1>4, <3>1 DEF Memos!Holds
  <2> QED BY <2>1, <2>2
<1>9. ASSUME NEW v \in Users, Memos!ReleaseLock(v)
      PROVE  Memos!Holds(u)' /\ lease'[u] <= editLock'.ttl
  <2>1. MemoTold(v, 0)
    BY <1>9 DEF Memos!ReleaseLock, MemoTold
  <2>4. u # v /\ lease[u] > 0 /\ lease'[u] = lease[u]
    BY <1>0, <1>4, <2>1
  <2>2. ~Memos!Holds(v)
    BY <1>5, <2>4
  <2>3. editLock' = editLock
    BY <1>9, <2>2 DEF Memos!ReleaseLock
  <2> QED BY <1>3, <2>4, <2>3 DEF Memos!Holds
<1>10. CASE Memos!Tick
  <2>1. lease[u] > 0 /\ lease'[u] = lease[u] - 1
    BY <1>0, <1>2, <1>10 DEF Memos!Tick
  <2>2. Memos!Holds(u) /\ lease[u] <= editLock.ttl
    BY <1>3, <2>1
  <2>3. editLock \in Memos!Lock /\ editLock.ttl \in 1..Ttl
    BY <1>0, <2>2 DEF Memos!Holds, Memos!Lock
  <2>4. editLock.ttl > 1
    BY <1>0, <1>2, <2>1, <2>2, <2>3
  <2>5. editLock' = [editLock EXCEPT !.ttl = @ - 1]
    BY <1>10, <2>2, <2>4 DEF Memos!Tick, Memos!Holds
  <2>6. editLock' \in Memos!Lock /\ editLock'.ttl = editLock.ttl - 1
        /\ editLock'.user = editLock.user
    BY <1>0, <2>3, <2>4, <2>5 DEF Memos!Lock
  <2> QED BY <1>0, <2>1, <2>2, <2>3, <2>6 DEF Memos!Holds
<1>14. CASE Memos!Locking
  BY <1>1, <1>6, <1>7, <1>8, <1>9, <1>12, <1>14 DEF Memos!Locking
<1>15. UNCHANGED Memos!vars => Kept
  BY DEF Memos!vars, Kept
<1> QED BY <1>1, <1>10, <1>11, <1>14, <1>15 DEF Memos!Next

\* Two clients are never both within a lease they were told of, unless a renewal failed
\* unnoticed (acquireLock, heartbeat, releaseLock and the time limit).
THEOREM OneEditorHolds ==
  ASSUME Memos!ConstantsAssumption PROVE Memos!Spec => []Memos!OneEditor
<1>1. Memos!Init => MemoLeases
  BY DEF Memos!Init, MemoLeases
<1>2. MemoLeases => Memos!OneEditor
  BY DEF MemoLeases, Memos!OneEditor, Memos!Holds
<1> QED BY <1>1, <1>2, MemosTypeCorrect, MemoLeasesStep, PTL DEF Memos!Spec

\* An edit that has looked at the lock is that of its holder, or there is none, or it looked
\* before the lock was taken.
MemoChecks ==
  \A h \in Memos!Checked :
    editLock # None /\ ~Memos!Holds(request[h].user) => h \in early

LEMMA MemoChecksStep ==
  ASSUME Memos!ConstantsAssumption, Memos!TypeOK, MemoChecks, [Memos!Next]_Memos!vars
  PROVE  MemoChecks'
<1>0. /\ request \in [Handlers -> {None} \cup Memos!Request]
      /\ editLock \in {None} \cup Memos!Lock /\ None \notin Memos!Lock /\ Ttl \in Nat \ {0}
  BY DEF Memos!TypeOK, Memos!ConstantsAssumption
<1> DEFINE SameHolder == editLock' # None => editLock # None /\ editLock'.user = editLock.user
           Others(h) == \A n \in Handlers \ {h} :
                          request'[n] = request[n] /\ (n \in early => n \in early')
\* Whoever else holds the lock, the requests that have looked at it are known: only h does
\* something, and does not get past the lock against its holder.
<1>1. ASSUME SameHolder, NEW h \in Handlers, Others(h),
             Memos!At(h, "update", "checked")' => editLock' = None \/ Memos!Holds(request[h].user)'
      PROVE  MemoChecks'
  BY <1>1 DEF MemoChecks, Memos!Checked, Memos!At, Memos!Holds
<1>2. ASSUME SameHolder, request' = request, early' = early PROVE MemoChecks'
  BY <1>2 DEF MemoChecks, Memos!Checked, Memos!At, Memos!Holds
<1>3. ASSUME NEW h \in Handlers, Memos!End(h), SameHolder PROVE MemoChecks'
  <2>1. Others(h) /\ request'[h] = None
    BY <1>0, <1>3 DEF Memos!End
  <2> QED BY <1>1, <1>3, <2>1 DEF Memos!At
<1>4. ASSUME NEW h \in Handlers, NEW r, Memos!Begin(h, r), r.op # "update" \/ r.stage = "read",
             early' = early, SameHolder
      PROVE  MemoChecks'
  <2>1. Others(h) /\ request'[h] = r
    BY <1>0, <1>4 DEF Memos!Begin
  <2> QED BY <1>1, <1>4, <2>1 DEF Memos!At
<1>5. ASSUME Memos!Edit PROVE MemoChecks'
  <2>1. editLock' = editLock /\ SameHolder
    BY <1>5 DEF Memos!Edit, Memos!UpdateRead, Memos!RemoveRead, Memos!PinRead,
                Memos!UpdateCheck, Memos!UpdateWrite, Memos!RemoveWrite, Memos!PinWrite
  <2> HIDE DEF SameHolder, Others
  <2>2. ASSUME NEW h \in Handlers, NEW u \in Users, NEW t, NEW s, Memos!UpdateRead(h, u, t, s)
        PROVE  MemoChecks'
    BY <1>4, <2>1, <2>2 DEF Memos!UpdateRead
  <2>3. ASSUME NEW h \in Handlers, NEW u \in Users,
               Memos!RemoveRead(h, u) \/ Memos!PinRead(h, u)
        PROVE  MemoChecks'
    BY <1>4, <2>1, <2>3 DEF Memos!RemoveRead, Memos!PinRead
  <2>4. ASSUME NEW h \in Handlers, Memos!UpdateCheck(h) PROVE MemoChecks'
    <3>1. CASE editLock = None \/ Memos!Holds(request[h].user)
      <4>1. /\ request' = [request EXCEPT ![h].stage = "checked"] /\ early' = early
            /\ request[h] # None /\ request[h].op = "update"
        BY <2>4, <3>1 DEF Memos!UpdateCheck, Memos!At
      <4>2. request[h] \in Memos!Request
        BY <1>0, <4>1
      <4>3. request'[h].user = request[h].user
        BY <1>0, <4>1, <4>2 DEF Memos!Request
      <4>4. Others(h)
        BY <1>0, <4>1 DEF Others
      <4> QED BY <1>1, <2>1, <3>1, <4>3, <4>4 DEF Memos!Holds
    <3>2. CASE ~(editLock = None \/ Memos!Holds(request[h].user))
      BY <1>3, <2>1, <2>4, <3>2 DEF Memos!UpdateCheck
    <3> QED BY <3>1, <3>2
  <2>5. ASSUME NEW h \in Handlers,
               Memos!UpdateWrite(h) \/ Memos!RemoveWrite(h) \/ Memos!PinWrite(h)
        PROVE  MemoChecks'
    BY <1>3, <2>1, <2>5 DEF Memos!UpdateWrite, Memos!RemoveWrite, Memos!PinWrite
  <2> QED BY <1>5, <2>2, <2>3, <2>4, <2>5 DEF Memos!Edit
<1>6. ASSUME NEW h \in Handlers, NEW u \in Users, Memos!Acquire(h, u) PROVE MemoChecks'
  <2>1. CASE editLock = None
    <3>1. request' = request /\ early' = Memos!Checked
      BY <1>6, <2>1 DEF Memos!Acquire
    <3> QED BY <3>1 DEF MemoChecks, Memos!Checked, Memos!At
  <2>2. CASE editLock # None
    BY <1>4, <1>6, <2>2 DEF Memos!Acquire
  <2> QED BY <2>1, <2>2
<1>7. ASSUME NEW h \in Handlers, Memos!AcquireLook(h) PROVE MemoChecks'
  <2>1. editLock' = editLock /\ request[h] # None /\ request[h].op = "acquire"
    BY <1>7 DEF Memos!AcquireLook, Memos!At
  <2>2. CASE request' = [request EXCEPT ![h].stage = "own"] /\ early' = early
    <3>1. request[h] \in Memos!Request
      BY <1>0, <2>1
    <3>2. Others(h) /\ request'[h].op = "acquire"
      BY <1>0, <2>1, <2>2, <3>1 DEF Memos!Request
    <3> QED BY <1>1, <2>1, <3>2 DEF Memos!At
  <2>3. CASE Memos!End(h)
    BY <1>3, <2>1, <2>3
  <2> QED BY <1>7, <2>2, <2>3 DEF Memos!AcquireLook
\* A renewed lock is its holder's.
<1>8. ASSUME editLock # None, NEW n \in Int, editLock' = [editLock EXCEPT !.ttl = n]
      PROVE  SameHolder
  BY <1>0, <1>8 DEF Memos!Lock
<1>9. ASSUME NEW h \in Handlers, Memos!AcquireRenew(h) PROVE MemoChecks'
  <2>1. SameHolder
    BY <1>0, <1>8, <1>9 DEF Memos!AcquireRenew, Memos!Holds
  <2> QED BY <1>3, <1>9, <2>1 DEF Memos!AcquireRenew
<1>10. ASSUME NEW u \in Users, Memos!Heartbeat(u) \/ Memos!ReleaseLock(u) PROVE MemoChecks'
  <2>1. SameHolder
    BY <1>0, <1>8, <1>10 DEF Memos!Heartbeat, Memos!ReleaseLock, Memos!Holds
  <2> QED BY <1>2, <1>10, <2>1 DEF Memos!Heartbeat, Memos!ReleaseLock
<1>11. ASSUME Memos!Tick PROVE MemoChecks'
  <2>1. SameHolder
    <3>1. CASE editLock = None \/ editLock.ttl = 1
      BY <1>11, <3>1 DEF Memos!Tick
    <3>2. CASE ~(editLock = None \/ editLock.ttl = 1)
      <4>1. editLock.ttl - 1 \in Int
        BY <1>0, <3>2 DEF Memos!Lock
      <4> QED BY <1>8, <1>11, <3>2, <4>1 DEF Memos!Tick
    <3> QED BY <3>1, <3>2
  <2> QED BY <1>2, <1>11, <2>1 DEF Memos!Tick
<1>12. CASE UNCHANGED Memos!vars
  BY <1>2, <1>12 DEF Memos!vars
<1> QED BY <1>5, <1>6, <1>7, <1>9, <1>10, <1>11, <1>12 DEF Memos!Next, Memos!Locking

\* While one member holds the lock another's text is not written, but by an edit that had
\* looked at the lock before it was taken (update, verifyLockOwnership).
THEOREM EditsRespectLockHolds ==
  ASSUME Memos!ConstantsAssumption PROVE Memos!Spec => Memos!EditsRespectLock
<1>1. Memos!Init => MemoChecks
  BY DEF Memos!Init, MemoChecks, Memos!Checked, Memos!At
<1>2. ASSUME MemoChecks, Memos!TypeOK, [Memos!Next]_Memos!vars
      PROVE  [Memos!RespectsLock]_Memos!vars
  <2>1. SUFFICES ASSUME NEW h \in Memos!Checked, request'[h] = None, editLock # None,
                        ~Memos!Holds(request[h].user)
                 PROVE  h \in early
    BY DEF Memos!RespectsLock
  <2> QED BY <1>2, <2>1 DEF MemoChecks
<1> QED BY <1>1, <1>2, MemosTypeCorrect, MemoChecksStep, PTL
        DEF Memos!Spec, Memos!EditsRespectLock

-----------------------------------------------------------------------------
(* GroupReports: how many reports are made, and what is decided of them.    *)

\* What a request of a report has read.
LEMMA ReportRequestTypes ==
  ASSUME Reports!TypeOK, NEW h \in Handlers, request[h] # None
  PROVE  /\ request[h] \in Reports!Request /\ request[h].target \in Targets
         /\ request[h].stage = "set" => request[h].n \in Nat
         /\ request[h].stage = "resolve" =>
              request[h].status \in Reports!Decisions \cup {"REVIEWING"}
<1>1. request[h] \in Reports!Request
  BY DEF Reports!TypeOK
<1> QED BY <1>1 DEF Reports!Request

\* A request that comes in, and one that goes on or ends.
LEMMA ReportBegins ==
  ASSUME Reports!ConstantsAssumption, Reports!TypeOK, NEW h \in Handlers,
         NEW r \in Reports!Request, Reports!Begin(h, r)
  PROVE  /\ request' \in [Handlers -> {None} \cup Reports!Request]
         /\ requests' \in 0..ReportRequests
         /\ request[h] = None /\ r # None /\ request'[h] = r
         /\ \A o \in Handlers \ {h} : request'[o] = request[o]
BY DEF Reports!ConstantsAssumption, Reports!TypeOK, Reports!Begin

LEMMA ReportGoesOn ==
  ASSUME Reports!TypeOK, NEW h \in Handlers,
         NEW r \in {None} \cup Reports!Request, request' = [request EXCEPT ![h] = r]
  PROVE  /\ request' \in [Handlers -> {None} \cup Reports!Request]
         /\ request'[h] = r /\ \A o \in Handlers \ {h} : request'[o] = request[o]
BY DEF Reports!TypeOK

\* A report that was looked at and one that was created, and the counter as read.
LEMMA ReportStages ==
  ASSUME Reports!ConstantsAssumption, Reports!TypeOK, NEW h \in Handlers
  PROVE  /\ Reports!At(h, "look") => [request[h] EXCEPT !.stage = "create"] \in Reports!Request
         /\ Reports!At(h, "create") => [request[h] EXCEPT !.stage = "count"] \in Reports!Request
         /\ Reports!At(h, "count") =>
              [stage |-> "set", target |-> request[h].target, n |-> counter + 1]
                \in Reports!Request
<1>1. ASSUME NEW stage \in {"look", "create"}, Reports!At(h, stage),
             NEW next \in {"create", "count"}
      PROVE  [request[h] EXCEPT !.stage = next] \in Reports!Request
  BY <1>1, ReportRequestTypes DEF Reports!At, Reports!Request
<1>2. Reports!At(h, "count") =>
        [stage |-> "set", target |-> request[h].target, n |-> counter + 1] \in Reports!Request
  BY ReportRequestTypes DEF Reports!At, Reports!Request, Reports!TypeOK
<1> QED BY <1>1, <1>2

LEMMA ReportsTypedStep ==
  ASSUME Reports!ConstantsAssumption, Reports!TypeOK, [Reports!Next]_Reports!vars
  PROVE  Reports!TypeOK'
<1> USE DEF Reports!ghosts
<1>1. ASSUME NEW h \in Handlers, NEW t \in Targets, Reports!Report(h, t) PROVE Reports!TypeOK'
  <2>1. [stage |-> "look", target |-> t] \in Reports!Request
    BY DEF Reports!Request
  <2>2. Reports!Begin(h, [stage |-> "look", target |-> t])
    BY <1>1 DEF Reports!Report
  <2>3. request' \in [Handlers -> {None} \cup Reports!Request] /\ requests' \in 0..ReportRequests
    BY <2>1, <2>2, ReportBegins
  <2> QED BY <1>1, <2>3 DEF Reports!Report, Reports!TypeOK
<1>2. ASSUME NEW h \in Handlers, NEW t \in Targets,
             NEW status \in Reports!Decisions \cup {"REVIEWING"},
             Reports!ResolveRead(h, t, status)
      PROVE  Reports!TypeOK'
  <2>1. [stage |-> "resolve", target |-> t, status |-> status] \in Reports!Request
    BY DEF Reports!Request
  <2>2. Reports!Begin(h, [stage |-> "resolve", target |-> t, status |-> status])
    BY <1>2 DEF Reports!ResolveRead
  <2>3. request' \in [Handlers -> {None} \cup Reports!Request] /\ requests' \in 0..ReportRequests
    BY <2>1, <2>2, ReportBegins
  <2> QED BY <1>2, <2>3 DEF Reports!ResolveRead, Reports!TypeOK
<1>3. ASSUME NEW h \in Handlers, Reports!Done(h)
      PROVE  request' \in [Handlers -> {None} \cup Reports!Request]
  BY <1>3, ReportGoesOn DEF Reports!Done
<1>4. ASSUME NEW h \in Handlers, Reports!Look(h) PROVE Reports!TypeOK'
  <2>1. request' \in [Handlers -> {None} \cup Reports!Request]
    BY <1>3, <1>4, ReportStages, ReportGoesOn DEF Reports!Look
  <2> QED BY <1>4, <2>1 DEF Reports!Look, Reports!TypeOK
<1>5. ASSUME NEW h \in Handlers, Reports!Create(h) PROVE Reports!TypeOK'
  <2>1. request' \in [Handlers -> {None} \cup Reports!Request]
    BY <1>3, <1>5, ReportStages, ReportGoesOn DEF Reports!Create
  <2>2. reports' \in [Targets -> Reports!Statuses \cup {None}] /\ made' \in Nat
    BY <1>5 DEF Reports!Create, Reports!TypeOK, Reports!Statuses
  <2> QED BY <1>5, <2>1, <2>2 DEF Reports!Create, Reports!TypeOK
<1>6. ASSUME NEW h \in Handlers, Reports!Count(h) PROVE Reports!TypeOK'
  <2>1. request' \in [Handlers -> {None} \cup Reports!Request]
    BY <1>6, ReportStages, ReportGoesOn DEF Reports!Count
  <2> QED BY <1>6, <2>1 DEF Reports!Count, Reports!TypeOK
<1>7. ASSUME NEW h \in Handlers, Reports!SetCount(h) PROVE Reports!TypeOK'
  <2>1. request' \in [Handlers -> {None} \cup Reports!Request] /\ counter' \in Nat
    BY <1>3, <1>7, ReportRequestTypes DEF Reports!SetCount, Reports!At
  <2> QED BY <1>7, <2>1 DEF Reports!SetCount, Reports!TypeOK
<1>8. ASSUME NEW h \in Handlers, Reports!CountFails(h) PROVE Reports!TypeOK'
  <2>1. request' \in [Handlers -> {None} \cup Reports!Request]
    BY <1>3, <1>8 DEF Reports!CountFails
  <2>2. faults' \in 0..ReportFaults
    BY <1>8 DEF Reports!CountFails, Reports!TypeOK, Reports!ConstantsAssumption
  <2> QED BY <1>8, <2>1, <2>2 DEF Reports!CountFails, Reports!TypeOK
<1>9. ASSUME NEW h \in Handlers, Reports!ResolveWrite(h) PROVE Reports!TypeOK'
  <2> DEFINE r == request[h]
  <2>1. r.target \in Targets /\ r.status \in Reports!Decisions \cup {"REVIEWING"}
    BY <1>9, ReportRequestTypes DEF Reports!ResolveWrite, Reports!At
  <2>2. /\ reports' = [reports EXCEPT ![r.target] = r.status]
        /\ \/ decided' = decided
           \/ r.status \in Reports!Decisions
              /\ decided' = [decided EXCEPT ![r.target] = r.status]
    BY <1>9 DEF Reports!ResolveWrite
  <2> HIDE DEF r
  <2>3. /\ reports' \in [Targets -> Reports!Statuses \cup {None}]
        /\ decided' \in [Targets -> Reports!Decisions \cup {None}]
    BY <2>1, <2>2 DEF Reports!TypeOK, Reports!Statuses
  <2>4. request' \in [Handlers -> {None} \cup Reports!Request]
    BY <1>3, <1>9 DEF Reports!ResolveWrite
  <2> QED BY <1>9, <2>3, <2>4 DEF Reports!ResolveWrite, Reports!TypeOK
<1>10. CASE Reports!Expire
  BY <1>10 DEF Reports!Expire, Reports!TypeOK
<1>11. CASE UNCHANGED Reports!vars
  BY <1>11 DEF Reports!vars, Reports!TypeOK
<1> QED BY <1>1, <1>2, <1>4, <1>5, <1>6, <1>7, <1>8, <1>9, <1>10, <1>11 DEF Reports!Next

\* The reports, the counter in Redis and the requests have their types.
THEOREM ReportsTypeCorrect ==
  ASSUME Reports!ConstantsAssumption PROVE Reports!Spec => []Reports!TypeOK
<1>1. ASSUME Reports!Init PROVE Reports!TypeOK
  <2>1. requests \in 0..ReportRequests /\ faults \in 0..ReportFaults /\ counter \in Nat /\ made \in Nat
    BY <1>1 DEF Reports!Init, Reports!ConstantsAssumption
  <2>2. /\ reports \in [Targets -> Reports!Statuses \cup {None}]
        /\ request \in [Handlers -> {None} \cup Reports!Request]
        /\ decided \in [Targets -> Reports!Decisions \cup {None}]
    BY <1>1 DEF Reports!Init
  <2> QED BY <1>1, <2>1, <2>2 DEF Reports!Init, Reports!TypeOK
<1> QED BY <1>1, ReportsTypedStep, PTL DEF Reports!Spec


\* A report on its way alone knows what the counter holds: the number of reports made, which
\* it is about to raise.  While none is counted twice or not at all, there is one at most.
Counted ==
  missed \/
    /\ \A h, k \in Reports!Reporting : h = k
    /\ \A h \in Reports!Reporting :
         /\ counter < Limit
         /\ request[h].stage \in {"look", "create"} => made = counter
         /\ request[h].stage \in {"count", "set"} => made = counter + 1
         /\ request[h].stage = "set" => request[h].n = counter + 1
    /\ Reports!Reporting = {} => made = counter
    /\ counter <= Limit

LEMMA CountedStep ==
  ASSUME Reports!ConstantsAssumption, Reports!TypeOK, Counted, [Reports!Next]_Reports!vars
  PROVE  Counted'
<1> USE DEF Reports!ghosts
<1>0. /\ request \in [Handlers -> {None} \cup Reports!Request] /\ counter \in Nat /\ made \in Nat
      /\ Limit \in Nat
  BY DEF Reports!TypeOK, Reports!ConstantsAssumption
<1> DEFINE Others(h) == \A o \in Handlers \ {h} : request'[o] = request[o]
           In(h, stages) == request[h] # None /\ request[h].stage \in stages
\* The only report on its way goes on with what it knows, or is over.
<1>2. ASSUME missed' PROVE Counted'
  BY <1>2 DEF Counted
<1>3. ASSUME NEW h \in Handlers, ~missed, ~missed', Others(h), h \in Reports!Reporting
      PROVE  \A o \in Handlers : o \in Reports!Reporting' => o = h
  BY <1>3 DEF Counted, Reports!Reporting
<1>4. ASSUME NEW h \in Handlers, ~missed, ~missed', Others(h), h \in Reports!Reporting,
             request'[h] = None, counter' \in Nat, made' = counter', counter' <= Limit
      PROVE  Counted'
  <2>1. Reports!Reporting' = {}
    BY <1>3, <1>4 DEF Reports!Reporting
  <2> QED BY <1>4, <2>1 DEF Counted
<1>5. ASSUME NEW h \in Handlers, ~missed, ~missed', Others(h), h \in Reports!Reporting,
             request'[h] # None, request'[h].stage # "resolve", counter' = counter,
             /\ request'[h].stage \in {"look", "create"} => made' = counter
             /\ request'[h].stage \in {"count", "set"} => made' = counter + 1
             /\ request'[h].stage = "set" => request'[h].n = counter + 1
      PROVE  Counted'
  <2>1. Reports!Reporting' = {h}
    BY <1>3, <1>5 DEF Reports!Reporting
  <2>2. counter < Limit /\ counter <= Limit
    BY <1>5 DEF Counted
  <2> QED BY <1>5, <2>1, <2>2 DEF Counted
<1>6. ASSUME NEW h \in Handlers, NEW t \in Targets, Reports!Report(h, t), ~missed'
      PROVE  Counted'
  <2>1. /\ [stage |-> "look", target |-> t] \in Reports!Request
        /\ Reports!Begin(h, [stage |-> "look", target |-> t])
    BY <1>6 DEF Reports!Report, Reports!Request
  <2>2. Others(h) /\ request'[h] # None /\ request'[h].stage = "look"
    BY <2>1, ReportBegins
  <2>3. /\ ~missed /\ Reports!Reporting = {} /\ counter < Limit /\ UNCHANGED <<counter, made>>
    BY <1>6 DEF Reports!Report
  <2>4. Reports!Reporting' = {h} /\ made = counter
    BY <2>2, <2>3 DEF Reports!Reporting, Counted
  <2> QED BY <1>0, <2>2, <2>3, <2>4 DEF Counted
<1>7. ASSUME NEW h \in Handlers, Reports!Look(h), ~missed, ~missed' PROVE Counted'
  <2>1. In(h, {"look"}) /\ h \in Reports!Reporting /\ UNCHANGED <<counter, made>>
    BY <1>7 DEF Reports!Look, Reports!At, Reports!Reporting
  <2>2. made = counter /\ counter <= Limit
    BY <1>7, <2>1 DEF Counted
  <2>3. CASE request' = [request EXCEPT ![h] = None]
    <3>1. Others(h) /\ request'[h] = None
      BY <2>3, ReportGoesOn
    <3> QED BY <1>0, <1>4, <1>7, <2>1, <2>2, <3>1
  <2>4. CASE request' = [request EXCEPT ![h].stage = "create"]
    <3>1. request' = [request EXCEPT ![h] = [request[h] EXCEPT !.stage = "create"]]
      BY <1>0, <2>4
    <3>2. [request[h] EXCEPT !.stage = "create"] \in Reports!Request
          /\ [request[h] EXCEPT !.stage = "create"].stage = "create"
      BY <1>7, <2>1, ReportStages, ReportRequestTypes DEF Reports!Look, Reports!Request
    <3>3. Others(h) /\ request'[h] # None /\ request'[h].stage = "create"
      BY <3>1, <3>2, ReportGoesOn DEF Reports!ConstantsAssumption
    <3> QED BY <1>5, <1>7, <2>1, <2>2, <3>3
  <2> QED BY <1>7, <2>3, <2>4 DEF Reports!Look, Reports!Done
<1>8. ASSUME NEW h \in Handlers, Reports!Create(h), ~missed, ~missed' PROVE Counted'
  <2>1. In(h, {"create"}) /\ h \in Reports!Reporting /\ UNCHANGED counter
    BY <1>8 DEF Reports!Create, Reports!At, Reports!Reporting
  <2>2. made = counter /\ counter <= Limit
    BY <1>8, <2>1 DEF Counted
  <2>3. CASE request' = [request EXCEPT ![h] = None] /\ made' = made
    <3>1. Others(h) /\ request'[h] = None
      BY <2>3, ReportGoesOn
    <3> QED BY <1>0, <1>4, <1>8, <2>1, <2>2, <2>3, <3>1
  <2>4. CASE request' = [request EXCEPT ![h].stage = "count"] /\ made' = made + 1
    <3>1. request' = [request EXCEPT ![h] = [request[h] EXCEPT !.stage = "count"]]
      BY <1>0, <2>4
    <3>2. [request[h] EXCEPT !.stage = "count"] \in Reports!Request
          /\ [request[h] EXCEPT !.stage = "count"].stage = "count"
      BY <1>8, <2>1, ReportStages, ReportRequestTypes DEF Reports!Create, Reports!Request
    <3>3. Others(h) /\ request'[h] # None /\ request'[h].stage = "count"
      BY <3>1, <3>2, ReportGoesOn DEF Reports!ConstantsAssumption
    <3> QED BY <1>5, <1>8, <2>1, <2>2, <2>4, <3>3
  <2> QED BY <1>8, <2>3, <2>4 DEF Reports!Create, Reports!Done
<1>9. ASSUME NEW h \in Handlers, Reports!Count(h), ~missed, ~missed' PROVE Counted'
  <2> DEFINE r == [stage |-> "set", target |-> request[h].target, n |-> counter + 1]
  <2>1. /\ In(h, {"count"}) /\ h \in Reports!Reporting /\ UNCHANGED <<counter, made>>
        /\ r \in Reports!Request /\ request' = [request EXCEPT ![h] = r]
    BY <1>9, ReportStages DEF Reports!Count, Reports!At, Reports!Reporting
  <2>2. made = counter + 1
    BY <1>9, <2>1 DEF Counted
  <2>3. r # None /\ r.stage = "set" /\ r.n = counter + 1
    BY <2>1 DEF Reports!ConstantsAssumption
  <2> HIDE DEF r
  <2>4. Others(h) /\ request'[h] = r
    BY <2>1, ReportGoesOn
  <2> QED BY <1>5, <1>9, <2>1, <2>2, <2>3, <2>4
<1>10. ASSUME NEW h \in Handlers, Reports!SetCount(h), ~missed, ~missed' PROVE Counted'
  <2>1. /\ In(h, {"set"}) /\ h \in Reports!Reporting /\ UNCHANGED made
        /\ counter' = request[h].n /\ request' = [request EXCEPT ![h] = None]
    BY <1>10 DEF Reports!SetCount, Reports!At, Reports!Done, Reports!Reporting
  <2>2. made = counter + 1 /\ request[h].n = counter + 1 /\ counter < Limit
    BY <1>10, <2>1 DEF Counted
  <2>3. Others(h) /\ request'[h] = None
    BY <2>1, ReportGoesOn
  <2> QED BY <1>0, <1>4, <1>10, <2>1, <2>2, <2>3
<1>11. ASSUME Reports!Expire, ~missed' PROVE Counted'
  <2>1. Reports!Reporting = {} /\ counter' = 0 /\ made' = 0 /\ request' = request
    BY <1>11 DEF Reports!Expire
  <2>2. Reports!Reporting' = {}
    BY <2>1 DEF Reports!Reporting
  <2> QED BY <1>0, <2>1, <2>2 DEF Counted
\* Decisions are no concern of the counter.
<1>12. ASSUME NEW h \in Handlers, Others(h), UNCHANGED <<counter, made, missed>>,
              request[h] # None => request[h].stage = "resolve",
              request'[h] # None => request'[h].stage = "resolve"
       PROVE  Counted'
  <2>1. Reports!Reporting' = Reports!Reporting
    BY <1>12 DEF Reports!Reporting
  <2>2. \A o \in Reports!Reporting : request'[o] = request[o]
    BY <1>12 DEF Reports!Reporting
  <2> QED BY <1>12, <2>1, <2>2 DEF Counted
<1>13. ASSUME NEW h \in Handlers, NEW t \in Targets,
              NEW status \in Reports!Decisions \cup {"REVIEWING"},
              Reports!ResolveRead(h, t, status)
       PROVE  Counted'
  <2>1. /\ [stage |-> "resolve", target |-> t, status |-> status] \in Reports!Request
        /\ Reports!Begin(h, [stage |-> "resolve", target |-> t, status |-> status])
    BY <1>13 DEF Reports!ResolveRead, Reports!Request
  <2>2. Others(h) /\ request[h] = None /\ request'[h].stage = "resolve"
    BY <2>1, ReportBegins
  <2> QED BY <1>12, <1>13, <2>2 DEF Reports!ResolveRead
<1>14. ASSUME NEW h \in Handlers, Reports!ResolveWrite(h) PROVE Counted'
  <2>1. Others(h) /\ request'[h] = None /\ request[h].stage = "resolve"
    BY <1>14, ReportGoesOn DEF Reports!ResolveWrite, Reports!At, Reports!Done
  <2> QED BY <1>12, <1>14, <2>1 DEF Reports!ResolveWrite
<1>15. CASE UNCHANGED Reports!vars
  BY <1>15 DEF Reports!vars, Reports!Reporting, Counted
<1>16. \A h \in Handlers :
         Reports!Look(h) \/ Reports!Create(h) \/ Reports!Count(h) \/ Reports!SetCount(h)
           => missed' = missed
  BY DEF Reports!Look, Reports!Create, Reports!Count, Reports!SetCount
<1>17. \A h \in Handlers : Reports!CountFails(h) => missed'
  BY DEF Reports!CountFails
<1> QED BY <1>2, <1>6, <1>7, <1>8, <1>9, <1>10, <1>11, <1>13, <1>14, <1>15, <1>16, <1>17
        DEF Reports!Next

\* A decision on target t is on its way.
Resolving(h, t) == Reports!At(h, "resolve") /\ request[h].target = t

\* The first decision stays: until two are made at once, who decides of a target is alone, and
\* a decided one has nobody at it.
FirstStays ==
  /\ \A h \in Handlers : Reports!At(h, "resolve") => reports[request[h].target] # None
  /\ \A t \in Targets \ raced :
       /\ \A h, k \in Handlers : Resolving(h, t) /\ Resolving(k, t) => h = k
       /\ decided[t] # None =>
            reports[t] = decided[t] /\ \A h \in Handlers : ~Resolving(h, t)

LEMMA FirstStaysStep ==
  ASSUME Reports!ConstantsAssumption, Reports!TypeOK, FirstStays, [Reports!Next]_Reports!vars
  PROVE  FirstStays'
<1> USE DEF Reports!ghosts
<1>0. /\ request \in [Handlers -> {None} \cup Reports!Request]
      /\ reports \in [Targets -> Reports!Statuses \cup {None}]
      /\ decided \in [Targets -> Reports!Decisions \cup {None}]
      /\ None \notin Reports!Statuses \cup Reports!Request
      /\ Reports!Decisions \subseteq Reports!Statuses
  BY DEF Reports!TypeOK, Reports!ConstantsAssumption, Reports!Statuses
<1> DEFINE Others(h) == \A o \in Handlers \ {h} : request'[o] = request[o]
\* A report that is made decides nothing, and takes none away.
<1>1. ASSUME NEW h \in Handlers, Others(h), ~Reports!At(h, "resolve"), ~Reports!At(h, "resolve")',
             UNCHANGED <<decided, raced>>,
             \A t \in Targets : reports[t] # None => reports'[t] = reports[t]
      PROVE  FirstStays'
  <2>1. \A o \in Handlers : Reports!At(o, "resolve")' <=> Reports!At(o, "resolve")
    BY <1>1 DEF Reports!At
  <2>2. \A o \in Handlers : Reports!At(o, "resolve") =>
          request'[o] = request[o] /\ request[o].target \in Targets
    BY <1>1, ReportRequestTypes DEF Reports!At
  <2>3. \A t \in Targets : decided[t] # None => decided[t] \in Reports!Decisions
    BY <1>0
  <2>4. \A o \in Handlers, t \in Targets : Resolving(o, t)' <=> Resolving(o, t)
    BY <2>1, <2>2 DEF Resolving
  <2> QED BY <1>0, <1>1, <2>1, <2>2, <2>3, <2>4 DEF FirstStays
<1>2. ASSUME NEW h \in Handlers, NEW t \in Targets, Reports!Report(h, t) PROVE FirstStays'
  <2>1. /\ [stage |-> "look", target |-> t] \in Reports!Request
        /\ Reports!Begin(h, [stage |-> "look", target |-> t])
    BY <1>2 DEF Reports!Report, Reports!Request
  <2>2. Others(h) /\ request[h] = None /\ request'[h].stage = "look"
    BY <2>1, ReportBegins
  <2> QED BY <1>1, <1>2, <2>2 DEF Reports!Report, Reports!At
<1>3. ASSUME NEW h \in Handlers,
             \/ Reports!Look(h) \/ Reports!Create(h) \/ Reports!Count(h) \/ Reports!SetCount(h)
             \/ Reports!CountFails(h)
      PROVE  FirstStays'
  <2>1. ~Reports!At(h, "resolve") /\ UNCHANGED <<decided, raced>>
        /\ \A t \in Targets : reports[t] # None => reports'[t] = reports[t]
    BY <1>0, <1>3 DEF Reports!Look, Reports!Create, Reports!Count, Reports!SetCount,
                      Reports!CountFails, Reports!At
  <2>2. PICK r \in {None} \cup Reports!Request :
          request' = [request EXCEPT ![h] = r] /\ (r # None => r.stage # "resolve")
    <3>1. request[h] # None /\ request[h] \in Reports!Request
      BY <1>3, ReportRequestTypes DEF Reports!Look, Reports!Create, Reports!Count,
         Reports!SetCount, Reports!CountFails, Reports!At
    <3>2. \A n : [request[h] EXCEPT !.stage = n].stage = n
      BY <3>1 DEF Reports!Request
    <3>3. CASE Reports!Done(h)
      BY <3>3 DEF Reports!Done
    <3>4. CASE Reports!Look(h) /\ ~Reports!Done(h)
      BY <1>0, <3>2, <3>4, ReportStages DEF Reports!Look
    <3>5. CASE Reports!Create(h) /\ ~Reports!Done(h)
      BY <1>0, <3>2, <3>5, ReportStages DEF Reports!Create
    <3>6. CASE Reports!Count(h)
      <4> DEFINE q == [stage |-> "set", target |-> request[h].target, n |-> counter + 1]
      <4>1. q \in Reports!Request /\ request' = [request EXCEPT ![h] = q]
        BY <3>6, ReportStages DEF Reports!Count
      <4>2. q.stage = "set"
        OBVIOUS
      <4> HIDE DEF q
      <4> QED BY <4>1, <4>2
    <3> QED BY <1>3, <3>3, <3>4, <3>5, <3>6 DEF Reports!SetCount, Reports!CountFails
  <2>3. Others(h) /\ request'[h] = r
    BY <2>2, ReportGoesOn
  <2> QED BY <1>1, <2>1, <2>2, <2>3 DEF Reports!At
<1>4. ASSUME NEW h \in Handlers, NEW t \in Targets,
             NEW status \in Reports!Decisions \cup {"REVIEWING"},
             Reports!ResolveRead(h, t, status)
      PROVE  FirstStays'
  <2> DEFINE r == [stage |-> "resolve", target |-> t, status |-> status]
  <2>1. r \in Reports!Request /\ Reports!Begin(h, r) /\ r.target = t
    BY <1>4 DEF Reports!ResolveRead, Reports!Request
  <2> HIDE DEF r
  <2>2. Others(h) /\ request[h] = None /\ request'[h] = r
    BY <2>1, ReportBegins
  <2>3. /\ reports[t] # None /\ reports[t] \notin Reports!Decisions
        /\ UNCHANGED <<reports, decided>> /\ raced \subseteq raced'
        /\ \A o \in Handlers : Reports!At(o, "resolve") /\ request[o].target = t => t \in raced'
    BY <1>4 DEF Reports!ResolveRead
  <2>4. t \notin raced => decided[t] = None
    BY <1>0, <2>3 DEF FirstStays
  <2>5. \A o \in Handlers \ {h} : /\ Reports!At(o, "resolve")' <=> Reports!At(o, "resolve")
                                  /\ request'[o].target = request[o].target
    BY <2>2 DEF Reports!At
  <2>6. ~Reports!At(h, "resolve")
    BY <2>2 DEF Reports!At
  <2>7. /\ \A o \in Handlers \ {h}, u \in Targets : Resolving(o, u)' <=> Resolving(o, u)
        /\ \A u \in Targets : Resolving(h, u)' => u = t
        /\ \A o \in Handlers : Resolving(o, t) => t \in raced'
    BY <2>1, <2>2, <2>3, <2>5 DEF Resolving
  <2>8. \A o \in Handlers : Reports!At(o, "resolve")' => reports'[request'[o].target] # None
    BY <2>1, <2>2, <2>3, <2>5 DEF FirstStays
  <2>9. ASSUME NEW u \in Targets \ raced'
        PROVE  /\ \A o, k \in Handlers : Resolving(o, u)' /\ Resolving(k, u)' => o = k
               /\ decided'[u] # None =>
                    reports'[u] = decided'[u] /\ \A o \in Handlers : ~Resolving(o, u)'
    <3>1. u \in Targets \ raced
      BY <2>3, <2>9
    <3>2. CASE u = t
      <4>1. decided'[u] = None
        BY <2>3, <2>4, <3>1, <3>2
      <4>2. \A o \in Handlers \ {h} : ~Resolving(o, u)'
        BY <2>7, <2>9, <3>2
      <4> QED BY <4>1, <4>2
    <3>3. CASE u # t
      <4>1. \A o \in Handlers : Resolving(o, u)' => Resolving(o, u)
        BY <2>7, <3>3
      <4> QED BY <2>3, <3>1, <4>1 DEF FirstStays
    <3> QED BY <3>2, <3>3
  <2> QED BY <2>8, <2>9 DEF FirstStays
<1>5. ASSUME NEW h \in Handlers, Reports!ResolveWrite(h) PROVE FirstStays'
  <2> DEFINE r == request[h]
             t == r.target
  <2>1. /\ Reports!At(h, "resolve") /\ t \in Targets
        /\ r.status \in Reports!Decisions \cup {"REVIEWING"} /\ raced' = raced
    BY <1>5, ReportRequestTypes DEF Reports!ResolveWrite, Reports!At
  <2>2. /\ reports' = [reports EXCEPT ![t] = r.status]
        /\ decided' = IF r.status \in Reports!Decisions /\ decided[t] = None
                        THEN [decided EXCEPT ![t] = r.status] ELSE decided
    BY <1>5 DEF Reports!ResolveWrite
  <2>3. Others(h) /\ request'[h] = None
    BY <1>5, ReportGoesOn DEF Reports!ResolveWrite, Reports!Done
  <2>4. t \notin raced => decided[t] = None
    BY <2>1 DEF FirstStays, Resolving
  <2>5. /\ reports'[t] = r.status /\ r.status # None
        /\ \A u \in Targets \ {t} : reports'[u] = reports[u] /\ decided'[u] = decided[u]
        /\ t \notin raced => decided'[t] = None \/ decided'[t] = r.status
    BY <1>0, <2>1, <2>2, <2>4 DEF Reports!Statuses
  <2>6. \A o \in Handlers \ {h} : /\ Reports!At(o, "resolve")' <=> Reports!At(o, "resolve")
                                  /\ request'[o].target = request[o].target
    BY <2>3 DEF Reports!At
  <2>7. \A o \in Handlers : Reports!At(o, "resolve") => request[o].target \in Targets
    BY ReportRequestTypes DEF Reports!At
  <2>8. ~Reports!At(h, "resolve")'
    BY <2>3 DEF Reports!At
  <2>9. t \notin raced =>
          \A o \in Handlers \ {h} : Reports!At(o, "resolve") => request[o].target # t
    BY <2>1 DEF FirstStays, Resolving
  <2> HIDE DEF r, t
  <2>10. \A o \in Handlers : Reports!At(o, "resolve")' => reports'[request'[o].target] # None
    BY <2>5, <2>6, <2>7, <2>8 DEF FirstStays
  <2>11. ASSUME NEW u \in Targets \ raced'
         PROVE  /\ \A o, k \in Handlers : Resolving(o, u)' /\ Resolving(k, u)' => o = k
                /\ decided'[u] # None =>
                     reports'[u] = decided'[u] /\ \A o \in Handlers : ~Resolving(o, u)'
    <3>1. CASE u = t
      <4>1. t \notin raced
        BY <2>1, <2>11, <3>1
      <4>2. \A o \in Handlers : ~Resolving(o, u)'
        BY <2>6, <2>8, <2>9, <3>1, <4>1 DEF Resolving
      <4>3. decided'[u] # None => reports'[u] = decided'[u]
        BY <2>5, <3>1, <4>1
      <4> QED BY <4>2, <4>3
    <3>2. CASE u # t
      <4>1. u \in Targets \ raced /\ reports'[u] = reports[u] /\ decided'[u] = decided[u]
        BY <2>1, <2>5, <2>11, <3>2
      <4>2. \A o \in Handlers : Resolving(o, u)' => Resolving(o, u)
        BY <2>6, <2>8 DEF Resolving
      <4> QED BY <4>1, <4>2 DEF FirstStays
    <3> QED BY <3>1, <3>2
  <2> QED BY <2>10, <2>11 DEF FirstStays
<1>6. CASE Reports!Expire \/ UNCHANGED Reports!vars
  BY <1>6 DEF Reports!Expire, Reports!vars, FirstStays, Reports!At,
                 Resolving
<1> QED BY <1>2, <1>3, <1>4, <1>5, <1>6 DEF Reports!Next

\* No more than Limit reports are made before a day without one, unless two were on their
\* way at once or one could not be counted; and the first decision stays, unless two were
\* made at once (reportMember, adminResolveReport).
THEOREM ReportsBoundedHolds ==
  ASSUME Reports!ConstantsAssumption PROVE Reports!Spec => []Reports!ReportsBounded
<1>1. ASSUME Reports!Init PROVE Counted /\ FirstStays
  <2>1. Reports!Reporting = {} /\ counter = 0 /\ made = 0 /\ Limit \in Nat
    BY <1>1 DEF Reports!Init, Reports!Reporting, Reports!ConstantsAssumption
  <2>2. Counted
    BY <2>1 DEF Counted
  <2>3. FirstStays
    <3>1. /\ \A h \in Handlers : ~Reports!At(h, "resolve") /\ \A t : ~Resolving(h, t)
          /\ \A t \in Targets : decided[t] = None
      BY <1>1 DEF Reports!Init, Reports!At, Resolving
    <3> QED BY <3>1 DEF FirstStays
  <2> QED BY <2>2, <2>3
<1>2. Reports!TypeOK /\ Counted => missed \/ made <= Limit
  <2> SUFFICES ASSUME Reports!TypeOK, Counted, ~missed PROVE made <= Limit
    OBVIOUS
  <2>1. counter \in Nat /\ Limit \in Nat /\ made \in Nat
    BY DEF Reports!TypeOK, Reports!ConstantsAssumption
  <2>2. CASE Reports!Reporting = {}
    BY <2>1, <2>2 DEF Counted
  <2>3. ASSUME NEW h \in Reports!Reporting PROVE made <= Limit
    <3>1. request[h].stage \in {"look", "create", "count", "set"}
      BY <2>3 DEF Reports!Reporting, Reports!TypeOK, Reports!Request
    <3> QED BY <2>1, <2>3, <3>1 DEF Counted
  <2> QED BY <2>2, <2>3
<1>3. (missed \/ made <= Limit) /\ FirstStays => Reports!ReportsBounded
  BY DEF FirstStays, Reports!ReportsBounded
<1> QED BY <1>1, <1>2, <1>3, ReportsTypeCorrect, CountedStep, FirstStaysStep, PTL DEF Reports!Spec

-----------------------------------------------------------------------------
(* Subscriptions: what the record of a subscription says, and the tier.     *)

\* Subscriptions are typed, and the store has a version at least.
StoreTyped == Subs!TypeOK /\ Subs!Latest >= 1

Fetched == [version : 1..Subs!Latest, status : Subs!Statuses,
            event : {None} \cup 1..Subs!Latest]

\* What a store that is typed has at each version.
LEMMA StoreTypes ==
  ASSUME StoreTyped, NEW v \in 1..Subs!Latest
  PROVE  /\ store[v] \in Subs!Subscription
         /\ store[v].status \in Subs!Statuses /\ store[v].expires \in Subs!Time
         /\ store[v].at \in 1..MaxTime
<1>1. store[v] \in Subs!Subscription
  BY DEF StoreTyped, Subs!TypeOK, Subs!Latest
<1> QED BY <1>1 DEF Subs!Subscription

LEMMA StatusType ==
  ASSUME StoreTyped, NEW v \in 1..Subs!Latest PROVE Subs!Status(v) \in Subs!Statuses
BY StoreTypes DEF Subs!Status, Subs!Statuses

LEMMA TimeTypes ==
  ASSUME Subs!ConstantsAssumption, NEW t \in 1..MaxTime
  PROVE  /\ t + Period \in Subs!Time /\ t \in Subs!Time
BY DEF Subs!ConstantsAssumption, Subs!Time

\* The store gets one more version, and keeps those it has.
LEMMA StoreGrows ==
  ASSUME Subs!ConstantsAssumption, StoreTyped, NEW s \in Events, Subs!StoreEvent(s)
  PROVE  /\ store' \in Seq(Subs!Subscription) /\ Subs!Latest' = Subs!Latest + 1
         /\ \A v \in 1..Subs!Latest : store'[v] = store[v]
         /\ store'[Subs!Latest'].at = now + 1
<1> DEFINE new == [status |-> s, at |-> now + 1,
                   expires |-> IF s = "active" THEN now + 1 + Period
                               ELSE store[Subs!Latest].expires]
<1>1. now + 1 \in 1..MaxTime /\ store \in Seq(Subs!Subscription)
      /\ Subs!Latest \in 1..Subs!Latest
  BY DEF Subs!ConstantsAssumption, StoreTyped, Subs!TypeOK, Subs!StoreEvent, Subs!Latest
<1>2. now + 1 + Period \in Subs!Time /\ store[Subs!Latest].expires \in Subs!Time
  BY <1>1, StoreTypes, TimeTypes
<1>3. new \in Subs!Subscription
  BY <1>1, <1>2 DEF Subs!ConstantsAssumption, Subs!Subscription
<1>4. store' = Append(store, new) /\ new.at = now + 1
  BY DEF Subs!StoreEvent
<1> HIDE DEF new
<1> QED BY <1>1, <1>3, <1>4, AppendProperties DEF Subs!Latest

\* Writing what a store said, and the end of a subscription.
LEMMA ApplyTypes ==
  ASSUME Subs!ConstantsAssumption, StoreTyped, NEW v \in 1..Subs!Latest,
         NEW s \in Subs!Statuses,
         NEW t \in 1..MaxTime, Subs!Apply(v, s, t)
  PROVE  /\ sub' = None \/ sub' \in Subs!Subscription
         /\ user' \in [tier : Subs!Tiers, expires : {None} \cup Subs!Time, token : BOOLEAN]
         /\ version' \in 0..Subs!Latest /\ newest' \in 0..Subs!Latest
         /\ bare' \in BOOLEAN /\ granted' \in BOOLEAN
<1>1. store[v].expires \in Subs!Time /\ Subs!Latest \in Nat
  BY StoreTypes DEF StoreTyped, Subs!TypeOK, Subs!Latest
<1>2. CASE UNCHANGED <<sub, user, version, newest, bare, granted>>
  BY <1>2 DEF StoreTyped, Subs!TypeOK
<1>3. CASE /\ sub' = [status |-> s, expires |-> store[v].expires, at |-> t]
           /\ user' = [tier |-> IF s \in Subs!Entitled THEN "paid" ELSE "free",
                       expires |-> store[v].expires, token |-> TRUE]
           /\ version' = v /\ newest' = IF v > newest THEN v ELSE newest
           /\ bare' = FALSE /\ granted' = FALSE
  <2>1. sub' \in Subs!Subscription
    BY <1>1, <1>3 DEF Subs!Subscription
  <2>2. user' \in [tier : Subs!Tiers, expires : {None} \cup Subs!Time, token : BOOLEAN]
    BY <1>1, <1>3 DEF Subs!Tiers
  <2>3. version' \in 0..Subs!Latest /\ newest' \in 0..Subs!Latest
    BY <1>1, <1>3 DEF StoreTyped, Subs!TypeOK
  <2> QED BY <1>3, <2>1, <2>2, <2>3
<1> QED BY <1>2, <1>3 DEF Subs!Apply

LEMMA ExpireTypes ==
  ASSUME StoreTyped, Subs!Expire
  PROVE  /\ sub' = None \/ sub' \in Subs!Subscription
         /\ user' \in [tier : Subs!Tiers, expires : {None} \cup Subs!Time, token : BOOLEAN]
BY DEF StoreTyped, Subs!TypeOK, Subs!Expire, Subs!Subscription, Subs!Tiers, Subs!Statuses

\* What a report is, and when one is fetched.
LEMMA FetchedTypes ==
  ASSUME StoreTyped, NEW h \in Handlers, report[h] # None
  PROVE  /\ report[h].version \in 1..Subs!Latest /\ report[h].status \in Subs!Statuses
         /\ report[h].event # None => report[h].event \in 1..Subs!Latest
BY DEF StoreTyped, Subs!TypeOK

LEMMA FetchTypes ==
  ASSUME StoreTyped, NEW h \in Handlers, NEW v \in 1..Subs!Latest,
         NEW e \in {None} \cup 1..Subs!Latest,
         Subs!Fetch(h, [version |-> v, status |-> Subs!Status(v), event |-> e]),
         notices' \subseteq notices
  PROVE  StoreTyped'
<1>1. [version |-> v, status |-> Subs!Status(v), event |-> e] \in Fetched
  BY StatusType DEF Fetched
<1>2. report' \in [Handlers -> {None} \cup Fetched]
  BY <1>1 DEF StoreTyped, Subs!TypeOK, Fetched, Subs!Fetch
<1> QED BY <1>2 DEF StoreTyped, Subs!TypeOK, Subs!Fetch, Subs!ghostVars, Fetched,
    Subs!Latest

LEMMA StoreTypedStep ==
  ASSUME Subs!ConstantsAssumption, StoreTyped, [Subs!Next]_Subs!vars PROVE StoreTyped'
<1> USE DEF Subs!ghostVars, Subs!storeVars
<1>1. CASE Subs!Tick
  <2>1. now' \in 1..MaxTime
    BY <1>1 DEF Subs!ConstantsAssumption, StoreTyped, Subs!TypeOK, Subs!Tick
  <2> QED BY <1>1, <2>1 DEF StoreTyped, Subs!TypeOK, Subs!Tick, Subs!Latest
<1>2. ASSUME NEW s \in Events, Subs!StoreEvent(s) PROVE StoreTyped'
  <2> HIDE DEF Subs!ghostVars, Subs!storeVars
  <2>6. Subs!Latest' = Subs!Latest + 1 /\ store' \in Seq(Subs!Subscription)
    BY <1>2, StoreGrows
  <2>8. now' \in 1..MaxTime
    BY <1>2 DEF Subs!ConstantsAssumption, StoreTyped, Subs!TypeOK, Subs!StoreEvent
  <2>7. Subs!Latest \in Nat /\ now' \in 1..MaxTime
    BY <2>8 DEF StoreTyped, Subs!TypeOK, Subs!Latest
  <2>1. Subs!Latest \in Nat /\ Subs!Latest' = Subs!Latest + 1
        /\ store' \in Seq(Subs!Subscription)
        /\ now' \in 1..MaxTime
    BY <2>6, <2>7
  <2>2. notices' \subseteq 1..Subs!Latest'
    BY <1>2, <2>1 DEF StoreTyped, Subs!TypeOK, Subs!StoreEvent
  <2>3. report' \in [Handlers -> {None} \cup [version : 1..Subs!Latest', status : Subs!Statuses,
                                  event : {None} \cup 1..Subs!Latest']]
    <3>1. 1..Subs!Latest \subseteq 1..Subs!Latest'
      BY <2>1
    <3>2. report' = report
      BY <1>2 DEF Subs!StoreEvent
    <3> QED BY <3>1, <3>2 DEF StoreTyped, Subs!TypeOK
  <2>4. version' \in 0..Subs!Latest' /\ newest' \in 0..Subs!Latest' /\ Subs!Latest' >= 1
    BY <1>2, <2>1 DEF StoreTyped, Subs!TypeOK, Subs!StoreEvent, Subs!ghostVars
  <2>5. UNCHANGED <<platform, sub, user, report, restore, requests, bare, skewed, granted>>
    BY <1>2 DEF Subs!StoreEvent, Subs!ghostVars
  <2> QED BY <2>1, <2>2, <2>3, <2>4, <2>5 DEF StoreTyped, Subs!TypeOK
<1>3. ASSUME NEW h \in Handlers, Subs!VerifyFetch(h) PROVE StoreTyped'
  <2>1. PICK v \in 1..Subs!Latest :
          Subs!Fetch(h, [version |-> v, status |-> Subs!Status(v), event |-> None])
    BY <1>3 DEF Subs!VerifyFetch
  <2> QED BY <1>3, <2>1, FetchTypes DEF Subs!VerifyFetch
<1>10. Subs!Latest \in 1..Subs!Latest
  BY DEF StoreTyped, Subs!TypeOK, Subs!Latest
<1>4. ASSUME NEW h \in Handlers, Subs!ReconcileFetch(h) PROVE StoreTyped'
  BY <1>4, <1>10, FetchTypes DEF Subs!ReconcileFetch
<1>5. ASSUME NEW h \in Handlers, NEW n \in notices, Subs!GoogleNotice(h, n)
      PROVE StoreTyped'
  <2>1. n \in 1..Subs!Latest /\ notices' \subseteq notices
    BY <1>5 DEF StoreTyped, Subs!TypeOK, Subs!GoogleNotice
  <2>2. Subs!Fetch(h, [version |-> Subs!Latest, status |-> Subs!Status(Subs!Latest),
        event |-> n])
    BY <1>5 DEF Subs!GoogleNotice
  <2> QED BY <1>10, <2>1, <2>2, FetchTypes
<1>6. ASSUME NEW h \in Handlers, Subs!ApplyReport(h) PROVE StoreTyped'
  <2> DEFINE r == report[h]
             t == IF r.event = None THEN now ELSE store[r.event].at
  <2>1. /\ r.version \in 1..Subs!Latest /\ r.status \in Subs!Statuses /\ t \in 1..MaxTime
        /\ Subs!Apply(r.version, r.status, t)
    BY <1>6, FetchedTypes, StoreTypes DEF Subs!ApplyReport, StoreTyped, Subs!TypeOK
  <2>2. skewed' \in BOOLEAN /\ report' = [report EXCEPT ![h] = None]
        /\ UNCHANGED <<now, platform, store, notices, restore, requests>>
    BY <1>6 DEF Subs!ApplyReport
  <2> HIDE DEF r, t
  <2>3. /\ sub' = None \/ sub' \in Subs!Subscription
        /\ user' \in [tier : Subs!Tiers, expires : {None} \cup Subs!Time, token : BOOLEAN]
        /\ version' \in 0..Subs!Latest /\ newest' \in 0..Subs!Latest
        /\ bare' \in BOOLEAN /\ granted' \in BOOLEAN
    BY <2>1, ApplyTypes
  <2> QED BY <2>2, <2>3 DEF StoreTyped, Subs!TypeOK, Subs!Latest
<1>7. ASSUME NEW n \in notices, Subs!AppleNotice(n) PROVE StoreTyped'
  <2>1. n \in 1..Subs!Latest /\ notices' \subseteq notices
        /\ UNCHANGED <<now, platform, store, report, restore, requests>>
    BY <1>7 DEF Subs!AppleNotice, StoreTyped, Subs!TypeOK
  <2>2. /\ sub' = None \/ sub' \in Subs!Subscription
        /\ user' \in [tier : Subs!Tiers, expires : {None} \cup Subs!Time, token : BOOLEAN]
        /\ version' \in 0..Subs!Latest /\ newest' \in 0..Subs!Latest
        /\ bare' \in BOOLEAN /\ granted' \in BOOLEAN /\ skewed' \in BOOLEAN
    <3>1. CASE store[n].status \in {"expired", "revoked"}
      <4>1. Subs!Expire /\ version' = n /\ newest' = (IF n > newest THEN n ELSE newest)
            /\ bare' = TRUE /\ granted' = FALSE /\ skewed' = (skewed \/ n < version)
        BY <1>7, <3>1 DEF Subs!AppleNotice
      <4>2. version' \in 0..Subs!Latest /\ newest' \in 0..Subs!Latest
        BY <2>1, <4>1 DEF StoreTyped, Subs!TypeOK
      <4> QED BY <4>1, <4>2, ExpireTypes DEF StoreTyped, Subs!TypeOK
    <3>2. CASE store[n].status \notin {"expired", "revoked"}
      <4>1. Subs!Apply(n, Subs!Status(n), store[n].at) /\ skewed' \in BOOLEAN
        BY <1>7, <3>2 DEF Subs!AppleNotice, StoreTyped, Subs!TypeOK
      <4> QED BY <2>1, <4>1, ApplyTypes, StatusType, StoreTypes
    <3> QED BY <3>1, <3>2
  <2> QED BY <2>1, <2>2 DEF StoreTyped, Subs!TypeOK, Subs!Latest
<1>8. ASSUME NEW n \in notices, Subs!NoticeLost(n) PROVE StoreTyped'
  BY <1>8 DEF Subs!NoticeLost, StoreTyped, Subs!TypeOK, Subs!Latest
<1>16. Subs!NewRequest => requests' \in 0..SubscriptionRequests
  BY DEF Subs!ConstantsAssumption, Subs!NewRequest, StoreTyped, Subs!TypeOK
<1>9. CASE Subs!RestoreRead
  BY <1>9, <1>16 DEF Subs!RestoreRead, StoreTyped, Subs!TypeOK, Subs!Latest
<1>11. CASE Subs!RestoreWrite
  BY <1>11 DEF Subs!RestoreWrite, StoreTyped, Subs!TypeOK, Subs!Tiers, Subs!Latest
<1>12. now \in Subs!Time /\ now + Period \in Subs!Time
  BY TimeTypes DEF StoreTyped, Subs!TypeOK
<1>13. CASE Subs!Trial
  <2>1. user' \in [tier : Subs!Tiers, expires : {None} \cup Subs!Time, token : BOOLEAN]
    BY <1>12, <1>13 DEF Subs!Trial, StoreTyped, Subs!TypeOK, Subs!Tiers
  <2>2. requests' \in 0..SubscriptionRequests
    BY <1>13, <1>16 DEF Subs!Trial
  <2> QED BY <1>13, <2>1, <2>2 DEF Subs!Trial, StoreTyped, Subs!TypeOK, Subs!Latest
<1>14. ASSUME NEW t \in {"free", "paid"}, NEW e \in {None, now}, Subs!AdminUpdate(t, e)
       PROVE  StoreTyped'
  <2>1. user' \in [tier : Subs!Tiers, expires : {None} \cup Subs!Time, token : BOOLEAN]
    BY <1>12, <1>14 DEF Subs!AdminUpdate, StoreTyped, Subs!TypeOK, Subs!Tiers
  <2> QED BY <1>14, <1>16, <2>1 DEF Subs!AdminUpdate, StoreTyped, Subs!TypeOK, Subs!Latest
<1>15. CASE UNCHANGED Subs!vars
  BY <1>15 DEF Subs!vars, StoreTyped, Subs!TypeOK, Subs!Latest
<1> QED BY <1>1, <1>2, <1>3, <1>4, <1>5, <1>6, <1>7, <1>8, <1>9, <1>11, <1>13, <1>14, <1>15
        DEF Subs!Next, Subs!Store, Subs!Server

LEMMA StoreTypedInit ==
  ASSUME Subs!ConstantsAssumption, Subs!Init PROVE StoreTyped
<1> DEFINE first == [status |-> "active", expires |-> 1 + Period, at |-> 1]
<1>1. first \in Subs!Subscription
  BY TimeTypes DEF Subs!ConstantsAssumption, Subs!Subscription, Subs!Statuses
<1>2. store = <<first>>
  BY DEF Subs!Init
<1> HIDE DEF first
<1>3. store \in Seq(Subs!Subscription) /\ Len(store) = 1
  BY <1>1, <1>2
<1>4. now \in 1..MaxTime /\ version \in 0..Subs!Latest /\ newest \in 0..Subs!Latest
      /\ requests \in 0..SubscriptionRequests /\ Subs!Latest >= 1
  BY <1>3 DEF Subs!Init, Subs!ConstantsAssumption, Subs!Latest
<1>5. /\ user \in [tier : Subs!Tiers, expires : {None} \cup Subs!Time, token : BOOLEAN]
      /\ report \in [Handlers -> {None} \cup Fetched]
  BY DEF Subs!Init, Subs!Tiers, Fetched
<1> QED BY <1>3, <1>4, <1>5 DEF Subs!Init, StoreTyped, Subs!TypeOK, Fetched

\* The rows, the versions and the reports have their types, whatever the store does
\* (the writes of applyVerifiedPurchase, expireSubscription, verifyEmail and the admin).
THEOREM SubscriptionsTypeCorrect ==
  ASSUME Subs!ConstantsAssumption PROVE Subs!Spec => []Subs!TypeOK
<1>1. StoreTyped => Subs!TypeOK
  BY DEF StoreTyped
<1> QED BY <1>1, StoreTypedInit, StoreTypedStep, PTL DEF Subs!Spec

-----------------------------------------------------------------------------
(* Safety.                                                                 *)

\* The paid tier follows the record, unless it was given by hand; the two rows are written
\* together (applyVerifiedPurchase, expireSubscription), and alone a row only loses it.
THEOREM PaidTierIsRecordedHolds ==
  ASSUME Subs!ConstantsAssumption PROVE Subs!Spec => []Subs!PaidTierIsRecorded
<1>1. Subs!Init => Subs!PaidTierIsRecorded
  BY DEF Subs!Init, Subs!PaidTierIsRecorded
<1>2. ASSUME StoreTyped, Subs!PaidTierIsRecorded,
      [Subs!Next]_Subs!vars PROVE Subs!PaidTierIsRecorded'
  <2>1. ASSUME NEW v, NEW s, NEW t \in 1..MaxTime, v \in 1..Subs!Latest,
        s \in Subs!Statuses, Subs!Apply(v, s, t)
        PROVE  Subs!PaidTierIsRecorded'
    <3>1. CASE UNCHANGED <<sub, user, version, newest, bare, granted>>
      BY <1>2, <3>1 DEF Subs!PaidTierIsRecorded
    <3>2. CASE /\ sub' = [status |-> s, expires |-> store[v].expires, at |-> t]
               /\ user' = [tier |-> IF s \in Subs!Entitled THEN "paid" ELSE "free",
                           expires |-> store[v].expires, token |-> TRUE]
      <4>1. sub' \in Subs!Subscription
        BY <1>2, <2>1, <3>2, StoreTypes DEF Subs!Subscription
      <4>2. sub' # None /\ sub'.status = s /\ (user'.tier = "paid" => s \in Subs!Entitled)
        BY <3>2, <4>1 DEF Subs!ConstantsAssumption
      <4> QED BY <4>2 DEF Subs!PaidTierIsRecorded
    <3> QED BY <2>1, <3>1, <3>2 DEF Subs!Apply
  <2>2. ASSUME user' \in [tier : {"free", "trial"}, expires : {None} \cup Subs!Time,
        token : BOOLEAN]
        PROVE  Subs!PaidTierIsRecorded'
    BY <2>2 DEF Subs!PaidTierIsRecorded
  <2>3. ASSUME NEW h \in Handlers, Subs!ApplyReport(h) PROVE Subs!PaidTierIsRecorded'
    <3> DEFINE r == report[h]
               t == IF r.event = None THEN now ELSE store[r.event].at
    <3>1. /\ r.version \in 1..Subs!Latest /\ r.status \in Subs!Statuses /\ t \in 1..MaxTime
          /\ Subs!Apply(r.version, r.status, t)
      BY <1>2, <2>3, FetchedTypes, StoreTypes DEF Subs!ApplyReport, StoreTyped, Subs!TypeOK
    <3> QED BY <2>1, <3>1
  <2>4. ASSUME NEW n \in notices, Subs!AppleNotice(n) PROVE Subs!PaidTierIsRecorded'
    <3>1. n \in 1..Subs!Latest
      BY <1>2 DEF StoreTyped, Subs!TypeOK
    <3>2. CASE store[n].status \in {"expired", "revoked"}
      <4>1. Subs!Expire
        BY <2>4, <3>2 DEF Subs!AppleNotice
      <4> QED BY <1>2, <2>2, <4>1 DEF Subs!Expire, StoreTyped, Subs!TypeOK
    <3>3. CASE store[n].status \notin {"expired", "revoked"}
      BY <1>2, <2>1, <2>4, <3>1, <3>3, StatusType, StoreTypes DEF Subs!AppleNotice
    <3> QED BY <3>2, <3>3
  <2>5. CASE Subs!RestoreWrite
    BY <1>2, <2>2, <2>5 DEF Subs!RestoreWrite, StoreTyped, Subs!TypeOK
  <2>6. CASE Subs!Trial
    <3>1. now + Period \in Subs!Time
      BY <1>2, TimeTypes DEF StoreTyped, Subs!TypeOK
    <3> QED BY <1>2, <2>2, <2>6, <3>1 DEF Subs!Trial, StoreTyped, Subs!TypeOK
  <2>7. ASSUME NEW t, NEW e, Subs!AdminUpdate(t, e) PROVE Subs!PaidTierIsRecorded'
    BY <2>7 DEF Subs!AdminUpdate, Subs!PaidTierIsRecorded
  <2>8. ASSUME UNCHANGED <<sub, user, granted>> PROVE Subs!PaidTierIsRecorded'
    BY <1>2, <2>8 DEF Subs!PaidTierIsRecorded
  <2>9. ASSUME Subs!Tick \/ (\E s \in Events : Subs!StoreEvent(s)) \/ Subs!RestoreRead
               \/ (\E n \in notices : Subs!NoticeLost(n)) \/ UNCHANGED Subs!vars
        PROVE  Subs!PaidTierIsRecorded'
    BY <2>8, <2>9 DEF Subs!Tick, Subs!StoreEvent, Subs!RestoreRead, Subs!NoticeLost,
         Subs!vars
  <2>10. ASSUME NEW h \in Handlers,
                Subs!VerifyFetch(h) \/ Subs!ReconcileFetch(h) \/ \E n \in notices : Subs!GoogleNotice(h, n)
         PROVE  Subs!PaidTierIsRecorded'
    BY <2>8, <2>10 DEF Subs!VerifyFetch, Subs!ReconcileFetch, Subs!GoogleNotice, Subs!Fetch
  <2> QED BY <1>2, <2>3, <2>4, <2>5, <2>6, <2>7, <2>9, <2>10 DEF Subs!Next, Subs!Store,
      Subs!Server
<1>3. Subs!Init => StoreTyped
  BY StoreTypedInit
<1> QED BY <1>1, <1>2, <1>3, StoreTypedStep, PTL DEF Subs!Spec

\* The versions of the store have ever later times, of the past.
Chronological ==
  /\ \A v, w \in 1..Subs!Latest : v < w => store[v].at < store[w].at
  /\ \A v \in 1..Subs!Latest : store[v].at <= now

\* The record is of the newest version that was written, and kept its time or a later one:
\* unless the last write was a notice of the end, which keeps none.
WrittenInOrder ==
  /\ sub = None => version = 0 /\ newest = 0
  /\ ~skewed => version = newest
  /\ ~skewed /\ ~bare /\ sub # None => version \in 1..Subs!Latest
    /\ store[version].at <= sub.at

LEMMA ChronologicalStep ==
  ASSUME Subs!ConstantsAssumption, StoreTyped, Chronological,
    [Subs!Next]_Subs!vars PROVE Chronological'
<1>1. now \in Int /\ Subs!Latest \in Nat /\ \A v \in 1..Subs!Latest : store[v].at \in Int
  BY StoreTypes DEF StoreTyped, Subs!TypeOK, Subs!Latest
<1>2. ASSUME NEW s \in Events, Subs!StoreEvent(s) PROVE Chronological'
  <2>1. /\ Subs!Latest' = Subs!Latest + 1 /\ \A v \in 1..Subs!Latest : store'[v] = store[v]
        /\ store'[Subs!Latest'].at = now + 1 /\ now' = now + 1
    BY <1>2, StoreGrows DEF Subs!StoreEvent
  <2>2. \A v \in 1..Subs!Latest' : v \in 1..Subs!Latest \/ v = Subs!Latest'
    BY <1>1, <2>1
  <2> QED BY <1>1, <2>1, <2>2 DEF Chronological
<1>3. ASSUME store' = store, now' >= now, now' \in Int PROVE Chronological'
  BY <1>1, <1>3 DEF Chronological, Subs!Latest
<1>4. CASE Subs!Tick
  BY <1>1, <1>3, <1>4 DEF Subs!Tick, Subs!storeVars
<1>5. CASE Subs!Server
  <2>1. \A h \in Handlers :
          Subs!VerifyFetch(h) \/ Subs!ReconcileFetch(h) \/ Subs!ApplyReport(h)
          \/ (\E n \in notices : Subs!GoogleNotice(h, n)) => UNCHANGED <<store, now>>
    BY DEF Subs!VerifyFetch, Subs!ReconcileFetch, Subs!GoogleNotice, Subs!Fetch,
         Subs!ApplyReport, Subs!storeVars
  <2>2. \A n \in notices : Subs!AppleNotice(n) \/ Subs!NoticeLost(n) => UNCHANGED <<store,
        now>>
    BY DEF Subs!AppleNotice, Subs!NoticeLost
  <2>3. Subs!RestoreRead \/ Subs!RestoreWrite \/ Subs!Trial \/ (\E t,
        e : Subs!AdminUpdate(t, e))
        => UNCHANGED <<store, now>>
    BY DEF Subs!RestoreRead, Subs!RestoreWrite, Subs!Trial, Subs!AdminUpdate, Subs!storeVars
  <2>4. UNCHANGED <<store, now>>
    BY <1>5, <2>1, <2>2, <2>3 DEF Subs!Server
  <2> QED BY <1>1, <1>3, <2>4
<1>6. CASE UNCHANGED Subs!vars
  BY <1>1, <1>3, <1>6 DEF Subs!vars, Subs!storeVars
<1> QED BY <1>2, <1>4, <1>5, <1>6 DEF Subs!Next, Subs!Store

\* A write that is not of an older version than the one before.
LEMMA AppliedInOrder ==
  ASSUME Subs!ConstantsAssumption, StoreTyped, WrittenInOrder, NEW v \in 1..Subs!Latest,
         NEW s \in Subs!Statuses,
         NEW t \in 1..MaxTime, Subs!Apply(v, s, t), store' = store,
         skewed => skewed',
         ~skewed' => store[v].at <= t,
         ~skewed' /\ ~(sub # None /\ sub.at > t) => v >= version
  PROVE  WrittenInOrder'
<1>1. version \in Int /\ newest \in Int /\ Subs!Latest' = Subs!Latest
  BY DEF StoreTyped, Subs!TypeOK, Subs!Latest
<1>2. CASE sub # None /\ sub.at > t
  BY <1>1, <1>2 DEF Subs!Apply, WrittenInOrder
<1>3. CASE ~(sub # None /\ sub.at > t)
  <2>1. /\ sub' = [status |-> s, expires |-> store[v].expires, at |-> t]
        /\ version' = v /\ newest' = IF v > newest THEN v ELSE newest
    BY <1>3 DEF Subs!Apply
  <2>2. sub' \in Subs!Subscription /\ sub'.at = t
    BY <2>1, StoreTypes DEF Subs!Subscription
  <2>3. sub' # None
    BY <2>2 DEF Subs!ConstantsAssumption
  <2>4. ~skewed' => v >= newest
    BY <1>3 DEF WrittenInOrder
  <2>5. ~skewed' => version' = newest'
    BY <1>1, <2>1, <2>4
  <2> QED BY <1>1, <2>1, <2>2, <2>3, <2>5 DEF WrittenInOrder
<1> QED BY <1>2, <1>3

LEMMA WrittenInOrderStep ==
  ASSUME Subs!ConstantsAssumption, StoreTyped, Chronological, WrittenInOrder,
    [Subs!Next]_Subs!vars
  PROVE  WrittenInOrder'
<1>0. /\ version \in Int /\ newest \in Int /\ now \in 1..MaxTime /\ Subs!Latest \in Nat
      /\ sub # None => sub.at \in Int
  BY DEF StoreTyped, Subs!TypeOK, Subs!Latest, Subs!Subscription
<1>1. ASSUME UNCHANGED <<sub, version, newest, skewed, bare, store>> PROVE WrittenInOrder'
  BY <1>1 DEF WrittenInOrder, Subs!Latest
<1>2. ASSUME NEW s \in Events, Subs!StoreEvent(s) PROVE WrittenInOrder'
  <2>1. /\ Subs!Latest' = Subs!Latest + 1 /\ \A v \in 1..Subs!Latest : store'[v] = store[v]
        /\ UNCHANGED <<sub, version, newest, skewed, bare>>
    BY <1>2, StoreGrows DEF Subs!StoreEvent, Subs!ghostVars
  <2> QED BY <1>0, <2>1 DEF WrittenInOrder
\* A version that is written under its own time is not older than one kept with another.
<1>3. ASSUME NEW n \in 1..Subs!Latest, ~skewed, bare => n >= version,
             ~(sub # None /\ sub.at > store[n].at)
      PROVE  n >= version
  <2>1. CASE sub = None
    BY <1>0, <2>1 DEF WrittenInOrder
  <2>2. CASE sub # None /\ ~bare
    <3>1. /\ version \in 1..Subs!Latest /\ store[version].at <= store[n].at
      BY <1>0, <1>3, <2>2, StoreTypes DEF WrittenInOrder
    <3> QED BY <1>0, <3>1, StoreTypes DEF Chronological
  <2> QED BY <1>3, <2>1, <2>2
<1>4. ASSUME NEW h \in Handlers, Subs!ApplyReport(h) PROVE WrittenInOrder'
  <2> DEFINE r == report[h]
             t == IF r.event = None THEN now ELSE store[r.event].at
  <2>1. /\ r.version \in 1..Subs!Latest /\ r.status \in Subs!Statuses /\ t \in 1..MaxTime
        /\ Subs!Apply(r.version, r.status, t) /\ store' = store
        /\ r.event # None => r.event \in 1..Subs!Latest
    BY <1>4, FetchedTypes, StoreTypes DEF Subs!ApplyReport, StoreTyped, Subs!TypeOK,
         Subs!storeVars
  <2>2. ~skewed' => /\ ~skewed
                    /\ r.event = None => r.version = Subs!Latest
                    /\ r.event # None => r.version = r.event
                    /\ bare => r.version >= version
    BY <1>0, <1>4, <2>1 DEF Subs!ApplyReport
  <2>3. ~skewed' => store[r.version].at <= t
    BY <2>1, <2>2, StoreTypes DEF Chronological
  <2>4. ~skewed' /\ ~(sub # None /\ sub.at > t) => r.version >= version
    <3>1. CASE r.event = None
      BY <1>0, <2>2, <3>1 DEF StoreTyped, Subs!TypeOK
    <3>2. CASE r.event # None
      BY <1>3, <2>1, <2>2, <3>2
    <3> QED BY <3>1, <3>2
  <2> HIDE DEF r, t
  <2>5. skewed => skewed'
    BY <2>2
  <2> QED BY <2>1, <2>3, <2>4, <2>5, AppliedInOrder
<1>5. ASSUME NEW n \in notices, Subs!AppleNotice(n) PROVE WrittenInOrder'
  <2>1. n \in 1..Subs!Latest /\ store' = store /\ sub # None /\ store[n].at \in 1..MaxTime
        /\ store[n].at \in Int
    BY <1>5, StoreTypes DEF Subs!AppleNotice, StoreTyped, Subs!TypeOK
  <2>2. CASE store[n].status \in {"expired", "revoked"}
    <3>1. /\ Subs!Expire /\ version' = n /\ newest' = (IF n > newest THEN n ELSE newest)
          /\ bare' = TRUE /\ skewed' = (skewed \/ n < version)
      BY <1>5, <2>2 DEF Subs!AppleNotice
    <3>2. sub' # None
      BY <2>1, <3>1 DEF Subs!Expire, Subs!ConstantsAssumption, StoreTyped, Subs!TypeOK,
           Subs!Subscription, Subs!Statuses
    <3>4. ~skewed' => ~skewed /\ ~(n < version)
      BY <3>1
    <3>5. ~skewed' => n >= newest
      BY <1>0, <2>1, <3>4 DEF WrittenInOrder
    <3>3. ~skewed' => version' = newest'
      BY <1>0, <2>1, <3>1, <3>5
    <3> QED BY <3>1, <3>2, <3>3 DEF WrittenInOrder
  <2>3. CASE store[n].status \notin {"expired", "revoked"}
    <3>1. Subs!Apply(n, Subs!Status(n),
          store[n].at) /\ skewed' = (skewed \/ (bare /\ n < version))
      BY <1>5, <2>3 DEF Subs!AppleNotice
    <3>4. ~skewed' => ~skewed /\ ~(bare /\ n < version)
      BY <3>1
    <3>5. ~skewed' => (bare => n >= version)
      BY <1>0, <2>1, <3>4
    <3>2. ~skewed' /\ ~(sub # None /\ sub.at > store[n].at) => n >= version
      BY <1>3, <2>1, <3>4, <3>5
    <3>6. skewed => skewed'
      BY <3>4
    <3>7. Subs!Status(n) \in Subs!Statuses /\ store[n].at <= store[n].at
      BY <2>1, StatusType
    <3> QED BY <2>1, <3>1, <3>2, <3>6, <3>7, AppliedInOrder
  <2> QED BY <2>2, <2>3
<1>6. ASSUME NEW h \in Handlers,
             Subs!VerifyFetch(h) \/ Subs!ReconcileFetch(h) \/ \E n \in notices : Subs!GoogleNotice(h, n)
      PROVE  WrittenInOrder'
  BY <1>1, <1>6 DEF Subs!VerifyFetch, Subs!ReconcileFetch, Subs!GoogleNotice, Subs!Fetch,
       Subs!ghostVars
<1>7. ASSUME Subs!Tick \/ (\E n \in notices : Subs!NoticeLost(n)) \/ UNCHANGED Subs!vars
      PROVE  WrittenInOrder'
  BY <1>1, <1>7 DEF Subs!Tick, Subs!NoticeLost, Subs!vars, Subs!storeVars, Subs!ghostVars
<1>8. ASSUME Subs!RestoreRead \/ Subs!RestoreWrite \/ Subs!Trial \/ \E t,
      e : Subs!AdminUpdate(t, e)
      PROVE  WrittenInOrder'
  BY <1>1, <1>8 DEF Subs!RestoreRead, Subs!RestoreWrite, Subs!Trial, Subs!AdminUpdate,
       Subs!storeVars, Subs!ghostVars
<1> QED BY <1>2, <1>4, <1>5, <1>6, <1>7, <1>8 DEF Subs!Next, Subs!Store, Subs!Server

\* The record is of the newest version ever written, however notices and reports are
\* reordered, repeated or lost: unless a time was not its version's, or a notice of the end
\* came out of order (applyVerifiedPurchase, lastVerifiedAt).
THEOREM RecordIsNewestHolds ==
  ASSUME Subs!ConstantsAssumption PROVE Subs!Spec => []Subs!RecordIsNewest
<1>1. Subs!Init => Chronological /\ WrittenInOrder
  BY DEF Subs!Init, Chronological, WrittenInOrder, Subs!Latest
<1>2. WrittenInOrder => Subs!RecordIsNewest
  BY DEF WrittenInOrder, Subs!RecordIsNewest
<1> QED BY <1>1, <1>2, StoreTypedInit, StoreTypedStep, ChronologicalStep,
    WrittenInOrderStep, PTL DEF Subs!Spec

-----------------------------------------------------------------------------
(* ShoppingFridge: what leaves the cart was bought.                         *)

\* A link of the fridge to a frequent item leads to one (the foreign key).
LinksExist ==
  \A s \in Shop!Stock :
    fridge[s] # None /\ fridge[s].frequent # None => frequent[fridge[s].frequent] # None

ShopTyped == Shop!TypeOK /\ LinksExist

\* The frequent item of a name.
LEMMA LinkTypes ==
  ASSUME NEW n
  PROVE  /\ Shop!LinkOf(n) \in Shop!Link
         /\ Shop!LinkOf(n) # None => frequent[Shop!LinkOf(n)] # None
<1>1. CASE \E f \in Frequents : frequent[f] # None /\ frequent[f].name = n
  <2> DEFINE g == CHOOSE f \in Frequents : frequent[f] # None /\ frequent[f].name = n
  <2>1. g \in Frequents /\ frequent[g] # None
    BY <1>1
  <2>2. Shop!LinkOf(n) = g
    BY <1>1 DEF Shop!LinkOf
  <2> HIDE DEF g
  <2> QED BY <2>1, <2>2 DEF Shop!Link
<1>2. CASE ~\E f \in Frequents : frequent[f] # None /\ frequent[f].name = n
  BY <1>2 DEF Shop!LinkOf, Shop!Link
<1> QED BY <1>1, <1>2

\* A request that comes in, and one that ends.
LEMMA ShopBegins ==
  ASSUME Shop!ConstantsAssumption, Shop!TypeOK, NEW h \in Handlers,
         NEW r \in Shop!Completion \cup Shop!Consumption, Shop!Begin(h, r)
  PROVE  /\ request' \in [Handlers -> {None} \cup Shop!Completion \cup Shop!Consumption]
         /\ requests' \in 0..ShopRequests
  BY DEF Shop!ConstantsAssumption, Shop!TypeOK, Shop!Begin, Shop!NewRequest

LEMMA ShopEnds ==
  ASSUME Shop!TypeOK, NEW h \in Handlers, Shop!End(h)
  PROVE  request' \in [Handlers -> {None} \cup Shop!Completion \cup Shop!Consumption]
  BY DEF Shop!TypeOK, Shop!End

\* What a request has read.
LEMMA ShopRequestTypes ==
  ASSUME Shop!TypeOK, NEW h \in Handlers
  PROVE  /\ Shop!At(h, "complete", "read") => request[h] \in Shop!Completion
         /\ \A stage : Shop!At(h, "consume", stage) => request[h] \in Shop!Consumption
  BY DEF Shop!TypeOK, Shop!At, Shop!Completion, Shop!Consumption

\* A new item in the fridge.
LEMMA ShelveTypes ==
  ASSUME Shop!ConstantsAssumption, ShopTyped, NEW n \in Names, NEW link \in Shop!Link,
         link # None => frequent[link] # None, Shop!Shelve(n, link),
         UNCHANGED <<frequent, storages>>
  PROVE  /\ fridge' \in [Shop!Stock -> {None} \cup Shop!FridgeItem]
         /\ stocked' \in 0..MaxStock
         /\ LinksExist'
<1>1. PICK place \in storages :
        fridge' = [fridge EXCEPT ![stocked + 1] =
                     [name |-> n, frequent |-> link, storage |-> place]]
  BY DEF Shop!Shelve
<1> DEFINE item == [name |-> n, frequent |-> link, storage |-> place]
<1>2. item \in Shop!FridgeItem /\ item.frequent = link
  BY DEF Shop!FridgeItem
<1>3. fridge \in [Shop!Stock -> {None} \cup Shop!FridgeItem]
  BY DEF ShopTyped, Shop!TypeOK
<1> HIDE DEF item
<1>4. fridge' = [fridge EXCEPT ![stocked + 1] = item]
  BY <1>1 DEF item
<1>5. LinksExist'
  BY <1>2, <1>3, <1>4 DEF ShopTyped, LinksExist
<1>6. stocked' \in 0..MaxStock
  BY DEF Shop!ConstantsAssumption, ShopTyped, Shop!TypeOK, Shop!Shelve
<1> QED BY <1>2, <1>3, <1>4, <1>5, <1>6

\* Steps of the cart leave the state well-typed.
LEMMA ShopCartTyped ==
  ASSUME Shop!ConstantsAssumption, ShopTyped, Shop!Cart PROVE ShopTyped'
<1> USE DEF Shop!fridgeVars, Shop!boughtVars
<1>0. Shop!NewRequest => requests' \in 0..ShopRequests
  BY DEF Shop!ConstantsAssumption, Shop!NewRequest, ShopTyped, Shop!TypeOK
<1>1. ASSUME NEW n \in Names \cup {None}, NEW taken \in SUBSET Shop!InCart,
             Shop!SyncCart(n, taken)
      PROVE  ShopTyped'
  <2> DEFINE left == [c \in Shop!Items |-> IF c \in taken THEN None ELSE cart[c]]
             item == [name |-> n, frequent |-> Shop!LinkOf(n)]
  <2>1. left \in [Shop!Items -> {None} \cup Shop!CartItem]
    BY DEF ShopTyped, Shop!TypeOK
  <2>2. n # None => item \in Shop!CartItem
    BY LinkTypes DEF Shop!CartItem
  <2>3. /\ n = None => cart' = left /\ carts' = carts
        /\ n # None => carts < MaxItems /\ carts' = carts + 1
                       /\ cart' = [left EXCEPT ![carts + 1] = item]
    BY <1>1 DEF Shop!SyncCart
  <2> HIDE DEF left, item
  <2>4. cart' \in [Shop!Items -> {None} \cup Shop!CartItem]
    BY <2>1, <2>2, <2>3
  <2>5. carts' \in 0..MaxItems
    BY <2>3 DEF Shop!ConstantsAssumption, ShopTyped, Shop!TypeOK
  <2> QED BY <1>0, <1>1, <2>4, <2>5 DEF Shop!SyncCart, ShopTyped, Shop!TypeOK, LinksExist,
          Shop!FridgeItem
<1>2. ASSUME NEW c \in Shop!Items, Shop!RemoveCartItem(c) PROVE ShopTyped'
  BY <1>0, <1>2 DEF Shop!RemoveCartItem, ShopTyped, Shop!TypeOK, LinksExist, Shop!FridgeItem
<1>3. ASSUME NEW c \in Shop!Items, NEW n \in Names, Shop!RenameCartItem(c, n) PROVE ShopTyped'
  <2>1. cart[c] \in Shop!CartItem
    BY <1>3 DEF Shop!RenameCartItem, Shop!InCart, ShopTyped, Shop!TypeOK
  <2>2. [cart[c] EXCEPT !.name = n] \in Shop!CartItem
    BY <2>1 DEF Shop!CartItem
  <2>3. cart' = [cart EXCEPT ![c] = [cart[c] EXCEPT !.name = n]]
    BY <1>3 DEF Shop!RenameCartItem
  <2>4. cart' \in [Shop!Items -> {None} \cup Shop!CartItem]
    BY <2>2, <2>3 DEF ShopTyped, Shop!TypeOK
  <2> QED BY <1>0, <1>3, <2>4 DEF Shop!RenameCartItem, ShopTyped, Shop!TypeOK, LinksExist,
          Shop!FridgeItem
<1>4. ASSUME NEW h \in Handlers, NEW x \in SUBSET Shop!InCart,
             NEW m \in {None} \cup Shop!InCart, Shop!CompleteRead(h, x, m)
      PROVE  ShopTyped'
  <2> DEFINE items == [c \in Shop!InCart \ x |-> cart[c]]
             moved == IF m \in Shop!InCart \ x THEN cart[m] ELSE None
             r == [op |-> "complete", stage |-> "read", excluded |-> x, items |-> items,
                   moved |-> moved]
  <2>1. \A c \in Shop!InCart : c \in Shop!Items /\ cart[c] \in Shop!CartItem
    BY DEF Shop!InCart, ShopTyped, Shop!TypeOK
  <2>2. items \in UNION {[S -> Shop!CartItem] : S \in SUBSET Shop!Items}
    <3>1. items \in [Shop!InCart \ x -> Shop!CartItem]
      BY <2>1
    <3>2. Shop!InCart \ x \in SUBSET Shop!Items
      BY <2>1
    <3> HIDE DEF items
    <3> QED BY <3>1, <3>2
  <2>3. moved \in {None} \cup Shop!CartItem /\ x \in SUBSET Shop!Items
    BY <2>1
  <2>4. Shop!Begin(h, r)
    BY <1>4 DEF Shop!CompleteRead
  <2> HIDE DEF items, moved
  <2>5. r \in Shop!Completion
    BY <2>2, <2>3 DEF Shop!Completion
  <2> HIDE DEF r
  <2>6. twice' \subseteq Shop!Items
    BY <1>4, <2>1 DEF Shop!CompleteRead, ShopTyped, Shop!TypeOK
  <2>7. UNCHANGED <<cart, carts, fridge, frequent, storages, stocked, bought, emptied, late,
                    faults>>
    BY <1>4 DEF Shop!CompleteRead
  <2> QED BY <2>4, <2>5, <2>6, <2>7, ShopBegins DEF ShopTyped, Shop!TypeOK, LinksExist,
          Shop!FridgeItem
<1>5. ASSUME NEW h \in Handlers, Shop!CompleteWrite(h) PROVE ShopTyped'
  <2>1. request[h] \in Shop!Completion
    BY <1>5, ShopRequestTypes DEF Shop!CompleteWrite, ShopTyped
  <2> DEFINE r == request[h]
  <2>2. /\ r.moved \in {None} \cup Shop!CartItem /\ r.excluded \subseteq Shop!Items
        /\ r.moved # None => r.moved.name \in Names /\ r.moved.frequent \in Shop!Link
    BY <2>1 DEF Shop!Completion, Shop!CartItem
  <2>3. UNCHANGED <<frequent, storages, carts, twice, requests, faults>>
        /\ request' \in [Handlers -> {None} \cup Shop!Completion \cup Shop!Consumption]
    BY <1>5, ShopEnds DEF Shop!CompleteWrite, ShopTyped
  <2>4. /\ fridge' \in [Shop!Stock -> {None} \cup Shop!FridgeItem]
        /\ stocked' \in 0..MaxStock /\ LinksExist'
    <3>1. CASE UNCHANGED <<fridge, stocked>>
      BY <2>3, <3>1 DEF ShopTyped, Shop!TypeOK, LinksExist
    <3>2. CASE /\ r.moved # None
               /\ r.moved.frequent # None => frequent[r.moved.frequent] # None
               /\ Shop!Shelve(r.moved.name, r.moved.frequent)
      BY <2>2, <2>3, <3>2, ShelveTypes
    <3> QED BY <1>5, <3>1, <3>2 DEF Shop!CompleteWrite
  <2>5. /\ cart' \in [Shop!Items -> {None} \cup Shop!CartItem]
        /\ bought' \in [Shop!Items -> Nat]
        /\ emptied' \subseteq Shop!Items /\ late' \subseteq Shop!Items
    <3>1. CASE UNCHANGED <<cart, bought, emptied, late>>
      BY <3>1 DEF ShopTyped, Shop!TypeOK
    <3>2. CASE /\ bought' = [c \in Shop!Items |->
                               bought[c] + IF c \in DOMAIN r.items THEN 1 ELSE 0]
               /\ cart' = [c \in Shop!Items |->
                             IF c \in Shop!Emptied(r) THEN None ELSE cart[c]]
               /\ emptied' = emptied \cup Shop!Emptied(r)
               /\ late' = late \cup (Shop!InCart \ ((DOMAIN r.items) \cup r.excluded))
      <4>1. bought' \in [Shop!Items -> Nat]
        BY <3>2 DEF ShopTyped, Shop!TypeOK
      <4>2. Shop!InCart \subseteq Shop!Items /\ Shop!Emptied(r) \subseteq Shop!Items
        BY DEF Shop!InCart, Shop!Emptied
      <4> QED BY <3>2, <4>1, <4>2 DEF ShopTyped, Shop!TypeOK
    <3> QED BY <1>5, <3>1, <3>2 DEF Shop!CompleteWrite
  <2> QED BY <2>3, <2>4, <2>5 DEF ShopTyped, Shop!TypeOK, Shop!FridgeItem
<1> QED BY <1>1, <1>2, <1>3, <1>4, <1>5 DEF Shop!Cart

\* What a request that deletes from the fridge will put into the cart.
LEMMA WantedTypes ==
  ASSUME ShopTyped, NEW taken \in SUBSET Shop!InFridge
  PROVE  Shop!Wanted(taken) \subseteq Shop!Entry
<1> SUFFICES ASSUME NEW s \in taken, fridge[s].frequent # None
             PROVE  [frequent |-> fridge[s].frequent,
                     name |-> frequent[fridge[s].frequent].name] \in Shop!Entry
  BY DEF Shop!Wanted
<1>1. s \in Shop!Stock /\ fridge[s] # None
  BY DEF Shop!InFridge
<1>2. fridge[s] \in Shop!FridgeItem
  BY <1>1 DEF ShopTyped, Shop!TypeOK
<1> DEFINE f == fridge[s].frequent
<1>3. f \in Frequents
  BY <1>2 DEF Shop!FridgeItem, Shop!Link
<1>4. frequent[f] # None
  BY <1>1 DEF ShopTyped, LinksExist
<1>5. frequent[f] \in [name : Names, autoAdd : BOOLEAN]
  BY <1>3, <1>4 DEF ShopTyped, Shop!TypeOK
<1> QED BY <1>3, <1>5 DEF Shop!Entry

\* Steps that change a request which deletes from the fridge.
LEMMA ConsumptionGoesOn ==
  ASSUME Shop!TypeOK, NEW h \in Handlers, NEW stage, Shop!At(h, "consume", stage),
         NEW r, request' = [request EXCEPT ![h] = r],
         \/ r = [request[h] EXCEPT !.stage = "restock"] /\ stage = "read"
         \/ r = [request[h] EXCEPT !.stage = "restock", !.next = None]
         \/ \E e \in request[h].todo :
              /\ stage = "restock"
              /\ \/ r = [request[h] EXCEPT !.todo = request[h].todo \ {e}]
                 \/ r = [request[h] EXCEPT !.todo = request[h].todo \ {e}, !.next = e,
                                           !.stage = "create"]
  PROVE  request' \in [Handlers -> {None} \cup Shop!Completion \cup Shop!Consumption]
<1>1. request[h] \in Shop!Consumption /\ request[h].stage = stage
  BY ShopRequestTypes DEF Shop!At
<1>2. ASSUME r = [request[h] EXCEPT !.stage = "restock"], stage = "read"
      PROVE  r \in Shop!Consumption
  BY <1>1, <1>2 DEF Shop!Consumption
<1>3. ASSUME r = [request[h] EXCEPT !.stage = "restock", !.next = None]
      PROVE  r \in Shop!Consumption
  BY <1>1, <1>3 DEF Shop!Consumption
<1>4. ASSUME NEW e \in request[h].todo, stage = "restock",
             r = [request[h] EXCEPT !.todo = request[h].todo \ {e}]
      PROVE  r \in Shop!Consumption
  BY <1>1, <1>4 DEF Shop!Consumption
<1>5. ASSUME NEW e \in request[h].todo, stage = "restock",
             r = [request[h] EXCEPT !.todo = request[h].todo \ {e}, !.next = e,
                                    !.stage = "create"]
      PROVE  r \in Shop!Consumption
  BY <1>1, <1>5 DEF Shop!Consumption
<1> QED BY <1>2, <1>3, <1>4, <1>5 DEF Shop!TypeOK

\* Steps of the fridge leave the state well-typed.
LEMMA ShopFridgeTyped ==
  ASSUME Shop!ConstantsAssumption, ShopTyped, Shop!Fridge PROVE ShopTyped'
<1> USE DEF Shop!fridgeVars, Shop!boughtVars
<1>0. Shop!NewRequest => requests' \in 0..ShopRequests
  BY DEF Shop!ConstantsAssumption, Shop!NewRequest, ShopTyped, Shop!TypeOK
<1>1. ASSUME NEW n \in Names, Shop!CreateFridgeItem(n) PROVE ShopTyped'
  <2>1. /\ fridge' \in [Shop!Stock -> {None} \cup Shop!FridgeItem]
        /\ stocked' \in 0..MaxStock /\ LinksExist'
    BY <1>1, LinkTypes, ShelveTypes DEF Shop!CreateFridgeItem
  <2> QED BY <1>0, <1>1, <2>1 DEF Shop!CreateFridgeItem, ShopTyped, Shop!TypeOK,
          Shop!FridgeItem
<1>2. ASSUME NEW s \in Shop!Stock, NEW n \in Names, Shop!RenameFridgeItem(s, n)
      PROVE  ShopTyped'
  <2> DEFINE link == Shop!LinkOf(n)
             item == [fridge[s] EXCEPT !.name = n, !.frequent = link]
  <2>1. fridge[s] \in Shop!FridgeItem
    BY <1>2 DEF Shop!RenameFridgeItem, Shop!InFridge, ShopTyped, Shop!TypeOK
  <2>2. link \in Shop!Link /\ (link # None => frequent[link] # None)
    BY LinkTypes
  <2>3. fridge' = [fridge EXCEPT ![s] = item]
    BY <1>2 DEF Shop!RenameFridgeItem, ShopTyped, Shop!TypeOK
  <2> HIDE DEF link
  <2>4. item \in Shop!FridgeItem /\ item.frequent = link
    BY <2>1, <2>2 DEF Shop!FridgeItem
  <2> HIDE DEF item
  <2>5. fridge' \in [Shop!Stock -> {None} \cup Shop!FridgeItem]
    BY <2>3, <2>4 DEF ShopTyped, Shop!TypeOK
  <2>6. LinksExist'
    BY <1>2, <2>2, <2>3, <2>4 DEF Shop!RenameFridgeItem, ShopTyped, Shop!TypeOK, LinksExist
  <2> QED BY <1>0, <1>2, <2>5, <2>6 DEF Shop!RenameFridgeItem, ShopTyped, Shop!TypeOK,
          Shop!FridgeItem
<1>3. ASSUME NEW h \in Handlers, NEW taken \in SUBSET Shop!InFridge, NEW b \in BOOLEAN,
             Shop!ConsumeRead(h, taken, b)
      PROVE  ShopTyped'
  <2> DEFINE todo == Shop!Wanted(taken)
             r == [op |-> "consume", stage |-> "read", gone |-> taken, bulk |-> b,
                   todo |-> todo, next |-> None]
  <2>1. todo \subseteq Shop!Entry
    BY WantedTypes
  <2>2. taken \subseteq Shop!Stock
    BY DEF Shop!InFridge
  <2>3. Shop!Begin(h, r)
    BY <1>3 DEF Shop!ConsumeRead
  <2> HIDE DEF todo
  <2>4. r \in Shop!Consumption
    BY <2>1, <2>2 DEF Shop!Consumption
  <2> HIDE DEF r
  <2>5. /\ request' \in [Handlers -> {None} \cup Shop!Completion \cup Shop!Consumption]
        /\ requests' \in 0..ShopRequests
    BY <2>3, <2>4, ShopBegins DEF ShopTyped
  <2> QED BY <1>3, <2>5 DEF Shop!ConsumeRead, ShopTyped, Shop!TypeOK, LinksExist,
          Shop!FridgeItem
<1>4. ASSUME NEW h \in Handlers, Shop!ConsumeDelete(h) PROVE ShopTyped'
  <2>1. request' \in [Handlers -> {None} \cup Shop!Completion \cup Shop!Consumption]
    <3>1. CASE Shop!End(h)
      BY <3>1, ShopEnds DEF ShopTyped
    <3>2. CASE request' = [request EXCEPT ![h].stage = "restock"]
      <4>1. request' = [request EXCEPT ![h] = [request[h] EXCEPT !.stage = "restock"]]
        BY <3>2
      <4> QED BY <1>4, <4>1, ConsumptionGoesOn DEF Shop!ConsumeDelete, ShopTyped
    <3> QED BY <1>4, <3>1, <3>2 DEF Shop!ConsumeDelete
  <2>2. /\ fridge' \in [Shop!Stock -> {None} \cup Shop!FridgeItem]
        /\ \A s \in Shop!Stock : fridge'[s] # None => fridge'[s] = fridge[s]
    BY <1>4 DEF Shop!ConsumeDelete, ShopTyped, Shop!TypeOK
  <2>3. frequent' = frequent
    BY <1>4 DEF Shop!ConsumeDelete
  <2>4. LinksExist'
    BY <2>2, <2>3 DEF ShopTyped, LinksExist
  <2> QED BY <1>4, <2>1, <2>2, <2>4 DEF Shop!ConsumeDelete, ShopTyped, Shop!TypeOK,
          Shop!FridgeItem
<1>5. ASSUME NEW h \in Handlers, Shop!RestockLook(h) PROVE ShopTyped'
  <2>1. PICK e \in request[h].todo :
          request' = [request EXCEPT ![h] =
            IF \E c \in Shop!InCart : cart[c].name = e.name
              THEN [request[h] EXCEPT !.todo = request[h].todo \ {e}]
              ELSE [request[h] EXCEPT !.todo = request[h].todo \ {e}, !.next = e,
                                      !.stage = "create"]]
    BY <1>5 DEF Shop!RestockLook
  <2> DEFINE r1 == [request[h] EXCEPT !.todo = request[h].todo \ {e}]
             r2 == [request[h] EXCEPT !.todo = request[h].todo \ {e}, !.next = e,
                                      !.stage = "create"]
  <2>2. request' \in [Handlers -> {None} \cup Shop!Completion \cup Shop!Consumption]
    <3>0. Shop!At(h, "consume", "restock") /\ Shop!TypeOK
      BY <1>5 DEF Shop!RestockLook, ShopTyped
    <3>1. CASE request' = [request EXCEPT ![h] = r1]
      BY <3>0, <3>1, ConsumptionGoesOn
    <3>2. CASE request' = [request EXCEPT ![h] = r2]
      BY <3>0, <3>2, ConsumptionGoesOn
    <3> QED BY <2>1, <3>1, <3>2
  <2> QED BY <1>5, <2>2 DEF Shop!RestockLook, ShopTyped, Shop!TypeOK, LinksExist,
          Shop!FridgeItem
<1>6. ASSUME NEW h \in Handlers, Shop!RestockCreate(h) PROVE ShopTyped'
  <2>0. /\ Shop!At(h, "consume", "create") /\ Shop!TypeOK
        /\ request[h] \in Shop!Consumption /\ request[h].stage = "create"
    BY <1>6, ShopRequestTypes DEF Shop!RestockCreate, ShopTyped, Shop!At
  <2> DEFINE e == request[h].next
  <2>1. e \in Shop!CartItem
    BY <2>0 DEF Shop!Consumption, Shop!Entry, Shop!CartItem, Shop!Link
  <2>2. CASE /\ carts < MaxItems
             /\ cart' = [cart EXCEPT ![carts + 1] = e]
             /\ carts' = carts + 1
             /\ request' = [request EXCEPT ![h].stage = "restock", ![h].next = None]
    <3>1. request' = [request EXCEPT ![h] = [request[h] EXCEPT !.stage = "restock",
                                                               !.next = None]]
      BY <2>0, <2>2 DEF Shop!TypeOK
    <3>2. request' \in [Handlers -> {None} \cup Shop!Completion \cup Shop!Consumption]
      BY <2>0, <3>1, ConsumptionGoesOn
    <3> HIDE DEF e
    <3>3. carts' \in 0..MaxItems
      BY <2>2 DEF Shop!ConstantsAssumption, ShopTyped, Shop!TypeOK
    <3>4. cart' = [cart EXCEPT ![carts + 1] = e]
      BY <2>2
    <3>5. cart' \in [Shop!Items -> {None} \cup Shop!CartItem]
      BY <2>1, <3>4 DEF ShopTyped, Shop!TypeOK
    <3> QED BY <1>6, <3>2, <3>3, <3>5 DEF Shop!RestockCreate, ShopTyped, Shop!TypeOK, LinksExist,
            Shop!FridgeItem
  <2>3. CASE Shop!End(h) /\ UNCHANGED <<cart, carts>>
    BY <1>6, <2>0, <2>3, ShopEnds DEF Shop!RestockCreate, ShopTyped, Shop!TypeOK, LinksExist,
       Shop!FridgeItem
  <2> QED BY <1>6, <2>2, <2>3 DEF Shop!RestockCreate
<1>7. ASSUME NEW h \in Handlers, Shop!RestockDone(h) \/ Shop!RestockCut(h) PROVE ShopTyped'
  <2>1. request' \in [Handlers -> {None} \cup Shop!Completion \cup Shop!Consumption]
    BY <1>7, ShopEnds DEF Shop!RestockDone, Shop!RestockCut, ShopTyped
  <2>2. faults' \in 0..ShopFaults
    BY <1>7 DEF Shop!RestockDone, Shop!RestockCut, ShopTyped, Shop!TypeOK,
       Shop!ConstantsAssumption
  <2>3. UNCHANGED <<cart, carts, fridge, frequent, storages, stocked, bought, emptied, late,
                    twice, requests>>
    BY <1>7 DEF Shop!RestockDone, Shop!RestockCut
  <2> QED BY <2>1, <2>2, <2>3 DEF ShopTyped, Shop!TypeOK, LinksExist, Shop!FridgeItem
<1>8. ASSUME NEW p \in Storages, Shop!DeleteStorage(p) PROVE ShopTyped'
  <2>1. storages' = storages \ {p} /\ frequent' = frequent
    BY <1>8 DEF Shop!DeleteStorage
  <2>2. ASSUME NEW s \in Shop!Stock
        PROVE  fridge'[s] # None => fridge'[s] = fridge[s] /\ fridge[s].storage # p
    <3>1. fridge'[s] = IF s \in Shop!InFridge /\ fridge[s].storage = p THEN None
                       ELSE fridge[s]
      BY <1>8 DEF Shop!DeleteStorage
    <3> QED BY <3>1 DEF Shop!InFridge
  <2>3. ASSUME NEW s \in Shop!Stock
        PROVE  fridge'[s] \in {None} \cup Shop!FridgeItem'
    <3>1. fridge[s] \in {None} \cup Shop!FridgeItem
      BY DEF ShopTyped, Shop!TypeOK
    <3> QED BY <2>1, <2>2, <3>1 DEF Shop!FridgeItem, Shop!Link
  <2>4. fridge' \in [Shop!Stock -> {None} \cup Shop!FridgeItem']
    BY <1>8, <2>3 DEF Shop!DeleteStorage
  <2>5. LinksExist'
    BY <2>1, <2>2 DEF ShopTyped, LinksExist
  <2> QED BY <1>0, <1>8, <2>4, <2>5 DEF Shop!DeleteStorage, ShopTyped, Shop!TypeOK
<1>9. ASSUME NEW f \in Frequents, NEW n \in Names, NEW a \in BOOLEAN,
             Shop!SetFrequent(f, n, a)
      PROVE  ShopTyped'
  <2> DEFINE row == [name |-> n, autoAdd |-> a]
  <2>1. row # None /\ row \in [name : Names, autoAdd : BOOLEAN]
    BY DEF Shop!ConstantsAssumption
  <2>2. frequent' = [frequent EXCEPT ![f] = row]
    BY <1>9 DEF Shop!SetFrequent
  <2> HIDE DEF row
  <2>3. /\ frequent' \in [Frequents -> {None} \cup [name : Names, autoAdd : BOOLEAN]]
        /\ \A g \in Frequents : frequent[g] # None => frequent'[g] # None
    BY <2>1, <2>2 DEF ShopTyped, Shop!TypeOK
  <2>4. fridge' = fridge
    BY <1>9 DEF Shop!SetFrequent
  <2>5. LinksExist'
    <3> SUFFICES ASSUME NEW s \in Shop!Stock, fridge[s] # None, fridge[s].frequent # None
                 PROVE  frequent'[fridge[s].frequent] # None
      BY <2>4 DEF LinksExist
    <3>1. fridge[s] \in Shop!FridgeItem /\ frequent[fridge[s].frequent] # None
      BY DEF ShopTyped, Shop!TypeOK, LinksExist
    <3> QED BY <2>3, <3>1 DEF Shop!FridgeItem, Shop!Link
  <2> QED BY <1>0, <1>9, <2>3, <2>5 DEF Shop!SetFrequent, ShopTyped, Shop!TypeOK,
          Shop!FridgeItem
<1>10. ASSUME NEW f \in Frequents, Shop!DeleteFrequent(f) PROVE ShopTyped'
  <2>1. frequent' = [frequent EXCEPT ![f] = None] /\ storages' = storages
    BY <1>10 DEF Shop!DeleteFrequent
  <2>2. cart' \in [Shop!Items -> {None} \cup Shop!CartItem]
    <3>1. ASSUME NEW c \in Shop!InCart
          PROVE  [cart[c] EXCEPT !.frequent = None] \in Shop!CartItem
      <4>1. cart[c] \in Shop!CartItem
        BY DEF Shop!InCart, ShopTyped, Shop!TypeOK
      <4> QED BY <4>1 DEF Shop!CartItem, Shop!Link
    <3> QED BY <1>10, <3>1 DEF Shop!DeleteFrequent, ShopTyped, Shop!TypeOK
  <2>3. ASSUME NEW s \in Shop!Stock, fridge'[s] # None
        PROVE  /\ fridge'[s] \in Shop!FridgeItem
               /\ fridge'[s].frequent # None => frequent'[fridge'[s].frequent] # None
    <3>1. fridge[s] # None /\ fridge[s] \in Shop!FridgeItem
      BY <1>10, <2>3 DEF Shop!DeleteFrequent, Shop!InFridge, ShopTyped, Shop!TypeOK
    <3>2. CASE fridge[s].frequent = f
      <4> DEFINE item == [fridge[s] EXCEPT !.frequent = None]
      <4>1. fridge'[s] = item
        BY <1>10, <3>1, <3>2 DEF Shop!DeleteFrequent, Shop!InFridge
      <4>2. item \in Shop!FridgeItem /\ item.frequent = None
        BY <3>1 DEF Shop!FridgeItem, Shop!Link
      <4> HIDE DEF item
      <4> QED BY <4>1, <4>2
    <3>3. CASE fridge[s].frequent # f
      <4>1. fridge'[s] = fridge[s]
        BY <1>10, <3>3 DEF Shop!DeleteFrequent
      <4>2. fridge[s].frequent # None => frequent[fridge[s].frequent] # None
        BY <3>1 DEF ShopTyped, LinksExist
      <4>3. fridge[s].frequent # None => fridge[s].frequent \in Frequents
        BY <3>1 DEF Shop!FridgeItem, Shop!Link
      <4> QED BY <2>1, <3>1, <3>3, <4>1, <4>2, <4>3 DEF ShopTyped, Shop!TypeOK
    <3> QED BY <3>2, <3>3
  <2>4. fridge' \in [Shop!Stock -> {None} \cup Shop!FridgeItem] /\ LinksExist'
    <3>1. DOMAIN fridge' = Shop!Stock /\ fridge' = [s \in Shop!Stock |-> fridge'[s]]
      BY <1>10 DEF Shop!DeleteFrequent
    <3> QED BY <2>3, <3>1 DEF LinksExist
  <2>5. frequent' \in [Frequents -> {None} \cup [name : Names, autoAdd : BOOLEAN]]
    BY <2>1 DEF ShopTyped, Shop!TypeOK
  <2> QED BY <1>0, <1>10, <2>1, <2>2, <2>4, <2>5 DEF Shop!DeleteFrequent, ShopTyped,
          Shop!TypeOK, Shop!FridgeItem
<1> QED BY <1>1, <1>2, <1>3, <1>4, <1>5, <1>6, <1>7, <1>8, <1>9, <1>10 DEF Shop!Fridge

LEMMA ShopTypedStep ==
  ASSUME Shop!ConstantsAssumption, ShopTyped, [Shop!Next]_Shop!vars PROVE ShopTyped'
<1>1. CASE UNCHANGED Shop!vars
  BY <1>1 DEF Shop!vars, Shop!fridgeVars, Shop!boughtVars, ShopTyped, Shop!TypeOK, LinksExist,
     Shop!FridgeItem
<1> QED BY <1>1, ShopCartTyped, ShopFridgeTyped DEF Shop!Next

LEMMA ShopTypedInit == ASSUME Shop!ConstantsAssumption, Shop!Init PROVE ShopTyped
<1>1. bought \in [Shop!Items -> Nat] /\ 0 \in 0..MaxItems /\ 0 \in 0..MaxStock
      /\ 0 \in 0..ShopRequests /\ 0 \in 0..ShopFaults
  BY DEF Shop!ConstantsAssumption, Shop!Init
<1> QED BY <1>1 DEF Shop!Init, ShopTyped, Shop!TypeOK, LinksExist

THEOREM ShopTypeCorrect ==
  ASSUME Shop!ConstantsAssumption PROVE Shop!Spec => []Shop!TypeOK
<1>1. ShopTyped => Shop!TypeOK
  BY DEF ShopTyped
<1> QED BY <1>1, ShopTypedInit, ShopTypedStep, PTL DEF Shop!Spec

\* A completion that is between its two steps and has read the cart item.
Reads(h, c) == Shop!At(h, "complete", "read") /\ c \in DOMAIN request[h].items

\* The inductive invariant.  An id not given yet is nowhere; what a completion excludes it
\* has not read; what was bought is out of the cart; an item that no two completions read at
\* once has one reader at most, and none once it was bought.
Purchases ==
  /\ \A c \in Shop!Items :
       c > carts => cart[c] = None /\ bought[c] = 0 /\ \A h \in Handlers : ~Reads(h, c)
  /\ \A h \in Handlers, c \in Shop!Items : Reads(h, c) => c \notin request[h].excluded
  /\ \A c \in Shop!Items : bought[c] > 0 => cart[c] = None
  /\ \A c \in Shop!Items \ twice :
       /\ bought[c] <= 1
       /\ \A h \in Handlers : Reads(h, c) => bought[c] = 0
       /\ \A g, h \in Handlers : Reads(g, c) /\ Reads(h, c) => g = h
  /\ \A c \in emptied \ late : bought[c] > 0

\* What the steps do that read and write no purchase: no completion begins, and what comes
\* into the cart has a new id.
NoPurchase ==
  /\ UNCHANGED <<bought, emptied, late, twice>>
  /\ \A h \in Handlers : Shop!At(h, "complete", "read")' => request'[h] = request[h]
  /\ carts' \in {carts, carts + 1}
  /\ \A c \in Shop!Items :
       cart'[c] # None => cart[c] # None \/ (c = carts + 1 /\ carts' = carts + 1)

LEMMA PurchasesStay ==
  ASSUME ShopTyped, Purchases, NoPurchase PROVE Purchases'
<1>1. \A h \in Handlers : \A c : Reads(h, c)' => Reads(h, c) /\ request'[h] = request[h]
  BY DEF NoPurchase, Reads, Shop!At
<1>2. carts \in Nat /\ carts' \in Nat /\ carts' >= carts
  BY DEF ShopTyped, Shop!TypeOK, NoPurchase
<1>3. UNCHANGED <<bought, emptied, late, twice>>
  BY DEF NoPurchase
<1>4. \A c \in Shop!Items : c > carts' => c > carts /\ cart'[c] = None
  <2> TAKE c \in Shop!Items
  <2> HAVE c > carts'
  <2>1. c \in Nat /\ c > carts /\ ~(c = carts + 1 /\ carts' = carts + 1)
    BY <1>2 DEF Shop!Items
  <2>2. cart[c] = None
    BY <2>1 DEF Purchases
  <2> QED BY <2>1, <2>2 DEF NoPurchase
<1>5. \A c \in Shop!Items : bought[c] > 0 => cart'[c] = None
  <2> TAKE c \in Shop!Items
  <2> HAVE bought[c] > 0
  <2>1. cart[c] = None /\ c <= carts
    BY <1>2 DEF Purchases, Shop!Items
  <2>2. ~(c = carts + 1)
    BY <1>2, <2>1 DEF Shop!Items
  <2> QED BY <2>1, <2>2 DEF NoPurchase
<1>6. \A c \in Shop!Items : c > carts' => bought[c] = 0 /\ \A h \in Handlers : ~Reads(h, c)'
  BY <1>1, <1>4 DEF Purchases
<1>7. \A h \in Handlers, c \in Shop!Items : Reads(h, c)' => c \notin request'[h].excluded
  BY <1>1 DEF Purchases
<1>8. \A c \in Shop!Items \ twice :
        /\ bought[c] <= 1
        /\ \A h \in Handlers : Reads(h, c)' => bought[c] = 0
        /\ \A g, h \in Handlers : Reads(g, c)' /\ Reads(h, c)' => g = h
  BY <1>1 DEF Purchases
<1>9. \A c \in emptied \ late : bought[c] > 0
  BY DEF Purchases
<1> QED BY <1>3, <1>4, <1>5, <1>6, <1>7, <1>8, <1>9 DEF Purchases

\* Steps of a request that deletes from the fridge begin no completion.
LEMMA ConsumptionReadsNothing ==
  ASSUME Shop!TypeOK, NEW h \in Handlers,
         \/ request' = [request EXCEPT ![h] = None]
         \/ \E r : r.op = "consume" /\ request' = [request EXCEPT ![h] = r]
  PROVE  \A g \in Handlers : Shop!At(g, "complete", "read")' => request'[g] = request[g]
BY DEF Shop!TypeOK, Shop!At

LEMMA PurchasesCart ==
  ASSUME Shop!ConstantsAssumption, ShopTyped, Purchases, Shop!Cart PROVE Purchases'
<1> USE DEF Shop!fridgeVars, Shop!boughtVars
<1>0. carts \in Nat /\ bought \in [Shop!Items -> Nat]
  BY DEF ShopTyped, Shop!TypeOK
<1>1. ASSUME NEW n \in Names \cup {None}, NEW taken \in SUBSET Shop!InCart,
             Shop!SyncCart(n, taken)
      PROVE  Purchases'
  <2> DEFINE left == [c \in Shop!Items |-> IF c \in taken THEN None ELSE cart[c]]
             item == [name |-> n, frequent |-> Shop!LinkOf(n)]
  <2>1. \A c \in Shop!Items : left[c] # None => cart[c] # None
    OBVIOUS
  <2>2. /\ n = None => cart' = left /\ carts' = carts
        /\ n # None => carts' = carts + 1 /\ cart' = [left EXCEPT ![carts + 1] = item]
        /\ UNCHANGED <<bought, emptied, late, twice, request>>
    BY <1>1 DEF Shop!SyncCart
  <2>3. DOMAIN left = Shop!Items
    OBVIOUS
  <2> HIDE DEF left, item
  <2>4. NoPurchase
    BY <2>1, <2>2, <2>3 DEF NoPurchase
  <2> QED BY <2>4, PurchasesStay
<1>2. ASSUME NEW c \in Shop!Items,
             Shop!RemoveCartItem(c) \/ \E n \in Names : Shop!RenameCartItem(c, n)
      PROVE  Purchases'
  <2>1. cart \in [Shop!Items -> {None} \cup Shop!CartItem] /\ cart[c] # None
    BY <1>2 DEF Shop!RemoveCartItem, Shop!RenameCartItem, Shop!InCart, ShopTyped, Shop!TypeOK
  <2>2. \A d \in Shop!Items : cart'[d] # None => cart[d] # None
    BY <1>2, <2>1 DEF Shop!RemoveCartItem, Shop!RenameCartItem
  <2>3. NoPurchase
    BY <1>2, <2>2 DEF Shop!RemoveCartItem, Shop!RenameCartItem, NoPurchase
  <2> QED BY <2>3, PurchasesStay
<1>3. ASSUME NEW h \in Handlers, NEW x \in SUBSET Shop!InCart,
             NEW m \in {None} \cup Shop!InCart, Shop!CompleteRead(h, x, m)
      PROVE  Purchases'
  <2> DEFINE read == Shop!InCart \ x
             items == [c \in read |-> cart[c]]
             r == [op |-> "complete", stage |-> "read", excluded |-> x, items |-> items,
                   moved |-> IF m \in read THEN cart[m] ELSE None]
  <2>1. /\ UNCHANGED <<cart, carts, bought, emptied, late>>
        /\ twice' = twice \cup (read \cap Shop!ReadByOthers)
        /\ Shop!Begin(h, r)
    BY <1>3 DEF Shop!CompleteRead
  <2>2. request[h] = None /\ request' = [request EXCEPT ![h] = r]
    BY <2>1 DEF Shop!Begin
  <2>3. r.excluded = x /\ DOMAIN r.items = read
    OBVIOUS
  <2>4. \A c \in read : c \in Shop!Items /\ cart[c] # None /\ c \notin x
    BY DEF Shop!InCart
  <2>5. ASSUME NEW c \in read
        PROVE  c <= carts /\ bought[c] = 0
    <3>1. c \in Nat /\ c \in Shop!Items
      BY <2>4 DEF Shop!Items
    <3> QED BY <1>0, <2>4, <3>1 DEF Purchases
  <2> HIDE DEF r, read
  <2>6. /\ request'[h] = r
        /\ \A g \in Handlers \ {h} : request'[g] = request[g]
    BY <2>2 DEF ShopTyped, Shop!TypeOK
  <2>7. /\ \A c : Reads(h, c)' => c \in read
        /\ \A g \in Handlers \ {h} : \A c : Reads(g, c)' => Reads(g, c)
    BY <2>3, <2>6 DEF Reads, Shop!At
  <2>8. \A g \in Handlers, c \in read \ twice' : ~Reads(g, c)
    BY <2>1 DEF Reads, Shop!ReadByOthers
  <2>9. \A c \in Shop!Items : c > carts =>
          cart[c] = None /\ bought[c] = 0 /\ \A g \in Handlers : ~Reads(g, c)'
    <3> TAKE c \in Shop!Items
    <3> HAVE c > carts
    <3>1. c \notin read
      BY <1>0, <2>5 DEF Shop!Items
    <3> QED BY <2>7, <3>1 DEF Purchases
  <2>10. \A g \in Handlers, c \in Shop!Items : Reads(g, c)' => c \notin request'[g].excluded
    BY <2>3, <2>4, <2>6, <2>7 DEF Purchases
  <2>11. \A c \in Shop!Items : bought[c] > 0 => cart[c] = None
    BY DEF Purchases
  <2>12. \A c \in Shop!Items \ twice' :
           /\ bought[c] <= 1
           /\ \A g \in Handlers : Reads(g, c)' => bought[c] = 0
           /\ \A g, k \in Handlers : Reads(g, c)' /\ Reads(k, c)' => g = k
    <3> TAKE c \in Shop!Items \ twice'
    <3>1. c \in Shop!Items \ twice
      BY <2>1
    <3>2. /\ bought[c] <= 1
          /\ \A g \in Handlers : Reads(g, c) => bought[c] = 0
          /\ \A g, k \in Handlers : Reads(g, c) /\ Reads(k, c) => g = k
      BY <3>1 DEF Purchases
    <3>3. CASE c \in read
      BY <2>5, <2>7, <2>8, <3>2, <3>3
    <3>4. CASE c \notin read
      BY <2>7, <3>2, <3>4
    <3> QED BY <3>3, <3>4
  <2>13. \A c \in emptied \ late : bought[c] > 0
    BY DEF Purchases
  <2> QED BY <2>1, <2>9, <2>10, <2>11, <2>12, <2>13 DEF Purchases
<1>4. ASSUME NEW h \in Handlers, Shop!CompleteWrite(h) PROVE Purchases'
  <2> DEFINE r == request[h]
  <2>1. request' = [request EXCEPT ![h] = None] /\ UNCHANGED <<carts, twice>>
    BY <1>4 DEF Shop!CompleteWrite, Shop!End
  <2>2. Shop!At(h, "complete", "read") /\ r \in Shop!Completion
    BY <1>4, ShopRequestTypes DEF Shop!CompleteWrite, ShopTyped
  <2>3. /\ \A c : ~Reads(h, c)'
        /\ \A g \in Handlers \ {h} : request'[g] = request[g]
    BY <2>1 DEF ShopTyped, Shop!TypeOK, Reads, Shop!At
  <2>4. CASE UNCHANGED <<cart, bought, emptied, late>>
    <3>1. NoPurchase
      BY <2>1, <2>3, <2>4 DEF NoPurchase, ShopTyped, Shop!TypeOK, Shop!At
    <3> QED BY <3>1, PurchasesStay
  <2>5. CASE /\ bought' = [c \in Shop!Items |->
                             bought[c] + IF c \in DOMAIN r.items THEN 1 ELSE 0]
             /\ cart' = [c \in Shop!Items |->
                           IF c \in Shop!Emptied(r) THEN None ELSE cart[c]]
             /\ emptied' = emptied \cup Shop!Emptied(r)
             /\ late' = late \cup (Shop!InCart \ ((DOMAIN r.items) \cup r.excluded))
    <3>1. \A c : c \in DOMAIN r.items <=> Reads(h, c)
      BY <2>2 DEF Reads
    <3>2. ASSUME NEW c \in Shop!Items
          PROVE  /\ bought'[c] = bought[c] + IF Reads(h, c) THEN 1 ELSE 0
                 /\ bought'[c] \in Nat
                 /\ cart'[c] = IF c \in Shop!InCart \ r.excluded THEN None ELSE cart[c]
      BY <1>0, <2>5, <3>1 DEF Shop!Emptied
    <3>3. \A g \in Handlers : \A c : Reads(g, c)' => g # h /\ Reads(g, c)
      BY <2>3 DEF Reads, Shop!At
    <3>4. \A c \in Shop!Items : c > carts =>
            cart'[c] = None /\ bought'[c] = 0 /\ \A g \in Handlers : ~Reads(g, c)'
      BY <1>0, <3>2, <3>3 DEF Purchases
    <3>5. \A g \in Handlers, c \in Shop!Items : Reads(g, c)' => c \notin request'[g].excluded
      BY <2>3, <3>3 DEF Purchases
    <3>6. \A c \in Shop!Items : bought'[c] > 0 => cart'[c] = None
      <4> TAKE c \in Shop!Items
      <4>1. CASE Reads(h, c)
        <5>1. c \notin r.excluded
          BY <4>1 DEF Purchases
        <5>2. cart[c] # None => c \in Shop!InCart
          BY DEF Shop!InCart
        <5> QED BY <3>2, <5>1, <5>2
      <4>2. CASE ~Reads(h, c)
        BY <1>0, <3>2, <4>2 DEF Purchases
      <4> QED BY <4>1, <4>2
    <3>7. \A c \in Shop!Items \ twice :
            /\ bought'[c] <= 1
            /\ \A g \in Handlers : Reads(g, c)' => bought'[c] = 0
            /\ \A g, k \in Handlers : Reads(g, c)' /\ Reads(k, c)' => g = k
      <4> TAKE c \in Shop!Items \ twice
      <4>1. /\ bought[c] <= 1
            /\ \A g \in Handlers : Reads(g, c) => bought[c] = 0
            /\ \A g, k \in Handlers : Reads(g, c) /\ Reads(k, c) => g = k
        BY DEF Purchases
      <4>2. CASE Reads(h, c)
        BY <1>0, <3>2, <3>3, <4>1, <4>2
      <4>3. CASE ~Reads(h, c)
        BY <1>0, <3>2, <3>3, <4>1, <4>3
      <4> QED BY <4>2, <4>3
    <3>8. \A c \in emptied' \ late' : bought'[c] > 0
      <4> SUFFICES ASSUME NEW c \in emptied' \ late' PROVE bought'[c] > 0
        OBVIOUS
      <4>1. CASE c \in emptied
        <5>1. c \in emptied \ late /\ c \in Shop!Items
          BY <2>5, <4>1 DEF ShopTyped, Shop!TypeOK
        <5> QED BY <1>0, <3>2, <5>1 DEF Purchases
      <4>2. CASE c \notin emptied
        <5>1. c \in Shop!InCart /\ c \notin r.excluded
          BY <2>5, <4>2 DEF Shop!Emptied
        <5>2. c \in Shop!Items /\ Reads(h, c)
          BY <2>5, <3>1, <5>1 DEF Shop!InCart
        <5> QED BY <1>0, <3>2, <5>2
      <4> QED BY <4>1, <4>2
    <3> QED BY <2>1, <3>4, <3>5, <3>6, <3>7, <3>8 DEF Purchases
  <2> QED BY <1>4, <2>4, <2>5 DEF Shop!CompleteWrite
<1> QED BY <1>1, <1>2, <1>3, <1>4 DEF Shop!Cart

LEMMA PurchasesFridge ==
  ASSUME Shop!ConstantsAssumption, ShopTyped, Purchases, Shop!Fridge PROVE Purchases'
<1> USE DEF Shop!fridgeVars, Shop!boughtVars
<1>0. request \in [Handlers -> {None} \cup Shop!Completion \cup Shop!Consumption]
  BY DEF ShopTyped, Shop!TypeOK
<1>1. ASSUME UNCHANGED <<carts, bought, emptied, late, twice, request>>,
             \A c \in Shop!Items : cart'[c] # None => cart[c] # None
      PROVE  Purchases'
  <2>1. NoPurchase
    BY <1>1 DEF NoPurchase
  <2> QED BY <2>1, PurchasesStay
<1>2. ASSUME UNCHANGED <<cart, carts, bought, emptied, late, twice>>, NEW h \in Handlers,
             \/ request' = [request EXCEPT ![h] = None]
             \/ \E r : r.op = "consume" /\ request' = [request EXCEPT ![h] = r]
      PROVE  Purchases'
  <2>1. NoPurchase
    BY <1>2, ConsumptionReadsNothing DEF NoPurchase, ShopTyped
  <2> QED BY <2>1, PurchasesStay
<1>3. ASSUME (\E n \in Names : Shop!CreateFridgeItem(n))
             \/ (\E s \in Shop!Stock, n \in Names : Shop!RenameFridgeItem(s, n))
             \/ (\E p \in Storages : Shop!DeleteStorage(p))
             \/ (\E f \in Frequents, n \in Names, a \in BOOLEAN : Shop!SetFrequent(f, n, a))
      PROVE  Purchases'
  BY <1>1, <1>3 DEF Shop!CreateFridgeItem, Shop!RenameFridgeItem, Shop!DeleteStorage,
     Shop!SetFrequent
<1>4. ASSUME NEW f \in Frequents, Shop!DeleteFrequent(f) PROVE Purchases'
  <2>1. ASSUME NEW c \in Shop!Items, cart'[c] # None PROVE cart[c] # None
    BY <1>4, <2>1 DEF Shop!DeleteFrequent, Shop!InCart
  <2> QED BY <1>1, <1>4, <2>1 DEF Shop!DeleteFrequent
<1>5. ASSUME NEW h \in Handlers, NEW taken \in SUBSET Shop!InFridge, NEW b \in BOOLEAN,
             Shop!ConsumeRead(h, taken, b)
      PROVE  Purchases'
  <2> DEFINE r == [op |-> "consume", stage |-> "read", gone |-> taken, bulk |-> b,
                   todo |-> Shop!Wanted(taken), next |-> None]
  <2>1. request' = [request EXCEPT ![h] = r] /\ r.op = "consume"
    BY <1>5 DEF Shop!ConsumeRead, Shop!Begin
  <2> HIDE DEF r
  <2> QED BY <1>2, <1>5, <2>1 DEF Shop!ConsumeRead
<1>6. ASSUME NEW h \in Handlers, Shop!ConsumeDelete(h) PROVE Purchases'
  <2>1. CASE Shop!End(h)
    BY <1>2, <1>6, <2>1 DEF Shop!ConsumeDelete, Shop!End
  <2>2. CASE request' = [request EXCEPT ![h].stage = "restock"]
    <3> DEFINE r == [request[h] EXCEPT !.stage = "restock"]
    <3>1. request' = [request EXCEPT ![h] = r]
      BY <2>2
    <3>2. request[h] \in Shop!Consumption
      BY <1>6, ShopRequestTypes DEF Shop!ConsumeDelete, ShopTyped
    <3>3. r.op = "consume"
      BY <3>2 DEF Shop!Consumption
    <3> HIDE DEF r
    <3> QED BY <1>2, <1>6, <3>1, <3>3 DEF Shop!ConsumeDelete
  <2> QED BY <1>6, <2>1, <2>2 DEF Shop!ConsumeDelete
<1>7. ASSUME NEW h \in Handlers, Shop!RestockLook(h) PROVE Purchases'
  <2>1. request[h] \in Shop!Consumption
    BY <1>7, ShopRequestTypes DEF Shop!RestockLook, ShopTyped
  <2>2. PICK e \in request[h].todo :
          request' = [request EXCEPT ![h] =
            IF \E c \in Shop!InCart : cart[c].name = e.name
              THEN [request[h] EXCEPT !.todo = request[h].todo \ {e}]
              ELSE [request[h] EXCEPT !.todo = request[h].todo \ {e}, !.next = e,
                                      !.stage = "create"]]
    BY <1>7 DEF Shop!RestockLook
  <2> DEFINE r1 == [request[h] EXCEPT !.todo = request[h].todo \ {e}]
             r2 == [request[h] EXCEPT !.todo = request[h].todo \ {e}, !.next = e,
                                      !.stage = "create"]
  <2>3. r1.op = "consume" /\ r2.op = "consume"
    BY <2>1 DEF Shop!Consumption
  <2>4. request' = [request EXCEPT ![h] = r1] \/ request' = [request EXCEPT ![h] = r2]
    BY <2>2
  <2> HIDE DEF r1, r2
  <2> QED BY <1>2, <1>7, <2>3, <2>4 DEF Shop!RestockLook
<1>8. ASSUME NEW h \in Handlers, Shop!RestockCreate(h) PROVE Purchases'
  <2>1. request[h] \in Shop!Consumption
    BY <1>8, ShopRequestTypes DEF Shop!RestockCreate, ShopTyped
  <2> DEFINE e == request[h].next
             r == [request[h] EXCEPT !.stage = "restock", !.next = None]
  <2>2. CASE Shop!End(h) /\ UNCHANGED <<cart, carts>>
    BY <1>2, <1>8, <2>2 DEF Shop!RestockCreate, Shop!End
  <2>3. CASE /\ cart' = [cart EXCEPT ![carts + 1] = e]
             /\ carts' = carts + 1
             /\ request' = [request EXCEPT ![h].stage = "restock", ![h].next = None]
    <3>1. request' = [request EXCEPT ![h] = r] /\ r.op = "consume"
      BY <1>0, <2>1, <2>3 DEF Shop!Consumption
    <3> HIDE DEF r, e
    <3>2. \A g \in Handlers : Shop!At(g, "complete", "read")' => request'[g] = request[g]
      BY <3>1, ConsumptionReadsNothing DEF ShopTyped
    <3>3. \A c \in Shop!Items : cart'[c] # None => cart[c] # None \/ c = carts + 1
      BY <2>3 DEF ShopTyped, Shop!TypeOK
    <3>4. NoPurchase
      BY <1>8, <2>3, <3>2, <3>3 DEF NoPurchase, Shop!RestockCreate
    <3> QED BY <3>4, PurchasesStay
  <2> QED BY <1>8, <2>2, <2>3 DEF Shop!RestockCreate
<1>9. ASSUME NEW h \in Handlers, Shop!RestockDone(h) \/ Shop!RestockCut(h) PROVE Purchases'
  BY <1>2, <1>9 DEF Shop!RestockDone, Shop!RestockCut, Shop!End
<1> QED BY <1>3, <1>4, <1>5, <1>6, <1>7, <1>8, <1>9 DEF Shop!Fridge

LEMMA PurchasesStep ==
  ASSUME Shop!ConstantsAssumption, ShopTyped, Purchases, [Shop!Next]_Shop!vars
  PROVE  Purchases'
<1>1. CASE UNCHANGED Shop!vars
  <2>1. NoPurchase
    BY <1>1 DEF Shop!vars, Shop!fridgeVars, Shop!boughtVars, NoPurchase
  <2> QED BY <2>1, PurchasesStay
<1> QED BY <1>1, PurchasesCart, PurchasesFridge DEF Shop!Next

\* What a completion takes out of the cart was recorded as bought, once: but for items that
\* came in after it had read the cart, and items that two completions read
\* (completeShopping).
THEOREM BoughtOnceHolds ==
  ASSUME Shop!ConstantsAssumption PROVE Shop!Spec => []Shop!BoughtOnce
<1>1. Shop!Init => Purchases
  BY DEF Shop!Init, Purchases, Reads, Shop!At
<1>2. ShopTyped /\ Purchases => Shop!BoughtOnce
  BY DEF Purchases, Shop!BoughtOnce
<1> QED BY <1>1, <1>2, ShopTypedInit, ShopTypedStep, PurchasesStep, PTL DEF Shop!Spec

-----------------------------------------------------------------------------
(* Alerts: reminded once.                                                  *)

\* The types, with what they need: counts are bounded by the number of servers.
AlertTyped ==
  /\ job \in Alert!Jobs /\ due \subseteq AlertUnits
  /\ members \in [AlertUnits -> SUBSET Recipients]
  /\ lock \in {None} \cup Servers /\ fired \subseteq Servers
  /\ run \in [Servers -> Alert!Run]
  /\ sent \in [AlertUnits -> [Recipients -> Nat]]
  /\ runs \in Nat /\ again \in BOOLEAN /\ trouble \in BOOLEAN
  /\ steady \subseteq AlertUnits

LEMMA AlertTypedStep ==
  ASSUME AlertTyped, [Alert!Next]_Alert!vars PROVE AlertTyped'
<1>1. ASSUME NEW s \in Servers, Alert!Fire(s) PROVE AlertTyped'
  <2>1. run' \in [Servers -> Alert!Run]
    <3>0. run[s] \in Alert!Run
      BY DEF AlertTyped
    <3>1. [run[s] EXCEPT !.stage = "list"] \in Alert!Run
      BY <3>0 DEF Alert!Run
    <3>2. run' = run \/ run' = [run EXCEPT ![s] = [run[s] EXCEPT !.stage = "list"]]
      BY <1>1 DEF Alert!Fire
    <3> QED BY <3>1, <3>2 DEF AlertTyped
  <2>2. lock' \in {None} \cup Servers /\ runs' \in Nat
    BY <1>1 DEF AlertTyped, Alert!Fire
  <2>3. again' \in BOOLEAN
    BY <1>1 DEF AlertTyped, Alert!Fire
  <2> QED BY <1>1, <2>1, <2>2, <2>3 DEF AlertTyped, Alert!Fire
<1>2. ASSUME NEW s \in Servers, Alert!List(s) PROVE AlertTyped'
  <2> DEFINE listed == IF job.dueAt = "list" THEN due ELSE AlertUnits
             asked == IF job.membersAt = "list" THEN Alert!Pairs(listed) ELSE {}
             r == [stage |-> "unit", todo |-> listed, asked |-> asked, told |-> {}]
  <2>1. listed \in SUBSET AlertUnits
    BY DEF AlertTyped
  <2>2. asked \in SUBSET (AlertUnits \X Recipients)
    BY <2>1 DEF Alert!Pairs
  <2>3. run' = [run EXCEPT ![s] = r]
    BY <1>2 DEF Alert!List
  <2> HIDE DEF listed, asked
  <2>4. r \in Alert!Run
    BY <2>1, <2>2 DEF Alert!Run
  <2> QED BY <1>2, <2>3, <2>4 DEF AlertTyped, Alert!List
<1>3. ASSUME NEW s \in Servers, NEW n \in AlertUnits, Alert!Unit(s, n) PROVE AlertTyped'
  <2> DEFINE whom == IF job.membersAt = "list" THEN {p \in run[s].asked : p[1] = n}
                     ELSE Alert!Pairs({n})
             told == IF job.dueAt = "list" \/ n \in due THEN whom ELSE {}
             r == [run[s] EXCEPT !.todo = run[s].todo \ {n}, !.told = told]
  <2>1. run[s] \in Alert!Run
    BY DEF AlertTyped
  <2>2. told \in SUBSET (AlertUnits \X Recipients)
    BY <2>1 DEF Alert!Pairs, Alert!Run
  <2>3. run' = [run EXCEPT ![s] = r]
    BY <1>3 DEF Alert!Unit, AlertTyped
  <2> HIDE DEF told
  <2>4. r \in Alert!Run
    BY <2>1, <2>2 DEF Alert!Run
  <2> HIDE DEF r
  <2> QED BY <1>3, <2>3, <2>4 DEF AlertTyped, Alert!Unit
<1>4. ASSUME NEW s \in Servers, NEW p \in AlertUnits \X Recipients, Alert!Send(s, p)
      PROVE  AlertTyped'
  <2>1. run' \in [Servers -> Alert!Run]
    <3>0. run[s] \in Alert!Run
      BY DEF AlertTyped
    <3>1. [run[s] EXCEPT !.told = run[s].told \ {p}] \in Alert!Run
      BY <3>0 DEF Alert!Run
    <3>2. run' = [run EXCEPT ![s] = [run[s] EXCEPT !.told = run[s].told \ {p}]]
      BY <1>4 DEF Alert!Send
    <3> QED BY <3>1, <3>2 DEF AlertTyped
  <2>2. sent' \in [AlertUnits -> [Recipients -> Nat]]
    BY <1>4 DEF Alert!Send, AlertTyped
  <2> QED BY <1>4, <2>1, <2>2 DEF Alert!Send, AlertTyped
<1>5. ASSUME NEW s \in Servers, Alert!Fails(s) PROVE AlertTyped'
  <2>1. run[s] \in Alert!Run
    BY DEF AlertTyped
  <2>2. [run[s] EXCEPT !.told = {}] \in Alert!Run
    BY <2>1 DEF Alert!Run
  <2>3. [Alert!Idle EXCEPT !.stage = "end"] \in Alert!Run
    BY DEF Alert!Run, Alert!Idle
  <2>4. run' \in [Servers -> Alert!Run]
    BY <1>5, <2>2, <2>3 DEF Alert!Fails, AlertTyped
  <2> QED BY <1>5, <2>4 DEF Alert!Fails, AlertTyped
<1>6. ASSUME NEW s \in Servers, Alert!Finish(s) PROVE AlertTyped'
  BY <1>6 DEF Alert!Finish, AlertTyped, Alert!Idle, Alert!Run
<1>7. CASE Alert!LockExpires
  BY <1>7 DEF Alert!LockExpires, AlertTyped
<1>8. ASSUME NEW n \in AlertUnits, Alert!ChangeDue(n) PROVE AlertTyped'
  BY <1>8 DEF Alert!ChangeDue, AlertTyped
<1>9. ASSUME NEW n \in AlertUnits, NEW u \in Recipients, Alert!ChangeMember(n, u)
      PROVE  AlertTyped'
  BY <1>9 DEF Alert!ChangeMember, AlertTyped
<1>10. CASE UNCHANGED Alert!vars
  BY <1>10 DEF Alert!vars, AlertTyped
<1> QED BY <1>1, <1>2, <1>3, <1>4, <1>5, <1>6, <1>7, <1>8, <1>9, <1>10 DEF Alert!Next

LEMMA AlertTypedInit == ASSUME Alert!Init PROVE AlertTyped
<1>1. Alert!Idle \in Alert!Run
  BY DEF Alert!Idle, Alert!Run
<1> QED BY <1>1 DEF Alert!Init, AlertTyped

\* What a run still has to tell somebody of a unit.
ToTell(s, n, u) ==
  \/ run[s].stage = "list"
  \/ run[s].stage = "unit" /\ n \in run[s].todo
  \/ run[s].stage = "unit" /\ <<n, u>> \in run[s].told

\* A run that tells of one unit is not to ask about that one again; before the timer there is
\* no run.
OneUnit ==
  \A s \in Servers :
    /\ run[s].stage # "unit" => run[s].told = {}
    /\ run[s].stage = "idle" \/ s \notin fired => run[s] = Alert!Idle
    /\ \A p \in run[s].told : p[1] \notin run[s].todo

LEMMA OneUnitStep ==
  ASSUME AlertTyped, OneUnit, [Alert!Next]_Alert!vars PROVE OneUnit'
<1>0. run \in [Servers -> Alert!Run]
  BY DEF AlertTyped
<1> DEFINE Fine(r) == /\ r.stage # "unit" => r.told = {}
                      /\ r.stage = "idle" => r = Alert!Idle
                      /\ \A p \in r.told : p[1] \notin r.todo
<1>1. Fine(Alert!Idle)
  BY DEF Alert!Idle
<1>2. ASSUME NEW s \in Servers, NEW r, Fine(r), run' = [run EXCEPT ![s] = r],
             s \in fired' \/ r = Alert!Idle, fired \subseteq fired'
      PROVE  OneUnit'
  BY <1>0, <1>2 DEF OneUnit
<1>3. ASSUME run' = run, fired \subseteq fired' PROVE OneUnit'
  BY <1>3 DEF OneUnit
<1>4. ASSUME NEW s \in Servers, run[s] # Alert!Idle PROVE s \in fired /\ run[s].stage # "idle"
  BY <1>4 DEF OneUnit
<1>5. ASSUME NEW s \in Servers, Alert!Fire(s) PROVE OneUnit'
  <2> DEFINE r == [run[s] EXCEPT !.stage = "list"]
  <2>1. run[s] = Alert!Idle
    BY <1>5 DEF OneUnit, Alert!Fire
  <2>2. Fine(r)
    BY <2>1 DEF Alert!Idle
  <2>3. fired' = fired \cup {s} /\ (run' = run \/ run' = [run EXCEPT ![s] = r])
    BY <1>5 DEF Alert!Fire
  <2> HIDE DEF r, Fine
  <2> QED BY <1>2, <1>3, <2>2, <2>3
<1>6. ASSUME NEW s \in Servers, Alert!List(s) PROVE OneUnit'
  <2> DEFINE listed == IF job.dueAt = "list" THEN due ELSE AlertUnits
             asked == IF job.membersAt = "list" THEN Alert!Pairs(listed) ELSE {}
             r == [stage |-> "unit", todo |-> listed, asked |-> asked, told |-> {}]
  <2>1. Fine(r)
    OBVIOUS
  <2>2. run' = [run EXCEPT ![s] = r] /\ fired' = fired
    BY <1>6 DEF Alert!List
  <2>3. s \in fired
    BY <1>6 DEF OneUnit, Alert!List, Alert!Idle
  <2> HIDE DEF r, Fine
  <2> QED BY <1>2, <2>1, <2>2, <2>3
<1>7. ASSUME NEW s \in Servers, NEW n \in AlertUnits, Alert!Unit(s, n) PROVE OneUnit'
  <2> DEFINE whom == IF job.membersAt = "list" THEN {p \in run[s].asked : p[1] = n}
                     ELSE Alert!Pairs({n})
             told == IF job.dueAt = "list" \/ n \in due THEN whom ELSE {}
             r == [run[s] EXCEPT !.todo = run[s].todo \ {n}, !.told = told]
  <2>1. \A p \in told : p[1] = n
    BY DEF Alert!Pairs
  <2>2. run[s].stage = "unit" /\ run' = [run EXCEPT ![s] = r] /\ fired' = fired
    BY <1>0, <1>7 DEF Alert!Unit
  <2> HIDE DEF told
  <2>3. Fine(r)
    BY <1>0, <2>1, <2>2 DEF Alert!Run
  <2>4. s \in fired
    BY <2>2 DEF OneUnit, Alert!Idle
  <2> HIDE DEF r, Fine
  <2> QED BY <1>2, <2>2, <2>3, <2>4
<1>8. ASSUME NEW s \in Servers, NEW p \in AlertUnits \X Recipients, Alert!Send(s, p)
      PROVE  OneUnit'
  <2> DEFINE r == [run[s] EXCEPT !.told = run[s].told \ {p}]
  <2>1. run[s].stage = "unit" /\ run' = [run EXCEPT ![s] = r] /\ fired' = fired
    BY <1>8 DEF Alert!Send
  <2>2. Fine(r)
    BY <1>0, <2>1 DEF OneUnit, Alert!Run
  <2>3. s \in fired
    BY <2>1 DEF OneUnit, Alert!Idle
  <2> HIDE DEF r, Fine
  <2> QED BY <1>2, <2>1, <2>2, <2>3
<1>9. ASSUME NEW s \in Servers, Alert!Fails(s) PROVE OneUnit'
  <2> DEFINE r == [run[s] EXCEPT !.told = {}]
             e == [Alert!Idle EXCEPT !.stage = "end"]
  <2>1. /\ run[s].stage # "idle" /\ fired' = fired
        /\ run' = [run EXCEPT ![s] = r] \/ run' = [run EXCEPT ![s] = e]
    BY <1>9 DEF Alert!Fails
  <2>2. Fine(r)
    BY <1>0, <2>1 DEF Alert!Run
  <2>3. Fine(e)
    BY DEF Alert!Idle
  <2>4. s \in fired
    BY <2>1 DEF OneUnit, Alert!Idle
  <2> HIDE DEF r, e, Fine
  <2> QED BY <1>2, <2>1, <2>2, <2>3, <2>4
<1>10. ASSUME NEW s \in Servers, Alert!Finish(s) PROVE OneUnit'
  BY <1>1, <1>2, <1>10 DEF Alert!Finish
<1>11. CASE \/ Alert!LockExpires \/ UNCHANGED Alert!vars
            \/ \E n \in AlertUnits :
                 Alert!ChangeDue(n) \/ \E u \in Recipients : Alert!ChangeMember(n, u)
  BY <1>3, <1>11 DEF Alert!LockExpires, Alert!vars, Alert!ChangeDue, Alert!ChangeMember
<1> QED BY <1>5, <1>6, <1>7, <1>8, <1>9, <1>10, <1>11 DEF Alert!Next

\* While no timer fires after all runs are over and no lock expires, a job with a lock has one
\* run, which holds it, and what that run has still to say nobody was told.
OneRun ==
  job.locked /\ ~again =>
    /\ \A s \in Servers : run[s] # Alert!Idle => lock = s
    /\ runs = 0 => /\ \A s \in Servers : run[s] = Alert!Idle
                   /\ \A n \in AlertUnits, u \in Recipients : sent[n][u] = 0
    /\ \A n \in AlertUnits, u \in Recipients :
         /\ sent[n][u] <= 1
         /\ \A s \in Servers : ToTell(s, n, u) => sent[n][u] = 0

LEMMA OneRunStep ==
  ASSUME Alert!ConstantsAssumption, AlertTyped, OneUnit, OneUnit', OneRun,
         [Alert!Next]_Alert!vars
  PROVE  OneRun'
<1> SUFFICES ASSUME job.locked, ~again' PROVE OneRun'
  BY DEF OneRun, Alert!Next, Alert!vars, Alert!Fire, Alert!List, Alert!Unit, Alert!Send,
     Alert!Fails, Alert!Finish, Alert!LockExpires, Alert!ChangeDue, Alert!ChangeMember
<1>0. /\ run \in [Servers -> Alert!Run] /\ sent \in [AlertUnits -> [Recipients -> Nat]]
      /\ again \in BOOLEAN /\ runs \in Nat
  BY DEF AlertTyped
<1>a. ASSUME ~again
      PROVE  /\ \A s \in Servers : run[s] # Alert!Idle => lock = s
             /\ runs = 0 => /\ \A s \in Servers : run[s] = Alert!Idle
                            /\ \A n \in AlertUnits, u \in Recipients : sent[n][u] = 0
             /\ \A n \in AlertUnits, u \in Recipients :
                  /\ sent[n][u] <= 1
                  /\ \A s \in Servers : ToTell(s, n, u) => sent[n][u] = 0
  BY <1>a DEF OneRun
<1>b. \A s \in Servers : run[s].stage # "idle" => run[s] # Alert!Idle
  BY DEF Alert!Idle
<1>c. \A s, n, u : ToTell(s, n, u) => run[s].stage # "idle"
  BY DEF ToTell
<1>d. ASSUME NEW s \in Servers, run[s] # Alert!Idle, ~again, UNCHANGED <<lock, runs>>,
             NEW r, run' = [run EXCEPT ![s] = r],
             \A n \in AlertUnits, u \in Recipients :
               /\ sent'[n][u] <= 1
               /\ ToTell(s, n, u)' => sent'[n][u] = 0
      PROVE  OneRun'
  <2>1. runs # 0 /\ lock = s
    BY <1>a, <1>d
  <2>2. \A t \in Servers \ {s} : run[t] = Alert!Idle /\ run'[t] = run[t]
    BY <1>0, <1>a, <1>d, <2>1
  <2>3. \A t \in Servers \ {s}, n \in AlertUnits, u \in Recipients : ~ToTell(t, n, u)'
    BY <2>2 DEF ToTell, Alert!Idle
  <2> QED BY <1>0, <1>d, <2>1, <2>2, <2>3 DEF OneRun
<1>1. ASSUME NEW s \in Servers, Alert!Fire(s) PROVE OneRun'
  <2>1. CASE UNCHANGED <<lock, run, runs, again>>
    <3>1. UNCHANGED <<job, sent>>
      BY <1>1 DEF Alert!Fire
    <3> QED BY <2>1, <3>1, <1>a DEF OneRun, ToTell
  <2>2. CASE ~(job.locked /\ lock # None)
    <3>1. /\ lock = None /\ lock' = s /\ runs' = runs + 1 /\ sent' = sent
          /\ run' = [run EXCEPT ![s].stage = "list"]
          /\ ~again /\ ~(runs > 0 /\ \A o \in Servers : run[o] = Alert!Idle)
      BY <1>1, <2>2 DEF Alert!Fire
    <3>2. \A o \in Servers : run[o] = Alert!Idle
      BY <1>a, <3>1 DEF Alert!ConstantsAssumption
    <3>3. runs = 0
      BY <1>0, <3>1, <3>2
    <3>4. \A n \in AlertUnits, u \in Recipients : sent[n][u] = 0
      BY <1>a, <3>1, <3>3
    <3>5. \A o \in Servers : o # s => run'[o] = Alert!Idle
      BY <1>0, <3>1, <3>2
    <3> QED BY <1>0, <3>1, <3>3, <3>4, <3>5 DEF OneRun
  <2> QED BY <1>1, <2>1, <2>2 DEF Alert!Fire
<1>2. ASSUME NEW s \in Servers, Alert!List(s) PROVE OneRun'
  <2>1. /\ UNCHANGED <<lock, runs, sent, again>> /\ run[s].stage = "list"
    BY <1>2 DEF Alert!List
  <2>3. PICK r : run' = [run EXCEPT ![s] = r]
    BY <1>2 DEF Alert!List
  <2>2. \A n \in AlertUnits, u \in Recipients : sent[n][u] = 0
    BY <1>a, <2>1 DEF ToTell
  <2>4. \A n \in AlertUnits, u \in Recipients :
          /\ sent'[n][u] <= 1
          /\ ToTell(s, n, u)' => sent'[n][u] = 0
    BY <2>1, <2>2
  <2> QED BY <1>b, <1>d, <2>1, <2>3, <2>4
<1>3. ASSUME NEW s \in Servers, NEW n \in AlertUnits, Alert!Unit(s, n) PROVE OneRun'
  <2> DEFINE whom == IF job.membersAt = "list" THEN {p \in run[s].asked : p[1] = n}
                     ELSE Alert!Pairs({n})
             told == IF job.dueAt = "list" \/ n \in due THEN whom ELSE {}
             r == [run[s] EXCEPT !.todo = run[s].todo \ {n}, !.told = told]
  <2>1. \A p \in told : p[1] = n
    BY DEF Alert!Pairs
  <2>2. /\ UNCHANGED <<lock, runs, sent, again>> /\ run[s].stage = "unit"
        /\ n \in run[s].todo /\ run' = [run EXCEPT ![s] = r]
    BY <1>0, <1>3 DEF Alert!Unit
  <2> HIDE DEF told
  <2>3. \A m \in AlertUnits, u \in Recipients : ToTell(s, m, u)' => ToTell(s, m, u)
    BY <1>0, <2>1, <2>2 DEF ToTell, Alert!Run
  <2> HIDE DEF r
  <2> QED BY <1>a, <1>b, <1>d, <2>2, <2>3
<1>4. ASSUME NEW s \in Servers, NEW p \in AlertUnits \X Recipients, Alert!Send(s, p)
      PROVE  OneRun'
  <2> DEFINE r == [run[s] EXCEPT !.told = run[s].told \ {p}]
  <2>0. PICK n \in AlertUnits, u \in Recipients : p = <<n, u>>
    OBVIOUS
  <2>1. /\ UNCHANGED <<lock, runs, again>> /\ run[s].stage = "unit"
        /\ p \in run[s].told /\ run' = [run EXCEPT ![s] = r]
        /\ sent' = [sent EXCEPT ![n][u] = sent[n][u] + 1]
    BY <1>0, <1>4, <2>0 DEF Alert!Send
  <2>2. n \notin run[s].todo /\ sent[n][u] = 0
    BY <1>a, <2>0, <2>1 DEF ToTell, OneUnit
  <2>3. \A m \in AlertUnits, v \in Recipients :
          /\ ToTell(s, m, v)' => ToTell(s, m, v) /\ <<m, v>> # p
          /\ sent'[m][v] = IF m = n /\ v = u THEN 1 ELSE sent[m][v]
    BY <1>0, <2>0, <2>1, <2>2 DEF ToTell, Alert!Run
  <2>4. \A m \in AlertUnits, v \in Recipients :
          /\ sent'[m][v] <= 1
          /\ ToTell(s, m, v)' => sent'[m][v] = 0
    BY <1>a, <2>0, <2>1, <2>3
  <2> HIDE DEF r
  <2> QED BY <1>b, <1>d, <2>1, <2>4
<1>5. ASSUME NEW s \in Servers, Alert!Fails(s) PROVE OneRun'
  <2> DEFINE r == [run[s] EXCEPT !.told = {}]
             e == [Alert!Idle EXCEPT !.stage = "end"]
  <2>1. /\ UNCHANGED <<lock, runs, sent, again>> /\ run[s].stage # "idle"
        /\ run' = [run EXCEPT ![s] = r] \/ run' = [run EXCEPT ![s] = e]
    BY <1>5 DEF Alert!Fails
  <2>2. \A m \in AlertUnits, u \in Recipients : ToTell(s, m, u)' => ToTell(s, m, u)
    BY <1>0, <2>1 DEF ToTell, Alert!Run, Alert!Idle
  <2> HIDE DEF r, e
  <2> QED BY <1>a, <1>b, <1>d, <2>1, <2>2
<1>6. ASSUME NEW s \in Servers, Alert!Finish(s) PROVE OneRun'
  <2>1. /\ UNCHANGED <<runs, sent, again, job>> /\ run[s].stage # "idle"
        /\ run' = [run EXCEPT ![s] = Alert!Idle]
    BY <1>6 DEF Alert!Finish
  <2>2. runs # 0 /\ \A t \in Servers : run'[t] = Alert!Idle
    BY <1>0, <1>a, <1>b, <2>1
  <2>3. \A t \in Servers : \A n, u : ~ToTell(t, n, u)'
    BY <2>2 DEF ToTell, Alert!Idle
  <2> QED BY <1>0, <1>a, <2>1, <2>2, <2>3 DEF OneRun
<1>7. CASE Alert!LockExpires
  BY <1>7 DEF Alert!LockExpires
<1>8. CASE \/ UNCHANGED Alert!vars
           \/ \E n \in AlertUnits :
                Alert!ChangeDue(n) \/ \E u \in Recipients : Alert!ChangeMember(n, u)
  <2>1. UNCHANGED <<job, lock, run, runs, sent, again>>
    BY <1>8 DEF Alert!vars, Alert!ChangeDue, Alert!ChangeMember
  <2> QED BY <2>1 DEF OneRun, ToTell
<1> QED BY <1>1, <1>2, <1>3, <1>4, <1>5, <1>6, <1>7, <1>8 DEF Alert!Next

\* A unit that has not changed since the hour began has all its recipients; of it something
\* is told only if it is due, and it was due when a job listed it for that.
ToldIfDue ==
  /\ \A n \in steady : members[n] = Recipients
  /\ \A n \in steady, u \in Recipients : sent[n][u] > 0 => n \in due
  /\ \A s \in Servers :
       /\ \A p \in run[s].told : p[1] \in steady => p[1] \in due
       /\ job.dueAt = "list" /\ run[s].stage = "unit" =>
            run[s].todo \cap steady \subseteq due

\* Without trouble, who is to be told of it was, or a run has still to do so; there was a run
\* once a timer has fired.
NobodyMissed ==
  /\ lock # None \/ fired # {} => runs > 0
  /\ \A s \in Servers, n \in steady \cap due, u \in Recipients :
       job.membersAt = "list" /\ run[s].stage = "unit" /\ n \in run[s].todo =>
         <<n, u>> \in run[s].asked
  /\ ~trouble /\ runs > 0 =>
       \A n \in steady \cap due, u \in Recipients :
         sent[n][u] > 0 \/ \E s \in Servers : ToTell(s, n, u)

\* What a run does for one unit: of a unit that did not change, all are told if it is due, and
\* nobody otherwise.
Tells(s, n, told) ==
  /\ run[s].stage = "unit" /\ n \in run[s].todo /\ run[s].told = {}
  /\ run' = [run EXCEPT ![s] = [run[s] EXCEPT !.todo = run[s].todo \ {n}, !.told = told]]
  /\ \A p \in told : p[1] = n /\ (n \in steady => n \in due)
  /\ n \in steady \cap due => \A u \in Recipients : <<n, u>> \in told

LEMMA UnitTold ==
  ASSUME AlertTyped, ToldIfDue, NobodyMissed, NEW s \in Servers, NEW n \in AlertUnits,
         Alert!Unit(s, n)
  PROVE  \E told : Tells(s, n, told)
<1> DEFINE whom == IF job.membersAt = "list" THEN {p \in run[s].asked : p[1] = n}
                   ELSE Alert!Pairs({n})
           told == IF job.dueAt = "list" \/ n \in due THEN whom ELSE {}
<1>1. /\ run[s].stage = "unit" /\ n \in run[s].todo /\ run[s].told = {}
      /\ run' = [run EXCEPT ![s] = [run[s] EXCEPT !.todo = run[s].todo \ {n}, !.told = told]]
  BY DEF Alert!Unit, AlertTyped
<1>2. \A p \in whom : p[1] = n
  BY DEF Alert!Pairs
<1>3. n \in steady /\ told # {} => n \in due
  BY <1>1 DEF ToldIfDue
<1>4. ASSUME n \in steady \cap due, NEW u \in Recipients PROVE <<n, u>> \in whom
  <2>1. CASE job.membersAt = "list"
    BY <1>1, <1>4, <2>1 DEF NobodyMissed
  <2>2. CASE job.membersAt # "list"
    BY <1>4, <2>2 DEF ToldIfDue, Alert!Pairs
  <2> QED BY <2>1, <2>2
<1>5. \A p \in told : p[1] = n /\ (n \in steady => n \in due)
  BY <1>2, <1>3
<1>6. n \in steady \cap due => \A u \in Recipients : <<n, u>> \in told
  BY <1>4
<1> HIDE DEF told
<1>7. Tells(s, n, told)
  BY <1>1, <1>5, <1>6 DEF Tells
<1> QED BY <1>7

LEMMA ToldIfDueStep ==
  ASSUME AlertTyped, OneUnit, ToldIfDue, NobodyMissed, [Alert!Next]_Alert!vars
  PROVE  ToldIfDue'
<1>0. /\ run \in [Servers -> Alert!Run] /\ sent \in [AlertUnits -> [Recipients -> Nat]]
      /\ steady \subseteq AlertUnits /\ members \in [AlertUnits -> SUBSET Recipients]
      /\ due \subseteq AlertUnits
  BY DEF AlertTyped
<1> DEFINE Fine(r) == /\ \A p \in r.told : p[1] \in steady => p[1] \in due
                      /\ job.dueAt = "list" /\ r.stage = "unit" =>
                           r.todo \cap steady \subseteq due
<1>1. ASSUME NEW s \in Servers, NEW r, Fine(r), run' = [run EXCEPT ![s] = r],
             UNCHANGED <<job, due, members, steady, sent>>
      PROVE  ToldIfDue'
  BY <1>0, <1>1 DEF ToldIfDue
<1>2. ASSUME NEW s \in Servers, Alert!Fire(s) PROVE ToldIfDue'
  <2> DEFINE r == [run[s] EXCEPT !.stage = "list"]
  <2>1. /\ UNCHANGED <<job, due, members, steady, sent>>
        /\ run' = run \/ run' = [run EXCEPT ![s] = r]
    BY <1>2 DEF Alert!Fire
  <2>2. Fine(r)
    BY <1>0 DEF ToldIfDue, Alert!Run
  <2>3. CASE run' = run
    BY <2>1, <2>3 DEF ToldIfDue
  <2> HIDE DEF r, Fine
  <2> QED BY <1>1, <2>1, <2>2, <2>3
<1>3. ASSUME NEW s \in Servers, Alert!List(s) PROVE ToldIfDue'
  <2> DEFINE listed == IF job.dueAt = "list" THEN due ELSE AlertUnits
             asked == IF job.membersAt = "list" THEN Alert!Pairs(listed) ELSE {}
             r == [stage |-> "unit", todo |-> listed, asked |-> asked, told |-> {}]
  <2>1. run' = [run EXCEPT ![s] = r] /\ UNCHANGED <<job, due, members, steady, sent>>
    BY <1>3 DEF Alert!List
  <2>2. Fine(r)
    OBVIOUS
  <2> HIDE DEF r, Fine
  <2> QED BY <1>1, <2>1, <2>2
<1>4. ASSUME NEW s \in Servers, NEW n \in AlertUnits, Alert!Unit(s, n) PROVE ToldIfDue'
  <2>0. PICK told : Tells(s, n, told)
    BY <1>4, UnitTold
  <2>1. /\ run' = [run EXCEPT ![s] = [run[s] EXCEPT !.todo = run[s].todo \ {n}, !.told = told]]
        /\ \A p \in told : p[1] = n /\ (n \in steady => n \in due)
    BY <2>0 DEF Tells
  <2>2. Fine([run[s] EXCEPT !.todo = run[s].todo \ {n}, !.told = told])
    BY <1>0, <2>1 DEF ToldIfDue, Alert!Run
  <2>3. UNCHANGED <<job, due, members, steady, sent>>
    BY <1>4 DEF Alert!Unit
  <2> HIDE DEF Fine
  <2> QED BY <1>1, <2>1, <2>2, <2>3
<1>5. ASSUME NEW s \in Servers, NEW p \in AlertUnits \X Recipients, Alert!Send(s, p)
      PROVE  ToldIfDue'
  <2> DEFINE r == [run[s] EXCEPT !.told = run[s].told \ {p}]
  <2>0. PICK n \in AlertUnits, u \in Recipients : p = <<n, u>>
    OBVIOUS
  <2>1. /\ UNCHANGED <<job, due, members, steady>>
        /\ p \in run[s].told /\ run' = [run EXCEPT ![s] = r]
        /\ sent' = [sent EXCEPT ![n][u] = sent[n][u] + 1]
    BY <1>0, <1>5, <2>0 DEF Alert!Send
  <2>2. n \in steady => n \in due
    BY <2>0, <2>1 DEF ToldIfDue
  <2>3. \A m \in steady, v \in Recipients : sent'[m][v] > 0 => m \in due
    <3>1. \A m \in steady, v \in Recipients :
            m # n \/ v # u => sent'[m][v] = sent[m][v]
      BY <1>0, <2>1
    <3> QED BY <2>2, <3>1 DEF ToldIfDue
  <2>4. \A t \in Servers : run'[t].told \subseteq run[t].told /\ run'[t].todo = run[t].todo
                           /\ run'[t].stage = run[t].stage
    BY <1>0, <2>1 DEF Alert!Run
  <2> QED BY <2>1, <2>3, <2>4 DEF ToldIfDue
<1>6. ASSUME NEW s \in Servers, Alert!Fails(s) PROVE ToldIfDue'
  <2> DEFINE r == [run[s] EXCEPT !.told = {}]
             e == [Alert!Idle EXCEPT !.stage = "end"]
  <2>1. /\ UNCHANGED <<job, due, members, steady, sent>>
        /\ run' = [run EXCEPT ![s] = r] \/ run' = [run EXCEPT ![s] = e]
    BY <1>6 DEF Alert!Fails
  <2>2. Fine(r)
    BY <1>0 DEF ToldIfDue, Alert!Run
  <2>3. Fine(e)
    BY DEF Alert!Idle
  <2> HIDE DEF r, e, Fine
  <2> QED BY <1>1, <2>1, <2>2, <2>3
<1>7. ASSUME NEW s \in Servers, Alert!Finish(s) PROVE ToldIfDue'
  <2>1. Fine(Alert!Idle)
    BY DEF Alert!Idle
  <2> HIDE DEF Fine
  <2> QED BY <1>1, <1>7, <2>1 DEF Alert!Finish
<1>8. ASSUME NEW n \in AlertUnits,
             Alert!ChangeDue(n) \/ \E u \in Recipients : Alert!ChangeMember(n, u)
      PROVE  ToldIfDue'
  <2>1. /\ UNCHANGED <<job, sent, run>> /\ steady' = steady \ {n}
        /\ \A m \in steady' : m \in due' <=> m \in due
        /\ \A m \in steady' : members'[m] = members[m]
    BY <1>0, <1>8 DEF Alert!ChangeDue, Alert!ChangeMember
  <2> QED BY <2>1 DEF ToldIfDue
<1>9. CASE Alert!LockExpires \/ UNCHANGED Alert!vars
  BY <1>9 DEF Alert!LockExpires, Alert!vars, ToldIfDue
<1> QED BY <1>2, <1>3, <1>4, <1>5, <1>6, <1>7, <1>8, <1>9 DEF Alert!Next

LEMMA NobodyMissedStep ==
  ASSUME AlertTyped, OneUnit, ToldIfDue, NobodyMissed, [Alert!Next]_Alert!vars
  PROVE  NobodyMissed'
<1>0. /\ run \in [Servers -> Alert!Run] /\ sent \in [AlertUnits -> [Recipients -> Nat]]
      /\ steady \subseteq AlertUnits /\ due \subseteq AlertUnits
      /\ runs \in Nat /\ trouble \in BOOLEAN
  BY DEF AlertTyped
<1> DEFINE Fine(r) ==
             job.membersAt = "list" /\ r.stage = "unit" =>
               \A n \in steady \cap due \cap r.todo, u \in Recipients : <<n, u>> \in r.asked
<1>1. \A s \in Servers : Fine(run[s])
  BY DEF NobodyMissed
<1>2. ASSUME NEW s \in Servers, NEW r, Fine(r), run' = [run EXCEPT ![s] = r],
             UNCHANGED <<job, due, steady, lock, fired, runs, trouble>>,
             \A n \in steady \cap due, u \in Recipients :
               /\ sent[n][u] > 0 => sent'[n][u] > 0
               /\ ToTell(s, n, u) => sent'[n][u] > 0 \/ ToTell(s, n, u)'
      PROVE  NobodyMissed'
  <2>1. \A t \in Servers : Fine(run'[t])
    BY <1>0, <1>1, <1>2
  <2>2. \A t \in Servers \ {s} : \A n, u : ToTell(t, n, u)' <=> ToTell(t, n, u)
    BY <1>0, <1>2 DEF ToTell
  <2>3. ASSUME ~trouble, runs > 0, NEW n \in steady \cap due, NEW u \in Recipients
        PROVE  sent'[n][u] > 0 \/ \E t \in Servers : ToTell(t, n, u)'
    BY <1>2, <2>2, <2>3 DEF NobodyMissed
  <2> QED BY <1>2, <2>1, <2>3 DEF NobodyMissed
<1>3. ASSUME NEW s \in Servers, Alert!Fire(s) PROVE NobodyMissed'
  <2>1. UNCHANGED <<job, due, steady, sent, trouble>>
    BY <1>3 DEF Alert!Fire
  <2>2. CASE UNCHANGED <<lock, run, runs, again>> /\ lock # None
    BY <2>1, <2>2 DEF NobodyMissed, ToTell
  <2>3. CASE run' = [run EXCEPT ![s].stage = "list"] /\ runs' = runs + 1
    <3>1. \A t \in Servers \ {s} : run'[t] = run[t]
      BY <1>0, <2>3
    <3>2. run'[s].stage = "list"
      BY <1>0, <2>3 DEF Alert!Run
    <3>3. \A n, u : ToTell(s, n, u)'
      BY <3>2 DEF ToTell
    <3> QED BY <1>0, <2>1, <2>3, <3>1, <3>2, <3>3 DEF NobodyMissed
  <2> QED BY <1>3, <2>2, <2>3 DEF Alert!Fire
<1>4. ASSUME NEW s \in Servers, Alert!List(s) PROVE NobodyMissed'
  <2> DEFINE listed == IF job.dueAt = "list" THEN due ELSE AlertUnits
             asked == IF job.membersAt = "list" THEN Alert!Pairs(listed) ELSE {}
             r == [stage |-> "unit", todo |-> listed, asked |-> asked, told |-> {}]
  <2>1. /\ run' = [run EXCEPT ![s] = r]
        /\ UNCHANGED <<job, due, steady, lock, fired, runs, trouble, sent>>
    BY <1>4 DEF Alert!List
  <2>2. ASSUME job.membersAt = "list", NEW n \in steady \cap due \cap listed,
               NEW u \in Recipients
        PROVE  <<n, u>> \in asked
    <3>1. n \in AlertUnits /\ members[n] = Recipients
      BY <1>0 DEF ToldIfDue
    <3> QED BY <2>2, <3>1 DEF Alert!Pairs
  <2>3. steady \cap due \subseteq listed
    BY <1>0
  <2> HIDE DEF asked, listed
  <2>4. Fine(r)
    BY <2>2
  <2>5. \A n \in steady \cap due : \A u : ToTell(s, n, u)'
    BY <1>0, <2>1, <2>3 DEF ToTell
  <2> HIDE DEF r, Fine
  <2> QED BY <1>2, <2>1, <2>4, <2>5
<1>5. ASSUME NEW s \in Servers, NEW m \in AlertUnits, Alert!Unit(s, m) PROVE NobodyMissed'
  <2>0. PICK told : Tells(s, m, told)
    BY <1>5, UnitTold
  <2>1. /\ run[s].stage = "unit" /\ run[s].told = {}
        /\ run' = [run EXCEPT ![s] = [run[s] EXCEPT !.todo = run[s].todo \ {m}, !.told = told]]
        /\ m \in steady \cap due => \A u \in Recipients : <<m, u>> \in told
    BY <2>0 DEF Tells
  <2> DEFINE r == [run[s] EXCEPT !.todo = run[s].todo \ {m}, !.told = told]
  <2>2. /\ r.stage = "unit" /\ r.asked = run[s].asked /\ r.told = told
        /\ r.todo = run[s].todo \ {m}
    BY <1>0, <2>1 DEF Alert!Run
  <2> HIDE DEF r
  <2>3. run' = [run EXCEPT ![s] = r]
    BY <2>1 DEF r
  <2>4. Fine(r)
    BY <1>1, <2>1, <2>2
  <2>5. \A n \in steady \cap due, u \in Recipients : ToTell(s, n, u) => ToTell(s, n, u)'
    BY <1>0, <2>1, <2>2, <2>3 DEF ToTell
  <2>6. UNCHANGED <<job, due, steady, lock, fired, runs, trouble, sent>>
    BY <1>5 DEF Alert!Unit
  <2> HIDE DEF Fine
  <2> QED BY <1>2, <2>3, <2>4, <2>5, <2>6
<1>6. ASSUME NEW s \in Servers, NEW p \in AlertUnits \X Recipients, Alert!Send(s, p)
      PROVE  NobodyMissed'
  <2> DEFINE r == [run[s] EXCEPT !.told = run[s].told \ {p}]
  <2>0. PICK m \in AlertUnits, v \in Recipients : p = <<m, v>>
    OBVIOUS
  <2>1. /\ UNCHANGED <<job, due, steady, lock, fired, runs, trouble>>
        /\ run' = [run EXCEPT ![s] = r] /\ run[s].stage = "unit"
        /\ sent' = [sent EXCEPT ![m][v] = sent[m][v] + 1]
    BY <1>0, <1>6, <2>0 DEF Alert!Send
  <2>2. Fine(r)
    BY <1>0, <1>1 DEF Alert!Run
  <2>3. \A n \in AlertUnits, u \in Recipients :
          /\ sent[n][u] > 0 => sent'[n][u] > 0
          /\ <<n, u>> = p => sent'[n][u] > 0
    BY <1>0, <2>0, <2>1
  <2>4. \A n \in AlertUnits, u \in Recipients :
          ToTell(s, n, u) /\ <<n, u>> # p => ToTell(s, n, u)'
    BY <1>0, <2>1 DEF ToTell, Alert!Run
  <2> HIDE DEF r, Fine
  <2> QED BY <1>0, <1>2, <2>1, <2>2, <2>3, <2>4
<1>7. ASSUME NEW s \in Servers, Alert!Fails(s) PROVE NobodyMissed'
  <2> DEFINE r == [run[s] EXCEPT !.told = {}]
             e == [Alert!Idle EXCEPT !.stage = "end"]
  <2>1. /\ UNCHANGED <<job, due, steady, lock, fired, runs, sent>> /\ trouble'
        /\ run' = [run EXCEPT ![s] = r] \/ run' = [run EXCEPT ![s] = e]
    BY <1>7 DEF Alert!Fails
  <2>2. Fine(r)
    BY <1>0, <1>1 DEF Alert!Run
  <2>3. Fine(e)
    BY DEF Alert!Idle
  <2> HIDE DEF r, e
  <2>4. \A t \in Servers : Fine(run'[t])
    BY <1>0, <1>1, <2>1, <2>2, <2>3
  <2> QED BY <2>1, <2>4 DEF NobodyMissed
<1>8. ASSUME NEW s \in Servers, Alert!Finish(s) PROVE NobodyMissed'
  <2>1. Fine(Alert!Idle)
    BY DEF Alert!Idle
  <2>2. \A n, u : ~ToTell(s, n, u)
    BY <1>8 DEF Alert!Finish, ToTell, OneUnit
  <2>3. \A t \in Servers : Fine(run'[t])
    BY <1>0, <1>1, <1>8, <2>1 DEF Alert!Finish
  <2>4. \A t \in Servers : \A n, u : ToTell(t, n, u) => ToTell(t, n, u)'
    BY <1>0, <1>8, <2>2 DEF Alert!Finish, ToTell
  <2>5. UNCHANGED <<job, due, steady, fired, runs, sent, trouble>>
        /\ (lock' # None => lock # None)
    BY <1>8 DEF Alert!Finish
  <2> QED BY <2>3, <2>4, <2>5 DEF NobodyMissed
<1>9. ASSUME NEW n \in AlertUnits,
             Alert!ChangeDue(n) \/ \E u \in Recipients : Alert!ChangeMember(n, u)
      PROVE  NobodyMissed'
  <2>1. /\ UNCHANGED <<job, lock, fired, runs, trouble, sent, run>>
        /\ steady' \cap due' \subseteq steady \cap due
    BY <1>9 DEF Alert!ChangeDue, Alert!ChangeMember
  <2> QED BY <2>1 DEF NobodyMissed, ToTell
<1>10. CASE Alert!LockExpires \/ UNCHANGED Alert!vars
  BY <1>10 DEF Alert!LockExpires, Alert!vars, NobodyMissed, ToTell
<1> QED BY <1>3, <1>4, <1>5, <1>6, <1>7, <1>8, <1>9, <1>10 DEF Alert!Next

LEMMA AlertsFinite ==
  /\ \A S : Alert!Cardinality(S) = Cardinality(S)
  /\ \A S : Alert!IsFiniteSet(S) <=> IsFiniteSet(S)
<1>1. \A S : Alert!Cardinality(S) = Cardinality(S)
  BY Zenon DEF Alert!Cardinality, Cardinality
<1>2. \A S : Alert!IsFiniteSet(S) <=> IsFiniteSet(S)
  BY Zenon DEF Alert!IsFiniteSet, IsFiniteSet
<1> QED BY <1>1, <1>2

\* The servers that are not to tell somebody of a unit any more: as many were told of it, at
\* most.
Told(n, u) == {s \in fired : ~ToTell(s, n, u)}
AlertCounts ==
  /\ runs <= Cardinality(fired) /\ changes \in 0..AlertChanges /\ faults \in 0..AlertFaults
  /\ \A n \in AlertUnits, u \in Recipients : sent[n][u] <= Cardinality(Told(n, u))

\* Nobody is told without one server more that is not to tell him again.
LEMMA ToldGrows ==
  ASSUME AlertTyped, OneUnit, [Alert!Next]_Alert!vars, NEW n \in AlertUnits, NEW u \in Recipients
  PROVE  /\ Told(n, u) \subseteq Told(n, u)'
         /\ \/ sent'[n][u] = sent[n][u]
            \/ sent'[n][u] = sent[n][u] + 1 /\ Told(n, u)' \ Told(n, u) # {}
<1>0. run \in [Servers -> Alert!Run] /\ fired \subseteq Servers
  BY DEF AlertTyped
<1>1. ASSUME fired \subseteq fired', sent' = sent,
             \A s \in fired : ToTell(s, n, u)' => ToTell(s, n, u)
      PROVE  Told(n, u) \subseteq Told(n, u)' /\ sent'[n][u] = sent[n][u]
  BY <1>1 DEF Told
<1>2. ASSUME NEW s \in Servers, NEW r, run' = [run EXCEPT ![s] = r], fired \subseteq fired',
             sent' = sent,
             \/ s \notin fired \/ run[s].stage = "list"
             \/ r.stage \notin {"list", "unit"}
             \/ /\ run[s].stage = "unit" /\ r.stage = "unit"
                /\ r.todo \subseteq run[s].todo
                /\ \A p \in r.told : p \in run[s].told \/ p[1] \in run[s].todo
      PROVE  Told(n, u) \subseteq Told(n, u)' /\ sent'[n][u] = sent[n][u]
  <2>1. \A t \in fired : ToTell(t, n, u)' => ToTell(t, n, u)
    <3>1. ASSUME NEW t \in fired, t # s, ToTell(t, n, u)' PROVE ToTell(t, n, u)
      BY <1>0, <1>2, <3>1 DEF ToTell
    <3>2. ASSUME s \in fired, ToTell(s, n, u)' PROVE ToTell(s, n, u)
      <4>1. run'[s] = r
        BY <1>0, <1>2
      <4>2. <<n, u>>[1] = n
        OBVIOUS
      <4> QED BY <1>2, <3>2, <4>1, <4>2 DEF ToTell
    <3> QED BY <3>1, <3>2
  <2> QED BY <1>1, <1>2, <2>1
<1>3. ASSUME NEW s \in Servers, Alert!Fire(s) PROVE Told(n, u) \subseteq Told(n, u)' /\ sent'[n][u] = sent[n][u]
  <2>1. CASE run' = run
    BY <1>1, <1>3, <2>1 DEF Alert!Fire, ToTell
  <2>2. CASE run' # run
    <3>1. run' = [run EXCEPT ![s] = [run[s] EXCEPT !.stage = "list"]]
      BY <1>3, <2>2 DEF Alert!Fire
    <3>2. s \notin fired /\ fired \subseteq fired' /\ sent' = sent
      BY <1>3 DEF Alert!Fire
    <3> QED BY <1>2, <3>1, <3>2
  <2> QED BY <2>1, <2>2
<1>4. ASSUME NEW s \in Servers, Alert!List(s) PROVE Told(n, u) \subseteq Told(n, u)' /\ sent'[n][u] = sent[n][u]
  BY <1>2, <1>4 DEF Alert!List
<1>5. ASSUME NEW s \in Servers, NEW m \in AlertUnits, Alert!Unit(s, m)
      PROVE  Told(n, u) \subseteq Told(n, u)' /\ sent'[n][u] = sent[n][u]
  <2> DEFINE whom == IF job.membersAt = "list" THEN {p \in run[s].asked : p[1] = m}
                     ELSE Alert!Pairs({m})
             told == IF job.dueAt = "list" \/ m \in due THEN whom ELSE {}
             r == [run[s] EXCEPT !.todo = run[s].todo \ {m}, !.told = told]
  <2>1. \A p \in told : p[1] = m
    BY DEF Alert!Pairs
  <2>2. /\ run[s].stage = "unit" /\ run' = [run EXCEPT ![s] = r] /\ fired' = fired
        /\ m \in run[s].todo /\ sent' = sent
    BY <1>0, <1>5 DEF Alert!Unit
  <2> HIDE DEF told
  <2>3. r.stage = "unit" /\ r.todo \subseteq run[s].todo /\ \A p \in r.told : p[1] \in run[s].todo
    BY <1>0, <2>1, <2>2 DEF Alert!Run
  <2> HIDE DEF r
  <2> QED BY <1>2, <2>2, <2>3
<1>6. ASSUME NEW s \in Servers, NEW p \in AlertUnits \X Recipients, Alert!Send(s, p)
      PROVE  /\ Told(n, u) \subseteq Told(n, u)'
             /\ \/ sent'[n][u] = sent[n][u]
                \/ sent'[n][u] = sent[n][u] + 1 /\ Told(n, u)' \ Told(n, u) # {}
  <2> DEFINE r == [run[s] EXCEPT !.told = run[s].told \ {p}]
  <2>1. /\ run[s].stage = "unit" /\ p \in run[s].told /\ run' = [run EXCEPT ![s] = r]
        /\ fired' = fired /\ sent' = [sent EXCEPT ![p[1]][p[2]] = @ + 1]
    BY <1>6 DEF Alert!Send
  <2>2. /\ r.stage = "unit" /\ r.todo = run[s].todo /\ r.told = run[s].told \ {p}
        /\ \A t \in Servers : run'[t] = IF t = s THEN r ELSE run[t]
    BY <1>0, <2>1 DEF Alert!Run
  <2> HIDE DEF r
  <2>3. \A t \in fired : ToTell(t, n, u)' => ToTell(t, n, u)
    BY <1>0, <2>1, <2>2 DEF ToTell
  <2>4. Told(n, u) \subseteq Told(n, u)'
    BY <2>1, <2>3 DEF Told
  <2>5. sent \in [AlertUnits -> [Recipients -> Nat]]
    BY DEF AlertTyped
  <2>6. CASE p = <<n, u>>
    <3>1. sent'[n][u] = sent[n][u] + 1
      BY <2>1, <2>5, <2>6
    <3>2. s \in fired
      BY <2>1 DEF OneUnit, Alert!Idle
    <3>3. ToTell(s, n, u)
      BY <2>1, <2>6 DEF ToTell
    <3>4. ~ToTell(s, n, u)'
      <4>1. p[1] \notin run[s].todo /\ p[1] = n
        BY <2>1, <2>6 DEF OneUnit
      <4> QED BY <2>2, <2>6, <4>1 DEF ToTell
    <3> QED BY <2>1, <2>4, <3>1, <3>2, <3>3, <3>4 DEF Told
  <2>7. CASE p # <<n, u>>
    <3>1. p = <<p[1], p[2]>> /\ p[1] \in AlertUnits /\ p[2] \in Recipients
      OBVIOUS
    <3>2. p[1] # n \/ p[2] # u
      BY <2>7, <3>1
    <3>3. sent'[n][u] = sent[n][u]
      BY <2>1, <2>5, <3>1, <3>2
    <3> QED BY <2>4, <3>3
  <2> QED BY <2>6, <2>7
<1>7. ASSUME NEW s \in Servers, Alert!Fails(s) PROVE Told(n, u) \subseteq Told(n, u)' /\ sent'[n][u] = sent[n][u]
  <2> DEFINE r == [run[s] EXCEPT !.told = {}]
             e == [Alert!Idle EXCEPT !.stage = "end"]
  <2>1. /\ fired' = fired /\ sent' = sent
        /\ \/ run' = [run EXCEPT ![s] = r] /\ run[s].stage # "idle"
           \/ run' = [run EXCEPT ![s] = e]
    BY <1>7 DEF Alert!Fails
  <2>2. e.stage = "end"
    BY DEF Alert!Idle
  <2>3. /\ r.stage = run[s].stage /\ r.todo = run[s].todo /\ r.told = {}
        /\ run[s].stage \in {"idle", "list", "unit", "end"}
    BY <1>0 DEF Alert!Run
  <2> HIDE DEF r, e
  <2> QED BY <1>2, <2>1, <2>2, <2>3
<1>8. ASSUME NEW s \in Servers, Alert!Finish(s) PROVE Told(n, u) \subseteq Told(n, u)' /\ sent'[n][u] = sent[n][u]
  <2>1. Alert!Idle.stage = "idle"
    BY DEF Alert!Idle
  <2> QED BY <1>2, <1>8, <2>1 DEF Alert!Finish
<1>9. CASE \/ Alert!LockExpires \/ UNCHANGED Alert!vars
           \/ \E m \in AlertUnits :
                Alert!ChangeDue(m) \/ \E v \in Recipients : Alert!ChangeMember(m, v)
  <2>1. run' = run /\ fired' = fired /\ sent' = sent
    BY <1>9 DEF Alert!LockExpires, Alert!vars, Alert!ChangeDue, Alert!ChangeMember
  <2> QED BY <1>1, <2>1 DEF ToTell
<1> QED BY <1>3, <1>4, <1>5, <1>6, <1>7, <1>8, <1>9 DEF Alert!Next

LEMMA AlertCountsStep ==
  ASSUME Alert!ConstantsAssumption, AlertTyped, OneUnit, AlertCounts, AlertTyped',
         [Alert!Next]_Alert!vars
  PROVE  AlertCounts'
<1>1. /\ IsFiniteSet(fired) /\ IsFiniteSet(fired') /\ fired \subseteq fired'
      /\ runs \in Nat /\ AlertChanges \in Nat /\ AlertFaults \in Nat
  <2>1. fired \subseteq Servers /\ fired' \subseteq Servers /\ IsFiniteSet(Servers)
    BY AlertsFinite DEF AlertTyped, Alert!ConstantsAssumption
  <2>2. fired \subseteq fired'
    BY DEF Alert!Next, Alert!vars, Alert!Fire, Alert!List, Alert!Unit, Alert!Send,
       Alert!Fails, Alert!Finish, Alert!LockExpires, Alert!ChangeDue, Alert!ChangeMember
  <2> QED BY <2>1, <2>2, FS_Subset DEF AlertTyped, Alert!ConstantsAssumption
<1>2. runs' <= Cardinality(fired')
  <2>1. Cardinality(fired) \in Nat /\ Cardinality(fired') \in Nat
        /\ Cardinality(fired) <= Cardinality(fired')
    BY <1>1, FS_CardinalityType, FS_Subset
  <2>2. CASE runs' = runs
    BY <1>1, <2>1, <2>2 DEF AlertCounts
  <2>3. ASSUME NEW s \in Servers, Alert!Fire(s) PROVE runs' <= Cardinality(fired')
    <3>1. s \notin fired /\ fired' = fired \cup {s} /\ runs' \in {runs, runs + 1}
      BY <2>3 DEF Alert!Fire
    <3>2. Cardinality(fired') = Cardinality(fired) + 1
      BY <1>1, <3>1, FS_AddElement
    <3> QED BY <1>1, <2>1, <3>1, <3>2 DEF AlertCounts
  <2> QED BY <2>2, <2>3 DEF Alert!Next, Alert!vars, Alert!List, Alert!Unit, Alert!Send,
             Alert!Fails, Alert!Finish, Alert!LockExpires, Alert!ChangeDue, Alert!ChangeMember
<1>3. changes' \in 0..AlertChanges /\ faults' \in 0..AlertFaults
  <2>1. /\ changes' = changes \/ (changes < AlertChanges /\ changes' = changes + 1)
        /\ faults' = faults \/ (faults < AlertFaults /\ faults' = faults + 1)
    BY DEF Alert!Next, Alert!vars, Alert!Fire, Alert!List, Alert!Unit, Alert!Send,
       Alert!Fails, Alert!Finish, Alert!LockExpires, Alert!ChangeDue, Alert!ChangeMember,
       Alert!Change
  <2>2. changes \in 0..AlertChanges /\ faults \in 0..AlertFaults
    BY DEF AlertCounts
  <2> QED BY <1>1, <2>1, <2>2
<1>4. ASSUME NEW n \in AlertUnits, NEW u \in Recipients
      PROVE  sent'[n][u] <= Cardinality(Told(n, u)')
  <2> DEFINE S == Told(n, u)
             T == Told(n, u)'
  <2>1. /\ S \subseteq T
        /\ \/ sent'[n][u] = sent[n][u]
           \/ sent'[n][u] = sent[n][u] + 1 /\ T \ S # {}
    BY ToldGrows
  <2>2. S \subseteq fired /\ T \subseteq fired'
    BY DEF Told
  <2>3. sent[n][u] <= Cardinality(S) /\ sent[n][u] \in Nat
    BY DEF AlertCounts, AlertTyped
  <2> HIDE DEF S, T
  <2>4. IsFiniteSet(S) /\ IsFiniteSet(T)
    BY <1>1, <2>2, FS_Subset
  <2>5. Cardinality(S) \in Nat /\ Cardinality(T) \in Nat /\ Cardinality(S) <= Cardinality(T)
    BY <2>1, <2>4, FS_CardinalityType, FS_Subset
  <2>6. T \ S # {} => Cardinality(S) < Cardinality(T)
    BY <2>1, <2>4, <2>5, FS_Subset
  <2>7. sent'[n][u] <= Cardinality(T)
    BY <2>1, <2>3, <2>5, <2>6
  <2> QED BY <2>7 DEF T
<1> QED BY <1>2, <1>3, <1>4 DEF AlertCounts

\* Runs and messages keep to the number of servers, and the rest to its type.
THEOREM AlertsTypeCorrect ==
  ASSUME Alert!ConstantsAssumption PROVE Alert!Spec => []Alert!TypeOK
<1>1. Alert!Init => AlertTyped /\ OneUnit /\ AlertCounts
  <2> SUFFICES ASSUME Alert!Init PROVE OneUnit /\ AlertCounts
    BY AlertTypedInit
  <2>1. Cardinality({}) = 0 /\ fired = {}
    BY FS_EmptySet DEF Alert!Init
  <2>2. \A n, u : Told(n, u) = {}
    BY <2>1 DEF Told
  <2>3. OneUnit
    BY DEF Alert!Init, Alert!Idle, OneUnit
  <2>4. runs = 0 /\ changes = 0 /\ faults = 0
        /\ \A n \in AlertUnits, u \in Recipients : sent[n][u] = 0
    BY DEF Alert!Init
  <2>5. AlertChanges \in Nat /\ AlertFaults \in Nat
    BY DEF Alert!ConstantsAssumption
  <2> QED BY <2>1, <2>2, <2>3, <2>4, <2>5 DEF AlertCounts
<1>2. AlertTyped /\ OneUnit /\ AlertCounts /\ [Alert!Next]_Alert!vars
      => (AlertTyped /\ OneUnit /\ AlertCounts)'
  BY AlertTypedStep, OneUnitStep, AlertCountsStep
<1>3. AlertTyped /\ AlertCounts => Alert!TypeOK
  <2> SUFFICES ASSUME AlertTyped, AlertCounts PROVE Alert!TypeOK
    OBVIOUS
  <2>1. /\ IsFiniteSet(Servers) /\ fired \subseteq Servers /\ runs \in Nat
        /\ Alert!Cardinality(Servers) = Cardinality(Servers)
    BY AlertsFinite DEF AlertTyped, Alert!ConstantsAssumption
  <2>2. \A S \in SUBSET Servers : Cardinality(S) \in Nat /\ Cardinality(S) <= Cardinality(Servers)
    BY <2>1, FS_Subset, FS_CardinalityType
  <2> DEFINE c == Alert!Cardinality(Servers)
  <2>3. c \in Nat /\ runs \in 0..c
    BY <2>1, <2>2, FS_CardinalityType DEF AlertCounts
  <2>4. sent \in [AlertUnits -> [Recipients -> 0..c]]
    <3>1. ASSUME NEW n \in AlertUnits, NEW u \in Recipients PROVE sent[n][u] \in 0..c
      <4>1. Told(n, u) \in SUBSET Servers
        BY <2>1 DEF Told
      <4>2. sent[n][u] \in Nat /\ sent[n][u] <= Cardinality(Told(n, u))
        BY DEF AlertTyped, AlertCounts
      <4>3. Cardinality(Told(n, u)) \in Nat /\ Cardinality(Told(n, u)) <= c
        BY <2>1, <2>2, <4>1
      <4> HIDE DEF c
      <4> QED BY <2>3, <4>2, <4>3
    <3> HIDE DEF c
    <3>2. sent \in [AlertUnits -> [Recipients -> Nat]]
      BY DEF AlertTyped
    <3>3. \A n \in AlertUnits : sent[n] \in [Recipients -> 0..c]
      BY <3>1, <3>2
    <3> QED BY <3>2, <3>3
  <2> QED BY <2>3, <2>4 DEF AlertTyped, AlertCounts, Alert!TypeOK
<1> QED BY <1>1, <1>2, <1>3, PTL DEF Alert!Spec

\* Nobody is reminded twice of one unit by a job with a lock as long as every timer fires
\* before the first run is over; and once the runs are over without trouble, everybody was
\* reminded of what was due all the time, and nobody of what never was (Alerts).
THEOREM RemindedOnceHolds ==
  ASSUME Alert!ConstantsAssumption PROVE Alert!Spec => []Alert!RemindedOnce
<1>1. Alert!Init => OneUnit /\ OneRun /\ ToldIfDue /\ NobodyMissed
  BY DEF Alert!Init, Alert!Idle, OneUnit, OneRun, ToldIfDue, NobodyMissed, ToTell
<1>2. AlertTyped /\ OneRun /\ ToldIfDue /\ NobodyMissed => Alert!RemindedOnce
  <2> SUFFICES ASSUME AlertTyped, OneRun, ToldIfDue, NobodyMissed PROVE Alert!RemindedOnce
    OBVIOUS
  <2>1. ASSUME fired = Servers, \A s \in Servers : run[s] = Alert!Idle, ~trouble,
               NEW n \in steady, NEW u \in Recipients
        PROVE  n \in due <=> sent[n][u] > 0
    <3>1. runs > 0
      BY <2>1 DEF NobodyMissed, Alert!ConstantsAssumption
    <3>2. \A s \in Servers : ~ToTell(s, n, u)
      BY <2>1 DEF ToTell, Alert!Idle
    <3>3. n \in due => sent[n][u] > 0
      BY <2>1, <3>1, <3>2 DEF NobodyMissed
    <3>4. sent[n][u] > 0 => n \in due
      BY DEF ToldIfDue
    <3> QED BY <3>3, <3>4
  <2> QED BY <2>1 DEF Alert!RemindedOnce, OneRun
<1> QED BY <1>1, <1>2, AlertTypedInit, AlertTypedStep, OneUnitStep, OneRunStep, ToldIfDueStep,
    NobodyMissedStep, PTL DEF Alert!Spec

-----------------------------------------------------------------------------
(* Recurring expenses: the types.                                          *)

LEMMA CalendarDay ==
  ASSUME Recurring!ConstantsAssumption, NEW i \in Recurring!Days
  PROVE  /\ Calendar[i].month \in Nat /\ Calendar[i].last \in Nat
         /\ Calendar[i].day \in 1..Calendar[i].last
<1>1. Calendar[i] \in [month : Nat, day : Nat, last : Nat]
  BY ElementOfSeq DEF Recurring!ConstantsAssumption, Recurring!Days
<1> QED BY <1>1 DEF Recurring!ConstantsAssumption

\* Today, and the day of a recurring expense in any month, are dates of the calendar.
LEMMA TodayIsDate ==
  ASSUME Recurring!ConstantsAssumption, Recurring!TypeOK
  PROVE  /\ Recurring!Month \in Recurring!Months
         /\ <<Recurring!Month, Calendar[today].day>> \in Recurring!Dates
<1>1. today \in Recurring!Days
  BY DEF Recurring!TypeOK
<1> QED BY <1>1, CalendarDay DEF Recurring!Month, Recurring!Months, Recurring!Dates

LEMMA ClampedIsDate ==
  ASSUME Recurring!ConstantsAssumption, NEW m \in Recurring!Months, NEW day \in 1..31
  PROVE  <<m, Recurring!Clamp(m, day)>> \in Recurring!Dates
<1> DEFINE i == Recurring!LastOf(m)
<1>1. i \in Recurring!Days /\ Calendar[i].month = m
  BY DEF Recurring!Months, Recurring!LastOf
<1>2. Calendar[i].last \in Nat /\ Calendar[i].last >= 1
  BY <1>1, CalendarDay
<1>3. Recurring!Clamp(m, day) \in 1..Calendar[i].last
  BY <1>2 DEF Recurring!Clamp
<1> QED BY <1>1, <1>3 DEF Recurring!Dates

\* What the kinds of steps leave alone.
LEMMA StepKinds ==
  ASSUME [Recurring!Next]_Recurring!vars
  PROVE  \/ Recurring!Household /\ UNCHANGED <<today, fired, run, up, troubled>>
         \/ \E s \in Servers : /\ Recurring!Job(s)
                              /\ UNCHANGED <<today, gone, since, request, shifted>>
         \/ Recurring!DayPasses
         \/ UNCHANGED Recurring!vars
<1>1. ASSUME Recurring!Household PROVE UNCHANGED <<today, fired, run, up, troubled>>
  <2>1. ASSUME NEW h \in Creators,
               \/ \E r \in Recs, dto \in NewRecs : Recurring!CreateRecurring(h, r, dto)
               \/ Recurring!BackfillLook(h) \/ Recurring!BackfillMake(h)
               \/ Recurring!BackfillCut(h)
        PROVE  UNCHANGED <<today, fired, run, up, troubled>>
    BY <2>1 DEF Recurring!CreateRecurring, Recurring!BackfillLook, Recurring!BackfillMake,
       Recurring!BackfillCut, Recurring!jobVars
  <2>2. ASSUME NEW r \in Recs,
               \/ Recurring!RemoveRecurring(r)
               \/ \E dto \in RecChanges : Recurring!UpdateRecurring(r, dto)
        PROVE  UNCHANGED <<today, fired, run, up, troubled>>
    BY <2>2 DEF Recurring!RemoveRecurring, Recurring!UpdateRecurring, Recurring!jobVars
  <2>3. ASSUME NEW r \in Recs, NEW d \in Recurring!Dates,
               \/ Recurring!RemoveExpense(r, d)
               \/ \E e \in Recurring!Dates : Recurring!MoveExpense(r, d, e)
        PROVE  UNCHANGED <<today, fired, run, up, troubled>>
    BY <2>3 DEF Recurring!RemoveExpense, Recurring!MoveExpense, Recurring!jobVars
  <2> QED BY <1>1, <2>1, <2>2, <2>3 DEF Recurring!Household
<1>2. ASSUME NEW s \in Servers, Recurring!Job(s)
      PROVE  UNCHANGED <<today, gone, since, request, shifted>>
  <2>1. CASE Recurring!Fire(s) \/ Recurring!EndOver(s) \/ Recurring!Look(s)
    BY <2>1 DEF Recurring!Fire, Recurring!EndOver, Recurring!Look, Recurring!recVars
  <2>2. CASE Recurring!Generate(s) \/ Recurring!JobFails(s)
    BY <2>2 DEF Recurring!Generate, Recurring!JobFails, Recurring!recVars
  <2>3. CASE Recurring!Crash(s) \/ Recurring!Boot(s)
    BY <2>3 DEF Recurring!Crash, Recurring!Boot, Recurring!recVars
  <2> QED BY <1>2, <2>1, <2>2, <2>3 DEF Recurring!Job
<1> QED BY <1>1, <1>2 DEF Recurring!Next

LEMMA IdleIsRun == Recurring!Idle \in Recurring!Run
BY DEF Recurring!Idle, Recurring!Run

LEMMA RecurringTypesInit ==
  ASSUME Recurring!ConstantsAssumption, Recurring!Init PROVE Recurring!TypeOK
<1>1. 1 \in Recurring!Days /\ 0 \in 0..Len(Calendar)
  BY DEF Recurring!ConstantsAssumption, Recurring!Days
<1> QED
  BY <1>1, IdleIsRun DEF Recurring!Init, Recurring!TypeOK, Recurring!ConstantsAssumption

\* The steps of the requests.
LEMMA HouseholdTypes ==
  ASSUME Recurring!ConstantsAssumption, Recurring!TypeOK, Recurring!Household
  PROVE  Recurring!TypeOK'
<1> USE DEF Recurring!TypeOK
<1>0. today \in 0..Len(Calendar)
  BY DEF Recurring!ConstantsAssumption, Recurring!Days
<1>1. ASSUME NEW h \in Creators, NEW r \in Recs, NEW dto, Recurring!CreateRecurring(h, r, dto)
      PROVE  Recurring!TypeOK'
  <2> DEFINE row == [day |-> dto.day, start |-> dto.start, total |-> dto.total, active |-> TRUE]
             new == [rec |-> r, row |-> row, stage |-> "look", make |-> {}]
  <2>1. row \in Recurring!Rec
    BY <1>1 DEF Recurring!CreateRecurring, Recurring!CreateRecurringExpenseDto, Recurring!Rec
  <2>2. recs' = [recs EXCEPT ![r] = row]
    BY <1>1 DEF Recurring!CreateRecurring
  <2>3. request' = [request EXCEPT ![h] = None] \/ request' = [request EXCEPT ![h] = new]
    BY <1>1 DEF Recurring!CreateRecurring
  <2> HIDE DEF row
  <2>4. new \in Recurring!Creation
    BY <2>1 DEF Recurring!Creation
  <2> HIDE DEF new
  <2>5. requests' \in 0..RecRequests
    BY <1>1 DEF Recurring!CreateRecurring, Recurring!NewRequest, Recurring!ConstantsAssumption
  <2>6. /\ recs' \in [Recs -> {None} \cup Recurring!Rec]
        /\ request' \in [Creators -> {None} \cup Recurring!Creation]
    BY <2>1, <2>2, <2>3, <2>4
  <2>7. since' \in [Recs -> 0..Len(Calendar)]
    BY <1>0, <1>1 DEF Recurring!CreateRecurring
  <2> QED BY <1>1, <2>5, <2>6, <2>7 DEF Recurring!CreateRecurring, Recurring!jobVars
<1>2. ASSUME NEW h \in Creators, Recurring!BackfillLook(h) PROVE Recurring!TypeOK'
  <2> DEFINE r == request[h].rec
             all == {<<m, Recurring!Clamp(m, request[h].row.day)>> :
                       m \in Recurring!MonthsToFill(request[h].row)}
             dates == {d \in all : expenses[r][d] = 0}
  <2>1. request[h] \in Recurring!Creation
    BY <1>2 DEF Recurring!BackfillLook
  <2>2. dates \subseteq Recurring!Dates
    <3>1. request[h].row.day \in 1..31
      BY <2>1 DEF Recurring!Creation, Recurring!Rec
    <3>2. \A m \in Recurring!MonthsToFill(request[h].row) :
            <<m, Recurring!Clamp(m, request[h].row.day)>> \in Recurring!Dates
      BY <3>1, ClampedIsDate DEF Recurring!MonthsToFill
    <3> QED BY <3>2
  <2>3. request' = [request EXCEPT ![h].stage = "make", ![h].make = dates]
    BY <1>2 DEF Recurring!BackfillLook
  <2> HIDE DEF dates
  <2>4. request' = [request EXCEPT ![h] = [request[h] EXCEPT !.stage = "make", !.make = dates]]
    BY <2>3
  <2>5. [request[h] EXCEPT !.stage = "make", !.make = dates] \in Recurring!Creation
    BY <2>1, <2>2 DEF Recurring!Creation
  <2>6. crossed' \subseteq Recs
    BY <1>2, <2>1 DEF Recurring!BackfillLook, Recurring!Creation
  <2> QED
    BY <1>2, <2>4, <2>5, <2>6 DEF Recurring!BackfillLook, Recurring!recVars, Recurring!jobVars
<1>3. ASSUME NEW h \in Creators, Recurring!BackfillMake(h) PROVE Recurring!TypeOK'
  <2> DEFINE r == request[h].rec
             new == [d \in Recurring!Dates |->
                       expenses[r][d] + IF d \in request[h].make THEN 1 ELSE 0]
  <2>1. r \in Recs
    BY <1>3 DEF Recurring!BackfillMake, Recurring!Creation
  <2>2. new \in [Recurring!Dates -> Nat]
    BY <2>1
  <2>3. expenses' = expenses \/ expenses' = [expenses EXCEPT ![r] = new]
    BY <1>3 DEF Recurring!BackfillMake
  <2> HIDE DEF new
  <2>4. expenses' \in [Recs -> [Recurring!Dates -> Nat]]
    BY <2>2, <2>3
  <2> QED BY <1>3, <2>4 DEF Recurring!BackfillMake, Recurring!recVars, Recurring!jobVars
<1>4. ASSUME NEW h \in Creators, Recurring!BackfillCut(h) PROVE Recurring!TypeOK'
  <2>1. faults' \in 0..RecFaults
    BY <1>4 DEF Recurring!BackfillCut, Recurring!Fault, Recurring!ConstantsAssumption
  <2> QED BY <1>4, <2>1 DEF Recurring!BackfillCut, Recurring!recVars, Recurring!jobVars
<1>5. ASSUME NEW r \in Recs, Recurring!RemoveRecurring(r) PROVE Recurring!TypeOK'
  <2>1. requests' \in 0..RecRequests
    BY <1>5 DEF Recurring!RemoveRecurring, Recurring!NewRequest, Recurring!ConstantsAssumption
  <2>2. [d \in Recurring!Dates |-> 0] \in [Recurring!Dates -> Nat]
    OBVIOUS
  <2> QED BY <1>5, <2>1, <2>2 DEF Recurring!RemoveRecurring, Recurring!jobVars
<1>6. ASSUME NEW r \in Recs, NEW dto, Recurring!UpdateRecurring(r, dto)
      PROVE  Recurring!TypeOK'
  <2> DEFINE row == recs[r]
             new == [day |-> Recurring!Given(dto.day, row.day),
                     start |-> Recurring!Given(dto.start, row.start),
                     total |-> Recurring!Given(dto.total, row.total),
                     active |-> Recurring!Given(dto.active, row.active)]
  <2>1. row \in Recurring!Rec
    BY <1>6 DEF Recurring!UpdateRecurring, Recurring!Live
  <2>2. new \in Recurring!Rec
    BY <1>6, <2>1 DEF Recurring!UpdateRecurring, Recurring!UpdateRecurringExpenseDto,
       Recurring!Given, Recurring!Rec
  <2>3. recs' = [recs EXCEPT ![r] = new]
    BY <1>6 DEF Recurring!UpdateRecurring
  <2> HIDE DEF new
  <2>4. requests' \in 0..RecRequests
    BY <1>6 DEF Recurring!UpdateRecurring, Recurring!NewRequest, Recurring!ConstantsAssumption
  <2>5. recs' \in [Recs -> {None} \cup Recurring!Rec]
    BY <2>2, <2>3
  <2> QED BY <1>0, <1>6, <2>4, <2>5 DEF Recurring!UpdateRecurring, Recurring!jobVars
<1>7. ASSUME NEW r \in Recs, NEW d \in Recurring!Dates, Recurring!RemoveExpense(r, d)
      PROVE  Recurring!TypeOK'
  <2>1. expenses[r] \in [Recurring!Dates -> Nat] /\ expenses[r][d] - 1 \in Nat
    BY <1>7 DEF Recurring!RemoveExpense
  <2>2. expenses' = [expenses EXCEPT ![r] = [expenses[r] EXCEPT ![d] = expenses[r][d] - 1]]
    BY <1>7 DEF Recurring!RemoveExpense
  <2>3. expenses' \in [Recs -> [Recurring!Dates -> Nat]]
    BY <2>1, <2>2
  <2>4. requests' \in 0..RecRequests
    BY <1>7 DEF Recurring!RemoveExpense, Recurring!NewRequest, Recurring!ConstantsAssumption
  <2> QED BY <1>7, <2>3, <2>4 DEF Recurring!RemoveExpense, Recurring!recVars, Recurring!jobVars
<1>8. ASSUME NEW r \in Recs, NEW d \in Recurring!Dates, NEW e \in Recurring!Dates,
             Recurring!MoveExpense(r, d, e)
      PROVE  Recurring!TypeOK'
  <2>1. expenses[r] \in [Recurring!Dates -> Nat] /\ expenses[r][d] - 1 \in Nat
    BY <1>8 DEF Recurring!MoveExpense
  <2> DEFINE without == [expenses[r] EXCEPT ![d] = expenses[r][d] - 1]
  <2>2. expenses' = [expenses EXCEPT ![r] = [without EXCEPT ![e] = without[e] + 1]]
    BY <1>8 DEF Recurring!MoveExpense
  <2>5. without \in [Recurring!Dates -> Nat]
    BY <2>1
  <2> HIDE DEF without
  <2>3. expenses' \in [Recs -> [Recurring!Dates -> Nat]]
    BY <2>2, <2>5
  <2>4. requests' \in 0..RecRequests
    BY <1>8 DEF Recurring!MoveExpense, Recurring!NewRequest, Recurring!ConstantsAssumption
  <2> QED BY <1>8, <2>3, <2>4 DEF Recurring!MoveExpense, Recurring!recVars, Recurring!jobVars
<1> QED BY <1>1, <1>2, <1>3, <1>4, <1>5, <1>6, <1>7, <1>8 DEF Recurring!Household

\* The steps of the job, and of the day.
LEMMA JobTypes ==
  ASSUME Recurring!ConstantsAssumption, Recurring!TypeOK, NEW s \in Servers, Recurring!Job(s)
  PROVE  Recurring!TypeOK'
<1> USE DEF Recurring!TypeOK
<1>0. run[s] \in Recurring!Run /\ today \in Recurring!Days
  OBVIOUS
<1>1. CASE Recurring!Fire(s)
  <2> DEFINE list == {[rec |-> r, row |-> recs[r]] :
                        r \in {x \in Recurring!Live : recs[x].active}}
             over == {e \in list : Recurring!Ended(e.row, Recurring!Month)}
             ids == {e.rec : e \in over}
             todo == {e \in list \ over :
                        Recurring!Clamp(Recurring!Month, e.row.day) = Calendar[today].day}
  <2>1. list \subseteq Recurring!Entry
    BY DEF Recurring!Live, Recurring!Entry
  <2>2. todo \subseteq Recurring!Entry /\ ids \subseteq Recs
    BY <2>1 DEF Recurring!Entry
  <2>3. run' = [run EXCEPT ![s] =
          [stage |-> "end", over |-> ids, make |-> {}, todo |-> todo]]
    BY <1>1 DEF Recurring!Fire
  <2> HIDE DEF todo, ids
  <2>4. [stage |-> "end", over |-> ids, make |-> {}, todo |-> todo] \in Recurring!Run
    BY <2>2 DEF Recurring!Run
  <2> QED BY <1>1, <2>3, <2>4 DEF Recurring!Fire, Recurring!recVars
<1>2. CASE Recurring!EndOver(s)
  <2>1. [run[s] EXCEPT !.stage = "look", !.over = {}] \in Recurring!Run
    BY <1>0 DEF Recurring!Run
  <2>2. run' = [run EXCEPT ![s] = [run[s] EXCEPT !.stage = "look", !.over = {}]]
    BY <1>2 DEF Recurring!EndOver
  <2>3. \A r \in Recs \cap Recurring!Live : [recs[r] EXCEPT !.active = FALSE] \in Recurring!Rec
    BY DEF Recurring!Live, Recurring!Rec
  <2>4. recs' \in [Recs -> {None} \cup Recurring!Rec]
    BY <1>2, <2>3 DEF Recurring!EndOver
  <2> QED BY <1>2, <2>1, <2>2, <2>4 DEF Recurring!EndOver
<1>3. CASE Recurring!Look(s)
  <2>1. PICK e \in run[s].todo :
          /\ run' = [run EXCEPT ![s].todo = @ \ {e},
               ![s].make = IF expenses[e.rec][<<Recurring!Month, Calendar[today].day>>] > 0
                             THEN @ ELSE @ \cup {e}]
          /\ crossed' = IF e.rec \in Recurring!AboutToInsert(s)
                          THEN crossed \cup {e.rec} ELSE crossed
    BY <1>3 DEF Recurring!Look
  <2>2. e \in Recurring!Entry
    BY <1>0, <2>1 DEF Recurring!Run
  <2> DEFINE make == IF expenses[e.rec][<<Recurring!Month, Calendar[today].day>>] > 0
                       THEN run[s].make ELSE run[s].make \cup {e}
             new == [run[s] EXCEPT !.todo = run[s].todo \ {e}, !.make = make]
  <2>3. run' = [run EXCEPT ![s] = new]
    BY <2>1
  <2>4. new \in Recurring!Run
    BY <1>0, <2>2 DEF Recurring!Run
  <2> HIDE DEF new
  <2>5. crossed' \subseteq Recs
    BY <2>1, <2>2 DEF Recurring!Entry
  <2> QED BY <1>3, <2>3, <2>4, <2>5 DEF Recurring!Look, Recurring!recVars
<1>4. CASE Recurring!Generate(s)
  <2> DEFINE date == <<Recurring!Month, Calendar[today].day>>
  <2>1. date \in Recurring!Dates
    BY TodayIsDate
  <2> HIDE DEF date
  <2> DEFINE more(r) == [expenses[r] EXCEPT ![date] = expenses[r][date] + 1]
  <2>2. \A r \in Recs : more(r) \in [Recurring!Dates -> Nat]
    BY <2>1
  <2>3. \/ UNCHANGED expenses
        \/ expenses' = [r \in Recs |-> IF r \in {e.rec : e \in run[s].make}
                                          THEN more(r) ELSE expenses[r]]
    BY <1>4 DEF Recurring!Generate, date
  <2> HIDE DEF more
  <2>4. expenses' \in [Recs -> [Recurring!Dates -> Nat]]
    BY <2>2, <2>3
  <2>5. troubled' \subseteq Recurring!Days
    BY <1>0, <1>4 DEF Recurring!Generate, Recurring!Trouble
  <2> QED BY <1>4, <2>4, <2>5, IdleIsRun DEF Recurring!Generate, Recurring!recVars
<1>5. CASE Recurring!JobFails(s)
  <2>1. troubled' \subseteq Recurring!Days /\ faults' \in 0..RecFaults
    BY <1>0, <1>5 DEF Recurring!JobFails, Recurring!Trouble, Recurring!Fault,
       Recurring!ConstantsAssumption
  <2> QED BY <1>5, <2>1, IdleIsRun DEF Recurring!JobFails, Recurring!recVars
<1>6. CASE Recurring!Crash(s)
  <2>1. troubled' \subseteq Recurring!Days /\ faults' \in 0..RecFaults
    BY <1>0, <1>6 DEF Recurring!Crash, Recurring!Trouble, Recurring!Fault,
       Recurring!ConstantsAssumption
  <2> QED BY <1>6, <2>1, IdleIsRun DEF Recurring!Crash, Recurring!recVars
<1>7. CASE Recurring!Boot(s)
  BY <1>7 DEF Recurring!Boot, Recurring!recVars
<1> QED BY <1>1, <1>2, <1>3, <1>4, <1>5, <1>6, <1>7 DEF Recurring!Job

LEMMA RecurringTypesStep ==
  ASSUME Recurring!ConstantsAssumption, Recurring!TypeOK, [Recurring!Next]_Recurring!vars
  PROVE  Recurring!TypeOK'
<1>1. CASE Recurring!Household
  BY <1>1, HouseholdTypes
<1>2. ASSUME NEW s \in Servers, Recurring!Job(s) PROVE Recurring!TypeOK'
  BY <1>2, JobTypes
<1>3. CASE Recurring!DayPasses
  <2>1. today' \in Recurring!Days
    BY <1>3 DEF Recurring!DayPasses, Recurring!Days, Recurring!TypeOK,
       Recurring!ConstantsAssumption
  <2> QED BY <1>3, <2>1 DEF Recurring!DayPasses, Recurring!TypeOK, Recurring!recVars
<1>4. CASE UNCHANGED Recurring!vars
  BY <1>4 DEF Recurring!vars, Recurring!recVars, Recurring!jobVars, Recurring!TypeOK
<1> QED BY <1>1, <1>2, <1>3, <1>4 DEF Recurring!Next

-----------------------------------------------------------------------------
(* Recurring expenses: the rows that runs and creations have read.          *)

\* The row is or was there; while nobody moved its day, it has the day that was read.
ReadRow(r, row) ==
  /\ r \in Recurring!Live \cup gone
  /\ r \in Recurring!Live \ shifted => row.day = recs[r].day

\* The entries of the runs are rows of today.
EntriesRead ==
  \A s \in Servers :
    /\ run[s].stage = "idle" => run[s].todo = {} /\ run[s].make = {}
    /\ \A e \in run[s].todo \cup run[s].make :
         /\ ReadRow(e.rec, e.row)
         /\ Recurring!Clamp(Recurring!Month, e.row.day) = Calendar[today].day

\* A creation makes expenses of the day of its row, and no two are of one row.
CreationsRead ==
  \A h \in Creators : request[h] # None =>
    /\ ReadRow(request[h].rec, request[h].row)
    /\ \A d \in request[h].make : d[2] = Recurring!Clamp(d[1], request[h].row.day)
    /\ \A k \in Creators : request[k] # None /\ request[k].rec = request[h].rec => k = h

\* No expense is left of a row that is gone, and the others are on the day of the row.
ExpensesOnDay ==
  \A r \in Recs, d \in Recurring!Dates :
    /\ r \notin Recurring!Live => expenses[r][d] = 0
    /\ r \in Recurring!Live \ shifted /\ expenses[r][d] > 0
         => d[2] = Recurring!Clamp(d[1], recs[r].day)

\* A row that comes is new; rows that were gone stay gone, and the ghosts only grow.
LEMMA RowsStep ==
  ASSUME Recurring!ConstantsAssumption, Recurring!TypeOK, [Recurring!Next]_Recurring!vars
  PROVE  /\ gone \subseteq gone' /\ shifted \subseteq shifted' /\ crossed \subseteq crossed'
         /\ Recurring!Live \subseteq Recurring!Live' \cup gone'
         /\ \A r \in Recurring!Live \ Recurring!Live' : Recurring!RemoveRecurring(r)
         /\ \A r \in Recurring!Live' \ Recurring!Live :
              /\ r \notin gone
              /\ \E h \in Creators, dto \in NewRecs : Recurring!CreateRecurring(h, r, dto)
         /\ \A r \in (Recurring!Live \cap Recurring!Live') \ shifted' :
              recs'[r].day = recs[r].day
<1> DEFINE G ==
         /\ gone \subseteq gone' /\ shifted \subseteq shifted' /\ crossed \subseteq crossed'
         /\ Recurring!Live \subseteq Recurring!Live' \cup gone'
         /\ \A r \in Recurring!Live \ Recurring!Live' : Recurring!RemoveRecurring(r)
         /\ \A r \in Recurring!Live' \ Recurring!Live :
              /\ r \notin gone
              /\ \E h \in Creators, dto \in NewRecs : Recurring!CreateRecurring(h, r, dto)
         /\ \A r \in (Recurring!Live \cap Recurring!Live') \ shifted' :
              recs'[r].day = recs[r].day
<1> USE DEF Recurring!TypeOK, Recurring!Live
<1>1. ASSUME NEW h \in Creators, NEW r \in Recs, NEW dto \in NewRecs,
             Recurring!CreateRecurring(h, r, dto)
      PROVE  G
  <2>1. /\ r \notin Recurring!Live \cup gone
        /\ \A x \in Recs \ {r} : recs'[x] = recs[x]
        /\ UNCHANGED <<gone, crossed, shifted>>
    BY <1>1 DEF Recurring!CreateRecurring
  <2>2. recs'[r] # None
    <3> DEFINE row == [day |-> dto.day, start |-> dto.start, total |-> dto.total,
                       active |-> TRUE]
    <3>1. row \in Recurring!Rec
      BY <1>1 DEF Recurring!CreateRecurring, Recurring!CreateRecurringExpenseDto,
         Recurring!Rec
    <3>2. recs'[r] = row
      BY <1>1 DEF Recurring!CreateRecurring
    <3> HIDE DEF row
    <3> QED BY <3>1, <3>2 DEF Recurring!ConstantsAssumption
  <2>3. \A x \in Recurring!Live' \ Recurring!Live : x = r
    BY <2>1
  <2>4. \E k \in Creators, e \in NewRecs : Recurring!CreateRecurring(k, r, e)
    BY <1>1
  <2>5. \A x \in Recurring!Live : x \in Recurring!Live' /\ recs'[x].day = recs[x].day
    BY <2>1
  <2> QED BY <2>1, <2>2, <2>3, <2>4, <2>5
<1>2. ASSUME NEW h \in Creators,
             Recurring!BackfillLook(h) \/ Recurring!BackfillMake(h) \/ Recurring!BackfillCut(h)
      PROVE  G
  BY <1>2 DEF Recurring!BackfillLook, Recurring!BackfillMake, Recurring!BackfillCut,
     Recurring!recVars
<1>3. ASSUME NEW r \in Recs, Recurring!RemoveRecurring(r) PROVE G
  BY <1>3 DEF Recurring!RemoveRecurring
<1>4. ASSUME NEW r \in Recs, NEW dto, Recurring!UpdateRecurring(r, dto) PROVE G
  <2> DEFINE row == recs[r]
             new == [day |-> Recurring!Given(dto.day, row.day),
                     start |-> Recurring!Given(dto.start, row.start),
                     total |-> Recurring!Given(dto.total, row.total),
                     active |-> Recurring!Given(dto.active, row.active)]
  <2>1. recs' = [recs EXCEPT ![r] = new] /\ UNCHANGED <<gone, crossed>> /\ r \in Recurring!Live
    BY <1>4 DEF Recurring!UpdateRecurring
  <2>2. shifted \subseteq shifted' /\ (r \notin shifted' => dto.day = Keep)
    BY <1>4 DEF Recurring!UpdateRecurring
  <2>3. recs'[r] = new /\ \A x \in Recs \ {r} : recs'[x] = recs[x]
    BY <2>1
  <2>4. r \notin shifted' => recs'[r].day = recs[r].day
    BY <2>2, <2>3 DEF Recurring!Given
  <2>5. recs'[r] # None
    <3>1. recs'[r] \in Recurring!Rec
      BY <1>4, <2>1, <2>3 DEF Recurring!UpdateRecurring, Recurring!UpdateRecurringExpenseDto,
         Recurring!Given, Recurring!Rec
    <3> QED BY <3>1 DEF Recurring!ConstantsAssumption
  <2> HIDE DEF new
  <2> QED BY <2>1, <2>2, <2>3, <2>4, <2>5
<1>5. ASSUME NEW r \in Recs, NEW d \in Recurring!Dates, Recurring!RemoveExpense(r, d) PROVE G
  BY <1>5 DEF Recurring!RemoveExpense, Recurring!recVars
<1>6. ASSUME NEW r \in Recs, NEW d \in Recurring!Dates, NEW e \in Recurring!Dates,
             Recurring!MoveExpense(r, d, e)
      PROVE  G
  BY <1>6 DEF Recurring!MoveExpense, Recurring!recVars
<1>7. ASSUME NEW s \in Servers, Recurring!EndOver(s) PROVE G
  <2>1. /\ \A r \in Recs : recs'[r] = IF r \in run[s].over \cap Recurring!Live
                                       THEN [recs[r] EXCEPT !.active = FALSE] ELSE recs[r]
        /\ UNCHANGED <<gone, crossed, shifted>>
    BY <1>7 DEF Recurring!EndOver
  <2>2. \A r \in Recs : recs[r] # None =>
          /\ [recs[r] EXCEPT !.active = FALSE] \in Recurring!Rec
          /\ [recs[r] EXCEPT !.active = FALSE].day = recs[r].day
    BY DEF Recurring!Rec
  <2>3. \A r \in Recs : recs[r] # None => recs'[r] # None /\ recs'[r].day = recs[r].day
    <3>1. ASSUME NEW r \in Recs, recs[r] # None
          PROVE  recs'[r] # None /\ recs'[r].day = recs[r].day
      <4>1. recs'[r] = recs[r] \/ recs'[r] = [recs[r] EXCEPT !.active = FALSE]
        BY <2>1
      <4> QED BY <2>2, <3>1, <4>1 DEF Recurring!ConstantsAssumption
    <3> QED BY <3>1
  <2>4. \A r \in Recs : recs[r] = None => recs'[r] = None
    BY <2>1
  <2> QED BY <2>1, <2>3, <2>4
<1>8. ASSUME NEW s \in Servers, Recurring!Job(s), ~Recurring!EndOver(s) PROVE G
  BY <1>8 DEF Recurring!Job, Recurring!Fire, Recurring!Look, Recurring!Generate,
     Recurring!JobFails, Recurring!Crash, Recurring!Boot, Recurring!recVars
<1>9. CASE Recurring!DayPasses \/ UNCHANGED Recurring!vars
  BY <1>9 DEF Recurring!DayPasses, Recurring!vars, Recurring!recVars
<1>10. G
  BY <1>1, <1>2, <1>3, <1>4, <1>5, <1>6, <1>7, <1>8, <1>9 DEF Recurring!Next,
     Recurring!Household
<1> QED BY <1>10

LEMMA ReadRowStep ==
  ASSUME Recurring!ConstantsAssumption, Recurring!TypeOK, [Recurring!Next]_Recurring!vars,
         NEW r \in Recs, NEW row, ReadRow(r, row)
  PROVE  ReadRow(r, row)'
<1>1. r \in Recurring!Live' => r \in Recurring!Live
  BY RowsStep DEF ReadRow
<1>2. r \in Recurring!Live' \cup gone'
  BY RowsStep DEF ReadRow
<1>3. r \in Recurring!Live' \ shifted' => recs'[r].day = recs[r].day /\ r \notin shifted
  BY <1>1, RowsStep
<1> QED BY <1>1, <1>2, <1>3 DEF ReadRow

\* What a step does to the run of a server.
LEMMA RunStep ==
  ASSUME Recurring!ConstantsAssumption, Recurring!TypeOK, [Recurring!Next]_Recurring!vars,
         NEW s \in Servers
  PROVE  \/ /\ run'[s].todo = run[s].todo /\ run'[s].make = run[s].make
            /\ run'[s].stage = run[s].stage \/ run'[s].stage = "look"
         \/ run'[s] = Recurring!Idle
         \/ Recurring!Fire(s)
         \/ Recurring!Look(s)
<1> DEFINE G == \/ /\ run'[s].todo = run[s].todo /\ run'[s].make = run[s].make
                   /\ run'[s].stage = run[s].stage \/ run'[s].stage = "look"
                \/ run'[s] = Recurring!Idle
                \/ Recurring!Fire(s)
                \/ Recurring!Look(s)
<1> USE DEF Recurring!TypeOK
<1>1. ASSUME NEW t \in Servers, Recurring!EndOver(t) PROVE G
  <2>1. run[t] \in Recurring!Run
        /\ run' = [run EXCEPT ![t] = [run[t] EXCEPT !.stage = "look", !.over = {}]]
    BY <1>1 DEF Recurring!EndOver
  <2> QED BY <2>1 DEF Recurring!Run
<1>2. ASSUME NEW t \in Servers, Recurring!Fire(t) PROVE G
  BY <1>2 DEF Recurring!Fire
<1>3. ASSUME NEW t \in Servers, Recurring!Look(t) PROVE G
  BY <1>3 DEF Recurring!Look
<1>4. ASSUME NEW t \in Servers,
             Recurring!Generate(t) \/ Recurring!JobFails(t) \/ Recurring!Crash(t)
      PROVE  G
  BY <1>4 DEF Recurring!Generate, Recurring!JobFails, Recurring!Crash
<1>5. ASSUME NEW t \in Servers, Recurring!Boot(t) PROVE G
  BY <1>5 DEF Recurring!Boot
<1>6. ASSUME UNCHANGED run PROVE G
  BY <1>6
<1>7. G
  BY <1>1, <1>2, <1>3, <1>4, <1>5, <1>6, StepKinds DEF Recurring!Job, Recurring!DayPasses,
     Recurring!vars, Recurring!jobVars
<1> QED BY <1>7

LEMMA EntriesReadStep ==
  ASSUME Recurring!ConstantsAssumption, Recurring!TypeOK, EntriesRead,
         [Recurring!Next]_Recurring!vars
  PROVE  EntriesRead'
<1> SUFFICES ASSUME NEW s \in Servers
             PROVE  /\ run'[s].stage = "idle" => run'[s].todo = {} /\ run'[s].make = {}
                    /\ \A e \in run'[s].todo \cup run'[s].make :
                         /\ ReadRow(e.rec, e.row)'
                         /\ Recurring!Clamp(Recurring!Month', e.row.day) = Calendar[today'].day
  BY DEF EntriesRead, Recurring!Clamp, Recurring!LastOf, Recurring!Days, Recurring!Month
<1> DEFINE OfToday(e) == Recurring!Clamp(Recurring!Month, e.row.day) = Calendar[today].day
<1>0. run[s] \in Recurring!Run /\ run'[s] \in Recurring!Run
  BY RecurringTypesStep DEF Recurring!TypeOK
<1>1. CASE run'[s] = Recurring!Idle
  BY <1>1 DEF Recurring!Idle
<1>2. CASE run'[s] # Recurring!Idle
  <2>1. today' = today
    BY <1>2, StepKinds DEF Recurring!DayPasses, Recurring!vars
  <2>2. \A e \in run[s].todo \cup run[s].make :
          e.rec \in Recs /\ ReadRow(e.rec, e.row)' /\ OfToday(e)
    <3> TAKE e \in run[s].todo \cup run[s].make
    <3>1. e.rec \in Recs
      BY <1>0 DEF Recurring!Run, Recurring!Entry
    <3>2. ReadRow(e.rec, e.row) /\ OfToday(e)
      BY DEF EntriesRead
    <3> QED BY <3>1, <3>2, ReadRowStep
  <2>3. Recurring!Month' = Recurring!Month
    BY <2>1 DEF Recurring!Month
  <2>4. CASE /\ run'[s].todo = run[s].todo /\ run'[s].make = run[s].make
             /\ run'[s].stage = run[s].stage \/ run'[s].stage = "look"
    BY <2>1, <2>2, <2>3, <2>4 DEF EntriesRead
  <2>5. CASE Recurring!Fire(s)
    <3> DEFINE list == {[rec |-> r, row |-> recs[r]] :
                          r \in {x \in Recurring!Live : recs[x].active}}
               over == {e \in list : Recurring!Ended(e.row, Recurring!Month)}
               todo == {e \in list \ over : OfToday(e)}
    <3>1. run'[s].stage = "end" /\ run'[s].make = {} /\ run'[s].todo = todo
      BY <2>5 DEF Recurring!Fire, Recurring!TypeOK
    <3>2. \A e \in todo : ReadRow(e.rec, e.row) /\ e.rec \in Recs
      BY DEF ReadRow, Recurring!Live
    <3>3. \A e \in todo : ReadRow(e.rec, e.row)'
      BY <3>2, ReadRowStep
    <3>4. \A e \in todo : OfToday(e)
      OBVIOUS
    <3> HIDE DEF todo
    <3> QED BY <2>1, <2>3, <3>1, <3>3, <3>4
  <2>6. CASE Recurring!Look(s)
    <3>1. PICK e \in run[s].todo :
            run' = [run EXCEPT ![s].todo = @ \ {e},
              ![s].make = IF expenses[e.rec][<<Recurring!Month, Calendar[today].day>>] > 0
                            THEN @ ELSE @ \cup {e}]
      BY <2>6 DEF Recurring!Look
    <3>2. /\ run'[s].stage = "look"
          /\ run'[s].todo \subseteq run[s].todo
          /\ run'[s].make \subseteq run[s].todo \cup run[s].make
      BY <2>6, <3>1, <1>0 DEF Recurring!Look, Recurring!TypeOK, Recurring!Run
    <3> QED BY <2>1, <2>2, <2>3, <3>2
  <2> QED BY <1>2, <2>4, <2>5, <2>6, RunStep
<1> QED BY <1>1, <1>2

\* What a step does to a creation.
LEMMA CreationStep ==
  ASSUME Recurring!ConstantsAssumption, Recurring!TypeOK, [Recurring!Next]_Recurring!vars,
         NEW h \in Creators
  PROVE  \/ request'[h] = request[h] \/ request'[h] = None
         \/ \E r \in Recs, dto \in NewRecs :
              /\ Recurring!CreateRecurring(h, r, dto)
              /\ request'[h].rec = r /\ request'[h].row = recs'[r] /\ request'[h].make = {}
         \/ /\ Recurring!BackfillLook(h)
            /\ request'[h].rec = request[h].rec /\ request'[h].row = request[h].row
            /\ request'[h].make =
                 {d \in {<<m, Recurring!Clamp(m, request[h].row.day)>> :
                            m \in Recurring!MonthsToFill(request[h].row)} :
                    expenses[request[h].rec][d] = 0}
<1> DEFINE G == \/ request'[h] = request[h] \/ request'[h] = None
                \/ \E r \in Recs, dto \in NewRecs :
                     /\ Recurring!CreateRecurring(h, r, dto)
                     /\ request'[h].rec = r /\ request'[h].row = recs'[r]
                     /\ request'[h].make = {}
                \/ /\ Recurring!BackfillLook(h)
                   /\ request'[h].rec = request[h].rec /\ request'[h].row = request[h].row
                   /\ request'[h].make =
                        {d \in {<<m, Recurring!Clamp(m, request[h].row.day)>> :
                                   m \in Recurring!MonthsToFill(request[h].row)} :
                           expenses[request[h].rec][d] = 0}
<1> USE DEF Recurring!TypeOK
<1>1. ASSUME NEW k \in Creators, NEW r \in Recs, NEW dto \in NewRecs,
             Recurring!CreateRecurring(k, r, dto)
      PROVE  G
  <2> DEFINE row == [day |-> dto.day, start |-> dto.start, total |-> dto.total,
                     active |-> TRUE]
             new == [rec |-> r, row |-> row, stage |-> "look", make |-> {}]
  <2>1. recs'[r] = row
    BY <1>1 DEF Recurring!CreateRecurring
  <2>2. request' = [request EXCEPT ![k] = None] \/ request' = [request EXCEPT ![k] = new]
    BY <1>1 DEF Recurring!CreateRecurring
  <2> HIDE DEF row
  <2>3. new.rec = r /\ new.row = row /\ new.make = {}
    OBVIOUS
  <2> HIDE DEF new
  <2>4. request'[h] = request[h] \/ request'[h] = None \/ (k = h /\ request'[h] = new)
    BY <2>2
  <2> QED BY <1>1, <2>1, <2>3, <2>4
<1>2. ASSUME NEW k \in Creators, Recurring!BackfillLook(k) PROVE G
  <2> DEFINE make == {d \in {<<m, Recurring!Clamp(m, request[k].row.day)>> :
                                m \in Recurring!MonthsToFill(request[k].row)} :
                        expenses[request[k].rec][d] = 0}
  <2>1. request' = [request EXCEPT ![k].stage = "make", ![k].make = make]
    BY <1>2 DEF Recurring!BackfillLook
  <2>2. request[k] \in Recurring!Creation
    BY <1>2 DEF Recurring!BackfillLook
  <2>3. k = h => /\ request'[h].rec = request[h].rec /\ request'[h].row = request[h].row
                 /\ request'[h].make = make
    <3> HIDE DEF make
    <3> QED BY <2>1, <2>2 DEF Recurring!Creation
  <2>4. k # h => request'[h] = request[h]
    BY <2>1
  <2> QED BY <1>2, <2>3, <2>4
<1>3. ASSUME NEW k \in Creators, Recurring!BackfillMake(k) \/ Recurring!BackfillCut(k) PROVE G
  BY <1>3 DEF Recurring!BackfillMake, Recurring!BackfillCut
<1>4. ASSUME NEW s \in Servers, Recurring!Job(s) PROVE G
  BY <1>4 DEF Recurring!Job, Recurring!Fire, Recurring!EndOver, Recurring!Look,
     Recurring!Generate, Recurring!JobFails, Recurring!Crash, Recurring!Boot
<1>5. ASSUME NEW r \in Recs,
             \/ Recurring!RemoveRecurring(r)
             \/ \E dto \in RecChanges : Recurring!UpdateRecurring(r, dto)
             \/ \E d \in Recurring!Dates :
                  \/ Recurring!RemoveExpense(r, d)
                  \/ \E e \in Recurring!Dates : Recurring!MoveExpense(r, d, e)
      PROVE  G
  BY <1>5 DEF Recurring!RemoveRecurring, Recurring!UpdateRecurring, Recurring!RemoveExpense,
     Recurring!MoveExpense
<1>6. CASE Recurring!DayPasses \/ UNCHANGED Recurring!vars
  BY <1>6 DEF Recurring!DayPasses, Recurring!vars
<1>7. G
  BY <1>1, <1>2, <1>3, <1>4, <1>5, <1>6 DEF Recurring!Next, Recurring!Household
<1> QED BY <1>7

LEMMA CreationsReadStep ==
  ASSUME Recurring!ConstantsAssumption, Recurring!TypeOK, CreationsRead,
         [Recurring!Next]_Recurring!vars
  PROVE  CreationsRead'
<1> DEFINE Made(h) == \/ request'[h] = request[h]
                      \/ \E r \in Recs, dto \in NewRecs :
                           /\ Recurring!CreateRecurring(h, r, dto)
                           /\ request'[h].rec = r /\ request'[h].row = recs'[r]
                           /\ request'[h].make = {}
                      \/ /\ Recurring!BackfillLook(h)
                         /\ request'[h].rec = request[h].rec
                         /\ request'[h].row = request[h].row
                         /\ request'[h].make =
                              {d \in {<<m, Recurring!Clamp(m, request[h].row.day)>> :
                                        m \in Recurring!MonthsToFill(request[h].row)} :
                                 expenses[request[h].rec][d] = 0}
<1>1. \A h \in Creators : request'[h] # None => Made(h)
  BY CreationStep
<1>2. \A h \in Creators : request[h] # None => request[h].rec \in Recs
  BY DEF Recurring!TypeOK, Recurring!Creation
<1> DEFINE Read(q) == /\ q.rec \in Recurring!Live' \cup gone'
                      /\ q.rec \in Recurring!Live' \ shifted' => q.row.day = recs'[q.rec].day
<1>3. ASSUME NEW h \in Creators, request[h] # None PROVE Read(request[h])
  <2>1. PICK q : q = request[h]
    OBVIOUS
  <2>2. q.rec \in Recs /\ ReadRow(q.rec, q.row)
    BY <1>2, <1>3, <2>1 DEF CreationsRead
  <2>3. ReadRow(q.rec, q.row)'
    BY <2>2, ReadRowStep
  <2> QED BY <2>1, <2>3 DEF ReadRow
<1>4. ASSUME NEW h \in Creators, request'[h] # None
      PROVE  /\ Read(request'[h])
             /\ \A d \in request'[h].make :
                  d[2] = Recurring!Clamp(d[1], request'[h].row.day)
  <2>1. CASE request'[h] = request[h]
    <3>1. \A d \in request[h].make : d[2] = Recurring!Clamp(d[1], request[h].row.day)
      BY <1>4, <2>1 DEF CreationsRead
    <3> QED BY <1>4, <1>3, <2>1, <3>1
  <2>2. CASE \E r \in Recs, dto \in NewRecs :
               /\ Recurring!CreateRecurring(h, r, dto)
               /\ request'[h].rec = r /\ request'[h].row = recs'[r]
               /\ request'[h].make = {}
    <3>1. PICK r \in Recs : request'[h].rec = r /\ request'[h].row = recs'[r]
            /\ \E dto \in NewRecs : Recurring!CreateRecurring(h, r, dto)
      BY <2>2
    <3>2. recs'[r] # None
      <4>1. PICK dto \in NewRecs : Recurring!CreateRecurring(h, r, dto)
        BY <3>1
      <4> DEFINE row == [day |-> dto.day, start |-> dto.start, total |-> dto.total,
                         active |-> TRUE]
      <4>2. row \in Recurring!Rec
        BY <4>1 DEF Recurring!CreateRecurring, Recurring!CreateRecurringExpenseDto,
           Recurring!Rec
      <4>3. recs'[r] = row
        BY <4>1 DEF Recurring!CreateRecurring, Recurring!TypeOK
      <4> HIDE DEF row
      <4> QED BY <4>2, <4>3 DEF Recurring!ConstantsAssumption
    <3>3. r \in Recurring!Live'
      BY <3>2 DEF Recurring!Live
    <3> QED BY <2>2, <3>1, <3>3
  <2>3. CASE /\ Recurring!BackfillLook(h)
             /\ request'[h].rec = request[h].rec
             /\ request'[h].row = request[h].row
             /\ request'[h].make =
                  {d \in {<<m, Recurring!Clamp(m, request[h].row.day)>> :
                            m \in Recurring!MonthsToFill(request[h].row)} :
                     expenses[request[h].rec][d] = 0}
    <3>1. request[h] # None
      BY <2>3 DEF Recurring!BackfillLook
    <3>2. Read(request[h])
      BY <1>3, <3>1
    <3>3. \A d \in request'[h].make : d[2] = Recurring!Clamp(d[1], request[h].row.day)
      BY <2>3
    <3> QED BY <2>3, <3>2, <3>3
  <2> QED BY <1>1, <1>4, <2>1, <2>2, <2>3
<1>5. ASSUME NEW h \in Creators, NEW k \in Creators, request'[h] # None, request'[k] # None,
             request'[h].rec = request'[k].rec
      PROVE  h = k
  <2>1. \A x \in Creators : request'[x] # None =>
          \/ request[x] # None /\ request'[x].rec = request[x].rec
          \/ \E r \in Recs, dto \in NewRecs :
               Recurring!CreateRecurring(x, r, dto) /\ request'[x].rec = r
    BY <1>1 DEF Recurring!BackfillLook
  <2>2. ASSUME NEW x \in Creators, NEW y \in Creators, NEW r \in Recs, NEW dto \in NewRecs,
               Recurring!CreateRecurring(x, r, dto), request'[y] # None, request'[y].rec = r
        PROVE  x = y
    <3>1. CASE request[y] # None /\ request[y].rec = r
      <4>1. r \in Recurring!Live \cup gone
        BY <3>1 DEF CreationsRead, ReadRow
      <4> QED BY <2>2, <4>1 DEF Recurring!CreateRecurring
    <3>2. CASE ~(request[y] # None /\ request[y].rec = r)
      <4>1. x # y => request'[y] = request[y]
        BY <2>2 DEF Recurring!CreateRecurring, Recurring!TypeOK
      <4> QED BY <2>2, <3>2, <4>1
    <3> QED BY <3>1, <3>2
  <2> QED BY <1>5, <2>1, <2>2 DEF CreationsRead
<1> QED
  BY <1>4, <1>5 DEF CreationsRead, ReadRow, Recurring!Clamp, Recurring!LastOf, Recurring!Days

\* The expenses of a row that stays, and whose expenses nobody moves, are only added to.
LEMMA ExpensesStep ==
  ASSUME Recurring!ConstantsAssumption, Recurring!TypeOK, EntriesRead, CreationsRead,
         [Recurring!Next]_Recurring!vars, NEW r \in Recs
  PROVE  \/ expenses'[r] = expenses[r]
         \/ \E h \in Creators :
              /\ Recurring!BackfillMake(h) /\ request[h].rec = r /\ r \in Recurring!Live
              /\ expenses'[r] = [d \in Recurring!Dates |->
                                   expenses[r][d] + IF d \in request[h].make THEN 1 ELSE 0]
         \/ \E s \in Servers :
              /\ Recurring!Generate(s) /\ r \in Recurring!Live
              /\ \E e \in run[s].make : e.rec = r
              /\ expenses'[r] = [expenses[r] EXCEPT ![<<Recurring!Month, Calendar[today].day>>]
                                   = expenses[r][<<Recurring!Month, Calendar[today].day>>] + 1]
         \/ r \notin Recurring!Live' /\ \A d \in Recurring!Dates : expenses'[r][d] = 0
         \/ r \in shifted' /\ UNCHANGED recs /\ \E d \in Recurring!Dates : expenses[r][d] > 0
<1> DEFINE G ==
         \/ expenses'[r] = expenses[r]
         \/ \E h \in Creators :
              /\ Recurring!BackfillMake(h) /\ request[h].rec = r /\ r \in Recurring!Live
              /\ expenses'[r] = [d \in Recurring!Dates |->
                                   expenses[r][d] + IF d \in request[h].make THEN 1 ELSE 0]
         \/ \E s \in Servers :
              /\ Recurring!Generate(s) /\ r \in Recurring!Live
              /\ \E e \in run[s].make : e.rec = r
              /\ expenses'[r] = [expenses[r] EXCEPT ![<<Recurring!Month, Calendar[today].day>>]
                                   = expenses[r][<<Recurring!Month, Calendar[today].day>>] + 1]
         \/ r \notin Recurring!Live' /\ \A d \in Recurring!Dates : expenses'[r][d] = 0
         \/ r \in shifted' /\ UNCHANGED recs /\ \E d \in Recurring!Dates : expenses[r][d] > 0
<1> USE DEF Recurring!TypeOK
<1>1. ASSUME NEW h \in Creators, Recurring!BackfillMake(h) PROVE G
  <2> DEFINE q == request[h].rec
             new == [d \in Recurring!Dates |->
                       expenses[q][d] + IF d \in request[h].make THEN 1 ELSE 0]
  <2>1. \/ q \in Recurring!Live /\ expenses' = [expenses EXCEPT ![q] = new]
        \/ expenses' = expenses
    BY <1>1 DEF Recurring!BackfillMake
  <2>2. q = r => new = [d \in Recurring!Dates |->
                          expenses[r][d] + IF d \in request[h].make THEN 1 ELSE 0]
    OBVIOUS
  <2> HIDE DEF new
  <2>3. CASE expenses'[r] = expenses[r]
    BY <2>3
  <2>4. CASE expenses'[r] # expenses[r]
    BY <1>1, <2>1, <2>2, <2>4
  <2> QED BY <2>3, <2>4
<1>2. ASSUME NEW q \in Recs, Recurring!RemoveRecurring(q) PROVE G
  <2>1. recs' = [recs EXCEPT ![q] = None]
        /\ expenses' = [expenses EXCEPT ![q] = [d \in Recurring!Dates |-> 0]]
    BY <1>2 DEF Recurring!RemoveRecurring
  <2>2. CASE q = r
    BY <2>1, <2>2 DEF Recurring!Live
  <2>3. CASE q # r
    BY <2>1, <2>3
  <2> QED BY <2>2, <2>3
<1>3. ASSUME NEW q \in Recs, NEW d \in Recurring!Dates, Recurring!RemoveExpense(q, d) PROVE G
  <2>1. CASE q = r
    BY <1>3, <2>1 DEF Recurring!RemoveExpense, Recurring!recVars
  <2>2. CASE q # r
    BY <1>3, <2>2 DEF Recurring!RemoveExpense
  <2> QED BY <2>1, <2>2
<1>4. ASSUME NEW q \in Recs, NEW d \in Recurring!Dates, NEW e \in Recurring!Dates,
             Recurring!MoveExpense(q, d, e)
      PROVE  G
  <2>1. CASE q = r
    BY <1>4, <2>1 DEF Recurring!MoveExpense, Recurring!recVars
  <2>2. CASE q # r
    BY <1>4, <2>2 DEF Recurring!MoveExpense
  <2> QED BY <2>1, <2>2
<1>5. ASSUME NEW s \in Servers, Recurring!Generate(s) PROVE G
  <2> DEFINE date == <<Recurring!Month, Calendar[today].day>>
             ids == {e.rec : e \in run[s].make}
  <2>1. \/ UNCHANGED expenses
        \/ /\ ids \subseteq Recurring!Live
           /\ expenses' = [x \in Recs |->
                IF x \in ids THEN [expenses[x] EXCEPT ![date] = @ + 1] ELSE expenses[x]]
    BY <1>5 DEF Recurring!Generate
  <2>2. CASE UNCHANGED expenses
    BY <2>2
  <2>3. CASE /\ ids \subseteq Recurring!Live
             /\ expenses' = [x \in Recs |->
                  IF x \in ids THEN [expenses[x] EXCEPT ![date] = @ + 1] ELSE expenses[x]]
    <3>1. CASE r \in ids
      <4>1. r \in Recurring!Live /\ \E e \in run[s].make : e.rec = r
        BY <2>3, <3>1
      <4>2. expenses'[r] = [expenses[r] EXCEPT ![date] = expenses[r][date] + 1]
        BY <2>3, <3>1
      <4> QED BY <1>5, <4>1, <4>2
    <3>2. CASE r \notin ids
      BY <2>3, <3>2
    <3> QED BY <3>1, <3>2
  <2> QED BY <2>1, <2>2, <2>3
<1>6. ASSUME NEW s \in Servers, Recurring!Job(s), ~Recurring!Generate(s) PROVE G
  BY <1>6 DEF Recurring!Job, Recurring!Fire, Recurring!EndOver, Recurring!Look,
     Recurring!JobFails, Recurring!Crash, Recurring!Boot
<1>7. ASSUME NEW h \in Creators,
             \/ \E q \in Recs, dto \in NewRecs : Recurring!CreateRecurring(h, q, dto)
             \/ Recurring!BackfillLook(h) \/ Recurring!BackfillCut(h)
      PROVE  G
  BY <1>7 DEF Recurring!CreateRecurring, Recurring!BackfillLook, Recurring!BackfillCut
<1>8. ASSUME NEW q \in Recs, NEW dto, Recurring!UpdateRecurring(q, dto) PROVE G
  BY <1>8 DEF Recurring!UpdateRecurring
<1>9. CASE Recurring!DayPasses \/ UNCHANGED Recurring!vars
  BY <1>9 DEF Recurring!DayPasses, Recurring!vars
<1>10. G
  BY <1>1, <1>2, <1>3, <1>4, <1>5, <1>6, <1>7, <1>8, <1>9 DEF Recurring!Next,
     Recurring!Household
<1> QED BY <1>10

LEMMA ExpensesOnDayStep ==
  ASSUME Recurring!ConstantsAssumption, Recurring!TypeOK, EntriesRead, CreationsRead,
         ExpensesOnDay, [Recurring!Next]_Recurring!vars
  PROVE  ExpensesOnDay'
<1> SUFFICES ASSUME NEW r \in Recs, NEW d \in Recurring!Dates
             PROVE  /\ r \notin Recurring!Live' => expenses'[r][d] = 0
                    /\ r \in Recurring!Live' \ shifted' /\ expenses'[r][d] > 0
                         => d[2] = Recurring!Clamp(d[1], recs'[r].day)
  BY DEF ExpensesOnDay, Recurring!Clamp, Recurring!LastOf, Recurring!Days, Recurring!Dates
<1>1. /\ expenses[r][d] \in Nat /\ expenses'[r][d] \in Nat
      /\ r \notin Recurring!Live => expenses[r][d] = 0
      /\ r \in Recurring!Live \ shifted /\ expenses[r][d] > 0
           => d[2] = Recurring!Clamp(d[1], recs[r].day)
  BY RecurringTypesStep DEF ExpensesOnDay, Recurring!TypeOK
<1>2. CASE expenses'[r] = expenses[r]
  <2>1. CASE r \notin Recurring!Live
    BY <1>1, <1>2, <2>1
  <2>2. CASE r \in Recurring!Live /\ r \in Recurring!Live'
    BY <1>1, <1>2, <2>2, RowsStep
  <2>3. CASE r \in Recurring!Live /\ r \notin Recurring!Live'
    <3>1. Recurring!RemoveRecurring(r)
      BY <2>3, RowsStep
    <3>2. expenses'[r][d] = 0
      BY <3>1 DEF Recurring!RemoveRecurring, Recurring!TypeOK
    <3> QED BY <2>3, <3>2
  <2> QED BY <2>1, <2>2, <2>3
<1>3. ASSUME NEW h \in Creators, Recurring!BackfillMake(h), request[h].rec = r,
             r \in Recurring!Live,
             expenses'[r] = [x \in Recurring!Dates |->
                               expenses[r][x] + IF x \in request[h].make THEN 1 ELSE 0]
      PROVE  /\ r \notin Recurring!Live' => expenses'[r][d] = 0
             /\ r \in Recurring!Live' \ shifted' /\ expenses'[r][d] > 0
                  => d[2] = Recurring!Clamp(d[1], recs'[r].day)
  <2>1. UNCHANGED <<recs, shifted>>
    BY <1>3 DEF Recurring!BackfillMake, Recurring!recVars
  <2>2. r \in Recurring!Live'
    BY <1>3, <2>1 DEF Recurring!Live
  <2>3. CASE d \in request[h].make
    <3>1. d[2] = Recurring!Clamp(d[1], request[h].row.day)
      BY <1>3, <2>3 DEF CreationsRead, Recurring!BackfillMake
    <3>2. r \notin shifted => request[h].row.day = recs[r].day
      BY <1>3 DEF CreationsRead, Recurring!BackfillMake, ReadRow
    <3> QED BY <2>1, <2>2, <3>1, <3>2
  <2>4. CASE d \notin request[h].make
    BY <1>1, <1>3, <2>1, <2>2, <2>4
  <2> QED BY <2>3, <2>4
<1>4. ASSUME NEW s \in Servers, Recurring!Generate(s), r \in Recurring!Live,
             \E e \in run[s].make : e.rec = r,
             expenses'[r] = [expenses[r] EXCEPT ![<<Recurring!Month, Calendar[today].day>>]
                               = expenses[r][<<Recurring!Month, Calendar[today].day>>] + 1]
      PROVE  /\ r \notin Recurring!Live' => expenses'[r][d] = 0
             /\ r \in Recurring!Live' \ shifted' /\ expenses'[r][d] > 0
                  => d[2] = Recurring!Clamp(d[1], recs'[r].day)
  <2> DEFINE date == <<Recurring!Month, Calendar[today].day>>
  <2>1. UNCHANGED <<recs, shifted>>
    BY <1>4 DEF Recurring!Generate, Recurring!recVars
  <2>2. r \in Recurring!Live'
    BY <1>4, <2>1 DEF Recurring!Live
  <2>3. CASE d = date
    <3>1. PICK e \in run[s].make : e.rec = r
      BY <1>4
    <3>2. Recurring!Clamp(Recurring!Month, e.row.day) = Calendar[today].day
          /\ (r \notin shifted => e.row.day = recs[r].day)
      BY <1>4, <3>1 DEF EntriesRead, ReadRow
    <3> QED BY <2>1, <2>2, <2>3, <3>2
  <2>4. CASE d # date
    <3>1. expenses'[r][d] = expenses[r][d]
      BY <1>4, <2>4 DEF Recurring!TypeOK
    <3> QED BY <1>1, <2>1, <2>2, <3>1
  <2> QED BY <2>3, <2>4
<1>5. CASE r \notin Recurring!Live' /\ \A x \in Recurring!Dates : expenses'[r][x] = 0
  BY <1>5
<1>6. CASE r \in shifted' /\ UNCHANGED recs /\ \E x \in Recurring!Dates : expenses[r][x] > 0
  <2>1. r \in Recurring!Live'
    BY <1>6 DEF ExpensesOnDay, Recurring!TypeOK, Recurring!Live
  <2> QED BY <1>6, <2>1
<1> QED BY <1>2, <1>3, <1>4, <1>5, <1>6, ExpensesStep

-----------------------------------------------------------------------------
(* Recurring expenses: one expense a month.                                 *)

\* The rows that a run is about to insert for.
Making(s) == {e.rec : e \in run[s].make}

\* While nobody looked a row up as another was about to insert for it, one inserts at
\* most, and where it will, there is no expense yet.
InsertedOnce(r) ==
  /\ \A d \in Recurring!Dates : expenses[r][d] <= 1
  /\ \A s \in Servers : r \in Making(s) =>
       /\ expenses[r][<<Recurring!Month, Calendar[today].day>>] = 0
       /\ \A t \in Servers : r \in Making(t) => t = s
       /\ \A h \in Creators : request[h] # None => request[h].rec # r
  /\ \A h \in Creators : request[h] # None /\ request[h].rec = r =>
       \A d \in request[h].make : expenses[r][d] = 0

NotTwice == \A r \in Recurring!Live \ (shifted \cup crossed) : InsertedOnce(r)

\* An entry is to be inserted because it was so before, or because it was looked up.
LEMMA MakingStep ==
  ASSUME Recurring!ConstantsAssumption, Recurring!TypeOK, [Recurring!Next]_Recurring!vars,
         NEW s \in Servers, NEW r \in Recs, r \in Making(s)'
  PROVE  /\ today' = today
         /\ \/ r \in Making(s)
            \/ /\ Recurring!Look(s)
               /\ expenses[r][<<Recurring!Month, Calendar[today].day>>] = 0
               /\ r \in Recurring!AboutToInsert(s) => r \in crossed'
<1> DEFINE date == <<Recurring!Month, Calendar[today].day>>
<1> USE DEF Recurring!TypeOK
<1>1. PICK e \in run'[s].make : e.rec = r
  BY DEF Making
<1>2. run'[s] # Recurring!Idle
  BY <1>1 DEF Recurring!Idle
<1>3. today' = today
  BY <1>2, StepKinds DEF Recurring!DayPasses, Recurring!vars
<1>4. ASSUME Recurring!Look(s), r \notin Making(s)
      PROVE  /\ expenses[r][date] = 0
             /\ r \in Recurring!AboutToInsert(s) => r \in crossed'
  <2>1. PICK f \in run[s].todo :
          /\ run' = [run EXCEPT ![s].todo = @ \ {f},
               ![s].make = IF expenses[f.rec][date] > 0 THEN @ ELSE @ \cup {f}]
          /\ crossed' = IF f.rec \in Recurring!AboutToInsert(s)
                          THEN crossed \cup {f.rec} ELSE crossed
    BY <1>4 DEF Recurring!Look
  <2>2. run[s] \in Recurring!Run
    OBVIOUS
  <2>3. run'[s].make = IF expenses[f.rec][date] > 0 THEN run[s].make
                                                     ELSE run[s].make \cup {f}
    BY <2>1, <2>2 DEF Recurring!Run
  <2>4. e = f /\ ~(expenses[f.rec][date] > 0)
    BY <1>1, <1>4, <2>3 DEF Making
  <2>5. expenses[r][date] \in Nat
    BY TodayIsDate
  <2> QED BY <1>1, <2>1, <2>4, <2>5
<1>5. ASSUME Recurring!Fire(s) PROVE FALSE
  BY <1>1, <1>5 DEF Recurring!Fire
<1>6. ASSUME run'[s].make = run[s].make PROVE r \in Making(s)
  BY <1>1, <1>6 DEF Making
<1> QED BY <1>2, <1>3, <1>4, <1>5, <1>6, RunStep

LEMMA NotTwiceStep ==
  ASSUME Recurring!ConstantsAssumption, Recurring!TypeOK, EntriesRead, CreationsRead,
         ExpensesOnDay, NotTwice, [Recurring!Next]_Recurring!vars
  PROVE  NotTwice'
<1> DEFINE date == <<Recurring!Month, Calendar[today].day>>
<1> SUFFICES ASSUME NEW r \in Recs, r \in Recurring!Live' \ (shifted' \cup crossed')
             PROVE  InsertedOnce(r)'
  BY DEF NotTwice, Recurring!Live
<1>a. r \notin shifted \cup crossed
  BY RowsStep
<1>1. CASE r \notin Recurring!Live
  <2>1. r \notin gone /\ \E h \in Creators, dto \in NewRecs :
          Recurring!CreateRecurring(h, r, dto)
    BY <1>1, RowsStep
  <2>2. PICK h \in Creators, dto \in NewRecs : Recurring!CreateRecurring(h, r, dto)
    BY <2>1
  <2>3. UNCHANGED <<expenses, run>>
    BY <2>2 DEF Recurring!CreateRecurring, Recurring!jobVars
  <2>4. \A d \in Recurring!Dates : expenses'[r][d] = 0
    BY <1>1, <2>3 DEF ExpensesOnDay
  <2>5. \A s \in Servers : r \notin Making(s)'
    BY <1>1, <2>1, <2>3 DEF Making, EntriesRead, ReadRow
  <2>6. ASSUME NEW k \in Creators, request'[k] # None, request'[k].rec = r
        PROVE  request'[k].make = {}
    <3>1. request'[k] # request[k]
      BY <1>1, <2>1, <2>6 DEF CreationsRead, ReadRow
    <3>2. k = h
      BY <2>2, <3>1 DEF Recurring!CreateRecurring, Recurring!TypeOK
    <3>3. ~Recurring!BackfillLook(k)
      BY <2>2, <3>2 DEF Recurring!BackfillLook, Recurring!CreateRecurring
    <3> QED BY <2>6, <3>1, <3>3, CreationStep
  <2>7. \A d \in Recurring!Dates : expenses'[r][d] <= 1
    BY <2>4
  <2> QED BY <2>5, <2>6, <2>7 DEF InsertedOnce, Recurring!Dates, Recurring!Days
<1>2. CASE r \in Recurring!Live
  <2>1. InsertedOnce(r)
    BY <1>2, <1>a DEF NotTwice
  <2>b. \A h \in Creators, dto \in NewRecs : ~Recurring!CreateRecurring(h, r, dto)
    BY <1>2 DEF Recurring!CreateRecurring
  <2>c. expenses[r] \in [Recurring!Dates -> Nat] /\ expenses'[r] \in [Recurring!Dates -> Nat]
    BY RecurringTypesStep DEF Recurring!TypeOK, Recurring!Dates, Recurring!Days
  \* What can happen to the expenses.
  <2>2. \/ expenses'[r] = expenses[r]
        \/ \E h \in Creators :
             /\ Recurring!BackfillMake(h) /\ request[h].rec = r
             /\ expenses'[r] = [d \in Recurring!Dates |->
                                  expenses[r][d] + IF d \in request[h].make THEN 1 ELSE 0]
        \/ \E s \in Servers :
             /\ Recurring!Generate(s) /\ r \in Making(s)
             /\ expenses'[r] = [expenses[r] EXCEPT ![date] = expenses[r][date] + 1]
    <3>1. \A s \in Servers : (\E e \in run[s].make : e.rec = r) => r \in Making(s)
      BY DEF Making
    <3> QED BY <3>1, ExpensesStep
  <2>3. \A d \in Recurring!Dates : expenses'[r][d] <= 1
    <3>1. ASSUME NEW h \in Creators, Recurring!BackfillMake(h), request[h].rec = r
          PROVE  \A d \in Recurring!Dates : d \in request[h].make => expenses[r][d] = 0
      BY <2>1, <3>1 DEF InsertedOnce, Recurring!BackfillMake
    <3>2. \A d \in Recurring!Dates : expenses[r][d] <= 1
      BY <2>1 DEF InsertedOnce
    <3>3. \A s \in Servers : r \in Making(s) => expenses[r][date] = 0
      BY <2>1 DEF InsertedOnce
    <3> HIDE DEF date
    <3> TAKE d \in Recurring!Dates
    <3>4. expenses[r][d] \in Nat
      BY <2>c
    <3>5. CASE expenses'[r] = expenses[r]
      BY <3>2, <3>5
    <3>6. ASSUME NEW h \in Creators, Recurring!BackfillMake(h), request[h].rec = r,
                 expenses'[r] = [x \in Recurring!Dates |->
                                   expenses[r][x] + IF x \in request[h].make THEN 1 ELSE 0]
          PROVE  expenses'[r][d] <= 1
      BY <3>1, <3>2, <3>4, <3>6
    <3>7. ASSUME NEW s \in Servers, r \in Making(s),
                 expenses'[r] = [expenses[r] EXCEPT ![date] = expenses[r][date] + 1]
          PROVE  expenses'[r][d] <= 1
      BY <2>c, <3>2, <3>3, <3>7
    <3> QED BY <2>2, <3>5, <3>6, <3>7
  <2>4. ASSUME NEW s \in Servers, r \in Making(s)'
        PROVE  /\ today' = today
               /\ expenses'[r][date] = 0
               /\ \A t \in Servers : r \in Making(t)' => t = s
               /\ \A h \in Creators : request'[h] # None => request'[h].rec # r
    <3>1. today' = today
      BY <2>4, MakingStep
    <3>2. CASE r \in Making(s)
      <4>1. /\ expenses[r][date] = 0
            /\ \A t \in Servers : r \in Making(t) => t = s
            /\ \A h \in Creators : request[h] # None => request[h].rec # r
        BY <2>1, <3>2 DEF InsertedOnce
      <4>2. ~Recurring!Generate(s)
        <5> SUFFICES ASSUME Recurring!Generate(s) PROVE FALSE
          OBVIOUS
        <5>1. run'[s] = Recurring!Idle
          BY DEF Recurring!Generate, Recurring!TypeOK
        <5> QED BY <2>4, <5>1 DEF Making, Recurring!Idle
      <4>3. expenses'[r] = expenses[r]
        BY <2>2, <4>1, <4>2 DEF Recurring!BackfillMake
      <4>4. \A t \in Servers : r \in Making(t)' => t = s
        <5> TAKE t \in Servers
        <5>1. t # s => r \in Recurring!AboutToInsert(t)
          BY <3>2 DEF Recurring!AboutToInsert, Making
        <5> QED BY <4>1, <5>1, MakingStep
      <4>5. \A h \in Creators : request'[h] # None => request'[h].rec # r
        <5> TAKE h \in Creators
        <5>1. ~(Recurring!BackfillLook(h) /\ request[h].rec = r)
          BY <4>1 DEF Recurring!BackfillLook
        <5> QED BY <2>b, <4>1, <5>1, CreationStep
      <4> QED BY <3>1, <4>1, <4>3, <4>4, <4>5
    <3>3. CASE r \notin Making(s)
      <4>1. /\ Recurring!Look(s) /\ expenses[r][date] = 0
            /\ r \notin Recurring!AboutToInsert(s)
        BY <2>4, <3>3, MakingStep
      <4>2. UNCHANGED <<expenses, request>> /\ \A t \in Servers \ {s} : run'[t] = run[t]
        BY <4>1 DEF Recurring!Look, Recurring!TypeOK
      <4>3. \A t \in Servers \ {s} : r \notin Making(t)
        BY <4>1 DEF Recurring!AboutToInsert, Making
      <4>4. \A h \in Creators : h # s
        BY DEF Recurring!ConstantsAssumption
      <4>5. \A h \in Creators : request[h] # None => request[h].rec # r
        <5> SUFFICES ASSUME NEW h \in Creators, request[h] # None, request[h].rec = r
                     PROVE  r \in Recurring!AboutToInsert(s)
          BY <4>1
        <5>1. h \in {y \in Creators \ {s} : request[y] # None}
          BY <4>4
        <5> DEFINE others == UNION {Making(t) : t \in Servers \ {s}}
                   mine == {request[k].rec : k \in {y \in Creators \ {s} : request[y] # None}}
        <5>2. Recurring!AboutToInsert(s) = others \cup mine
          BY DEF Recurring!AboutToInsert, Making
        <5>3. r \in mine
          BY <5>1
        <5> QED BY <5>2, <5>3
      <4>6. \A t \in Servers \ {s} : r \notin Making(t)'
        BY <4>2, <4>3 DEF Making
      <4> QED BY <3>1, <4>1, <4>2, <4>5, <4>6
    <3> QED BY <3>2, <3>3
  <2>5. ASSUME NEW h \in Creators, request'[h] # None, request'[h].rec = r,
               NEW d \in request'[h].make
        PROVE  expenses'[r][d] = 0
    <3>1. request[h] # None /\ request[h].rec = r
      BY <2>5, <2>b, CreationStep DEF Recurring!BackfillLook
    <3>2. \A s \in Servers : r \notin Making(s)
      BY <2>1, <3>1 DEF InsertedOnce
    <3>3. \A k \in Creators : ~(Recurring!BackfillMake(k) /\ request[k].rec = r)
      <4> SUFFICES ASSUME NEW k \in Creators, Recurring!BackfillMake(k), request[k].rec = r
                   PROVE  FALSE
        OBVIOUS
      <4>1. k = h
        BY <3>1 DEF CreationsRead, Recurring!BackfillMake
      <4> QED BY <2>5, <4>1 DEF Recurring!BackfillMake, Recurring!TypeOK
    <3>4. expenses'[r] = expenses[r]
      BY <2>2, <3>2, <3>3
    <3>5. expenses[r][d] = 0
      BY <2>1, <2>5, <2>b, <3>1, CreationStep DEF InsertedOnce
    <3> QED BY <3>4, <3>5
  <2> QED
    BY <2>3, <2>4, <2>5 DEF InsertedOnce, Recurring!Month, Recurring!Dates, Recurring!Days
<1> QED BY <1>1, <1>2

-----------------------------------------------------------------------------
(* Recurring expenses: none is missed.                                      *)

\* An expense of a row is due on a day, and the row has not changed since the day before.
DueOn(r, d) ==
  /\ since[r] < d /\ recs[r].active /\ ~Recurring!Ended(recs[r], Calendar[d].month)
  /\ Recurring!Clamp(Calendar[d].month, recs[r].day) = Calendar[d].day

MadeOn(r, d) == expenses[r][<<Calendar[d].month, Calendar[d].day>>] > 0

\* A timer is to fire yet, or a run is to look the row up, or to insert for it.
StillToCome(r) ==
  \/ \E s \in up : s \notin fired
  \/ \E s \in Servers : \E e \in run[s].todo \cup run[s].make : e.rec = r

NoneMissed ==
  /\ \A r \in Recurring!Live : since[r] >= 1
  /\ \A r \in Recurring!Live \ shifted, d \in Recurring!Days \ troubled :
       d <= today /\ DueOn(r, d) => MadeOn(r, d) \/ (d = today /\ StillToCome(r))

\* A row that is due, as it is now, was due before the step.
LEMMA DueStep ==
  ASSUME Recurring!ConstantsAssumption, Recurring!TypeOK, [Recurring!Next]_Recurring!vars,
         NEW r \in Recurring!Live', NEW d \in Recurring!Days, d <= today, DueOn(r, d)'
  PROVE  r \in Recurring!Live /\ DueOn(r, d)
<1> USE DEF Recurring!TypeOK
<1>0. r \in Recs /\ today \in Int /\ d \in Int
  BY DEF Recurring!Live, Recurring!Days
<1>1. r \in Recurring!Live
  <2> SUFFICES ASSUME r \notin Recurring!Live PROVE FALSE
    OBVIOUS
  <2>1. PICK h \in Creators, dto \in NewRecs : Recurring!CreateRecurring(h, r, dto)
    BY RowsStep
  <2>2. since'[r] = today
    BY <1>0, <2>1 DEF Recurring!CreateRecurring
  <2> QED BY <1>0, <2>2 DEF DueOn
<1>2. CASE recs'[r] = recs[r] /\ since'[r] = since[r]
  BY <1>1, <1>2 DEF DueOn, Recurring!Ended, Recurring!Clamp, Recurring!LastOf, Recurring!Days
<1>3. ASSUME since'[r] = today PROVE FALSE
  BY <1>0, <1>3 DEF DueOn
<1>4. ASSUME NEW s \in Servers, Recurring!EndOver(s)
      PROVE  recs'[r] = recs[r] /\ since'[r] = since[r]
  <2>1. recs[r] \in Recurring!Rec
    BY <1>0, <1>1 DEF Recurring!Live
  <2>2. recs'[r] = recs[r] \/ recs'[r] = [recs[r] EXCEPT !.active = FALSE]
    BY <1>0, <1>4 DEF Recurring!EndOver
  <2>3. recs'[r].active
    BY DEF DueOn
  <2>4. recs'[r] = recs[r]
    BY <2>1, <2>2, <2>3 DEF Recurring!Rec
  <2> QED BY <1>4, <2>4 DEF Recurring!EndOver
<1>5. ASSUME NEW h \in Creators, NEW q \in Recs, NEW dto, Recurring!CreateRecurring(h, q, dto)
      PROVE  recs'[r] = recs[r] /\ since'[r] = since[r]
  BY <1>0, <1>1, <1>5 DEF Recurring!CreateRecurring
<1>6. ASSUME NEW q \in Recs, NEW dto, Recurring!UpdateRecurring(q, dto)
      PROVE  recs'[r] = recs[r] /\ since'[r] = since[r]
  <2>1. q # r
    BY <1>0, <1>3, <1>6 DEF Recurring!UpdateRecurring
  <2> QED BY <1>0, <1>6, <2>1 DEF Recurring!UpdateRecurring
<1>7. ASSUME NEW q \in Recs, Recurring!RemoveRecurring(q)
      PROVE  recs'[r] = recs[r] /\ since'[r] = since[r]
  <2>1. q # r
    BY <1>0, <1>7 DEF Recurring!RemoveRecurring, Recurring!Live
  <2> QED BY <1>0, <1>7, <2>1 DEF Recurring!RemoveRecurring
<1>8. ASSUME UNCHANGED <<recs, since>>
      PROVE  recs'[r] = recs[r] /\ since'[r] = since[r]
  BY <1>8
<1>9. recs'[r] = recs[r] /\ since'[r] = since[r]
  <2>1. ASSUME NEW s \in Servers, Recurring!Job(s), ~Recurring!EndOver(s)
        PROVE  UNCHANGED <<recs, since>>
    BY <2>1 DEF Recurring!Job, Recurring!Fire, Recurring!Look, Recurring!Generate,
       Recurring!JobFails, Recurring!Crash, Recurring!Boot, Recurring!recVars
  <2> QED
    BY <1>4, <1>5, <1>6, <1>7, <1>8, <2>1 DEF Recurring!Next, Recurring!Household,
       Recurring!BackfillLook, Recurring!BackfillMake, Recurring!BackfillCut,
       Recurring!RemoveExpense, Recurring!MoveExpense, Recurring!DayPasses, Recurring!vars,
       Recurring!recVars
<1> QED BY <1>1, <1>2, <1>9

\* What is made of a row that stays, and whose expenses nobody moves, is there still.
LEMMA MadeStep ==
  ASSUME Recurring!ConstantsAssumption, Recurring!TypeOK, EntriesRead, CreationsRead,
         [Recurring!Next]_Recurring!vars, NEW r \in Recurring!Live' \ shifted',
         r \in Recurring!Live, NEW d \in Recurring!Days, MadeOn(r, d)
  PROVE  MadeOn(r, d)'
<1> DEFINE date == <<Calendar[d].month, Calendar[d].day>>
<1>1. date \in Recurring!Dates
  BY CalendarDay DEF Recurring!Dates
<1>2. r \in Recs /\ expenses[r] \in [Recurring!Dates -> Nat]
  BY DEF Recurring!TypeOK, Recurring!Live
<1>3. expenses[r][date] \in Nat /\ expenses[r][date] > 0
  BY <1>1, <1>2 DEF MadeOn
<1> HIDE DEF date
<1>4. CASE expenses'[r] = expenses[r]
  BY <1>3, <1>4 DEF MadeOn, date
<1>5. ASSUME NEW h \in Creators,
             expenses'[r] = [x \in Recurring!Dates |->
                               expenses[r][x] + IF x \in request[h].make THEN 1 ELSE 0]
      PROVE  expenses'[r][date] > 0
  BY <1>1, <1>3, <1>5
<1>6. ASSUME expenses'[r] = [expenses[r] EXCEPT ![<<Recurring!Month, Calendar[today].day>>]
                               = expenses[r][<<Recurring!Month, Calendar[today].day>>] + 1]
      PROVE  expenses'[r][date] > 0
  BY <1>1, <1>2, <1>3, <1>6
<1>7. expenses'[r][date] > 0
  BY <1>2, <1>3, <1>4, <1>5, <1>6, ExpensesStep
<1> QED BY <1>7 DEF MadeOn, date

\* What is still to come today is made, or comes still, or the day is one of trouble.
LEMMA StillToComeStep ==
  ASSUME Recurring!ConstantsAssumption, Recurring!TypeOK, [Recurring!Next]_Recurring!vars,
         today' = today, NEW r \in Recurring!Live, recs[r].active,
         ~Recurring!Ended(recs[r], Recurring!Month),
         Recurring!Clamp(Recurring!Month, recs[r].day) = Calendar[today].day,
         StillToCome(r), ~StillToCome(r)', today \notin troubled'
  PROVE  MadeOn(r, today) \/ MadeOn(r, today)'
<1> DEFINE date == <<Recurring!Month, Calendar[today].day>>
           Entry(s) == \E e \in run[s].todo \cup run[s].make : e.rec = r
<1> USE DEF Recurring!TypeOK
<1>0. r \in Recs /\ today \in Recurring!Days
  BY DEF Recurring!Live
<1>1. ASSUME NEW s \in Servers, Recurring!Fire(s) PROVE StillToCome(r)'
  <2> DEFINE list == {[rec |-> x, row |-> recs[x]] :
                        x \in {y \in Recurring!Live : recs[y].active}}
             over == {e \in list : Recurring!Ended(e.row, Recurring!Month)}
             todo == {e \in list \ over :
                        Recurring!Clamp(Recurring!Month, e.row.day) = Calendar[today].day}
             e == [rec |-> r, row |-> recs[r]]
  <2>1. run'[s].todo = todo
    BY <1>1 DEF Recurring!Fire
  <2>2. e \in list
    OBVIOUS
  <2>3. e \in todo
    BY <2>2
  <2> HIDE DEF todo
  <2>4. e.rec = r
    OBVIOUS
  <2> QED BY <2>1, <2>3, <2>4 DEF StillToCome
<1>2. ASSUME NEW s \in Servers, s \notin fired, s \in up PROVE FALSE
  <2>1. s \in up' /\ s \notin fired'
    <3>1. \A t \in Servers : ~Recurring!Fire(t)
      BY <1>1
    <3>2. \A t \in Servers : ~Recurring!Crash(t)
      BY <1>0 DEF Recurring!Crash, Recurring!Trouble
    <3>3. ~Recurring!DayPasses
      BY <1>0 DEF Recurring!DayPasses, Recurring!Days
    <3>4. ASSUME NEW t \in Servers, Recurring!Job(t)
          PROVE  UNCHANGED <<fired, up>> \/ Recurring!Boot(t)
      <4>1. CASE Recurring!EndOver(t) \/ Recurring!Look(t)
        BY <4>1 DEF Recurring!EndOver, Recurring!Look
      <4>2. CASE Recurring!Generate(t) \/ Recurring!JobFails(t)
        BY <4>2 DEF Recurring!Generate, Recurring!JobFails
      <4> QED BY <3>1, <3>2, <3>4, <4>1, <4>2 DEF Recurring!Job
    <3>5. ASSUME NEW t \in Servers, Recurring!Boot(t) PROVE s \in up' /\ s \notin fired'
      BY <1>2, <3>5 DEF Recurring!Boot
    <3> QED
      BY <1>2, <3>3, <3>4, <3>5, StepKinds DEF Recurring!vars, Recurring!jobVars
  <2> QED BY <2>1 DEF StillToCome
<1>3. PICK s \in Servers : Entry(s)
  BY <1>2 DEF StillToCome
<1>4. \A e \in run'[s].todo \cup run'[s].make : e.rec # r
  BY DEF StillToCome
<1>5. CASE Recurring!Look(s)
  <2>1. PICK f \in run[s].todo :
          run' = [run EXCEPT ![s].todo = @ \ {f},
            ![s].make = IF expenses[f.rec][date] > 0 THEN @ ELSE @ \cup {f}]
    BY <1>5 DEF Recurring!Look
  <2>2. run[s] \in Recurring!Run
    OBVIOUS
  <2>3. /\ run'[s].todo = run[s].todo \ {f}
        /\ run'[s].make = IF expenses[f.rec][date] > 0 THEN run[s].make
                                                       ELSE run[s].make \cup {f}
    BY <2>1, <2>2 DEF Recurring!Run
  <2>4. f.rec = r /\ expenses[f.rec][date] > 0
    BY <1>3, <1>4, <2>3
  <2> QED BY <2>4 DEF MadeOn, Recurring!Month
<1>6. CASE run'[s] = Recurring!Idle
  <2>1. run'[s] # run[s]
    BY <1>3, <1>6 DEF Recurring!Idle
  <2>2. Recurring!Generate(s)
    <3>1. ASSUME NEW t \in Servers, Recurring!JobFails(t) \/ Recurring!Crash(t) PROVE FALSE
      BY <1>0, <3>1 DEF Recurring!JobFails, Recurring!Crash, Recurring!Trouble
    <3>2. ASSUME NEW t \in Servers, Recurring!Look(t) \/ Recurring!EndOver(t) PROVE t # s
      <4>1. run'[t].stage = "look"
        <5>1. run[t] \in Recurring!Run
          OBVIOUS
        <5>2. CASE Recurring!Look(t)
          BY <5>1, <5>2 DEF Recurring!Look, Recurring!Run
        <5>3. CASE Recurring!EndOver(t)
          <6>1. run' = [run EXCEPT ![t] = [run[t] EXCEPT !.stage = "look", !.over = {}]]
            BY <5>3 DEF Recurring!EndOver
          <6> QED BY <5>1, <6>1 DEF Recurring!Run
        <5> QED BY <3>2, <5>2, <5>3
      <4> QED BY <1>6, <4>1 DEF Recurring!Idle
    <3>3. \A t \in Servers : ~Recurring!Fire(t)
      BY <1>1
    <3>4. \E t \in Servers : Recurring!Job(t)
      BY <2>1, StepKinds DEF Recurring!DayPasses, Recurring!vars, Recurring!jobVars
    <3>5. PICK t \in Servers : Recurring!Job(t)
      BY <3>4
    <3>6. t = s
      BY <2>1, <3>1, <3>3, <3>5 DEF Recurring!Job, Recurring!Look, Recurring!EndOver,
         Recurring!Generate, Recurring!Boot
    <3>7. ~Recurring!Boot(s)
      BY <2>1 DEF Recurring!Boot
    <3> QED BY <3>1, <3>2, <3>3, <3>5, <3>6, <3>7 DEF Recurring!Job
  <2>3. {e.rec : e \in run[s].make} \subseteq Recurring!Live
    BY <1>0, <2>2 DEF Recurring!Generate, Recurring!Trouble
  <2>4. r \in {e.rec : e \in run[s].make}
    BY <1>3, <2>2 DEF Recurring!Generate
  <2>5. expenses'[r] = [expenses[r] EXCEPT ![date] = expenses[r][date] + 1]
    BY <1>0, <2>2, <2>3, <2>4 DEF Recurring!Generate
  <2>6. date \in Recurring!Dates /\ expenses[r] \in [Recurring!Dates -> Nat]
    BY <1>0, TodayIsDate
  <2> HIDE DEF date
  <2>7. expenses'[r][date] > 0
    BY <2>5, <2>6
  <2> QED BY <2>7 DEF MadeOn, date, Recurring!Month
<1>7. CASE run'[s].todo = run[s].todo /\ run'[s].make = run[s].make
  BY <1>3, <1>4, <1>7
<1>8. ~Recurring!Fire(s)
  BY <1>1
<1> QED BY <1>5, <1>6, <1>7, <1>8, RunStep

LEMMA NoneMissedStep ==
  ASSUME Recurring!ConstantsAssumption, Recurring!TypeOK, EntriesRead, CreationsRead,
         NoneMissed, [Recurring!Next]_Recurring!vars
  PROVE  NoneMissed'
<1> USE DEF Recurring!TypeOK
<1>0. today \in Recurring!Days /\ today \in Int /\ today >= 1
  BY DEF Recurring!Days
<1>a. today' = today \/ Recurring!DayPasses
  BY StepKinds DEF Recurring!vars
<1>b. troubled \subseteq troubled'
  <2>1. ASSUME NEW s \in Servers, Recurring!Job(s) PROVE troubled \subseteq troubled'
    BY <2>1 DEF Recurring!Job, Recurring!Fire, Recurring!EndOver, Recurring!Look,
       Recurring!Generate, Recurring!JobFails, Recurring!Crash, Recurring!Boot,
       Recurring!Trouble
  <2>2. ASSUME Recurring!DayPasses PROVE troubled \subseteq troubled'
    BY <2>2 DEF Recurring!DayPasses
  <2> QED BY <2>1, <2>2, StepKinds DEF Recurring!vars, Recurring!jobVars
<1>1. \A r \in Recurring!Live' : since'[r] >= 1
  <2> TAKE r \in Recurring!Live'
  <2>0. r \in Recs
    BY DEF Recurring!Live
  <2>1. CASE r \notin Recurring!Live
    <3>1. PICK h \in Creators, dto \in NewRecs : Recurring!CreateRecurring(h, r, dto)
      BY <2>1, RowsStep
    <3> QED BY <1>0, <2>0, <3>1 DEF Recurring!CreateRecurring
  <2>2. CASE r \in Recurring!Live
    <3>1. ASSUME Recurring!Household PROVE since'[r] = since[r] \/ since'[r] = today
      <4>1. ASSUME NEW h \in Creators, NEW q \in Recs, NEW dto,
                   Recurring!CreateRecurring(h, q, dto)
            PROVE  since'[r] = since[r] \/ since'[r] = today
        BY <2>0, <4>1 DEF Recurring!CreateRecurring
      <4>2. ASSUME NEW q \in Recs, NEW dto, Recurring!UpdateRecurring(q, dto)
            PROVE  since'[r] = since[r] \/ since'[r] = today
        BY <2>0, <4>2 DEF Recurring!UpdateRecurring
      <4>3. ASSUME NEW h \in Creators, \/ Recurring!BackfillLook(h)
                                      \/ Recurring!BackfillMake(h) \/ Recurring!BackfillCut(h)
            PROVE  since' = since
        BY <4>3 DEF Recurring!BackfillLook, Recurring!BackfillMake, Recurring!BackfillCut,
           Recurring!recVars
      <4>4. ASSUME NEW q \in Recs,
                   \/ Recurring!RemoveRecurring(q)
                   \/ \E d \in Recurring!Dates :
                        \/ Recurring!RemoveExpense(q, d)
                        \/ \E e \in Recurring!Dates : Recurring!MoveExpense(q, d, e)
            PROVE  since' = since
        BY <4>4 DEF Recurring!RemoveRecurring, Recurring!RemoveExpense,
           Recurring!MoveExpense, Recurring!recVars
      <4> QED BY <3>1, <4>1, <4>2, <4>3, <4>4 DEF Recurring!Household
    <3>2. since'[r] = since[r] \/ since'[r] = today
      BY <3>1, StepKinds DEF Recurring!DayPasses, Recurring!vars, Recurring!recVars
    <3> QED BY <1>0, <2>2, <3>2 DEF NoneMissed
  <2> QED BY <2>1, <2>2
<1>2. ASSUME NEW r \in Recurring!Live' \ shifted', NEW d \in Recurring!Days \ troubled',
             d <= today, DueOn(r, d)'
      PROVE  MadeOn(r, d)' \/ (d = today' /\ StillToCome(r)')
  <2>1. r \in Recurring!Live /\ DueOn(r, d) /\ r \notin shifted /\ d \notin troubled
    BY <1>2, <1>b, DueStep, RowsStep
  <2>2. MadeOn(r, d) \/ (d = today /\ StillToCome(r))
    BY <1>2, <2>1 DEF NoneMissed
  <2>3. CASE MadeOn(r, d)
    BY <1>2, <2>1, <2>3, MadeStep
  <2>4. CASE d = today /\ StillToCome(r) /\ ~MadeOn(r, d)
    <3>1. CASE today' = today
      <4>1. DueOn(r, today)
        BY <2>1, <2>4
      <4>2. MadeOn(r, today)' \/ StillToCome(r)'
        BY <1>2, <2>1, <2>4, <3>1, <4>1, StillToComeStep DEF DueOn, Recurring!Month
      <4> QED BY <2>4, <3>1, <4>2 DEF MadeOn
    <3>2. CASE Recurring!DayPasses
      <4>1. \A s \in Servers : run[s] = Recurring!Idle
        BY <3>2 DEF Recurring!DayPasses
      <4>2. ~StillToCome(r)
        BY <3>2, <4>1 DEF StillToCome, Recurring!DayPasses, Recurring!Idle
      <4> QED BY <2>4, <4>2
    <3> QED BY <1>a, <3>1, <3>2
  <2> QED BY <2>2, <2>3, <2>4
<1>3. ASSUME NEW r \in Recurring!Live' \ shifted', NEW d \in Recurring!Days \ troubled',
             d <= today', ~(d <= today)
      PROVE  d = today' /\ StillToCome(r)'
  <2>1. Recurring!DayPasses
    BY <1>3, <1>a
  <2>2. d \in Int /\ today' = today + 1
    BY <2>1 DEF Recurring!DayPasses, Recurring!Days
  <2>3. d = today'
    BY <1>0, <1>3, <2>2
  <2>4. up # {} /\ up' = up /\ fired' = {}
    BY <1>3, <2>1, <2>2, <2>3 DEF Recurring!DayPasses
  <2> QED BY <2>3, <2>4 DEF StillToCome
<1> QED BY <1>1, <1>2, <1>3 DEF NoneMissed, Recurring!Days

-----------------------------------------------------------------------------

\* What holds of the recurring expenses in every state.
RecurringInv ==
  /\ Recurring!TypeOK /\ EntriesRead /\ CreationsRead /\ ExpensesOnDay
  /\ NotTwice /\ NoneMissed

LEMMA RecurringInit ==
  ASSUME Recurring!ConstantsAssumption, Recurring!Init PROVE RecurringInv
<1>1. Recurring!TypeOK
  BY RecurringTypesInit
<1>2. Recurring!Live = {}
  BY DEF Recurring!Init, Recurring!Live
<1>3. EntriesRead
  BY DEF Recurring!Init, EntriesRead, Recurring!Idle
<1>4. CreationsRead
  BY DEF Recurring!Init, CreationsRead
<1>5. ExpensesOnDay
  BY <1>2 DEF Recurring!Init, ExpensesOnDay
<1>6. NotTwice /\ NoneMissed
  BY <1>2 DEF NotTwice, NoneMissed
<1> QED BY <1>1, <1>3, <1>4, <1>5, <1>6 DEF RecurringInv

\* The recurring expenses, what was generated and the counts keep their types.
THEOREM RecurringTypeCorrect ==
  ASSUME Recurring!ConstantsAssumption PROVE Recurring!Spec => []Recurring!TypeOK
<1>1. Recurring!Init => Recurring!TypeOK
  BY RecurringTypesInit
<1>2. Recurring!TypeOK /\ [Recurring!Next]_Recurring!vars => Recurring!TypeOK'
  BY RecurringTypesStep
<1> QED BY <1>1, <1>2, PTL DEF Recurring!Spec

\* The job and the creations make one expense a month of a recurring expense, but where
\* one looked it up as the other was about to insert for it; and the job misses none on a
\* day without trouble (autoGenerateRecurringExpenses and backfillRecurringExpense).
THEOREM GeneratedOnceHolds ==
  ASSUME Recurring!ConstantsAssumption PROVE Recurring!Spec => []Recurring!GeneratedOnce
<1>1. Recurring!Init => RecurringInv
  BY RecurringInit
<1>2. RecurringInv /\ [Recurring!Next]_Recurring!vars => RecurringInv'
  <2> SUFFICES ASSUME RecurringInv, [Recurring!Next]_Recurring!vars PROVE RecurringInv'
    OBVIOUS
  <2>1. Recurring!TypeOK'
    BY RecurringTypesStep DEF RecurringInv
  <2>2. EntriesRead' /\ CreationsRead' /\ ExpensesOnDay'
    BY EntriesReadStep, CreationsReadStep, ExpensesOnDayStep DEF RecurringInv
  <2>3. NotTwice' /\ NoneMissed'
    BY NotTwiceStep, NoneMissedStep DEF RecurringInv
  <2> QED BY <2>1, <2>2, <2>3 DEF RecurringInv
<1>3. RecurringInv => Recurring!GeneratedOnce
  <2> SUFFICES ASSUME RecurringInv, NEW r \in Recurring!Live \ shifted
               PROVE  /\ r \notin crossed =>
                           \A d \in Recurring!Dates :
                             /\ expenses[r][d] <= 1
                             /\ \A e \in Recurring!Dates \ {d} :
                                  d[1] = e[1] => expenses[r][d] = 0 \/ expenses[r][e] = 0
                      /\ \A d \in Recurring!Days \ troubled :
                           DueOn(r, d) /\ d < today => MadeOn(r, d)
    BY DEF Recurring!GeneratedOnce, DueOn, MadeOn
  <2>1. ASSUME r \notin crossed, NEW d \in Recurring!Dates PROVE expenses[r][d] <= 1
    BY <2>1 DEF RecurringInv, NotTwice, InsertedOnce
  <2>2. ASSUME NEW d \in Recurring!Dates, NEW e \in Recurring!Dates, d # e, d[1] = e[1]
        PROVE  expenses[r][d] = 0 \/ expenses[r][e] = 0
    <3>1. r \in Recs /\ expenses[r][d] \in Nat /\ expenses[r][e] \in Nat
      BY DEF RecurringInv, Recurring!TypeOK, Recurring!Live
    <3>2. /\ expenses[r][d] > 0 => d[2] = Recurring!Clamp(d[1], recs[r].day)
          /\ expenses[r][e] > 0 => e[2] = Recurring!Clamp(e[1], recs[r].day)
      BY <3>1 DEF RecurringInv, ExpensesOnDay
    <3>3. d = <<d[1], d[2]>> /\ e = <<e[1], e[2]>>
      BY DEF Recurring!Dates
    <3> QED BY <2>2, <3>1, <3>2, <3>3
  <2>3. ASSUME NEW d \in Recurring!Days \ troubled, DueOn(r, d), d < today PROVE MadeOn(r, d)
    <3>1. d \in Int /\ today \in Int
      BY DEF RecurringInv, Recurring!TypeOK, Recurring!Days
    <3>2. d <= today /\ d # today
      BY <2>3, <3>1
    <3> QED BY <2>3, <3>2 DEF RecurringInv, NoneMissed
  <2> QED BY <2>1, <2>2, <2>3
<1> QED BY <1>1, <1>2, <1>3, PTL DEF Recurring!Spec

-----------------------------------------------------------------------------
(* SavingsGoals: the types.                                                *)

\* The days, and what a day is.
LEMMA SavingsDays ==
  ASSUME Savings!ConstantsAssumption
  PROVE  /\ Len(Calendar) \in Nat /\ 1 \in Savings!Days /\ Savings!Days \subseteq Nat
         /\ \A d \in Savings!Days : Calendar[d].month \in Savings!Months
<1>1. Len(Calendar) \in Nat /\ Len(Calendar) # 0
  BY EmptySeq DEF Savings!ConstantsAssumption
<1> QED BY <1>1 DEF Savings!Days, Savings!Months

\* What a goal, a request and a run are.
LEMMA GoalTypes ==
  ASSUME Savings!TypeOK, NEW g \in Goals, Savings!Exists(g)
  PROVE  /\ goals[g] \in Savings!Goal
         /\ goals[g].auto \in BOOLEAN /\ goals[g].monthly \in {None} \cup Nat
         /\ goals[g].depositDay \in Nat /\ goals[g].status \in {"ACTIVE", "PAUSED"}
         /\ goals[g].amount \in Int
BY DEF Savings!TypeOK, Savings!Exists, Savings!Goal

LEMMA SavingsRequestTypes ==
  ASSUME Savings!TypeOK, NEW h \in Handlers, request[h] # None
  PROVE  /\ request[h] \in Savings!Request /\ request[h].goal \in Goals
         /\ request[h].op = "update" => request[h].dto \in Changes
         /\ request[h].op = "status" => request[h].status \in {"ACTIVE", "PAUSED"}
         /\ request[h].op = "withdraw" => request[h].amount \in Amounts /\ request[h].read \in Int
<1>1. request[h] \in Savings!Request
  BY DEF Savings!TypeOK
<1> QED BY <1>1 DEF Savings!Request

LEMMA SavingsRunTypes ==
  ASSUME Savings!TypeOK, NEW s \in Servers
  PROVE  /\ run[s] \in Savings!Run
         /\ run[s].stage \in {"idle", "loop", "pay"} /\ run[s].todo \subseteq Savings!Entry
         /\ run[s].paying \in {None} \cup Savings!Entry
         /\ \A e \in run[s].todo :
              e \in Savings!Entry /\ e.goal \in Goals /\ e.monthly \in {None} \cup Nat
<1>1. run[s] \in Savings!Run
  BY DEF Savings!TypeOK
<1> QED BY <1>1 DEF Savings!Run, Savings!Entry

\* A request comes in; a request writes the row of its goal.
LEMMA SavingsBegin ==
  ASSUME Savings!ConstantsAssumption, Savings!TypeOK, NEW h \in Handlers,
         NEW r \in Savings!Request, Savings!Begin(h, r)
  PROVE  Savings!TypeOK'
<1>1. request' \in [Handlers -> {None} \cup Savings!Request] /\ requests' \in 0..SavingsRequests
  BY DEF Savings!ConstantsAssumption, Savings!TypeOK, Savings!Begin, Savings!NewRequest
<1> QED BY <1>1 DEF Savings!TypeOK, Savings!Begin, Savings!goalVars, Savings!jobVars

LEMMA SavingsRequestCount ==
  ASSUME Savings!ConstantsAssumption, requests \in 0..SavingsRequests, Savings!NewRequest
  PROVE  requests' \in 0..SavingsRequests
BY DEF Savings!ConstantsAssumption, Savings!NewRequest

LEMMA SavingsWrite ==
  ASSUME Savings!ConstantsAssumption, Savings!TypeOK, NEW h \in Handlers, request[h] # None,
         NEW row \in Savings!Goal, Savings!Write(h, row)
  PROVE  Savings!TypeOK'
<1>1. request[h].goal \in Goals
  BY SavingsRequestTypes
<1>2. today \in 0..Len(Calendar)
  BY SavingsDays DEF Savings!TypeOK, Savings!Days
<1>3. /\ goals' \in [Goals -> {None} \cup Savings!Goal]
      /\ since' \in [Goals -> 0..Len(Calendar)]
      /\ request' \in [Handlers -> {None} \cup Savings!Request]
  BY <1>1, <1>2 DEF Savings!TypeOK, Savings!Write
<1> QED BY <1>3 DEF Savings!TypeOK, Savings!Write, Savings!jobVars

\* A row that a request has changed.
LEMMA SavingsRow ==
  ASSUME Savings!ConstantsAssumption, NEW row \in Savings!Goal
  PROVE  /\ \A dto \in Changes : Savings!Patched(row, dto) \in Savings!Goal
         /\ \A st \in {"ACTIVE", "PAUSED"} : [row EXCEPT !.status = st] \in Savings!Goal
         /\ \A n \in Int : [row EXCEPT !.amount = n] \in Savings!Goal
<1>1. ASSUME NEW dto \in Changes PROVE Savings!Patched(row, dto) \in Savings!Goal
  <2>1. /\ dto.auto \in {Keep} \cup BOOLEAN /\ dto.monthly \in {Keep, None} \cup Nat
        /\ dto.depositDay \in {Keep} \cup Nat
    BY DEF Savings!ConstantsAssumption
  <2> DEFINE a == IF dto.auto = Keep THEN row.auto ELSE dto.auto
             m == IF dto.auto = FALSE THEN None
                  ELSE IF dto.monthly = Keep THEN row.monthly ELSE dto.monthly
             d == IF dto.depositDay = Keep THEN row.depositDay ELSE dto.depositDay
  <2>2. a \in BOOLEAN /\ m \in {None} \cup Nat /\ d \in Nat
    BY <2>1 DEF Savings!Goal
  <2>3. Savings!Patched(row, dto) = [row EXCEPT !.auto = a, !.monthly = m, !.depositDay = d]
    BY DEF Savings!Patched, Savings!Goal
  <2> HIDE DEF a, m, d
  <2> QED BY <2>2, <2>3 DEF Savings!Goal
<1>2. \A st \in {"ACTIVE", "PAUSED"} : [row EXCEPT !.status = st] \in Savings!Goal
  BY DEF Savings!Goal
<1>3. \A n \in Int : [row EXCEPT !.amount = n] \in Savings!Goal
  BY DEF Savings!Goal
<1> QED BY <1>1, <1>2, <1>3

\* One server's run becomes another.
LEMMA SavingsSetRun ==
  ASSUME Savings!TypeOK, NEW s \in Servers, NEW r, run' = [run EXCEPT ![s] = r]
  PROVE  /\ r \in Savings!Run => run' \in [Servers -> Savings!Run]
         /\ run'[s] = r /\ \A o \in Servers \ {s} : run'[o] = run[o]
BY DEF Savings!TypeOK

\* One goal of the list is skipped or is to be paid.
LEMMA SavingsLook ==
  ASSUME Savings!TypeOK, NEW s \in Servers, Savings!Look(s)
  PROVE  \E e \in run[s].todo :
           LET skipped == e.monthly = None \/ autoRows[e.goal][Calendar[today].month] > 0 IN
             /\ skipped =>
                  run' = [run EXCEPT ![s] = [run[s] EXCEPT !.todo = run[s].todo \ {e}]]
             /\ ~skipped =>
                  run' = [run EXCEPT ![s] =
                            [stage |-> "pay", todo |-> run[s].todo \ {e}, paying |-> e]]
<1>1. PICK e \in run[s].todo :
        run' = [run EXCEPT ![s] =
          IF e.monthly = None \/ autoRows[e.goal][Calendar[today].month] > 0
            THEN [run[s] EXCEPT !.todo = @ \ {e}]
            ELSE [stage |-> "pay", todo |-> run[s].todo \ {e}, paying |-> e]]
  BY DEF Savings!Look
<1> QED BY <1>1 DEF Savings!TypeOK

LEMMA SavingsIdle == Savings!Idle \in Savings!Run
BY DEF Savings!Idle, Savings!Run

LEMMA SavingsFault ==
  ASSUME Savings!ConstantsAssumption, Savings!TypeOK, Savings!Fault
  PROVE  faults' \in 0..SavingsFaults
BY DEF Savings!ConstantsAssumption, Savings!TypeOK, Savings!Fault

LEMMA SavingsMembersTyped ==
  ASSUME Savings!ConstantsAssumption, Savings!TypeOK, Savings!Members PROVE Savings!TypeOK'
<1>1. ASSUME NEW g \in Goals, NEW dto \in NewGoals, Savings!CreateGoal(g, dto)
      PROVE  Savings!TypeOK'
  <2> DEFINE row == [auto |-> dto.auto, monthly |-> IF dto.auto THEN dto.monthly ELSE None,
                     depositDay |-> dto.depositDay, status |-> "ACTIVE", amount |-> 0]
  <2>1. /\ dto.auto \in BOOLEAN /\ dto.monthly \in {None} \cup Nat
        /\ dto.depositDay \in Nat
    BY DEF Savings!ConstantsAssumption
  <2>2. row \in Savings!Goal
    BY <2>1 DEF Savings!Goal
  <2>3. /\ goals' = [goals EXCEPT ![g] = row] /\ since' = [since EXCEPT ![g] = today]
        /\ UNCHANGED <<today, gone, autoRows, crossed, request, Savings!jobVars>> /\ Savings!NewRequest
    BY <1>1 DEF Savings!CreateGoal
  <2> HIDE DEF row
  <2>4. today \in 0..Len(Calendar)
    BY SavingsDays DEF Savings!TypeOK, Savings!Days
  <2>5. /\ goals' \in [Goals -> {None} \cup Savings!Goal] /\ since' \in [Goals -> 0..Len(Calendar)]
        /\ requests' \in 0..SavingsRequests
    BY <2>2, <2>3, <2>4 DEF Savings!ConstantsAssumption, Savings!NewRequest, Savings!TypeOK
  <2> QED BY <2>3, <2>5 DEF Savings!TypeOK, Savings!jobVars
<1>2. ASSUME NEW g \in Goals, Savings!DeleteGoal(g) PROVE Savings!TypeOK'
  <2>1. /\ goals' \in [Goals -> {None} \cup Savings!Goal] /\ gone' \subseteq Goals
        /\ requests' \in 0..SavingsRequests
    BY <1>2 DEF Savings!ConstantsAssumption, Savings!NewRequest, Savings!TypeOK,
       Savings!DeleteGoal
  <2>2. [m \in Savings!Months |-> 0] \in [Savings!Months -> Nat]
    OBVIOUS
  <2>3. autoRows' \in [Goals -> [Savings!Months -> Nat]]
    BY <1>2, <2>2 DEF Savings!TypeOK, Savings!DeleteGoal
  <2> QED BY <1>2, <2>1, <2>3 DEF Savings!TypeOK, Savings!DeleteGoal, Savings!jobVars
<1>3. ASSUME NEW g \in Goals, NEW a \in Amounts, Savings!Deposit(g, a) PROVE Savings!TypeOK'
  <2>1. [goals[g] EXCEPT !.amount = goals[g].amount + a] \in Savings!Goal
    <3>1. goals[g] \in Savings!Goal /\ goals[g].amount + a \in Int
      BY <1>3, GoalTypes DEF Savings!ConstantsAssumption, Savings!Deposit
    <3> QED BY <3>1, SavingsRow
  <2>2. goals' = [goals EXCEPT ![g] = [goals[g] EXCEPT !.amount = goals[g].amount + a]]
    BY <1>3 DEF Savings!Deposit, Savings!TypeOK
  <2>4. goals' \in [Goals -> {None} \cup Savings!Goal]
    BY <2>1, <2>2 DEF Savings!TypeOK
  <2>3. goals' \in [Goals -> {None} \cup Savings!Goal] /\ requests' \in 0..SavingsRequests
    BY <1>3, <2>4, SavingsRequestCount DEF Savings!TypeOK, Savings!Deposit
  <2> QED BY <1>3, <2>3 DEF Savings!TypeOK, Savings!Deposit, Savings!jobVars
<1>4. ASSUME NEW h \in Handlers, NEW g \in Goals,
             \/ \E dto \in Changes : Savings!UpdateRead(h, g, dto)
             \/ \E st \in {"ACTIVE", "PAUSED"} : Savings!StatusRead(h, g, st)
             \/ \E a \in Amounts : Savings!WithdrawRead(h, g, a)
      PROVE Savings!TypeOK'
  <2>1. \A dto \in Changes : [op |-> "update", goal |-> g, dto |-> dto] \in Savings!Request
    BY DEF Savings!Request
  <2>2. \A st \in {"ACTIVE", "PAUSED"} : [op |-> "status", goal |-> g, status |-> st] \in Savings!Request
    BY DEF Savings!Request
  <2>3. \A a \in Amounts : Savings!Exists(g) =>
          [op |-> "withdraw", goal |-> g, amount |-> a, read |-> goals[g].amount] \in Savings!Request
    BY GoalTypes DEF Savings!Request
  <2>4. \E r \in Savings!Request : Savings!Begin(h, r)
    BY <1>4, <2>1, <2>2, <2>3 DEF Savings!UpdateRead, Savings!StatusRead, Savings!WithdrawRead
  <2> QED BY <2>4, SavingsBegin
<1>5. ASSUME NEW h \in Handlers, Savings!UpdateWrite(h) \/ Savings!StatusWrite(h)
      PROVE  Savings!TypeOK'
  <2>1. request[h] # None /\ request[h].goal \in Goals /\ goals[request[h].goal] \in Savings!Goal
        /\ (request[h].op = "update" => request[h].dto \in Changes)
        /\ (request[h].op = "status" => request[h].status \in {"ACTIVE", "PAUSED"})
    BY <1>5, SavingsRequestTypes, GoalTypes DEF Savings!UpdateWrite, Savings!StatusWrite
  <2>2. \E row \in Savings!Goal : Savings!Write(h, row)
    BY <1>5, <2>1, SavingsRow DEF Savings!UpdateWrite, Savings!StatusWrite
  <2> QED BY <2>1, <2>2, SavingsWrite
<1>6. ASSUME NEW h \in Handlers, Savings!WithdrawWrite(h) PROVE Savings!TypeOK'
  <2> DEFINE g == request[h].goal
             n == goals[g].amount - request[h].amount
  <2>6. request[h] # None /\ request[h].op = "withdraw" /\ Savings!Exists(g)
    BY <1>6 DEF Savings!WithdrawWrite
  <2>7. g \in Goals /\ request[h].amount \in Nat
    BY <2>6, SavingsRequestTypes DEF Savings!ConstantsAssumption
  <2>8. goals[g] \in Savings!Goal /\ goals[g].amount \in Int
    BY <2>6, <2>7, GoalTypes
  <2>1. g \in Goals /\ goals[g] \in Savings!Goal /\ n \in Int
    BY <2>7, <2>8
  <2>2. goals' = [goals EXCEPT ![g] = [goals[g] EXCEPT !.amount = n]]
    BY <1>6, <2>1 DEF Savings!WithdrawWrite, Savings!TypeOK
  <2>3. crossed' \subseteq Goals
    BY <1>6, <2>1 DEF Savings!WithdrawWrite, Savings!TypeOK
  <2> HIDE DEF g, n
  <2>4. goals' \in [Goals -> {None} \cup Savings!Goal]
    BY <2>1, <2>2, SavingsRow DEF Savings!TypeOK
  <2>5. request' \in [Handlers -> {None} \cup Savings!Request]
    BY <1>6 DEF Savings!WithdrawWrite, Savings!TypeOK
  <2> QED BY <1>6, <2>3, <2>4, <2>5 DEF Savings!WithdrawWrite, Savings!TypeOK, Savings!jobVars
<1>7. ASSUME NEW h \in Handlers, Savings!WriteFails(h) PROVE Savings!TypeOK'
  BY <1>7 DEF Savings!WriteFails, Savings!TypeOK, Savings!goalVars, Savings!jobVars
<1> QED BY <1>1, <1>2, <1>3, <1>4, <1>5, <1>6, <1>7 DEF Savings!Members

\* A server that does nothing has no list, and one that pays has what it pays.
SavingsShape ==
  \A s \in Servers :
    /\ run[s].stage = "idle" => run[s] = Savings!Idle
    /\ run[s].stage = "pay" => run[s].paying \in Savings!Entry /\ run[s].paying.monthly \in Nat

LEMMA SavingsJobTyped ==
  ASSUME Savings!ConstantsAssumption, Savings!TypeOK, SavingsShape, NEW s \in Servers, Savings!Job(s)
  PROVE  Savings!TypeOK'
<1> USE DEF Savings!goalVars
<1>1. troubled \cup {today} \subseteq Savings!Days
  BY DEF Savings!TypeOK
<1>2. ASSUME Savings!Leave(s)
      PROVE  run' \in [Servers -> Savings!Run] /\ jobLock' \in {None} \cup Servers
  BY <1>2, SavingsIdle DEF Savings!Leave, Savings!Release, Savings!TypeOK
<1>3. CASE Savings!Fire(s)
  <2>1. Savings!Listed \subseteq Savings!Entry
    BY GoalTypes DEF Savings!Listed, Savings!Live, Savings!Entry
  <2>2. [stage |-> "loop", todo |-> Savings!Listed, paying |-> None] \in Savings!Run
    BY <2>1 DEF Savings!Run
  <2>3. run' \in [Servers -> Savings!Run] /\ jobLock' \in {None} \cup Servers
    BY <1>3, <2>2 DEF Savings!Fire, Savings!TypeOK
  <2> QED BY <1>3, <2>3 DEF Savings!Fire, Savings!TypeOK
<1>4. CASE Savings!Look(s)
  <2>1. \A e \in run[s].todo :
          /\ [run[s] EXCEPT !.todo = run[s].todo \ {e}] \in Savings!Run
          /\ [stage |-> "pay", todo |-> run[s].todo \ {e}, paying |-> e] \in Savings!Run
    BY SavingsRunTypes DEF Savings!Run
  <2>2. \E r \in Savings!Run : run' = [run EXCEPT ![s] = r]
    BY <1>4, <2>1, SavingsLook
  <2>3. run' \in [Servers -> Savings!Run]
    BY <2>2 DEF Savings!TypeOK
  <2> QED BY <1>4, <2>3 DEF Savings!Look, Savings!TypeOK
<1>5. CASE Savings!Pay(s)
  <2> DEFINE g == run[s].paying.goal
             m == Calendar[today].month
             n == goals[g].amount + run[s].paying.monthly
  <2>1. CASE Savings!Exists(g)
    <3>1. /\ goals' = [goals EXCEPT ![g].amount = @ + run[s].paying.monthly]
          /\ autoRows' = [autoRows EXCEPT ![g][m] = @ + 1]
          /\ run' = [run EXCEPT ![s].stage = "loop", ![s].paying = None]
          /\ UNCHANGED <<jobLock, troubled>>
      BY <1>5, <2>1 DEF Savings!Pay
    <3>2. [run[s] EXCEPT !.stage = "loop", !.paying = None] \in Savings!Run
      BY SavingsRunTypes DEF Savings!Run
    <3>3. run' \in [Servers -> Savings!Run]
      BY <3>1, <3>2 DEF Savings!TypeOK
    <3>4. goals' \in [Goals -> {None} \cup Savings!Goal] /\ autoRows' \in [Goals -> [Savings!Months -> Nat]]
      <4>1. g \in Goals /\ run[s].paying.monthly \in Nat
        BY <1>5 DEF Savings!Pay, SavingsShape, Savings!Entry
      <4>2. goals[g] \in Savings!Goal /\ n \in Int
        BY <2>1, <4>1, GoalTypes
      <4>3. [goals[g] EXCEPT !.amount = n] \in Savings!Goal
        BY <4>2, SavingsRow
      <4>4. goals' = [goals EXCEPT ![g] = [goals[g] EXCEPT !.amount = n]]
        BY <3>1, <4>1 DEF Savings!TypeOK
      <4>5. goals' \in [Goals -> {None} \cup Savings!Goal]
        BY <4>1, <4>3, <4>4 DEF Savings!TypeOK
      <4>6. m \in Savings!Months /\ autoRows[g] \in [Savings!Months -> Nat]
        BY <4>1, SavingsDays DEF Savings!TypeOK
      <4>7. [autoRows[g] EXCEPT ![m] = @ + 1] \in [Savings!Months -> Nat]
        BY <4>6
      <4>8. autoRows' = [autoRows EXCEPT ![g] = [autoRows[g] EXCEPT ![m] = @ + 1]]
        BY <3>1, <4>1, <4>6 DEF Savings!TypeOK
      <4> QED BY <4>1, <4>5, <4>7, <4>8 DEF Savings!TypeOK
    <3> QED BY <1>5, <3>1, <3>3, <3>4 DEF Savings!Pay, Savings!TypeOK
  <2>2. CASE ~Savings!Exists(g)
    <3>1. Savings!Leave(s) /\ Savings!Trouble /\ UNCHANGED <<goals, autoRows>>
      BY <1>5, <2>2 DEF Savings!Pay
    <3> QED BY <1>1, <1>2, <1>5, <3>1 DEF Savings!Pay, Savings!TypeOK, Savings!Trouble
  <2> QED BY <2>1, <2>2
<1>6. CASE Savings!Finish(s)
  BY <1>2, <1>6 DEF Savings!Finish, Savings!TypeOK
<1>7. CASE Savings!JobFails(s)
  BY <1>1, <1>2, <1>7, SavingsFault DEF Savings!JobFails, Savings!Trouble, Savings!TypeOK
<1>8. CASE Savings!Crash(s)
  <2>1. run' \in [Servers -> Savings!Run]
    BY <1>8, SavingsIdle DEF Savings!Crash, Savings!TypeOK
  <2> QED BY <1>1, <1>8, <2>1, SavingsFault DEF Savings!Crash, Savings!Trouble, Savings!TypeOK
<1>9. CASE Savings!Boot(s)
  BY <1>9 DEF Savings!Boot, Savings!TypeOK
<1> QED BY <1>3, <1>4, <1>5, <1>6, <1>7, <1>8, <1>9 DEF Savings!Job


\* What the step of a server does to its run.
LEMMA SavingsRunSteps ==
  ASSUME Savings!TypeOK, SavingsShape, NEW s \in Servers, Savings!Job(s)
  PROVE  /\ \A o \in Servers \ {s} : run'[o] = run[o]
         /\ \/ run' = run
            \/ run'[s] = Savings!Idle
            \/ run'[s].stage = "loop"
            \/ \E e \in run[s].todo :
                 run'[s] = [stage |-> "pay", todo |-> run[s].todo \ {e}, paying |-> e]
                 /\ e.monthly # None
<1>1. run \in [Servers -> Savings!Run] /\ run[s] \in Savings!Run
  BY DEF Savings!TypeOK
<1>2. CASE Savings!Fire(s)
  BY <1>1, <1>2 DEF Savings!Fire
<1>3. CASE Savings!Look(s)
  <2>1. \A e : [run[s] EXCEPT !.todo = run[s].todo \ {e}].stage = "loop"
    BY <1>1, <1>3 DEF Savings!Look, Savings!Run
  <2>2. PICK e \in run[s].todo :
          \/ run' = [run EXCEPT ![s] = [run[s] EXCEPT !.todo = run[s].todo \ {e}]]
          \/ e.monthly # None
             /\ run' = [run EXCEPT ![s] =
                          [stage |-> "pay", todo |-> run[s].todo \ {e}, paying |-> e]]
    BY <1>3, SavingsLook
  <2> QED BY <1>1, <2>1, <2>2
<1>4. CASE Savings!Pay(s)
  <2>1. [run[s] EXCEPT !.stage = "loop", !.paying = None].stage = "loop"
    BY <1>1 DEF Savings!Run
  <2>2. \/ run' = [run EXCEPT ![s] = [run[s] EXCEPT !.stage = "loop", !.paying = None]]
        \/ run' = [run EXCEPT ![s] = Savings!Idle]
    BY <1>1, <1>4 DEF Savings!Pay, Savings!Leave
  <2> QED BY <1>1, <2>1, <2>2
<1>5. CASE Savings!Finish(s) \/ Savings!JobFails(s) \/ Savings!Crash(s)
  BY <1>1, <1>5 DEF Savings!Finish, Savings!JobFails, Savings!Crash, Savings!Leave
<1>6. CASE Savings!Boot(s)
  BY <1>1, <1>6 DEF Savings!Boot
<1> QED BY <1>2, <1>3, <1>4, <1>5, <1>6 DEF Savings!Job

SavingsTyped == Savings!TypeOK /\ SavingsShape

LEMMA SavingsTypedStep ==
  ASSUME Savings!ConstantsAssumption, SavingsTyped, [Savings!Next]_(Savings!vars)
  PROVE  SavingsTyped'
<1> USE DEF SavingsTyped
<1>1. CASE Savings!Members
  <2>1. run' = run
    BY <1>1 DEF Savings!Members, Savings!CreateGoal, Savings!DeleteGoal, Savings!Deposit,
       Savings!UpdateRead, Savings!StatusRead, Savings!WithdrawRead, Savings!Begin,
       Savings!UpdateWrite, Savings!StatusWrite, Savings!WithdrawWrite, Savings!WriteFails,
       Savings!Write, Savings!jobVars
  <2> QED BY <1>1, <2>1, SavingsMembersTyped DEF SavingsShape
<1>2. ASSUME NEW s \in Servers, Savings!Job(s) PROVE SavingsTyped'
  <2>1. Savings!TypeOK'
    BY <1>2, SavingsJobTyped
  <2>2. ASSUME NEW o \in Servers
        PROVE  /\ run'[o].stage = "idle" => run'[o] = Savings!Idle
               /\ run'[o].stage = "pay" =>
                    run'[o].paying \in Savings!Entry /\ run'[o].paying.monthly \in Nat
    <3>1. CASE run'[o] = run[o]
      BY <3>1 DEF SavingsShape
    <3>2. CASE o = s /\ run'[s] = Savings!Idle
      BY <3>2 DEF Savings!Idle
    <3>3. CASE o = s /\ run'[s].stage = "loop"
      BY <3>3
    <3>4. ASSUME NEW e \in run[s].todo, o = s, e.monthly # None,
                 run'[s] = [stage |-> "pay", todo |-> run[s].todo \ {e}, paying |-> e]
          PROVE  run'[o].stage = "pay" /\ run'[o].paying \in Savings!Entry
                 /\ run'[o].paying.monthly \in Nat
      BY <3>4, SavingsRunTypes
    <3>5. o # s => run'[o] = run[o]
      BY <1>2, <2>1, SavingsRunSteps DEF Savings!TypeOK
    <3> QED BY <1>2, <3>1, <3>2, <3>3, <3>4, <3>5, SavingsRunSteps
  <2> QED BY <2>1, <2>2 DEF SavingsShape
<1>3. CASE Savings!LockExpires
  <2>1. troubled \cup {today} \subseteq Savings!Days
    BY DEF Savings!TypeOK
  <2>2. faults' \in 0..SavingsFaults /\ troubled' \subseteq Savings!Days /\ overran' \in BOOLEAN
    BY <1>3, <2>1, SavingsFault DEF Savings!LockExpires, Savings!Trouble, Savings!TypeOK
  <2> QED BY <1>3, <2>2 DEF Savings!LockExpires, Savings!TypeOK, SavingsShape, Savings!goalVars
<1>4. CASE Savings!DayPasses
  <2>1. today' \in Savings!Days /\ today' = today + 1
    BY <1>4, SavingsDays DEF Savings!DayPasses, Savings!TypeOK, Savings!Days
  <2>2. troubled' \subseteq Savings!Days
    BY <1>4, <2>1 DEF Savings!DayPasses, Savings!TypeOK
  <2> QED BY <1>4, <2>1, <2>2 DEF Savings!DayPasses, Savings!TypeOK, SavingsShape,
     Savings!goalVars
<1>5. CASE UNCHANGED Savings!vars
  BY <1>5 DEF Savings!vars, Savings!goalVars, Savings!jobVars, Savings!TypeOK, SavingsShape
<1> QED BY <1>1, <1>2, <1>3, <1>4, <1>5 DEF Savings!Next

LEMMA SavingsTypedInit ==
  ASSUME Savings!ConstantsAssumption, Savings!Init PROVE SavingsTyped
<1>1. today \in Savings!Days /\ requests \in 0..SavingsRequests /\ faults \in 0..SavingsFaults
      /\ since \in [Goals -> 0..Len(Calendar)]
  BY SavingsDays DEF Savings!Init, Savings!ConstantsAssumption
<1>2. run \in [Servers -> Savings!Run] /\ SavingsShape
  BY SavingsIdle DEF Savings!Init, SavingsShape, Savings!Idle
<1>3. autoRows \in [Goals -> [Savings!Months -> Nat]]
  BY DEF Savings!Init
<1> QED BY <1>1, <1>2, <1>3 DEF Savings!Init, SavingsTyped, Savings!TypeOK

\* The rows of the goals, the requests and the runs of the job have their types.
THEOREM SavingsTypeCorrect ==
  ASSUME Savings!ConstantsAssumption PROVE Savings!Spec => []Savings!TypeOK
<1>1. SavingsTyped => Savings!TypeOK
  BY DEF SavingsTyped
<1> QED BY <1>1, SavingsTypedInit, SavingsTypedStep, PTL DEF Savings!Spec


-----------------------------------------------------------------------------
(* No goal is withdrawn below zero.                                        *)

\* A withdrawal on its way was covered by the balance it was compared with.
CoveredWhenRead ==
  \A h \in Handlers :
    request[h] # None /\ request[h].op = "withdraw" => request[h].amount <= request[h].read

LEMMA CoveredWhenReadStep ==
  ASSUME Savings!TypeOK, CoveredWhenRead, [Savings!Next]_(Savings!vars) PROVE CoveredWhenRead'
<1>0. request \in [Handlers -> {None} \cup Savings!Request]
  BY DEF Savings!TypeOK
<1>1. ASSUME request' = request PROVE CoveredWhenRead'
  BY <1>1 DEF CoveredWhenRead
<1>2. ASSUME NEW h \in Handlers, request' = [request EXCEPT ![h] = None] PROVE CoveredWhenRead'
  BY <1>0, <1>2 DEF CoveredWhenRead
<1>3. ASSUME NEW h \in Handlers, NEW r, Savings!Begin(h, r),
             r.op = "withdraw" => r.amount <= r.read
      PROVE  CoveredWhenRead'
  BY <1>0, <1>3 DEF Savings!Begin, CoveredWhenRead
<1>4. CASE Savings!Members
  <2>1. ASSUME NEW h \in Handlers, NEW g \in Goals,
               \/ \E dto \in Changes : Savings!UpdateRead(h, g, dto)
               \/ \E st \in {"ACTIVE", "PAUSED"} : Savings!StatusRead(h, g, st)
               \/ \E a \in Amounts : Savings!WithdrawRead(h, g, a)
        PROVE  CoveredWhenRead'
    BY <1>3, <2>1 DEF Savings!UpdateRead, Savings!StatusRead, Savings!WithdrawRead
  <2>2. ASSUME NEW h \in Handlers,
               Savings!UpdateWrite(h) \/ Savings!StatusWrite(h) \/ Savings!WithdrawWrite(h) \/ Savings!WriteFails(h)
        PROVE  CoveredWhenRead'
    BY <1>2, <2>2 DEF Savings!UpdateWrite, Savings!StatusWrite, Savings!Write,
       Savings!WithdrawWrite, Savings!WriteFails
  <2>3. ASSUME \E g \in Goals : \/ \E dto \in NewGoals : Savings!CreateGoal(g, dto)
                                \/ Savings!DeleteGoal(g)
                                \/ \E a \in Amounts : Savings!Deposit(g, a)
        PROVE  CoveredWhenRead'
    BY <1>1, <2>3 DEF Savings!CreateGoal, Savings!DeleteGoal, Savings!Deposit
  <2> QED BY <1>4, <2>1, <2>2, <2>3 DEF Savings!Members
<1>5. ASSUME NEW s \in Servers, Savings!Job(s) PROVE CoveredWhenRead'
  BY <1>1, <1>5 DEF Savings!Job, Savings!Fire, Savings!Look, Savings!Pay, Savings!Finish,
     Savings!JobFails, Savings!Crash, Savings!Boot
<1>6. CASE Savings!LockExpires \/ Savings!DayPasses \/ UNCHANGED Savings!vars
  BY <1>1, <1>6 DEF Savings!LockExpires, Savings!DayPasses, Savings!vars
<1> QED BY <1>4, <1>5, <1>6 DEF Savings!Next

LEMMA AmountsCoveredStep ==
  ASSUME Savings!ConstantsAssumption, SavingsTyped, CoveredWhenRead, Savings!AmountsCovered,
         [Savings!Next]_(Savings!vars)
  PROVE  Savings!AmountsCovered'
<1> USE DEF SavingsTyped
<1>0. /\ goals \in [Goals -> {None} \cup Savings!Goal]
      /\ \A g \in Goals : Savings!Exists(g) => goals[g].amount \in Int
  BY GoalTypes DEF Savings!TypeOK
\* No row is new or lower than it was.
<1>1. ASSUME crossed \subseteq crossed',
             \A g \in Goals \ crossed' : Savings!Exists(g)' =>
               \/ goals'[g].amount = 0
               \/ Savings!Exists(g) /\ \E n \in Nat : goals'[g].amount = goals[g].amount + n
      PROVE  Savings!AmountsCovered'
  <2>1. ASSUME NEW g \in Goals \ crossed', Savings!Exists(g)' PROVE goals'[g].amount >= 0
    <3>1. CASE goals'[g].amount = 0
      BY <3>1
    <3>2. ASSUME NEW n \in Nat, Savings!Exists(g), goals'[g].amount = goals[g].amount + n
          PROVE  goals'[g].amount >= 0
      <4>1. goals[g].amount >= 0 /\ goals[g].amount \in Int
        BY <1>0, <1>1, <2>1, <3>2 DEF Savings!AmountsCovered, Savings!Live
      <4> QED BY <3>2, <4>1
    <3> QED BY <1>1, <2>1, <3>1, <3>2
  <2> QED BY <2>1 DEF Savings!AmountsCovered, Savings!Live
<1>2. ASSUME NEW g \in Goals, NEW row, goals' = [goals EXCEPT ![g] = row], crossed' = crossed,
             row = None \/ row.amount = 0
               \/ (Savings!Exists(g) /\ \E n \in Nat : row.amount = goals[g].amount + n)
      PROVE  Savings!AmountsCovered'
  <2>1. \A o \in Goals \ {g} : Savings!Exists(o)' => Savings!Exists(o) /\ goals'[o].amount = goals[o].amount + 0
    BY <1>0, <1>2 DEF Savings!Exists
  <2>2. goals'[g] = row
    BY <1>0, <1>2
  <2> QED BY <1>1, <1>2, <2>1, <2>2 DEF Savings!Exists
<1>3. ASSUME goals' = goals, crossed' = crossed PROVE Savings!AmountsCovered'
  BY <1>3 DEF Savings!AmountsCovered, Savings!Live, Savings!Exists
<1>4. ASSUME NEW g \in Goals, NEW dto \in NewGoals, Savings!CreateGoal(g, dto)
      PROVE  Savings!AmountsCovered'
  BY <1>2, <1>4 DEF Savings!CreateGoal
<1>5. ASSUME NEW g \in Goals, Savings!DeleteGoal(g) PROVE Savings!AmountsCovered'
  BY <1>2, <1>5 DEF Savings!DeleteGoal
<1>6. ASSUME NEW g \in Goals, NEW n \in Nat, Savings!Exists(g),
             goals' = [goals EXCEPT ![g].amount = @ + n], crossed' = crossed
      PROVE  Savings!AmountsCovered'
  <2>1. goals' = [goals EXCEPT ![g] = [goals[g] EXCEPT !.amount = goals[g].amount + n]]
    BY <1>0, <1>6
  <2>2. goals[g] \in Savings!Goal
    BY <1>6, GoalTypes
  <2>3. [goals[g] EXCEPT !.amount = goals[g].amount + n].amount = goals[g].amount + n
    BY <2>2 DEF Savings!Goal
  <2> QED BY <1>2, <1>6, <2>1, <2>3
<1>7. ASSUME NEW g \in Goals, NEW a \in Amounts, Savings!Deposit(g, a)
      PROVE  Savings!AmountsCovered'
  <2>1. a \in Nat
    BY DEF Savings!ConstantsAssumption
  <2> QED BY <1>6, <1>7, <2>1 DEF Savings!Deposit
<1>8. ASSUME NEW h \in Handlers, Savings!UpdateWrite(h) \/ Savings!StatusWrite(h)
      PROVE  Savings!AmountsCovered'
  <2> DEFINE g == request[h].goal
  <2>1. g \in Goals /\ Savings!Exists(g) /\ goals[g] \in Savings!Goal
    BY <1>8, SavingsRequestTypes, GoalTypes DEF Savings!UpdateWrite, Savings!StatusWrite
  <2>2. \A dto : Savings!Patched(goals[g], dto).amount = goals[g].amount
    BY <2>1 DEF Savings!Patched, Savings!Goal
  <2>3. \A st : [goals[g] EXCEPT !.status = st].amount = goals[g].amount
    BY <2>1 DEF Savings!Goal
  <2>4. PICK row : goals' = [goals EXCEPT ![g] = row] /\ row.amount = goals[g].amount
                   /\ crossed' = crossed
    BY <1>8, <2>2, <2>3 DEF Savings!UpdateWrite, Savings!StatusWrite, Savings!Write
  <2>5. row.amount = goals[g].amount + 0
    BY <1>0, <2>1, <2>4
  <2> HIDE DEF g
  <2> QED BY <1>2, <2>1, <2>4, <2>5
<1>9. ASSUME NEW h \in Handlers, Savings!WithdrawWrite(h) PROVE Savings!AmountsCovered'
  <2> DEFINE r == request[h]
             g == r.goal
             rest == goals[g].amount - r.amount
  <2>1. /\ g \in Goals /\ Savings!Exists(g) /\ goals[g] \in Savings!Goal /\ goals[g].amount \in Int
        /\ r.amount \in Nat /\ r.read \in Int /\ r.amount <= r.read
    BY <1>9, SavingsRequestTypes, GoalTypes DEF Savings!WithdrawWrite, CoveredWhenRead,
       Savings!ConstantsAssumption
  <2>2. /\ goals' = [goals EXCEPT ![g].amount = @ - r.amount]
        /\ crossed' = IF goals[g].amount < r.read THEN crossed \cup {g} ELSE crossed
    BY <1>9 DEF Savings!WithdrawWrite
  <2>3. /\ goals'[g].amount = rest
        /\ \A o \in Goals \ {g} : Savings!Exists(o)' => Savings!Exists(o) /\ goals'[o].amount = goals[o].amount
    BY <1>0, <2>1, <2>2 DEF Savings!Exists, Savings!Goal
  <2>4. g \notin crossed' => rest >= 0
    BY <2>1, <2>2
  <2>5. crossed \subseteq crossed'
    BY <2>2
  <2> HIDE DEF g, rest, r
  <2> QED BY <2>1, <2>3, <2>4, <2>5 DEF Savings!AmountsCovered, Savings!Live
<1>10. CASE Savings!Members
  <2>1. ASSUME NEW h \in Handlers,
               \/ \E g \in Goals : \/ \E dto \in Changes : Savings!UpdateRead(h, g, dto)
                                   \/ \E st \in {"ACTIVE", "PAUSED"} : Savings!StatusRead(h, g, st)
                                   \/ \E a \in Amounts : Savings!WithdrawRead(h, g, a)
               \/ Savings!WriteFails(h)
        PROVE  Savings!AmountsCovered'
    BY <1>3, <2>1 DEF Savings!UpdateRead, Savings!StatusRead, Savings!WithdrawRead,
       Savings!Begin, Savings!WriteFails, Savings!goalVars
  <2> QED BY <1>4, <1>5, <1>7, <1>8, <1>9, <1>10, <2>1 DEF Savings!Members
<1>11. ASSUME NEW s \in Servers, Savings!Job(s) PROVE Savings!AmountsCovered'
  <2>1. CASE Savings!Pay(s)
    <3> DEFINE g == run[s].paying.goal
    <3>1. g \in Goals /\ run[s].paying.monthly \in Nat
      BY <2>1 DEF Savings!Pay, SavingsShape, Savings!Entry
    <3>2. CASE Savings!Exists(g)
      <4>1. goals' = [goals EXCEPT ![g].amount = @ + run[s].paying.monthly] /\ crossed' = crossed
        BY <2>1, <3>2 DEF Savings!Pay
      <4> QED BY <1>6, <3>1, <3>2, <4>1
    <3>3. CASE ~Savings!Exists(g)
      BY <1>3, <2>1, <3>3 DEF Savings!Pay
    <3> QED BY <3>2, <3>3
  <2>2. CASE Savings!Fire(s) \/ Savings!Look(s) \/ Savings!Finish(s) \/ Savings!JobFails(s) \/ Savings!Crash(s) \/ Savings!Boot(s)
    BY <1>3, <2>2 DEF Savings!Fire, Savings!Look, Savings!Finish, Savings!JobFails,
       Savings!Crash, Savings!Boot, Savings!goalVars
  <2> QED BY <1>11, <2>1, <2>2 DEF Savings!Job
<1>12. CASE Savings!LockExpires \/ Savings!DayPasses \/ UNCHANGED Savings!vars
  BY <1>3, <1>12 DEF Savings!LockExpires, Savings!DayPasses, Savings!vars, Savings!goalVars
<1> QED BY <1>10, <1>11, <1>12 DEF Savings!Next

\* No goal is withdrawn below zero, but by withdrawals that were compared with a balance
\* another withdrawal has lowered since (withdraw: insufficient_balance).
THEOREM AmountsCoveredHolds ==
  ASSUME Savings!ConstantsAssumption PROVE Savings!Spec => []Savings!AmountsCovered
<1>1. Savings!Init => CoveredWhenRead /\ Savings!AmountsCovered
  BY DEF Savings!Init, CoveredWhenRead, Savings!AmountsCovered, Savings!Live, Savings!Exists
<1>2. SavingsTyped => Savings!TypeOK
  BY DEF SavingsTyped
<1> QED BY <1>1, <1>2, SavingsTypedInit, SavingsTypedStep, CoveredWhenReadStep, AmountsCoveredStep, PTL DEF
   Savings!Spec


-----------------------------------------------------------------------------
(* Never two deposits in a month.                                          *)

\* A server that runs the job has fired today and has the lock, until a run outlives it.
OneSavingsRun ==
  \A s \in Servers :
    run[s].stage # "idle" => s \in fired /\ (overran \/ jobLock = s)

\* A goal that is about to be paid has no deposit of this month yet.
Unpaid ==
  overran \/ \A s \in Servers :
    run[s].stage = "pay" => autoRows[run[s].paying.goal][Calendar[today].month] = 0

AtMostOne == overran \/ \A g \in Goals, m \in Savings!Months : autoRows[g][m] <= 1

DepositedOnce == OneSavingsRun /\ Unpaid /\ AtMostOne

\* What the members do with the deposits of the job and with its day.
LEMMA MembersKeepJob ==
  ASSUME Savings!TypeOK, Savings!Members
  PROVE  /\ UNCHANGED Savings!jobVars /\ today' = today
         /\ \A g \in Goals : autoRows'[g] = autoRows[g] \/ autoRows'[g] = [m \in Savings!Months |-> 0]
<1>1. ASSUME NEW g \in Goals, Savings!DeleteGoal(g)
      PROVE  \A o \in Goals : autoRows'[o] = autoRows[o] \/ autoRows'[o] = [m \in Savings!Months |-> 0]
  BY <1>1 DEF Savings!DeleteGoal, Savings!TypeOK
<1>2. ASSUME \/ \E g \in Goals : \/ \E dto \in NewGoals : Savings!CreateGoal(g, dto)
                                 \/ \E a \in Amounts : Savings!Deposit(g, a)
             \/ \E h \in Handlers, g \in Goals :
                  \/ \E dto \in Changes : Savings!UpdateRead(h, g, dto)
                  \/ \E st \in {"ACTIVE", "PAUSED"} : Savings!StatusRead(h, g, st)
                  \/ \E a \in Amounts : Savings!WithdrawRead(h, g, a)
             \/ \E h \in Handlers :
                  Savings!UpdateWrite(h) \/ Savings!StatusWrite(h) \/ Savings!WithdrawWrite(h) \/ Savings!WriteFails(h)
      PROVE  autoRows' = autoRows /\ UNCHANGED Savings!jobVars /\ today' = today
  BY <1>2 DEF Savings!CreateGoal, Savings!Deposit, Savings!UpdateRead, Savings!StatusRead,
     Savings!WithdrawRead, Savings!Begin, Savings!UpdateWrite, Savings!StatusWrite,
     Savings!Write, Savings!WithdrawWrite, Savings!WriteFails, Savings!goalVars
<1>3. ASSUME NEW g \in Goals, Savings!DeleteGoal(g)
      PROVE  UNCHANGED Savings!jobVars /\ today' = today
  BY <1>3 DEF Savings!DeleteGoal
<1> QED BY <1>1, <1>2, <1>3 DEF Savings!Members

LEMMA DepositedOnceStep ==
  ASSUME Savings!ConstantsAssumption, SavingsTyped, DepositedOnce, [Savings!Next]_(Savings!vars)
  PROVE  DepositedOnce'
<1> USE DEF SavingsTyped
<1>0. /\ SavingsTyped' /\ autoRows \in [Goals -> [Savings!Months -> Nat]] /\ autoRows' \in [Goals -> [Savings!Months -> Nat]]
      /\ today \in Savings!Days /\ today' \in Savings!Days /\ run \in [Servers -> Savings!Run] /\ run' \in [Servers -> Savings!Run]
      /\ None \notin Servers /\ jobLock \in {None} \cup Servers
  BY SavingsTypedStep DEF Savings!TypeOK, Savings!ConstantsAssumption
<1>1. ASSUME UNCHANGED <<today, autoRows, fired, overran, run, jobLock>> PROVE DepositedOnce'
  BY <1>1 DEF DepositedOnce, OneSavingsRun, Unpaid, AtMostOne
<1>2. CASE Savings!Members
  <2>1. /\ UNCHANGED <<jobLock, fired, run, overran, today>>
        /\ \A g \in Goals : autoRows'[g] = autoRows[g] \/ autoRows'[g] = [m \in Savings!Months |-> 0]
    BY <1>2, MembersKeepJob DEF Savings!jobVars
  <2>2. \A g \in Goals, m \in Savings!Months : autoRows'[g][m] = autoRows[g][m] \/ autoRows'[g][m] = 0
    BY <2>1
  <2>3. \A s \in Servers : run[s].stage = "pay" => run[s].paying.goal \in Goals
    BY DEF SavingsShape, Savings!Entry
  <2>4. Calendar[today].month \in Savings!Months
    BY <1>0, SavingsDays
  <2>5. AtMostOne'
    BY <2>1, <2>2 DEF DepositedOnce, AtMostOne
  <2>6. Unpaid'
    BY <2>1, <2>2, <2>3, <2>4 DEF DepositedOnce, Unpaid
  <2> QED BY <2>1, <2>5, <2>6 DEF DepositedOnce, OneSavingsRun
<1>3. ASSUME NEW s \in Servers, Savings!Job(s) PROVE DepositedOnce'
  <2>1. today' = today /\ overran' = overran
    BY <1>3 DEF Savings!Job, Savings!Fire, Savings!Look, Savings!Pay, Savings!Finish,
       Savings!JobFails, Savings!Crash, Savings!Boot
  <2>2. \A o \in Servers \ {s} : run'[o] = run[o]
    BY <1>3, SavingsRunSteps
  <2>3. CASE Savings!Fire(s)
    <3>1. /\ fired' = fired \cup {s} /\ autoRows' = autoRows
          /\ \/ jobLock = None /\ jobLock' = s /\ run'[s].stage = "loop"
             \/ UNCHANGED <<jobLock, run>>
      BY <1>0, <2>3 DEF Savings!Fire, Savings!goalVars
    <3>2. \A o \in Servers : overran \/ jobLock # None \/ run[o].stage = "idle"
      BY <1>0 DEF DepositedOnce, OneSavingsRun
    <3>3. OneSavingsRun'
      BY <2>1, <2>2, <3>1, <3>2 DEF DepositedOnce, OneSavingsRun
    <3>4. Unpaid' /\ AtMostOne'
      BY <2>1, <2>2, <3>1 DEF DepositedOnce, Unpaid, AtMostOne
    <3> QED BY <3>3, <3>4 DEF DepositedOnce
  <2>4. CASE Savings!Look(s)
    <3>1. PICK e \in run[s].todo :
            \/ run' = [run EXCEPT ![s] = [run[s] EXCEPT !.todo = run[s].todo \ {e}]]
            \/ /\ ~(autoRows[e.goal][Calendar[today].month] > 0)
               /\ run' = [run EXCEPT ![s] =
                            [stage |-> "pay", todo |-> run[s].todo \ {e}, paying |-> e]]
      BY <2>4, SavingsLook
    <3>2. /\ UNCHANGED <<jobLock, fired, autoRows>> /\ run[s].stage = "loop"
          /\ e.goal \in Goals
      BY <2>4, SavingsRunTypes DEF Savings!Look, Savings!goalVars
    <3>3. autoRows[e.goal][Calendar[today].month] \in Nat
      BY <1>0, <3>2, SavingsDays
    <3>4. \/ run'[s].stage = "loop"
          \/ run'[s].stage = "pay" /\ autoRows[run'[s].paying.goal][Calendar[today].month] = 0
      <4>1. [run[s] EXCEPT !.todo = run[s].todo \ {e}].stage = "loop"
        BY <1>0, <3>2 DEF Savings!Run
      <4>2. \/ run'[s] = [run[s] EXCEPT !.todo = run[s].todo \ {e}]
            \/ /\ ~(autoRows[e.goal][Calendar[today].month] > 0)
               /\ run'[s] = [stage |-> "pay", todo |-> run[s].todo \ {e}, paying |-> e]
        BY <1>0, <3>1
      <4>3. ASSUME ~(autoRows[e.goal][Calendar[today].month] > 0),
                   run'[s] = [stage |-> "pay", todo |-> run[s].todo \ {e}, paying |-> e]
            PROVE  run'[s].stage = "pay" /\ autoRows[run'[s].paying.goal][Calendar[today].month] = 0
        <5>1. run'[s].stage = "pay" /\ run'[s].paying = e
          BY <4>3
        <5>2. autoRows[e.goal][Calendar[today].month] = 0
          BY <3>3, <4>3
        <5> QED BY <5>1, <5>2
      <4> QED BY <4>1, <4>2, <4>3
    <3>5. OneSavingsRun'
      BY <2>1, <2>2, <3>2 DEF DepositedOnce, OneSavingsRun
    <3>6. Unpaid' /\ AtMostOne'
      BY <2>1, <2>2, <3>2, <3>4 DEF DepositedOnce, Unpaid, AtMostOne
    <3> QED BY <3>5, <3>6 DEF DepositedOnce
\* A run that ends leaves the others alone, and takes only its own lock with it.
  <2>5. ASSUME run'[s] = Savings!Idle, UNCHANGED <<autoRows, fired>>, jobLock' = jobLock \/ jobLock = s
        PROVE  DepositedOnce'
    <3>1. run'[s].stage = "idle"
      BY <2>5 DEF Savings!Idle
    <3>2. OneSavingsRun'
      BY <2>1, <2>2, <2>5, <3>1 DEF DepositedOnce, OneSavingsRun
    <3>3. Unpaid' /\ AtMostOne'
      BY <2>1, <2>2, <2>5, <3>1 DEF DepositedOnce, Unpaid, AtMostOne
    <3> QED BY <3>2, <3>3 DEF DepositedOnce
  <2>6. Savings!Leave(s) => run'[s] = Savings!Idle /\ (jobLock' = jobLock \/ jobLock = s)
    BY <1>0 DEF Savings!Leave, Savings!Release
  <2>7. CASE Savings!Pay(s)
    <3> DEFINE g == run[s].paying.goal
               m == Calendar[today].month
    <3>1. /\ g \in Goals /\ m \in Savings!Months /\ run[s].stage = "pay" /\ UNCHANGED fired
      BY <1>0, <2>7, SavingsDays DEF Savings!Pay, SavingsShape, Savings!Entry
    <3>2. CASE Savings!Exists(g)
      <4>1. /\ autoRows' = [autoRows EXCEPT ![g][m] = @ + 1]
            /\ run' = [run EXCEPT ![s].stage = "loop", ![s].paying = None]
            /\ jobLock' = jobLock
        BY <2>7, <3>2 DEF Savings!Pay
      <4>2. run'[s].stage = "loop"
        BY <1>0, <4>1 DEF Savings!Run
      <4>3. OneSavingsRun'
        BY <2>1, <2>2, <3>1, <4>1 DEF DepositedOnce, OneSavingsRun
      <4>4. \A o \in Servers : overran \/ run'[o].stage # "pay"
        BY <2>2, <3>1, <4>2 DEF DepositedOnce, OneSavingsRun
      <4>5. overran \/ autoRows[g][m] = 0
        BY <3>1 DEF DepositedOnce, Unpaid
      <4>6. \A o \in Goals, n \in Savings!Months :
              autoRows'[o][n] = IF o = g /\ n = m THEN autoRows[g][m] + 1 ELSE autoRows[o][n]
        BY <1>0, <3>1, <4>1
      <4>7. AtMostOne'
        <5>1. overran \/ \A o \in Goals, n \in Savings!Months : autoRows'[o][n] <= 1
          BY <4>5, <4>6 DEF DepositedOnce, AtMostOne
        <5> QED BY <2>1, <5>1 DEF AtMostOne
      <4> QED BY <2>1, <4>3, <4>4, <4>7 DEF DepositedOnce, Unpaid
    <3>3. CASE ~Savings!Exists(g)
      BY <2>5, <2>6, <2>7, <3>1, <3>3 DEF Savings!Pay
    <3> QED BY <3>2, <3>3
  <2>8. CASE Savings!Finish(s) \/ Savings!JobFails(s)
    BY <2>5, <2>6, <2>8 DEF Savings!Finish, Savings!JobFails, Savings!goalVars
  <2>9. CASE Savings!Crash(s)
    BY <1>0, <2>5, <2>9 DEF Savings!Crash, Savings!goalVars
  <2>10. CASE Savings!Boot(s)
    <3>1. fired' = fired \cup {s} /\ UNCHANGED <<jobLock, run, autoRows>>
      BY <2>10 DEF Savings!Boot, Savings!goalVars
    <3> QED BY <2>1, <3>1 DEF DepositedOnce, OneSavingsRun, Unpaid, AtMostOne
  <2> QED BY <1>3, <2>3, <2>4, <2>7, <2>8, <2>9, <2>10 DEF Savings!Job
<1>4. CASE Savings!LockExpires
  <2>1. /\ UNCHANGED <<today, autoRows, fired, run>> /\ jobLock # None
        /\ \/ run[jobLock].stage = "idle" /\ overran' = overran
           \/ overran'
    BY <1>4 DEF Savings!LockExpires, Savings!goalVars
  <2>2. CASE overran'
    BY <2>1, <2>2 DEF DepositedOnce, OneSavingsRun, Unpaid, AtMostOne
  <2>3. CASE run[jobLock].stage = "idle" /\ overran' = overran
    <3>1. OneSavingsRun'
      BY <2>1, <2>3 DEF DepositedOnce, OneSavingsRun
    <3> QED BY <2>1, <2>3, <3>1 DEF DepositedOnce, Unpaid, AtMostOne
  <2> QED BY <2>1, <2>2, <2>3
<1>5. CASE Savings!DayPasses
  <2>1. \A s \in Servers : run'[s].stage = "idle"
    BY <1>5 DEF Savings!DayPasses, Savings!Idle
  <2>2. AtMostOne'
    BY <1>5 DEF Savings!DayPasses, Savings!goalVars, DepositedOnce, AtMostOne
  <2> QED BY <2>1, <2>2 DEF DepositedOnce, OneSavingsRun, Unpaid
<1>6. CASE UNCHANGED Savings!vars
  BY <1>1, <1>6 DEF Savings!vars, Savings!goalVars, Savings!jobVars
<1> QED BY <1>2, <1>3, <1>4, <1>5, <1>6 DEF Savings!Next


-----------------------------------------------------------------------------
(* No deposit is missed.                                                   *)

\* A goal that is due on day d, as it has been since before that day.
Wants(g, d) == since[g] < d /\ Savings!Due(g, d) /\ goals[g].monthly # None

\* The job has yet to run today, has paid the goal, has it on its list, or is paying it.
Attended(g) ==
  \/ jobLock = None /\ up \ fired # {}
  \/ autoRows[g][Calendar[today].month] > 0
  \/ \E s \in Servers :
       \/ \E e \in run[s].todo : e.goal = g /\ e.monthly # None
       \/ run[s].stage = "pay" /\ run[s].paying.goal = g

NoDepositMissed ==
  /\ today \notin troubled => \A g \in Savings!Live : Wants(g, today) => Attended(g)
  /\ \A g \in Savings!Live, d \in Savings!Days \ troubled :
       d < today /\ Wants(g, d) => autoRows[g][Calendar[d].month] > 0

\* A goal that a request did not change is the goal it was.
LEMMA MembersKeepGoals ==
  ASSUME Savings!ConstantsAssumption, Savings!TypeOK, Savings!Members,
         NEW g \in Goals, since'[g] < today
  PROVE  g \in Savings!Live' => /\ g \in Savings!Live /\ since'[g] = since[g] /\ autoRows'[g] = autoRows[g]
                                /\ \A d : Savings!Due(g, d)' <=> Savings!Due(g, d)
                                /\ goals'[g].monthly = goals[g].monthly
<1>0. /\ goals \in [Goals -> {None} \cup Savings!Goal] /\ since \in [Goals -> 0..Len(Calendar)]
      /\ autoRows \in [Goals -> [Savings!Months -> Nat]] /\ today \in Int
  BY SavingsDays DEF Savings!TypeOK
<1> DEFINE Same == /\ since'[g] = since[g] /\ autoRows'[g] = autoRows[g]
                   /\ \/ goals'[g] = goals[g]
                      \/ Savings!Exists(g) /\ \E n : goals'[g] = [goals[g] EXCEPT !.amount = n]
<1> DEFINE Kept == /\ g \in Savings!Live /\ since'[g] = since[g] /\ autoRows'[g] = autoRows[g]
                   /\ \A d : Savings!Due(g, d)' <=> Savings!Due(g, d)
                   /\ goals'[g].monthly = goals[g].monthly
<1> SUFFICES g \in Savings!Live' => Kept
  OBVIOUS
<1>1. ASSUME Same PROVE g \in Savings!Live' => Kept
  <2>1. CASE goals'[g] = goals[g]
    BY <1>1, <2>1 DEF Savings!Live, Savings!Exists, Savings!Due
  <2>2. ASSUME Savings!Exists(g), NEW n, goals'[g] = [goals[g] EXCEPT !.amount = n]
        PROVE  /\ g \in Savings!Live /\ goals'[g].auto = goals[g].auto
               /\ goals'[g].status = goals[g].status
               /\ goals'[g].depositDay = goals[g].depositDay
               /\ goals'[g].monthly = goals[g].monthly
    BY <2>2, GoalTypes DEF Savings!Live, Savings!Goal
  <2> QED BY <1>1, <2>1, <2>2 DEF Savings!Due
<1>2. ASSUME since' = [since EXCEPT ![g] = today] PROVE FALSE
  BY <1>0, <1>2
<1>3. ASSUME NEW o \in Goals, NEW row, goals' = [goals EXCEPT ![o] = row],
             since' = [since EXCEPT ![o] = today], autoRows' = autoRows
      PROVE  Same
  BY <1>0, <1>2, <1>3
<1>4. ASSUME NEW o \in Goals, Savings!Exists(o), NEW n, goals' = [goals EXCEPT ![o].amount = n],
             since' = since, autoRows' = autoRows
      PROVE  Same
  BY <1>0, <1>4
<1>5. ASSUME NEW o \in Goals, NEW dto \in NewGoals, Savings!CreateGoal(o, dto) PROVE Same
  BY <1>3, <1>5 DEF Savings!CreateGoal
<1>6. ASSUME NEW o \in Goals, Savings!DeleteGoal(o) PROVE g \notin Savings!Live' \/ Same
  BY <1>0, <1>6 DEF Savings!DeleteGoal, Savings!Live, Savings!Exists
<1>7. ASSUME NEW o \in Goals, NEW a \in Amounts, Savings!Deposit(o, a) PROVE Same
  BY <1>4, <1>7 DEF Savings!Deposit
<1>8. ASSUME NEW h \in Handlers, Savings!UpdateWrite(h) \/ Savings!StatusWrite(h) PROVE Same
  <2>1. request[h].goal \in Goals
    BY <1>8, SavingsRequestTypes DEF Savings!UpdateWrite, Savings!StatusWrite
  <2>2. \E row : Savings!Write(h, row)
    BY <1>8 DEF Savings!UpdateWrite, Savings!StatusWrite
  <2> HIDE DEF Same
  <2> QED BY <1>3, <2>1, <2>2 DEF Savings!Write
<1>9. ASSUME NEW h \in Handlers, Savings!WithdrawWrite(h) PROVE Same
  <2>1. request[h].goal \in Goals
    BY <1>9, SavingsRequestTypes DEF Savings!WithdrawWrite
  <2> HIDE DEF Same
  <2> QED BY <1>4, <1>9, <2>1 DEF Savings!WithdrawWrite
<1>10. ASSUME UNCHANGED <<goals, since, autoRows>> PROVE Same
  BY <1>10
<1> HIDE DEF Same, Kept
<1>11. ASSUME NEW h \in Handlers,
              \/ \E o \in Goals : \/ \E dto \in Changes : Savings!UpdateRead(h, o, dto)
                                  \/ \E st \in {"ACTIVE", "PAUSED"} : Savings!StatusRead(h, o, st)
                                  \/ \E a \in Amounts : Savings!WithdrawRead(h, o, a)
              \/ Savings!WriteFails(h)
       PROVE  Same
  BY <1>10, <1>11 DEF Savings!UpdateRead, Savings!StatusRead, Savings!WithdrawRead,
     Savings!Begin, Savings!WriteFails, Savings!goalVars
<1>12. g \notin Savings!Live' \/ Same
  BY <1>5, <1>6, <1>7, <1>8, <1>9, <1>11 DEF Savings!Members
<1> QED BY <1>1, <1>12

\* A step of the job changes no goal but its amount, and takes no deposit away.
LEMMA JobKeepsGoals ==
  ASSUME Savings!ConstantsAssumption, SavingsTyped, NEW s \in Servers, Savings!Job(s)
  PROVE  /\ today' = today /\ since' = since /\ troubled \subseteq troubled'
         /\ \A g \in Goals, m \in Savings!Months :
              autoRows[g][m] > 0 => autoRows'[g][m] > 0
         /\ \A g \in Savings!Live' : /\ g \in Savings!Live /\ \A d : Savings!Due(g, d)' <=> Savings!Due(g, d)
                                     /\ goals'[g].monthly = goals[g].monthly
<1>0. /\ goals \in [Goals -> {None} \cup Savings!Goal] /\ autoRows \in [Goals -> [Savings!Months -> Nat]]
      /\ Calendar[today].month \in Savings!Months
  BY SavingsDays DEF SavingsTyped, Savings!TypeOK
<1>1. ASSUME UNCHANGED goals
      PROVE  \A g \in Savings!Live' : /\ g \in Savings!Live /\ \A d : Savings!Due(g, d)' <=> Savings!Due(g, d)
                                      /\ goals'[g].monthly = goals[g].monthly
  BY <1>1 DEF Savings!Live, Savings!Exists, Savings!Due
<1>2. CASE Savings!Pay(s)
  <2> DEFINE g == run[s].paying.goal
             m == Calendar[today].month
  <2>1. g \in Goals /\ today' = today /\ since' = since
    BY <1>2 DEF SavingsTyped, Savings!Pay, SavingsShape, Savings!Entry
  <2>2. CASE ~Savings!Exists(g)
    BY <1>1, <1>2, <2>1, <2>2 DEF Savings!Pay, Savings!Trouble
  <2>3. CASE Savings!Exists(g)
    <3>1. /\ goals' = [goals EXCEPT ![g].amount = @ + run[s].paying.monthly]
          /\ autoRows' = [autoRows EXCEPT ![g][m] = @ + 1] /\ troubled' = troubled
      BY <1>2, <2>3 DEF Savings!Pay
    <3>2. \A o \in Goals, n \in Savings!Months :
            autoRows'[o][n] = IF o = g /\ n = m THEN autoRows[g][m] + 1 ELSE autoRows[o][n]
      BY <1>0, <2>1, <3>1
    <3>3. \A o \in Goals, n \in Savings!Months : autoRows[o][n] > 0 => autoRows'[o][n] > 0
      BY <1>0, <2>1, <3>2
    <3>4. \A o \in Goals : o # g => goals'[o] = goals[o]
      BY <1>0, <2>1, <3>1
    <3>5. /\ goals'[g].auto = goals[g].auto /\ goals'[g].status = goals[g].status
          /\ goals'[g].depositDay = goals[g].depositDay /\ goals'[g].monthly = goals[g].monthly
      BY <1>0, <2>1, <2>3, <3>1, GoalTypes DEF SavingsTyped, Savings!Goal
    <3>6. \A o \in Savings!Live' : /\ o \in Savings!Live /\ \A d : Savings!Due(o, d)' <=> Savings!Due(o, d)
                                   /\ goals'[o].monthly = goals[o].monthly
      BY <2>1, <2>3, <3>4, <3>5 DEF Savings!Live, Savings!Exists, Savings!Due
    <3> QED BY <2>1, <3>1, <3>3, <3>6
  <2> QED BY <2>2, <2>3
<1>3. ASSUME Savings!Fire(s) \/ Savings!Look(s) \/ Savings!Finish(s) \/ Savings!JobFails(s) \/ Savings!Crash(s) \/ Savings!Boot(s)
      PROVE  UNCHANGED <<today, goals, since, autoRows>> /\ troubled \subseteq troubled'
  BY <1>3 DEF Savings!Fire, Savings!Look, Savings!Finish, Savings!JobFails, Savings!Crash,
     Savings!Boot, Savings!goalVars, Savings!Trouble
<1> QED BY <1>1, <1>2, <1>3 DEF Savings!Job


LEMMA NoDepositMissedStep ==
  ASSUME Savings!ConstantsAssumption, SavingsTyped, DepositedOnce, NoDepositMissed, [Savings!Next]_(Savings!vars)
  PROVE  NoDepositMissed'
<1> USE DEF SavingsTyped
<1>0. /\ run \in [Servers -> Savings!Run] /\ autoRows \in [Goals -> [Savings!Months -> Nat]]
      /\ run' \in [Servers -> Savings!Run] /\ autoRows' \in [Goals -> [Savings!Months -> Nat]]
      /\ today \in Savings!Days /\ Savings!Days \subseteq Nat /\ up \subseteq Servers
      /\ since \in [Goals -> 0..Len(Calendar)] /\ since' \in [Goals -> 0..Len(Calendar)]
      /\ \A d \in Savings!Days : Calendar[d].month \in Savings!Months
  BY SavingsTypedStep, SavingsDays DEF Savings!TypeOK
<1>1. CASE Savings!Members
  <2>1. today' = today /\ UNCHANGED <<jobLock, up, fired, run, troubled>>
    BY <1>1, MembersKeepJob DEF Savings!jobVars
  <2>2. ASSUME NEW g \in Savings!Live', NEW d \in Savings!Days, d <= today, Wants(g, d)'
        PROVE  g \in Savings!Live /\ Wants(g, d) /\ autoRows'[g] = autoRows[g]
    <3>1. g \in Goals /\ since'[g] < d /\ since'[g] \in Int
      BY <1>0, <2>2 DEF Savings!Live, Wants
    <3>2. since'[g] < today
      BY <1>0, <2>2, <3>1
    <3>3. Savings!Due(g, d)'
      BY <2>2 DEF Wants
    <3>4. /\ g \in Savings!Live /\ since'[g] = since[g] /\ autoRows'[g] = autoRows[g]
          /\ goals'[g].monthly = goals[g].monthly /\ (Savings!Due(g, d)' <=> Savings!Due(g, d))
      BY <1>1, <2>2, <3>1, <3>2, MembersKeepGoals
    <3> QED BY <2>2, <3>3, <3>4 DEF Wants
  <2>3. ASSUME today \notin troubled, NEW g \in Savings!Live', Wants(g, today)'
        PROVE  Attended(g)'
    <3>1. Wants(g, today) /\ g \in Savings!Live /\ autoRows'[g] = autoRows[g]
      BY <1>0, <2>1, <2>2, <2>3 DEF Wants, Savings!Due
    <3>2. Attended(g)
      BY <2>3, <3>1 DEF NoDepositMissed
    <3> QED BY <2>1, <3>1, <3>2 DEF Attended
  <2> QED BY <1>0, <2>1, <2>2, <2>3 DEF NoDepositMissed
<1>2. ASSUME NEW s \in Servers, Savings!Job(s) PROVE NoDepositMissed'
  <2>1. /\ today' = today /\ troubled \subseteq troubled'
        /\ \A g \in Goals, m \in Savings!Months : autoRows[g][m] > 0 => autoRows'[g][m] > 0
    BY <1>2, JobKeepsGoals
  <2>2. ASSUME NEW g \in Savings!Live', NEW d \in Savings!Days, Wants(g, d)'
        PROVE  g \in Savings!Live /\ g \in Goals /\ Wants(g, d)
    <3>1. /\ since' = since /\ g \in Savings!Live /\ (Savings!Due(g, d)' <=> Savings!Due(g, d))
          /\ goals'[g].monthly = goals[g].monthly
      BY <1>2, JobKeepsGoals
    <3> QED BY <2>2, <3>1 DEF Wants, Savings!Live
  <2>3. \A g \in Savings!Live', d \in Savings!Days \ troubled' :
          d < today' /\ Wants(g, d)' => autoRows'[g][Calendar[d].month] > 0
    BY <1>0, <2>1, <2>2 DEF NoDepositMissed
  <2>4. SUFFICES ASSUME today \notin troubled', NEW g \in Savings!Live', Wants(g, today)'
                 PROVE  Attended(g)'
    BY <2>1, <2>3 DEF NoDepositMissed, Wants, Savings!Due
  <2>5. g \in Savings!Live /\ g \in Goals /\ Wants(g, today) /\ Attended(g) /\ Savings!Exists(g)'
    <3>1. Wants(g, today)
      BY <1>0, <2>1, <2>2, <2>4 DEF Wants, Savings!Due
    <3> QED BY <1>0, <2>1, <2>2, <2>4, <3>1 DEF NoDepositMissed, Savings!Live
  <2>6. \A o \in Servers \ {s} : run'[o] = run[o]
    BY <1>2, SavingsRunSteps
  <2>7. CASE autoRows[g][Calendar[today].month] > 0
    BY <1>0, <2>1, <2>5, <2>7 DEF Attended
  <2>8. CASE jobLock = None /\ up \ fired # {}
    <3>1. CASE Savings!Fire(s)
      <4>1. run'[s] = [stage |-> "loop", todo |-> Savings!Listed, paying |-> None]
        BY <1>0, <2>8, <3>1 DEF Savings!Fire
      <4>2. [goal |-> g, monthly |-> goals[g].monthly] \in Savings!Listed /\ goals[g].monthly # None
        BY <2>5 DEF Savings!Listed, Wants
      <4>3. \E e \in run'[s].todo : e.goal = g /\ e.monthly # None
        BY <4>1, <4>2
      <4> QED BY <4>3 DEF Attended
    <3>2. CASE Savings!Crash(s)
      BY <2>4, <3>2 DEF Savings!Crash, Savings!Trouble
    <3>3. CASE Savings!Boot(s)
      <4>1. jobLock' = None /\ up \ fired \subseteq up' \ fired'
        BY <2>8, <3>3 DEF Savings!Boot
      <4> QED BY <2>8, <4>1 DEF Attended
    <3>4. CASE Savings!Look(s) \/ Savings!Pay(s) \/ Savings!Finish(s) \/ Savings!JobFails(s)
      <4>1. jobLock' = None /\ UNCHANGED <<up, fired>>
        BY <2>8, <3>4 DEF Savings!Look, Savings!Pay, Savings!Finish, Savings!JobFails,
           Savings!Leave, Savings!Release
      <4> QED BY <2>8, <4>1 DEF Attended
    <3> QED BY <1>2, <3>1, <3>2, <3>3, <3>4 DEF Savings!Job
\* Another server attends to the goal.
  <2>9. ASSUME NEW o \in Servers \ {s},
               \/ \E e \in run[o].todo : e.goal = g /\ e.monthly # None
               \/ run[o].stage = "pay" /\ run[o].paying.goal = g
        PROVE  Attended(g)'
    BY <2>6, <2>9 DEF Attended
  <2>10. ASSUME NEW e \in run[s].todo, e.goal = g, e.monthly # None PROVE Attended(g)'
    <3>1. CASE Savings!Fire(s)
      <4>1. run[s].stage = "idle"
        BY <3>1 DEF Savings!Fire, DepositedOnce, OneSavingsRun
      <4>2. run[s].todo = {}
        BY <4>1 DEF SavingsShape, Savings!Idle
      <4> QED BY <2>10, <4>2
    <3>2. CASE Savings!Look(s)
      <4>1. PICK f \in run[s].todo :
              \/ /\ f.monthly = None \/ autoRows[f.goal][Calendar[today].month] > 0
                 /\ run' = [run EXCEPT ![s] = [run[s] EXCEPT !.todo = run[s].todo \ {f}]]
              \/ run' = [run EXCEPT ![s] =
                           [stage |-> "pay", todo |-> run[s].todo \ {f}, paying |-> f]]
        BY <3>2, SavingsLook
      <4>2. CASE e # f
        <5>1. e \in run'[s].todo
          BY <1>0, <2>10, <4>1, <4>2 DEF Savings!Run
        <5> QED BY <2>10, <5>1 DEF Attended
      <4>3. CASE e = f
        <5>1. \/ autoRows[g][Calendar[today].month] > 0
              \/ run'[s].stage = "pay" /\ run'[s].paying = e
          BY <1>0, <2>10, <4>1, <4>3
        <5> QED BY <2>7, <2>10, <5>1 DEF Attended
      <4> QED BY <4>2, <4>3
    <3>3. CASE Savings!Pay(s)
      <4>1. CASE Savings!Exists(run[s].paying.goal)
        <5>1. run' = [run EXCEPT ![s].stage = "loop", ![s].paying = None]
          BY <3>3, <4>1 DEF Savings!Pay
        <5>2. run'[s].todo = run[s].todo
          BY <1>0, <5>1 DEF Savings!Run
        <5> QED BY <2>10, <5>2 DEF Attended
      <4>2. CASE ~Savings!Exists(run[s].paying.goal)
        BY <2>4, <3>3, <4>2 DEF Savings!Pay, Savings!Trouble
      <4> QED BY <4>1, <4>2
    <3>4. CASE Savings!Finish(s) \/ Savings!JobFails(s) \/ Savings!Crash(s)
      BY <2>4, <2>10, <3>4 DEF Savings!Finish, Savings!JobFails, Savings!Crash, Savings!Trouble
    <3>5. CASE Savings!Boot(s)
      <4>1. run' = run
        BY <3>5 DEF Savings!Boot
      <4> QED BY <2>10, <4>1 DEF Attended
    <3> QED BY <1>2, <3>1, <3>2, <3>3, <3>4, <3>5 DEF Savings!Job
  <2>11. ASSUME run[s].stage = "pay", run[s].paying.goal = g PROVE Attended(g)'
    <3>1. CASE Savings!Pay(s)
      <4>1. Savings!Exists(g)
        BY <2>5 DEF Savings!Live
      <4>2. autoRows' = [autoRows EXCEPT ![g][Calendar[today].month] = @ + 1]
        BY <2>11, <3>1, <4>1 DEF Savings!Pay
      <4>3. autoRows'[g][Calendar[today].month] > 0
        BY <1>0, <2>5, <4>2
      <4> QED BY <2>1, <4>3 DEF Attended
    <3>2. CASE Savings!JobFails(s) \/ Savings!Crash(s)
      BY <2>4, <3>2 DEF Savings!JobFails, Savings!Crash, Savings!Trouble
    <3>3. CASE Savings!Boot(s)
      <4>1. run' = run
        BY <3>3 DEF Savings!Boot
      <4> QED BY <2>11, <4>1 DEF Attended
    <3>4. ~Savings!Fire(s) /\ ~Savings!Look(s) /\ ~Savings!Finish(s)
      BY <2>11 DEF Savings!Fire, Savings!Look, Savings!Finish, DepositedOnce, OneSavingsRun
    <3> QED BY <1>2, <3>1, <3>2, <3>3, <3>4 DEF Savings!Job
  <2> QED BY <2>5, <2>7, <2>8, <2>9, <2>10, <2>11 DEF Attended
<1>3. CASE Savings!LockExpires
  <2>1. /\ UNCHANGED <<today, goals, autoRows, since, run, up, fired>> /\ jobLock # None
        /\ troubled \subseteq troubled'
    BY <1>3 DEF Savings!LockExpires, Savings!Trouble, Savings!goalVars
  <2> QED BY <2>1 DEF NoDepositMissed, Attended, Wants, Savings!Due, Savings!Live,
     Savings!Exists
<1>4. CASE Savings!DayPasses
  <2>1. /\ today' = today + 1 /\ UNCHANGED <<goals, autoRows, since, run, up, jobLock>>
        /\ up \subseteq fired /\ jobLock = None /\ fired' = {}
        /\ troubled \subseteq troubled' /\ (up = {} => today' \in troubled')
        /\ \A s \in Servers : run[s] = Savings!Idle
    BY <1>4 DEF Savings!DayPasses, Savings!goalVars
  <2>2. \A g \in Savings!Live : today \notin troubled /\ Wants(g, today) =>
          autoRows[g][Calendar[today].month] > 0
    BY <2>1 DEF NoDepositMissed, Attended, Savings!Idle
  <2>3. ASSUME NEW g \in Savings!Live', NEW d \in Savings!Days \ troubled', d < today', Wants(g, d)'
        PROVE  autoRows'[g][Calendar[d].month] > 0
    <3>1. g \in Savings!Live /\ Wants(g, d) /\ d \in Savings!Days \ troubled
      BY <2>1, <2>3 DEF Savings!Live, Savings!Exists, Wants, Savings!Due
    <3>2. d < today \/ d = today
      BY <1>0, <2>1, <2>3
    <3> QED BY <2>1, <2>2, <3>1, <3>2 DEF NoDepositMissed
  <2>4. today' \notin troubled' => up' \ fired' # {} /\ jobLock' = None
    BY <2>1
  <2> QED BY <2>3, <2>4 DEF NoDepositMissed, Attended
<1>5. CASE UNCHANGED Savings!vars
  BY <1>5 DEF Savings!vars, Savings!goalVars, Savings!jobVars, NoDepositMissed, Attended,
     Wants, Savings!Due, Savings!Live, Savings!Exists
<1> QED BY <1>1, <1>2, <1>3, <1>4, <1>5 DEF Savings!Next

\* Each goal gets its automatic deposit once a month: never twice while no run outlives its
\* lock, and not missed on a day without trouble by a goal that was due on it and had not
\* been changed since the day before (runAutoDeposit: the lock, the query of the month, the
\* rule of the last day).
THEOREM DepositedOncePerMonthHolds ==
  ASSUME Savings!ConstantsAssumption PROVE Savings!Spec => []Savings!DepositedOncePerMonth
<1>1. Savings!Init => DepositedOnce /\ NoDepositMissed
  BY DEF Savings!Init, DepositedOnce, OneSavingsRun, Unpaid, AtMostOne, NoDepositMissed,
     Savings!Live, Savings!Exists, Savings!Idle
<1>2. AtMostOne /\ NoDepositMissed => Savings!DepositedOncePerMonth
  BY DEF AtMostOne, NoDepositMissed, Savings!DepositedOncePerMonth, Savings!Live, Wants
<1>3. DepositedOnce => AtMostOne
  BY DEF DepositedOnce
<1> QED BY <1>1, <1>2, <1>3, SavingsTypedInit, SavingsTypedStep, DepositedOnceStep, NoDepositMissedStep, PTL DEF
   Savings!Spec

-----------------------------------------------------------------------------
(* Routines: one row, its pauses, checks and badges.                       *)

\* The row is made once, before anything else is done with it, and what a request is to
\* write was a frequency the statistics know when it was read.
RoutineThere ==
  /\ routine = None => pauses = <<>> /\ logs = {}
  /\ \A h \in Handlers : request[h] # None => (request[h].kind = "create" <=> routine = None)
  /\ \A h, o \in Handlers :
       request[h] # None /\ request[o] # None /\ request[h].kind = "create"
         /\ request[o].kind = "create" => h = o
CombosRead ==
  \A h \in Handlers : request[h] # None =>
    /\ request[h].kind = "create" => Routine!ValidCombo(request[h].more)
    /\ request[h].kind = "update" =>
         Routine!ValidCombo(Routine!Merged(request[h].more, request[h].seen))

PausesFit ==
  routine # None /\ "pause" \notin misread =>
    IF routine.status = "PAUSED" THEN \E i : Routine!OpenPauses = {i}
                                 ELSE Routine!OpenPauses = {}
ComboFits == routine # None /\ "combo" \notin misread => Routine!ValidCombo(routine)
PlacesFit ==
  routine # None /\ "place" \notin misread =>
    /\ routine.group # None => group = "live"
    /\ routine.link = TRUE => category = "live"

\* A badge that is due is there, or an evaluation will give it.
WillGive(r, b) ==
  r # None /\ (r.kind = "earned" \/ (r.kind \in {"count", "award"} /\ b \in r.more))
BadgesDue ==
  ~unjudged => \A b \in RoutineBadges :
    Cardinality(logs) >= b => b \in earned \/ \E h \in Handlers : WillGive(request[h], b)

RoutineInvariant ==
  Routine!TypeOK /\ RoutineThere /\ CombosRead /\ PausesFit /\ ComboFits /\ PlacesFit /\ BadgesDue

LEMMA RoutineCounts ==
  ASSUME NEW S
  PROVE  Routine!Cardinality(S) = Cardinality(S)
BY Zenon DEF Cardinality, Routine!Cardinality

\* What a request of a routine holds, by its kind.
LEMMA RoutineRequestTypes ==
  ASSUME Routine!ConstantsAssumption, Routine!TypeOK, NEW h \in Handlers, request[h] # None
  PROVE  /\ request[h] \in Routine!Request
         /\ request[h].kind # "create" => request[h].seen \in Routine!Row
         /\ request[h].kind = "create" => request[h].more \in Routine!CreateRoutineDto
         /\ request[h].kind = "update" => request[h].more \in Routine!UpdateRoutineDto
         /\ request[h].kind \in {"resume", "end"} => request[h].more \in {None} \cup Nat
         /\ request[h].kind = "check" => request[h].more \in 1..RoutineDays
         /\ request[h].kind \in {"count", "award"} => request[h].more \subseteq RoutineBadges
<1>1. request[h] \in Routine!Request
  BY DEF Routine!TypeOK
<1> QED BY <1>1 DEF Routine!Request, Routine!Days

LEMMA RoutineNewRequest ==
  ASSUME Routine!ConstantsAssumption, Routine!TypeOK, Routine!NewRequest
  PROVE  requests' \in 0..RoutineRequests
<1>1. requests \in 0..RoutineRequests /\ RoutineRequests \in Nat
  BY DEF Routine!TypeOK, Routine!ConstantsAssumption
<1>2. requests < RoutineRequests /\ requests' = requests + 1
  BY DEF Routine!NewRequest
<1> QED BY <1>1, <1>2

\* A finite set of numbers has a greatest one: the numbers above one of them are a subset of
\* those above a lesser one, and of finite sets one is the least.
LEMMA GreatestOfFinite ==
  ASSUME NEW S, IsFiniteSet(S), S # {}, \A x \in S : x \in Int
  PROVE  \E x \in S : \A y \in S : y <= x
<1> DEFINE Above(x) == {y \in S : y > x}
           T == {Above(x) : x \in S}
<1>1. IsWellFoundedOn(StrictSubsetOrdering(S), FiniteSubsetsOf(S))
  BY FS_StrictSubsetOrderingWellFounded
<1>2. \A x \in S : Above(x) \subseteq S
  OBVIOUS
<1>3. T \subseteq FiniteSubsetsOf(S) /\ T # {}
  <2>1. FiniteSubsetsOf(S) = SUBSET S
    BY FS_FiniteSubsetsOfFinite
  <2>2. T \subseteq SUBSET S
    BY <1>2
  <2>3. T # {}
    OBVIOUS
  <2> QED BY <2>1, <2>2, <2>3
<1> HIDE DEF T
<1>4. PICK m \in T : \A a \in T : ~(<<a, m>> \in StrictSubsetOrdering(S))
  BY <1>1, <1>3, WFMin
<1>5. PICK x \in S : m = Above(x)
  BY <1>4 DEF T
<1>6. ASSUME NEW y \in S, y > x PROVE FALSE
  <2>1. Above(y) \in T
    BY DEF T
  <2>2. /\ \A z \in S : z > y => z > x
        /\ y \in Above(x) /\ y \notin Above(y)
    BY <1>6
  <2>3. Above(y) \subseteq Above(x) /\ Above(y) # Above(x)
    BY <2>2
  <2> HIDE DEF Above
  <2>4. <<Above(y), m>> \in StrictSubsetOrdering(S)
    BY <1>2, <1>5, <2>3 DEF StrictSubsetOrdering
  <2> QED BY <1>4, <2>1, <2>4
<1>7. ASSUME NEW y \in S PROVE y <= x
  BY <1>6
<1> QED BY <1>7

\* A request of a routine that is there has been read.
LEMMA RoutineBegin ==
  ASSUME Routine!ConstantsAssumption, RoutineInvariant, NEW h \in Handlers, NEW kind, NEW more,
         Routine!Begin(h, kind, more),
         [kind |-> kind, seen |-> routine, more |-> more] \in Routine!Request,
         routine # None, kind # "create",
         kind = "update" => Routine!ValidCombo(Routine!Merged(more, routine)),
         UNCHANGED <<today, Routine!rowVars, faults, misread, unjudged>>
  PROVE  RoutineInvariant'
<1> DEFINE r == [kind |-> kind, seen |-> routine, more |-> more]
<1>1. /\ request[h] = None /\ Routine!NewRequest /\ request' = [request EXCEPT ![h] = r]
      /\ UNCHANGED <<today, routine, pauses, logs, earned, group, category, faults, misread,
                     unjudged>>
  BY DEF Routine!Begin, Routine!rowVars
<1>2. request \in [Handlers -> {None} \cup Routine!Request]
  BY DEF RoutineInvariant, Routine!TypeOK
<1>3. r \in Routine!Request /\ r.kind = kind /\ r.more = more /\ r.seen = routine
  OBVIOUS
<1> HIDE DEF r
<1>4. /\ request' \in [Handlers -> {None} \cup Routine!Request]
      /\ \A g \in Handlers : request'[g] = IF g = h THEN r ELSE request[g]
  BY <1>1, <1>2, <1>3
<1>5. requests' \in 0..RoutineRequests
  BY <1>1, RoutineNewRequest DEF RoutineInvariant
<1>6. Routine!TypeOK'
  BY <1>1, <1>4, <1>5 DEF RoutineInvariant, Routine!TypeOK
<1>7. RoutineThere'
  BY <1>1, <1>3, <1>4 DEF RoutineInvariant, RoutineThere
<1>8. CombosRead'
  BY <1>3, <1>4 DEF RoutineInvariant, CombosRead, Routine!ValidCombo, Routine!Merged, Routine!Given
<1>9. PausesFit' /\ ComboFits' /\ PlacesFit'
  BY <1>1 DEF RoutineInvariant, PausesFit, ComboFits, PlacesFit, Routine!OpenPauses,
              Routine!ValidCombo
<1>10. BadgesDue'
  <2>1. \A g \in Handlers : \A b : WillGive(request[g], b) => WillGive(request'[g], b)
    BY <1>1, <1>4 DEF WillGive
  <2> QED BY <1>1, <2>1 DEF RoutineInvariant, BadgesDue, WillGive
<1> QED BY <1>6, <1>7, <1>8, <1>9, <1>10 DEF RoutineInvariant

LEMMA RoutineReadStep ==
  ASSUME Routine!ConstantsAssumption, RoutineInvariant, NEW h \in Handlers,
         \/ \E dto \in RoutineUpdates : Routine!UpdateRead(h, dto)
         \/ Routine!PauseRead(h) \/ Routine!ResumeRead(h) \/ Routine!EndRead(h)
         \/ \E d \in Routine!Days : Routine!CheckRead(h, d)
         \/ Routine!LinkRead(h)
  PROVE  RoutineInvariant'
<1>1. routine # None /\ UNCHANGED <<today, Routine!rowVars, faults, misread, unjudged>>
  BY DEF Routine!UpdateRead, Routine!PauseRead, Routine!ResumeRead, Routine!EndRead,
         Routine!CheckRead, Routine!LinkRead, Routine!Found
<1>2. routine \in Routine!Row
  BY <1>1 DEF RoutineInvariant, Routine!TypeOK
<1>3. Routine!Newest \in {None} \cup Nat
  <2>1. Routine!OpenPauses \subseteq Nat
    BY DEF RoutineInvariant, Routine!TypeOK, Routine!OpenPauses
  <2>2. ASSUME Routine!OpenPauses # {}
        PROVE  \E i \in Routine!OpenPauses :
                 \A j \in Routine!OpenPauses : pauses[j].from <= pauses[i].from
    <3> DEFINE F == {pauses[i].from : i \in Routine!OpenPauses}
    <3>1. pauses \in Seq(Routine!Pause)
      BY DEF RoutineInvariant, Routine!TypeOK
    <3>2. \A i \in DOMAIN pauses : pauses[i].from \in Routine!Days
      <4>1. \A i \in DOMAIN pauses : pauses[i] \in Routine!Pause
        BY <3>1
      <4> QED BY <4>1 DEF Routine!Pause
    <3>3. F \subseteq Routine!Days /\ F # {}
      BY <2>2, <3>2 DEF Routine!OpenPauses
    <3>4. IsFiniteSet(F)
      <4>1. IsFiniteSet(1..RoutineDays)
        <5>1. 1 \in Int /\ RoutineDays \in Int
          BY DEF Routine!ConstantsAssumption
        <5> QED BY <5>1, FS_Interval
      <4> QED BY <3>3, <4>1, FS_Subset DEF Routine!Days
    <3>5. \A x \in F : x \in Int
      BY <3>3 DEF Routine!Days
    <3> HIDE DEF F
    <3>7. PICK x \in F : \A y \in F : y <= x
      BY <3>3, <3>4, <3>5, GreatestOfFinite
    <3>8. PICK i \in Routine!OpenPauses : x = pauses[i].from
      BY <3>7 DEF F
    <3>9. \A j \in Routine!OpenPauses : pauses[j].from \in F
      BY DEF F
    <3> QED BY <3>5, <3>7, <3>8, <3>9
  <2> QED BY <2>1, <2>2 DEF Routine!Newest
<1>4. ASSUME NEW dto \in RoutineUpdates, Routine!UpdateRead(h, dto) PROVE RoutineInvariant'
  <2>1. [kind |-> "update", seen |-> routine, more |-> dto] \in Routine!Request
    BY <1>2 DEF Routine!ConstantsAssumption, Routine!Request
  <2> QED BY <1>1, <1>4, <2>1, RoutineBegin DEF Routine!UpdateRead
<1>5. CASE Routine!PauseRead(h)
  <2>1. [kind |-> "pause", seen |-> routine, more |-> None] \in Routine!Request
    BY <1>2 DEF Routine!Request
  <2> QED BY <1>1, <1>5, <2>1, RoutineBegin DEF Routine!PauseRead
<1>6. CASE Routine!ResumeRead(h)
  <2>1. [kind |-> "resume", seen |-> routine, more |-> Routine!Newest] \in Routine!Request
    BY <1>2, <1>3 DEF Routine!Request
  <2> QED BY <1>1, <1>6, <2>1, RoutineBegin DEF Routine!ResumeRead
<1>7. CASE Routine!EndRead(h)
  <2> DEFINE more == IF routine.status = "PAUSED" THEN Routine!Newest ELSE None
  <2>1. [kind |-> "end", seen |-> routine, more |-> more] \in Routine!Request
    BY <1>2, <1>3 DEF Routine!Request
  <2>2. Routine!Begin(h, "end", more)
    BY <1>7 DEF Routine!EndRead
  <2> HIDE DEF more
  <2> QED BY <1>1, <2>1, <2>2, RoutineBegin
<1>8. ASSUME NEW d \in Routine!Days, Routine!CheckRead(h, d) PROVE RoutineInvariant'
  <2>1. [kind |-> "check", seen |-> routine, more |-> d] \in Routine!Request
    BY <1>2 DEF Routine!Request
  <2> QED BY <1>1, <1>8, <2>1, RoutineBegin DEF Routine!CheckRead
<1>9. CASE Routine!LinkRead(h)
  <2>1. [kind |-> "link", seen |-> routine, more |-> None] \in Routine!Request
    BY <1>2 DEF Routine!Request
  <2> QED BY <1>1, <1>9, <2>1, RoutineBegin DEF Routine!LinkRead
<1> QED BY <1>4, <1>5, <1>6, <1>7, <1>8, <1>9

\* The routine is written once more, and the request is over.
LEMMA RoutineWritten ==
  ASSUME Routine!ConstantsAssumption, RoutineInvariant, NEW h \in Handlers,
         request[h] # None, request[h].kind \in {"update", "pause", "resume", "end", "link"},
         request' = [request EXCEPT ![h] = None],
         routine' \in Routine!Row, pauses' \in Seq(Routine!Pause),
         misread \subseteq misread', misread' \subseteq {"pause", "combo", "place"},
         UNCHANGED <<today, logs, earned, group, category, requests, faults, unjudged>>,
         PausesFit', ComboFits', PlacesFit'
  PROVE  RoutineInvariant'
<1>1. request \in [Handlers -> {None} \cup Routine!Request]
  BY DEF RoutineInvariant, Routine!TypeOK
<1>2. /\ request' \in [Handlers -> {None} \cup Routine!Request]
      /\ \A g \in Handlers : request'[g] = IF g = h THEN None ELSE request[g]
  BY <1>1
<1>3. routine # None /\ routine' # None
  BY DEF RoutineInvariant, RoutineThere, Routine!ConstantsAssumption
<1>4. Routine!TypeOK'
  BY <1>2 DEF RoutineInvariant, Routine!TypeOK
<1>5. RoutineThere'
  BY <1>2, <1>3 DEF RoutineInvariant, RoutineThere
<1>6. CombosRead'
  <2> SUFFICES ASSUME NEW g \in Handlers, request'[g] # None
               PROVE  /\ request'[g].kind = "create" => Routine!ValidCombo(request'[g].more)
                      /\ request'[g].kind = "update" =>
                           Routine!ValidCombo(Routine!Merged(request'[g].more, request'[g].seen))
    BY DEF CombosRead, Routine!ValidCombo, Routine!Merged, Routine!Given
  <2>1. request'[g] = request[g]
    BY <1>2
  <2> QED BY <2>1 DEF RoutineInvariant, CombosRead
<1>7. BadgesDue'
  <2>1. \A g \in Handlers : \A b : WillGive(request[g], b) => WillGive(request'[g], b)
    BY <1>2 DEF WillGive
  <2> QED BY <2>1 DEF RoutineInvariant, BadgesDue, WillGive
<1> QED BY <1>4, <1>5, <1>6, <1>7 DEF RoutineInvariant

\* What an update makes of the row.
LEMMA RoutineMerged ==
  ASSUME Routine!ConstantsAssumption, NEW dto \in Routine!UpdateRoutineDto,
         NEW r \in Routine!Row
  PROVE  /\ Routine!Merged(dto, r) \in Routine!Row
         /\ Routine!Merged(dto, r).status = r.status
         /\ Routine!Merged(dto, r).group = Routine!Given(dto.group, r.group)
         /\ Routine!Merged(dto, r).link = Routine!Given(dto.link, r.link)
<1> DEFINE f == Routine!Given(dto.freq, r.freq)
           m == Routine!Given(dto.mode, r.mode)
           c == Routine!Given(dto.count, r.count)
           d == Routine!Given(dto.days, r.days)
           g == Routine!Given(dto.group, r.group)
           l == Routine!Given(dto.link, r.link)
<1>1. f \in {"DAILY", "WEEKLY", "MONTHLY"} /\ m \in {None, "COUNT_ONLY", "FIXED_DAYS"}
  BY DEF Routine!Given, Routine!Row, Routine!UpdateRoutineDto
<1>2. c \in BOOLEAN /\ d \in BOOLEAN
  BY DEF Routine!Given, Routine!Row, Routine!UpdateRoutineDto
<1>3. g \in {None, "g"} /\ l \in BOOLEAN
  BY DEF Routine!Given, Routine!Row, Routine!UpdateRoutineDto
<1>4. Routine!Merged(dto, r) = [r EXCEPT !.freq = f, !.mode = m, !.count = c, !.days = d,
                                         !.group = g, !.link = l]
  BY DEF Routine!Merged, Routine!Row
<1> HIDE DEF f, m, c, d, g, l
<1> DEFINE n == [freq |-> f, mode |-> m, count |-> c, days |-> d, group |-> g, link |-> l,
                 status |-> r.status, deleted |-> r.deleted]
<1>5. Routine!Merged(dto, r) = n
  BY <1>4 DEF Routine!Row
<1>6. r.status \in {"ACTIVE", "PAUSED", "ENDED"} /\ r.deleted \in BOOLEAN
  BY DEF Routine!Row
<1>7. n \in Routine!Row
  BY <1>1, <1>2, <1>3, <1>6 DEF Routine!Row
<1>8. n.status = r.status /\ n.group = g /\ n.link = l
  OBVIOUS
<1> HIDE DEF n
<1> QED BY <1>5, <1>7, <1>8 DEF g, l

LEMMA RoutineWriteStep ==
  ASSUME Routine!ConstantsAssumption, RoutineInvariant, NEW h \in Handlers,
         Routine!UpdateWrite(h) \/ Routine!LinkWrite(h)
  PROVE  RoutineInvariant'
<1> DEFINE r == request[h]
<1>1. /\ r # None /\ r.kind \in {"update", "link"} /\ request' = [request EXCEPT ![h] = None]
      /\ UNCHANGED <<today, pauses, logs, earned, group, category, requests, faults, unjudged>>
  BY DEF Routine!UpdateWrite, Routine!LinkWrite, Routine!Doing, Routine!Done
<1>2. routine # None /\ routine \in Routine!Row /\ None \notin Routine!Row
  BY <1>1 DEF RoutineInvariant, RoutineThere, Routine!TypeOK, Routine!ConstantsAssumption
<1>3. pauses \in Seq(Routine!Pause) /\ misread \subseteq {"pause", "combo", "place"}
  BY DEF RoutineInvariant, Routine!TypeOK
<1>4. CASE Routine!UpdateWrite(h)
  <2> DEFINE dto == r.more
             new == Routine!Merged(dto, routine)
             was == Routine!Merged(dto, r.seen)
  <2>1. r.kind = "update" /\ dto \in Routine!UpdateRoutineDto /\ r.seen \in Routine!Row
    <3>1. r.kind = "update"
      BY <1>4 DEF Routine!UpdateWrite, Routine!Doing
    <3> QED BY <1>1, <3>1, RoutineRequestTypes DEF RoutineInvariant
  <2>2. /\ routine' = new
        /\ misread' = misread
             \cup (IF Routine!Combo(new) = Routine!Combo(was) THEN {} ELSE {"combo"})
             \cup (IF Routine!PlacesLive(dto) THEN {} ELSE {"place"})
    BY <1>4 DEF Routine!UpdateWrite
  <2>3. /\ new \in Routine!Row /\ new.status = routine.status
        /\ new.group = Routine!Given(dto.group, routine.group)
        /\ new.link = Routine!Given(dto.link, routine.link)
    BY <1>2, <2>1, RoutineMerged
  <2>4. Routine!ValidCombo(was)
    BY <1>1, <2>1 DEF RoutineInvariant, CombosRead
  <2> HIDE DEF new, was
  <2>5. PausesFit'
    BY <1>1, <1>2, <2>2, <2>3 DEF RoutineInvariant, PausesFit, Routine!OpenPauses
  <2>6. ComboFits'
    <3>1. ASSUME "combo" \notin misread' PROVE Routine!ValidCombo(new)
      <4>1. /\ new.freq = was.freq /\ new.mode = was.mode /\ new.count = was.count
            /\ new.days = was.days
        BY <2>2, <3>1 DEF Routine!Combo
      <4> QED BY <2>4, <4>1 DEF Routine!ValidCombo
    <3> QED BY <2>2, <3>1 DEF ComboFits, Routine!ValidCombo
  <2>7. PlacesFit'
    <3>1. ASSUME "place" \notin misread'
          PROVE  (new.group # None => group = "live") /\ (new.link = TRUE => category = "live")
      <4>1. Routine!PlacesLive(dto) /\ "place" \notin misread
        BY <2>2, <3>1
      <4> QED BY <1>2, <2>3, <4>1 DEF Routine!PlacesLive, Routine!Given, RoutineInvariant, PlacesFit
    <3> QED BY <1>1, <2>2, <3>1 DEF PlacesFit
  <2> QED BY <1>1, <1>3, <2>2, <2>3, <2>5, <2>6, <2>7, RoutineWritten
<1>5. CASE Routine!LinkWrite(h)
  <2>1. /\ routine' = [routine EXCEPT !.link = TRUE]
        /\ misread' = IF category # "live" THEN misread \cup {"place"} ELSE misread
    BY <1>5 DEF Routine!LinkWrite, Routine!Note
  <2>2. /\ routine' \in Routine!Row /\ routine'.status = routine.status
        /\ routine'.group = routine.group /\ routine'.freq = routine.freq
        /\ routine'.mode = routine.mode /\ routine'.count = routine.count
        /\ routine'.days = routine.days
    BY <1>2, <2>1 DEF Routine!Row
  <2>3. PausesFit' /\ ComboFits'
    BY <1>1, <1>2, <2>1, <2>2 DEF RoutineInvariant, PausesFit, ComboFits, Routine!OpenPauses,
                                  Routine!ValidCombo
  <2>4. PlacesFit'
    BY <1>1, <1>2, <2>1, <2>2 DEF RoutineInvariant, PlacesFit
  <2> QED BY <1>1, <1>3, <2>1, <2>2, <2>3, <2>4, RoutineWritten
<1> QED BY <1>4, <1>5

\* A pause is opened or closed, with the status.
LEMMA RoutinePauseStep ==
  ASSUME Routine!ConstantsAssumption, RoutineInvariant, NEW h \in Handlers,
         Routine!PauseWrite(h) \/ Routine!ResumeWrite(h) \/ Routine!EndWrite(h)
  PROVE  RoutineInvariant'
<1> DEFINE r == request[h]
           i == r.more
<1>1. /\ r # None /\ r.kind \in {"pause", "resume", "end"} /\ request' = [request EXCEPT ![h] = None]
      /\ UNCHANGED <<today, logs, earned, group, category, requests, faults, unjudged>>
  BY DEF Routine!PauseWrite, Routine!ResumeWrite, Routine!EndWrite, Routine!Doing, Routine!Done
<1>2. routine # None /\ routine \in Routine!Row /\ None \notin Routine!Row
  BY <1>1 DEF RoutineInvariant, RoutineThere, Routine!TypeOK, Routine!ConstantsAssumption
<1>3. /\ pauses \in Seq(Routine!Pause) /\ misread \subseteq {"pause", "combo", "place"}
      /\ today \in Routine!Days /\ None \notin Nat
  BY DEF RoutineInvariant, Routine!TypeOK, Routine!ConstantsAssumption
<1>4. misread' \in {misread, misread \cup {"pause"}}
  BY DEF Routine!PauseWrite, Routine!ResumeWrite, Routine!EndWrite, Routine!Note
<1>5. /\ routine' \in Routine!Row
      /\ routine'.group = routine.group /\ routine'.freq = routine.freq
      /\ routine'.mode = routine.mode /\ routine'.count = routine.count
      /\ routine'.days = routine.days /\ routine'.link = routine.link
  BY <1>2 DEF Routine!PauseWrite, Routine!ResumeWrite, Routine!EndWrite, Routine!Row
<1>6. ComboFits' /\ PlacesFit'
  BY <1>1, <1>2, <1>4, <1>5 DEF RoutineInvariant, ComboFits, PlacesFit, Routine!ValidCombo
<1>7. ASSUME NEW k PROVE Routine!Close(k) \in Seq(Routine!Pause)
  <2>1. CASE k \in DOMAIN pauses
    <3> DEFINE p == [pauses[k] EXCEPT !.to = today]
    <3>1. p \in Routine!Pause
      <4>1. pauses[k] \in Routine!Pause
        BY <1>3, <2>1
      <4> QED BY <1>3, <4>1 DEF Routine!Pause
    <3> HIDE DEF p
    <3>2. [pauses EXCEPT ![k] = p] \in Seq(Routine!Pause)
      BY <1>3, <2>1, <3>1
    <3>3. [pauses EXCEPT ![k].to = today] = [pauses EXCEPT ![k] = p]
      BY DEF p
    <3> QED BY <1>3, <3>2, <3>3 DEF Routine!Close
  <2>2. CASE k \notin DOMAIN pauses
    <3>1. [pauses EXCEPT ![k].to = today] = pauses
      BY <1>3, <2>2
    <3> QED BY <1>3, <3>1 DEF Routine!Close
  <2> QED BY <2>1, <2>2
<1>8. ASSUME NEW k, Routine!OpenPauses = {k}, pauses' = Routine!Close(k) PROVE Routine!OpenPauses' = {}
  <2>1. k \in DOMAIN pauses /\ k # None
    BY <1>3, <1>8 DEF Routine!OpenPauses
  <2>2. /\ DOMAIN pauses' = DOMAIN pauses
        /\ \A j \in DOMAIN pauses : j # k => pauses'[j].to = pauses[j].to
        /\ pauses'[k].to = today
    <3>1. pauses[k] \in Routine!Pause
      BY <1>3, <2>1
    <3> QED BY <1>8, <2>1, <3>1 DEF Routine!Close, Routine!Pause
  <2>3. today # None
    BY <1>3 DEF Routine!Days
  <2> QED BY <1>8, <2>2, <2>3 DEF Routine!OpenPauses
<1>9. ASSUME NEW k, Routine!OpenPauses = {k} PROVE Routine!Newest = k
  <2>1. k \in DOMAIN pauses /\ pauses[k].from <= pauses[k].from
    <3>1. k \in DOMAIN pauses
      BY <1>9 DEF Routine!OpenPauses
    <3>2. pauses[k] \in Routine!Pause
      BY <1>3, <3>1
    <3> QED BY <3>1, <3>2 DEF Routine!Pause, Routine!Days
  <2> QED BY <1>9, <2>1 DEF Routine!Newest
<1>10. CASE Routine!PauseWrite(h)
  <2>1. /\ routine' = [routine EXCEPT !.status = "PAUSED"]
        /\ pauses' = Append(pauses, [from |-> today, to |-> None])
        /\ misread' = IF routine.status # "ACTIVE" THEN misread \cup {"pause"} ELSE misread
    BY <1>10 DEF Routine!PauseWrite, Routine!Note
  <2>2. [from |-> today, to |-> None] \in Routine!Pause
    BY <1>3 DEF Routine!Pause
  <2>3. pauses' \in Seq(Routine!Pause)
    BY <1>3, <2>1, <2>2
  <2>4. routine'.status = "PAUSED"
    BY <1>2, <2>1 DEF Routine!Row
  <2>5. PausesFit'
    <3>1. ASSUME "pause" \notin misread' PROVE Routine!OpenPauses' = {Len(pauses) + 1}
      <4>1. Routine!OpenPauses = {}
        BY <1>2, <2>1, <3>1 DEF RoutineInvariant, PausesFit
      <4>2. /\ DOMAIN pauses' = DOMAIN pauses \cup {Len(pauses) + 1}
            /\ \A j \in DOMAIN pauses : pauses'[j] = pauses[j]
            /\ pauses'[Len(pauses) + 1] = [from |-> today, to |-> None]
        BY <1>3, <2>1
      <4> QED BY <4>1, <4>2 DEF Routine!OpenPauses
    <3> QED BY <2>4, <3>1 DEF PausesFit
  <2> QED BY <1>1, <1>3, <1>4, <1>5, <1>6, <2>3, <2>5, RoutineWritten
<1>11. CASE Routine!ResumeWrite(h) \/ Routine!EndWrite(h)
  <2>1. /\ pauses' = Routine!Close(i)
        /\ routine'.status \in {"ACTIVE", "ENDED"}
        /\ misread' = misread => Routine!Newest = i \/ "pause" \in misread
    BY <1>2, <1>11 DEF Routine!ResumeWrite, Routine!EndWrite, Routine!Note, Routine!Row
  <2>2. pauses' \in Seq(Routine!Pause)
    BY <1>7, <2>1
  <2>3. PausesFit'
    <3>1. ASSUME "pause" \notin misread' PROVE Routine!OpenPauses' = {}
      <4>1. Routine!Newest = i /\ "pause" \notin misread
        BY <1>4, <2>1, <3>1
      <4>2. CASE Routine!OpenPauses = {}
        <5>1. i = None
          BY <4>1, <4>2 DEF Routine!Newest
        <5> QED BY <2>1, <4>2, <5>1 DEF Routine!Close, Routine!OpenPauses
      <4>3. ASSUME NEW k, Routine!OpenPauses = {k} PROVE Routine!OpenPauses' = {}
        BY <1>8, <1>9, <2>1, <4>1, <4>3
      <4> QED BY <1>2, <4>1, <4>2, <4>3 DEF RoutineInvariant, PausesFit
    <3> QED BY <2>1, <3>1 DEF PausesFit
  <2> QED BY <1>1, <1>3, <1>4, <1>5, <1>6, <2>2, <2>3, RoutineWritten
<1> QED BY <1>10, <1>11

\* A routine is created.
LEMMA RoutineCreateStep ==
  ASSUME Routine!ConstantsAssumption, RoutineInvariant, NEW h \in Handlers,
         (\E dto \in NewRoutines : Routine!CreateRead(h, dto)) \/ Routine!CreateWrite(h)
  PROVE  RoutineInvariant'
<1>1. /\ request \in [Handlers -> {None} \cup Routine!Request]
      /\ misread \subseteq {"pause", "combo", "place"}
      /\ RoutineBadges \subseteq Nat \ {0} /\ None \notin Routine!Row
  BY DEF RoutineInvariant, Routine!TypeOK, Routine!ConstantsAssumption
<1>2. ASSUME NEW dto \in NewRoutines, Routine!CreateRead(h, dto) PROVE RoutineInvariant'
  <2> DEFINE r == [kind |-> "create", seen |-> routine, more |-> dto]
  <2>1. /\ dto \in Routine!CreateRoutineDto /\ routine = None /\ Routine!ValidCombo(dto)
        /\ \A o \in Handlers : ~Routine!Doing(o, "create")
        /\ request[h] = None /\ Routine!NewRequest /\ request' = [request EXCEPT ![h] = r]
        /\ UNCHANGED <<today, routine, pauses, logs, earned, group, category, faults, misread,
                       unjudged>>
    BY <1>2 DEF Routine!CreateRead, Routine!Begin, Routine!rowVars
  <2>2. r \in Routine!Request /\ r.kind = "create" /\ r.more = dto
    BY <2>1 DEF Routine!Request
  <2> HIDE DEF r
  <2>3. /\ request' \in [Handlers -> {None} \cup Routine!Request]
        /\ \A g \in Handlers : request'[g] = IF g = h THEN r ELSE request[g]
    BY <1>1, <2>1, <2>2
  <2>4. requests' \in 0..RoutineRequests
    BY <2>1, RoutineNewRequest DEF RoutineInvariant
  <2>5. Routine!TypeOK'
    BY <2>1, <2>3, <2>4 DEF RoutineInvariant, Routine!TypeOK
  <2>6. RoutineThere'
    BY <2>1, <2>2, <2>3 DEF RoutineInvariant, RoutineThere, Routine!Doing
  <2>7. CombosRead'
    BY <2>1, <2>2, <2>3 DEF RoutineInvariant, CombosRead, Routine!ValidCombo, Routine!Merged,
                            Routine!Given
  <2>8. PausesFit' /\ ComboFits' /\ PlacesFit'
    BY <2>1 DEF PausesFit, ComboFits, PlacesFit
  <2>9. BadgesDue'
    <3>1. \A g \in Handlers : \A b : WillGive(request[g], b) => WillGive(request'[g], b)
      BY <2>1, <2>3 DEF WillGive
    <3> QED BY <2>1, <3>1 DEF RoutineInvariant, BadgesDue, WillGive
  <2> QED BY <2>5, <2>6, <2>7, <2>8, <2>9 DEF RoutineInvariant
<1>3. CASE Routine!CreateWrite(h)
  <2> DEFINE dto == request[h].more
             new == [freq |-> dto.freq, mode |-> dto.mode, count |-> dto.count,
                     days |-> dto.days, group |-> dto.group, link |-> dto.link,
                     status |-> "ACTIVE", deleted |-> FALSE]
  <2>1. /\ request[h] # None /\ request[h].kind = "create"
        /\ request' = [request EXCEPT ![h] = None] /\ routine' = new
        /\ misread' = IF ~Routine!PlacesLive(dto) THEN misread \cup {"place"} ELSE misread
        /\ UNCHANGED <<today, pauses, logs, earned, group, category, requests, faults, unjudged>>
    BY <1>3 DEF Routine!CreateWrite, Routine!Doing, Routine!Done, Routine!Note
  <2>2. /\ dto \in Routine!CreateRoutineDto /\ Routine!ValidCombo(dto) /\ routine = None
        /\ pauses = <<>> /\ logs = {}
    BY <2>1, RoutineRequestTypes DEF RoutineInvariant, RoutineThere, CombosRead
  <2>3. /\ new \in Routine!Row /\ new.status = "ACTIVE" /\ new.freq = dto.freq
        /\ new.mode = dto.mode /\ new.count = dto.count /\ new.days = dto.days
        /\ new.group = dto.group /\ new.link = dto.link
    BY <2>2 DEF Routine!Row, Routine!CreateRoutineDto
  <2>4. /\ request' \in [Handlers -> {None} \cup Routine!Request]
        /\ \A g \in Handlers : request'[g] = IF g = h THEN None ELSE request[g]
    BY <1>1, <2>1
  <2> HIDE DEF new
  <2>5. Routine!TypeOK'
    BY <1>1, <2>1, <2>3, <2>4 DEF RoutineInvariant, Routine!TypeOK
  <2>6. \A g \in Handlers : request'[g] = None
    BY <2>1, <2>2, <2>4 DEF RoutineInvariant, RoutineThere
  <2>7. RoutineThere' /\ CombosRead'
    BY <1>1, <2>1, <2>3, <2>6 DEF RoutineThere, CombosRead
  <2>8. PausesFit'
    BY <2>1, <2>2, <2>3 DEF PausesFit, Routine!OpenPauses
  <2>9. ComboFits'
    BY <2>1, <2>2, <2>3 DEF ComboFits, Routine!ValidCombo
  <2>10. PlacesFit'
    BY <2>1, <2>2, <2>3 DEF PlacesFit, Routine!PlacesLive, Routine!CreateRoutineDto,
                                  Routine!ConstantsAssumption
  <2>11. BadgesDue'
    BY <1>1, <2>1, <2>2, FS_EmptySet DEF BadgesDue
  <2> QED BY <2>5, <2>7, <2>8, <2>9, <2>10, <2>11 DEF RoutineInvariant
<1> QED BY <1>2, <1>3

\* The routine is checked off for a day, and badges are given.
LEMMA RoutineCheckStep ==
  ASSUME Routine!ConstantsAssumption, RoutineInvariant, NEW h \in Handlers,
         \/ Routine!CheckWrite(h) \/ Routine!ReadEarned(h) \/ Routine!CountChecks(h)
         \/ Routine!Award(h) \/ Routine!EvaluationFails(h)
  PROVE  RoutineInvariant'
<1> DEFINE r == request[h]
<1>1. /\ r # None /\ r.kind \in {"check", "earned", "count", "award"}
      /\ UNCHANGED <<today, routine, pauses, group, category, requests, misread>>
  BY DEF Routine!CheckWrite, Routine!ReadEarned, Routine!CountChecks, Routine!Award,
         Routine!EvaluationFails, Routine!Doing, Routine!rowVars
<1>2. /\ routine # None /\ r.seen \in Routine!Row /\ r \in Routine!Request
      /\ r.kind = "check" => r.more \in Routine!Days
      /\ r.kind \in {"count", "award"} => r.more \subseteq RoutineBadges
  BY <1>1, RoutineRequestTypes DEF RoutineInvariant, RoutineThere, Routine!Days
<1>3. /\ request \in [Handlers -> {None} \cup Routine!Request]
      /\ logs \subseteq Routine!Days /\ earned \subseteq RoutineBadges
      /\ unjudged \in BOOLEAN
  BY DEF RoutineInvariant, Routine!TypeOK
<1>4. ASSUME NEW q \in {None} \cup Routine!Request, request' = [request EXCEPT ![h] = q],
             q # None => q.kind \notin {"create", "update"},
             logs' \subseteq Routine!Days, earned' \subseteq RoutineBadges,
             faults' \in 0..RoutineFaults, unjudged' \in BOOLEAN,
             BadgesDue'
      PROVE  RoutineInvariant'
  <2>1. /\ request' \in [Handlers -> {None} \cup Routine!Request]
        /\ \A g \in Handlers : request'[g] = IF g = h THEN q ELSE request[g]
    BY <1>3, <1>4
  <2>2. Routine!TypeOK'
    BY <1>1, <1>4, <2>1 DEF RoutineInvariant, Routine!TypeOK
  <2>3. RoutineThere'
    BY <1>1, <1>2, <1>4, <2>1 DEF RoutineInvariant, RoutineThere
  <2>4. CombosRead'
    BY <1>4, <2>1 DEF RoutineInvariant, CombosRead, Routine!ValidCombo, Routine!Merged, Routine!Given
  <2>5. PausesFit' /\ ComboFits' /\ PlacesFit'
    BY <1>1 DEF RoutineInvariant, PausesFit, ComboFits, PlacesFit, Routine!OpenPauses,
                Routine!ValidCombo
  <2> QED BY <1>4, <2>2, <2>3, <2>4, <2>5 DEF RoutineInvariant
<1>5. faults \in 0..RoutineFaults
  BY DEF RoutineInvariant, Routine!TypeOK
<1>6. ASSUME NEW q \in {None} \cup Routine!Request, request' = [request EXCEPT ![h] = q],
             NEW b \in RoutineBadges, NEW g \in Handlers \ {h}, WillGive(request[g], b)
      PROVE  \E o \in Handlers : WillGive(request'[o], b)
  BY <1>3, <1>6 DEF WillGive
<1>7. CASE Routine!CheckWrite(h)
  <2>1. /\ logs' = logs \cup {r.more} /\ r.kind = "check" /\ UNCHANGED <<earned, faults, unjudged>>
        /\ IF r.more \in logs THEN request' = [request EXCEPT ![h] = None]
           ELSE request' = [request EXCEPT ![h].kind = "earned", ![h].more = None]
    BY <1>7 DEF Routine!CheckWrite, Routine!Doing, Routine!Done, Routine!Goto
  <2>2. logs' \subseteq Routine!Days
    BY <1>2, <1>3, <2>1
  <2>3. CASE r.more \in logs
    <3>1. request' = [request EXCEPT ![h] = None] /\ logs' = logs
      BY <2>1, <2>3
    <3>2. ~\E b : WillGive(r, b)
      BY <2>1 DEF WillGive
    <3>3. \A g \in Handlers : \A b : WillGive(request[g], b) => WillGive(request'[g], b)
      BY <1>3, <3>1, <3>2 DEF WillGive
    <3>4. BadgesDue'
      BY <2>1, <3>1, <3>3 DEF RoutineInvariant, BadgesDue, WillGive
    <3> QED BY <1>3, <1>4, <1>5, <2>1, <2>2, <3>1, <3>4
  <2>4. CASE r.more \notin logs
    <3> DEFINE q == [r EXCEPT !.kind = "earned", !.more = None]
    <3>1. request' = [request EXCEPT ![h] = q]
      BY <1>3, <2>1, <2>4
    <3>2. q \in Routine!Request /\ q.kind = "earned" /\ q # None
      <4>1. r \in [kind : {"check"}, seen : Routine!Row, more : Routine!Days]
        BY <1>2, <2>1 DEF Routine!Request
      <4>2. q \in [kind : {"earned"}, seen : Routine!Row, more : {None}]
        BY <4>1
      <4> QED BY <4>2 DEF Routine!Request, Routine!ConstantsAssumption
    <3> HIDE DEF q
    <3>3. \A b \in RoutineBadges : WillGive(request'[h], b)
      BY <1>3, <3>1, <3>2 DEF WillGive
    <3>4. BadgesDue'
      BY <3>3 DEF BadgesDue, WillGive
    <3> QED BY <1>3, <1>4, <1>5, <2>1, <2>2, <3>1, <3>2, <3>4
  <2> QED BY <2>3, <2>4
<1>8. CASE Routine!ReadEarned(h) \/ Routine!CountChecks(h)
  <2> DEFINE more == IF r.kind = "earned" THEN RoutineBadges \ earned
                     ELSE {b \in r.more : Cardinality(logs) >= b}
             kind == IF r.kind = "earned" THEN "count" ELSE "award"
             q == [r EXCEPT !.kind = kind, !.more = more]
  <2>1. /\ r.kind \in {"earned", "count"} /\ UNCHANGED <<logs, earned, faults, unjudged>>
        /\ request' = [request EXCEPT ![h].kind = kind, ![h].more = more]
    BY <1>8, RoutineCounts DEF Routine!ReadEarned, Routine!CountChecks, Routine!Doing,
                               Routine!Goto, Routine!rowVars
  <2>2. more \subseteq RoutineBadges /\ kind \in {"count", "award"}
    BY <1>2, <2>1
  <2>3. ASSUME NEW b \in RoutineBadges, Cardinality(logs) >= b, WillGive(r, b)
        PROVE  b \in earned \/ b \in more
    BY <2>1, <2>3 DEF WillGive
  <2> HIDE DEF more, kind
  <2>4. request' = [request EXCEPT ![h] = q]
    BY <1>3, <2>1
  <2>5. /\ q \in Routine!Request /\ q.kind \in {"count", "award"} /\ q.more = more
        /\ q # None
    <3>1. \/ r \in [kind : {"earned", "pause", "link"}, seen : Routine!Row, more : {None}]
          \/ r \in [kind : {"count", "award"}, seen : Routine!Row, more : SUBSET RoutineBadges]
      BY <1>2, <2>1 DEF Routine!Request
    <3>2. q \in [kind : {"count", "award"}, seen : Routine!Row, more : SUBSET RoutineBadges]
      BY <2>2, <3>1
    <3> QED BY <3>1, <3>2 DEF Routine!Request, Routine!ConstantsAssumption
  <2> HIDE DEF q
  <2>6. ASSUME ~unjudged, NEW b \in RoutineBadges, Cardinality(logs) >= b
        PROVE  b \in earned \/ \E g \in Handlers : WillGive(request'[g], b)
    <3>1. b \in earned \/ \E g \in Handlers : WillGive(request[g], b)
      BY <2>6 DEF RoutineInvariant, BadgesDue
    <3>2. CASE WillGive(r, b)
      <4>1. b \in earned \/ b \in more
        BY <2>3, <2>6, <3>2
      <4>2. b \in more => WillGive(request'[h], b)
        BY <1>3, <2>4, <2>5 DEF WillGive
      <4> QED BY <4>1, <4>2
    <3>3. ASSUME NEW g \in Handlers \ {h}, WillGive(request[g], b)
          PROVE  \E o \in Handlers : WillGive(request'[o], b)
      BY <1>6, <2>4, <2>5, <3>3
    <3> QED BY <3>1, <3>2, <3>3
  <2>7. BadgesDue'
    BY <2>1, <2>6 DEF BadgesDue, WillGive
  <2> QED BY <1>3, <1>4, <1>5, <2>1, <2>4, <2>5, <2>7
<1>9. CASE Routine!Award(h)
  <2>1. /\ r.kind = "award" /\ request' = [request EXCEPT ![h] = None] /\ UNCHANGED <<logs, faults>>
        /\ \/ earned' = earned \cup r.more /\ unjudged' = unjudged
           \/ earned' = earned /\ unjudged' = TRUE
    BY <1>9 DEF Routine!Award, Routine!Doing, Routine!Done
  <2>2. earned' \subseteq RoutineBadges /\ unjudged' \in BOOLEAN
    BY <1>2, <1>3, <2>1
  <2>3. ASSUME ~unjudged', NEW b \in RoutineBadges, Cardinality(logs) >= b
        PROVE  b \in earned' \/ \E g \in Handlers : WillGive(request'[g], b)
    <3>1. ~unjudged /\ earned' = earned \cup r.more
      BY <2>1, <2>3
    <3>2. b \in earned \/ \E g \in Handlers : WillGive(request[g], b)
      BY <2>3, <3>1 DEF RoutineInvariant, BadgesDue
    <3>3. WillGive(r, b) => b \in r.more
      BY <2>1 DEF WillGive
    <3>4. ASSUME NEW g \in Handlers \ {h}, WillGive(request[g], b)
          PROVE  \E o \in Handlers : WillGive(request'[o], b)
      BY <1>6, <2>1, <3>4
    <3> QED BY <3>1, <3>2, <3>3, <3>4
  <2>4. BadgesDue'
    BY <2>1, <2>3 DEF BadgesDue, WillGive
  <2> QED BY <1>3, <1>4, <1>5, <2>1, <2>2, <2>4
<1>10. CASE Routine!EvaluationFails(h)
  <2>1. /\ request' = [request EXCEPT ![h] = None] /\ UNCHANGED <<logs, earned>>
        /\ unjudged' = TRUE /\ faults < RoutineFaults /\ faults' = faults + 1
    BY <1>10 DEF Routine!EvaluationFails, Routine!Done, Routine!rowVars
  <2>2. RoutineFaults \in Nat
    BY DEF Routine!ConstantsAssumption
  <2>3. faults' \in 0..RoutineFaults
    BY <1>5, <2>1, <2>2
  <2>4. BadgesDue'
    BY <2>1 DEF BadgesDue
  <2> QED BY <1>3, <1>4, <2>1, <2>3, <2>4
<1> QED BY <1>7, <1>8, <1>9, <1>10

\* The steps of one statement.
LEMMA RoutineRowStep ==
  ASSUME Routine!ConstantsAssumption, RoutineInvariant,
         \/ \E d \in Routine!Days : Routine!Uncheck(d)
         \/ Routine!RemoveGroup \/ Routine!RemoveCategory \/ Routine!Unlink \/ Routine!DayPasses
  PROVE  RoutineInvariant'
<1>1. UNCHANGED <<pauses, earned, request, faults, misread, unjudged>>
  BY DEF Routine!Uncheck, Routine!RemoveGroup, Routine!RemoveCategory, Routine!Unlink,
         Routine!DayPasses, Routine!rowVars
<1>2. requests' \in 0..RoutineRequests
  <2>1. Routine!NewRequest \/ requests' = requests
    BY DEF Routine!Uncheck, Routine!RemoveGroup, Routine!RemoveCategory, Routine!Unlink,
           Routine!DayPasses
  <2> QED BY <2>1, RoutineNewRequest DEF RoutineInvariant, Routine!TypeOK
<1>3. today' \in Routine!Days
  <2>1. today' = today \/ (today < RoutineDays /\ today' = today + 1)
    BY DEF Routine!Uncheck, Routine!RemoveGroup, Routine!RemoveCategory, Routine!Unlink,
           Routine!DayPasses
  <2>2. today \in 1..RoutineDays /\ RoutineDays \in Nat
    BY DEF RoutineInvariant, Routine!TypeOK, Routine!Days, Routine!ConstantsAssumption
  <2> QED BY <2>1, <2>2 DEF Routine!Days
<1>4. /\ logs' \subseteq logs
      /\ routine = None => logs' = logs
  BY DEF Routine!Uncheck, Routine!RemoveGroup, Routine!RemoveCategory, Routine!Unlink,
         Routine!DayPasses, Routine!rowVars, Routine!Found
<1>5. /\ group' = group \/ (group' = "deleted" /\ (routine # None => routine' = [routine EXCEPT !.group = None]))
      /\ category' = category \/ (category' = "deleted" /\ (routine # None => routine' = [routine EXCEPT !.link = FALSE]))
      /\ \/ routine' = routine
         \/ /\ routine # None
            /\ \/ routine' = [routine EXCEPT !.group = None]
               \/ routine' = [routine EXCEPT !.link = FALSE]
  BY DEF Routine!Uncheck, Routine!RemoveGroup, Routine!RemoveCategory, Routine!Unlink,
         Routine!DayPasses, Routine!rowVars, Routine!Found
<1>6. routine \in {None} \cup Routine!Row /\ None \notin Routine!Row
  BY DEF RoutineInvariant, Routine!TypeOK, Routine!ConstantsAssumption
<1>7. /\ routine' \in {None} \cup Routine!Row
      /\ routine' = None <=> routine = None
      /\ routine # None =>
           /\ routine'.freq = routine.freq /\ routine'.mode = routine.mode
           /\ routine'.count = routine.count /\ routine'.days = routine.days
           /\ routine'.status = routine.status
           /\ routine'.group \in {routine.group, None} /\ routine'.link \in {routine.link, FALSE}
  <2>1. CASE routine' = routine
    BY <1>6, <2>1
  <2>2. CASE routine # None /\ routine' = [routine EXCEPT !.group = None]
    <3>1. routine \in Routine!Row
      BY <1>6, <2>2
    <3>2. routine' \in Routine!Row
      BY <2>2, <3>1 DEF Routine!Row
    <3> QED BY <1>6, <2>2, <3>1, <3>2 DEF Routine!Row
  <2>3. CASE routine # None /\ routine' = [routine EXCEPT !.link = FALSE]
    <3>1. routine \in Routine!Row
      BY <1>6, <2>3
    <3>2. routine' \in Routine!Row
      BY <2>3, <3>1 DEF Routine!Row
    <3> QED BY <1>6, <2>3, <3>1, <3>2 DEF Routine!Row
  <2> QED BY <1>5, <2>1, <2>2, <2>3
<1>8. /\ routine # None /\ group' # group => routine'.group = None
      /\ routine # None /\ category' # category => routine'.link = FALSE
  BY <1>5, <1>6 DEF Routine!Row
<1>9. group' \in {"live", "deleted"} /\ category' \in {"live", "deleted"}
  BY <1>5 DEF RoutineInvariant, Routine!TypeOK
<1>10. Routine!TypeOK'
  BY <1>1, <1>2, <1>3, <1>4, <1>7, <1>9 DEF RoutineInvariant, Routine!TypeOK
<1>11. RoutineThere'
  BY <1>1, <1>4, <1>7 DEF RoutineInvariant, RoutineThere
<1>12. CombosRead'
  BY <1>1 DEF RoutineInvariant, CombosRead, Routine!ValidCombo, Routine!Merged, Routine!Given
<1>13. PausesFit' /\ ComboFits'
  BY <1>1, <1>7 DEF RoutineInvariant, PausesFit, ComboFits, Routine!OpenPauses, Routine!ValidCombo
<1>14. PlacesFit'
  BY <1>1, <1>7, <1>8 DEF RoutineInvariant, PlacesFit
<1>15. BadgesDue'
  <2>1. IsFiniteSet(logs)
    <3>1. IsFiniteSet(1..RoutineDays)
      <4>1. 1 \in Int /\ RoutineDays \in Int
        BY DEF Routine!ConstantsAssumption
      <4> QED BY <4>1, FS_Interval
    <3>2. logs \subseteq 1..RoutineDays
      BY DEF RoutineInvariant, Routine!TypeOK, Routine!Days
    <3> QED BY <3>1, <3>2, FS_Subset
  <2>2. /\ Cardinality(logs') <= Cardinality(logs)
        /\ Cardinality(logs') \in Nat /\ Cardinality(logs) \in Nat
    BY <1>4, <2>1, FS_Subset, FS_CardinalityType
  <2>3. RoutineBadges \subseteq Nat
    BY DEF Routine!ConstantsAssumption
  <2>4. \A b \in RoutineBadges : Cardinality(logs') >= b => Cardinality(logs) >= b
    BY <2>2, <2>3
  <2> QED BY <1>1, <2>4 DEF RoutineInvariant, BadgesDue, WillGive
<1> QED BY <1>10, <1>11, <1>12, <1>13, <1>14, <1>15 DEF RoutineInvariant

LEMMA RoutineInvariantStep ==
  ASSUME Routine!ConstantsAssumption, RoutineInvariant, [Routine!Next]_(Routine!vars)
  PROVE  RoutineInvariant'
<1>1. ASSUME NEW h \in Handlers,
             \/ \E dto \in NewRoutines : Routine!CreateRead(h, dto)
             \/ Routine!CreateWrite(h)
      PROVE  RoutineInvariant'
  BY <1>1, RoutineCreateStep
<1>2. ASSUME NEW h \in Handlers,
             \/ \E dto \in RoutineUpdates : Routine!UpdateRead(h, dto)
             \/ Routine!PauseRead(h) \/ Routine!ResumeRead(h) \/ Routine!EndRead(h)
             \/ \E d \in Routine!Days : Routine!CheckRead(h, d)
             \/ Routine!LinkRead(h)
      PROVE  RoutineInvariant'
  BY <1>2, RoutineReadStep
<1>3. ASSUME NEW h \in Handlers,
             \/ Routine!UpdateWrite(h) \/ Routine!LinkWrite(h) \/ Routine!PauseWrite(h)
             \/ Routine!ResumeWrite(h) \/ Routine!EndWrite(h)
      PROVE  RoutineInvariant'
  BY <1>3, RoutineWriteStep, RoutinePauseStep
<1>4. ASSUME NEW h \in Handlers,
             \/ Routine!CheckWrite(h) \/ Routine!ReadEarned(h) \/ Routine!CountChecks(h)
             \/ Routine!Award(h) \/ Routine!EvaluationFails(h)
      PROVE  RoutineInvariant'
  BY <1>4, RoutineCheckStep
<1>5. CASE \/ \E d \in Routine!Days : Routine!Uncheck(d)
           \/ Routine!RemoveGroup \/ Routine!RemoveCategory \/ Routine!Unlink \/ Routine!DayPasses
  BY <1>5, RoutineRowStep
<1>6. CASE UNCHANGED Routine!vars
  <2>1. UNCHANGED <<today, routine, pauses, logs, earned, group, category, request, requests,
                    faults, misread, unjudged>>
    BY <1>6 DEF Routine!vars, Routine!rowVars
  <2>2. Routine!TypeOK' /\ RoutineThere' /\ PausesFit' /\ ComboFits' /\ PlacesFit'
    BY <2>1 DEF RoutineInvariant, Routine!TypeOK, RoutineThere, PausesFit, ComboFits, PlacesFit,
                Routine!OpenPauses, Routine!ValidCombo
  <2>3. CombosRead' /\ BadgesDue'
    BY <2>1 DEF RoutineInvariant, CombosRead, BadgesDue, WillGive, Routine!ValidCombo,
                Routine!Merged, Routine!Given
  <2> QED BY <2>2, <2>3 DEF RoutineInvariant
<1> QED BY <1>1, <1>2, <1>3, <1>4, <1>5, <1>6 DEF Routine!Next

LEMMA RoutineInvariantInit ==
  ASSUME Routine!ConstantsAssumption, Routine!Init
  PROVE  RoutineInvariant
<1>1. Routine!TypeOK
  <2>1. requests \in 0..RoutineRequests /\ faults \in 0..RoutineFaults /\ today \in Routine!Days
    BY DEF Routine!ConstantsAssumption, Routine!Init, Routine!Days
  <2>2. pauses \in Seq(Routine!Pause) /\ request \in [Handlers -> {None} \cup Routine!Request]
    BY DEF Routine!Init
  <2>3. /\ routine = None /\ logs = {} /\ earned = {} /\ group = "live" /\ category = "live"
        /\ misread = {} /\ unjudged = FALSE
    BY DEF Routine!Init
  <2> QED BY <2>1, <2>2, <2>3 DEF Routine!TypeOK
<1>2. /\ routine = None /\ pauses = <<>> /\ logs = {} /\ \A h \in Handlers : request[h] = None
  BY DEF Routine!Init
<1>3. Cardinality(logs) = 0 /\ RoutineBadges \subseteq Nat \ {0}
  BY <1>2, FS_EmptySet DEF Routine!ConstantsAssumption
<1>4. BadgesDue
  BY <1>3 DEF BadgesDue
<1> QED BY <1>1, <1>2, <1>4 DEF RoutineInvariant, RoutineThere, CombosRead, PausesFit, ComboFits,
                                PlacesFit

LEMMA RoutineFromInvariant ==
  ASSUME Routine!ConstantsAssumption, RoutineInvariant
  PROVE  Routine!RoutineTablesAgree
<1> SUFFICES ASSUME routine # None PROVE Routine!RoutineTablesAgree
  BY DEF Routine!RoutineTablesAgree
<1>1. routine \in Routine!Row
  BY DEF RoutineInvariant, Routine!TypeOK
<1>2. "pause" \notin misread =>
        Routine!Cardinality(Routine!OpenPauses) = IF routine.status = "PAUSED" THEN 1 ELSE 0
  <2>1. Cardinality({}) = 0 /\ \A i : Cardinality({i}) = 1
    BY FS_EmptySet, FS_Singleton
  <2> QED BY <2>1, RoutineCounts DEF RoutineInvariant, PausesFit
<1>3. /\ "combo" \notin misread => Routine!ValidCombo(routine)
      /\ "place" \notin misread => /\ routine.group # None => group = "live"
                                   /\ routine.link => category = "live"
  BY <1>1 DEF RoutineInvariant, ComboFits, PlacesFit, Routine!Row
<1>4. ASSUME ~unjudged, \A h \in Handlers : ~Routine!Judging(h), NEW b \in RoutineBadges,
             Routine!Cardinality(logs) >= b
      PROVE  b \in earned
  <2>1. \A h \in Handlers : ~WillGive(request[h], b)
    BY <1>4 DEF WillGive, Routine!Judging, Routine!Doing
  <2> QED BY <1>4, <2>1, RoutineCounts DEF RoutineInvariant, BadgesDue
<1>5. ~unjudged /\ (\A h \in Handlers : ~Routine!Judging(h)) =>
        {b \in RoutineBadges : Routine!Cardinality(logs) >= b} \subseteq earned
  BY <1>4
<1> QED BY <1>2, <1>3, <1>5 DEF Routine!RoutineTablesAgree

\* A routine, its pauses, checks and requests keep their shapes (RoutineService).
THEOREM RoutinesTypeCorrect ==
  ASSUME Routine!ConstantsAssumption
  PROVE  Routine!Spec => []Routine!TypeOK
<1>1. RoutineInvariant => Routine!TypeOK
  BY DEF RoutineInvariant
<1> QED BY RoutineInvariantInit, RoutineInvariantStep, <1>1, PTL DEF Routine!Spec

\* The tables of a routine tell one story, unless a write went through on what had changed
\* since it was read (pause, resume, end, update, check, evaluateAndAward).
THEOREM RoutineTablesAgreeHolds ==
  ASSUME Routine!ConstantsAssumption
  PROVE  Routine!Spec => []Routine!RoutineTablesAgree
BY RoutineInvariantInit, RoutineInvariantStep, RoutineFromInvariant, PTL DEF Routine!Spec
=============================================================================
