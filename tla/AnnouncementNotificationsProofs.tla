------------------- MODULE AnnouncementNotificationsProofs -------------------
(***************************************************************************)
(* Proofs about AnnouncementNotifications, for any number of announcements, *)
(* instances, retries, edits and faults.                                   *)
(***************************************************************************)
EXTENDS AnnouncementNotifications, FiniteSetTheorems, TLAPS

\* A value of Nat that is not above a bound is in the interval.
LEMMA IntervalLemma ==
  ASSUME NEW n \in Nat, NEW k \in 0..n, k < n
  PROVE  k + 1 \in 0..n
  OBVIOUS

\* A fault leaves the record of faults well-typed (Fault is a guard with a bound).
LEMMA FaultType ==
  ASSUME faults \in [{"crash", "db", "add"} -> 0..MaxFaults],
         NEW kind \in {"crash", "db", "add"}, Fault(kind)
  PROVE  faults' \in [{"crash", "db", "add"} -> 0..MaxFaults]
<1> USE ConstantsAssumption
<1>1. /\ faults["crash"] \in 0..MaxFaults
      /\ faults["db"] \in 0..MaxFaults
      /\ faults["add"] \in 0..MaxFaults
  OBVIOUS
<1>2. faults[kind] < MaxFaults
  BY <1>1 DEF Fault
<1>3. faults[kind] + 1 \in 0..MaxFaults
  BY <1>1, <1>2
<1> QED BY <1>3 DEF Fault

\* The members onModuleInit reads are members of the sorted set's type.
LEMMA PendingType == Pending \subseteq Member
  BY DEF Pending

\* The members of one announcement are finitely many: a title is a number of
\* edits and a retryCount is bounded.
LEMMA MembersOfOneAnnouncement ==
  ASSUME NEW M \in SUBSET Member, NEW a \in Announcements
  PROVE  /\ IsFiniteSet({m \in M : m.ann = a})
         /\ Cardinality({m \in M : m.ann = a}) \in Nat
<1> DEFINE T == {m \in M : m.ann = a}
           S == Title \X (0..MaxRetry)
           f == [m \in T |-> <<m.title, m.retry>>]
<1> USE ConstantsAssumption
<1>1. IsFiniteSet(S)
  <2>1. IsFiniteSet(Title)
    BY FS_Interval DEF Title
  <2>2. IsFiniteSet(0..MaxRetry)
    BY FS_Interval
  <2> QED BY <2>1, <2>2, FS_Product
<1>2. f \in Injection(T, S)
  <2>1. f \in [T -> S]
    BY DEF Member
  <2>2. ASSUME NEW m \in T, NEW n \in T, f[m] = f[n] PROVE m = n
    BY <2>2 DEF Member
  <2> QED BY <2>1, <2>2 DEF Injection, IsInjective
<1>3. IsFiniteSet(T)
  BY <1>1, <1>2, FS_Injection
<1> QED BY <1>3, FS_CardinalityType

\* A job that goes on to another await, or ends, leaves no member that was not there.
LEMMA JobsAfter ==
  ASSUME inflight \in [Instances -> SUBSET Job], NEW i \in Instances, NEW x \in inflight[i],
         \/ \E stage \in {"send", "mark", "retry"} : MoveTo(i, x, stage)
         \/ Finish(i, x)
  PROVE  /\ inflight' \in [Instances -> SUBSET Job]
         /\ \A n \in Instances : \A y \in inflight'[n] : \E z \in inflight[n] : y.m = z.m
<1>1. CASE Finish(i, x)
  BY <1>1 DEF Finish
<1>2. ASSUME NEW stage \in {"send", "mark", "retry"}, MoveTo(i, x, stage)
      PROVE  /\ inflight' \in [Instances -> SUBSET Job]
             /\ \A n \in Instances : \A y \in inflight'[n] : \E z \in inflight[n] : y.m = z.m
  <2> DEFINE new == [x EXCEPT !.stage = stage]
  <2>1. x \in Job /\ new \in Job /\ new.m = x.m
    BY DEF Job
  <2>2. inflight' = [inflight EXCEPT ![i] = (@ \ {x}) \cup {new}]
    BY <1>2 DEF MoveTo
  <2> HIDE DEF new
  <2> QED BY <2>1, <2>2
<1> QED BY <1>1, <1>2

\* A job that goes on to another await keeps its member.
LEMMA MoveKeepsMember ==
  ASSUME inflight \in [Instances -> SUBSET Job], NEW i \in Instances,
         NEW x \in inflight[i], NEW stage, MoveTo(i, x, stage)
  PROVE  \A j \in Instances : \A y \in inflight[j] :
           \E z \in inflight'[j] : z.m = y.m
<1> DEFINE moved == [x EXCEPT !.stage = stage]
<1>1. moved.m = x.m
  BY DEF Job
<1>2. inflight' = [inflight EXCEPT ![i] = (@ \ {x}) \cup {moved}]
  BY DEF MoveTo
<1> HIDE DEF moved
<1> QED BY <1>1, <1>2

\* Every step keeps every variable's type (each action of the module).
LEMMA TypeStep == TypeOK /\ [Next]_vars => TypeOK'
<1> USE ConstantsAssumption
<1> SUFFICES ASSUME TypeOK, [Next]_vars PROVE TypeOK'
  OBVIOUS
<1> USE DEF TypeOK
<1>1. ASSUME NEW i \in Instances, NEW a \in Announcements, CreateQuiet(i, a)
      PROVE  TypeOK'
  BY <1>1 DEF CreateQuiet, Row, Title, Member, redisVars, jobVars, ghostVars
<1>2. ASSUME NEW a \in Announcements, CreateDay(a) PROVE TypeOK'
  BY <1>2 DEF CreateDay, Row, Title, redisVars, jobVars, ghostVars
<1>3. ASSUME NEW a \in Announcements, DirectSend(a) PROVE TypeOK'
  BY <1>3 DEF DirectSend, redisVars, jobVars
<1>4. ASSUME NEW a \in Announcements, UpdateTitle(a) PROVE TypeOK'
  BY <1>4 DEF UpdateTitle, Row, Title, redisVars, jobVars, ghostVars
<1>5. ASSUME NEW a \in Announcements, Remove(a) PROVE TypeOK'
  BY <1>5 DEF Remove, Row, redisVars, jobVars, ghostVars
<1>6. ASSUME NEW i \in Instances, NEW m \in Member, ScheduleRequest(i, m)
      PROVE  TypeOK'
  BY <1>6 DEF ScheduleRequest, jobVars, ghostVars
<1>7. ASSUME NEW i \in Instances, NEW m \in Member, ScheduleRequestFails(i, m)
      PROVE  TypeOK'
  BY <1>7, FaultType DEF ScheduleRequestFails, Member, redisVars, jobVars
<1>8. ASSUME NEW a \in Announcements, ReachScheduledTime(a) PROVE TypeOK'
  BY <1>8 DEF ReachScheduledTime, redisVars, jobVars, ghostVars
<1>9. ASSUME NEW m \in Member, RetryDelayPasses(m) PROVE TypeOK'
  BY <1>9 DEF RetryDelayPasses, jobVars, ghostVars
<1>10. ASSUME NEW i \in Instances, Fetch(i) PROVE TypeOK'
  BY <1>10 DEF Fetch, redisVars, ghostVars
<1>11. ASSUME NEW i \in Instances, RemoveFetched(i) PROVE TypeOK'
  <2>1. \A a \in Announcements :
          Cardinality({m \in fetched[i] \ zset : m.ann = a}) \in Nat
    BY MembersOfOneAnnouncement
  <2> QED BY <1>11, <2>1 DEF RemoveFetched, Job
<1>12. ASSUME NEW i \in Instances, NEW x \in inflight[i], Send(i, x)
       PROVE  TypeOK'
  BY <1>12 DEF Send, MoveTo, Job, Member, redisVars
<1>13. ASSUME NEW i \in Instances, NEW x \in inflight[i], Mark(i, x)
       PROVE  TypeOK'
  <2>1. inflight' \in [Instances -> SUBSET Job]
    BY <1>13, JobsAfter DEF Mark
  <2>2. x.m.ann \in Announcements
    BY DEF Job, Member
  <2>3. row' \in [Announcements -> Row]
    <3>1. row \in [Announcements -> Row] /\ row' = [row EXCEPT ![x.m.ann].sent = TRUE]
      BY <1>13 DEF Mark
    <3>2. \A r \in Row : [r EXCEPT !.sent = TRUE] \in Row
      BY DEF Row
    <3> QED BY <2>2, <3>1, <3>2
  <2> QED BY <1>13, <2>1, <2>3 DEF Mark, redisVars, ghostVars
<1>14. ASSUME NEW i \in Instances, NEW x \in inflight[i], MarkFails(i, x)
       PROVE  TypeOK'
  BY <1>14, FaultType DEF MarkFails, MoveTo, Job, redisVars, ghostVars
<1>15. ASSUME NEW i \in Instances, NEW x \in inflight[i], Retry(i, x)
       PROVE  TypeOK'
  BY <1>15 DEF Retry, Finish, Job, Member, redisVars
<1>16. ASSUME NEW i \in Instances, NEW x \in inflight[i], RetryFails(i, x)
       PROVE  TypeOK'
  BY <1>16, FaultType DEF RetryFails, Finish, Job, Member, redisVars
<1>17. ASSUME NEW i \in Instances, Crash(i) PROVE TypeOK'
  BY <1>17, FaultType DEF Crash, redisVars, ghostVars
<1>18. ASSUME NEW i \in Instances, Boot(i) PROVE TypeOK'
  BY <1>18, PendingType DEF Boot, redisVars
<1>19. ASSUME NEW i \in Instances, NEW m \in todo[i], Readd(i, m) PROVE TypeOK'
  BY <1>19 DEF Readd, ghostVars
<1>20. ASSUME NEW i \in Instances, ReaddFails(i) PROVE TypeOK'
  BY <1>20, FaultType DEF ReaddFails, Member, redisVars
<1>21. ASSUME NEW i \in Instances, Start(i) PROVE TypeOK'
  BY <1>21 DEF Start, redisVars, ghostVars
<1>22. CASE UNCHANGED vars
  BY <1>22 DEF vars
<1> QED
  BY <1>1, <1>2, <1>3, <1>4, <1>5, <1>6, <1>7, <1>8, <1>9, <1>10, <1>11,
     <1>12, <1>13, <1>14, <1>15, <1>16, <1>17, <1>18, <1>19, <1>20, <1>21,
     <1>22
     DEF Next, Administrators, Time, Scheduler, Restart

\* Type correctness of the specification, for every value of the constants.
THEOREM TypeCorrect == Spec => []TypeOK
<1>1. Init => TypeOK
  BY ConstantsAssumption DEF Init, TypeOK, Row, Title
<1> QED BY <1>1, TypeStep, PTL DEF Spec

-----------------------------------------------------------------------------
\* No scheduled push is lost without a trace (create, sendScheduledNotifications
\* and its catch block, onModuleInit).  NoSilentLoss is inductive: a step takes a
\* member out of one of the places of Underway only to put one of the same
\* announcement into another, to mark the announcement, or to record why not.
THEOREM ScheduledPushNotLost == Spec => []NoSilentLoss
<1> USE ConstantsAssumption
<1>1. Init => NoSilentLoss
  BY DEF Init, NoSilentLoss, AwaitsPush
<1>2. TypeOK /\ NoSilentLoss /\ [Next]_vars => NoSilentLoss'
  <2> SUFFICES ASSUME TypeOK, NoSilentLoss, [Next]_vars,
                      NEW a \in Announcements, AwaitsPush(a)',
                      a \notin (gaveUp \cup unscheduled)',
                      \A j \in Instances : mode'[j] # "down"
               PROVE  \E m \in Underway' : m.ann = a
    BY DEF NoSilentLoss
  <2> DEFINE Goal == \E m \in Underway' : m.ann = a
  <2> USE DEF TypeOK
  \* The places of a member, before and after the step.
  <2>1. \A m : m \in Underway <=>
          \/ m \in zset
          \/ \E i \in Instances :
               \/ m \in requests[i] \/ m \in todo[i] \/ m \in fetched[i]
               \/ \E x \in inflight[i] : x.m = m
    BY DEF Underway
  <2>2. \A m : m \in Underway' <=>
          \/ m \in zset'
          \/ \E i \in Instances :
               \/ m \in requests'[i] \/ m \in todo'[i] \/ m \in fetched'[i]
               \/ \E x \in inflight'[i] : x.m = m
    BY DEF Underway
  \* A step that only adds members or moves them.
  <2>3. ASSUME AwaitsPush(a), Underway \subseteq Underway',
               gaveUp \subseteq gaveUp', unscheduled \subseteq unscheduled',
               \A i \in Instances : mode[i] = "down" => mode'[i] = "down"
        PROVE  Goal
    BY <2>3 DEF NoSilentLoss
  <2>4. ASSUME NEW i \in Instances, NEW b \in Announcements, CreateQuiet(i, b) PROVE Goal
    <3>1. CASE a = b
      <4>1. [ann |-> a, title |-> 0, retry |-> 0] \in requests'[i]
        BY <2>4, <3>1 DEF CreateQuiet
      <4> QED BY <4>1, <2>2
    <3>2. CASE a # b
      <4>1. Underway \subseteq Underway'
        BY <2>4, <2>1, <2>2 DEF CreateQuiet, redisVars, jobVars
      <4> QED BY <2>4, <3>2, <4>1, <2>3
                 DEF CreateQuiet, AwaitsPush, jobVars, ghostVars
    <3> QED BY <3>1, <3>2
  <2>5. ASSUME NEW b \in Announcements, CreateDay(b) PROVE Goal
    <3>1. Underway \subseteq Underway'
      BY <2>5, <2>1, <2>2 DEF CreateDay, redisVars, jobVars
    <3> QED BY <2>5, <3>1, <2>3
               DEF CreateDay, AwaitsPush, redisVars, jobVars, ghostVars
  <2>6. ASSUME NEW b \in Announcements, DirectSend(b) PROVE Goal
    <3>1. Underway \subseteq Underway'
      BY <2>6, <2>1, <2>2 DEF DirectSend, redisVars, jobVars
    <3> QED BY <2>6, <3>1, <2>3
               DEF DirectSend, AwaitsPush, redisVars, jobVars, ghostVars
  <2>7. ASSUME NEW b \in Announcements, UpdateTitle(b) PROVE Goal
    <3>1. Underway \subseteq Underway'
      BY <2>7, <2>1, <2>2 DEF UpdateTitle, redisVars, jobVars
    <3> QED BY <2>7, <3>1, <2>3
               DEF UpdateTitle, AwaitsPush, redisVars, jobVars, ghostVars
  <2>8. ASSUME NEW b \in Announcements, Remove(b) PROVE Goal
    <3>1. Underway \subseteq Underway'
      BY <2>8, <2>1, <2>2 DEF Remove, redisVars, jobVars
    <3> QED BY <2>8, <3>1, <2>3
               DEF Remove, AwaitsPush, redisVars, jobVars, ghostVars
  <2>9. ASSUME NEW i \in Instances, NEW m \in Member, ScheduleRequest(i, m) PROVE Goal
    <3>1. Underway \subseteq Underway'
      BY <2>9, <2>1, <2>2 DEF ScheduleRequest, redisVars, jobVars
    <3> QED BY <2>9, <3>1, <2>3
               DEF ScheduleRequest, AwaitsPush, redisVars, jobVars, ghostVars
  <2>10. ASSUME NEW i \in Instances, NEW m \in Member, ScheduleRequestFails(i, m) PROVE Goal
    <3>1. m.ann # a
      BY <2>10 DEF ScheduleRequestFails
    <3>2. \A n \in Underway : n # m => n \in Underway'
      BY <2>10, <2>1, <2>2 DEF ScheduleRequestFails, redisVars, jobVars
    <3> QED BY <2>10, <3>1, <3>2
               DEF ScheduleRequestFails, NoSilentLoss, AwaitsPush, jobVars
  <2>11. ASSUME NEW b \in Announcements, ReachScheduledTime(b) PROVE Goal
    <3>1. Underway \subseteq Underway'
      BY <2>11, <2>1, <2>2 DEF ReachScheduledTime, redisVars, jobVars
    <3> QED BY <2>11, <3>1, <2>3
               DEF ReachScheduledTime, AwaitsPush, redisVars, jobVars, ghostVars
  <2>12. ASSUME NEW m \in Member, RetryDelayPasses(m) PROVE Goal
    <3>1. Underway \subseteq Underway'
      BY <2>12, <2>1, <2>2 DEF RetryDelayPasses, redisVars, jobVars
    <3> QED BY <2>12, <3>1, <2>3
               DEF RetryDelayPasses, AwaitsPush, redisVars, jobVars, ghostVars
  <2>13. ASSUME NEW i \in Instances, Fetch(i) PROVE Goal
    <3>1. Underway \subseteq Underway'
      BY <2>13, <2>1, <2>2 DEF Fetch, redisVars, jobVars
    <3> QED BY <2>13, <3>1, <2>3
               DEF Fetch, AwaitsPush, redisVars, jobVars, ghostVars
  <2>14. ASSUME NEW i \in Instances, RemoveFetched(i) PROVE Goal
    <3>1. Underway \subseteq Underway'
      <4> SUFFICES ASSUME NEW m \in Underway PROVE m \in Underway'
        OBVIOUS
      <4>1. CASE m \in fetched[i]
        <5>1. [m |-> m, stage |-> "send"] \in inflight'[i]
          BY <2>14, <4>1 DEF RemoveFetched
        <5> QED BY <5>1, <2>2
      <4>2. CASE m \notin fetched[i]
        BY <2>14, <4>2, <2>1, <2>2 DEF RemoveFetched
      <4> QED BY <4>1, <4>2
    <3> QED BY <2>14, <3>1, <2>3 DEF RemoveFetched, AwaitsPush
  <2>15. ASSUME NEW i \in Instances, NEW x \in inflight[i], Send(i, x) PROVE Goal
    <3>1. Underway \subseteq Underway'
      <4>1. \A j \in Instances : \A y \in inflight[j] : \E z \in inflight'[j] : z.m = y.m
        BY <2>15, MoveKeepsMember DEF Send
      <4> QED BY <2>15, <4>1, <2>1, <2>2 DEF Send, redisVars
    <3> QED BY <2>15, <3>1, <2>3 DEF Send, AwaitsPush, ghostVars
  <2>16. ASSUME NEW i \in Instances, NEW x \in inflight[i], Mark(i, x) PROVE Goal
    <3>1. x.m.ann # a
      BY <2>16 DEF Mark, AwaitsPush, Job, Member, Row
    <3>2. \A n \in Underway : n # x.m => n \in Underway'
      BY <2>16, <2>1, <2>2 DEF Mark, Finish, redisVars
    <3> QED BY <2>16, <3>1, <3>2
               DEF Mark, NoSilentLoss, AwaitsPush, ghostVars
  <2>17. ASSUME NEW i \in Instances, NEW x \in inflight[i], MarkFails(i, x) PROVE Goal
    <3>1. Underway \subseteq Underway'
      <4>1. \A j \in Instances : \A y \in inflight[j] : \E z \in inflight'[j] : z.m = y.m
        BY <2>17, MoveKeepsMember DEF MarkFails
      <4> QED BY <2>17, <4>1, <2>1, <2>2 DEF MarkFails, redisVars
    <3> QED BY <2>17, <3>1, <2>3 DEF MarkFails, AwaitsPush, ghostVars
  <2>18. ASSUME NEW i \in Instances, NEW x \in inflight[i], Retry(i, x) PROVE Goal
    <3>1. \A n \in Underway : n # x.m => n \in Underway'
      BY <2>18, <2>1, <2>2 DEF Retry, Finish, redisVars
    <3>2. CASE x.m.ann = a
      <4> DEFINE again == [x.m EXCEPT !.retry = @ + 1]
      <4>1. again \in zset'
        BY <2>18, <3>2 DEF Retry
      <4>2. again.ann = a
        BY <3>2 DEF Job, Member
      <4> QED BY <4>1, <4>2, <2>2
    <3>3. CASE x.m.ann # a
      BY <2>18, <3>1, <3>3 DEF Retry, NoSilentLoss, AwaitsPush
    <3> QED BY <3>2, <3>3
  <2>19. ASSUME NEW i \in Instances, NEW x \in inflight[i], RetryFails(i, x) PROVE Goal
    <3>1. x.m.ann # a
      BY <2>19 DEF RetryFails
    <3>2. \A n \in Underway : n # x.m => n \in Underway'
      BY <2>19, <2>1, <2>2 DEF RetryFails, Finish, redisVars
    <3> QED BY <2>19, <3>1, <3>2
               DEF RetryFails, NoSilentLoss, AwaitsPush, redisVars
  <2>20. ASSUME NEW i \in Instances, Crash(i) PROVE Goal
    <3>1. mode'[i] = "down"
      BY <2>20 DEF Crash
    <3> QED BY <3>1
  <2>21. ASSUME NEW i \in Instances, Boot(i) PROVE Goal
    <3>1. PICK m \in Pending : m.ann = a
      <4>1. row' = row
        BY <2>21 DEF Boot
      <4>2. [ann |-> a, title |-> row[a].title, retry |-> 0] \in Pending
        BY <4>1, ConstantsAssumption DEF Pending, AwaitsPush, Member, Row
      <4> QED BY <4>2
    <3>2. m \in todo'[i]
      BY <2>21, <3>1 DEF Boot
    <3> QED BY <3>1, <3>2, <2>2
  <2>22. ASSUME NEW i \in Instances, NEW m \in todo[i], Readd(i, m) PROVE Goal
    <3>1. Underway \subseteq Underway'
      BY <2>22, <2>1, <2>2 DEF Readd, redisVars, jobVars
    <3> QED BY <2>22, <3>1, <2>3
               DEF Readd, AwaitsPush, redisVars, jobVars, ghostVars
  <2>23. ASSUME NEW i \in Instances, ReaddFails(i) PROVE Goal
    <3>1. \A m \in todo[i] : m.ann # a
      BY <2>23 DEF ReaddFails
    <3>2. \A n \in Underway : n \in todo[i] \/ n \in Underway'
      BY <2>23, <2>1, <2>2 DEF ReaddFails, redisVars
    <3> QED BY <2>23, <3>1, <3>2 DEF ReaddFails, NoSilentLoss, AwaitsPush
  <2>24. ASSUME NEW i \in Instances, Start(i) PROVE Goal
    <3>1. Underway \subseteq Underway'
      BY <2>24, <2>1, <2>2 DEF Start, redisVars
    <3> QED BY <2>24, <3>1, <2>3 DEF Start, AwaitsPush, ghostVars
  <2>25. ASSUME UNCHANGED vars PROVE Goal
    <3>1. Underway \subseteq Underway'
      BY <2>25, <2>1, <2>2 DEF vars
    <3> QED BY <2>25, <3>1, <2>3 DEF vars, AwaitsPush
  <2> QED
    BY <2>4, <2>5, <2>6, <2>7, <2>8, <2>9, <2>10, <2>11, <2>12, <2>13,
       <2>14, <2>15, <2>16, <2>17, <2>18, <2>19, <2>20, <2>21, <2>22, <2>23,
       <2>24, <2>25
       DEF Next, Administrators, Time, Scheduler, Restart
<1> QED BY <1>1, <1>2, TypeCorrect, PTL DEF Spec

-----------------------------------------------------------------------------
\* What keeps a push inside the morning, and behind notificationSentAt: where a
\* member may be, and what is known of its announcement there.

\* A member waits only for the push of a stored, scheduled announcement.
OfScheduledRow(m) == row[m.ann].scheduled /\ row[m.ann].state # "absent"

MembersOfScheduledRows ==
  /\ \A m \in zset : OfScheduledRow(m)
  /\ \A i \in Instances :
       /\ \A m \in requests[i] : OfScheduledRow(m) /\ m.retry = 0
       /\ \A m \in todo[i] : OfScheduledRow(m) /\ m.retry = 0
       /\ \A m \in fetched[i] : OfScheduledRow(m)
       /\ \A x \in inflight[i] : OfScheduledRow(x.m)

\* What was read as due, and what failed once, has reached its time.
PoppedIsDue ==
  /\ \A m \in zset : m.retry > 0 => m.ann \in reached
  /\ \A i \in Instances :
       /\ \A m \in fetched[i] : m.ann \in reached
       /\ \A x \in inflight[i] : x.m.ann \in reached

\* Only a push that FCM accepted is about to be marked.
MarkFollowsPush ==
  \A i \in Instances : \A x \in inflight[i] :
    x.stage = "mark" => pushes[x.m.ann] > 0

DirectIsUnscheduled ==
  \A a \in direct : ~row[a].scheduled /\ row[a].state # "absent"

AbsentIsUntouched ==
  \A a \in Announcements :
    row[a].state = "absent" => pushes[a] = 0 /\ ~row[a].sent

PushInv ==
  /\ TypeOK
  /\ MembersOfScheduledRows
  /\ PoppedIsDue
  /\ MarkFollowsPush
  /\ DirectIsUnscheduled
  /\ AbsentIsUntouched
  /\ QuietHoursRespected
  /\ SentWasPushed

\* The quiet hours are respected, and only what was pushed is marked sent, by the
\* inductive invariant PushInv (create, sendScheduledNotifications, onModuleInit).
THEOREM PushInvariant == Spec => []PushInv
<1> USE ConstantsAssumption
<1>1. Init => PushInv
  BY DEF Init, PushInv, TypeOK, Row, Title, MembersOfScheduledRows, PoppedIsDue,
         MarkFollowsPush, DirectIsUnscheduled, AbsentIsUntouched,
         QuietHoursRespected, SentWasPushed
<1>2. PushInv /\ [Next]_vars => PushInv'
  <2> SUFFICES ASSUME PushInv, [Next]_vars PROVE PushInv'
    OBVIOUS
  <2> USE DEF PushInv, TypeOK
  <2>0. TypeOK'
    BY TypeStep
  <2>1. ASSUME NEW i \in Instances, NEW b \in Announcements, CreateQuiet(i, b) PROVE PushInv'
    <3>1. MembersOfScheduledRows'
      BY <2>1 DEF CreateQuiet, redisVars, jobVars, ghostVars,
               MembersOfScheduledRows, OfScheduledRow
    <3>2. PoppedIsDue'
      BY <2>1 DEF CreateQuiet, redisVars, jobVars, ghostVars, PoppedIsDue
    <3>3. MarkFollowsPush'
      BY <2>1 DEF CreateQuiet, redisVars, jobVars, ghostVars, MarkFollowsPush
    <3>4. DirectIsUnscheduled'
      BY <2>1 DEF CreateQuiet, redisVars, jobVars, ghostVars,
               DirectIsUnscheduled
    <3>5. AbsentIsUntouched'
      BY <2>1 DEF CreateQuiet, redisVars, jobVars, ghostVars,
               AbsentIsUntouched
    <3>6. QuietHoursRespected'
      BY <2>1 DEF CreateQuiet, redisVars, jobVars, ghostVars,
               QuietHoursRespected, AbsentIsUntouched
    <3>7. SentWasPushed'
      BY <2>1 DEF CreateQuiet, redisVars, jobVars, ghostVars, SentWasPushed
    <3> QED BY <2>0, <3>1, <3>2, <3>3, <3>4, <3>5, <3>6, <3>7
  <2>2. ASSUME NEW b \in Announcements, CreateDay(b) PROVE PushInv'
    <3>1. MembersOfScheduledRows'
      BY <2>2 DEF CreateDay, redisVars, jobVars, ghostVars,
               MembersOfScheduledRows, OfScheduledRow
    <3>2. PoppedIsDue'
      BY <2>2 DEF CreateDay, redisVars, jobVars, ghostVars, PoppedIsDue
    <3>3. MarkFollowsPush'
      BY <2>2 DEF CreateDay, redisVars, jobVars, ghostVars, MarkFollowsPush
    <3>4. DirectIsUnscheduled'
      BY <2>2 DEF CreateDay, redisVars, jobVars, ghostVars,
               DirectIsUnscheduled
    <3>5. AbsentIsUntouched'
      BY <2>2 DEF CreateDay, redisVars, jobVars, ghostVars, AbsentIsUntouched
    <3>6. QuietHoursRespected'
      BY <2>2 DEF CreateDay, redisVars, jobVars, ghostVars,
               QuietHoursRespected
    <3>7. SentWasPushed'
      BY <2>2 DEF CreateDay, redisVars, jobVars, ghostVars, SentWasPushed
    <3> QED BY <2>0, <3>1, <3>2, <3>3, <3>4, <3>5, <3>6, <3>7
  <2>3. ASSUME NEW b \in Announcements, DirectSend(b) PROVE PushInv'
    <3>1. MembersOfScheduledRows'
      BY <2>3 DEF DirectSend, redisVars, jobVars, MembersOfScheduledRows,
               OfScheduledRow
    <3>2. PoppedIsDue'
      BY <2>3 DEF DirectSend, redisVars, jobVars, PoppedIsDue
    <3>3. MarkFollowsPush'
      BY <2>3 DEF DirectSend, redisVars, jobVars, MarkFollowsPush, Job,
               Member, Row
    <3>4. DirectIsUnscheduled'
      BY <2>3 DEF DirectSend, redisVars, jobVars, DirectIsUnscheduled
    <3>5. AbsentIsUntouched'
      BY <2>3 DEF DirectSend, redisVars, jobVars, AbsentIsUntouched,
               DirectIsUnscheduled
    <3>6. QuietHoursRespected'
      BY <2>3 DEF DirectSend, redisVars, jobVars, QuietHoursRespected,
               DirectIsUnscheduled
    <3>7. SentWasPushed'
      BY <2>3 DEF DirectSend, redisVars, jobVars, SentWasPushed
    <3> QED BY <2>0, <3>1, <3>2, <3>3, <3>4, <3>5, <3>6, <3>7
  <2>4. ASSUME NEW b \in Announcements, UpdateTitle(b) PROVE PushInv'
    <3>1. MembersOfScheduledRows'
      BY <2>4 DEF UpdateTitle, redisVars, jobVars, ghostVars,
               MembersOfScheduledRows, OfScheduledRow
    <3>2. PoppedIsDue'
      BY <2>4 DEF UpdateTitle, redisVars, jobVars, ghostVars, PoppedIsDue
    <3>3. MarkFollowsPush'
      BY <2>4 DEF UpdateTitle, redisVars, jobVars, ghostVars, MarkFollowsPush
    <3>4. DirectIsUnscheduled'
      BY <2>4 DEF UpdateTitle, redisVars, jobVars, ghostVars,
               DirectIsUnscheduled
    <3>5. AbsentIsUntouched'
      BY <2>4 DEF UpdateTitle, redisVars, jobVars, ghostVars,
               AbsentIsUntouched
    <3>6. QuietHoursRespected'
      BY <2>4 DEF UpdateTitle, redisVars, jobVars, ghostVars,
               QuietHoursRespected
    <3>7. SentWasPushed'
      BY <2>4 DEF UpdateTitle, redisVars, jobVars, ghostVars, SentWasPushed
    <3> QED BY <2>0, <3>1, <3>2, <3>3, <3>4, <3>5, <3>6, <3>7
  <2>5. ASSUME NEW b \in Announcements, Remove(b) PROVE PushInv'
    <3>1. MembersOfScheduledRows'
      BY <2>5 DEF Remove, redisVars, jobVars, ghostVars,
               MembersOfScheduledRows, OfScheduledRow
    <3>2. PoppedIsDue'
      BY <2>5 DEF Remove, redisVars, jobVars, ghostVars, PoppedIsDue
    <3>3. MarkFollowsPush'
      BY <2>5 DEF Remove, redisVars, jobVars, ghostVars, MarkFollowsPush
    <3>4. DirectIsUnscheduled'
      BY <2>5 DEF Remove, redisVars, jobVars, ghostVars, DirectIsUnscheduled
    <3>5. AbsentIsUntouched'
      BY <2>5 DEF Remove, redisVars, jobVars, ghostVars, AbsentIsUntouched
    <3>6. QuietHoursRespected'
      BY <2>5 DEF Remove, redisVars, jobVars, ghostVars, QuietHoursRespected
    <3>7. SentWasPushed'
      BY <2>5 DEF Remove, redisVars, jobVars, ghostVars, SentWasPushed
    <3> QED BY <2>0, <3>1, <3>2, <3>3, <3>4, <3>5, <3>6, <3>7
  <2>6. ASSUME NEW i \in Instances, NEW n \in Member, ScheduleRequest(i, n) PROVE PushInv'
    <3>1. MembersOfScheduledRows'
      BY <2>6 DEF ScheduleRequest, jobVars, ghostVars, MembersOfScheduledRows,
               OfScheduledRow
    <3>2. PoppedIsDue'
      BY <2>6 DEF ScheduleRequest, jobVars, ghostVars, PoppedIsDue,
               MembersOfScheduledRows
    <3>3. MarkFollowsPush'
      BY <2>6 DEF ScheduleRequest, jobVars, ghostVars, MarkFollowsPush
    <3>4. DirectIsUnscheduled'
      BY <2>6 DEF ScheduleRequest, jobVars, ghostVars, DirectIsUnscheduled
    <3>5. AbsentIsUntouched'
      BY <2>6 DEF ScheduleRequest, jobVars, ghostVars, AbsentIsUntouched
    <3>6. QuietHoursRespected'
      BY <2>6 DEF ScheduleRequest, jobVars, ghostVars, QuietHoursRespected
    <3>7. SentWasPushed'
      BY <2>6 DEF ScheduleRequest, jobVars, ghostVars, SentWasPushed
    <3> QED BY <2>0, <3>1, <3>2, <3>3, <3>4, <3>5, <3>6, <3>7
  <2>7. ASSUME NEW i \in Instances, NEW n \in Member, ScheduleRequestFails(i, n) PROVE PushInv'
    <3>1. MembersOfScheduledRows'
      BY <2>7 DEF ScheduleRequestFails, redisVars, jobVars,
               MembersOfScheduledRows, OfScheduledRow
    <3>2. PoppedIsDue'
      BY <2>7 DEF ScheduleRequestFails, redisVars, jobVars, PoppedIsDue
    <3>3. MarkFollowsPush'
      BY <2>7 DEF ScheduleRequestFails, redisVars, jobVars, MarkFollowsPush
    <3>4. DirectIsUnscheduled'
      BY <2>7 DEF ScheduleRequestFails, redisVars, jobVars,
               DirectIsUnscheduled
    <3>5. AbsentIsUntouched'
      BY <2>7 DEF ScheduleRequestFails, redisVars, jobVars, AbsentIsUntouched
    <3>6. QuietHoursRespected'
      BY <2>7 DEF ScheduleRequestFails, redisVars, jobVars,
               QuietHoursRespected
    <3>7. SentWasPushed'
      BY <2>7 DEF ScheduleRequestFails, redisVars, jobVars, SentWasPushed
    <3> QED BY <2>0, <3>1, <3>2, <3>3, <3>4, <3>5, <3>6, <3>7
  <2>8. ASSUME NEW b \in Announcements, ReachScheduledTime(b) PROVE PushInv'
    <3>1. MembersOfScheduledRows'
      BY <2>8 DEF ReachScheduledTime, redisVars, jobVars, ghostVars,
               MembersOfScheduledRows, OfScheduledRow
    <3>2. PoppedIsDue'
      BY <2>8 DEF ReachScheduledTime, redisVars, jobVars, ghostVars,
               PoppedIsDue
    <3>3. MarkFollowsPush'
      BY <2>8 DEF ReachScheduledTime, redisVars, jobVars, ghostVars,
               MarkFollowsPush
    <3>4. DirectIsUnscheduled'
      BY <2>8 DEF ReachScheduledTime, redisVars, jobVars, ghostVars,
               DirectIsUnscheduled
    <3>5. AbsentIsUntouched'
      BY <2>8 DEF ReachScheduledTime, redisVars, jobVars, ghostVars,
               AbsentIsUntouched
    <3>6. QuietHoursRespected'
      BY <2>8 DEF ReachScheduledTime, redisVars, jobVars, ghostVars,
               QuietHoursRespected
    <3>7. SentWasPushed'
      BY <2>8 DEF ReachScheduledTime, redisVars, jobVars, ghostVars,
               SentWasPushed
    <3> QED BY <2>0, <3>1, <3>2, <3>3, <3>4, <3>5, <3>6, <3>7
  <2>9. ASSUME NEW n \in Member, RetryDelayPasses(n) PROVE PushInv'
    <3>1. MembersOfScheduledRows'
      BY <2>9 DEF RetryDelayPasses, jobVars, ghostVars,
               MembersOfScheduledRows, OfScheduledRow
    <3>2. PoppedIsDue'
      BY <2>9 DEF RetryDelayPasses, jobVars, ghostVars, PoppedIsDue
    <3>3. MarkFollowsPush'
      BY <2>9 DEF RetryDelayPasses, jobVars, ghostVars, MarkFollowsPush
    <3>4. DirectIsUnscheduled'
      BY <2>9 DEF RetryDelayPasses, jobVars, ghostVars, DirectIsUnscheduled
    <3>5. AbsentIsUntouched'
      BY <2>9 DEF RetryDelayPasses, jobVars, ghostVars, AbsentIsUntouched
    <3>6. QuietHoursRespected'
      BY <2>9 DEF RetryDelayPasses, jobVars, ghostVars, QuietHoursRespected
    <3>7. SentWasPushed'
      BY <2>9 DEF RetryDelayPasses, jobVars, ghostVars, SentWasPushed
    <3> QED BY <2>0, <3>1, <3>2, <3>3, <3>4, <3>5, <3>6, <3>7
  <2>10. ASSUME NEW i \in Instances, Fetch(i) PROVE PushInv'
    <3>1. MembersOfScheduledRows'
      BY <2>10 DEF Fetch, Due, redisVars, ghostVars, MembersOfScheduledRows,
               OfScheduledRow
    <3>2. PoppedIsDue'
      BY <2>10 DEF Fetch, Due, redisVars, ghostVars, PoppedIsDue, Job, Member,
               Row
    <3>3. MarkFollowsPush'
      BY <2>10 DEF Fetch, Due, redisVars, ghostVars, MarkFollowsPush
    <3>4. DirectIsUnscheduled'
      BY <2>10 DEF Fetch, Due, redisVars, ghostVars, DirectIsUnscheduled
    <3>5. AbsentIsUntouched'
      BY <2>10 DEF Fetch, Due, redisVars, ghostVars, AbsentIsUntouched
    <3>6. QuietHoursRespected'
      BY <2>10 DEF Fetch, Due, redisVars, ghostVars, QuietHoursRespected
    <3>7. SentWasPushed'
      BY <2>10 DEF Fetch, Due, redisVars, ghostVars, SentWasPushed
    <3> QED BY <2>0, <3>1, <3>2, <3>3, <3>4, <3>5, <3>6, <3>7
  <2>11. ASSUME NEW i \in Instances, RemoveFetched(i) PROVE PushInv'
    <3>1. MembersOfScheduledRows'
      BY <2>11 DEF RemoveFetched, MembersOfScheduledRows, OfScheduledRow
    <3>2. PoppedIsDue'
      BY <2>11 DEF RemoveFetched, PoppedIsDue
    <3>3. MarkFollowsPush'
      BY <2>11 DEF RemoveFetched, MarkFollowsPush
    <3>4. DirectIsUnscheduled'
      BY <2>11 DEF RemoveFetched, DirectIsUnscheduled
    <3>5. AbsentIsUntouched'
      BY <2>11 DEF RemoveFetched, AbsentIsUntouched
    <3>6. QuietHoursRespected'
      BY <2>11 DEF RemoveFetched, QuietHoursRespected
    <3>7. SentWasPushed'
      BY <2>11 DEF RemoveFetched, SentWasPushed
    <3> QED BY <2>0, <3>1, <3>2, <3>3, <3>4, <3>5, <3>6, <3>7
  <2>12. ASSUME NEW i \in Instances, NEW y \in inflight[i], Send(i, y) PROVE PushInv'
    <3>1. MembersOfScheduledRows'
      BY <2>12, <2>0, JobsAfter DEF Send, redisVars, MembersOfScheduledRows, OfScheduledRow
    <3>2. PoppedIsDue'
      BY <2>12, <2>0, JobsAfter DEF Send, redisVars, PoppedIsDue
    <3>3. MarkFollowsPush'
      <4>1. \A a \in Announcements : pushes'[a] \in Nat /\ pushes'[a] >= pushes[a]
        BY <2>12, <2>0 DEF Send, Job, Member
      <4>2. CASE pushes'[y.m.ann] > 0
        BY <2>12, <4>1, <4>2 DEF Send, MoveTo, MarkFollowsPush, Job, Member
      <4>3. CASE MoveTo(i, y, "retry") /\ pushes' = pushes
        BY <2>12, <4>3 DEF MoveTo, MarkFollowsPush, Job
      <4> QED BY <2>12, <4>2, <4>3 DEF Send, Job, Member
    <3>4. DirectIsUnscheduled'
      BY <2>12 DEF Send, MoveTo, redisVars, DirectIsUnscheduled
    <3>5. AbsentIsUntouched'
      BY <2>12 DEF Send, MoveTo, redisVars, AbsentIsUntouched,
               MembersOfScheduledRows, OfScheduledRow
    <3>6. QuietHoursRespected'
      BY <2>12 DEF Send, MoveTo, redisVars, QuietHoursRespected, PoppedIsDue
    <3>7. SentWasPushed'
      BY <2>12 DEF Send, MoveTo, redisVars, SentWasPushed
    <3> QED BY <2>0, <3>1, <3>2, <3>3, <3>4, <3>5, <3>6, <3>7
  <2>13. ASSUME NEW i \in Instances, NEW y \in inflight[i], Mark(i, y) PROVE PushInv'
    <3>1. MembersOfScheduledRows'
      BY <2>13 DEF Mark, Finish, redisVars, ghostVars, MembersOfScheduledRows,
               OfScheduledRow
    <3>2. PoppedIsDue'
      BY <2>13 DEF Mark, Finish, redisVars, ghostVars, PoppedIsDue
    <3>3. MarkFollowsPush'
      BY <2>13 DEF Mark, Finish, redisVars, ghostVars, MarkFollowsPush
    <3>4. DirectIsUnscheduled'
      BY <2>13 DEF Mark, Finish, redisVars, ghostVars, DirectIsUnscheduled
    <3>5. AbsentIsUntouched'
      BY <2>13 DEF Mark, Finish, redisVars, ghostVars, AbsentIsUntouched,
               MembersOfScheduledRows, OfScheduledRow
    <3>6. QuietHoursRespected'
      BY <2>13 DEF Mark, Finish, redisVars, ghostVars, QuietHoursRespected
    <3>7. SentWasPushed'
      BY <2>13 DEF Mark, Finish, redisVars, ghostVars, SentWasPushed,
               MarkFollowsPush
    <3> QED BY <2>0, <3>1, <3>2, <3>3, <3>4, <3>5, <3>6, <3>7
  <2>14. ASSUME NEW i \in Instances, NEW y \in inflight[i], MarkFails(i, y) PROVE PushInv'
    <3>1. MembersOfScheduledRows'
      BY <2>14 DEF MarkFails, MoveTo, redisVars, ghostVars,
               MembersOfScheduledRows, OfScheduledRow, Job, Member, Row
    <3>2. PoppedIsDue'
      BY <2>14 DEF MarkFails, MoveTo, redisVars, ghostVars, PoppedIsDue, Job,
               Member, Row
    <3>3. MarkFollowsPush'
      BY <2>14 DEF MarkFails, MoveTo, redisVars, ghostVars, MarkFollowsPush,
               Job, Member, Row
    <3>4. DirectIsUnscheduled'
      BY <2>14 DEF MarkFails, MoveTo, redisVars, ghostVars,
               DirectIsUnscheduled
    <3>5. AbsentIsUntouched'
      BY <2>14 DEF MarkFails, MoveTo, redisVars, ghostVars, AbsentIsUntouched
    <3>6. QuietHoursRespected'
      BY <2>14 DEF MarkFails, MoveTo, redisVars, ghostVars,
               QuietHoursRespected
    <3>7. SentWasPushed'
      BY <2>14 DEF MarkFails, MoveTo, redisVars, ghostVars, SentWasPushed
    <3> QED BY <2>0, <3>1, <3>2, <3>3, <3>4, <3>5, <3>6, <3>7
  <2>15. ASSUME NEW i \in Instances, NEW y \in inflight[i], Retry(i, y) PROVE PushInv'
    <3>1. MembersOfScheduledRows'
      <4>1. OfScheduledRow(y.m)
        BY DEF MembersOfScheduledRows
      <4>2. y.m \in Member
        BY DEF Job
      <4>3. [y.m EXCEPT !.retry = @ + 1].ann = y.m.ann
        BY <4>2 DEF Member
      <4>4. \A m \in zset' : OfScheduledRow(m)'
        BY <2>15, <4>1, <4>3 DEF Retry, redisVars, MembersOfScheduledRows, OfScheduledRow
      <4> QED BY <2>15, <2>0, <4>4, JobsAfter DEF Retry, MembersOfScheduledRows, OfScheduledRow
    <3>2. PoppedIsDue'
      BY <2>15 DEF Retry, Finish, redisVars, PoppedIsDue, Job, Member, Row
    <3>3. MarkFollowsPush'
      BY <2>15 DEF Retry, Finish, redisVars, MarkFollowsPush
    <3>4. DirectIsUnscheduled'
      BY <2>15 DEF Retry, Finish, redisVars, DirectIsUnscheduled
    <3>5. AbsentIsUntouched'
      BY <2>15 DEF Retry, Finish, redisVars, AbsentIsUntouched
    <3>6. QuietHoursRespected'
      BY <2>15 DEF Retry, Finish, redisVars, QuietHoursRespected
    <3>7. SentWasPushed'
      BY <2>15 DEF Retry, Finish, redisVars, SentWasPushed
    <3> QED BY <2>0, <3>1, <3>2, <3>3, <3>4, <3>5, <3>6, <3>7
  <2>16. ASSUME NEW i \in Instances, NEW y \in inflight[i], RetryFails(i, y) PROVE PushInv'
    <3>1. MembersOfScheduledRows'
      BY <2>16 DEF RetryFails, Finish, redisVars, MembersOfScheduledRows,
               OfScheduledRow
    <3>2. PoppedIsDue'
      BY <2>16 DEF RetryFails, Finish, redisVars, PoppedIsDue
    <3>3. MarkFollowsPush'
      BY <2>16 DEF RetryFails, Finish, redisVars, MarkFollowsPush
    <3>4. DirectIsUnscheduled'
      BY <2>16 DEF RetryFails, Finish, redisVars, DirectIsUnscheduled
    <3>5. AbsentIsUntouched'
      BY <2>16 DEF RetryFails, Finish, redisVars, AbsentIsUntouched
    <3>6. QuietHoursRespected'
      BY <2>16 DEF RetryFails, Finish, redisVars, QuietHoursRespected
    <3>7. SentWasPushed'
      BY <2>16 DEF RetryFails, Finish, redisVars, SentWasPushed
    <3> QED BY <2>0, <3>1, <3>2, <3>3, <3>4, <3>5, <3>6, <3>7
  <2>17. ASSUME NEW i \in Instances, Crash(i) PROVE PushInv'
    <3>1. MembersOfScheduledRows'
      BY <2>17 DEF Crash, redisVars, ghostVars, MembersOfScheduledRows,
               OfScheduledRow
    <3>2. PoppedIsDue'
      BY <2>17 DEF Crash, redisVars, ghostVars, PoppedIsDue
    <3>3. MarkFollowsPush'
      BY <2>17 DEF Crash, redisVars, ghostVars, MarkFollowsPush
    <3>4. DirectIsUnscheduled'
      BY <2>17 DEF Crash, redisVars, ghostVars, DirectIsUnscheduled
    <3>5. AbsentIsUntouched'
      BY <2>17 DEF Crash, redisVars, ghostVars, AbsentIsUntouched
    <3>6. QuietHoursRespected'
      BY <2>17 DEF Crash, redisVars, ghostVars, QuietHoursRespected
    <3>7. SentWasPushed'
      BY <2>17 DEF Crash, redisVars, ghostVars, SentWasPushed
    <3> QED BY <2>0, <3>1, <3>2, <3>3, <3>4, <3>5, <3>6, <3>7
  <2>18. ASSUME NEW i \in Instances, Boot(i) PROVE PushInv'
    <3>1. MembersOfScheduledRows'
      BY <2>18 DEF Boot, Pending, redisVars, MembersOfScheduledRows,
               OfScheduledRow
    <3>2. PoppedIsDue'
      BY <2>18 DEF Boot, Pending, redisVars, PoppedIsDue
    <3>3. MarkFollowsPush'
      BY <2>18 DEF Boot, Pending, redisVars, MarkFollowsPush
    <3>4. DirectIsUnscheduled'
      BY <2>18 DEF Boot, Pending, redisVars, DirectIsUnscheduled
    <3>5. AbsentIsUntouched'
      BY <2>18 DEF Boot, Pending, redisVars, AbsentIsUntouched
    <3>6. QuietHoursRespected'
      BY <2>18 DEF Boot, Pending, redisVars, QuietHoursRespected
    <3>7. SentWasPushed'
      BY <2>18 DEF Boot, Pending, redisVars, SentWasPushed
    <3> QED BY <2>0, <3>1, <3>2, <3>3, <3>4, <3>5, <3>6, <3>7
  <2>19. ASSUME NEW i \in Instances, NEW n \in todo[i], Readd(i, n) PROVE PushInv'
    <3>1. MembersOfScheduledRows'
      BY <2>19 DEF Readd, ghostVars, MembersOfScheduledRows, OfScheduledRow
    <3>2. PoppedIsDue'
      BY <2>19 DEF Readd, ghostVars, PoppedIsDue, MembersOfScheduledRows
    <3>3. MarkFollowsPush'
      BY <2>19 DEF Readd, ghostVars, MarkFollowsPush
    <3>4. DirectIsUnscheduled'
      BY <2>19 DEF Readd, ghostVars, DirectIsUnscheduled
    <3>5. AbsentIsUntouched'
      BY <2>19 DEF Readd, ghostVars, AbsentIsUntouched
    <3>6. QuietHoursRespected'
      BY <2>19 DEF Readd, ghostVars, QuietHoursRespected
    <3>7. SentWasPushed'
      BY <2>19 DEF Readd, ghostVars, SentWasPushed
    <3> QED BY <2>0, <3>1, <3>2, <3>3, <3>4, <3>5, <3>6, <3>7
  <2>20. ASSUME NEW i \in Instances, ReaddFails(i) PROVE PushInv'
    <3>1. MembersOfScheduledRows'
      BY <2>20 DEF ReaddFails, redisVars, MembersOfScheduledRows,
               OfScheduledRow
    <3>2. PoppedIsDue'
      BY <2>20 DEF ReaddFails, redisVars, PoppedIsDue
    <3>3. MarkFollowsPush'
      BY <2>20 DEF ReaddFails, redisVars, MarkFollowsPush
    <3>4. DirectIsUnscheduled'
      BY <2>20 DEF ReaddFails, redisVars, DirectIsUnscheduled
    <3>5. AbsentIsUntouched'
      BY <2>20 DEF ReaddFails, redisVars, AbsentIsUntouched
    <3>6. QuietHoursRespected'
      BY <2>20 DEF ReaddFails, redisVars, QuietHoursRespected
    <3>7. SentWasPushed'
      BY <2>20 DEF ReaddFails, redisVars, SentWasPushed
    <3> QED BY <2>0, <3>1, <3>2, <3>3, <3>4, <3>5, <3>6, <3>7
  <2>21. ASSUME NEW i \in Instances, Start(i) PROVE PushInv'
    <3>1. MembersOfScheduledRows'
      BY <2>21 DEF Start, redisVars, ghostVars, MembersOfScheduledRows,
               OfScheduledRow
    <3>2. PoppedIsDue'
      BY <2>21 DEF Start, redisVars, ghostVars, PoppedIsDue
    <3>3. MarkFollowsPush'
      BY <2>21 DEF Start, redisVars, ghostVars, MarkFollowsPush
    <3>4. DirectIsUnscheduled'
      BY <2>21 DEF Start, redisVars, ghostVars, DirectIsUnscheduled
    <3>5. AbsentIsUntouched'
      BY <2>21 DEF Start, redisVars, ghostVars, AbsentIsUntouched
    <3>6. QuietHoursRespected'
      BY <2>21 DEF Start, redisVars, ghostVars, QuietHoursRespected
    <3>7. SentWasPushed'
      BY <2>21 DEF Start, redisVars, ghostVars, SentWasPushed
    <3> QED BY <2>0, <3>1, <3>2, <3>3, <3>4, <3>5, <3>6, <3>7
  <2>22. ASSUME UNCHANGED vars PROVE PushInv'
    <3>1. MembersOfScheduledRows'
      BY <2>22 DEF vars, MembersOfScheduledRows, OfScheduledRow
    <3>2. PoppedIsDue'
      BY <2>22 DEF vars, PoppedIsDue
    <3>3. MarkFollowsPush'
      BY <2>22 DEF vars, MarkFollowsPush
    <3>4. DirectIsUnscheduled'
      BY <2>22 DEF vars, DirectIsUnscheduled
    <3>5. AbsentIsUntouched'
      BY <2>22 DEF vars, AbsentIsUntouched
    <3>6. QuietHoursRespected'
      BY <2>22 DEF vars, QuietHoursRespected
    <3>7. SentWasPushed'
      BY <2>22 DEF vars, SentWasPushed
    <3> QED BY <2>0, <3>1, <3>2, <3>3, <3>4, <3>5, <3>6, <3>7
  <2> QED
    BY <2>1, <2>2, <2>3, <2>4, <2>5, <2>6, <2>7, <2>8, <2>9, <2>10, <2>11,
       <2>12, <2>13, <2>14, <2>15, <2>16, <2>17, <2>18, <2>19, <2>20, <2>21,
       <2>22
       DEF Next, Administrators, Time, Scheduler, Restart
<1> QED BY <1>1, <1>2, PTL DEF Spec

\* An announcement of the quiet hours is never pushed before the morning
\* (getNextMorningNine, popReadyScheduledNotifications).
THEOREM QuietHoursHold == Spec => []QuietHoursRespected
<1>1. PushInv => QuietHoursRespected
  BY DEF PushInv
<1> QED BY <1>1, PushInvariant, PTL

\* notificationSentAt is set only on an announcement that was pushed
\* (sendScheduledNotifications).
THEOREM SentImpliesPushed == Spec => []SentWasPushed
<1>1. PushInv => SentWasPushed
  BY DEF PushInv
<1> QED BY <1>1, PushInvariant, PTL

-----------------------------------------------------------------------------
(* How often an announcement may still be pushed.                          *)

\* Where a push of a may still come from: the request that will write a, its push in
\* the day, its members on their way, and every instance that will restore it.  A job
\* that has pushed and goes on to mark the row is none.
Unwritten(a) == {"absent"} \X {b \in {a} : row[b].state = "absent"}
InDay(a)     == {"direct"} \X {b \in {a} : b \in direct}
Queued(a)    == {"queue"} \X {m \in zset : m.ann = a}
Asked(a)     == {"request"} \X {p \in Instances \X Member :
                                  p[2] \in requests[p[1]] /\ p[2].ann = a}
Restored(a)  == {"restore"} \X {p \in Instances \X Member :
                                  p[2] \in todo[p[1]] /\ p[2].ann = a}
Popped(a)    == {"job"} \X {p \in Instances \X Job :
                              /\ p[2] \in inflight[p[1]]
                              /\ p[2].stage # "mark" /\ p[2].m.ann = a}
Stopped      == {"down"} \X {i \in Instances : mode[i] = "down"}

Chances(a) == Unwritten(a) \cup InDay(a) \cup Queued(a) \cup Asked(a) \cup Restored(a)
              \cup Popped(a) \cup Stopped

Excused(a) == 1 + faults["crash"] + faults["db"] + contested[a]

Bounded(a) == IsFiniteSet(Chances(a)) /\ pushes[a] + Cardinality(Chances(a)) <= Excused(a)

ChancesInv == \A a \in Announcements : Bounded(a)

\* Finite sets that lose, gain or swap an element.
LEMMA Fewer ==
  ASSUME NEW S, IsFiniteSet(S), NEW T, T \subseteq S
  PROVE  /\ IsFiniteSet(T) /\ Cardinality(T) \in Nat /\ Cardinality(S) \in Nat
         /\ Cardinality(T) <= Cardinality(S)
  BY FS_Subset, FS_CardinalityType

LEMMA Spent ==
  ASSUME NEW S, IsFiniteSet(S), NEW x \in S, NEW T, T \subseteq S \ {x}
  PROVE  IsFiniteSet(T) /\ Cardinality(T) \in Nat /\ Cardinality(S) \in Nat
         /\ Cardinality(T) + 1 <= Cardinality(S)
<1>1. IsFiniteSet(S \ {x}) /\ Cardinality(S \ {x}) = Cardinality(S) - 1
      /\ Cardinality(S) \in Nat
  BY FS_RemoveElement, FS_CardinalityType
<1>2. /\ IsFiniteSet(T) /\ Cardinality(T) \in Nat /\ Cardinality(S \ {x}) \in Nat
      /\ Cardinality(T) <= Cardinality(S \ {x})
  BY <1>1, Fewer
<1> QED BY <1>1, <1>2

LEMMA OneMore ==
  ASSUME NEW S, IsFiniteSet(S), NEW y, NEW T, T \subseteq S \cup {y}
  PROVE  IsFiniteSet(T) /\ Cardinality(T) \in Nat /\ Cardinality(S) \in Nat
         /\ Cardinality(T) <= Cardinality(S) + 1
<1>1. IsFiniteSet(S \cup {y}) /\ Cardinality(S \cup {y}) <= Cardinality(S) + 1
      /\ Cardinality(S) \in Nat
  <2>1. Cardinality(S) \in Nat
    BY FS_CardinalityType
  <2>2. /\ IsFiniteSet(S \cup {y})
        /\ \/ Cardinality(S \cup {y}) = Cardinality(S)
           \/ Cardinality(S \cup {y}) = Cardinality(S) + 1
    BY FS_AddElement
  <2> QED BY <2>1, <2>2
<1>2. /\ IsFiniteSet(T) /\ Cardinality(T) \in Nat /\ Cardinality(S \cup {y}) \in Nat
      /\ Cardinality(T) <= Cardinality(S \cup {y})
  BY <1>1, Fewer
<1> QED BY <1>1, <1>2

LEMMA Swapped ==
  ASSUME NEW S, IsFiniteSet(S), NEW x \in S, NEW y, NEW T, T \subseteq (S \ {x}) \cup {y}
  PROVE  IsFiniteSet(T) /\ Cardinality(T) \in Nat /\ Cardinality(S) \in Nat
         /\ Cardinality(T) <= Cardinality(S)
<1>1. /\ IsFiniteSet(S \ {x}) /\ Cardinality(S \ {x}) \in Nat /\ Cardinality(S) \in Nat
      /\ Cardinality(S \ {x}) + 1 <= Cardinality(S)
  BY Spent
<1>2. /\ IsFiniteSet(T) /\ Cardinality(T) \in Nat
      /\ Cardinality(T) <= Cardinality(S \ {x}) + 1
  BY <1>1, OneMore
<1> QED BY <1>1, <1>2

LEMMA CountTypes ==
  ASSUME TypeOK, TypeOK', NEW a \in Announcements
  PROVE  /\ pushes[a] \in Nat /\ pushes'[a] \in Nat
         /\ Excused(a) \in Nat /\ Excused(a)' \in Nat
         /\ UNCHANGED <<faults, contested>> => Excused(a) <= Excused(a)'
<1>1. /\ pushes[a] \in Nat /\ contested[a] \in Nat
      /\ faults["crash"] \in Nat /\ faults["db"] \in Nat
  BY ConstantsAssumption DEF TypeOK
<1>2. /\ pushes'[a] \in Nat /\ contested'[a] \in Nat
      /\ faults'["crash"] \in Nat /\ faults'["db"] \in Nat
  BY ConstantsAssumption DEF TypeOK
<1> QED BY <1>1, <1>2 DEF Excused

\* A step after which a has no more chances than before, pays for a new one with a fault,
\* or uses one up for a push.
LEMMA BoundedKept ==
  ASSUME TypeOK, TypeOK', NEW a \in Announcements, Bounded(a),
         Chances(a)' \subseteq Chances(a),
         pushes'[a] = pushes[a], Excused(a) <= Excused(a)'
  PROVE  Bounded(a)'
<1>1. /\ IsFiniteSet(Chances(a)') /\ Cardinality(Chances(a)') \in Nat
      /\ Cardinality(Chances(a)) \in Nat
      /\ Cardinality(Chances(a)') <= Cardinality(Chances(a))
  BY Fewer DEF Bounded
<1> QED BY <1>1, CountTypes DEF Bounded

LEMMA BoundedSwap ==
  ASSUME TypeOK, TypeOK', NEW a \in Announcements, Bounded(a),
         NEW x \in Chances(a), NEW y, Chances(a)' \subseteq (Chances(a) \ {x}) \cup {y},
         pushes'[a] = pushes[a], Excused(a) <= Excused(a)'
  PROVE  Bounded(a)'
<1>1. /\ IsFiniteSet(Chances(a)') /\ Cardinality(Chances(a)') \in Nat
      /\ Cardinality(Chances(a)) \in Nat
      /\ Cardinality(Chances(a)') <= Cardinality(Chances(a))
  BY Swapped DEF Bounded
<1> QED BY <1>1, CountTypes DEF Bounded

LEMMA BoundedFault ==
  ASSUME TypeOK, TypeOK', NEW a \in Announcements, Bounded(a),
         NEW y, Chances(a)' \subseteq Chances(a) \cup {y},
         pushes'[a] = pushes[a], Excused(a) + 1 <= Excused(a)'
  PROVE  Bounded(a)'
<1>1. /\ IsFiniteSet(Chances(a)') /\ Cardinality(Chances(a)') \in Nat
      /\ Cardinality(Chances(a)) \in Nat
      /\ Cardinality(Chances(a)') <= Cardinality(Chances(a)) + 1
  BY OneMore DEF Bounded
<1> QED BY <1>1, CountTypes DEF Bounded

LEMMA BoundedPush ==
  ASSUME TypeOK, TypeOK', NEW a \in Announcements, Bounded(a),
         NEW x \in Chances(a), Chances(a)' \subseteq Chances(a) \ {x},
         pushes'[a] <= pushes[a] + 1, Excused(a) <= Excused(a)'
  PROVE  Bounded(a)'
<1>1. /\ IsFiniteSet(Chances(a)') /\ Cardinality(Chances(a)') \in Nat
      /\ Cardinality(Chances(a)) \in Nat
      /\ Cardinality(Chances(a)') + 1 <= Cardinality(Chances(a))
  BY Spent DEF Bounded
<1> QED BY <1>1, CountTypes DEF Bounded

\* The places of chances that a step need not be asked about.
LEMMA PlacesKept ==
  ASSUME NEW a
  PROVE  /\ (row' = row => Unwritten(a)' = Unwritten(a))
         /\ (direct' = direct => InDay(a)' = InDay(a))
         /\ (zset' = zset => Queued(a)' = Queued(a))
         /\ (requests' = requests => Asked(a)' = Asked(a))
         /\ (todo' = todo => Restored(a)' = Restored(a))
         /\ (inflight' = inflight => Popped(a)' = Popped(a))
         /\ (mode' = mode => Stopped' = Stopped)
  BY DEF Unwritten, InDay, Queued, Asked, Restored, Popped, Stopped

LEMMA AdministratorChances ==
  ASSUME TypeOK, TypeOK', ChancesInv, Administrators, NEW a \in Announcements
  PROVE  Bounded(a)'
<1>0. Bounded(a)
  BY DEF ChancesInv
<1>1. ASSUME NEW i \in Instances, NEW b \in Announcements, CreateQuiet(i, b)
      PROVE  Bounded(a)'
  <2> DEFINE n == [ann |-> b, title |-> 0, retry |-> 0]
             x == <<"absent", b>>
             y == <<"request", <<i, n>>>>
  <2>1. /\ UNCHANGED <<zset, direct, todo, inflight, mode, pushes, contested, faults>>
        /\ row[b].state = "absent" /\ row'[b].state = "live"
        /\ \A c \in Announcements : c # b => row'[c] = row[c]
        /\ requests' = [requests EXCEPT ![i] = @ \cup {n}]
        /\ n.ann = b
    BY <1>1 DEF CreateQuiet, redisVars, jobVars, ghostVars, TypeOK
  <2>2. Excused(a) <= Excused(a)' /\ pushes'[a] = pushes[a]
    BY <2>1, CountTypes
  <2> HIDE DEF n
  <2>3. CASE a = b
    <3>1. x \in Unwritten(a) /\ Unwritten(a)' = {}
      BY <2>1, <2>3 DEF Unwritten
    <3>2. Asked(a)' \subseteq Asked(a) \cup {y}
      BY <2>1 DEF Asked, TypeOK
    <3>3. Chances(a)' \subseteq (Chances(a) \ {x}) \cup {y} /\ x \in Chances(a)
      <4>1. Chances(a)' \subseteq Chances(a) \cup {y} /\ x \in Chances(a)
        BY <2>1, <3>1, <3>2, PlacesKept DEF Chances
      <4>2. x \notin Chances(a)'
        BY <3>1 DEF Chances, Unwritten, InDay, Queued, Asked, Restored, Popped, Stopped
      <4> QED BY <4>1, <4>2
    <3> QED BY <1>0, <2>2, <3>3, BoundedSwap
  <2>4. CASE a # b
    <3>1. Unwritten(a)' \subseteq Unwritten(a)
      BY <2>1, <2>4 DEF Unwritten
    <3>2. Asked(a)' \subseteq Asked(a)
      BY <2>1, <2>4 DEF Asked, TypeOK
    <3> QED BY <1>0, <2>1, <2>2, <3>1, <3>2, PlacesKept, BoundedKept DEF Chances
  <2> QED BY <2>3, <2>4
<1>2. ASSUME NEW b \in Announcements, CreateDay(b) PROVE Bounded(a)'
  <2> DEFINE x == <<"absent", b>>
             y == <<"direct", b>>
  <2>1. /\ UNCHANGED <<zset, requests, todo, inflight, mode, pushes, contested, faults>>
        /\ row[b].state = "absent" /\ row'[b].state = "live"
        /\ \A c \in Announcements : c # b => row'[c] = row[c]
        /\ direct' = direct \cup {b}
    BY <1>2 DEF CreateDay, redisVars, jobVars, ghostVars, TypeOK
  <2>2. Excused(a) <= Excused(a)' /\ pushes'[a] = pushes[a]
    BY <2>1, CountTypes
  <2>3. CASE a = b
    <3>1. x \in Unwritten(a) /\ Unwritten(a)' = {}
      BY <2>1, <2>3 DEF Unwritten
    <3>2. InDay(a)' \subseteq InDay(a) \cup {y}
      BY <2>1 DEF InDay
    <3>3. Chances(a)' \subseteq (Chances(a) \ {x}) \cup {y} /\ x \in Chances(a)
      <4>1. Chances(a)' \subseteq Chances(a) \cup {y} /\ x \in Chances(a)
        BY <2>1, <3>1, <3>2, PlacesKept DEF Chances
      <4>2. x \notin Chances(a)'
        BY <3>1 DEF Chances, Unwritten, InDay, Queued, Asked, Restored, Popped, Stopped
      <4> QED BY <4>1, <4>2
    <3> QED BY <1>0, <2>2, <3>3, BoundedSwap
  <2>4. CASE a # b
    <3>1. Unwritten(a)' \subseteq Unwritten(a)
      BY <2>1, <2>4 DEF Unwritten
    <3>2. InDay(a)' \subseteq InDay(a)
      BY <2>1, <2>4 DEF InDay
    <3> QED BY <1>0, <2>1, <2>2, <3>1, <3>2, PlacesKept, BoundedKept DEF Chances
  <2> QED BY <2>3, <2>4
<1>3. ASSUME NEW b \in Announcements, DirectSend(b) PROVE Bounded(a)'
  <2> DEFINE x == <<"direct", b>>
  <2>1. /\ UNCHANGED <<row, zset, requests, todo, inflight, mode, contested, faults>>
        /\ b \in direct /\ direct' = direct \ {b}
        /\ pushes' = pushes \/ pushes' = [pushes EXCEPT ![b] = @ + 1]
    BY <1>3 DEF DirectSend, redisVars, jobVars
  <2>2. /\ Excused(a) <= Excused(a)' /\ pushes[a] \in Nat /\ pushes'[a] \in Nat
        /\ pushes'[a] <= pushes[a] + 1 /\ (a # b => pushes'[a] = pushes[a])
    BY <2>1, CountTypes DEF TypeOK
  <2>3. CASE a = b
    <3>1. x \in InDay(a) /\ InDay(a)' = {}
      BY <2>1, <2>3 DEF InDay
    <3>2. Chances(a)' \subseteq Chances(a) \ {x} /\ x \in Chances(a)
      <4>1. Chances(a)' \subseteq Chances(a) /\ x \in Chances(a)
        BY <2>1, <3>1, PlacesKept DEF Chances
      <4>2. x \notin Chances(a)'
        BY <3>1 DEF Chances, Unwritten, InDay, Queued, Asked, Restored, Popped, Stopped
      <4> QED BY <4>1, <4>2
    <3> QED BY <1>0, <2>2, <3>2, BoundedPush
  <2>4. CASE a # b
    <3>1. InDay(a)' \subseteq InDay(a)
      BY <2>1, <2>4 DEF InDay
    <3> QED BY <1>0, <2>1, <2>2, <2>4, <3>1, PlacesKept, BoundedKept DEF Chances
  <2> QED BY <2>3, <2>4
<1>4. ASSUME NEW b \in Announcements, UpdateTitle(b) \/ Remove(b) PROVE Bounded(a)'
  <2>1. /\ UNCHANGED <<zset, direct, requests, todo, inflight, mode, pushes, contested, faults>>
        /\ Unwritten(a)' \subseteq Unwritten(a)
    BY <1>4 DEF UpdateTitle, Remove, redisVars, jobVars, ghostVars, TypeOK, Row, Unwritten
  <2>2. Excused(a) <= Excused(a)' /\ pushes'[a] = pushes[a]
    BY <2>1, CountTypes
  <2> QED BY <1>0, <2>1, <2>2, PlacesKept, BoundedKept DEF Chances
<1>5. ASSUME NEW i \in Instances, NEW m \in requests[i], ScheduleRequest(i, m)
      PROVE  Bounded(a)'
  <2> DEFINE x == <<"request", <<i, m>>>>
             y == <<"queue", m>>
  <2>1. /\ UNCHANGED <<row, direct, todo, inflight, mode, pushes, contested, faults>>
        /\ requests' = [requests EXCEPT ![i] = @ \ {m}] /\ zset' = zset \cup {m}
        /\ m \in Member
    BY <1>5 DEF ScheduleRequest, jobVars, ghostVars, TypeOK
  <2>2. Excused(a) <= Excused(a)' /\ pushes'[a] = pushes[a]
    BY <2>1, CountTypes
  <2>3. /\ Asked(a)' \subseteq Asked(a) \ {x}
        /\ m.ann = a => x \in Asked(a)
    BY <2>1 DEF Asked, TypeOK
  <2>4. /\ Queued(a)' \subseteq Queued(a) \cup {y}
        /\ m.ann # a => Queued(a)' = Queued(a)
    BY <2>1 DEF Queued
  <2>5. CASE m.ann = a
    <3>1. Chances(a)' \subseteq Chances(a) \cup {y} /\ x \in Chances(a)
      BY <2>1, <2>3, <2>4, <2>5, PlacesKept DEF Chances
    <3>2. x \notin Chances(a)'
      BY <2>3 DEF Chances, Unwritten, InDay, Queued, Asked, Restored, Popped, Stopped
    <3> QED BY <1>0, <2>2, <3>1, <3>2, BoundedSwap
  <2>6. CASE m.ann # a
    BY <1>0, <2>1, <2>2, <2>3, <2>4, <2>6, PlacesKept, BoundedKept DEF Chances
  <2> QED BY <2>5, <2>6
<1>6. ASSUME NEW i \in Instances, NEW m \in requests[i], ScheduleRequestFails(i, m)
      PROVE  Bounded(a)'
  <2>1. /\ UNCHANGED <<row, zset, direct, todo, inflight, mode, pushes, contested>>
        /\ requests' = [requests EXCEPT ![i] = @ \ {m}]
        /\ faults' = [faults EXCEPT !["add"] = @ + 1]
    BY <1>6 DEF ScheduleRequestFails, Fault, redisVars, jobVars
  <2>2. Excused(a) = Excused(a)' /\ pushes'[a] = pushes[a]
    BY <2>1 DEF TypeOK, Excused
  <2>3. Excused(a) <= Excused(a)'
    BY <2>2, CountTypes
  <2>4. Asked(a)' \subseteq Asked(a)
    BY <2>1 DEF Asked, TypeOK
  <2> QED BY <1>0, <2>1, <2>2, <2>3, <2>4, PlacesKept, BoundedKept DEF Chances
<1> QED BY <1>1, <1>2, <1>3, <1>4, <1>5, <1>6 DEF Administrators

LEMMA TimeChances ==
  ASSUME TypeOK, TypeOK', ChancesInv, Time \/ UNCHANGED vars, NEW a \in Announcements
  PROVE  Bounded(a)'
<1>1. UNCHANGED <<row, zset, direct, requests, todo, inflight, mode, pushes, contested, faults>>
  BY DEF Time, ReachScheduledTime, RetryDelayPasses, redisVars, jobVars, ghostVars, vars
<1>2. Excused(a) <= Excused(a)' /\ pushes'[a] = pushes[a]
  BY <1>1, CountTypes
<1> QED BY <1>1, <1>2, PlacesKept, BoundedKept DEF Chances, ChancesInv

LEMMA Exchange ==
  ASSUME NEW S, IsFiniteSet(S), NEW A, A \subseteq S, NEW B, IsFiniteSet(B),
         NEW T, T \subseteq (S \ A) \cup B
  PROVE  /\ IsFiniteSet(T) /\ Cardinality(T) \in Nat /\ Cardinality(S) \in Nat
         /\ Cardinality(A) \in Nat /\ Cardinality(B) \in Nat
         /\ Cardinality(T) <= Cardinality(S) - Cardinality(A) + Cardinality(B)
<1>1. /\ IsFiniteSet(A) /\ Cardinality(A) \in Nat /\ Cardinality(B) \in Nat
      /\ Cardinality(S) \in Nat
  BY Fewer, FS_CardinalityType
<1>2. S \cap A = A
  OBVIOUS
<1>3. IsFiniteSet(S \ A) /\ Cardinality(S \ A) = Cardinality(S) - Cardinality(A)
  BY <1>2, FS_Difference
<1>4. /\ IsFiniteSet((S \ A) \cup B) /\ IsFiniteSet((S \ A) \cap B)
      /\ Cardinality((S \ A) \cup B)
           = Cardinality(S \ A) + Cardinality(B) - Cardinality((S \ A) \cap B)
  BY <1>3, FS_Union, FS_Intersection
<1>5. Cardinality((S \ A) \cap B) \in Nat /\ Cardinality((S \ A) \cup B) \in Nat
  BY <1>4, FS_CardinalityType
<1>6. /\ IsFiniteSet(T) /\ Cardinality(T) \in Nat
      /\ Cardinality(T) <= Cardinality((S \ A) \cup B)
  BY <1>4, Fewer
<1> QED BY <1>1, <1>3, <1>4, <1>5, <1>6

\* ZREM: what was read and is still there goes from the sorted set into the memory of the
\* instance; what another instance has taken already is one more chance, and contested.
LEMMA RemoveFetchedChances ==
  ASSUME TypeOK, TypeOK', ChancesInv, NEW i \in Instances, RemoveFetched(i),
         NEW a \in Announcements
  PROVE  Bounded(a)'
<1> DEFINE F == {m \in fetched[i] : m.ann = a}
           Z == {m \in F : m \in zset}
           G == {m \in fetched[i] \ zset : m.ann = a}
           ToSend(m) == [m |-> m, stage |-> "send"]
           A == {"queue"} \X Z
           B == {<<"job", <<i, ToSend(m)>>>> : m \in F}
<1>1. /\ UNCHANGED <<row, direct, requests, todo, mode, pushes, faults>>
      /\ zset' = zset \ fetched[i]
      /\ inflight' = [inflight EXCEPT ![i] = @ \cup {ToSend(m) : m \in fetched[i]}]
      /\ contested'[a] = contested[a] + Cardinality(G)
      /\ fetched[i] \subseteq Member
  BY DEF RemoveFetched, TypeOK
<1>2. /\ IsFiniteSet(F) /\ IsFiniteSet(Z) /\ IsFiniteSet(G)
      /\ Cardinality(F) \in Nat /\ Cardinality(Z) \in Nat /\ Cardinality(G) \in Nat
      /\ Cardinality(F) = Cardinality(Z) + Cardinality(G)
  <2>1. IsFiniteSet(F)
    BY <1>1, MembersOfOneAnnouncement
  <2>2. Z \subseteq F /\ F \cap Z = Z /\ F \ Z = G
    OBVIOUS
  <2>3. /\ IsFiniteSet(Z) /\ IsFiniteSet(G)
        /\ Cardinality(G) = Cardinality(F) - Cardinality(Z)
    <3>1. IsFiniteSet(Z)
      BY <2>1, <2>2, Fewer
    <3>2. IsFiniteSet(F \ Z) /\ Cardinality(F \ Z) = Cardinality(F) - Cardinality(F \cap Z)
      BY <2>1, <3>1, FS_Difference
    <3> HIDE DEF F, Z, G
    <3> QED BY <2>2, <3>1, <3>2
  <2>4. Cardinality(F) \in Nat /\ Cardinality(Z) \in Nat /\ Cardinality(G) \in Nat
    BY <2>1, <2>3, FS_CardinalityType
  <2> QED BY <2>1, <2>3, <2>4
<1>3. Cardinality(A) = Cardinality(Z)
  <2>1. IsFiniteSet({"queue"}) /\ Cardinality({"queue"}) = 1
    BY FS_Singleton
  <2>2. Cardinality(A) = 1 * Cardinality(Z)
    BY <1>2, <2>1, FS_Product
  <2> QED BY <1>2, <2>2
<1>4. IsFiniteSet(B) /\ Cardinality(B) <= Cardinality(F)
  <2> DEFINE f == [m \in F |-> <<"job", <<i, ToSend(m)>>>>]
  <2>1. f \in Surjection(F, B)
    <3>1. f \in [F -> B]
      OBVIOUS
    <3>2. \A y \in B : \E m \in F : f[m] = y
      OBVIOUS
    <3> QED BY <3>1, <3>2 DEF Surjection
  <2> HIDE DEF f, F, B
  <2> QED BY <1>2, <2>1, FS_Surjection
<1>5. Bounded(a) /\ IsFiniteSet(Chances(a))
  BY DEF ChancesInv, Bounded
<1>6. A \subseteq Queued(a) /\ Queued(a)' \subseteq Queued(a) \ A
  BY <1>1 DEF Queued
<1>7. Popped(a)' \subseteq Popped(a) \cup B
  <2> SUFFICES ASSUME NEW t \in Popped(a)', t \notin Popped(a) PROVE t \in B
    OBVIOUS
  <2>1. PICK j \in Instances, x \in Job :
          t = <<"job", <<j, x>>>> /\ x \in inflight'[j] /\ x.m.ann = a /\ x.stage # "mark"
    BY DEF Popped
  <2>2. x \notin inflight[j]
    BY <2>1 DEF Popped
  <2>3. j = i /\ x \in {ToSend(m) : m \in fetched[i]}
    BY <1>1, <2>1, <2>2 DEF TypeOK
  <2>4. PICK m \in fetched[i] : x = ToSend(m)
    BY <2>3
  <2>5. m \in F
    BY <2>1, <2>4
  <2> QED BY <2>1, <2>3, <2>4, <2>5
<1>8. Chances(a)' \subseteq (Chances(a) \ A) \cup B /\ A \subseteq Chances(a)
  <2>1. A \cap (Unwritten(a) \cup InDay(a) \cup Asked(a) \cup Restored(a) \cup Popped(a)
                \cup Stopped) = {}
    BY DEF Unwritten, InDay, Asked, Restored, Popped, Stopped
  <2> HIDE DEF A, B
  <2> QED BY <1>1, <1>6, <1>7, <2>1, PlacesKept DEF Chances
<1> HIDE DEF A, B, F, Z, G
<1>9. /\ IsFiniteSet(Chances(a)') /\ Cardinality(Chances(a)') \in Nat
      /\ Cardinality(Chances(a)) \in Nat
      /\ Cardinality(Chances(a)') <= Cardinality(Chances(a)) - Cardinality(A) + Cardinality(B)
      /\ Cardinality(A) \in Nat /\ Cardinality(B) \in Nat
  BY <1>4, <1>5, <1>8, Exchange
<1>10. Excused(a)' = Excused(a) + Cardinality(G) /\ pushes'[a] = pushes[a]
  <2>1. /\ contested[a] \in Nat /\ faults["crash"] \in Nat /\ faults["db"] \in Nat
    BY ConstantsAssumption DEF TypeOK
  <2> QED BY <1>1, <1>2, <2>1 DEF Excused
<1>11. Cardinality(Chances(a)') <= Cardinality(Chances(a)) + Cardinality(G)
  BY <1>2, <1>3, <1>4, <1>9
<1> QED BY <1>2, <1>5, <1>9, <1>10, <1>11, CountTypes DEF Bounded

\* A job that goes on to another await, and one that ends.
LEMMA MovePopped ==
  ASSUME TypeOK, NEW a, NEW i \in Instances, NEW x \in inflight[i],
         NEW stage \in {"mark", "retry"}, MoveTo(i, x, stage), x.stage # stage
  PROVE  \E y :
           /\ Popped(a)' \subseteq (Popped(a) \ {<<"job", <<i, x>>>>}) \cup {y}
           /\ x.m.ann # a => Popped(a)' \subseteq Popped(a)
           /\ stage = "mark" => Popped(a)' \subseteq Popped(a) \ {<<"job", <<i, x>>>>}
<1> DEFINE z == [x EXCEPT !.stage = stage]
           y == <<"job", <<i, z>>>>
<1>1. x \in Job /\ z.m = x.m /\ z.stage = stage /\ z # x
  BY DEF TypeOK, Job
<1>2. inflight' = [inflight EXCEPT ![i] = (@ \ {x}) \cup {z}]
  BY DEF MoveTo
<1> HIDE DEF z
<1>3. ASSUME NEW t \in Popped(a)'
      PROVE  /\ t \in Popped(a) \/ t = y
             /\ t # <<"job", <<i, x>>>>
             /\ t = y => x.m.ann = a /\ stage # "mark"
  <2>1. PICK j \in Instances, w \in Job :
          t = <<"job", <<j, w>>>> /\ w \in inflight'[j] /\ w.stage # "mark" /\ w.m.ann = a
    BY DEF Popped
  <2>2. CASE j = i
    <3>1. (w \in inflight[i] /\ w # x) \/ w = z
      BY <1>2, <2>1, <2>2 DEF TypeOK
    <3> QED BY <1>1, <2>1, <2>2, <3>1 DEF Popped
  <2>3. CASE j # i
    <3>1. w \in inflight[j]
      BY <1>2, <2>1, <2>3 DEF TypeOK
    <3> QED BY <2>1, <2>3, <3>1 DEF Popped
  <2> QED BY <2>2, <2>3
<1> HIDE DEF y
<1> QED BY <1>3

LEMMA FinishPopped ==
  ASSUME TypeOK, NEW a, NEW i \in Instances, NEW x \in inflight[i], Finish(i, x)
  PROVE  Popped(a)' \subseteq Popped(a) \ {<<"job", <<i, x>>>>}
  BY DEF Popped, Finish, TypeOK

\* A job counts as a chance of its announcement only, and until it has pushed.
LEMMA JobIsChance ==
  ASSUME TypeOK, NEW a, NEW i \in Instances, NEW x \in inflight[i],
         x.m.ann = a, x.stage # "mark"
  PROVE  <<"job", <<i, x>>>> \in Popped(a)
  BY DEF Popped, TypeOK

LEMMA JobTokensAreJobs ==
  ASSUME NEW a, NEW p
  PROVE  <<"job", p>> \notin Unwritten(a) \cup InDay(a) \cup Queued(a) \cup Asked(a)
                             \cup Restored(a) \cup Stopped
  BY DEF Unwritten, InDay, Queued, Asked, Restored, Stopped

LEMMA JobChances ==
  ASSUME TypeOK, TypeOK', ChancesInv, NEW i \in Instances, NEW x \in inflight[i],
         Send(i, x) \/ Mark(i, x) \/ MarkFails(i, x) \/ Retry(i, x) \/ RetryFails(i, x),
         NEW a \in Announcements
  PROVE  Bounded(a)'
<1>0. Bounded(a)
  BY DEF ChancesInv
<1> DEFINE t == <<"job", <<i, x>>>>
<1>t. /\ t \notin Unwritten(a)' \cup InDay(a)' \cup Queued(a)' \cup Asked(a)'
                  \cup Restored(a)' \cup Stopped'
      /\ x.m.ann = a /\ x.stage # "mark" => t \in Chances(a)
      /\ x \in Job /\ x.m \in Member
  BY JobTokensAreJobs, JobIsChance DEF TypeOK, Job, Chances,
     Unwritten, InDay, Queued, Asked, Restored, Stopped
<1> HIDE DEF t
<1>1. CASE Send(i, x)
  <2>1. /\ UNCHANGED <<row, zset, direct, requests, todo, mode, contested, faults>>
        /\ x.stage = "send"
        /\ \/ MoveTo(i, x, "mark") /\ pushes' = [pushes EXCEPT ![x.m.ann] = @ + 1]
           \/ MoveTo(i, x, "retry") /\ pushes' = pushes
    BY <1>1 DEF Send, redisVars
  <2>2. Excused(a) <= Excused(a)'
    BY <2>1, CountTypes
  <2>3. CASE MoveTo(i, x, "mark") /\ pushes' = [pushes EXCEPT ![x.m.ann] = @ + 1]
    <3>1. Popped(a)' \subseteq Popped(a) \ {t}
      BY <2>1, <2>3, MovePopped DEF t
    <3>2. Chances(a)' \subseteq Chances(a) \ {t}
      BY <1>t, <2>1, <3>1, PlacesKept DEF Chances
    <3>3. CASE x.m.ann = a
      <4>1. pushes'[a] <= pushes[a] + 1
        BY <2>3, <3>3 DEF TypeOK
      <4> QED BY <1>0, <1>t, <2>1, <2>2, <3>2, <3>3, <4>1, BoundedPush
    <3>4. CASE x.m.ann # a
      <4>1. pushes'[a] = pushes[a]
        BY <2>3, <3>4 DEF TypeOK
      <4> QED BY <1>0, <2>2, <3>2, <4>1, BoundedKept
    <3> QED BY <3>3, <3>4
  <2>4. CASE MoveTo(i, x, "retry") /\ pushes' = pushes
    <3>1. PICK y : /\ Popped(a)' \subseteq (Popped(a) \ {t}) \cup {y}
                   /\ x.m.ann # a => Popped(a)' \subseteq Popped(a)
      BY <2>1, <2>4, MovePopped DEF t
    <3>2. CASE x.m.ann = a
      <4>1. Chances(a)' \subseteq (Chances(a) \ {t}) \cup {y}
        BY <1>t, <2>1, <3>1, PlacesKept DEF Chances
      <4> QED BY <1>0, <1>t, <2>1, <2>2, <2>4, <3>2, <4>1, BoundedSwap
    <3>3. CASE x.m.ann # a
      <4>1. Chances(a)' \subseteq Chances(a)
        BY <2>1, <3>1, <3>3, PlacesKept DEF Chances
      <4> QED BY <1>0, <2>2, <2>4, <4>1, BoundedKept
    <3> QED BY <3>2, <3>3
  <2> QED BY <2>1, <2>3, <2>4
<1>2. CASE Mark(i, x)
  <2>1. /\ UNCHANGED <<zset, direct, requests, todo, mode, pushes, contested, faults>>
        /\ row' = [row EXCEPT ![x.m.ann].sent = TRUE] /\ Finish(i, x)
    BY <1>2 DEF Mark, redisVars, ghostVars
  <2>2. Excused(a) <= Excused(a)'
    BY <2>1, CountTypes
  <2>3. Unwritten(a)' \subseteq Unwritten(a)
    BY <2>1 DEF Unwritten, TypeOK, Row
  <2>4. Popped(a)' \subseteq Popped(a)
    BY <2>1, FinishPopped
  <2>5. Chances(a)' \subseteq Chances(a)
    BY <2>1, <2>3, <2>4, PlacesKept DEF Chances
  <2> QED BY <1>0, <2>1, <2>2, <2>5, BoundedKept
<1>3. CASE MarkFails(i, x)
  <2>1. /\ UNCHANGED <<row, zset, direct, requests, todo, mode, pushes, contested>>
        /\ x.stage = "mark" /\ MoveTo(i, x, "retry")
        /\ faults' = [faults EXCEPT !["db"] = @ + 1]
    BY <1>3 DEF MarkFails, Fault, redisVars, ghostVars
  <2>2. Excused(a) + 1 <= Excused(a)'
    BY <2>1, ConstantsAssumption DEF Excused, TypeOK
  <2>3. PICK y : Popped(a)' \subseteq (Popped(a) \ {t}) \cup {y}
    BY <2>1, MovePopped DEF t
  <2>4. Chances(a)' \subseteq Chances(a) \cup {y}
    BY <2>1, <2>3, PlacesKept DEF Chances
  <2> QED BY <1>0, <2>1, <2>2, <2>4, BoundedFault
<1>4. CASE Retry(i, x)
  <2>1. /\ UNCHANGED <<row, direct, requests, todo, mode, pushes, contested, faults>>
        /\ x.stage = "retry" /\ Finish(i, x)
        /\ zset' = zset \/ zset' = zset \cup {[x.m EXCEPT !.retry = @ + 1]}
    BY <1>4 DEF Retry, redisVars
  <2>2. Excused(a) <= Excused(a)'
    BY <2>1, CountTypes
  <2>3. Popped(a)' \subseteq Popped(a) \ {t}
    BY <2>1, FinishPopped DEF t
  <2>4. PICK n : n.ann = x.m.ann /\ zset' \subseteq zset \cup {n}
    <3> DEFINE n == [x.m EXCEPT !.retry = @ + 1]
    <3>1. n.ann = x.m.ann
      BY <1>t DEF Member
    <3>2. zset' \subseteq zset \cup {n}
      BY <2>1
    <3> HIDE DEF n
    <3> QED BY <3>1, <3>2
  <2>5. /\ Queued(a)' \subseteq Queued(a) \cup {<<"queue", n>>}
        /\ x.m.ann # a => Queued(a)' \subseteq Queued(a)
    BY <2>4 DEF Queued
  <2>6. CASE x.m.ann = a
    <3>1. Chances(a)' \subseteq (Chances(a) \ {t}) \cup {<<"queue", n>>}
      BY <1>t, <2>1, <2>3, <2>5, PlacesKept DEF Chances
    <3> QED BY <1>0, <1>t, <2>1, <2>2, <2>6, <3>1, BoundedSwap
  <2>7. CASE x.m.ann # a
    <3>1. Chances(a)' \subseteq Chances(a)
      BY <2>1, <2>3, <2>5, <2>7, PlacesKept DEF Chances
    <3> QED BY <1>0, <2>1, <2>2, <3>1, BoundedKept
  <2> QED BY <2>6, <2>7
<1>5. CASE RetryFails(i, x)
  <2>1. /\ UNCHANGED <<row, zset, direct, requests, todo, mode, pushes, contested>>
        /\ Finish(i, x) /\ faults' = [faults EXCEPT !["add"] = @ + 1]
    BY <1>5 DEF RetryFails, Fault, redisVars
  <2>2. Excused(a) = Excused(a)'
    BY <2>1 DEF Excused, TypeOK
  <2>3. Excused(a) <= Excused(a)'
    BY <2>2, CountTypes
  <2>4. Chances(a)' \subseteq Chances(a)
    BY <2>1, FinishPopped, PlacesKept DEF Chances
  <2> QED BY <1>0, <2>1, <2>3, <2>4, BoundedKept
<1> QED BY <1>1, <1>2, <1>3, <1>4, <1>5

\* A crash is one more chance, the restart: at that start, one member is added for an
\* announcement at most.
LEMMA RestartChances ==
  ASSUME TypeOK, TypeOK', ChancesInv, NEW i \in Instances, Fetch(i) \/ Crash(i) \/ Restart(i),
         NEW a \in Announcements
  PROVE  Bounded(a)'
<1>0. Bounded(a)
  BY DEF ChancesInv
<1>1. CASE Fetch(i)
  <2>1. UNCHANGED <<row, zset, direct, requests, todo, inflight, mode, pushes, contested, faults>>
    BY <1>1 DEF Fetch, redisVars, ghostVars
  <2>2. Chances(a)' \subseteq Chances(a)
    BY <2>1, PlacesKept DEF Chances
  <2> QED BY <1>0, <2>1, <2>2, CountTypes, BoundedKept
<1>2. CASE Crash(i)
  <2>1. /\ UNCHANGED <<row, zset, direct, pushes, contested>>
        /\ mode' = [mode EXCEPT ![i] = "down"]
        /\ requests' = [requests EXCEPT ![i] = {}] /\ todo' = [todo EXCEPT ![i] = {}]
        /\ inflight' = [inflight EXCEPT ![i] = {}]
        /\ faults' = [faults EXCEPT !["crash"] = @ + 1]
    BY <1>2 DEF Crash, Fault, redisVars, ghostVars
  <2>2. Excused(a) + 1 <= Excused(a)'
    BY <2>1, ConstantsAssumption DEF Excused, TypeOK
  <2>3. Stopped' \subseteq Stopped \cup {<<"down", i>>}
    BY <2>1 DEF Stopped, TypeOK
  <2>4. /\ Asked(a)' \subseteq Asked(a) /\ Restored(a)' \subseteq Restored(a)
        /\ Popped(a)' \subseteq Popped(a)
    BY <2>1 DEF Asked, Restored, Popped, TypeOK
  <2>5. Chances(a)' \subseteq Chances(a) \cup {<<"down", i>>}
    BY <2>1, <2>3, <2>4, PlacesKept DEF Chances
  <2> QED BY <1>0, <2>1, <2>2, <2>5, BoundedFault
<1>3. CASE Boot(i)
  <2> DEFINE x == <<"down", i>>
             n == [ann |-> a, title |-> row[a].title, retry |-> 0]
             y == <<"restore", <<i, n>>>>
  <2>1. /\ UNCHANGED <<row, zset, direct, requests, inflight, pushes, contested, faults>>
        /\ mode[i] = "down" /\ mode' = [mode EXCEPT ![i] = "booting"]
        /\ todo' = [todo EXCEPT ![i] = Pending]
    BY <1>3 DEF Boot, redisVars
  <2>2. Excused(a) <= Excused(a)'
    BY <2>1, CountTypes
  <2>3. x \in Stopped /\ Stopped' \subseteq Stopped \ {x}
    BY <2>1 DEF Stopped, TypeOK
  <2>4. Restored(a)' \subseteq Restored(a) \cup {y}
    <3> SUFFICES ASSUME NEW u \in Restored(a)', u \notin Restored(a) PROVE u = y
      OBVIOUS
    <3>1. PICK j \in Instances, m \in Member :
            u = <<"restore", <<j, m>>>> /\ m \in todo'[j] /\ m.ann = a
      BY DEF Restored
    <3>2. m \notin todo[j]
      BY <3>1 DEF Restored
    <3>3. j = i /\ m \in Pending
      BY <2>1, <3>1, <3>2 DEF TypeOK
    <3>4. m = n
      BY <3>1, <3>3 DEF Pending, Member
    <3> QED BY <3>1, <3>3, <3>4
  <2>5. x \notin Unwritten(a)' \cup InDay(a)' \cup Queued(a)' \cup Asked(a)'
                 \cup Restored(a)' \cup Popped(a)'
    BY DEF Unwritten, InDay, Queued, Asked, Restored, Popped
  <2> HIDE DEF x, y
  <2>6. Chances(a)' \subseteq (Chances(a) \ {x}) \cup {y} /\ x \in Chances(a)
    BY <2>1, <2>3, <2>4, <2>5, PlacesKept DEF Chances
  <2> QED BY <1>0, <2>1, <2>2, <2>6, BoundedSwap
<1>4. ASSUME NEW m \in todo[i], Readd(i, m) PROVE Bounded(a)'
  <2> DEFINE x == <<"restore", <<i, m>>>>
             y == <<"queue", m>>
  <2>1. /\ UNCHANGED <<row, direct, requests, mode, inflight, pushes, contested, faults>>
        /\ todo' = [todo EXCEPT ![i] = @ \ {m}] /\ zset' = zset \cup {m}
        /\ m \in Member
    BY <1>4 DEF Readd, ghostVars, TypeOK
  <2>2. Excused(a) <= Excused(a)' /\ pushes'[a] = pushes[a]
    BY <2>1, CountTypes
  <2>3. /\ Restored(a)' \subseteq Restored(a) \ {x}
        /\ m.ann = a => x \in Restored(a)
    BY <2>1 DEF Restored, TypeOK
  <2>4. /\ Queued(a)' \subseteq Queued(a) \cup {y}
        /\ m.ann # a => Queued(a)' = Queued(a)
    BY <2>1 DEF Queued
  <2>5. CASE m.ann = a
    <3>1. Chances(a)' \subseteq Chances(a) \cup {y} /\ x \in Chances(a)
      BY <2>1, <2>3, <2>4, <2>5, PlacesKept DEF Chances
    <3>2. x \notin Chances(a)'
      BY <2>3 DEF Chances, Unwritten, InDay, Queued, Asked, Restored, Popped, Stopped
    <3> QED BY <1>0, <2>2, <3>1, <3>2, BoundedSwap
  <2>6. CASE m.ann # a
    BY <1>0, <2>1, <2>2, <2>3, <2>4, <2>6, PlacesKept, BoundedKept DEF Chances
  <2> QED BY <2>5, <2>6
<1>5. CASE ReaddFails(i)
  <2>1. /\ UNCHANGED <<row, zset, direct, requests, mode, inflight, pushes, contested>>
        /\ todo' = [todo EXCEPT ![i] = {}] /\ faults' = [faults EXCEPT !["add"] = @ + 1]
    BY <1>5 DEF ReaddFails, Fault, redisVars
  <2>2. Excused(a) = Excused(a)'
    BY <2>1 DEF Excused, TypeOK
  <2>3. Excused(a) <= Excused(a)'
    BY <2>2, CountTypes
  <2>4. Restored(a)' \subseteq Restored(a)
    BY <2>1 DEF Restored, TypeOK
  <2>5. Chances(a)' \subseteq Chances(a)
    BY <2>1, <2>4, PlacesKept DEF Chances
  <2> QED BY <1>0, <2>1, <2>3, <2>5, BoundedKept
<1>6. CASE Start(i)
  <2>1. /\ UNCHANGED <<row, zset, direct, requests, todo, inflight, pushes, contested, faults>>
        /\ mode' = [mode EXCEPT ![i] = "up"]
    BY <1>6 DEF Start, redisVars, ghostVars
  <2>2. Excused(a) <= Excused(a)'
    BY <2>1, CountTypes
  <2>3. Stopped' \subseteq Stopped
    BY <2>1 DEF Stopped, TypeOK
  <2>4. Chances(a)' \subseteq Chances(a)
    BY <2>1, <2>3, PlacesKept DEF Chances
  <2> QED BY <1>0, <2>1, <2>2, <2>4, BoundedKept
<1> QED BY <1>1, <1>2, <1>3, <1>4, <1>5, <1>6 DEF Restart

\* A push is repeated only for a reason: a crash, a failed update after a push, or a member
\* that two instances popped; one push and one more for each of these is all an announcement
\* can have (sendScheduledNotifications, popReadyScheduledNotifications, onModuleInit).
THEOREM DuplicatesExplainedHolds == Spec => []DuplicatesExplained
<1>1. Init => ChancesInv
  <2> SUFFICES ASSUME Init, NEW a \in Announcements PROVE Bounded(a)
    BY DEF ChancesInv
  <2>1. Chances(a) \subseteq {<<"absent", a>>}
    BY DEF Init, Chances, Unwritten, InDay, Queued, Asked, Restored, Popped, Stopped
  <2>2. \A x : IsFiniteSet({x}) /\ Cardinality({x}) = 1
    BY FS_Singleton
  <2>3. IsFiniteSet(Chances(a)) /\ Cardinality(Chances(a)) \in Nat
        /\ Cardinality(Chances(a)) <= 1
    BY <2>1, <2>2, Fewer
  <2>4. pushes[a] = 0 /\ Excused(a) = 1
    BY DEF Init, Excused
  <2> QED BY <2>3, <2>4 DEF Bounded
<1>2. TypeOK /\ TypeOK' /\ ChancesInv /\ [Next]_vars => ChancesInv'
  BY AdministratorChances, TimeChances, RemoveFetchedChances, JobChances, RestartChances
     DEF ChancesInv, Next, Scheduler
<1>3. TypeOK /\ ChancesInv => DuplicatesExplained
  <2> SUFFICES ASSUME TypeOK, ChancesInv, NEW a \in Announcements
               PROVE  pushes[a] <= 1 + faults["crash"] + faults["db"] + contested[a]
    BY DEF DuplicatesExplained
  <2>1. Bounded(a) /\ Cardinality(Chances(a)) \in Nat
    BY FS_CardinalityType DEF ChancesInv, Bounded
  <2>2. /\ pushes[a] \in Nat /\ contested[a] \in Nat
        /\ faults["crash"] \in Nat /\ faults["db"] \in Nat
    BY ConstantsAssumption DEF TypeOK
  <2> QED BY <2>1, <2>2 DEF Bounded, Excused
<1> QED BY <1>1, <1>2, <1>3, TypeCorrect, PTL DEF Spec

==============================================================================
