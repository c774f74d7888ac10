---------------------- MODULE AnnouncementNotifications ----------------------
(***************************************************************************)
(* The push that tells every user about a new announcement.                *)
(*                                                                         *)
(* An announcement written in the quiet hours (18:00 to 09:00 KST) is      *)
(* stored with the time of its push, and a member                          *)
(* {announcementId, title, retryCount} is put in a Redis sorted set, scored *)
(* with that time.  Every minute each server instance takes the members    *)
(* that are due, sends each to the FCM topic and marks the announcement    *)
(* sent; a failure puts the member back, with a higher retryCount, five    *)
(* minutes later.  A starting instance puts every unsent announcement of   *)
(* the database back in the sorted set.                                    *)
(*                                                                         *)
(* Time is abstracted to what the code compares: whether the scheduled time *)
(* of an announcement has come (reached) and whether the delay of a retry   *)
(* has passed (ripe).  One action is one await of the code.                *)
(***************************************************************************)
EXTENDS Naturals, FiniteSets

CONSTANTS Announcements,  \* the announcements that may be written
          MaxEdits,       \* bound: changes of the title of an announcement
          Instances,      \* the server instances that run the scheduler
          MaxRetry,       \* MAX_RETRY_COUNT, 3 in the code
          MaxFaults       \* bound: crashes, failed updates and failed ZADDs in all

ASSUME ConstantsAssumption ==
  MaxRetry \in Nat /\ MaxEdits \in Nat /\ MaxFaults \in Nat

VARIABLES
  row,        \* the announcements table: one row per announcement
  zset,       \* members of announcement:scheduled:notifications
  reached,    \* announcements whose scheduled time has come
  ripe,       \* retry members whose delay has passed
  requests,   \* per instance: members a create request is about to ZADD
  direct,     \* announcements written in the day whose push is on its way
  mode,       \* per instance: "up", "booting" or "down"
  todo,       \* per instance: members onModuleInit is still to ZADD
  fetched,    \* per instance: members read by ZRANGEBYSCORE, not yet ZREMed
  inflight,   \* per instance: popped members and the await each is at
  pushes,     \* ghost: pushes FCM accepted, per announcement
  gaveUp,     \* ghost: whose retries ran out, since the last start
  unscheduled,\* ghost: whose member a failed ZADD lost, since the last start
  contested,  \* ghost: members popped after another instance popped them
  faults      \* ghost: how many faults of each kind have happened

redisVars == <<zset, ripe>>
jobVars   == <<mode, todo, fetched, inflight>>
ghostVars == <<pushes, gaveUp, unscheduled, contested>>
vars == <<row, zset, reached, ripe, requests, direct, mode, todo, fetched,
          inflight, pushes, gaveUp, unscheduled, contested, faults>>

\* The n-th change of a title gives title n.
Title == 0..MaxEdits

Member == [ann : Announcements, title : Title, retry : 0..MaxRetry]

\* notificationSentAt and scheduledNotificationAt are only compared with null.
Row == [state : {"absent", "live", "deleted"}, title : Title,
        scheduled : BOOLEAN, sent : BOOLEAN]

\* A popped member and the await its promise is at.
Job == [m : Member, stage : {"send", "mark", "retry"}]

\* Variant: the whole sorted set is taken, whatever the scores.
DueAlways(m) == m \in Member

Due(m) == IF m.retry = 0 THEN m.ann \in reached ELSE m \in ripe

\* Variant: only the announcements whose time is still to come are restored.
PendingInFuture ==
  {m \in Member : /\ row[m.ann].state = "live"
                  /\ row[m.ann].scheduled
                  /\ ~row[m.ann].sent
                  /\ m.title = row[m.ann].title
                  /\ m.retry = 0
                  /\ m.ann \notin reached}

\* The rows onModuleInit selects, as the members it adds for them.
Pending ==
  {m \in Member : /\ row[m.ann].state = "live"
                  /\ row[m.ann].scheduled
                  /\ ~row[m.ann].sent
                  /\ m.title = row[m.ann].title
                  /\ m.retry = 0}

Init ==
  /\ row = [a \in Announcements |->
       [state |-> "absent", title |-> 0, scheduled |-> FALSE, sent |-> FALSE]]
  /\ zset = {} /\ reached = {} /\ ripe = {}
  /\ requests = [i \in Instances |-> {}]
  /\ direct = {}
  /\ mode = [i \in Instances |-> "up"]
  /\ todo = [i \in Instances |-> {}]
  /\ fetched = [i \in Instances |-> {}]
  /\ inflight = [i \in Instances |-> {}]
  /\ pushes = [a \in Announcements |-> 0]
  /\ gaveUp = {} /\ unscheduled = {}
  /\ contested = [a \in Announcements |-> 0]
  /\ faults = [k \in {"crash", "db", "add"} |-> 0]

Fault(kind) ==
  /\ faults["crash"] + faults["db"] + faults["add"] < MaxFaults
  /\ faults' = [faults EXCEPT ![kind] = @ + 1]

-----------------------------------------------------------------------------
(* Requests of the administrators.                                         *)

\* create() in the quiet hours: the row is stored; the ZADD comes after the
\* list cache has been invalidated.
CreateQuiet(i, a) ==
  /\ mode[i] = "up"
  /\ row[a].state = "absent"
  /\ row' = [row EXCEPT ![a] = [state |-> "live", title |-> 0,
                                scheduled |-> TRUE, sent |-> FALSE]]
  /\ requests' = [requests EXCEPT ![i] =
                    @ \cup {[ann |-> a, title |-> 0, retry |-> 0]}]
  /\ UNCHANGED <<redisVars, reached, direct, jobVars, ghostVars, faults>>

ScheduleRequest(i, m) ==
  /\ m \in requests[i]
  /\ requests' = [requests EXCEPT ![i] = @ \ {m}]
  /\ zset' = zset \cup {m}
  /\ UNCHANGED <<row, reached, ripe, direct, jobVars, ghostVars, faults>>

\* The invalidation of the list cache, or the ZADD, throws: the request ends
\* with an error and the row stays.
ScheduleRequestFails(i, m) ==
  /\ m \in requests[i]
  /\ Fault("add")
  /\ requests' = [requests EXCEPT ![i] = @ \ {m}]
  /\ unscheduled' = unscheduled \cup {m.ann}
  /\ UNCHANGED <<row, redisVars, reached, direct, jobVars, pushes, gaveUp, contested>>

\* create() in the day: one push in the background, never retried.
CreateDay(a) ==
  /\ \E i \in Instances : mode[i] = "up"
  /\ row[a].state = "absent"
  /\ row' = [row EXCEPT ![a] = [state |-> "live", title |-> 0,
                                scheduled |-> FALSE, sent |-> FALSE]]
  /\ direct' = direct \cup {a}
  /\ UNCHANGED <<redisVars, reached, requests, jobVars, ghostVars, faults>>

DirectSend(a) ==
  /\ a \in direct
  /\ direct' = direct \ {a}
  /\ \/ pushes' = [pushes EXCEPT ![a] = @ + 1]
     \/ UNCHANGED pushes
  /\ UNCHANGED <<row, redisVars, reached, requests, jobVars, gaveUp,
                 unscheduled, contested, faults>>

\* update() changes the row only: a member already in the sorted set keeps the
\* old title.
UpdateTitle(a) ==
  /\ row[a].state = "live"
  /\ row[a].title < MaxEdits
  /\ row' = [row EXCEPT ![a].title = @ + 1]
  /\ UNCHANGED <<redisVars, reached, requests, direct, jobVars, ghostVars,
                 faults>>

\* remove() does not call cancelScheduledNotification.
Remove(a) ==
  /\ row[a].state = "live"
  /\ row' = [row EXCEPT ![a].state = "deleted"]
  /\ UNCHANGED <<redisVars, reached, requests, direct, jobVars, ghostVars,
                 faults>>

-----------------------------------------------------------------------------
(* Time.                                                                   *)

ReachScheduledTime(a) ==
  /\ row[a].scheduled
  /\ a \notin reached
  /\ reached' = reached \cup {a}
  /\ UNCHANGED <<row, redisVars, requests, direct, jobVars, ghostVars, faults>>

RetryDelayPasses(m) ==
  /\ m \in zset \ ripe
  /\ m.retry > 0
  /\ ripe' = ripe \cup {m}
  /\ UNCHANGED <<row, zset, reached, requests, direct, jobVars, ghostVars,
                 faults>>

-----------------------------------------------------------------------------
(* The cron job of an instance, every minute.                              *)

\* popReadyScheduledNotifications, first command: ZRANGEBYSCORE -inf now.
Fetch(i) ==
  /\ mode[i] = "up"
  /\ fetched[i] = {}
  /\ {m \in zset : Due(m)} # {}
  /\ fetched' = [fetched EXCEPT ![i] = {m \in zset : Due(m)}]
  /\ UNCHANGED <<row, redisVars, reached, requests, direct, mode, todo,
                 inflight, ghostVars, faults>>

\* Variant: the members that were read stay in the sorted set.
ReadWithoutRemoval(i) ==
  /\ fetched[i] # {}
  /\ inflight' = [inflight EXCEPT ![i] =
                    @ \cup {[m |-> m, stage |-> "send"] : m \in fetched[i]}]
  /\ fetched' = [fetched EXCEPT ![i] = {}]
  /\ UNCHANGED <<row, zset, ripe, reached, requests, direct, mode, todo, ghostVars, faults>>

\* popReadyScheduledNotifications, second command: ZREM of what was read.  The
\* number of removed members is not looked at.
RemoveFetched(i) ==
  /\ fetched[i] # {}
  /\ zset' = zset \ fetched[i]
  /\ ripe' = ripe \ fetched[i]
  /\ inflight' = [inflight EXCEPT ![i] =
                    @ \cup {[m |-> m, stage |-> "send"] : m \in fetched[i]}]
  /\ fetched' = [fetched EXCEPT ![i] = {}]
  /\ contested' = [a \in Announcements |->
                     contested[a] + Cardinality({m \in fetched[i] \ zset : m.ann = a})]
  /\ UNCHANGED <<row, reached, requests, direct, mode, todo, pushes, gaveUp,
                 unscheduled, faults>>

\* The job x of instance i goes on to its next await.
MoveTo(i, x, stage) ==
  inflight' = [inflight EXCEPT ![i] = (@ \ {x}) \cup {[x EXCEPT !.stage = stage]}]

Finish(i, x) == inflight' = [inflight EXCEPT ![i] = @ \ {x}]

\* Variant: the error of a failed push is swallowed.
SendSwallowsError(i, x) ==
  /\ x \in inflight[i]
  /\ x.stage = "send"
  /\ MoveTo(i, x, "mark")
  /\ \/ pushes' = [pushes EXCEPT ![x.m.ann] = @ + 1]
     \/ UNCHANGED pushes
  /\ UNCHANGED <<row, redisVars, reached, requests, direct, mode, todo, fetched,
                 gaveUp, unscheduled, contested, faults>>

\* sendAnnouncementNotification: FCM accepts the message, or throws.
Send(i, x) ==
  /\ x \in inflight[i]
  /\ x.stage = "send"
  /\ \/ /\ MoveTo(i, x, "mark")
        /\ pushes' = [pushes EXCEPT ![x.m.ann] = @ + 1]
     \/ /\ MoveTo(i, x, "retry")
        /\ UNCHANGED pushes
  /\ UNCHANGED <<row, redisVars, reached, requests, direct, mode, todo, fetched,
                 gaveUp, unscheduled, contested, faults>>

\* notificationSentAt is written.
Mark(i, x) ==
  /\ x \in inflight[i]
  /\ x.stage = "mark"
  /\ row' = [row EXCEPT ![x.m.ann].sent = TRUE]
  /\ Finish(i, x)
  /\ UNCHANGED <<redisVars, reached, requests, direct, mode, todo, fetched,
                 ghostVars, faults>>

\* The update fails: the same catch block as for a failed push.
MarkFails(i, x) ==
  /\ x \in inflight[i]
  /\ x.stage = "mark"
  /\ Fault("db")
  /\ MoveTo(i, x, "retry")
  /\ UNCHANGED <<row, redisVars, reached, requests, direct, mode, todo, fetched,
                 ghostVars>>

\* Variants: the retries are not limited; they are not counted.
RetryForever(i, x) ==
  /\ x \in inflight[i]
  /\ x.stage = "retry"
  /\ Finish(i, x)
  /\ zset' = zset \cup {[x.m EXCEPT !.retry = @ + 1]}
  /\ UNCHANGED <<row, ripe, reached, requests, direct, mode, todo, fetched,
                 ghostVars, faults>>

RetryUncounted(i, x) ==
  /\ x \in inflight[i]
  /\ x.stage = "retry"
  /\ Finish(i, x)
  /\ zset' = zset \cup {x.m}
  /\ UNCHANGED <<row, ripe, reached, requests, direct, mode, todo, fetched,
                 ghostVars, faults>>

\* The catch block: put the member back with retryCount + 1, five minutes from
\* now, or give the push up.
Retry(i, x) ==
  /\ x \in inflight[i]
  /\ x.stage = "retry"
  /\ Finish(i, x)
  /\ \/ /\ x.m.retry < MaxRetry
        /\ LET again == [x.m EXCEPT !.retry = @ + 1]
           IN  /\ zset' = zset \cup {again}
               /\ ripe' = ripe \ {again}
        /\ UNCHANGED gaveUp
     \/ /\ x.m.retry >= MaxRetry
        /\ gaveUp' = gaveUp \cup {x.m.ann}
        /\ UNCHANGED redisVars
  /\ UNCHANGED <<row, reached, requests, direct, mode, todo, fetched, pushes,
                 unscheduled, contested, faults>>

\* The ZADD of the catch block throws: allSettled swallows the error.
RetryFails(i, x) ==
  /\ x \in inflight[i]
  /\ x.stage = "retry"
  /\ x.m.retry < MaxRetry
  /\ Fault("add")
  /\ Finish(i, x)
  /\ unscheduled' = unscheduled \cup {x.m.ann}
  /\ UNCHANGED <<row, redisVars, reached, requests, direct, mode, todo, fetched,
                 pushes, gaveUp, contested>>

-----------------------------------------------------------------------------
(* Crash and restart of an instance.                                       *)

\* What the instance held in memory is gone; Redis and the database stay.
Crash(i) ==
  /\ mode[i] # "down"
  /\ Fault("crash")
  /\ mode' = [mode EXCEPT ![i] = "down"]
  /\ requests' = [requests EXCEPT ![i] = {}]
  /\ todo' = [todo EXCEPT ![i] = {}]
  /\ fetched' = [fetched EXCEPT ![i] = {}]
  /\ inflight' = [inflight EXCEPT ![i] = {}]
  /\ UNCHANGED <<row, redisVars, reached, direct, ghostVars>>

\* onModuleInit reads the pending announcements.
Boot(i) ==
  /\ mode[i] = "down"
  /\ mode' = [mode EXCEPT ![i] = "booting"]
  /\ todo' = [todo EXCEPT ![i] = Pending]
  /\ gaveUp' = {} /\ unscheduled' = {}
  /\ UNCHANGED <<row, redisVars, reached, requests, direct, fetched, inflight,
                 pushes, contested, faults>>

Readd(i, m) ==
  /\ mode[i] = "booting"
  /\ m \in todo[i]
  /\ todo' = [todo EXCEPT ![i] = @ \ {m}]
  /\ zset' = zset \cup {m}
  /\ UNCHANGED <<row, reached, ripe, requests, direct, mode, fetched, inflight,
                 ghostVars, faults>>

\* A ZADD throws: onModuleInit swallows the error, the rest is not added.
ReaddFails(i) ==
  /\ todo[i] # {}
  /\ Fault("add")
  /\ unscheduled' = unscheduled \cup {m.ann : m \in todo[i]}
  /\ todo' = [todo EXCEPT ![i] = {}]
  /\ UNCHANGED <<row, redisVars, reached, requests, direct, mode, fetched,
                 inflight, pushes, gaveUp, contested>>

\* The cron jobs start when onModuleInit has returned.
Start(i) ==
  /\ mode[i] = "booting"
  /\ todo[i] = {}
  /\ mode' = [mode EXCEPT ![i] = "up"]
  /\ UNCHANGED <<row, redisVars, reached, requests, direct, todo, fetched,
                 inflight, ghostVars, faults>>

-----------------------------------------------------------------------------
Administrators ==
  \/ \E i \in Instances, a \in Announcements : CreateQuiet(i, a)
  \/ \E a \in Announcements : CreateDay(a)
  \/ \E a \in Announcements : DirectSend(a)
  \/ \E a \in Announcements : UpdateTitle(a)
  \/ \E a \in Announcements : Remove(a)
  \/ \E i \in Instances : \E m \in requests[i] : ScheduleRequest(i, m)
  \/ \E i \in Instances : \E m \in requests[i] : ScheduleRequestFails(i, m)

Time ==
  \/ \E a \in Announcements : ReachScheduledTime(a)
  \/ \E m \in Member : RetryDelayPasses(m)


Scheduler(i) ==
  \/ Fetch(i)
  \/ RemoveFetched(i)
  \/ \E x \in inflight[i] : Send(i, x)
  \/ \E x \in inflight[i] : Mark(i, x)
  \/ \E x \in inflight[i] : MarkFails(i, x)
  \/ \E x \in inflight[i] : Retry(i, x)
  \/ \E x \in inflight[i] : RetryFails(i, x)

Restart(i) ==
  \/ Boot(i)
  \/ \E m \in todo[i] : Readd(i, m)
  \/ ReaddFails(i)
  \/ Start(i)

Next ==
  \/ Administrators
  \/ Time
  \/ \E i \in Instances : Scheduler(i) \/ Crash(i) \/ Restart(i)

Spec == Init /\ [][Next]_vars

\* Time passes, the cron job of a running instance runs every minute, a request
\* that has stored its row goes on, and a stopped instance is started again.
\* Nobody has to write, change or delete an announcement.
Fairness ==
  /\ WF_vars(Time)
  /\ WF_vars(\E i \in Instances : \E m \in requests[i] :
               ScheduleRequest(i, m) \/ ScheduleRequestFails(i, m))
  /\ \A i \in Instances : WF_vars(Scheduler(i)) /\ WF_vars(Restart(i))

FairSpec == Spec /\ Fairness

-----------------------------------------------------------------------------
TypeOK ==
  /\ row \in [Announcements -> Row]
  /\ zset \subseteq Member
  /\ reached \subseteq Announcements
  /\ ripe \subseteq Member
  /\ requests \in [Instances -> SUBSET Member]
  /\ direct \subseteq Announcements
  /\ mode \in [Instances -> {"up", "booting", "down"}]
  /\ todo \in [Instances -> SUBSET Member]
  /\ fetched \in [Instances -> SUBSET Member]
  /\ inflight \in [Instances -> SUBSET Job]
  /\ pushes \in [Announcements -> Nat]
  /\ gaveUp \subseteq Announcements
  /\ unscheduled \subseteq Announcements
  /\ contested \in [Announcements -> Nat]
  /\ faults \in [{"crash", "db", "add"} -> 0..MaxFaults]

\* The members that await their push somewhere: in Redis, or in the memory of
\* an instance on their way to Redis or to FCM.
Underway ==
  zset \cup UNION {requests[i] \cup todo[i] \cup fetched[i] \cup {x.m : x \in inflight[i]} :
                     i \in Instances}

AwaitsPush(a) ==
  /\ row[a].state = "live"
  /\ row[a].scheduled
  /\ ~row[a].sent

\* No scheduled push is lost without a trace: while an announcement awaits its
\* push, a member of it is on its way, or its retries ran out, or a ZADD of it
\* failed with an error, or an instance is down and will add it when it starts
\* (sendScheduledNotifications, its catch block, and onModuleInit).
NoSilentLoss ==
  \A a \in Announcements :
    AwaitsPush(a) =>
      \/ \E m \in Underway : m.ann = a
      \/ a \in gaveUp \cup unscheduled
      \/ \E i \in Instances : mode[i] = "down"

\* An announcement written in the quiet hours is not pushed before the morning,
\* whatever retries and restarts do to its member (create, getNextMorningNine).
QuietHoursRespected ==
  \A a \in Announcements :
    row[a].scheduled /\ pushes[a] > 0 => a \in reached

\* notificationSentAt is never set on an announcement no user was told about.
SentWasPushed ==
  \A a \in Announcements : row[a].sent => pushes[a] > 0

\* Users are told twice only for a reason: an instance restarted, the update
\* after a push failed, or two instances popped the same member.
DuplicatesExplained ==
  \A a \in Announcements :
    pushes[a] <= 1 + faults["crash"] + faults["db"] + contested[a]

\* "Not sent is better than sent twice", the policy of sendScheduledNotifications.
NeverPushedTwice ==
  \A a \in Announcements : pushes[a] <= 1

\* A scheduled push comes to an end: the announcement is marked sent or deleted,
\* or the push is given up, or a failed ZADD lost it.
PushSettles ==
  \A a \in Announcements :
    AwaitsPush(a) ~> ~AwaitsPush(a) \/ a \in gaveUp \cup unscheduled

=============================================================================
