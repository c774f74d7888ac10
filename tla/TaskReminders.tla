---------------------------- MODULE TaskReminders ----------------------------
(***************************************************************************)
(* Reminders of tasks: from the rows of a task to the push.                *)
(*                                                                         *)
(* A request that writes a task runs a transaction, reads the reminder rows *)
(* and emits an event; the listener of the event then, in the background,   *)
(* takes the members of replaced or deleted reminders out of the waiting    *)
(* room (ZSCAN, then ZREM) and adds members for the new ones (ZADD NX).     *)
(* A cron job moves the members that are due from the waiting room to the   *)
(* ready queue, atomically; workers pop the ready queue and push.           *)
(*                                                                         *)
(* Requests and workers interleave at every await, also requests on the     *)
(* same task.  A reminder is due at the time `at` of its task; offsets and  *)
(* texts are left out.                                                      *)
(***************************************************************************)
EXTENDS Naturals, Sequences, FiniteSets

CONSTANTS Tasks,
          Handlers,     \* requests and their listeners that may run at once
          Workers,      \* worker loops
          Horizon,      \* bound: the last time of the clock
          MaxReminders, \* bound: reminder rows ever created
          MaxRequests,  \* bound: requests ever made
          MaxCrashes    \* bound: crashes of the server

ASSUME ConstantsAssumption ==
  /\ Tasks # {}
  /\ Horizon \in Nat \ {0}
  /\ MaxReminders \in Nat
  /\ MaxRequests \in Nat
  /\ MaxCrashes \in Nat

Reminder == 1..MaxReminders
NoKey == 0        \* a notification a client scheduled has no _key
Time == 1..Horizon

\* What the waiting room and the ready queue hold.  Members are equal when their
\* JSON is: the same _key, task and time.
Member == [key : Reminder \cup {NoKey}, task : Tasks, at : Time]

VARIABLES
  now,       \* the clock
  task,      \* the tasks table
  reminders, \* the task_reminders table: reminder ids of each task
  lastId,    \* reminder rows created so far
  handler,   \* per handler: the request it serves and the await it is at
  waiting,   \* notification:waiting
  ready,     \* notification:ready, the next to be popped first
  worker,    \* per worker: the member it handles
  requests,  \* ghost: requests made so far
  crashes,   \* ghost: crashes so far
  disturbed, \* ghost: tasks with overlapping or interrupted requests
  settled,   \* ghost: reminders moved to the ready queue, or past when handled
  pushed     \* ghost: how often each reminder was pushed

dbVars    == <<task, reminders, lastId>>
queueVars == <<waiting, ready, worker>>
ghostVars == <<crashes, disturbed, settled, pushed>>
vars == <<now, task, reminders, lastId, handler, waiting, ready, worker,
          requests, crashes, disturbed, settled, pushed>>

TaskRow == [state : {"absent", "live", "deleted"}, done : BOOLEAN,
            at : Time, generated : BOOLEAN]

Handler == [pc : {"idle", "ids", "tx", "read", "scan", "remove", "clock", "add"},
            kind : {"none", "create", "update", "delete"},
            task : Tasks, at : Time,
            replace : BOOLEAN,          \* the request has a reminders field
            cancel : SUBSET Reminder,   \* canceledReminderIds of the event
            found : SUBSET Member,      \* members the ZSCAN collected
            add : SUBSET Reminder]      \* reminders of the event, not yet added

Idle == [pc |-> "idle", kind |-> "none", task |-> CHOOSE t \in Tasks : TRUE,
         at |-> 1, replace |-> FALSE, cancel |-> {}, found |-> {}, add |-> {}]

Free == [stage |-> "free"]
Handling == [stage : {"check", "send"}, m : Member, gone : BOOLEAN]

Init ==
  /\ now = 0
  /\ task = [t \in Tasks |-> [state |-> "absent", done |-> FALSE, at |-> 1,
                              generated |-> FALSE]]
  /\ reminders = [t \in Tasks |-> {}]
  /\ lastId = 0
  /\ handler = [h \in Handlers |-> Idle]
  /\ waiting = {}
  /\ ready = <<>>
  /\ worker = [w \in Workers |-> Free]
  /\ requests = 0 /\ crashes = 0
  /\ disturbed = {} /\ settled = {}
  /\ pushed = [r \in Reminder |-> 0]

-----------------------------------------------------------------------------
Open(t) == {h \in Handlers : handler[h].pc # "idle" /\ handler[h].task = t}

\* The request of handler h on task t starts; r is the request as h keeps it.
Begin(h, t, r) ==
  /\ handler[h].pc = "idle"
  /\ requests < MaxRequests
  /\ requests' = requests + 1
  /\ handler' = [handler EXCEPT ![h] = r]
  /\ disturbed' = IF Open(t) = {} THEN disturbed ELSE disturbed \cup {t}

\* Variant: the listener returns once it has cancelled something.
AfterCancelReturns(r) ==
  IF r.add = {} \/ r.cancel # {} THEN Idle ELSE [r EXCEPT !.pc = "clock", !.found = {}]

\* After the cancellation: schedule the reminders of the event, if it has any.
AfterCancel(r) == IF r.add = {} THEN Idle ELSE [r EXCEPT !.pc = "clock", !.found = {}]

AfterRead(r) == IF r.cancel = {} THEN AfterCancel(r) ELSE [r EXCEPT !.pc = "scan"]

\* A transaction gives task t n new reminders, instead of those it had.
NewReminders(t, n) ==
  /\ lastId + n <= MaxReminders
  /\ lastId' = lastId + n
  /\ reminders' = [reminders EXCEPT ![t] = lastId + 1 .. lastId + n]

\* createTask: one transaction stores the task and its reminders.
CreateTask(h, t, at, n) ==
  /\ task[t].state = "absent"
  /\ Begin(h, t, [Idle EXCEPT !.pc = "read", !.kind = "create", !.task = t, !.at = at])
  /\ task' = [task EXCEPT ![t] = [@ EXCEPT !.state = "live", !.at = at]]
  /\ NewReminders(t, n)
  /\ UNCHANGED <<now, queueVars, crashes, settled, pushed>>

\* generateRecurringTasks: the reminder rows of a template are copied to the new
\* task; nothing listens to recurring.tasks.generated, so nothing is queued.
GenerateTask(t, at, n) ==
  /\ task[t].state = "absent"
  /\ requests < MaxRequests
  /\ requests' = requests + 1
  /\ task' = [task EXCEPT ![t] = [@ EXCEPT !.state = "live", !.at = at,
                                           !.generated = TRUE]]
  /\ NewReminders(t, n)
  /\ UNCHANGED <<now, handler, queueVars, ghostVars>>

\* updateTask reads the task; with a reminders field it then reads the ids of
\* the reminders it is about to replace, before its transaction.
BeginUpdate(h, t, at, replace) ==
  /\ task[t].state = "live"
  /\ Begin(h, t, [Idle EXCEPT !.pc = IF replace THEN "ids" ELSE "tx",
                              !.kind = "update", !.task = t, !.at = at,
                              !.replace = replace])
  /\ UNCHANGED <<now, dbVars, queueVars, crashes, settled, pushed>>

ReadCanceled(h) ==
  LET r == handler[h] IN
  /\ r.pc = "ids" /\ r.kind = "update"
  /\ handler' = [handler EXCEPT ![h].pc = "tx", ![h].cancel = reminders[r.task]]
  /\ UNCHANGED <<now, dbVars, queueVars, requests, ghostVars>>

\* The transaction of updateTask does not look at deletedAt.  Without a
\* reminders field the event has no reminders, and a new time changes no member.
UpdateTx(h, n) ==
  LET r == handler[h] IN
  /\ r.pc = "tx" /\ r.kind = "update"
  /\ task' = [task EXCEPT ![r.task].at = r.at]
  /\ IF r.replace
     THEN /\ NewReminders(r.task, n)
          /\ handler' = [handler EXCEPT ![h].pc = "read"]
     ELSE /\ handler' = [handler EXCEPT ![h] = Idle]
          /\ UNCHANGED <<reminders, lastId>>
  /\ UNCHANGED <<now, queueVars, requests, ghostVars>>

\* The reminders of the event are read after the transaction.
ReadReminders(h) ==
  LET r == handler[h] IN
  /\ r.pc = "read"
  /\ handler' = [handler EXCEPT ![h] = AfterRead([r EXCEPT !.add = reminders[r.task]])]
  /\ UNCHANGED <<now, dbVars, queueVars, requests, ghostVars>>

BeginDelete(h, t) ==
  /\ task[t].state = "live"
  /\ Begin(h, t, [Idle EXCEPT !.pc = "tx", !.kind = "delete", !.task = t])
  /\ UNCHANGED <<now, dbVars, queueVars, crashes, settled, pushed>>

\* Variant: the event task.deleted is not emitted.
DeleteTxSilently(h) ==
  LET r == handler[h] IN
  /\ r.pc = "tx" /\ r.kind = "delete"
  /\ task' = [task EXCEPT ![r.task].state = "deleted"]
  /\ handler' = [handler EXCEPT ![h] = Idle]
  /\ UNCHANGED <<now, reminders, lastId, queueVars, requests, ghostVars>>

DeleteTx(h) ==
  LET r == handler[h] IN
  /\ r.pc = "tx" /\ r.kind = "delete"
  /\ task' = [task EXCEPT ![r.task].state = "deleted"]
  /\ handler' = [handler EXCEPT ![h].pc = "ids"]
  /\ UNCHANGED <<now, reminders, lastId, queueVars, requests, ghostVars>>

ReadDeleted(h) ==
  LET r == handler[h] IN
  /\ r.pc = "ids" /\ r.kind = "delete"
  /\ handler' = [handler EXCEPT ![h] = AfterRead([r EXCEPT !.cancel = reminders[r.task]])]
  /\ UNCHANGED <<now, dbVars, queueVars, requests, ghostVars>>

\* updateStatus(COMPLETED): no member is taken out.
Complete(t) ==
  /\ task[t].state = "live" /\ ~task[t].done
  /\ task' = [task EXCEPT ![t].done = TRUE]
  /\ UNCHANGED <<now, reminders, lastId, handler, queueVars, requests, ghostVars>>

\* Variant: a notification without a time goes to the waiting room too.
ClientScheduleNow(t, at) ==
  /\ task[t].state = "live"
  /\ requests < MaxRequests
  /\ requests' = requests + 1
  /\ waiting' = waiting \cup {[key |-> NoKey, task |-> t, at |-> now]}
  /\ UNCHANGED <<now, dbVars, handler, ready, worker, ghostVars>>

\* POST /notifications/schedule: a client's own notification, with the task in
\* its data.taskId.
ClientSchedule(t, at) ==
  /\ task[t].state = "live"
  /\ requests < MaxRequests
  /\ requests' = requests + 1
  /\ waiting' = waiting \cup {[key |-> NoKey, task |-> t, at |-> at]}
  /\ UNCHANGED <<now, dbVars, handler, ready, worker, ghostVars>>

-----------------------------------------------------------------------------
(* The listener: removeRemindersFromWaitingRoom, then scheduleReminders.   *)

ScanWaiting(h) ==
  LET r == handler[h]
      found == {m \in waiting : m.key \in r.cancel}
  IN
  /\ r.pc = "scan"
  /\ handler' = [handler EXCEPT ![h] = IF found = {} THEN AfterCancel(r)
                                       ELSE [r EXCEPT !.pc = "remove", !.found = found]]
  /\ UNCHANGED <<now, dbVars, queueVars, requests, ghostVars>>

RemoveFound(h) ==
  LET r == handler[h] IN
  /\ r.pc = "remove"
  /\ waiting' = waiting \ r.found
  /\ handler' = [handler EXCEPT ![h] = AfterCancel(r)]
  /\ UNCHANGED <<now, dbVars, ready, worker, requests, ghostVars>>

\* The clock is read before the language of the user; a time that has come is
\* not queued.
ReadClock(h) ==
  LET r == handler[h] IN
  /\ r.pc = "clock"
  /\ IF r.at <= now
     THEN /\ handler' = [handler EXCEPT ![h] = Idle]
          /\ settled' = settled \cup r.add
     ELSE /\ handler' = [handler EXCEPT ![h].pc = "add"]
          /\ UNCHANGED settled
  /\ UNCHANGED <<now, dbVars, queueVars, requests, crashes, disturbed, pushed>>

AddReminder(h, k) ==
  LET r == handler[h] IN
  /\ r.pc = "add" /\ k \in r.add
  /\ waiting' = waiting \cup {[key |-> k, task |-> r.task, at |-> r.at]}
  /\ handler' = [handler EXCEPT ![h] = IF r.add = {k} THEN Idle
                                       ELSE [r EXCEPT !.add = @ \ {k}]]
  /\ UNCHANGED <<now, dbVars, ready, worker, requests, ghostVars>>

-----------------------------------------------------------------------------
(* The clock, the cron job and the workers.                                *)

Tick ==
  /\ now < Horizon
  /\ now' = now + 1
  /\ UNCHANGED <<dbVars, handler, queueVars, requests, ghostVars>>

DueMembers == {m \in waiting : m.at <= now}

\* Variant: the script does not remove what it moved.
MoveWithoutRemoval ==
  /\ DueMembers # {}
  /\ \E s \in [1..Cardinality(DueMembers) -> DueMembers] :
       /\ \A i, j \in DOMAIN s : i < j => s[i] # s[j] /\ s[i].at <= s[j].at
       /\ ready' = ready \o s
  /\ settled' = settled \cup ({m.key : m \in DueMembers} \ {NoKey})
  /\ UNCHANGED <<now, dbVars, handler, waiting, worker, requests, crashes,
                 disturbed, pushed>>

\* moveReadyNotificationsFromWaiting: one Lua script.  ZRANGEBYSCORE gives the
\* members in the order of their times.
MoveReady ==
  /\ DueMembers # {}
  /\ \E s \in [1..Cardinality(DueMembers) -> DueMembers] :
       /\ \A i, j \in DOMAIN s : i < j => s[i] # s[j] /\ s[i].at <= s[j].at
       /\ ready' = ready \o s
  /\ waiting' = waiting \ DueMembers
  /\ settled' = settled \cup ({m.key : m \in DueMembers} \ {NoKey})
  /\ UNCHANGED <<now, dbVars, handler, worker, requests, crashes, disturbed, pushed>>

\* Variant: the worker reads the last element and leaves it in the list.
PopPeeks(w) ==
  /\ worker[w].stage = "free"
  /\ ready # <<>>
  /\ worker' = [worker EXCEPT ![w] =
                  [stage |-> "check", m |-> Head(ready), gone |-> FALSE]]
  /\ UNCHANGED <<now, dbVars, handler, waiting, ready, requests, ghostVars>>

\* BRPOP: the member is gone from Redis while the worker handles it.
Pop(w) ==
  /\ worker[w].stage = "free"
  /\ ready # <<>>
  /\ worker' = [worker EXCEPT ![w] =
                  [stage |-> "check", m |-> Head(ready), gone |-> FALSE]]
  /\ ready' = Tail(ready)
  /\ UNCHANGED <<now, dbVars, handler, waiting, requests, ghostVars>>

\* Deleted or completed: what the comment of sendNotification speaks of.
Gone(t) == task[t].state = "deleted" \/ task[t].done

\* sendNotification looks at the task when the data has a taskId, which the
\* data of a task's reminder has not.  `gone` only records what was there to see.
CheckTask(w) ==
  LET m == worker[w].m IN
  /\ worker[w].stage = "check"
  /\ worker' = [worker EXCEPT ![w] =
                  IF m.key = NoKey /\ task[m.task].state = "deleted" THEN Free
                  ELSE [@ EXCEPT !.stage = "send", !.gone = Gone(m.task)]]
  /\ UNCHANGED <<now, dbVars, handler, waiting, ready, requests, ghostVars>>

\* The rest of sendNotification: pushed, or not (the category is off, there is
\* no token, a call fails); the error is caught and the member is not put back.
Deliver(w) ==
  LET m == worker[w].m IN
  /\ worker[w].stage = "send"
  /\ worker' = [worker EXCEPT ![w] = Free]
  /\ \/ pushed' = [r \in Reminder |-> pushed[r] + IF r = m.key THEN 1 ELSE 0]
     \/ UNCHANGED pushed
  /\ UNCHANGED <<now, dbVars, handler, waiting, ready, requests, crashes,
                 disturbed, settled>>

\* The server stops in the middle of its work and is started again.
Crash ==
  /\ crashes < MaxCrashes
  /\ crashes' = crashes + 1
  /\ disturbed' = disturbed \cup {t \in Tasks : Open(t) # {}}
  /\ handler' = [h \in Handlers |-> Idle]
  /\ worker' = [w \in Workers |-> Free]
  /\ UNCHANGED <<now, dbVars, waiting, ready, requests, settled, pushed>>

-----------------------------------------------------------------------------
Request(h) ==
  \/ \E t \in Tasks, at \in Time, n \in 0..1 : CreateTask(h, t, at, n)
  \/ \E t \in Tasks, at \in Time, replace \in BOOLEAN : BeginUpdate(h, t, at, replace)
  \/ \E t \in Tasks : BeginDelete(h, t)

\* The awaits of a request and of its listener.
Continue(h) ==
  \/ ReadCanceled(h)
  \/ \E n \in 0..1 : UpdateTx(h, n)
  \/ DeleteTx(h)
  \/ ReadReminders(h)
  \/ ReadDeleted(h)
  \/ ScanWaiting(h)
  \/ RemoveFound(h)
  \/ ReadClock(h)
  \/ \E k \in Reminder : AddReminder(h, k)

WorkerStep(w) == Pop(w) \/ CheckTask(w) \/ Deliver(w)

Next ==
  \/ \E h \in Handlers : Request(h) \/ Continue(h)
  \/ \E t \in Tasks, at \in Time, n \in 0..1 : GenerateTask(t, at, n)
  \/ \E t \in Tasks : Complete(t)
  \/ \E t \in Tasks, at \in Time : ClientSchedule(t, at)
  \/ Tick
  \/ MoveReady
  \/ \E w \in Workers : WorkerStep(w)
  \/ Crash

Spec == Init /\ [][Next]_vars

\* Time passes, the cron job runs, and each worker loop goes on.
Fairness ==
  /\ WF_vars(Tick)
  /\ WF_vars(MoveReady)
  /\ \A w \in Workers : WF_vars(WorkerStep(w))

FairSpec == Spec /\ Fairness

-----------------------------------------------------------------------------
TypeOK ==
  /\ now \in 0..Horizon
  /\ task \in [Tasks -> TaskRow]
  /\ reminders \in [Tasks -> SUBSET Reminder]
  /\ lastId \in 0..MaxReminders
  /\ handler \in [Handlers -> Handler]
  /\ waiting \subseteq Member
  /\ ready \in Seq(Member)
  /\ worker \in [Workers -> Handling \cup {Free}]
  /\ requests \in 0..MaxRequests /\ crashes \in 0..MaxCrashes
  /\ disturbed \subseteq Tasks /\ settled \subseteq Reminder
  /\ pushed \in [Reminder -> Nat]

\* No request or listener is at work on t, and none ever overlapped another or
\* was cut off.
Quiet(t) == Open(t) = {} /\ t \notin disturbed

\* Once the listener is done, only reminders a live task still has are waiting
\* for it (handleTaskUpdated, handleTaskDeleted).
WaitingMatchesRows ==
  \A t \in Tasks :
    Quiet(t) =>
      \A m \in waiting :
        m.task = t /\ m.key # NoKey =>
          task[t].state = "live" /\ m.key \in reminders[t]

\* Once the listener is done, every reminder of a live task that was not
\* generated is waiting, or its time has come (scheduleReminders): replacing
\* reminders does not take the new ones out.
RemindersAreWaiting ==
  \A t \in Tasks :
    Quiet(t) /\ task[t].state = "live" /\ ~task[t].generated =>
      \A k \in reminders[t] : k \in settled \/ \E m \in waiting : m.key = k

\* A reminder is pushed at most once (the Lua script, BRPOP).
PushedOnce ==
  \A t \in Tasks, k \in Reminder :
    k \in reminders[t] /\ t \notin disturbed => pushed[k] <= 1

\* What is waiting is moved, popped and done with.
WaitingIsHandled ==
  \A k \in Reminder :
    (\E m \in waiting : m.key = k) ~>
      /\ ~\E m \in waiting : m.key = k
      /\ ~\E i \in DOMAIN ready : ready[i].key = k

\* "A task reminder is skipped when the task was deleted or completed": the
\* comment of sendNotification.
StaleReminderSkipped ==
  \A w \in Workers :
    worker[w].stage = "send" /\ worker[w].m.key # NoKey => ~worker[w].gone

=============================================================================
