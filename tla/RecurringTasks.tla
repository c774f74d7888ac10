---------------------------- MODULE RecurringTasks ----------------------------
(***************************************************************************)
(* A recurring task and the tasks that are generated of it: when it is         *)
(* created, every day by a job under a lock, or when one of them is completed.  *)
(*                                                                         *)
(* The job counts from the day on which it runs, and leaves out the days that     *)
(* have a task.  A task that was deleted or moved leaves its day free.             *)
(***************************************************************************)
EXTENDS RecurringDates

CONSTANTS
  Rules,        \* those that may be created: of RecurringDates, with generation, ahead,
                \* count and end (each NoDate where the rule has none)
  Handlers, Servers,  \* requests at once; servers, each with the job
  None,         \* no rule, no request, no run, no lock
  MaxDays,      \* bound: days
  MaxRequests   \* bound: requests after the creation, per generation

VARIABLES
  today,
  rule,      \* the row: a rule with active and generated, or None
  tasks,     \* the tasks that are not deleted, per date
  skips,     \* TaskSkip: dates
  lock,      \* the server that has the lock of the job, or None
  fired,     \* the servers whose job has fired today
  run,       \* per request or server, the generation [stage, dates, generated], or None
  requests,
  started,   \* ghost: the day of the creation
  freed,     \* ghost: the dates from which a user removed a task
  complete,  \* ghost: the last day of which a generation went through, or 0
  crossed    \* ghost: two generations overlapped, not both of a job, or a run outlived its lock

vars == <<today, rule, tasks, skips, lock, fired, run, requests, started, freed, complete,
          crossed>>

Dates == 1..LastDay(Len(MonthStarts) - 1) \* bound: the calendar
Workers == Handlers \cup Servers
Auto == rule.generation = "AUTO_SCHEDULER"

Init ==
  /\ today = 1 /\ rule = None /\ tasks = [d \in Dates |-> 0] /\ skips = {}
  /\ lock = None /\ fired = {} /\ run = [w \in Workers |-> None] /\ requests = 0
  /\ started = 0 /\ freed = {} /\ complete = 0 /\ crossed = FALSE

\* The row of a rule.
Stored(r, active, generated) ==
  [column \in DOMAIN r \cup {"active", "generated"} |->
     CASE column = "active"    -> active
       [] column = "generated" -> generated
       [] OTHER                -> r[column]]

NewRequest == requests < MaxRequests[rule.generation] /\ requests' = requests + 1
Taken == {d \in Dates : tasks[d] > 0}
Overlaps(w) ==
  \E o \in Workers : {o, w} \cap Handlers # {} /\ run[o] # None /\ run[o].stage = "write"
Finish(w) == run' = [run EXCEPT ![w] = None]

\* createTask: the rule with its first task; the generation follows.
CreateTask(h) ==
  /\ rule = None
  /\ \E r \in Rules, first \in today..today + 1 :
       /\ rule' = Stored(r, TRUE, 0)
       /\ tasks' = [tasks EXCEPT ![first] = 1]
       /\ run' = [run EXCEPT ![h] = IF r.generation = "AUTO_SCHEDULER" THEN [stage |-> "read"]
                                                                     ELSE None]
  /\ started' = today
  /\ UNCHANGED <<today, skips, lock, fired, requests, freed, complete, crossed>>

\* resolveMonthsAhead.
EndOf(from) ==
  MonthsLater(from, CASE rule.type = "YEARLY"  -> rule.interval * MonthsPerYear + 1
                      [] rule.type = "MONTHLY" -> rule.interval * rule.ahead
                      [] OTHER                 -> rule.ahead)

\* The rule is over: as many tasks as it may have, or its end is past (in the morning of
\* the day itself it may be or not).
UsedUp == rule.count # NoDate /\ rule.generated >= rule.count
Ended == rule.end # NoDate /\ rule.end <= today
Remaining == IF rule.count = NoDate THEN Cardinality(Dates) ELSE rule.count - rule.generated

\* generateRecurringTasks up to the transaction.
Generate(w) ==
  /\ run[w] # None /\ run[w].stage = "read"
  /\ IF rule.active /\ ~UsedUp /\ Taken # {}
       THEN \/ /\ Ended
               /\ rule' = [rule EXCEPT !.active = FALSE] /\ Finish(w)
            \/ /\ ~Ended \/ rule.end = today
               /\ LET to == IF rule.end = NoDate THEN EndOf(today) ELSE Min({EndOf(today), rule.end})
                  IN run' = [run EXCEPT ![w] = [stage |-> "write", day |-> today,
                       dates |-> Dates \cap
                         CalculateNextDates(rule, today, to, Remaining, Taken, skips),
                       generated |-> rule.generated]]
               /\ UNCHANGED rule
       ELSE /\ rule' = IF UsedUp THEN [rule EXCEPT !.active = FALSE] ELSE rule
            /\ Finish(w)
  /\ crossed' = (crossed \/ Overlaps(w))
  /\ UNCHANGED <<today, tasks, skips, lock, fired, requests, started, freed, complete>>

\* Its transaction; the rule is written as it was read, with the new count.
Insert(w) ==
  /\ run[w] # None /\ run[w].stage = "write"
  /\ LET r == run[w] IN
       /\ tasks' = [d \in Dates |-> tasks[d] + IF d \in r.dates THEN 1 ELSE 0]
       /\ rule' = IF r.dates = {} THEN rule
                  ELSE [rule EXCEPT !.generated = r.generated + Cardinality(r.dates)]
       /\ complete' = IF Auto THEN r.day ELSE complete
  /\ Finish(w)
  /\ UNCHANGED <<today, skips, lock, fired, requests, started, freed, crossed>>

\* The transaction fails or the process ends: the task, or the job, is not tried again that day.
InsertFails(w) ==
  /\ run[w] # None /\ run[w].stage = "write" /\ Finish(w)
  /\ UNCHANGED <<today, rule, tasks, skips, lock, fired, requests, started, freed, complete,
                 crossed>>

\* The job of a server, where the lock is free; who has not logged in for 30 days is left out.
Fire(s) ==
  /\ rule # None /\ Auto /\ rule.active /\ s \notin fired
  /\ fired' = fired \cup {s}
  /\ IF lock = None
       THEN lock' = s /\ run' = [run EXCEPT ![s] = [stage |-> "read"]]
       ELSE UNCHANGED <<lock, run>>
  /\ UNCHANGED <<today, rule, tasks, skips, requests, started, freed, complete, crossed>>

Release(s) ==
  /\ lock = s /\ run[s] = None /\ lock' = None
  /\ UNCHANGED <<today, rule, tasks, skips, fired, run, requests, started, freed, complete, crossed>>

\* A run takes longer than its lock.
LockExpires ==
  /\ lock # None /\ run[lock] # None /\ lock' = None /\ crossed' = TRUE
  /\ UNCHANGED <<today, rule, tasks, skips, fired, run, requests, started, freed, complete>>

-----------------------------------------------------------------------------
PauseRecurring ==
  /\ rule # None /\ NewRequest
  /\ rule' = [rule EXCEPT !.active = ~@]
  /\ UNCHANGED <<today, tasks, skips, lock, fired, run, started, freed, complete, crossed>>

SkipRecurring(d) ==
  /\ rule # None /\ d > today /\ d \notin skips /\ NewRequest
  /\ skips' = skips \cup {d}
  /\ UNCHANGED <<today, rule, tasks, lock, fired, run, started, freed, complete, crossed>>

\* deleteTask of one task, of this and those after it, or of all.
DeleteTask(d, scope) ==
  /\ rule # None /\ NewRequest
  /\ LET gone == CASE scope = "current" -> {d}
                   [] scope = "future"  -> {e \in Taken : e >= d}
                   [] scope = "all"     -> Taken
     IN /\ tasks' = [e \in Dates |-> IF e \notin gone THEN tasks[e]
                                     ELSE IF scope = "current" THEN tasks[e] - 1 ELSE 0]
        /\ freed' = freed \cup gone
  /\ UNCHANGED <<today, rule, skips, lock, fired, run, started, complete, crossed>>

\* updateStatus to COMPLETED: of a rule that makes its tasks one by one, what comes next.
CompleteTask(h, d) ==
  /\ rule # None /\ run[h] = None /\ NewRequest
  /\ IF Auto \/ ~rule.active THEN UNCHANGED <<rule, run>>
     ELSE IF UsedUp \/ Ended
       THEN rule' = [rule EXCEPT !.active = FALSE] /\ UNCHANGED run
       ELSE LET next == CalculateNextSingleDate(rule, today) IN
            /\ run' = IF rule.end # NoDate /\ next > rule.end THEN run
                      ELSE [run EXCEPT ![h] = [stage |-> "write", day |-> today,
                             dates |-> Dates \cap {next}, generated |-> rule.generated]]
            /\ UNCHANGED rule
  /\ crossed' = (crossed \/ Overlaps(h))
  /\ UNCHANGED <<today, tasks, skips, lock, fired, started, freed, complete>>

NextDay ==
  /\ today < MaxDays /\ \A w \in Workers : run[w] = None
  /\ today' = today + 1 /\ fired' = {}
  /\ UNCHANGED <<rule, tasks, skips, lock, run, requests, started, freed, complete, crossed>>

Next ==
  \/ \E h \in Handlers : CreateTask(h)
  \/ \E w \in Workers : Generate(w) \/ Insert(w) \/ InsertFails(w)
  \/ \E s \in Servers : Fire(s) \/ Release(s)
  \/ LockExpires \/ PauseRecurring \/ NextDay
  \/ \E d \in Dates : SkipRecurring(d)
  \/ \E d \in Taken : \/ \E h \in Handlers : CompleteTask(h, d)
                      \/ \E scope \in {"current", "future", "all"} : DeleteTask(d, scope)

Spec == Init /\ [][Next]_vars

-----------------------------------------------------------------------------
Run ==
  [stage : {"read"}]
  \cup [stage : {"write"}, day : 1..MaxDays, dates : SUBSET Dates, generated : Nat]

ConstantsAssumption ==
  /\ None \notin Run
  /\ MonthStarts \in Seq(Nat) /\ Len(MonthStarts) > 1
  /\ MaxDays \in Nat \ {0}

TypeOK ==
  /\ today \in 1..MaxDays
  /\ rule # None => started # 0
  /\ started # 0 =>
       /\ rule.active \in BOOLEAN /\ rule.generated \in Nat
       /\ \E r \in Rules : rule = Stored(r, rule.active, rule.generated)
  /\ tasks \in [Dates -> Nat] /\ skips \subseteq Dates
  /\ lock \in Servers \cup {None} /\ fired \subseteq Servers
  /\ run \in [Workers -> {None} \cup Run]
  /\ requests \in Nat
  /\ started \in 0..MaxDays /\ freed \subseteq Dates /\ complete \in 0..MaxDays
  /\ crossed \in BOOLEAN

\* The generated tasks are those of the rule (generateRecurringTasks, calculateNextDates,
\* generateNextTaskAfterCompletion): one a day, each on a day on which the rule falls
\* counted from some day of a run, no more than the rule may have; and after a run every day
\* on which the rule falls, counted from that day, has its task, but for skipped days, those
\* cut off by the end or the number of times, and those a user removed.  Completions, creation
\* and job at once, or a run longer than its lock, may break all but the second.
GeneratedAsRuled ==
  rule # None =>
    /\ ~crossed /\ Auto => \A d \in Dates : tasks[d] <= 1
    /\ Auto => \E first \in started..started + 1 : \A d \in Taken \ {first} :
         \E from \in started..today : Meant(rule, from, d)
    /\ ~crossed /\ rule.count # NoDate => rule.generated <= rule.count
    /\ complete # 0 /\ rule.count = NoDate /\ rule.end = NoDate /\ ~crossed =>
         \A d \in complete..EndOf(complete) :
           Falls(rule, complete, d) /\ ~NeedsSkip(rule, d) => d \in Taken \cup skips \cup freed

=============================================================================
