---------------------------- MODULE Anniversaries ----------------------------
(***************************************************************************)
(* An anniversary of a group and the tasks that are linked to it by an offset: *)
(* milestones, generated for two years ahead when it is created, when its        *)
(* configuration is changed and by a daily job under a lock, and tasks that      *)
(* users have linked to it.                                                  *)
(*                                                                         *)
(* Changing the date moves the linked tasks in the transaction that stores it;   *)
(* generating is done after it, in statements of its own.  A task is a record    *)
(* [offset, at, made]; tasks alike but of one id are told apart by copy.         *)
(***************************************************************************)
EXTENDS Integers, FiniteSets, FiniteSetsExt

CONSTANTS
  Creations,       \* create requests: [date, config], the milestoneConfig a subset of
                   \* {"every100Days", "everyYear"}, or None
  Changes,         \* update requests: the same, a field perhaps None
  Linked,          \* offsets users give to tasks
  Hundred, Year,   \* days
  Ahead,           \* days for which milestones are generated (two years)
  Handlers, Servers,
  None,            \* no row, no configuration, no request, no lock; a field left out
  MaxDays, MaxRequests \* bounds: days, requests

VARIABLES
  today,
  row,      \* the anniversary [date, config], or None
  tasks,    \* the live tasks linked to it
  request,  \* per handler and server, what it has read
  lock,     \* the server that has the lock of the job, or None
  fired,    \* servers whose job has fired today
  requests, \* counts the requests
  stale,    \* ghost: tasks were dated by a date that was the anniversary's no more
  crossed,  \* ghost: milestones were generated for a row, or beside tasks, that had changed
  freed,    \* ghost: offsets of tasks that users removed
  through,  \* ghost: day of the last generation, or 0 if the row changed or tasks were deleted after it
  since     \* ghost: day of the last configuration, 0 if the date has changed after it

ghosts == <<stale, crossed, freed, through, since>>
vars == <<today, row, tasks, request, lock, fired, requests, ghosts>>

Workers == Handlers \cup Servers
Exists == row # None

Init ==
  /\ today = 1 /\ row = None /\ tasks = {} /\ request = [w \in Workers |-> None]
  /\ lock = None /\ fired = {} /\ requests = 0
  /\ stale = FALSE /\ crossed = FALSE /\ freed = {} /\ through = 0 /\ since = 0

-----------------------------------------------------------------------------
CalcScheduledAt(date, offset) ==
  date + (offset[2] * (IF offset[1] = "YEARS" THEN Year ELSE 1))

\* buildMilestoneSpecs, from the anniversary to two years from today.
Specs(date, config) ==
  LET far == today + Ahead
      of(kind, type, step) ==
        {<<type, step * n>> : n \in {m \in 1..far : kind \in config}}
      days  == IF config = None THEN {} ELSE of("every100Days", "DAYS", Hundred)
      years == IF config = None THEN {} ELSE of("everyYear", "YEARS", 1)
  IN {o \in {<<"DAYS", 0>>} \cup days \cup years : CalcScheduledAt(date, o) <= far}

Offsets(S) == {t.offset : t \in S}

\* S with one more task for each of the offsets.
WithTasks(S, offsets, date, made) ==
  S \cup {[offset |-> o, at |-> CalcScheduledAt(date, o), made |-> made,
           copy |-> Cardinality({t \in S : t.offset = o /\ t.made = made})] : o \in offsets}

\* Variant: only what is still to come is moved.
RecalculatedLater(date) ==
  {IF t.at < today THEN t ELSE [t EXCEPT !.at = CalcScheduledAt(date, t.offset)] : t \in tasks}

\* recalculateLinkedTasks.
Recalculated(date) == {[t EXCEPT !.at = CalcScheduledAt(date, t.offset)] : t \in tasks}

-----------------------------------------------------------------------------
Begin(h, r) ==
  /\ request[h] = None /\ requests < MaxRequests
  /\ requests' = requests + 1 /\ request' = [request EXCEPT ![h] = r]
At(w, stage) == request[w] # None /\ request[w].stage = stage
Done(w) == request' = [request EXCEPT ![w] = None]

\* A generation for a row as someone has it.
Generation(stage, date, config) == [stage |-> stage, date |-> date, config |-> config, todo |-> {}]

\* createAnniversary: the row; its milestones follow.
Create(h, new) ==
  /\ requests = 0
  /\ Begin(h, Generation("look", new.date, new.config))
  /\ row' = new
  /\ since' = today
  /\ UNCHANGED <<today, tasks, lock, fired, stale, crossed, freed, through>>

\* generateMilestoneTasks: the milestones that have no task ...
Look(w) ==
  /\ At(w, "look")
  /\ LET r == request[w] IN
       request' = [request EXCEPT ![w] =
         [stage |-> "insert", date |-> r.date, config |-> r.config, day |-> today,
          todo |-> Specs(r.date, r.config) \ Offsets(tasks), found |-> Offsets(tasks)]]
  /\ UNCHANGED <<today, row, tasks, lock, fired, requests, ghosts>>

\* ... get one, if the anniversary is still there.
Insert(w) ==
  /\ At(w, "insert")
  /\ LET r == request[w] IN
       IF Exists
         THEN /\ tasks' = WithTasks(tasks, r.todo, r.date, TRUE)
              /\ stale' = (stale \/ (r.todo # {} /\ r.date # row.date))
              /\ crossed' = (crossed \/ r.date # row.date \/ r.config # row.config
                                     \/ r.found # Offsets(tasks))
              /\ through' = r.day
         ELSE UNCHANGED <<tasks, stale, crossed, through>>
  /\ Done(w)
  /\ UNCHANGED <<today, row, lock, fired, requests, freed, since>>

InsertFails(w) ==
  /\ At(w, "insert") /\ Done(w)
  /\ UNCHANGED <<today, row, tasks, lock, fired, requests, ghosts>>

\* updateAnniversary: it is read, stored with the dates of its tasks, ...
UpdateRead(h, change) ==
  /\ Exists
  /\ Begin(h, [stage |-> "update", date |-> change.date, config |-> change.config,
               was |-> row.date])
  /\ UNCHANGED <<today, row, tasks, lock, fired, ghosts>>

UpdateWrite(h) ==
  /\ At(h, "update")
  /\ LET r    == request[h]
         date == IF r.date = None THEN r.was ELSE r.date
     IN IF ~Exists THEN Done(h) /\ UNCHANGED <<row, tasks, through, since>>
        ELSE /\ row' = [date   |-> IF r.date = None THEN row.date ELSE r.date,
                        config |-> IF r.config = None THEN row.config ELSE r.config]
             /\ tasks' = IF r.date = None THEN tasks ELSE Recalculated(r.date)
             /\ request' = [request EXCEPT ![h] =
                  IF r.config = None THEN None ELSE Generation("clear", date, r.config)]
             /\ through' = 0
             /\ since' = IF r.config # None THEN today ELSE IF r.date # None THEN 0 ELSE since
  /\ UNCHANGED <<today, lock, fired, requests, stale, crossed, freed>>

\* Variant: nothing is deleted.
ClearNothing(h) ==
  /\ At(h, "clear")
  /\ request' = [request EXCEPT ![h].stage = "look"]
  /\ UNCHANGED <<today, row, tasks, lock, fired, requests, ghosts>>

\* ... and, if the configuration was given, the tasks from today on are deleted and the
\* milestones generated.  Tasks that users linked are deleted with the others.
Clear(h) ==
  /\ At(h, "clear")
  /\ tasks' = {t \in tasks : t.at < today}
  /\ freed' = freed \cup Offsets({t \in tasks : t.at >= today /\ ~t.made})
  /\ request' = [request EXCEPT ![h].stage = "look"]
  /\ through' = 0
  /\ UNCHANGED <<today, row, lock, fired, requests, stale, crossed, since>>

\* deleteAnniversary: its tasks go with the row (the foreign key), or are detached before;
\* either way none is linked to it any more.
Delete(h, keep) ==
  /\ Exists
  /\ Begin(h, [stage |-> IF keep THEN "detach" ELSE "delete"])
  /\ UNCHANGED <<today, row, tasks, lock, fired, ghosts>>

Detach(h) ==
  /\ At(h, "detach")
  /\ tasks' = {} /\ freed' = freed \cup Offsets(tasks)
  /\ request' = [request EXCEPT ![h].stage = "delete"]
  /\ UNCHANGED <<today, row, lock, fired, requests, stale, crossed, through, since>>

DeleteRow(h) ==
  /\ At(h, "delete")
  /\ row' = None /\ tasks' = {}
  /\ Done(h)
  /\ UNCHANGED <<today, lock, fired, requests, ghosts>>

-----------------------------------------------------------------------------
\* createTask or updateTask with an offset: resolveScheduledAt, and the write of the task.
Link(h, offset) ==
  /\ Exists
  /\ Begin(h, [stage |-> "link", offset |-> offset, date |-> row.date])
  /\ UNCHANGED <<today, row, tasks, lock, fired, ghosts>>

LinkWrite(h) ==
  /\ At(h, "link")
  /\ LET r == request[h] IN
       IF Exists
         THEN /\ tasks' = WithTasks(tasks, {r.offset}, r.date, FALSE)
              /\ stale' = (stale \/ r.date # row.date)
         ELSE UNCHANGED <<tasks, stale>>
  /\ Done(h)
  /\ UNCHANGED <<today, row, lock, fired, requests, crossed, freed, through, since>>

\* A user deletes a task or takes its link away (deleteTask, updateTask).
Unlink(t) ==
  /\ requests < MaxRequests /\ requests' = requests + 1
  /\ \A u \in tasks : u.offset = t.offset /\ u.made = t.made => u.copy <= t.copy
  /\ tasks' = tasks \ {t} /\ freed' = freed \cup {t.offset}
  /\ UNCHANGED <<today, row, request, lock, fired, stale, crossed, through, since>>

-----------------------------------------------------------------------------
\* TaskSchedulerService.extendMilestoneTasks: the lock, and the anniversaries with milestones.
Fire(s) ==
  /\ s \notin fired /\ Exists /\ row.config # None
  /\ fired' = fired \cup {s}
  /\ IF lock = None
       THEN lock' = s /\ request' = [request EXCEPT ![s] = [stage |-> "extend"]]
       ELSE UNCHANGED <<lock, request>>
  /\ UNCHANGED <<today, row, tasks, requests, ghosts>>

\* AnniversaryService.extendMilestoneTasks.
Extend(s) ==
  /\ At(s, "extend")
  /\ request' = [request EXCEPT ![s] =
       IF Exists THEN Generation("look", row.date, row.config) ELSE None]
  /\ UNCHANGED <<today, row, tasks, lock, fired, requests, ghosts>>

Release(s) ==
  /\ lock = s /\ request[s] = None /\ lock' = None
  /\ UNCHANGED <<today, row, tasks, request, fired, requests, ghosts>>

NextDay ==
  /\ today < MaxDays /\ \A w \in Workers : request[w] = None
  /\ today' = today + 1 /\ fired' = {}
  /\ UNCHANGED <<row, tasks, request, lock, requests, ghosts>>

Next ==
  \/ \E h \in Handlers :
       \/ \E new \in Creations : Create(h, new)
       \/ \E change \in Changes : UpdateRead(h, change)
       \/ \E keep \in BOOLEAN : Delete(h, keep)
       \/ \E offset \in Linked : Link(h, offset)
       \/ UpdateWrite(h) \/ Clear(h) \/ Detach(h) \/ DeleteRow(h) \/ LinkWrite(h)
  \/ \E w \in Workers : Look(w) \/ Insert(w) \/ InsertFails(w)
  \/ \E s \in Servers : Fire(s) \/ Extend(s) \/ Release(s)
  \/ \E t \in tasks : Unlink(t)
  \/ NextDay

Spec == Init /\ [][Next]_vars

-----------------------------------------------------------------------------
Configurations == {None} \cup SUBSET {"every100Days", "everyYear"}
Offset == {"DAYS", "YEARS"} \X Int
Row == [date : Int, config : Configurations]
Task == [offset : Offset, at : Int, made : BOOLEAN, copy : Nat]

Request ==
  [stage : {"look", "clear"}, date : Int, config : Configurations, todo : {{}}]
  \cup [stage : {"insert"}, date : Int, config : Configurations, day : 1..MaxDays,
        todo : SUBSET Offset, found : SUBSET Offset]
  \cup [stage : {"update"}, date : {None} \cup Int, config : Configurations, was : Int]
  \cup [stage : {"link"}, offset : Offset, date : Int]
  \cup [stage : {"detach", "delete", "extend"}]

ConstantsAssumption ==
  /\ None \notin Row \cup Request \cup Servers /\ Handlers \cap Servers = {}
  /\ Creations \subseteq Row
  /\ Changes \subseteq [date : {None} \cup Int, config : Configurations]
  /\ Linked \subseteq Offset
  /\ Hundred \in Nat \ {0} /\ Year \in Nat \ {0} /\ Ahead \in Nat
  /\ MaxDays \in Nat \ {0} /\ MaxRequests \in Nat

TypeOK ==
  /\ today \in 1..MaxDays
  /\ row \in {None} \cup Row /\ tasks \subseteq Task
  /\ request \in [Workers -> {None} \cup Request]
  /\ lock \in Servers \cup {None} /\ fired \subseteq Servers
  /\ requests \in 0..MaxRequests
  /\ stale \in BOOLEAN /\ crossed \in BOOLEAN /\ freed \subseteq Offset
  /\ through \in 0..MaxDays /\ since \in 0..MaxDays

\* The offsets that are milestones of the anniversary, up to a day.
Milestone(o, last) ==
  \/ o = <<"DAYS", 0>> /\ row.date <= last
  \/ /\ row.config # None /\ "every100Days" \in row.config /\ o[1] = "DAYS"
     /\ o[2] % Hundred = 0 /\ row.date + o[2] <= last
  \/ /\ row.config # None /\ "everyYear" \in row.config /\ o[1] = "YEARS"
     /\ row.date + o[2] * Year <= last

\* The tasks of an anniversary follow it (AnniversaryService, TaskService.updateTask).  Each
\* is as far from its date as its offset says, unless someone wrote one by a date that was
\* changed meanwhile.  And unless milestones were generated on changed grounds: none has two
\* tasks; after a generation all have one up to two years ahead, but for those a user
\* removed; and none that a new configuration does not have is ahead, until the date moves.
TasksFollowAnniversary ==
  Exists =>
    /\ stale \/ \A t \in tasks : t.at = CalcScheduledAt(row.date, t.offset)
    /\ crossed \/
         /\ \A t, u \in tasks : t.made /\ u.made /\ t.offset = u.offset => t = u
         /\ through = today =>
              \A o \in {"DAYS", "YEARS"} \X (1..today + Ahead) \cup {<<"DAYS", 0>>} :
                Milestone(o, today + Ahead) => o \in Offsets(tasks) \cup freed
         /\ since # 0 /\ (\A h \in Handlers : ~At(h, "clear")) =>
              \A t \in tasks : t.made /\ t.at >= since => Milestone(t.offset, today + Ahead)

=============================================================================
