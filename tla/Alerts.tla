-------------------------------- MODULE Alerts --------------------------------
(***************************************************************************)
(* The jobs that remind people: of unchecked routines, of the week, of       *)
(* recording their assets, of food that expires, of the weather.             *)
(*                                                                         *)
(* Every instance fires at the same minute.  Each job lists units (a user, a    *)
(* group, a region), and for one after the other asks whether a message is due  *)
(* and to whom, some of that already when it lists; then it sends one message   *)
(* after the other.  Three of the jobs take a lock for the run and release it    *)
(* at its end; two take none.  Nothing is stored about what was sent.          *)
(***************************************************************************)
EXTENDS Integers, FiniteSets

CONSTANTS Units,     \* what a job lists
          Users,     \* recipients
          Servers,   \* the instances
          None,      \* nobody holds the lock, no job yet
          MaxChanges, MaxFaults \* bounds: changes of the tables, failures

\* locked: under a lock; dueAt, membersAt: when it is asked; ends: a failure ends the
\* run, and not only the unit.
RoutineDaily   == [locked |-> TRUE, dueAt |-> "unit", membersAt |-> "list", ends |-> TRUE]
RoutineWeekly  == [locked |-> TRUE, dueAt |-> "unit", membersAt |-> "list", ends |-> TRUE]
RecordReminder == [locked |-> TRUE, dueAt |-> "list", membersAt |-> "unit", ends |-> TRUE]
ExpiryAlert    == [locked |-> FALSE, dueAt |-> "list", membersAt |-> "unit", ends |-> TRUE]
WeatherAlert   == [locked |-> FALSE, dueAt |-> "unit", membersAt |-> "list", ends |-> FALSE]

Jobs == {RoutineDaily, RoutineWeekly, RecordReminder, ExpiryAlert, WeatherAlert}

VARIABLES
  job,     \* the job of this hour
  due,     \* units with something to say
  members, \* per unit, the users to tell
  lock,    \* holder of the lock in Redis, or None
  fired,   \* instances whose timer has fired
  run,     \* per instance: the run
  sent,    \* messages per unit and user
  changes, faults, \* counts
  runs,    \* ghost: counts the runs that went past the lock
  again,   \* ghost: a timer fired after all runs had ended, or a lock expired
  steady,  \* ghost: units that did not change during the hour
  trouble  \* ghost: a run was cut short, or a unit failed

vars == <<job, due, members, lock, fired, run, sent, changes, faults, runs, again, steady,
          trouble>>

Idle == [stage |-> "idle", todo |-> {}, asked |-> {}, told |-> {}]

Init ==
  /\ job \in Jobs
  /\ due \in SUBSET Units /\ members = [n \in Units |-> Users]
  /\ lock = None /\ fired = {}
  /\ run = [s \in Servers |-> Idle]
  /\ sent = [n \in Units |-> [u \in Users |-> 0]]
  /\ changes = 0 /\ faults = 0 /\ runs = 0
  /\ again = FALSE /\ steady = Units /\ trouble = FALSE

-----------------------------------------------------------------------------
Change == changes < MaxChanges /\ changes' = changes + 1

\* A routine is checked or unchecked, an item put in or taken out, a forecast changes.
ChangeDue(n) ==
  /\ Change
  /\ due' = IF n \in due THEN due \ {n} ELSE due \cup {n}
  /\ steady' = steady \ {n}
  /\ UNCHANGED <<job, members, lock, fired, run, sent, faults, runs, again, trouble>>

\* A member leaves or joins a group, or changes the settings of the job.
ChangeMember(n, u) ==
  /\ Change
  /\ members' = [members EXCEPT ![n] = IF u \in @ THEN @ \ {u} ELSE @ \cup {u}]
  /\ steady' = steady \ {n}
  /\ UNCHANGED <<job, due, lock, fired, run, sent, faults, runs, again, trouble>>

Pairs(N) == {p \in N \X Users : p[2] \in members[p[1]]}

\* Variant: the lock is set whoever holds it.
FireAnyLock(s) ==
  /\ s \notin fired
  /\ fired' = fired \cup {s}
  /\ lock' = s
  /\ run' = [run EXCEPT ![s].stage = "list"]
  /\ runs' = runs + 1
  /\ again' = (again \/ (runs > 0 /\ \A o \in Servers : run[o] = Idle))
  /\ UNCHANGED <<job, due, members, sent, changes, faults, steady, trouble>>

\* The timer fires; the lock is taken where the job has one.
Fire(s) ==
  /\ s \notin fired
  /\ fired' = fired \cup {s}
  /\ IF job.locked /\ lock # None
       THEN UNCHANGED <<lock, run, runs, again>>
       ELSE /\ lock' = IF job.locked THEN s ELSE lock
            /\ run' = [run EXCEPT ![s].stage = "list"]
            /\ runs' = runs + 1
            /\ again' = (again \/ (runs > 0 /\ \A o \in Servers : run[o] = Idle))
  /\ UNCHANGED <<job, due, members, sent, changes, faults, steady, trouble>>

\* The query at the beginning.
List(s) ==
  /\ run[s].stage = "list"
  /\ LET listed == IF job.dueAt = "list" THEN due ELSE Units
     IN run' = [run EXCEPT ![s] =
          [stage |-> "unit", todo |-> listed,
           asked |-> IF job.membersAt = "list" THEN Pairs(listed) ELSE {}, told |-> {}]]
  /\ UNCHANGED <<job, due, members, lock, fired, sent, changes, faults, runs, again, steady,
                 trouble>>

\* One unit: is anything due, and whom does it concern?
Unit(s, n) ==
  /\ run[s].stage = "unit" /\ n \in run[s].todo /\ run[s].told = {}
  /\ LET whom == IF job.membersAt = "list" THEN {p \in run[s].asked : p[1] = n} ELSE Pairs({n})
     IN run' = [run EXCEPT ![s].todo = @ \ {n},
          ![s].told = IF job.dueAt = "list" \/ n \in due THEN whom ELSE {}]
  /\ UNCHANGED <<job, due, members, lock, fired, sent, changes, faults, runs, again, steady,
                 trouble>>

\* One message.
Send(s, p) ==
  /\ run[s].stage = "unit" /\ p \in run[s].told
  /\ run' = [run EXCEPT ![s].told = @ \ {p}]
  /\ sent' = [sent EXCEPT ![p[1]][p[2]] = @ + 1]
  /\ UNCHANGED <<job, due, members, lock, fired, changes, faults, runs, again, steady, trouble>>

\* A query, a forecast or a message fails.
Fails(s) ==
  /\ run[s].stage # "idle"
  /\ faults < MaxFaults /\ faults' = faults + 1
  /\ run' = [run EXCEPT ![s] =
       IF job.ends \/ run[s].stage = "list" THEN [Idle EXCEPT !.stage = "end"]
       ELSE [run[s] EXCEPT !.told = {}]]
  /\ trouble' = TRUE
  /\ UNCHANGED <<job, due, members, lock, fired, sent, changes, runs, again, steady>>

\* The run is over; releaseLock deletes the lock if it is this run's.
Finish(s) ==
  /\ \/ run[s].stage = "unit" /\ run[s].todo = {} /\ run[s].told = {}
     \/ run[s].stage = "end"
  /\ run' = [run EXCEPT ![s] = Idle]
  /\ lock' = IF lock = s THEN None ELSE lock
  /\ UNCHANGED <<job, due, members, fired, sent, changes, faults, runs, again, steady, trouble>>

\* The run outlives its lock.
LockExpires ==
  /\ lock # None
  /\ faults < MaxFaults /\ faults' = faults + 1
  /\ lock' = None
  /\ again' = TRUE
  /\ UNCHANGED <<job, due, members, fired, run, sent, changes, runs, steady, trouble>>

Next ==
  \/ \E s \in Servers : \/ Fire(s) \/ List(s) \/ Fails(s) \/ Finish(s)
                        \/ \E n \in Units : Unit(s, n)
                        \/ \E p \in Units \X Users : Send(s, p)
  \/ LockExpires
  \/ \E n \in Units : ChangeDue(n) \/ \E u \in Users : ChangeMember(n, u)

Spec == Init /\ [][Next]_vars

-----------------------------------------------------------------------------
\* What the theorems assume of the constants.
ConstantsAssumption ==
  /\ None \notin Servers /\ Servers # {} /\ IsFiniteSet(Servers)
  /\ MaxChanges \in Nat /\ MaxFaults \in Nat

Run == [stage : {"idle", "list", "unit", "end"}, todo : SUBSET Units,
        asked : SUBSET (Units \X Users), told : SUBSET (Units \X Users)]

TypeOK ==
  /\ job \in Jobs /\ due \subseteq Units /\ members \in [Units -> SUBSET Users]
  /\ lock \in {None} \cup Servers /\ fired \subseteq Servers
  /\ run \in [Servers -> Run]
  /\ sent \in [Units -> [Users -> 0..Cardinality(Servers)]]
  /\ changes \in 0..MaxChanges /\ faults \in 0..MaxFaults
  /\ runs \in 0..Cardinality(Servers) /\ again \in BOOLEAN /\ trouble \in BOOLEAN
  /\ steady \subseteq Units

\* Nobody is reminded twice of one unit by a job with a lock, as long as every timer
\* fires before the first run is over: the lock is all there is, and it ends with the
\* run (`again`).  And once the runs are over without trouble, everybody had been
\* reminded of what was due all the time, and nobody of what never was (sendDailyReminders,
\* sendWeeklySummary, sendRecordReminder, runExpiryAlert, sendWeatherAlerts).
RemindedOnce ==
  /\ job.locked /\ ~again => \A n \in Units, u \in Users : sent[n][u] <= 1
  /\ fired = Servers /\ (\A s \in Servers : run[s] = Idle) /\ ~trouble =>
       \A n \in steady, u \in Users : n \in due <=> sent[n][u] > 0

=============================================================================
