---------------------------- MODULE SavingsGoals ----------------------------
(***************************************************************************)
(* The savings goals of a group, and the job that deposits into them.      *)
(*                                                                         *)
(* Members create goals, change, pause, resume and delete them, and move   *)
(* money in and out by hand.  A goal with automatic deposit has a monthly   *)
(* amount and a day; once a day the job runs on every instance, under a     *)
(* lock in Redis, and deposits into the goals whose day it is, once a      *)
(* month.  The list of goals is read first and each goal is paid from that  *)
(* list, in a transaction of its own.                                      *)
(*                                                                         *)
(* A request reads the goal, validates, and writes in a second step; the    *)
(* requests whose write does not rest on the read are one step.            *)
(***************************************************************************)
EXTENDS Integers, FiniteSets, Sequences

CONSTANTS Goals,       \* ids of goals
          Servers,     \* the instances that run the job
          Handlers,    \* the requests that can be on their way at once
          Calendar,    \* the days: a sequence of [month, day, last]
          NewGoals,    \* create requests: [auto, monthly, depositDay]
          Changes,     \* update requests: the same fields, each perhaps Keep
          Amounts,     \* amounts moved by hand
          None,        \* no goal, no amount, no holder, no request
          Keep,        \* a field an update request leaves out
          MaxRequests, \* bound: requests in all
          MaxFaults    \* bound: crashes, failures and overrun locks in all

Days   == 1..Len(Calendar)
Months == {Calendar[d].month : d \in Days}

VARIABLES
  today,    \* the day in KST
  goals,    \* savings_goals: the row of each id, or None
  gone,     \* the ids of deleted goals
  autoRows, \* number of AUTO_DEPOSIT transactions per goal and month
  request,  \* per handler: the request and what it has read, or None
  lock,     \* lock:savings:auto-deposit: the server that holds it, or None
  fired,    \* the servers whose timer has fired today
  run,      \* per server: "idle", or the list the run works on
  up,       \* the servers that run
  requests, \* counts the requests
  faults,   \* counts the faults
  since,    \* ghost: the day of the last change of each goal
  crossed,  \* ghost: goals withdrawn from twice on one balance
  troubled, \* ghost: days on which the job failed or could not run
  overran   \* ghost: a run has outlived its lock

jobVars  == <<lock, fired, run, up, faults, troubled, overran>>
goalVars == <<goals, gone, autoRows, since, crossed>>
vars == <<today, goalVars, request, jobVars, requests>>

Idle == [stage |-> "idle", todo |-> {}, paying |-> None]

Init ==
  /\ today = 1
  /\ goals = [g \in Goals |-> None]
  /\ gone = {}
  /\ autoRows = [g \in Goals |-> [m \in Months |-> 0]]
  /\ request = [h \in Handlers |-> None]
  /\ lock = None /\ fired = {}
  /\ run = [s \in Servers |-> Idle]
  /\ up = Servers
  /\ requests = 0 /\ faults = 0
  /\ since = [g \in Goals |-> 0]
  /\ crossed = {} /\ troubled = {} /\ overran = FALSE

Exists(g) == goals[g] # None
Live      == {g \in Goals : Exists(g)}

-----------------------------------------------------------------------------
(* Requests of the members.                                                *)

NewRequest == requests < MaxRequests /\ requests' = requests + 1

Begin(h, r) ==
  /\ request[h] = None
  /\ NewRequest
  /\ request' = [request EXCEPT ![h] = r]
  /\ UNCHANGED <<today, goalVars, jobVars>>

\* The write that ends request h, with the new row of its goal.
Write(h, row) ==
  /\ goals' = [goals EXCEPT ![request[h].goal] = row]
  /\ since' = [since EXCEPT ![request[h].goal] = today]
  /\ request' = [request EXCEPT ![h] = None]
  /\ UNCHANGED <<today, gone, autoRows, crossed, jobVars, requests>>

\* The goal has been deleted since it was read: Prisma throws.
WriteFails(h) ==
  /\ request[h] # None /\ ~Exists(request[h].goal)
  /\ request' = [request EXCEPT ![h] = None]
  /\ UNCHANGED <<today, goalVars, jobVars, requests>>

\* createGoal: automatic deposit needs an amount, and only then one is kept.
CreateGoal(g, dto) ==
  /\ ~Exists(g) /\ g \notin gone
  /\ NewRequest
  /\ dto.auto => dto.monthly # None
  /\ goals' = [goals EXCEPT ![g] =
       [auto |-> dto.auto, monthly |-> IF dto.auto THEN dto.monthly ELSE None,
        depositDay |-> dto.depositDay, status |-> "ACTIVE", amount |-> 0]]
  /\ since' = [since EXCEPT ![g] = today]
  /\ UNCHANGED <<today, gone, autoRows, crossed, request, jobVars>>

\* updateGoal: the amount is required of the request or of the row as read.
UpdateRead(h, g, dto) ==
  /\ Exists(g)
  /\ LET auto == IF dto.auto = Keep THEN goals[g].auto ELSE dto.auto IN
       auto /\ dto.monthly \in {Keep, None} => goals[g].monthly # None
  /\ Begin(h, [op |-> "update", goal |-> g, dto |-> dto])

\* The fields that are given replace those of the row, whatever it is by now.
Patched(old, dto) ==
  [old EXCEPT !.auto = IF dto.auto = Keep THEN @ ELSE dto.auto,
              !.monthly = IF dto.auto = FALSE THEN None
                          ELSE IF dto.monthly = Keep THEN @ ELSE dto.monthly,
              !.depositDay = IF dto.depositDay = Keep THEN @ ELSE dto.depositDay]

UpdateWrite(h) ==
  /\ request[h] # None /\ request[h].op = "update" /\ Exists(request[h].goal)
  /\ Write(h, Patched(goals[request[h].goal], request[h].dto))

\* pauseGoal and resumeGoal.
StatusRead(h, g, status) ==
  /\ Exists(g) /\ goals[g].auto /\ goals[g].status # status
  /\ Begin(h, [op |-> "status", goal |-> g, status |-> status])

StatusWrite(h) ==
  /\ request[h] # None /\ request[h].op = "status" /\ Exists(request[h].goal)
  /\ Write(h, [goals[request[h].goal] EXCEPT !.status = request[h].status])

\* deleteGoal: the transactions of the goal go with it.
DeleteGoal(g) ==
  /\ Exists(g)
  /\ NewRequest
  /\ goals' = [goals EXCEPT ![g] = None]
  /\ gone' = gone \cup {g}
  /\ autoRows' = [autoRows EXCEPT ![g] = [m \in Months |-> 0]]
  /\ UNCHANGED <<today, since, crossed, request, jobVars>>

\* deposit: one transaction; what is read before is only whether there is a goal.
Deposit(g, amount) ==
  /\ Exists(g)
  /\ NewRequest
  /\ goals' = [goals EXCEPT ![g].amount = @ + amount]
  /\ UNCHANGED <<today, gone, autoRows, since, crossed, request, jobVars>>

\* Variant: the balance is not compared with the amount.
WithdrawReadAny(h, g, amount) ==
  /\ Exists(g)
  /\ Begin(h, [op |-> "withdraw", goal |-> g, amount |-> amount,
               read |-> goals[g].amount])

\* withdraw: the balance is compared before the transaction.
WithdrawRead(h, g, amount) ==
  /\ Exists(g) /\ goals[g].amount >= amount
  /\ Begin(h, [op |-> "withdraw", goal |-> g, amount |-> amount,
               read |-> goals[g].amount])

WithdrawWrite(h) ==
  /\ request[h] # None /\ request[h].op = "withdraw" /\ Exists(request[h].goal)
  /\ LET r == request[h] IN
       /\ goals' = [goals EXCEPT ![r.goal].amount = @ - r.amount]
       /\ crossed' = IF goals[r.goal].amount < r.read
                       THEN crossed \cup {r.goal} ELSE crossed
  /\ request' = [request EXCEPT ![h] = None]
  /\ UNCHANGED <<today, gone, autoRows, since, jobVars, requests>>

-----------------------------------------------------------------------------
(* runAutoDeposit.                                                         *)

Fault   == faults < MaxFaults /\ faults' = faults + 1
Trouble == troubled' = troubled \cup {today}

\* The day is d's, or d is the last day of a month without that day.
DayFits(depositDay, d) ==
  \/ depositDay = Calendar[d].day
  \/ Calendar[d].day = Calendar[d].last /\ depositDay > Calendar[d].last

Due(g, d) ==
  /\ goals[g].auto /\ goals[g].status = "ACTIVE"
  /\ DayFits(goals[g].depositDay, d)

\* The goals due today, with their monthly amounts of this moment.
Listed == {[goal |-> g, monthly |-> goals[g].monthly] : g \in {x \in Live : Due(x, today)}}

\* The timer of s: the run lists the goals if the lock is free.
Fire(s) ==
  /\ s \in up \ fired
  /\ fired' = fired \cup {s}
  /\ IF lock = None
       THEN /\ lock' = s
            /\ run' = [run EXCEPT ![s] = [stage |-> "loop", todo |-> Listed, paying |-> None]]
       ELSE UNCHANGED <<lock, run>>
  /\ UNCHANGED <<today, goalVars, request, up, faults, troubled, overran, requests>>

\* Variant: deposits of this month are not looked for.
LookNowhere(s) ==
  /\ run[s].stage = "loop"
  /\ \E e \in run[s].todo :
       run' = [run EXCEPT ![s] =
         IF e.monthly = None THEN [run[s] EXCEPT !.todo = @ \ {e}]
         ELSE [stage |-> "pay", todo |-> @.todo \ {e}, paying |-> e]]
  /\ UNCHANGED <<today, goalVars, request, lock, fired, up, faults, troubled,
                 overran, requests>>

\* One goal of the list: without an amount, or with a deposit this month, it is
\* skipped.
Look(s) ==
  /\ run[s].stage = "loop"
  /\ \E e \in run[s].todo :
       run' = [run EXCEPT ![s] =
         IF e.monthly = None \/ autoRows[e.goal][Calendar[today].month] > 0
           THEN [run[s] EXCEPT !.todo = @ \ {e}]
           ELSE [stage |-> "pay", todo |-> @.todo \ {e}, paying |-> e]]
  /\ UNCHANGED <<today, goalVars, request, lock, fired, up, faults, troubled,
                 overran, requests>>

\* releaseLock: only the value of this run is deleted.
Release(s) == lock' = IF lock = s THEN None ELSE lock

\* The run of s ends, its list done or not.
Leave(s) == run' = [run EXCEPT ![s] = Idle] /\ Release(s)

\* The transaction.  When the goal is gone it throws and the run ends.
Pay(s) ==
  /\ run[s].stage = "pay"
  /\ LET g == run[s].paying.goal IN
       IF Exists(g)
         THEN /\ goals' = [goals EXCEPT ![g].amount = @ + run[s].paying.monthly]
              /\ autoRows' = [autoRows EXCEPT ![g][Calendar[today].month] = @ + 1]
              /\ run' = [run EXCEPT ![s].stage = "loop", ![s].paying = None]
              /\ UNCHANGED <<lock, troubled>>
         ELSE /\ Leave(s) /\ Trouble
              /\ UNCHANGED <<goals, autoRows>>
  /\ UNCHANGED <<today, gone, since, crossed, request, fired, up, faults, overran,
                 requests>>

Finish(s) ==
  /\ run[s].stage = "loop" /\ run[s].todo = {}
  /\ Leave(s)
  /\ UNCHANGED <<today, goalVars, request, fired, up, faults, troubled, overran, requests>>

\* A query fails: the lock is released, the rest of the list is not looked at.
JobFails(s) ==
  /\ run[s].stage # "idle"
  /\ Fault /\ Trouble
  /\ Leave(s)
  /\ UNCHANGED <<today, goalVars, request, fired, up, overran, requests>>

\* The time limit of the lock: after a crash, or during a long run (a fault).
LockExpires ==
  /\ lock # None
  /\ IF run[lock].stage = "idle"
       THEN UNCHANGED <<faults, troubled, overran>>
       ELSE Fault /\ Trouble /\ overran' = TRUE
  /\ lock' = None
  /\ UNCHANGED <<today, goalVars, request, fired, run, up, requests>>

Crash(s) ==
  /\ s \in up
  /\ Fault /\ Trouble
  /\ up' = up \ {s}
  /\ run' = [run EXCEPT ![s] = Idle]
  /\ UNCHANGED <<today, goalVars, request, lock, fired, overran, requests>>

\* The minute of the job has passed when a server starts again in the day.
Boot(s) ==
  /\ s \notin up
  /\ up' = up \cup {s} /\ fired' = fired \cup {s}
  /\ UNCHANGED <<today, goalVars, request, lock, run, faults, troubled, overran, requests>>

\* The timers have fired, the runs have ended, the lock has expired.
DayPasses ==
  /\ today < Len(Calendar)
  /\ up \subseteq fired /\ lock = None
  /\ \A s \in Servers : run[s] = Idle
  /\ today' = today + 1 /\ fired' = {}
  /\ troubled' = IF up = {} THEN troubled \cup {today + 1} ELSE troubled
  /\ UNCHANGED <<goalVars, request, lock, run, up, faults, overran, requests>>

-----------------------------------------------------------------------------
Members ==
  \/ \E g \in Goals, dto \in NewGoals : CreateGoal(g, dto)
  \/ \E g \in Goals : DeleteGoal(g)
  \/ \E g \in Goals, a \in Amounts : Deposit(g, a)
  \/ \E h \in Handlers, g \in Goals :
       \/ \E dto \in Changes : UpdateRead(h, g, dto)
       \/ \E st \in {"ACTIVE", "PAUSED"} : StatusRead(h, g, st)
       \/ \E a \in Amounts : WithdrawRead(h, g, a)
  \/ \E h \in Handlers :
       UpdateWrite(h) \/ StatusWrite(h) \/ WithdrawWrite(h) \/ WriteFails(h)

Job(s) ==
  Fire(s) \/ Look(s) \/ Pay(s) \/ Finish(s) \/ JobFails(s) \/ Crash(s) \/ Boot(s)

Next == Members \/ (\E s \in Servers : Job(s)) \/ LockExpires \/ DayPasses

Spec == Init /\ [][Next]_vars

-----------------------------------------------------------------------------
Goal == [auto : BOOLEAN, monthly : {None} \cup Nat, depositDay : Nat,
         status : {"ACTIVE", "PAUSED"}, amount : Int]

Entry == [goal : Goals, monthly : {None} \cup Nat]

Run == [stage : {"idle", "loop", "pay"}, todo : SUBSET Entry, paying : {None} \cup Entry]

Request ==
  [op : {"update"}, goal : Goals, dto : Changes]
  \cup [op : {"status"}, goal : Goals, status : {"ACTIVE", "PAUSED"}]
  \cup [op : {"withdraw"}, goal : Goals, amount : Amounts, read : Int]

\* What the theorems assume of the constants.
ConstantsAssumption ==
  /\ Calendar \in Seq([month : Nat, day : Nat, last : Nat]) /\ Calendar # <<>>
  /\ None \notin Servers
  /\ NewGoals \subseteq [auto : BOOLEAN, monthly : {None} \cup Nat, depositDay : Nat]
  /\ Changes \subseteq [auto : {Keep} \cup BOOLEAN, monthly : {Keep, None} \cup Nat,
                        depositDay : {Keep} \cup Nat]
  /\ Amounts \subseteq Nat /\ MaxRequests \in Nat /\ MaxFaults \in Nat

TypeOK ==
  /\ today \in Days
  /\ goals \in [Goals -> {None} \cup Goal] /\ gone \subseteq Goals
  /\ autoRows \in [Goals -> [Months -> Nat]]
  /\ request \in [Handlers -> {None} \cup Request]
  /\ lock \in {None} \cup Servers /\ fired \subseteq Servers /\ up \subseteq Servers
  /\ run \in [Servers -> Run]
  /\ requests \in 0..MaxRequests /\ faults \in 0..MaxFaults
  /\ since \in [Goals -> 0..Len(Calendar)] /\ crossed \subseteq Goals
  /\ troubled \subseteq Days /\ overran \in BOOLEAN

\* Each goal gets its automatic deposit exactly once a month: never twice while no
\* run outlives its lock, however the day of the goal is moved and on however many
\* servers the timer fires; and not missed on a day without trouble by a goal that
\* was due on it and has not been changed since the day before (runAutoDeposit: the
\* lock, the query of the month, the rule of the last day).
DepositedOncePerMonth ==
  \A g \in Live :
    /\ ~overran => \A m \in Months : autoRows[g][m] <= 1
    /\ \A d \in Days \ troubled :
         since[g] < d /\ d < today /\ Due(g, d) /\ goals[g].monthly # None
           => autoRows[g][Calendar[d].month] > 0

\* No goal is withdrawn below zero, but by withdrawals that were compared with a
\* balance another withdrawal has lowered since (withdraw: insufficient_balance).
AmountsCovered ==
  \A g \in Live \ crossed : goals[g].amount >= 0

=============================================================================
