-------------------------- MODULE ChildcareAccounts --------------------------
(***************************************************************************)
(* The point account of a child: allowance, purchases and savings plan.    *)
(*                                                                         *)
(* A parent sets a monthly allowance with a pay day, books points in and    *)
(* out, and may open one savings plan.  Every day two jobs run on every     *)
(* instance, each under a lock in Redis: one pays the allowances due, and   *)
(* moves the monthly amount of an ACTIVE plan into savings; the other pays  *)
(* out the plans that end on that day.  Requests and jobs read the account  *)
(* first and write it in a later transaction.                              *)
(*                                                                         *)
(* One action is one transaction of the code, or the reads before it.      *)
(* Points booked by hand are of three kinds, as the code tells them apart:  *)
(* ALLOWANCE, the other types that add, and the types that take.  The       *)
(* interest of a plan is a field of it: it depends on its terms only.       *)
(***************************************************************************)
EXTENDS Integers, FiniteSets, Sequences

CONSTANTS Children,     \* the children, each with its account
          Instances,    \* the server instances that run the jobs
          Handlers,     \* the requests that can be on their way at once
          Calendar,     \* the days: a sequence of [month, day, last]
          Amounts,      \* amounts of points in transactions
          Settings,     \* allowance settings in requests: [points, payDay]
          Terms,        \* terms of savings plans in requests: [monthly, interest, ends]
          None,         \* no plan, no holder, no request
          StartBalance, \* the points a child has at first
          MaxRequests,  \* bound: requests in all
          MaxFaults     \* bound: crashes, failed jobs and overrun locks in all

ASSUME ConstantsAssumption ==
  /\ Instances # {}
  /\ Calendar \in Seq([month : Nat, day : Nat, last : Nat]) /\ Calendar # << >>
  /\ Amounts \subseteq Nat
  /\ Settings \subseteq [points : Nat, payDay : Nat]
  /\ Terms \subseteq [monthly : Nat, interest : Nat, ends : Nat]
  /\ None \notin Instances \cup Settings
  /\ StartBalance \in Nat /\ MaxRequests \in Nat /\ MaxFaults \in Nat

Days   == 1..Len(Calendar)
Months == {Calendar[d].month : d \in Days}
Jobs   == {"allowance", "maturity"}

SavingsPlan == [terms : Terms, status : {"ACTIVE", "MATURED", "CANCELLED"}]

VARIABLES
  today,     \* the day in KST
  allowance, \* child_allowance_plans: the setting of each child, or None
  history,   \* child_allowance_plan_histories: the settings replaced
  balance,   \* childcare_accounts.balance
  savings,   \* childcare_accounts.savingsBalance
  plan,      \* childcare_savings_plans: the one plan of each child, or None
  rows,      \* number of ALLOWANCE transactions per child and month
  request,   \* per handler: the request and what it has read, or None
  lock,      \* per job: the instance whose value is in Redis, or None
  fired,     \* per instance: the jobs whose timer has fired today
  run,       \* per instance and job: "idle", or what the run has read
  up,        \* the instances that run
  requests,  \* counts the requests
  faults,    \* counts the faults
  auto,      \* ghost: allowances the job has paid, per child and month
  settings,  \* ghost: every setting a child has had
  since,     \* ghost: the day of the last setting
  opened,    \* ghost: the day the savings plan was opened
  deposited, \* ghost: points the job has moved into savings
  returned,  \* ghost: principal that was paid back from savings
  mixed,     \* ghost: children with a write on an account changed since it was read
  short,     \* ghost: children whose savings took more than they had
  troubled,  \* ghost: days on which a job failed or could not run
  overran    \* ghost: number of runs that outlived their lock

accountVars == <<balance, savings, plan, deposited, returned, mixed, short>>
settingVars == <<allowance, history, settings, since>>
jobVars     == <<lock, fired, run, up, faults, troubled, overran>>
vars == <<today, accountVars, settingVars, rows, request, jobVars, requests,
          auto, opened>>

Idle == [stage |-> "idle", todo |-> {}, paying |-> None]

Init ==
  /\ today = 1
  /\ allowance \in [Children -> Settings \cup {None}]
  /\ history = [k \in Children |-> {}]
  /\ balance = [k \in Children |-> StartBalance]
  /\ savings = [k \in Children |-> 0]
  /\ plan = [k \in Children |-> None]
  /\ rows = [k \in Children |-> [m \in Months |-> 0]]
  /\ request = [h \in Handlers |-> None]
  /\ lock = [j \in Jobs |-> None]
  /\ fired = [i \in Instances |-> {}]
  /\ run = [i \in Instances |-> [j \in Jobs |-> Idle]]
  /\ up = Instances
  /\ requests = 0 /\ faults = 0
  /\ auto = [k \in Children |-> [m \in Months |-> 0]]
  /\ settings = [k \in Children |-> {allowance[k]} \ {None}]
  /\ since = [k \in Children |-> 0]
  /\ opened = [k \in Children |-> 1]
  /\ deposited = [k \in Children |-> 0]
  /\ returned = [k \in Children |-> 0]
  /\ mixed = {} /\ short = {} /\ troubled = {} /\ overran = 0

ThisMonth == Calendar[today].month

IsActive(k) == plan[k] # None /\ plan[k].status = "ACTIVE"

-----------------------------------------------------------------------------
(* Requests of the parents.                                                *)

Begin(h, r) ==
  /\ request[h] = None
  /\ requests < MaxRequests
  /\ requests' = requests + 1
  /\ request' = [request EXCEPT ![h] = r]

End(h) == request' = [request EXCEPT ![h] = None]

\* calculateBalanceDelta
Delta(type, amount) == IF type \in {"ALLOWANCE", "ADD"} THEN amount ELSE -amount

\* Variant: the balance is not looked at.
TransactionUnchecked(h, k, type, amount) ==
  /\ Begin(h, [op |-> "transaction", child |-> k, type |-> type,
               amount |-> amount, read |-> balance[k]])
  /\ UNCHANGED <<today, accountVars, settingVars, rows, jobVars, auto, opened>>

\* createTransaction: the account is read and the balance compared.
TransactionRead(h, k, type, amount) ==
  /\ balance[k] + Delta(type, amount) >= 0
  /\ Begin(h, [op |-> "transaction", child |-> k, type |-> type,
               amount |-> amount, read |-> balance[k]])
  /\ UNCHANGED <<today, accountVars, settingVars, rows, jobVars, auto, opened>>

TransactionWrite(h) ==
  /\ request[h] # None /\ request[h].op = "transaction"
  /\ LET r == request[h] IN
       /\ balance' = [balance EXCEPT ![r.child] = @ + Delta(r.type, r.amount)]
       /\ rows' = IF r.type = "ALLOWANCE"
                    THEN [rows EXCEPT ![r.child][ThisMonth] = @ + 1]
                    ELSE rows
       /\ mixed' = IF balance[r.child] # r.read THEN mixed \cup {r.child} ELSE mixed
  /\ End(h)
  /\ UNCHANGED <<today, savings, plan, deposited, returned, short, settingVars,
                 jobVars, requests, auto, opened>>

\* upsertAllowancePlan: the setting is read in the transaction that replaces it,
\* without a lock on it.
AllowanceRead(h, k, p) ==
  /\ Begin(h, [op |-> "allowance", child |-> k, new |-> p, read |-> allowance[k]])
  /\ UNCHANGED <<today, accountVars, settingVars, rows, jobVars, auto, opened>>

\* Variant: the setting is replaced before it goes to the history.
AllowanceWriteFirst(h) ==
  /\ request[h] # None /\ request[h].op = "allowance"
  /\ LET r == request[h] IN
       /\ history' = IF r.read # None
                       THEN [history EXCEPT ![r.child] = @ \cup {r.new}]
                       ELSE history
       /\ allowance' = [allowance EXCEPT ![r.child] = r.new]
       /\ settings' = [settings EXCEPT ![r.child] = @ \cup {r.new}]
       /\ since' = [since EXCEPT ![r.child] = today]
  /\ End(h)
  /\ UNCHANGED <<today, accountVars, rows, jobVars, requests, auto, opened>>

\* The old setting goes to the history, the new one takes its place.  A second
\* first setting is refused by the unique key of the child.
AllowanceWrite(h) ==
  /\ request[h] # None /\ request[h].op = "allowance"
  /\ LET r == request[h] IN
       \/ /\ r.read # None \/ allowance[r.child] = None
          /\ history' = IF r.read # None
                          THEN [history EXCEPT ![r.child] = @ \cup {r.read}]
                          ELSE history
          /\ allowance' = [allowance EXCEPT ![r.child] = r.new]
          /\ settings' = [settings EXCEPT ![r.child] = @ \cup {r.new}]
          /\ since' = [since EXCEPT ![r.child] = today]
          /\ mixed' = IF allowance[r.child] # r.read
                        THEN mixed \cup {r.child} ELSE mixed
       \/ /\ r.read = None /\ allowance[r.child] # None
          /\ UNCHANGED <<settingVars, mixed>>
  /\ End(h)
  /\ UNCHANGED <<today, balance, savings, plan, deposited, returned, short, rows,
                 jobVars, requests, auto, opened>>

\* createSavingsPlan: one plan per account, kept so by a unique key.  The end may
\* be any day after the start of the plan, which may be long past.
OpenSavings(k, terms) ==
  /\ requests < MaxRequests
  /\ requests' = requests + 1
  /\ plan[k] = None
  /\ plan' = [plan EXCEPT ![k] = [terms |-> terms, status |-> "ACTIVE"]]
  /\ opened' = [opened EXCEPT ![k] = today]
  /\ UNCHANGED <<today, balance, savings, deposited, returned, mixed, short,
                 settingVars, rows, request, jobVars, auto>>

\* cancelSavingsPlan: the plan and the savings balance are read.
CancelRead(h, k) ==
  /\ IsActive(k)
  /\ Begin(h, [op |-> "cancel", child |-> k, read |-> savings[k]])
  /\ UNCHANGED <<today, accountVars, settingVars, rows, jobVars, auto, opened>>

\* Variant: only the interest is taken out of the savings balance.
PayBackKeepsSavings(k, principal, interest, status) ==
  /\ balance' = [balance EXCEPT ![k] = @ + principal + interest]
  /\ UNCHANGED savings
  /\ plan' = [plan EXCEPT ![k].status = status]
  /\ returned' = [returned EXCEPT ![k] = @ + principal]
  /\ mixed' = IF savings[k] # principal \/ ~IsActive(k)
                THEN mixed \cup {k} ELSE mixed

\* The transaction that pays principal and interest out of the savings of k: the
\* principal is the one read before, and the savings balance is set to 0.
PayBack(k, principal, interest, status) ==
  /\ balance' = [balance EXCEPT ![k] = @ + principal + interest]
  /\ savings' = [savings EXCEPT ![k] = 0]
  /\ plan' = [plan EXCEPT ![k].status = status]
  /\ returned' = [returned EXCEPT ![k] = @ + principal]
  /\ mixed' = IF savings[k] # principal \/ ~IsActive(k)
                THEN mixed \cup {k} ELSE mixed

CancelWrite(h) ==
  /\ request[h] # None /\ request[h].op = "cancel"
  /\ PayBack(request[h].child, request[h].read, 0, "CANCELLED")
  /\ End(h)
  /\ UNCHANGED <<today, deposited, short, settingVars, rows, jobVars, requests,
                 auto, opened>>

-----------------------------------------------------------------------------
(* The daily jobs.                                                         *)

Fault == faults < MaxFaults /\ faults' = faults + 1

Trouble == troubled' = troubled \cup {today}

\* Variant: the rule of the last day is forgotten.
DueExactly(p) == p.payDay = Calendar[today].day

\* The pay day is today, or today is the last day of a month without that day.
Due(p) ==
  \/ p.payDay = Calendar[today].day
  \/ Calendar[today].day = Calendar[today].last /\ p.payDay > Calendar[today].last

\* The first query of each job, with the points of this moment.
DueAllowances ==
  {[child |-> k, amount |-> allowance[k].points] :
     k \in {c \in Children : allowance[c] # None /\ Due(allowance[c])}}

EndingPlans ==
  {[child |-> k, amount |-> savings[k]] :
     k \in {c \in Children : IsActive(c) /\ plan[c].terms.ends = today}}

Found(j) == IF j = "allowance" THEN DueAllowances ELSE EndingPlans

\* The timer of instance i: the run starts if the lock is free.  The lock and the
\* first query are one step, as nothing but a timer looks at the lock.
Fire(i, j) ==
  /\ i \in up /\ j \notin fired[i]
  /\ fired' = [fired EXCEPT ![i] = @ \cup {j}]
  /\ IF lock[j] = None
       THEN /\ lock' = [lock EXCEPT ![j] = i]
            /\ run' = [run EXCEPT ![i][j] =
                         [stage |-> "loop", todo |-> Found(j), paying |-> None]]
       ELSE UNCHANGED <<lock, run>>
  /\ UNCHANGED <<today, accountVars, settingVars, rows, request, up, faults,
                 troubled, overran, requests, auto, opened>>

\* releaseLock: only the value of this run is deleted.
Release(i, j) == lock' = IF lock[j] = i THEN [lock EXCEPT ![j] = None] ELSE lock

\* Variant: the status of the plan is not looked at.
PaymentAnyStatus(s) ==
  [child |-> s.child, amount |-> s.amount, active |-> IsActive(s.child),
   monthly |-> IF plan[s.child] # None THEN plan[s.child].terms.monthly ELSE 0]

\* What the transaction for the entry s of the list will write.
Payment(s) ==
  [child |-> s.child, amount |-> s.amount, active |-> IsActive(s.child),
   monthly |-> IF IsActive(s.child) THEN plan[s.child].terms.monthly ELSE 0]

\* Variant: an allowance of this month is not looked for.
CheckNothing(i) ==
  /\ run[i]["allowance"].stage = "loop"
  /\ \E s \in run[i]["allowance"].todo :
       run' = [run EXCEPT ![i]["allowance"] =
                 [stage |-> "pay", todo |-> @.todo \ {s}, paying |-> Payment(s)]]
  /\ UNCHANGED <<today, accountVars, settingVars, rows, request, lock, fired, up,
                 faults, troubled, overran, requests, auto, opened>>

\* dispatchAllowance, one child: an allowance of this month, the job's or one
\* booked by hand, skips it; otherwise the savings plan is read.
Check(i) ==
  LET old == run[i]["allowance"] IN
  /\ old.stage = "loop"
  /\ \E s \in old.todo :
       run' = [run EXCEPT ![i]["allowance"] =
         IF rows[s.child][ThisMonth] > 0
           THEN [old EXCEPT !.todo = @ \ {s}]
           ELSE [stage |-> "pay", todo |-> old.todo \ {s}, paying |-> Payment(s)]]
  /\ UNCHANGED <<today, accountVars, settingVars, rows, request, lock, fired, up,
                 faults, troubled, overran, requests, auto, opened>>

\* The transaction: the allowance, and the monthly amount into savings.  The
\* balance is not compared with it.
Pay(i) ==
  /\ run[i]["allowance"].stage = "pay"
  /\ LET p == run[i]["allowance"].paying
         k == p.child
     IN  /\ rows' = [rows EXCEPT ![k][ThisMonth] = @ + 1]
         /\ auto' = [auto EXCEPT ![k][ThisMonth] = @ + 1]
         /\ balance' = [balance EXCEPT ![k] = @ + p.amount - p.monthly]
         /\ savings' = [savings EXCEPT ![k] = @ + p.monthly]
         /\ deposited' = [deposited EXCEPT ![k] = @ + p.monthly]
         /\ mixed' = IF IsActive(k) # p.active THEN mixed \cup {k} ELSE mixed
         /\ short' = IF balance[k] + p.amount < p.monthly
                       THEN short \cup {k} ELSE short
  /\ run' = [run EXCEPT ![i]["allowance"].stage = "loop",
                        ![i]["allowance"].paying = None]
  /\ UNCHANGED <<today, plan, returned, settingVars, request, lock, fired, up,
                 faults, troubled, overran, requests, opened>>

\* matureSavingsPlans, one plan: the status is not looked at again.
Mature(i) ==
  /\ run[i]["maturity"].stage = "loop"
  /\ \E s \in run[i]["maturity"].todo :
       /\ PayBack(s.child, s.amount, plan[s.child].terms.interest, "MATURED")
       /\ run' = [run EXCEPT ![i]["maturity"].todo = @ \ {s}]
  /\ UNCHANGED <<today, deposited, short, settingVars, rows, request, lock, fired,
                 up, faults, troubled, overran, requests, auto, opened>>

\* Variant: the state of the run is not cleared.
FinishDone(i, j) ==
  /\ run[i][j].stage = "loop" /\ run[i][j].todo = {}
  /\ run' = [run EXCEPT ![i][j].stage = "done"]
  /\ Release(i, j)
  /\ UNCHANGED <<today, accountVars, settingVars, rows, request, fired, up,
                 faults, troubled, overran, requests, auto, opened>>

\* finally: the lock is released.
Finish(i, j) ==
  /\ run[i][j].stage = "loop" /\ run[i][j].todo = {}
  /\ run' = [run EXCEPT ![i][j] = Idle]
  /\ Release(i, j)
  /\ UNCHANGED <<today, accountVars, settingVars, rows, request, fired, up,
                 faults, troubled, overran, requests, auto, opened>>

\* A query or a transaction fails: the rest of the list is not looked at, and
\* the lock is released.
JobFails(i, j) ==
  /\ run[i][j].stage # "idle"
  /\ Fault /\ Trouble
  /\ run' = [run EXCEPT ![i][j] = Idle]
  /\ Release(i, j)
  /\ UNCHANGED <<today, accountVars, settingVars, rows, request, fired, up,
                 overran, requests, auto, opened>>

\* The time limit of a lock: the one of an instance that crashed, or of a run
\* that takes longer (a fault).
LockExpires(j) ==
  /\ lock[j] # None
  /\ \/ /\ run[lock[j]][j].stage = "idle"
        /\ UNCHANGED <<faults, troubled, overran>>
     \/ /\ run[lock[j]][j].stage # "idle"
        /\ Fault /\ Trouble
        /\ overran' = overran + 1
  /\ lock' = [lock EXCEPT ![j] = None]
  /\ UNCHANGED <<today, accountVars, settingVars, rows, request, fired, run, up,
                 requests, auto, opened>>

Crash(i) ==
  /\ i \in up
  /\ Fault /\ Trouble
  /\ up' = up \ {i}
  /\ run' = [run EXCEPT ![i] = [j \in Jobs |-> Idle]]
  /\ UNCHANGED <<today, accountVars, settingVars, rows, request, lock, fired,
                 overran, requests, auto, opened>>

\* The hour of the jobs has passed when an instance starts again in the day.
Boot(i) ==
  /\ i \notin up
  /\ up' = up \cup {i}
  /\ fired' = [fired EXCEPT ![i] = Jobs]
  /\ UNCHANGED <<today, accountVars, settingVars, rows, request, lock, run,
                 faults, troubled, overran, requests, auto, opened>>

\* The timers of the running instances have fired, their runs have ended, and
\* the time limits of the locks, five minutes, have passed.
DayPasses ==
  /\ today < Len(Calendar)
  /\ \A i \in up : fired[i] = Jobs
  /\ \A i \in Instances, j \in Jobs : run[i][j].stage = "idle"
  /\ \A j \in Jobs : lock[j] = None
  /\ today' = today + 1
  /\ fired' = [i \in Instances |-> {}]
  /\ troubled' = IF up = {} THEN troubled \cup {today + 1} ELSE troubled
  /\ UNCHANGED <<accountVars, settingVars, rows, request, lock, run, up, faults,
                 overran, requests, auto, opened>>

-----------------------------------------------------------------------------
Parents ==
  \/ \E h \in Handlers, k \in Children, t \in {"ALLOWANCE", "ADD", "TAKE"}, a \in Amounts :
       TransactionRead(h, k, t, a)
  \/ \E h \in Handlers, k \in Children, s \in Settings : AllowanceRead(h, k, s)
  \/ \E k \in Children, t \in Terms : OpenSavings(k, t)
  \/ \E h \in Handlers, k \in Children : CancelRead(h, k)
  \/ \E h \in Handlers : TransactionWrite(h) \/ AllowanceWrite(h) \/ CancelWrite(h)

Scheduler(i) ==
  \/ \E j \in Jobs : Fire(i, j) \/ Finish(i, j) \/ JobFails(i, j)
  \/ Check(i)
  \/ Pay(i)
  \/ Mature(i)
  \/ Crash(i)
  \/ Boot(i)

Next ==
  \/ Parents
  \/ \E i \in Instances : Scheduler(i)
  \/ \E j \in Jobs : LockExpires(j)
  \/ DayPasses

Spec == Init /\ [][Next]_vars

-----------------------------------------------------------------------------
Request ==
  [op : {"transaction"}, child : Children, type : {"ALLOWANCE", "ADD", "TAKE"},
   amount : Amounts, read : Int]
  \cup [op : {"allowance"}, child : Children, new : Settings,
        read : {None} \cup Settings]
  \cup [op : {"cancel"}, child : Children, read : Int]

Entry == [child : Children, amount : Int]

Run == [stage : {"idle", "loop", "pay"}, todo : SUBSET Entry,
        paying : {None} \cup [child : Children, amount : Int, active : BOOLEAN,
                              monthly : Int]]

TypeOK ==
  /\ today \in Days
  /\ allowance \in [Children -> {None} \cup Settings]
  /\ history \in [Children -> SUBSET Settings]
  /\ balance \in [Children -> Int] /\ savings \in [Children -> Int]
  /\ plan \in [Children -> {None} \cup SavingsPlan]
  /\ rows \in [Children -> [Months -> Nat]]
  /\ request \in [Handlers -> {None} \cup Request]
  /\ lock \in [Jobs -> {None} \cup Instances]
  /\ fired \in [Instances -> SUBSET Jobs]
  /\ run \in [Instances -> [Jobs -> Run]]
  /\ up \subseteq Instances
  /\ requests \in 0..MaxRequests /\ faults \in 0..MaxFaults /\ overran \in Nat
  /\ auto \in [Children -> [Months -> Nat]]
  /\ settings \in [Children -> SUBSET Settings]
  /\ since \in [Children -> 0..Len(Calendar)] /\ opened \in [Children -> Days]
  /\ deposited \in [Children -> Int] /\ returned \in [Children -> Int]
  /\ mixed \subseteq Children /\ short \subseteq Children /\ troubled \subseteq Days

\* However often the timers fire, on whatever instances, and however the pay day
\* is moved, the job pays a child once a month, as long as no run outlives its
\* lock (dispatchAllowance, its lock and its query).
AllowanceOnce ==
  overran = 0 => \A k \in Children, m \in Months : auto[k][m] <= 1


\* Day d has passed, and the setting in force on it had its pay day.
WasPayDay(k, d) ==
  /\ allowance[k] # None
  /\ since[k] < d /\ d < today
  /\ \/ allowance[k].payDay = Calendar[d].day
     \/ Calendar[d].day = Calendar[d].last /\ allowance[k].payDay > Calendar[d].last

\* On a day without faults the jobs leave nothing undone: the allowance whose pay
\* day it was is paid, at the end of a short month too, and the plan that ended
\* is no longer ACTIVE, unless it was opened on that day or later
\* (dispatchAllowance, matureSavingsPlans and their locks).
DailyJobsDone ==
  \A k \in Children :
    /\ \A d \in Days \ troubled : WasPayDay(k, d) => rows[k][Calendar[d].month] > 0
    /\ IsActive(k) /\ opened[k] < plan[k].terms.ends /\ plan[k].terms.ends < today
         => plan[k].terms.ends \in troubled

\* No point is lost or made in savings: what the job moved there is there or was
\* paid back, and nothing is left there when the plan is over, as long as no
\* write rests on an account that changed since it was read.
SavingsKept ==
  \A k \in Children \ mixed :
    /\ deposited[k] = returned[k] + savings[k]
    /\ savings[k] # 0 => IsActive(k)

\* A child spends no more points than it has, unless two requests read the same
\* balance or the monthly amount of the plan is more than it has
\* (createTransaction: insufficient_points).
NoOverdraft ==
  \A k \in Children \ (mixed \cup short) : balance[k] >= 0

\* Every setting of the allowance that was in force is kept in the history, as
\* long as no two requests replace the same one (upsertAllowancePlan).
HistoryKept ==
  \A k \in Children \ mixed : settings[k] \subseteq history[k] \cup {allowance[k]}

\* A plan that has matured has paid back all that was put into it.
PrincipalPaidBack ==
  \A k \in Children :
    plan[k] # None /\ plan[k].status = "MATURED" => returned[k] >= deposited[k]

=============================================================================
