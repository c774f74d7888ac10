-------------------------- MODULE RecurringExpenses --------------------------
(***************************************************************************)
(* The recurring expenses of a household, and the expenses made of them.    *)
(*                                                                         *)
(* A recurring expense has a day of the month, perhaps a first month and a   *)
(* number of months.  Creating one with a first month makes the expenses of   *)
(* all months up to now in a second transaction; a daily job, on every       *)
(* instance and without a lock, makes those of today: it lists the active     *)
(* ones, ends those whose months are over, looks for an expense of today for  *)
(* each that is due, and inserts the missing ones in one transaction.        *)
(*                                                                         *)
(* An expense is known by its recurring expense and its date.  Amounts,      *)
(* confirmation, categories and merchants are left out; expenses entered by   *)
(* hand share nothing with these.  The notifications sent after the commit     *)
(* change no state.                                                       *)
(***************************************************************************)
EXTENDS Integers, Sequences

CONSTANTS Recs,        \* ids of recurring expenses
          Servers,     \* the instances that run the job
          Handlers,    \* the requests that can be on their way at once
          Calendar,    \* the days: a sequence of [month, day, last]
          NewRecs,     \* create requests: [day, start, total]
          Changes,     \* update requests: [day, start, total, active], perhaps Keep
          None,        \* no row, no month, no number of months, no request
          Keep,        \* a field an update request leaves out
          MaxRequests, \* bound: requests in all
          MaxFaults    \* bound: crashes and failures

Days   == 1..Len(Calendar)
Months == {Calendar[d].month : d \in Days}

LastOf(m) == CHOOSE d \in Days : Calendar[d].month = m

\* The days of a month that the calendar has.
Dates == UNION {{<<Calendar[i].month, d>> : d \in 1..Calendar[i].last} : i \in Days}

VARIABLES
  today,    \* the day in KST
  recs,     \* recurring_expenses: the row of each id, or None
  gone,     \* ids of deleted rows
  expenses, \* number of expenses per recurring expense and date
  request,  \* per handler: the rest of a creation, or None
  fired,    \* servers whose timer has fired today
  run,      \* per server: the run of the job
  up,       \* servers that run
  requests, \* counts the requests
  faults,   \* counts the faults
  since,    \* ghost: day of the last change of each row
  crossed,  \* ghost: rows looked up while another was about to insert for them
  shifted,  \* ghost: rows with an expense moved or deleted, or another day
  troubled  \* ghost: days on which the job failed or could not run

jobVars == <<fired, run, up, troubled>>
recVars == <<recs, gone, since>>
vars == <<today, recVars, expenses, request, jobVars, requests, faults, crossed, shifted>>

Idle == [stage |-> "idle", todo |-> {}, over |-> {}, make |-> {}]

Init ==
  /\ today = 1
  /\ recs = [r \in Recs |-> None] /\ gone = {}
  /\ expenses = [r \in Recs |-> [d \in Dates |-> 0]]
  /\ request = [h \in Handlers |-> None]
  /\ fired = {} /\ up = Servers
  /\ run = [s \in Servers |-> Idle]
  /\ requests = 0 /\ faults = 0
  /\ since = [r \in Recs |-> 0]
  /\ crossed = {} /\ shifted = {} /\ troubled = {}

Live == {r \in Recs : recs[r] # None}

Month == Calendar[today].month

\* clampDayOfMonth.
Clamp(m, day) == IF day > Calendar[LastOf(m)].last THEN Calendar[LastOf(m)].last ELSE day

\* isRecurringExpenseEnded.
Ended(rec, m) ==
  rec.start # None /\ rec.total # None /\ m > rec.start + rec.total - 1

\* listMonthsFromStartToNow, and the filter of backfillRecurringExpense.
MonthsToFill(rec) ==
  {m \in Months : rec.start <= m /\ m <= Month /\ ~Ended(rec, m)}

\* Rows about to get expenses from a run or a creation other than x.
AboutToInsert(x) ==
  (UNION {{e.rec : e \in run[s].make} : s \in Servers \ {x}})
    \cup {request[h].rec : h \in {y \in Handlers \ {x} : request[y] # None}}

-----------------------------------------------------------------------------
(* Requests.                                                               *)

NewRequest == requests < MaxRequests /\ requests' = requests + 1
Fault   == faults < MaxFaults /\ faults' = faults + 1
Trouble == troubled' = troubled \cup {today}

\* What the validation of the requests lets through.
CreateRecurringExpenseDto ==
  [day : 1..31, start : {None} \cup Months, total : {None} \cup (Nat \ {0})]

UpdateRecurringExpenseDto ==
  [day : {Keep} \cup (1..31), start : {Keep} \cup Months, total : {None, Keep} \cup (Nat \ {0}),
   active : {Keep} \cup BOOLEAN]

\* createRecurringExpense: the row; with a first month the request goes on.
CreateRecurring(h, r, dto) ==
  /\ dto \in CreateRecurringExpenseDto
  /\ request[h] = None /\ r \notin Live \cup gone
  /\ NewRequest
  /\ dto.total # None => dto.start # None
  /\ LET row == [day |-> dto.day, start |-> dto.start, total |-> dto.total, active |-> TRUE]
     IN /\ recs' = [recs EXCEPT ![r] = row]
        /\ request' = [request EXCEPT ![h] =
             IF dto.start = None THEN None
             ELSE [rec |-> r, row |-> row, stage |-> "look", make |-> {}]]
  /\ since' = [since EXCEPT ![r] = today]
  /\ UNCHANGED <<today, gone, expenses, jobVars, faults, crossed, shifted>>

\* backfillRecurringExpense: the months are looked up one by one.  Only the date of
\* this month can get an expense from elsewhere meanwhile.
BackfillLook(h) ==
  /\ request[h] # None /\ request[h].stage = "look"
  /\ LET r == request[h].rec
         row == request[h].row
         all == {<<m, Clamp(m, row.day)>> : m \in MonthsToFill(row)}
     IN /\ request' = [request EXCEPT ![h].stage = "make",
                                      ![h].make = {d \in all : expenses[r][d] = 0}]
        /\ crossed' = IF r \in AboutToInsert(h) THEN crossed \cup {r} ELSE crossed
  /\ UNCHANGED <<today, recVars, expenses, jobVars, requests, faults, shifted>>

\* The transaction, which refers to the row: when it is gone, nothing is made.
BackfillMake(h) ==
  /\ request[h] # None /\ request[h].stage = "make"
  /\ LET r == request[h].rec IN
       expenses' = IF r \in Live
         THEN [expenses EXCEPT ![r] = [d \in Dates |->
                 expenses[r][d] + IF d \in request[h].make THEN 1 ELSE 0]]
         ELSE expenses
  /\ request' = [request EXCEPT ![h] = None]
  /\ UNCHANGED <<today, recVars, jobVars, requests, faults, crossed, shifted>>

\* The server stops, or the transaction fails: the row stays without the past.
BackfillCut(h) ==
  /\ request[h] # None
  /\ Fault
  /\ request' = [request EXCEPT ![h] = None]
  /\ UNCHANGED <<today, recVars, expenses, jobVars, requests, crossed, shifted>>

Given(new, old) == IF new = Keep THEN old ELSE new

\* updateRecurringExpense.  The check rests on the row as read, but no update takes
\* a first month away, so what it saw still holds at the write.
UpdateRecurring(r, dto) ==
  /\ dto \in UpdateRecurringExpenseDto
  /\ r \in Live
  /\ NewRequest
  /\ Given(dto.total, recs[r].total) # None => Given(dto.start, recs[r].start) # None
  /\ LET row == recs[r] IN
       recs' = [recs EXCEPT ![r] =
         [day |-> Given(dto.day, row.day), start |-> Given(dto.start, row.start),
          total |-> Given(dto.total, row.total), active |-> Given(dto.active, row.active)]]
  /\ since' = [since EXCEPT ![r] = today]
  /\ shifted' = IF dto.day = Keep THEN shifted ELSE shifted \cup {r}
  /\ UNCHANGED <<today, gone, expenses, request, jobVars, faults, crossed>>

\* removeRecurringExpense: its expenses stay, without a link to it.
RemoveRecurring(r) ==
  /\ r \in Live
  /\ NewRequest
  /\ recs' = [recs EXCEPT ![r] = None]
  /\ gone' = gone \cup {r}
  /\ expenses' = [expenses EXCEPT ![r] = [d \in Dates |-> 0]]
  /\ UNCHANGED <<today, request, jobVars, since, faults, crossed, shifted>>

\* updateExpense with a date.
MoveExpense(r, from, to) ==
  /\ from # to /\ expenses[r][from] > 0
  /\ NewRequest
  /\ expenses' = [expenses EXCEPT ![r][from] = @ - 1, ![r][to] = @ + 1]
  /\ shifted' = shifted \cup {r}
  /\ UNCHANGED <<today, recVars, request, jobVars, faults, crossed>>

\* removeExpense.
RemoveExpense(r, d) ==
  /\ expenses[r][d] > 0
  /\ NewRequest
  /\ expenses' = [expenses EXCEPT ![r][d] = @ - 1]
  /\ shifted' = shifted \cup {r}
  /\ UNCHANGED <<today, recVars, request, jobVars, faults, crossed>>

-----------------------------------------------------------------------------
(* autoGenerateRecurringExpenses.                                          *)

\* The active rows are listed.
Fire(s) ==
  /\ s \in up \ fired
  /\ fired' = fired \cup {s}
  /\ LET list == {[rec |-> r, row |-> recs[r]] : r \in {x \in Live : recs[x].active}}
         over == {e \in list : Ended(e.row, Month)}
     IN run' = [run EXCEPT ![s] =
          [stage |-> "end", over |-> {e.rec : e \in over}, make |-> {},
           todo |-> {e \in list \ over : Clamp(Month, e.row.day) = Calendar[today].day}]]
  /\ UNCHANGED <<today, recVars, expenses, request, up, troubled, requests, faults,
                 crossed, shifted>>

\* Those whose months are over, as listed, are made inactive.
EndOver(s) ==
  /\ run[s].stage = "end"
  /\ recs' = [r \in Recs |->
       IF r \in run[s].over \cap Live THEN [recs[r] EXCEPT !.active = FALSE] ELSE recs[r]]
  /\ run' = [run EXCEPT ![s].stage = "look", ![s].over = {}]
  /\ UNCHANGED <<today, gone, since, expenses, request, fired, up, troubled, requests,
                 faults, crossed, shifted>>

\* Variant: it is not asked whether there is an expense of today.
LookNowhere(s) ==
  /\ run[s].stage = "look"
  /\ \E e \in run[s].todo :
       run' = [run EXCEPT ![s].todo = @ \ {e}, ![s].make = @ \cup {e}]
  /\ UNCHANGED <<today, recVars, expenses, request, fired, up, troubled, requests,
                 faults, crossed, shifted>>

\* One row that is due: has it an expense of today?
Look(s) ==
  /\ run[s].stage = "look"
  /\ \E e \in run[s].todo :
       /\ run' = [run EXCEPT ![s].todo = @ \ {e},
            ![s].make = IF expenses[e.rec][<<Month, Calendar[today].day>>] > 0
                          THEN @ ELSE @ \cup {e}]
       /\ crossed' = IF e.rec \in AboutToInsert(s) THEN crossed \cup {e.rec} ELSE crossed
  /\ UNCHANGED <<today, recVars, expenses, request, fired, up, troubled, requests,
                 faults, shifted>>

\* The transaction: all of them, or none when one of the rows is gone.
Generate(s) ==
  /\ run[s].stage = "look" /\ run[s].todo = {}
  /\ LET made == {e.rec : e \in run[s].make}
         date == <<Month, Calendar[today].day>>
     IN IF made \subseteq Live
          THEN /\ expenses' = [r \in Recs |->
                    IF r \in made THEN [expenses[r] EXCEPT ![date] = @ + 1] ELSE expenses[r]]
               /\ UNCHANGED troubled
          ELSE Trouble /\ UNCHANGED expenses
  /\ run' = [run EXCEPT ![s] = Idle]
  /\ UNCHANGED <<today, recVars, request, fired, up, requests, faults, crossed, shifted>>

\* A query fails: the run ends.
JobFails(s) ==
  /\ run[s].stage # "idle"
  /\ Fault /\ Trouble
  /\ run' = [run EXCEPT ![s] = Idle]
  /\ UNCHANGED <<today, recVars, expenses, request, fired, up, requests, crossed, shifted>>

Crash(s) ==
  /\ s \in up
  /\ Fault /\ Trouble
  /\ up' = up \ {s}
  /\ run' = [run EXCEPT ![s] = Idle]
  /\ UNCHANGED <<today, recVars, expenses, request, fired, requests, crossed, shifted>>

\* The minute of the job has passed when a server starts again in the day.
Boot(s) ==
  /\ s \notin up
  /\ up' = up \cup {s} /\ fired' = fired \cup {s}
  /\ UNCHANGED <<today, recVars, expenses, request, run, troubled, requests, faults,
                 crossed, shifted>>

\* The timers have fired and the runs have ended.
DayPasses ==
  /\ today < Len(Calendar)
  /\ up \subseteq fired /\ \A s \in Servers : run[s] = Idle
  /\ today' = today + 1 /\ fired' = {}
  /\ troubled' = IF up = {} THEN troubled \cup {today + 1} ELSE troubled
  /\ UNCHANGED <<recVars, expenses, request, run, up, requests, faults, crossed, shifted>>

-----------------------------------------------------------------------------
Household ==
  \/ \E h \in Handlers : \/ \E r \in Recs, dto \in NewRecs : CreateRecurring(h, r, dto)
                         \/ BackfillLook(h) \/ BackfillMake(h) \/ BackfillCut(h)
  \/ \E r \in Recs : \/ RemoveRecurring(r)
                     \/ \E dto \in Changes : UpdateRecurring(r, dto)
                     \/ \E d \in Dates : RemoveExpense(r, d) \/ \E e \in Dates : MoveExpense(r, d, e)

Job(s) ==
  \/ Fire(s) \/ EndOver(s) \/ Look(s) \/ Generate(s)
  \/ JobFails(s) \/ Crash(s) \/ Boot(s)

Next == Household \/ (\E s \in Servers : Job(s)) \/ DayPasses

Spec == Init /\ [][Next]_vars

-----------------------------------------------------------------------------
Rec == [day : 1..31, start : {None} \cup Months, total : {None} \cup (Nat \ {0}),
        active : BOOLEAN]

Entry    == [rec : Recs, row : Rec]
Creation == [rec : Recs, row : Rec, stage : {"look", "make"}, make : SUBSET Dates]
Run      == [stage : {"idle", "end", "look"}, todo : SUBSET Entry, over : SUBSET Recs,
             make : SUBSET Entry]

\* What the theorems assume of the constants.
ConstantsAssumption ==
  /\ Calendar \in Seq([month : Nat, day : Nat, last : Nat]) /\ Calendar # <<>>
  /\ \A d \in Days : Calendar[d].day \in 1..Calendar[d].last
  /\ None \notin Rec /\ Servers \cap Handlers = {}
  /\ MaxRequests \in Nat /\ MaxFaults \in Nat

TypeOK ==
  /\ today \in Days
  /\ recs \in [Recs -> {None} \cup Rec] /\ gone \subseteq Recs
  /\ expenses \in [Recs -> [Dates -> Nat]]
  /\ request \in [Handlers -> {None} \cup Creation]
  /\ fired \subseteq Servers /\ up \subseteq Servers
  /\ run \in [Servers -> Run]
  /\ requests \in 0..MaxRequests /\ faults \in 0..MaxFaults
  /\ since \in [Recs -> 0..Len(Calendar)] /\ troubled \subseteq Days
  /\ crossed \subseteq Recs /\ shifted \subseteq Recs

\* A recurring expense makes one expense a month, and no more: not where the job and
\* the creation, or two runs of the job, meet without having looked at the same time;
\* and on a day without trouble the expense of an active one, unchanged since the day
\* before, is not missed, whichever other row had to be ended first.  Moving or
\* deleting an expense, or moving the day, is the user's own doing.
\* (autoGenerateRecurringExpenses and backfillRecurringExpense: the query before the
\* insert is all that keeps duplicates away.)
GeneratedOnce ==
  \A r \in Live \ shifted :
    /\ r \notin crossed =>
         \A d \in Dates :
           /\ expenses[r][d] <= 1
           /\ \A e \in Dates \ {d} : d[1] = e[1] => expenses[r][d] = 0 \/ expenses[r][e] = 0
    /\ \A d \in Days \ troubled :
         since[r] < d /\ d < today /\ recs[r].active /\ ~Ended(recs[r], Calendar[d].month)
           /\ Clamp(Calendar[d].month, recs[r].day) = Calendar[d].day
           => expenses[r][<<Calendar[d].month, Calendar[d].day>>] > 0

=============================================================================
