------------------------------- MODULE Budgets -------------------------------
(***************************************************************************)
(* The budgets of a household: per category and for the whole, by month,     *)
(* and the templates they are made of.                                     *)
(*                                                                         *)
(* Each table has a unique key of which a column is always NULL (a budget is  *)
(* a group's or a user's), so MySQL does not enforce it, and the service     *)
(* looks for the row first and then updates or inserts.  Only the template    *)
(* of the whole budget is a true upsert, by a key of one column.            *)
(*                                                                         *)
(* A request is the list of what it still has to look up and write.  One     *)
(* group stands for all.  Amounts are left out but for whether a budget was   *)
(* set by hand; access is checked before all else and changes nothing.       *)
(***************************************************************************)
EXTENDS Integers, FiniteSets, Sequences

CONSTANTS Categories,  \* categories of expenses
          Total,       \* stands for the whole budget
          Handlers,    \* the requests that can be on their way at once
          None,        \* no request
          MaxMonths,   \* bound: the months
          MaxRequests  \* bound: requests in all

Keys   == Categories \cup {Total}
Months == 1..MaxMonths

VARIABLES
  month,     \* this month
  templates, \* number of template rows per key
  budgets,   \* number of budget rows per key and month
  request,   \* per handler: [todo, found], or None
  requests,  \* counts the requests
  crossed,   \* ghost: keys looked up while another was about to insert for them, or
             \* whose template was deleted between the probe and the write
  registered \* ghost: keys whose template was registered this month

vars == <<month, templates, budgets, request, requests, crossed, registered>>

Init ==
  /\ month = 1
  /\ templates = [k \in Keys |-> 0]
  /\ budgets = [k \in Keys |-> [m \in Months |-> 0]]
  /\ request = [h \in Handlers |-> None]
  /\ requests = 0
  /\ crossed = {} /\ registered = {}

-----------------------------------------------------------------------------
(* The steps of a request.  "probe" of a template remembers whether it is     *)
(* new; "set" updates or inserts; "fill" inserts where there is nothing.     *)

Step(table, key, how) == [table |-> table, key |-> key, how |-> how]

\* upsertBudget, upsertGroupBudget: the month may be any.
SetBudget(k) == <<Step("budget", k, "set")>>

\* upsertBudgetTemplate, upsertGroupBudgetTemplate: only a new one fills the month.
SetTemplate(k) ==
  <<Step("template", k, "probe"), Step("template", k, "set"), Step("budget", k, "fillIfNew")>>

\* bulkUpsertBudget and bulkUpsertBudgetTemplate, for the whole and one category.
BulkBudget(c)   == <<Step("budget", Total, "set"), Step("budget", c, "set")>>
BulkTemplate(c) ==
  <<Step("template", Total, "set"), Step("budget", Total, "fill"),
    Step("template", c, "set"), Step("budget", c, "fill")>>

Plans == {SetBudget(k) : k \in Keys} \cup {SetTemplate(k) : k \in Keys}
           \cup {BulkBudget(c) : c \in Categories} \cup {BulkTemplate(c) : c \in Categories}

Begin(h, plan, m) ==
  /\ request[h] = None
  /\ m = month \/ \A i \in DOMAIN plan : plan[i].how = "set" /\ plan[i].table = "budget"
  /\ requests < MaxRequests /\ requests' = requests + 1
  /\ request' = [request EXCEPT ![h] =
       [todo |-> plan, found |-> "unknown", new |-> FALSE, month |-> m]]
  /\ UNCHANGED <<month, templates, budgets, crossed, registered>>

Head1(h)  == Head(request[h].todo)
Busy(h)   == request[h] # None /\ request[h].todo # <<>>
Rows(s, m) == IF s.table = "template" THEN templates[s.key] ELSE budgets[s.key][m]

\* Another request has found nothing and will insert the same row.
Racing(h) ==
  \E o \in Handlers \ {h} :
    /\ Busy(o) /\ request[o].found = "no"
    /\ Head1(o).table = Head1(h).table /\ Head1(o).key = Head1(h).key
    /\ request[o].month = request[h].month

Pop(h) == request' = [request EXCEPT ![h].todo = Tail(@), ![h].found = "unknown"]

\* findUnique before the upsert: is the template new?
Probe(h) ==
  /\ Busy(h) /\ Head1(h).how = "probe"
  /\ request' = [request EXCEPT ![h].todo = Tail(@),
                                ![h].new = (Rows(Head1(h), request[h].month) = 0)]
  /\ UNCHANGED <<month, templates, budgets, requests, crossed, registered>>

\* The template was not new: its month is left alone.
Skip(h) ==
  /\ Busy(h) /\ Head1(h).how = "fillIfNew" /\ ~request[h].new
  /\ Pop(h)
  /\ UNCHANGED <<month, templates, budgets, requests, crossed, registered>>

\* The template of the whole budget has a key of its own and no such step.
Upserts(s) == s.table = "template" /\ s.key = Total

\* Variant: an existing row is not found.
LookBlind(h) ==
  /\ Busy(h) /\ Head1(h).how \in {"set", "fill", "fillIfNew"} /\ request[h].found = "unknown"
  /\ Head1(h).how = "fillIfNew" => request[h].new
  /\ ~Upserts(Head1(h))
  /\ request' = [request EXCEPT ![h].found = "no"]
  /\ UNCHANGED <<month, templates, budgets, requests, crossed, registered>>

\* findFirst.
Look(h) ==
  /\ Busy(h) /\ Head1(h).how \in {"set", "fill", "fillIfNew"} /\ request[h].found = "unknown"
  /\ Head1(h).how = "fillIfNew" => request[h].new
  /\ ~Upserts(Head1(h))
  /\ request' = [request EXCEPT ![h].found =
                   IF Rows(Head1(h), request[h].month) > 0 THEN "yes" ELSE "no"]
  /\ crossed' = IF Racing(h) THEN crossed \cup {Head1(h).key} ELSE crossed
  /\ UNCHANGED <<month, templates, budgets, requests, registered>>

\* The template that the probe has seen is gone, and will be inserted.
Stale(h) ==
  /\ Head1(h).table = "template" /\ templates[Head1(h).key] = 0
  /\ Len(request[h].todo) > 1 /\ request[h].todo[2].how = "fillIfNew" /\ ~request[h].new

\* Update by id.  A template deleted since it was found is an error.
Update(h) ==
  /\ Busy(h) /\ request[h].found = "yes"
  /\ IF Head1(h).how = "set" /\ Rows(Head1(h), request[h].month) = 0
       THEN request' = [request EXCEPT ![h] = None]
       ELSE Pop(h)
  /\ UNCHANGED <<month, templates, budgets, requests, crossed, registered>>

Insert(h) ==
  /\ Busy(h) /\ request[h].found = "no"
  /\ LET s == Head1(h) IN
       /\ IF s.table = "template"
            THEN /\ templates' = [templates EXCEPT ![s.key] = @ + 1]
                 /\ registered' = registered \cup {s.key}
                 /\ UNCHANGED budgets
            ELSE /\ budgets' = [budgets EXCEPT ![s.key][request[h].month] = @ + 1]
                 /\ UNCHANGED <<templates, registered>>
       /\ crossed' = IF Stale(h) THEN crossed \cup {s.key} ELSE crossed
  /\ Pop(h)
  /\ UNCHANGED <<month, requests>>

\* groupBudgetTemplate.upsert.
Upsert(h) ==
  /\ Busy(h) /\ Head1(h).how = "set" /\ Upserts(Head1(h))
  /\ templates' = [templates EXCEPT ![Total] = 1]
  /\ registered' = IF templates[Total] = 0 THEN registered \cup {Total} ELSE registered
  /\ crossed' = IF Stale(h) THEN crossed \cup {Total} ELSE crossed
  /\ Pop(h)
  /\ UNCHANGED <<month, budgets, requests>>

End(h) ==
  /\ request[h] # None /\ request[h].todo = <<>>
  /\ request' = [request EXCEPT ![h] = None]
  /\ UNCHANGED <<month, templates, budgets, requests, crossed, registered>>

\* removeBudgetTemplate, removeGroupBudgetTemplate: one row, by its id.  The budgets
\* made of it stay.
RemoveTemplate(k) ==
  /\ requests < MaxRequests /\ requests' = requests + 1
  /\ templates[k] > 0
  /\ templates' = [templates EXCEPT ![k] = @ - 1]
  /\ registered' = registered \ {k}
  /\ UNCHANGED <<month, budgets, request, crossed>>

\* autoGenerateBudgetsFromTemplates, on the first of a month.  It looks a budget up
\* by the unique key with its NULL column, which Prisma refuses: the first template
\* ends the job, and nothing is made for any of them.
NextMonth ==
  /\ month < MaxMonths
  /\ \A h \in Handlers : request[h] = None
  /\ month' = month + 1
  /\ registered' = {}
  /\ UNCHANGED <<templates, budgets, request, requests, crossed>>

-----------------------------------------------------------------------------
Next ==
  \/ \E h \in Handlers : \/ \E plan \in Plans, m \in Months : Begin(h, plan, m)
                         \/ Probe(h) \/ Skip(h) \/ Look(h) \/ Update(h) \/ Insert(h)
                         \/ Upsert(h) \/ End(h)
  \/ \E k \in Keys : RemoveTemplate(k)
  \/ NextMonth

Spec == Init /\ [][Next]_vars

-----------------------------------------------------------------------------
Steps ==
  [table : {"template"}, key : Keys, how : {"probe", "set"}]
  \cup [table : {"budget"}, key : Keys, how : {"set", "fill", "fillIfNew"}]
Request ==
  [todo : Seq(Steps), found : {"unknown", "yes", "no"}, new : BOOLEAN, month : Months]

ConstantsAssumption ==
  /\ None \notin Request
  /\ MaxMonths \in Nat \ {0} /\ MaxRequests \in Nat

TypeOK ==
  /\ month \in Months
  /\ templates \in [Keys -> Nat] /\ budgets \in [Keys -> [Months -> Nat]]
  /\ request \in [Handlers -> {None} \cup Request]
  /\ requests \in 0..MaxRequests
  /\ crossed \subseteq Keys /\ registered \subseteq Keys

\* A template that was registered is still to fill this month of key k.
Filling(k) ==
  \E h \in Handlers :
    /\ Busy(h) /\ request[h].month = month
    /\ \E i \in DOMAIN request[h].todo : LET s == request[h].todo[i] IN
         /\ s.table = "budget" /\ s.key = k
         /\ s.how = "fill" \/ (s.how = "fillIfNew" /\ request[h].new)

\* There is one budget per key and month and one template per key, as the unique keys
\* would have it if they counted NULL, but for keys that two requests looked up at
\* once; and a template registered this month has its budget, unless another request
\* registered it at the same time and will fill the month (upsertBudgetRecord,
\* upsertBudgetTemplateRecord, upsertGroupBudgetRecord).
OneBudgetPerKey ==
  /\ \A k \in Keys \ crossed : templates[k] <= 1 /\ \A m \in Months : budgets[k][m] <= 1
  /\ \A k \in registered \ crossed : budgets[k][month] > 0 \/ Filling(k)

=============================================================================
