------------------------------ MODULE Routines -------------------------------
(***************************************************************************)
(* A routine of a user: how often it is due, its checks and badges, its        *)
(* pauses, and the group and category the user has put it in.                *)
(*                                                                         *)
(* Every request reads what it checks and then writes by id, in a transaction   *)
(* of its own.  The status of the routine and the rows of its pauses are two     *)
(* tables that only the order of the requests keeps together; a check is        *)
(* followed by an evaluation of badges, whose failure is swallowed.            *)
(***************************************************************************)
EXTENDS Integers, Sequences, FiniteSets

CONSTANTS Handlers,    \* the requests that can be on their way at once
          Creations,   \* create requests: [freq, mode, count, days, group, link]
          Updates,     \* update requests: the same, fields perhaps Keep
          Badges,      \* the badges for a number of checks
          None, Keep,  \* no row or value; a field a request leaves out
          MaxDays, MaxRequests, MaxFaults \* bounds: days, requests, failures

Days == 1..MaxDays

VARIABLES
  today,
  routine,  \* the row, or None
  pauses,   \* rows [from, to] by id, to = None while open
  logs,     \* days with a check; the table has one row per day
  earned,   \* badges
  group,    \* routine_groups: "live" or "deleted"
  category, \* routine_categories: "live" or "deleted"
  request,  \* per handler: what it has read
  requests, faults, \* counts
  raced,    \* ghost: kinds of writes that went through on changed grounds
  unjudged  \* ghost: an evaluation of badges failed

rowVars == <<routine, pauses, logs, earned, group, category>>
vars == <<today, rowVars, request, requests, faults, raced, unjudged>>

Init ==
  /\ today = 1 /\ routine = None /\ pauses = <<>> /\ logs = {} /\ earned = {}
  /\ group = "live" /\ category = "live"
  /\ request = [h \in Handlers |-> None]
  /\ requests = 0 /\ faults = 0 /\ raced = {} /\ unjudged = FALSE

NewRequest == requests < MaxRequests /\ requests' = requests + 1
Begin(h, kind, more) ==
  /\ request[h] = None /\ NewRequest
  /\ request' = [request EXCEPT ![h] = [kind |-> kind, seen |-> routine, more |-> more]]
Doing(h, kind) == request[h] # None /\ request[h].kind = kind
Goto(h, kind, more) == request' = [request EXCEPT ![h].kind = kind, ![h].more = more]
Done(h) == request' = [request EXCEPT ![h] = None]
Note(kind, when) == raced' = IF when THEN raced \cup {kind} ELSE raced

\* findOwnRoutine: ended routines are not found.
Found == routine # None /\ ~routine.deleted

\* validateFrequencyCombo.
ValidCombo(r) ==
  \/ r.freq = "DAILY" /\ r.mode = None /\ ~r.count /\ ~r.days
  \/ r.freq = "WEEKLY" /\ r.mode = "COUNT_ONLY" /\ r.count /\ ~r.days
  \/ r.freq = "WEEKLY" /\ r.mode = "FIXED_DAYS" /\ ~r.count /\ r.days
  \/ r.freq = "MONTHLY" /\ r.mode = None /\ r.count /\ ~r.days

\* findOwnRoutineGroup, findOwnRoutineCategory.
PlacesLive(dto) ==
  /\ dto.group \notin {None, Keep} => group = "live"
  /\ dto.link \notin {FALSE, Keep} => category = "live"

-----------------------------------------------------------------------------
(* The routine.                                                            *)

\* What the validation of a create request lets through.
CreateRoutineDto ==
  [freq : {"DAILY", "WEEKLY", "MONTHLY"}, mode : {None, "COUNT_ONLY", "FIXED_DAYS"},
   count : BOOLEAN, days : BOOLEAN, group : {None, "g"}, link : BOOLEAN]

CreateRead(h, dto) ==
  /\ dto \in CreateRoutineDto
  /\ routine = None /\ \A o \in Handlers : ~Doing(o, "create")
  /\ ValidCombo(dto) /\ PlacesLive(dto)
  /\ Begin(h, "create", dto)
  /\ UNCHANGED <<today, rowVars, faults, raced, unjudged>>

CreateWrite(h) ==
  /\ Doing(h, "create")
  /\ LET dto == request[h].more IN
       /\ routine' = [freq |-> dto.freq, mode |-> dto.mode, count |-> dto.count,
                      days |-> dto.days, group |-> dto.group, link |-> dto.link,
                      status |-> "ACTIVE", deleted |-> FALSE]
       /\ Note("place", ~PlacesLive(dto))
  /\ Done(h)
  /\ UNCHANGED <<today, pauses, logs, earned, group, category, requests, faults, unjudged>>

Given(new, old) == IF new = Keep THEN old ELSE new
Merged(dto, r) ==
  [r EXCEPT !.freq = Given(dto.freq, @), !.mode = Given(dto.mode, @),
            !.count = Given(dto.count, @), !.days = Given(dto.days, @),
            !.group = Given(dto.group, @), !.link = Given(dto.link, @)]

Combo(r) == <<r.freq, r.mode, r.count, r.days>>

UpdateRead(h, dto) ==
  /\ Found /\ ValidCombo(Merged(dto, routine)) /\ PlacesLive(dto)
  /\ Begin(h, "update", dto)
  /\ UNCHANGED <<today, rowVars, faults, raced, unjudged>>

\* update: the columns given, whatever the others have become.
UpdateWrite(h) ==
  /\ Doing(h, "update")
  /\ LET dto == request[h].more IN
       /\ routine' = Merged(dto, routine)
       /\ raced' = raced
            \cup (IF Combo(Merged(dto, routine)) = Combo(Merged(dto, request[h].seen))
                  THEN {} ELSE {"combo"})
            \cup (IF PlacesLive(dto) THEN {} ELSE {"place"})
  /\ Done(h)
  /\ UNCHANGED <<today, pauses, logs, earned, group, category, requests, faults, unjudged>>

\* pause, resume and end read the routine; the last two look for an open pause.
OpenPauses == {i \in DOMAIN pauses : pauses[i].to = None}
Newest == IF OpenPauses = {} THEN None
          ELSE CHOOSE i \in OpenPauses : \A j \in OpenPauses : pauses[j].from <= pauses[i].from
Close(i) == IF i = None THEN pauses ELSE [pauses EXCEPT ![i].to = today]

PauseRead(h) ==
  /\ Found /\ routine.status = "ACTIVE"
  /\ Begin(h, "pause", None)
  /\ UNCHANGED <<today, rowVars, faults, raced, unjudged>>

PauseWrite(h) ==
  /\ Doing(h, "pause")
  /\ routine' = [routine EXCEPT !.status = "PAUSED"]
  /\ pauses' = Append(pauses, [from |-> today, to |-> None])
  /\ Note("pause", routine.status # "ACTIVE")
  /\ Done(h)
  /\ UNCHANGED <<today, logs, earned, group, category, requests, faults, unjudged>>

\* Variant: only the status is set.
ResumeStatus(h) ==
  /\ Doing(h, "resume")
  /\ routine' = [routine EXCEPT !.status = "ACTIVE"]
  /\ Note("pause", routine.status # "PAUSED" \/ Newest # request[h].more)
  /\ Done(h)
  /\ UNCHANGED <<today, pauses, logs, earned, group, category, requests, faults, unjudged>>

ResumeRead(h) ==
  /\ Found /\ routine.status = "PAUSED"
  /\ Begin(h, "resume", Newest)
  /\ UNCHANGED <<today, rowVars, faults, raced, unjudged>>

ResumeWrite(h) ==
  /\ Doing(h, "resume")
  /\ routine' = [routine EXCEPT !.status = "ACTIVE"]
  /\ pauses' = Close(request[h].more)
  /\ Note("pause", routine.status # "PAUSED" \/ Newest # request[h].more)
  /\ Done(h)
  /\ UNCHANGED <<today, logs, earned, group, category, requests, faults, unjudged>>

EndRead(h) ==
  /\ Found
  /\ Begin(h, "end", IF routine.status = "PAUSED" THEN Newest ELSE None)
  /\ UNCHANGED <<today, rowVars, faults, raced, unjudged>>

EndWrite(h) ==
  /\ Doing(h, "end")
  /\ routine' = [routine EXCEPT !.status = "ENDED", !.deleted = TRUE]
  /\ pauses' = Close(request[h].more)
  /\ Note("pause", routine.status # request[h].seen.status \/ Newest # request[h].more)
  /\ Done(h)
  /\ UNCHANGED <<today, logs, earned, group, category, requests, faults, unjudged>>

-----------------------------------------------------------------------------
(* Checks and badges.                                                      *)

CheckRead(h, d) ==
  /\ Found /\ routine.status = "ACTIVE" /\ d <= today /\ d \notin logs
  /\ Begin(h, "check", d)
  /\ UNCHANGED <<today, rowVars, faults, raced, unjudged>>

\* The table refuses a second row for the day.
CheckWrite(h) ==
  /\ Doing(h, "check")
  /\ logs' = logs \cup {request[h].more}
  /\ IF request[h].more \in logs THEN Done(h) ELSE Goto(h, "earned", None)
  /\ UNCHANGED <<today, routine, pauses, earned, group, category, requests, faults, raced,
                 unjudged>>

\* evaluateAndAward: the badges there are, the checks, the new badges.
ReadEarned(h) ==
  /\ Doing(h, "earned")
  /\ Goto(h, "count", Badges \ earned)
  /\ UNCHANGED <<today, rowVars, requests, faults, raced, unjudged>>

CountChecks(h) ==
  /\ Doing(h, "count")
  /\ Goto(h, "award", {b \in request[h].more : Cardinality(logs) >= b})
  /\ UNCHANGED <<today, rowVars, requests, faults, raced, unjudged>>

\* All or none: a badge that another evaluation has created fails the transaction.
Award(h) ==
  /\ Doing(h, "award")
  /\ IF request[h].more \cap earned = {}
       THEN earned' = earned \cup request[h].more /\ UNCHANGED unjudged
       ELSE unjudged' = TRUE /\ UNCHANGED earned
  /\ Done(h)
  /\ UNCHANGED <<today, routine, pauses, logs, group, category, requests, faults, raced>>

\* A query of the evaluation fails; check logs it and succeeds.
EvaluationFails(h) ==
  /\ \E k \in {"earned", "count", "award"} : Doing(h, k)
  /\ faults < MaxFaults /\ faults' = faults + 1
  /\ unjudged' = TRUE
  /\ Done(h)
  /\ UNCHANGED <<today, rowVars, requests, raced>>

Uncheck(d) ==
  /\ Found /\ d \in logs
  /\ NewRequest
  /\ logs' = logs \ {d}
  /\ UNCHANGED <<today, routine, pauses, earned, group, category, request, faults, raced,
                 unjudged>>

-----------------------------------------------------------------------------
(* Groups and categories.                                                  *)

\* RoutineGroupService.remove: the routines are moved out, and the row stays.
RemoveGroup ==
  /\ group = "live"
  /\ NewRequest
  /\ group' = "deleted"
  /\ routine' = IF routine = None THEN None ELSE [routine EXCEPT !.group = None]
  /\ UNCHANGED <<today, pauses, logs, earned, category, request, faults, raced, unjudged>>

\* RoutineCategoryService.remove: the links are deleted, and the row stays.
RemoveCategory ==
  /\ category = "live"
  /\ NewRequest
  /\ category' = "deleted"
  /\ routine' = IF routine = None THEN None ELSE [routine EXCEPT !.link = FALSE]
  /\ UNCHANGED <<today, pauses, logs, earned, group, request, faults, raced, unjudged>>

\* addCategory.
LinkRead(h) ==
  /\ Found /\ category = "live" /\ ~routine.link
  /\ Begin(h, "link", None)
  /\ UNCHANGED <<today, rowVars, faults, raced, unjudged>>

LinkWrite(h) ==
  /\ Doing(h, "link")
  /\ routine' = [routine EXCEPT !.link = TRUE]
  /\ Note("place", category # "live")
  /\ Done(h)
  /\ UNCHANGED <<today, pauses, logs, earned, group, category, requests, faults, unjudged>>

\* removeCategory.
Unlink ==
  /\ Found /\ routine.link
  /\ NewRequest
  /\ routine' = [routine EXCEPT !.link = FALSE]
  /\ UNCHANGED <<today, pauses, logs, earned, group, category, request, faults, raced,
                 unjudged>>

DayPasses ==
  /\ today < MaxDays
  /\ today' = today + 1
  /\ UNCHANGED <<rowVars, request, requests, faults, raced, unjudged>>

Next ==
  \/ \E h \in Handlers :
       \/ \E dto \in Creations : CreateRead(h, dto)
       \/ \E dto \in Updates : UpdateRead(h, dto)
       \/ \E d \in Days : CheckRead(h, d)
       \/ CreateWrite(h) \/ UpdateWrite(h) \/ PauseRead(h) \/ PauseWrite(h)
       \/ ResumeRead(h) \/ ResumeWrite(h) \/ EndRead(h) \/ EndWrite(h)
       \/ CheckWrite(h) \/ ReadEarned(h) \/ CountChecks(h) \/ Award(h)
       \/ EvaluationFails(h) \/ LinkRead(h) \/ LinkWrite(h)
  \/ \E d \in Days : Uncheck(d)
  \/ RemoveGroup \/ RemoveCategory \/ Unlink \/ DayPasses

Spec == Init /\ [][Next]_vars

-----------------------------------------------------------------------------
Row ==
  [freq : {"DAILY", "WEEKLY", "MONTHLY"}, mode : {None, "COUNT_ONLY", "FIXED_DAYS"},
   count : BOOLEAN, days : BOOLEAN, group : {None, "g"}, link : BOOLEAN,
   status : {"ACTIVE", "PAUSED", "ENDED"}, deleted : BOOLEAN]
Pause == [from : Days, to : {None} \cup Days]

UpdateRoutineDto ==
  [freq : {"DAILY", "WEEKLY", "MONTHLY", Keep}, mode : {None, "COUNT_ONLY", "FIXED_DAYS", Keep},
   count : BOOLEAN \cup {Keep}, days : BOOLEAN \cup {Keep}, group : {None, "g", Keep},
   link : BOOLEAN \cup {Keep}]

Request ==
  [kind : {"create"}, seen : {None}, more : CreateRoutineDto]
  \cup [kind : {"update"}, seen : Row, more : UpdateRoutineDto]
  \cup [kind : {"pause", "link", "earned"}, seen : Row, more : {None}]
  \cup [kind : {"resume", "end"}, seen : Row, more : {None} \cup Nat]
  \cup [kind : {"check"}, seen : Row, more : Days]
  \cup [kind : {"count", "award"}, seen : Row, more : SUBSET Badges]

ConstantsAssumption ==
  /\ Updates \subseteq UpdateRoutineDto
  /\ Badges \subseteq Nat \ {0}
  /\ Keep # None /\ Keep # "g" /\ Keep # TRUE
  /\ None \notin Row \cup Request \cup Nat
  /\ MaxDays \in Nat \ {0} /\ MaxRequests \in Nat /\ MaxFaults \in Nat

TypeOK ==
  /\ today \in Days
  /\ routine \in {None} \cup Row /\ pauses \in Seq(Pause)
  /\ logs \subseteq Days /\ earned \subseteq Badges
  /\ group \in {"live", "deleted"} /\ category \in {"live", "deleted"}
  /\ request \in [Handlers -> {None} \cup Request]
  /\ requests \in 0..MaxRequests /\ faults \in 0..MaxFaults
  /\ raced \subseteq {"pause", "combo", "place"} /\ unjudged \in BOOLEAN

Judging(h) == \E k \in {"check", "earned", "count", "award"} : Doing(h, k)

\* The tables of a routine tell one story, unless a write went through on a status,
\* combination, group or category that had changed since it was read: exactly one pause
\* is open while the routine is paused and none otherwise, so that a resumed routine is
\* not left out of every later day; the frequency is one that the statistics know; the
\* group and the category are not deleted ones; and the badges for the checks made are
\* there once the evaluations that did not fail are over (pause, resume, end, update,
\* check, RoutineGroupService.remove, evaluateAndAward).
RoutineTablesAgree ==
  routine # None =>
    /\ "pause" \notin raced =>
         Cardinality(OpenPauses) = IF routine.status = "PAUSED" THEN 1 ELSE 0
    /\ "combo" \notin raced => ValidCombo(routine)
    /\ "place" \notin raced => /\ routine.group # None => group = "live"
                               /\ routine.link => category = "live"
    /\ ~unjudged /\ (\A h \in Handlers : ~Judging(h)) =>
         {b \in Badges : Cardinality(logs) >= b} \subseteq earned

=============================================================================
