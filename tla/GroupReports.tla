---------------------------- MODULE GroupReports ----------------------------
(***************************************************************************)
(* The reports a user makes about members of his groups, and what             *)
(* administrators decide of them.                                           *)
(*                                                                         *)
(* A user reports a member of a group once (a unique key) and may make a         *)
(* number of reports in a day: a counter in Redis is read, after the report read   *)
(* again and stored with one more and a new day to live.  A target is a member of  *)
(* a group; who is one changes in GroupMembership and is looked up once.        *)
(***************************************************************************)
EXTENDS Integers, FiniteSets

CONSTANTS Targets, Handlers, None,
          Limit,                 \* REPORT_RATE_LIMIT
          MaxRequests, MaxFaults \* bounds

VARIABLES
  reports,  \* per target, the status, or None
  counter,  \* report:ratelimit:{user}, 0 if there is none
  request,  \* per handler, what it has read
  requests, faults,
  made,     \* ghost: reports made since the counter was last gone
  missed,   \* ghost: a report is not counted: two at once, or a failure
  decided,  \* ghost: per target, the first decision
  raced     \* ghost: targets decided by two at once

ghosts == <<made, missed, decided, raced>>
vars == <<reports, counter, request, requests, faults, ghosts>>

Decisions == {"RESOLVED", "DISMISSED"}

Init ==
  /\ reports = [t \in Targets |-> None] /\ counter = 0
  /\ request = [h \in Handlers |-> None] /\ requests = 0 /\ faults = 0
  /\ made = 0 /\ missed = FALSE /\ decided = [t \in Targets |-> None] /\ raced = {}

-----------------------------------------------------------------------------
Begin(h, r) ==
  /\ request[h] = None /\ requests < MaxRequests
  /\ requests' = requests + 1 /\ request' = [request EXCEPT ![h] = r]
At(h, stage) == request[h] # None /\ request[h].stage = stage
Done(h) == request' = [request EXCEPT ![h] = None]
Reporting == {h \in Handlers : request[h] # None /\ request[h].stage # "resolve"}

\* checkRateLimit.
Report(h, t) ==
  /\ counter < Limit
  /\ Begin(h, [stage |-> "look", target |-> t])
  /\ missed' = (missed \/ Reporting # {})
  /\ UNCHANGED <<reports, counter, faults, made, decided, raced>>

\* reportMember: both are members, and there is no report yet.
Look(h) ==
  /\ At(h, "look")
  /\ \/ reports[request[h].target] = None /\ request' = [request EXCEPT ![h].stage = "create"]
     \/ Done(h)
  /\ UNCHANGED <<reports, counter, requests, faults, ghosts>>

\* The key refuses a second report of the target.
Create(h) ==
  /\ At(h, "create")
  /\ LET t == request[h].target IN
       IF reports[t] = None
         THEN /\ reports' = [reports EXCEPT ![t] = "PENDING"] /\ made' = made + 1
              /\ request' = [request EXCEPT ![h].stage = "count"]
         ELSE Done(h) /\ UNCHANGED <<reports, made>>
  /\ UNCHANGED <<counter, requests, faults, missed, decided, raced>>

\* incrementRateLimit: it is read, and set.
Count(h) ==
  /\ At(h, "count")
  /\ request' = [request EXCEPT ![h] =
       [stage |-> "set", target |-> request[h].target,
        n |-> counter + 1]]
  /\ UNCHANGED <<reports, counter, requests, faults, ghosts>>

\* Variant: the counter starts again with every report.
CountAnew(h) ==
  /\ At(h, "set")
  /\ counter' = 1 /\ Done(h)
  /\ UNCHANGED <<reports, requests, faults, ghosts>>

SetCount(h) ==
  /\ At(h, "set")
  /\ counter' = request[h].n /\ Done(h)
  /\ UNCHANGED <<reports, requests, faults, ghosts>>

\* Redis fails, after the report was stored.
CountFails(h) ==
  /\ At(h, "count") \/ At(h, "set")
  /\ faults < MaxFaults /\ faults' = faults + 1
  /\ Done(h) /\ missed' = TRUE
  /\ UNCHANGED <<reports, counter, requests, made, decided, raced>>

\* A day after the last report that was counted.
Expire ==
  /\ counter # 0
  /\ counter' = 0 /\ made' = 0 /\ missed' = (Reporting # {})
  /\ UNCHANGED <<reports, request, requests, faults, decided, raced>>

-----------------------------------------------------------------------------
\* Variant: a decision can be taken back.
ResolveAny(h, t, status) ==
  /\ reports[t] # None
  /\ Begin(h, [stage |-> "resolve", target |-> t, status |-> status])
  /\ UNCHANGED <<reports, counter, faults, ghosts>>

\* adminResolveReport: not decided yet, and stored.
ResolveRead(h, t, status) ==
  /\ reports[t] # None /\ reports[t] \notin Decisions
  /\ Begin(h, [stage |-> "resolve", target |-> t, status |-> status])
  /\ raced' = IF \E o \in Handlers : At(o, "resolve") /\ request[o].target = t
                THEN raced \cup {t} ELSE raced
  /\ UNCHANGED <<reports, counter, faults, made, missed, decided>>

ResolveWrite(h) ==
  /\ At(h, "resolve")
  /\ LET r == request[h] IN
       /\ reports' = [reports EXCEPT ![r.target] = r.status]
       /\ decided' = IF r.status \in Decisions /\ decided[r.target] = None
                       THEN [decided EXCEPT ![r.target] = r.status] ELSE decided
  /\ Done(h)
  /\ UNCHANGED <<counter, requests, faults, made, missed, raced>>

Next ==
  \/ \E h \in Handlers :
       \/ \E t \in Targets : \/ Report(h, t)
                             \/ \E status \in Decisions \cup {"REVIEWING"} : ResolveRead(h, t, status)
       \/ Look(h) \/ Create(h) \/ Count(h) \/ SetCount(h) \/ CountFails(h) \/ ResolveWrite(h)
  \/ Expire

Spec == Init /\ [][Next]_vars

-----------------------------------------------------------------------------
Statuses == Decisions \cup {"PENDING", "REVIEWING"}
Request ==
  [stage : {"look", "create", "count"}, target : Targets]
  \cup [stage : {"set"}, target : Targets, n : Nat]
  \cup [stage : {"resolve"}, target : Targets, status : Decisions \cup {"REVIEWING"}]

\* What the theorems assume of the constants.
ConstantsAssumption ==
  /\ Limit \in Nat /\ MaxRequests \in Nat /\ MaxFaults \in Nat
  /\ None \notin Statuses \cup Request

TypeOK ==
  /\ reports \in [Targets -> Statuses \cup {None}]
  /\ request \in [Handlers -> {None} \cup Request]
  /\ requests \in 0..MaxRequests /\ faults \in 0..MaxFaults
  /\ counter \in Nat /\ made \in Nat /\ missed \in BOOLEAN
  /\ decided \in [Targets -> Decisions \cup {None}] /\ raced \subseteq Targets

\* No more than Limit reports are made before a day without one, unless two were on their
\* way at once or one could not be counted; and the first decision stays, unless two were
\* made at once (GroupReportService).
ReportsBounded ==
  /\ missed \/ made <= Limit
  /\ \A t \in Targets : decided[t] # None /\ t \notin raced => reports[t] = decided[t]

=============================================================================
