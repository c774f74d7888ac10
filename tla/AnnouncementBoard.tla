-------------------------- MODULE AnnouncementBoard --------------------------
(***************************************************************************)
(* An announcement as it is read: its row, the copies of it in Redis (alone   *)
(* and in a list), and its views, counted in Redis and carried to the row by  *)
(* a job every ten minutes.  The pushes are in AnnouncementNotifications.      *)
(*                                                                         *)
(* Reading is public, so that no user is known to the handlers and no mark of  *)
(* having read is ever made: the part of the code that keeps them has nothing    *)
(* to do.                                                                   *)
(***************************************************************************)
EXTENDS Integers

CONSTANTS Handlers, Servers,  \* requests at once; servers, each with the job
          None,               \* no row, no copy, no request, no run
          MaxRequests,        \* bound: requests in all
          MaxFaults           \* bound: commands that fail

VARIABLES
  row,      \* the announcement [text, pinned, alive], or None
  count,    \* the views of its row
  content,  \* the copy of the row in Redis [text, pinned], or None
  list,     \* the copy of a list: the announcements in it, each as in content, or None
  hits,     \* the counter in Redis; a counter that is not there is 0
  tracked,  \* the announcement is in the set of those that have views
  request,  \* per handler, what it has read
  job,      \* per server, the run [stage, n], or None
  requests, faults,
  views,    \* ghost: the views that were counted
  raced,    \* ghost: a view or a run of the job came between the steps of a run
  late      \* ghost: copies that were stored or kept past their invalidation, or re-pinned

vars == <<row, count, content, list, hits, tracked, request, job, requests, faults, views,
          raced, late>>
counting == <<count, hits, tracked, job, views, raced>>
copies == <<content, list, late>>

Init ==
  /\ row = None /\ count = 0 /\ content = None /\ list = None /\ hits = 0 /\ tracked = FALSE
  /\ request = [h \in Handlers |-> None] /\ job = [s \in Servers |-> None]
  /\ requests = 0 /\ faults = 0 /\ views = 0 /\ raced = FALSE /\ late = {}

NewRequest == requests < MaxRequests /\ requests' = requests + 1
NewFault == faults < MaxFaults /\ faults' = faults + 1
At(h, stage) == request[h] # None /\ request[h].stage = stage
Go(h, r) == request' = [request EXCEPT ![h] = r]
Done(h) == Go(h, None)
Exists == row # None /\ row.alive

\* What a query for announcements that are not deleted finds.
Found == IF Exists THEN {[text |-> row.text, pinned |-> row.pinned]} ELSE {}

\* The fills of a copy (by their stage) that have read the row, with what they have read out of date.
Outdated(req, copy) ==
  [h \in Handlers |-> IF req[h] # None /\ req[h].stage = copy
                        THEN [req[h] EXCEPT !.stale = TRUE] ELSE req[h]]

-----------------------------------------------------------------------------
\* create and update: written, its copies to be deleted; a new one is in lists only.
Create(h) ==
  /\ request[h] = None /\ row = None /\ NewRequest
  /\ row' = [text |-> 0, pinned |-> FALSE, alive |-> TRUE]
  /\ Go(h, [stage |-> "drop list"])
  /\ UNCHANGED <<faults, counting, copies>>

\* update and remove find the announcement first.
Find(h, do) ==
  /\ request[h] = None /\ Exists /\ NewRequest
  /\ Go(h, [stage |-> do])
  /\ UNCHANGED <<row, faults, counting, copies>>

\* The write, by the id alone: one that was deleted since is written all the same.
Write(h) ==
  /\ \/ At(h, "update") /\ \E p \in {row.pinned, TRUE} :
            row' = [row EXCEPT !.text = @ + 1, !.pinned = p]
     \/ At(h, "remove") /\ row' = [row EXCEPT !.alive = FALSE]
  /\ Go(h, [stage |-> "drop content"])
  /\ UNCHANGED <<requests, faults, counting, copies>>

DropContent(h) ==
  /\ At(h, "drop content")
  /\ content' = None /\ late' = late \ {"content"}
  /\ request' = Outdated([request EXCEPT ![h] = [stage |-> "drop list"]], "store content")
  /\ UNCHANGED <<row, list, requests, faults, counting>>

DropList(h) ==
  /\ At(h, "drop list")
  /\ list' = None /\ late' = late \ {"list"}
  /\ request' = Outdated([request EXCEPT ![h] = None], "store list")
  /\ UNCHANGED <<row, content, requests, faults, counting>>

\* Redis does not answer, or the process ends: what was not deleted stays.
DropFails(h) ==
  /\ NewFault
  /\ \/ At(h, "drop content") /\ late' = {"content", "list"}
          /\ request' = Outdated(Outdated([request EXCEPT ![h] = None], "store content"), "store list")
     \/ At(h, "drop list") /\ late' = late \cup {"list"}
          /\ request' = Outdated([request EXCEPT ![h] = None], "store list")
  /\ UNCHANGED <<row, content, list, requests, counting>>

\* togglePin deletes no copy.
TogglePin ==
  /\ Exists /\ NewRequest
  /\ row' = [row EXCEPT !.pinned = ~@]
  /\ late' = {"content", "list"}
  /\ request' = Outdated(Outdated(request, "store content"), "store list")
  /\ UNCHANGED <<content, list, faults, counting>>

-----------------------------------------------------------------------------
\* findOne: a copy is enough to count a view.
FindOne(h) ==
  /\ request[h] = None /\ row # None /\ NewRequest
  /\ Go(h, [stage |-> IF content # None THEN "view" ELSE "read"])
  /\ UNCHANGED <<row, faults, counting, copies>>

ReadOne(h) ==
  /\ At(h, "read")
  /\ IF Exists THEN Go(h, [stage |-> "store content", got |-> Found, stale |-> FALSE])
               ELSE Done(h)
  /\ UNCHANGED <<row, requests, faults, counting, copies>>

StoreOne(h) ==
  /\ At(h, "store content")
  /\ content' = CHOOSE c \in request[h].got : TRUE
  /\ late' = IF request[h].stale THEN late \cup {"content"} ELSE late \ {"content"}
  /\ Go(h, [stage |-> "view"])
  /\ UNCHANGED <<row, list, requests, faults, counting>>

\* incrementAnnouncementViewCount.
View(h) ==
  /\ At(h, "view")
  /\ hits' = hits + 1 /\ views' = views + 1
  /\ raced' = (raced \/ \E s \in Servers : job[s] # None /\ job[s].stage = "delete")
  /\ Go(h, [stage |-> "track"])
  /\ UNCHANGED <<row, count, tracked, job, requests, faults, copies>>

Track(h) ==
  /\ At(h, "track")
  /\ tracked' = TRUE
  /\ Done(h)
  /\ UNCHANGED <<row, count, hits, job, views, raced, requests, faults, copies>>

\* findAll; a copy is returned as it is.
FindAll(h) ==
  /\ request[h] = None /\ list = None /\ NewRequest
  /\ Go(h, [stage |-> "store list", got |-> Found, stale |-> FALSE])
  /\ UNCHANGED <<row, faults, counting, copies>>

StoreList(h) ==
  /\ At(h, "store list")
  /\ list' = request[h].got
  /\ late' = IF request[h].stale THEN late \cup {"list"} ELSE late \ {"list"}
  /\ Done(h)
  /\ UNCHANGED <<row, content, requests, faults, counting>>

ExpireContent == content # None /\ content' = None /\ late' = late \ {"content"}
                 /\ UNCHANGED <<row, list, request, requests, faults, counting>>
ExpireList == list # None /\ list' = None /\ late' = late \ {"list"}
              /\ UNCHANGED <<row, content, request, requests, faults, counting>>

-----------------------------------------------------------------------------
\* syncAnnouncementViewCounts: the views of an announcement that is tracked.
Collect(s) ==
  /\ job[s] = None /\ tracked /\ hits > 0
  /\ job' = [job EXCEPT ![s] = [stage |-> "add", n |-> hits]]
  /\ raced' = (raced \/ \E o \in Servers : job[o] # None)
  /\ UNCHANGED <<row, count, hits, tracked, request, requests, faults, views, copies>>

Add(s) ==
  /\ job[s] # None /\ job[s].stage = "add"
  /\ count' = count + job[s].n
  /\ job' = [job EXCEPT ![s].stage = "subtract"]
  /\ UNCHANGED <<row, hits, tracked, request, requests, faults, views, raced, copies>>

\* decrementAnnouncementViewCount: subtracted, and deleted where nothing is left.
Subtract(s) ==
  /\ job[s] # None /\ job[s].stage = "subtract"
  /\ hits' = hits - job[s].n
  /\ job' = [job EXCEPT ![s] = IF hits' <= 0 THEN [stage |-> "delete"] ELSE None]
  /\ UNCHANGED <<row, count, tracked, request, requests, faults, views, raced, copies>>

Delete(s) ==
  /\ job[s] # None /\ job[s].stage = "delete"
  /\ hits' = 0
  /\ job' = [job EXCEPT ![s] = [stage |-> "untrack"]]
  /\ UNCHANGED <<row, count, tracked, request, requests, faults, views, raced, copies>>

Untrack(s) ==
  /\ job[s] # None /\ job[s].stage = "untrack"
  /\ tracked' = FALSE
  /\ job' = [job EXCEPT ![s] = None]
  /\ UNCHANGED <<row, count, hits, request, requests, faults, views, raced, copies>>

\* A command of the run fails, or its process ends: what was added is added again.
SyncFails(s) ==
  /\ job[s] # None /\ NewFault
  /\ raced' = (raced \/ job[s].stage = "subtract")
  /\ job' = [job EXCEPT ![s] = None]
  /\ UNCHANGED <<row, count, hits, tracked, request, requests, views, copies>>

Next ==
  \/ \E h \in Handlers :
       \/ Create(h) \/ Find(h, "update") \/ Find(h, "remove") \/ Write(h)
       \/ DropContent(h) \/ DropList(h) \/ DropFails(h)
       \/ FindOne(h) \/ ReadOne(h) \/ StoreOne(h) \/ View(h) \/ Track(h)
       \/ FindAll(h) \/ StoreList(h)
  \/ TogglePin \/ ExpireContent \/ ExpireList
  \/ \E s \in Servers : \/ Collect(s) \/ Add(s) \/ Subtract(s) \/ Delete(s) \/ Untrack(s)
                        \/ SyncFails(s)

Spec == Init /\ [][Next]_vars

-----------------------------------------------------------------------------
Row  == [text : Nat, pinned : BOOLEAN, alive : BOOLEAN]
Copy == [text : Nat, pinned : BOOLEAN]

Request ==
  [stage : {"update", "remove", "drop content", "drop list", "read", "view", "track"}]
  \cup [stage : {"store content", "store list"}, got : SUBSET Copy, stale : BOOLEAN]

Run == [stage : {"add", "subtract"}, n : Nat] \cup [stage : {"delete", "untrack"}]

ConstantsAssumption ==
  /\ None \notin Row \cup Request \cup Run
  /\ MaxRequests \in Nat /\ MaxFaults \in Nat

TypeOK ==
  /\ row \in {None} \cup Row
  /\ content \in {None} \cup Copy /\ list \in {None} \cup SUBSET Copy
  /\ count \in Nat /\ hits \in Int /\ tracked \in BOOLEAN /\ views \in Nat
  /\ request \in [Handlers -> {None} \cup Request]
  /\ job \in [Servers -> {None} \cup Run]
  /\ requests \in 0..MaxRequests /\ faults \in 0..MaxFaults
  /\ raced \in BOOLEAN /\ late \subseteq {"content", "list"}

\* Copies whose deletion is outstanding.
Dropping ==
  (IF \E h \in Handlers : At(h, "drop content") THEN {"content", "list"} ELSE {})
  \cup (IF \E h \in Handlers : At(h, "drop list") THEN {"list"} ELSE {})

Counted == {s \in Servers : job[s] # None /\ job[s].stage = "subtract"}

\* What is read of an announcement is its row, or a copy that its change is about to
\* delete (findOne, findAll), but for copies stored late and for a changed pin; and a view
\* is in Redis or in the row, and never in both or neither (Write-Back of the views), but
\* for a view between subtracting and deleting, for two runs at once and for a failed one.
BoardFollowsRow ==
  /\ "content" \notin late \cup Dropping /\ content # None => {content} = Found
  /\ "list" \notin late \cup Dropping /\ list # None => list = Found
  /\ ~raced => \/ Counted = {} /\ count + hits = views
               \/ \E s \in Counted : Counted = {s} /\ count + hits - job[s].n = views

=============================================================================
