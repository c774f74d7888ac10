----------------------------- MODULE TokenCache -----------------------------
(***************************************************************************)
(* The device tokens of the users: the rows, the copy of them in Redis that  *)
(* a push is sent by, and the FCM topic of the announcements.                *)
(*                                                                         *)
(* The copy is looked at first and filled from the rows when it is missing;  *)
(* whoever changes the rows deletes it afterwards.  The topic follows the     *)
(* rows and the SYSTEM setting in tasks that nobody waits for, and whose      *)
(* errors are logged only.                                                  *)
(***************************************************************************)
EXTENDS Integers, Sequences, FiniteSets, SequencesExt

CONSTANTS Users, Tokens, Platforms,
          Handlers,     \* the requests that can be on their way at once
          Empty,        \* "__empty__", the member of the copy of no tokens
          None,         \* no row, no request, no user
          MaxRequests,  \* bound: requests in all
          MaxFaults     \* bound: failures of Redis, of FCM or of a process

VARIABLES
  device,   \* per token, its row [user, platform], or None
  system,   \* per user, whether SYSTEM notifications are on
  cache,    \* per user, the members of the key in Redis; a key without members is none
  topic,    \* FCM: the tokens on the topic of the announcements
  request,  \* per handler, what it has read
  tasks,    \* calls of FCM on their way [do, user, token]
  requests, \* counts the requests
  faults,   \* counts the failures
  late,     \* ghost: users whose copy was filled or kept past its invalidation
  mixed,    \* ghost: tokens of which tasks overlapped, failed or came of an old setting
  left      \* ghost: tokens whose row went without their leaving the topic

vars == <<device, system, cache, topic, request, tasks, requests, faults, late, mixed, left>>
ghosts == <<late, mixed, left>>

Init ==
  /\ device = [t \in Tokens |-> None] /\ system = [u \in Users |-> TRUE]
  /\ cache = [u \in Users |-> {}] /\ topic = {}
  /\ request = [h \in Handlers |-> None] /\ tasks = {}
  /\ requests = 0 /\ faults = 0 /\ late = {} /\ mixed = {} /\ left = {}

NewRequest == requests < MaxRequests /\ requests' = requests + 1
NewFault == faults < MaxFaults /\ faults' = faults + 1
At(h, stage) == request[h] # None /\ request[h].stage = stage
Done(h) == request' = [request EXCEPT ![h] = None]

TokensOf(u) == {t \in Tokens : device[t] # None /\ device[t].user = u}
SamePlatform(u, p) == {t \in TokensOf(u) : device[t].platform = p}

\* Fills that have read the rows of one of us, with the rows they have read out of date.
Outdated(req, us) ==
  [h \in Handlers |-> IF req[h] # None /\ req[h].stage = "store" /\ req[h].user \in us
                        THEN [req[h] EXCEPT !.stale = TRUE] ELSE req[h]]

Start(new) == tasks' = tasks \cup new

\* Tokens of new tasks that meet others, or that no longer belong to the task's user.
Mixed(new) ==
  {k.token : k \in {x \in new :
     \/ \E y \in tasks \cup new : y # x /\ y.token = x.token
     \/ x.do = "check" /\ x.token \notin TokensOf(x.user)}}

-----------------------------------------------------------------------------
\* registerToken: whose the token is.
RegisterRead(h, u, t, p) ==
  /\ request[h] = None /\ NewRequest
  /\ LET old == IF device[t] = None THEN None ELSE device[t].user
     IN request' = [request EXCEPT ![h] =
          [stage |-> IF old = u THEN "touch" ELSE "look",
           user |-> u, token |-> t, platform |-> p, old |-> old]]
  /\ UNCHANGED <<device, system, cache, topic, tasks, faults, ghosts>>

\* The same user again: the row is updated, and nothing subscribed.
RegisterTouch(h) ==
  /\ At(h, "touch")
  /\ LET r == request[h] IN
       IF device[r.token] = None
         THEN Done(h) /\ UNCHANGED device
         ELSE /\ device' = [device EXCEPT ![r.token].platform = r.platform]
              /\ request' = [request EXCEPT ![h] =
                   [stage |-> "invalidate", todo |-> <<r.user>>, tasks |-> {}]]
  /\ UNCHANGED <<system, cache, topic, tasks, requests, faults, ghosts>>

\* The transaction begins: the tokens of the user's platform that it sees.
RegisterLook(h) ==
  /\ At(h, "look")
  /\ LET r == request[h] IN
       request' = [request EXCEPT ![h] =
         [stage |-> "replace", user |-> r.user, token |-> r.token,
          platform |-> r.platform, old |-> r.old,
          seen |-> SamePlatform(r.user, r.platform) # {}]]
  /\ UNCHANGED <<device, system, cache, topic, tasks, requests, faults, ghosts>>

\* Variant: the copy of the former owner is kept.
NewOwner(old, u) == <<u>>

\* Whose copies are deleted after a token has changed hands, in this order.
Owners(old, u) == IF old = None THEN <<u>> ELSE <<old, u>>

\* The transaction: the row of another user goes, those of the platform that it saw go,
\* the new one comes.  It fails where the first is gone or the last is there already.  The
\* row that goes may be of a third user by now, whose copy is kept.
RegisterReplace(h) ==
  /\ At(h, "replace")
  /\ LET r    == request[h]
         own  == IF r.seen THEN SamePlatform(r.user, r.platform) ELSE {}
         gone == own \cup (IF r.old = None THEN {} ELSE {r.token})
         fits == IF r.old = None THEN r.token \in own \/ device[r.token] = None
                                 ELSE device[r.token] # None
         third == {device[t].user : t \in {x \in {r.token} : device[x] # None}} \ {r.old, r.user}
     IN IF ~fits
          THEN Done(h) /\ UNCHANGED <<device, late, left>>
          ELSE /\ device' = [t \in Tokens |->
                    CASE t = r.token -> [user |-> r.user, platform |-> r.platform]
                      [] t \in gone \ {r.token} -> None
                      [] OTHER -> device[t]]
               /\ request' = Outdated([request EXCEPT ![h] =
                    [stage |-> "invalidate", todo |-> Owners(r.old, r.user),
                     tasks |-> {[do |-> "check", user |-> r.user, token |-> r.token]}
                          \cup (IF r.old = None THEN {}
                                ELSE {[do |-> "leave", user |-> r.old, token |-> r.token]})]],
                    third)
               /\ late' = late \cup third
               /\ left' = left \cup (gone \ {r.token})
  /\ UNCHANGED <<system, cache, topic, tasks, requests, faults, mixed>>

\* invalidateUserTokensCache, for one user after the other; then the tasks start.
Invalidate(h) ==
  /\ At(h, "invalidate")
  /\ LET r == request[h]
         u == Head(r.todo)
         last == Len(r.todo) = 1
         next == IF last THEN None ELSE [r EXCEPT !.todo = Tail(@)]
     IN /\ cache' = [cache EXCEPT ![u] = {}]
        /\ request' = Outdated([request EXCEPT ![h] = next], {u})
        /\ late' = late \ {u}
        /\ Start(IF last THEN r.tasks ELSE {})
        /\ mixed' = mixed \cup Mixed(IF last THEN r.tasks ELSE {})
  /\ UNCHANGED <<device, system, topic, requests, faults, left>>

\* The rows are changed and their copies stay: Redis does not answer, or the process ends.
InvalidateFails(h) ==
  /\ At(h, "invalidate") /\ NewFault
  /\ LET us == ToSet(request[h].todo) IN
       /\ request' = Outdated([request EXCEPT ![h] = None], us)
       /\ late' = late \cup us
  /\ mixed' = mixed \cup {k.token : k \in request[h].tasks}
  /\ UNCHANGED <<device, system, cache, topic, tasks, requests, left>>

\* deleteToken: a token of the user; the topic is left at once.
DeleteRead(h, u, t) ==
  /\ request[h] = None /\ t \in TokensOf(u) /\ NewRequest
  /\ LET leave == {[do |-> "leave", user |-> u, token |-> t]}
     IN Start(leave) /\ mixed' = mixed \cup Mixed(leave)
  /\ request' = [request EXCEPT ![h] = [stage |-> "delete", user |-> u, token |-> t]]
  /\ UNCHANGED <<device, system, cache, topic, faults, late, left>>

\* The row may belong to another user by now, whose copy is kept.
DeleteRow(h) ==
  /\ At(h, "delete")
  /\ LET u == request[h].user
         t == request[h].token
     IN IF device[t] = None
          THEN Done(h) /\ UNCHANGED <<device, late, left>>
          ELSE LET others == {device[t].user} \ {u} IN
               /\ device' = [device EXCEPT ![t] = None]
               /\ request' = Outdated([request EXCEPT ![h] =
                    [stage |-> "invalidate", todo |-> <<u>>, tasks |-> {}]], others)
               /\ late' = late \cup others
               /\ left' = left \cup ({t} \cap (topic \cup {k.token : k \in tasks}))
  /\ UNCHANGED <<system, cache, topic, tasks, requests, faults, mixed>>

-----------------------------------------------------------------------------
\* getUserTokens, for a push: whether there is a copy.
Look(h, u) ==
  /\ request[h] = None /\ NewRequest
  /\ request' = [request EXCEPT ![h] =
       [stage |-> IF cache[u] = {} THEN "miss" ELSE "hit", user |-> u]]
  /\ UNCHANGED <<device, system, cache, topic, tasks, faults, ghosts>>

\* The members of the copy, which may be gone by now.
Hit(h) ==
  /\ At(h, "hit")
  /\ LET u == request[h].user
         tokens == IF cache[u] = {Empty} THEN {} ELSE cache[u]
     IN request' = [request EXCEPT ![h] = [stage |-> "push", user |-> u, tokens |-> tokens]]
  /\ UNCHANGED <<device, system, cache, topic, tasks, requests, faults, ghosts>>

Miss(h) ==
  /\ At(h, "miss")
  /\ LET u == request[h].user IN
       request' = [request EXCEPT ![h] =
         [stage |-> "store", user |-> u, tokens |-> TokensOf(u), stale |-> FALSE]]
  /\ UNCHANGED <<device, system, cache, topic, tasks, requests, faults, ghosts>>

\* cacheUserTokens: tokens are added to what is there, no tokens replace it.
Store(h) ==
  /\ At(h, "store")
  /\ LET r == request[h] IN
       /\ cache' = [cache EXCEPT ![r.user] = IF r.tokens = {} THEN {Empty}
                                                              ELSE @ \cup r.tokens]
       /\ late' = IF r.stale THEN late \cup {r.user} ELSE late
       /\ request' = [request EXCEPT ![h] =
            [stage |-> "push", user |-> r.user, tokens |-> r.tokens]]
  /\ UNCHANGED <<device, system, topic, tasks, requests, faults, mixed, left>>

Expire(u) ==
  /\ cache[u] # {}
  /\ cache' = [cache EXCEPT ![u] = {}] /\ late' = late \ {u}
  /\ UNCHANGED <<device, system, topic, request, tasks, requests, faults, mixed, left>>

\* The push: the rows of tokens that FCM refuses go, whoever has them by now.
Push(h, refused) ==
  /\ At(h, "push") /\ refused \subseteq request[h].tokens \ {Empty}
  /\ LET u == request[h].user
         rows == {t \in refused : device[t] # None}
         others == {device[t].user : t \in rows} \ {u}
     IN IF refused = {}
          THEN Done(h) /\ UNCHANGED <<device, faults, late, left>>
          ELSE /\ NewFault
               /\ device' = [t \in Tokens |-> IF t \in rows THEN None ELSE device[t]]
               /\ request' = Outdated([request EXCEPT ![h] =
                    [stage |-> "invalidate", todo |-> <<u>>, tasks |-> {}]], others)
               /\ late' = late \cup others
               /\ left' = left \cup rows
  /\ UNCHANGED <<system, cache, topic, tasks, requests, mixed>>

-----------------------------------------------------------------------------
\* updateSettings of SYSTEM: the setting, then the tokens that it moves.
SettingWrite(h, u, on) ==
  /\ request[h] = None /\ NewRequest
  /\ system' = [system EXCEPT ![u] = on]
  /\ request' = [request EXCEPT ![h] = [stage |-> "setting", user |-> u, on |-> on]]
  /\ UNCHANGED <<device, cache, topic, tasks, faults, ghosts>>

SettingTasks(h) ==
  /\ At(h, "setting")
  /\ LET u == request[h].user
         do == IF request[h].on THEN "join" ELSE "leave"
         new == {[do |-> do, user |-> u, token |-> t] : t \in TokensOf(u)}
     IN /\ Start(new)
        /\ mixed' = mixed \cup Mixed(new)
             \cup (IF system[u] # request[h].on THEN TokensOf(u) ELSE {})
  /\ Done(h)
  /\ UNCHANGED <<device, system, cache, topic, requests, faults, late, left>>

\* subscribeUserToTopics: the setting is read first.
TaskChecks(k) ==
  /\ k.do = "check"
  /\ tasks' = (tasks \ {k}) \cup (IF system[k.user] THEN {[k EXCEPT !.do = "join"]} ELSE {})
  /\ UNCHANGED <<device, system, cache, topic, request, requests, faults, ghosts>>

TaskJoins(k) ==
  /\ k.do = "join"
  /\ topic' = topic \cup {k.token} /\ tasks' = tasks \ {k}
  /\ UNCHANGED <<device, system, cache, request, requests, faults, ghosts>>

TaskLeaves(k) ==
  /\ k.do = "leave"
  /\ topic' = topic \ {k.token} /\ tasks' = tasks \ {k} /\ left' = left \ {k.token}
  /\ UNCHANGED <<device, system, cache, request, requests, faults, late, mixed>>

TaskFails(k) ==
  /\ NewFault
  /\ tasks' = tasks \ {k} /\ mixed' = mixed \cup {k.token}
  /\ UNCHANGED <<device, system, cache, topic, request, requests, late, left>>

Next ==
  \/ \E h \in Handlers :
       \/ \E u \in Users : \/ Look(h, u)
                           \/ \E on \in BOOLEAN : SettingWrite(h, u, on)
                           \/ \E t \in Tokens : \/ DeleteRead(h, u, t)
                                                \/ \E p \in Platforms : RegisterRead(h, u, t, p)
       \/ RegisterTouch(h) \/ RegisterLook(h) \/ RegisterReplace(h)
       \/ Invalidate(h) \/ InvalidateFails(h) \/ DeleteRow(h)
       \/ Hit(h) \/ Miss(h) \/ Store(h) \/ SettingTasks(h)
       \/ \E refused \in SUBSET Tokens : Push(h, refused)
  \/ \E u \in Users : Expire(u)
  \/ \E k \in tasks : TaskChecks(k) \/ TaskJoins(k) \/ TaskLeaves(k) \/ TaskFails(k)

Spec == Init /\ [][Next]_vars

-----------------------------------------------------------------------------
Task == [do : {"check", "join", "leave"}, user : Users, token : Tokens]

Request ==
  [stage : {"touch", "look"}, user : Users, token : Tokens, platform : Platforms,
   old : {None} \cup Users]
  \cup [stage : {"replace"}, user : Users, token : Tokens, platform : Platforms,
        old : {None} \cup Users, seen : BOOLEAN]
  \cup [stage : {"invalidate"}, todo : Seq(Users) \ {<<>>}, tasks : SUBSET Task]
  \cup [stage : {"delete"}, user : Users, token : Tokens]
  \cup [stage : {"hit", "miss"}, user : Users]
  \cup [stage : {"store"}, user : Users, tokens : SUBSET Tokens, stale : BOOLEAN]
  \cup [stage : {"push"}, user : Users, tokens : SUBSET (Tokens \cup {Empty})]
  \cup [stage : {"setting"}, user : Users, on : BOOLEAN]

ConstantsAssumption ==
  /\ None \notin Users \cup Request \cup [user : Users, platform : Platforms]
  /\ Empty \notin Tokens
  /\ MaxRequests \in Nat /\ MaxFaults \in Nat

TypeOK ==
  /\ device \in [Tokens -> {None} \cup [user : Users, platform : Platforms]]
  /\ system \in [Users -> BOOLEAN]
  /\ cache \in [Users -> SUBSET (Tokens \cup {Empty})]
  /\ topic \subseteq Tokens
  /\ request \in [Handlers -> {None} \cup Request]
  /\ tasks \subseteq Task
  /\ requests \in 0..MaxRequests /\ faults \in 0..MaxFaults
  /\ late \subseteq Users /\ mixed \subseteq Tokens /\ left \subseteq Tokens

Uninvalidated == UNION {ToSet(request[h].todo) : h \in {x \in Handlers : At(x, "invalidate")}}

\* Tokens that some task or request is still to move.
Unsettled ==
  {k.token : k \in tasks}
  \cup (UNION {{k.token : k \in request[h].tasks} : h \in {x \in Handlers : At(x, "invalidate")}})
  \cup (UNION {TokensOf(request[h].user) : h \in {x \in Handlers : At(x, "setting")}})
  \cup {request[h].token : h \in {x \in Handlers : At(x, "delete")}}

\* A copy in Redis is that of the rows, but while its invalidation is outstanding, and
\* after a fill that read the rows before one and stored them after it (getUserTokens), or a
\* registration that deleted the row of a third user, who came to it meanwhile (registerToken);
\* and with all tasks done a token is on the topic as its user's setting says, but for
\* tokens of overlapping tasks, and those whose row went while they were on the topic.
TokenCopiesAgree ==
  /\ \A u \in Users \ (late \cup Uninvalidated) :
       cache[u] # {} => /\ cache[u] \ {Empty} = TokensOf(u)
                        /\ Empty \in cache[u] => TokensOf(u) = {}
  /\ \A t \in Tokens \ (mixed \cup Unsettled) : device[t] # None =>
       IF system[device[t].user] THEN t \in topic ELSE t \in topic => t \in left

=============================================================================
