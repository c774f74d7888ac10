------------------------------- MODULE Accounts -------------------------------
(***************************************************************************)
(* Accounts: refresh tokens in Redis and the scheduled deletion of a row.   *)
(*                                                                         *)
(* A refresh token is a JWT whose content is the user and the second it was *)
(* issued in: tokens of one user issued in one second are the same string.  *)
(* It is stored under its own key, and in a set per user that finds all of  *)
(* them.  A deletion is scheduled a grace period ahead; a cron job, or an   *)
(* administrator's order carried out in the background, then deletes the    *)
(* tokens, and the rows in a last statement that looks at ids only.         *)
(***************************************************************************)
EXTENDS Naturals, FiniteSets

CONSTANTS Users,
          Handlers,    \* requests served at the same time
          Deleters,    \* cron jobs and forced deletions at work
          Grace,       \* ACCOUNT_DELETION_GRACE_DAYS, in ticks of the clock
          Ttl,         \* lifetime of a refresh token, in ticks
          Horizon,     \* bound: the last time of the clock
          MaxRequests, \* bound: requests ever made
          MaxFaults    \* bound: failed calls of Redis, and restarts

ASSUME AccountsAssumption ==
  /\ Users # {}
  /\ Grace \in Nat \ {0}
  /\ Ttl \in Nat \ {0}
  /\ Horizon \in Nat \ {0}
  /\ MaxRequests \in Nat
  /\ MaxFaults \in Nat

Time == 1..Horizon
Never == 0
Until(ticks) == {Never} \cup 1..(Horizon + ticks)

VARIABLES
  now,        \* the clock
  there,      \* users with a row
  deletedAt,  \* the time a deletion is scheduled for, or Never
  expires,    \* refresh-token:{token}: when the token issued at a time expires
  index,      \* user-tokens:{user}
  indexUntil, \* when the index expires
  handler,    \* per handler: the request and the await it is at
  deleter,    \* per deleter: its batch and what is done of it
  requests,   \* ghost: requests made so far
  faults,     \* ghost: faults so far
  raced,      \* ghost: tokens stored while all tokens of the user were deleted
  late,       \* ghost: tokens stored when the tokens of a doomed row were gone
  overtaken   \* ghost: users whose deletion was cancelled or put off while it went on

tokenVars == <<expires, index, indexUntil>>
rowVars   == <<there, deletedAt>>
ghostVars == <<faults, raced, late, overtaken>>
vars == <<now, there, deletedAt, expires, index, indexUntil, handler, deleter,
          requests, faults, raced, late, overtaken>>

Handler == [pc : {"idle", "clear", "issue", "save", "cancel", "scan", "remove", "update"},
            user : Users, token : Time \cup {Never},
            seen : SUBSET Time,  \* tokens SMEMBERS has found
            update : BOOLEAN]    \* the row is still to be updated
Idle == [pc |-> "idle", user |-> CHOOSE u \in Users : TRUE, token |-> Never, seen |-> {},
         update |-> FALSE]

\* What a deleter has done of each user of its batch.
Progress == {"out", "tokens", "remove", "done", "failed"}
Deleter == [kind : {"idle", "cron", "force"},
            at : [Users -> Progress], seen : [Users -> SUBSET Time]]
Rest == [kind |-> "idle", at |-> [u \in Users |-> "out"], seen |-> [u \in Users |-> {}]]

Init ==
  /\ now = 1
  /\ there = Users
  /\ deletedAt = [u \in Users |-> Never]
  /\ expires = [u \in Users |-> [t \in Time |-> Never]]
  /\ index = [u \in Users |-> {}]
  /\ indexUntil = [u \in Users |-> Never]
  /\ handler = [h \in Handlers |-> Idle]
  /\ deleter = [d \in Deleters |-> Rest]
  /\ requests = 0 /\ faults = 0
  /\ raced = {} /\ late = {} /\ overtaken = {}

-----------------------------------------------------------------------------
Stored(u, t) == expires[u][t] # Never
Goto(h, r) == handler' = [handler EXCEPT ![h] = r]

\* A request comes in and goes on as r.
Begin(h, r) ==
  /\ handler[h].pc = "idle"
  /\ requests < MaxRequests
  /\ requests' = requests + 1
  /\ Goto(h, r)

\* Someone has read the index of u and is about to delete it, without token t.
Clearing(u, t) ==
  \/ \E h \in Handlers : handler[h].pc = "remove" /\ handler[h].user = u /\ t \notin handler[h].seen
  \/ \E d \in Deleters : deleter[d].at[u] = "remove" /\ t \notin deleter[d].seen[u]

\* The row of u is gone, or its tokens were read to be deleted before it.
Doomed(u) ==
  u \notin there \/ \E d \in Deleters : deleter[d].at[u] \in {"remove", "done"}

\* The date of a deletion is written: does it come too late for a deleter?
Overtakes(u) ==
  overtaken' = IF \E d \in Deleters : deleter[d].at[u] # "out"
               THEN overtaken \cup {u} ELSE overtaken

-----------------------------------------------------------------------------
(* Refresh tokens.                                                         *)

\* validateUser finds the row; a scheduled deletion does not keep its user out.
BeginLogin(h, u) ==
  /\ u \in there
  /\ Begin(h, [Idle EXCEPT !.pc = "issue", !.user = u])
  /\ UNCHANGED <<now, rowVars, tokenVars, deleter, ghostVars>>

\* refresh finds the key of the token ...
BeginRefresh(h, u, t) ==
  /\ Stored(u, t)
  /\ Begin(h, [Idle EXCEPT !.pc = "clear", !.user = u, !.token = t])
  /\ UNCHANGED <<now, rowVars, tokenVars, deleter, ghostVars>>

\* ... and deletes it, here and in the index.
ClearOld(h) ==
  LET r == handler[h] IN
  /\ r.pc = "clear"
  /\ expires' = [expires EXCEPT ![r.user][r.token] = Never]
  /\ index' = [index EXCEPT ![r.user] = @ \ {r.token}]
  /\ Goto(h, [r EXCEPT !.pc = "issue"])
  /\ UNCHANGED <<now, rowVars, indexUntil, deleter, requests, ghostVars>>

\* generateTokens reads the user again and signs.
Issue(h) ==
  LET r == handler[h] IN
  /\ r.pc = "issue"
  /\ Goto(h, IF r.user \in there THEN [r EXCEPT !.pc = "save", !.token = now] ELSE Idle)
  /\ UNCHANGED <<now, rowVars, tokenVars, deleter, requests, ghostVars>>

\* Variant: the lifetime is given in milliseconds.
SaveInMilliseconds(h) ==
  LET r == handler[h]
      u == r.user
      t == r.token
  IN
  /\ r.pc = "save"
  /\ expires' = [expires EXCEPT ![u][t] = now + Ttl * 1000]
  /\ index' = [index EXCEPT ![u] = @ \cup {t}]
  /\ indexUntil' = [indexUntil EXCEPT ![u] = now + Ttl * 1000]
  /\ raced' = IF Clearing(u, t) THEN raced \cup {<<u, t>>} ELSE raced
  /\ late' = IF Doomed(u) THEN late \cup {<<u, t>>} ELSE late
  /\ Goto(h, Idle)
  /\ UNCHANGED <<now, rowVars, deleter, requests, faults, overtaken>>

\* Variant: the index keeps the lifetime of its first token.
SaveWithoutRenewal(h) ==
  LET r == handler[h]
      u == r.user
      t == r.token
  IN
  /\ r.pc = "save"
  /\ expires' = [expires EXCEPT ![u][t] = now + Ttl]
  /\ index' = [index EXCEPT ![u] = @ \cup {t}]
  /\ indexUntil' = [indexUntil EXCEPT ![u] = IF @ = Never THEN now + Ttl ELSE @]
  /\ raced' = IF Clearing(u, t) THEN raced \cup {<<u, t>>} ELSE raced
  /\ late' = IF Doomed(u) THEN late \cup {<<u, t>>} ELSE late
  /\ Goto(h, Idle)
  /\ UNCHANGED <<now, rowVars, deleter, requests, faults, overtaken>>

\* setRefreshToken: SETEX, SADD and EXPIRE go out together.
Save(h) ==
  LET r == handler[h]
      u == r.user
      t == r.token
  IN
  /\ r.pc = "save"
  /\ expires' = [expires EXCEPT ![u][t] = now + Ttl]
  /\ index' = [index EXCEPT ![u] = @ \cup {t}]
  /\ indexUntil' = [indexUntil EXCEPT ![u] = now + Ttl]
  /\ raced' = IF Clearing(u, t) THEN raced \cup {<<u, t>>} ELSE raced
  /\ late' = IF Doomed(u) THEN late \cup {<<u, t>>} ELSE late
  /\ Goto(h, Idle)
  /\ UNCHANGED <<now, rowVars, deleter, requests, faults, overtaken>>

\* logout: the token is found and deleted.
Logout(u, t) ==
  /\ Stored(u, t)
  /\ expires' = [expires EXCEPT ![u][t] = Never]
  /\ index' = [index EXCEPT ![u] = @ \ {t}]
  /\ UNCHANGED <<now, rowVars, indexUntil, handler, deleter, requests, ghostVars>>

\* SMEMBERS found the tokens `seen`: they and the index are deleted.
DeleteTokens(u, seen) ==
  /\ expires' = [expires EXCEPT ![u] = [t \in Time |-> IF t \in seen THEN Never ELSE @[t]]]
  /\ index' = [index EXCEPT ![u] = {}]
  /\ indexUntil' = [indexUntil EXCEPT ![u] = Never]

-----------------------------------------------------------------------------
(* Scheduling and cancelling a deletion.                                   *)

\* deleteMyAccount goes on to update the row; deleteAccount, an administrator's,
\* does so and ends the sessions of the user meanwhile.
BeginSchedule(h, u, pc) ==
  /\ u \in there /\ deletedAt[u] = Never
  /\ Begin(h, [Idle EXCEPT !.pc = pc, !.user = u, !.update = TRUE])
  /\ UNCHANGED <<now, rowVars, tokenVars, deleter, ghostVars>>

\* The update, which fails when the row is gone.
Schedule(h) ==
  LET r == handler[h]
      u == r.user
  IN
  /\ r.update
  /\ deletedAt' = IF u \in there THEN [deletedAt EXCEPT ![u] = now + Grace] ELSE deletedAt
  /\ Overtakes(u)
  /\ Goto(h, IF r.pc = "update" THEN Idle ELSE [r EXCEPT !.update = FALSE])
  /\ UNCHANGED <<now, there, tokenVars, deleter, requests, faults, raced, late>>

ScanSessions(h) ==
  LET r == handler[h] IN
  /\ r.pc = "scan"
  /\ Goto(h, [r EXCEPT !.pc = "remove", !.seen = index[r.user]])
  /\ UNCHANGED <<now, rowVars, tokenVars, deleter, requests, ghostVars>>

EndSessions(h) ==
  LET r == handler[h] IN
  /\ r.pc = "remove"
  /\ DeleteTokens(r.user, r.seen)
  /\ Goto(h, IF r.update THEN [r EXCEPT !.pc = "update", !.seen = {}] ELSE Idle)
  /\ UNCHANGED <<now, rowVars, deleter, requests, ghostVars>>

\* cancelDeleteMyAccount and cancelDeleteAccount.
BeginCancel(h, u) ==
  /\ u \in there /\ deletedAt[u] # Never
  /\ Begin(h, [Idle EXCEPT !.pc = "cancel", !.user = u])
  /\ UNCHANGED <<now, rowVars, tokenVars, deleter, ghostVars>>

Cancel(h) ==
  LET r == handler[h]
      u == r.user
  IN
  /\ r.pc = "cancel"
  /\ deletedAt' = IF u \in there THEN [deletedAt EXCEPT ![u] = Never] ELSE deletedAt
  /\ Overtakes(u)
  /\ Goto(h, Idle)
  /\ UNCHANGED <<now, there, tokenVars, deleter, requests, faults, raced, late>>

-----------------------------------------------------------------------------
(* Deleting.                                                               *)

\* Variant: every scheduled deletion is due.
Scheduled == {u \in there : deletedAt[u] # Never}
Expired == {u \in there : deletedAt[u] # Never /\ deletedAt[u] <= now}

\* purgeExpiredAccounts reads the accounts whose time has come.
StartPurge(d) ==
  /\ deleter[d].kind = "idle" /\ Expired # {}
  /\ deleter' = [deleter EXCEPT ![d] =
       [Rest EXCEPT !.kind = "cron",
                    !.at = [u \in Users |-> IF u \in Expired THEN "tokens" ELSE "out"]]]
  /\ UNCHANGED <<now, rowVars, tokenVars, handler, requests, ghostVars>>

\* forceDeleteAccount: a scheduled deletion, carried out now.
StartForced(d, u) ==
  /\ deleter[d].kind = "idle"
  /\ u \in there /\ deletedAt[u] # Never
  /\ requests < MaxRequests
  /\ requests' = requests + 1
  /\ deleter' = [deleter EXCEPT ![d] = [Rest EXCEPT !.kind = "force", !.at[u] = "tokens"]]
  /\ UNCHANGED <<now, rowVars, tokenVars, handler, ghostVars>>

\* The users of a batch are taken at the same time, each with its own awaits:
\* the profile image (its failure is caught), SMEMBERS, DEL.
ReadTokens(d, u) ==
  /\ deleter[d].at[u] = "tokens"
  /\ deleter' = [deleter EXCEPT ![d].at[u] = "remove", ![d].seen[u] = index[u]]
  /\ UNCHANGED <<now, rowVars, tokenVars, handler, requests, ghostVars>>

RemoveTokens(d, u) ==
  /\ deleter[d].at[u] = "remove"
  /\ DeleteTokens(u, deleter[d].seen[u])
  /\ deleter' = [deleter EXCEPT ![d].at[u] = "done", ![d].seen[u] = {}]
  /\ UNCHANGED <<now, rowVars, handler, requests, ghostVars>>

\* A call of Redis fails: the user is left for the next day.
TokensFail(d, u) ==
  /\ deleter[d].at[u] \in {"tokens", "remove"}
  /\ faults < MaxFaults
  /\ faults' = faults + 1
  /\ deleter' = [deleter EXCEPT ![d].at[u] = "failed", ![d].seen[u] = {}]
  /\ UNCHANGED <<now, rowVars, tokenVars, handler, requests, raced, late, overtaken>>

\* Variant: the rows are deleted when the first user of the batch is done.
DeleteRowsEarly(d) ==
  LET at == deleter[d].at IN
  /\ deleter[d].kind # "idle"
  /\ \E u \in Users : at[u] \in {"done", "failed"}
  /\ there' = {u \in there : at[u] = "out"}
  /\ deletedAt' = [u \in Users |-> IF u \in there' THEN deletedAt[u] ELSE Never]
  /\ deleter' = [deleter EXCEPT ![d] = Rest]
  /\ UNCHANGED <<now, tokenVars, handler, requests, ghostVars>>

\* Variant: what failed is not told from what succeeded, and nothing is deleted.
DeleteNoRows(d) ==
  LET at == deleter[d].at IN
  /\ deleter[d].kind # "idle"
  /\ \A u \in Users : at[u] \in {"out", "done", "failed"}
  /\ deleter' = [deleter EXCEPT ![d] = Rest]
  /\ UNCHANGED <<now, rowVars, tokenVars, handler, requests, ghostVars>>

\* When every user of the batch is done or failed, the rows of those that are
\* done are deleted by their ids.
DeleteRows(d) ==
  LET at == deleter[d].at IN
  /\ deleter[d].kind # "idle"
  /\ \A u \in Users : at[u] \in {"out", "done", "failed"}
  /\ there' = {u \in there : at[u] # "done"}
  /\ deletedAt' = [u \in Users |-> IF u \in there' THEN deletedAt[u] ELSE Never]
  /\ deleter' = [deleter EXCEPT ![d] = Rest]
  /\ UNCHANGED <<now, tokenVars, handler, requests, ghostVars>>

-----------------------------------------------------------------------------
\* Keys of Redis expire as the clock goes on.
Tick ==
  /\ now < Horizon
  /\ now' = now + 1
  /\ expires' = [u \in Users |-> [t \in Time |->
                   IF expires[u][t] <= now' THEN Never ELSE expires[u][t]]]
  /\ index' = [u \in Users |-> IF indexUntil[u] <= now' THEN {} ELSE index[u]]
  /\ indexUntil' = [u \in Users |-> IF indexUntil[u] <= now' THEN Never ELSE indexUntil[u]]
  /\ UNCHANGED <<rowVars, handler, deleter, requests, ghostVars>>

\* The server stops and is started again.
Restart ==
  /\ faults < MaxFaults
  /\ faults' = faults + 1
  /\ handler' = [h \in Handlers |-> Idle]
  /\ deleter' = [d \in Deleters |-> Rest]
  /\ UNCHANGED <<now, rowVars, tokenVars, requests, raced, late, overtaken>>

Request(h) ==
  \/ \E u \in Users : BeginLogin(h, u) \/ BeginCancel(h, u)
  \/ \E u \in Users, t \in Time : BeginRefresh(h, u, t)
  \/ \E u \in Users, pc \in {"scan", "update"} : BeginSchedule(h, u, pc)

Continue(h) ==
  ClearOld(h) \/ Issue(h) \/ Save(h) \/ Schedule(h)
  \/ ScanSessions(h) \/ EndSessions(h) \/ Cancel(h)

\* The awaits of a deleter, but for its failures.
Work(d) ==
  \/ \E u \in Users : ReadTokens(d, u) \/ RemoveTokens(d, u)
  \/ DeleteRows(d)

Next ==
  \/ \E h \in Handlers : Request(h) \/ Continue(h)
  \/ \E u \in Users, t \in Time : Logout(u, t)
  \/ \E d \in Deleters, u \in Users : StartForced(d, u) \/ TokensFail(d, u)
  \/ \E d \in Deleters : StartPurge(d) \/ Work(d)
  \/ Tick
  \/ Restart

Spec == Init /\ [][Next]_vars

\* The cron job runs every day, and what it has begun it goes on with.
FairSpec ==
  /\ Spec
  /\ \A d \in Deleters : WF_vars(StartPurge(d)) /\ WF_vars(Work(d))

-----------------------------------------------------------------------------
TypeOK ==
  /\ now \in Time
  /\ there \subseteq Users
  /\ deletedAt \in [Users -> Until(Grace)]
  /\ expires \in [Users -> [Time -> Until(Ttl)]]
  /\ index \in [Users -> SUBSET Time]
  /\ indexUntil \in [Users -> Until(Ttl)]
  /\ handler \in [Handlers -> Handler]
  /\ deleter \in [Deleters -> Deleter]
  /\ requests \in 0..MaxRequests /\ faults \in 0..MaxFaults
  /\ raced \subseteq Users \X Time /\ late \subseteq Users \X Time
  /\ overtaken \subseteq Users

\* The index of a user has every token that is stored, except those stored while
\* all tokens of the user were being deleted (setRefreshToken renews the lifetime
\* of the index; deleteAllRefreshTokensByUserId reads it before it deletes).
TokensIndexed ==
  \A u \in Users, t \in Time :
    Stored(u, t) => t \in index[u] \/ <<u, t>> \in raced

\* No token outlives its account, except those stored when the tokens were being
\* deleted already: tokens go before the row (purgeExpiredAccounts,
\* executeHardDelete).
TokensGoFirst ==
  \A u \in Users, t \in Time :
    u \notin there /\ Stored(u, t) => <<u, t>> \in raced \cup late

\* A row is deleted only when its time has come or by an administrator's order,
\* and never when the deletion is cancelled or put off, unless that came when the
\* deletion had begun.
DeletedWhenDue ==
  [][\A u \in there \ there' :
       \/ u \in overtaken
       \/ /\ deletedAt[u] # Never
          /\ \/ deletedAt[u] <= now
             \/ \E d \in Deleters : deleter[d].kind = "force" /\ deleter[d].at[u] = "done"]_vars

\* An account whose time has come is deleted, or its deletion is cancelled.
ExpiredIsPurged ==
  \A u \in Users : u \in Expired ~> u \notin Expired

\* "Removes the accounts with deletedAt <= now": the comment of
\* purgeExpiredAccounts.
OnlyScheduledRowsDeleted ==
  [][\A u \in there \ there' : deletedAt[u] # Never]_vars

=============================================================================
