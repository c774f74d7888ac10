---------------------------- MODULE AccountsProofs ----------------------------
(***************************************************************************)
(* Proofs about Accounts, for any set of users, any number of requests and  *)
(* deleters at work, and any lifetimes and bounds.                          *)
(***************************************************************************)
EXTENDS Accounts, TLAPS

-----------------------------------------------------------------------------
(* Type correctness.                                                       *)

\* A request that comes in, and one that waits, are well-typed.
LEMMA IdleType == Idle \in Handler /\ Idle.user \in Users
<1>1. (CHOOSE u \in Users : TRUE) \in Users
  BY AccountsAssumption
<1> QED BY <1>1 DEF Idle, Handler

\* So is a deleter without a batch.
LEMMA RestType == Rest \in Deleter
  BY DEF Rest, Deleter, Progress

\* Times of the clock, and times a lifetime ahead, are times a key or a row may hold.
LEMMA UntilType ==
  ASSUME now \in Time, NEW ticks \in Nat
  PROVE  now + ticks \in Until(ticks) /\ now + ticks # Never /\ Never \in Until(ticks)
<1>1. now \in Nat /\ now >= 1 /\ now <= Horizon
  BY AccountsAssumption DEF Time
<1>2. now + ticks \in 1..(Horizon + ticks)
  BY <1>1, AccountsAssumption
<1> QED BY <1>1, <1>2 DEF Until, Never

\* Well-typed handlers and deleters.
LEMMA HandlerType ==
  ASSUME TypeOK, NEW h \in Handlers
  PROVE  /\ handler[h] \in Handler
         /\ handler[h].user \in Users /\ handler[h].token \in Time \cup {Never}
         /\ handler[h].seen \subseteq Time
<1>1. handler[h] \in Handler
  BY DEF TypeOK
<1> QED BY <1>1 DEF Handler

LEMMA DeleterType ==
  ASSUME TypeOK, NEW d \in Deleters
  PROVE  /\ deleter[d] \in Deleter
         /\ deleter[d].at \in [Users -> Progress]
         /\ deleter[d].seen \in [Users -> SUBSET Time]
<1>1. deleter[d] \in Deleter
  BY DEF TypeOK
<1> QED BY <1>1 DEF Deleter

\* A token to be stored has been signed: it was issued at a time of the clock.
Signed == \A h \in Handlers : handler[h].pc = "save" => handler[h].token \in Time

\* The types, as the steps keep them.
Typed == TypeOK /\ Signed

\* A handler that moves on.
LEMMA GotoTyped ==
  ASSUME Typed, NEW h \in Handlers, NEW r \in Handler, Goto(h, r),
         r.pc = "save" => r.token \in Time
  PROVE  handler' \in [Handlers -> Handler] /\ Signed'
  BY DEF Typed, TypeOK, Goto, Signed

\* A request that comes in.
LEMMA BeginTyped ==
  ASSUME Typed, NEW h \in Handlers, NEW r \in Handler, Begin(h, r), r.pc # "save",
         UNCHANGED <<now, rowVars, tokenVars, deleter, ghostVars>>
  PROVE  Typed'
<1>1. handler' \in [Handlers -> Handler] /\ Signed'
  BY GotoTyped DEF Begin
<1>2. requests' \in 0..MaxRequests
  BY AccountsAssumption DEF Begin, Typed, TypeOK
<1> QED BY <1>1, <1>2 DEF Typed, TypeOK, rowVars, tokenVars, ghostVars

\* Deleting tokens keeps the types of what is stored.
LEMMA DeleteTokensType ==
  ASSUME TypeOK, NEW u \in Users, NEW seen, DeleteTokens(u, seen)
  PROVE  /\ expires' \in [Users -> [Time -> Until(Ttl)]]
         /\ index' \in [Users -> SUBSET Time]
         /\ indexUntil' \in [Users -> Until(Ttl)]
<1>1. Never \in Until(Ttl)
  BY DEF Until
<1>2. expires[u] \in [Time -> Until(Ttl)]
  BY DEF TypeOK
<1>3. [t \in Time |-> IF t \in seen THEN Never ELSE expires[u][t]] \in [Time -> Until(Ttl)]
  BY <1>1, <1>2
<1> QED BY <1>1, <1>3 DEF DeleteTokens, TypeOK

\* Requests that come in.
LEMMA RequestTyped == ASSUME Typed, NEW h \in Handlers, Request(h) PROVE Typed'
<1>0. Idle.user \in Users /\ Idle \in Handler
  BY IdleType
<1>1. ASSUME NEW u \in Users, BeginLogin(h, u) PROVE Typed'
  <2> DEFINE r == [Idle EXCEPT !.pc = "issue", !.user = u]
  <2>1. r \in Handler /\ r.pc # "save"
    BY <1>0 DEF Handler
  <2> QED BY <1>1, <2>1, BeginTyped DEF BeginLogin
<1>2. ASSUME NEW u \in Users, BeginCancel(h, u) PROVE Typed'
  <2> DEFINE r == [Idle EXCEPT !.pc = "cancel", !.user = u]
  <2>1. r \in Handler /\ r.pc # "save"
    BY <1>0 DEF Handler
  <2> QED BY <1>2, <2>1, BeginTyped DEF BeginCancel
<1>3. ASSUME NEW u \in Users, NEW t \in Time, BeginRefresh(h, u, t) PROVE Typed'
  <2> DEFINE r == [Idle EXCEPT !.pc = "clear", !.user = u, !.token = t]
  <2>1. r \in Handler /\ r.pc # "save"
    BY <1>0 DEF Handler
  <2> QED BY <1>3, <2>1, BeginTyped DEF BeginRefresh
<1>4. ASSUME NEW u \in Users, NEW pc \in {"scan", "update"}, BeginSchedule(h, u, pc)
      PROVE  Typed'
  <2> DEFINE r == [Idle EXCEPT !.pc = pc, !.user = u, !.update = TRUE]
  <2>1. r \in Handler /\ r.pc # "save"
    BY <1>0 DEF Handler
  <2> QED BY <1>4, <2>1, BeginTyped DEF BeginSchedule
<1> QED BY <1>1, <1>2, <1>3, <1>4 DEF Request

\* Who overtakes a deletion is a user.
LEMMA OvertakesType ==
  ASSUME TypeOK, NEW u \in Users, Overtakes(u) PROVE overtaken' \subseteq Users
  BY DEF TypeOK, Overtakes

\* Steps of a request that is being served.
LEMMA ContinueTyped == ASSUME Typed, NEW h \in Handlers, Continue(h) PROVE Typed'
<1> USE AccountsAssumption
<1> DEFINE r == handler[h]
<1>0. TypeOK /\ Signed
  BY DEF Typed
<1>1. r \in Handler /\ r.user \in Users
  BY <1>0, HandlerType
<1>2. Idle \in Handler /\ Idle.pc # "save"
  BY IdleType DEF Idle
<1>3. CASE ClearOld(h)
  <2>1. [r EXCEPT !.pc = "issue"] \in Handler
    BY <1>1 DEF Handler
  <2>2. [r EXCEPT !.pc = "issue"].pc # "save"
    BY <1>1 DEF Handler
  <2>3. handler' \in [Handlers -> Handler] /\ Signed'
    BY <1>3, <2>1, <2>2, GotoTyped DEF ClearOld
  <2>4. /\ expires' \in [Users -> [Time -> Until(Ttl)]]
        /\ index' \in [Users -> SUBSET Time]
    BY <1>3, <1>0, <1>1 DEF ClearOld, TypeOK, Until
  <2> QED BY <1>3, <1>0, <2>3, <2>4 DEF ClearOld, Typed, TypeOK, rowVars, ghostVars
<1>4. CASE Issue(h)
  <2>1. /\ [r EXCEPT !.pc = "save", !.token = now] \in Handler
        /\ [r EXCEPT !.pc = "save", !.token = now].token \in Time
    BY <1>0, <1>1 DEF Handler, TypeOK
  <2>2. handler' \in [Handlers -> Handler] /\ Signed'
    <3>1. CASE r.user \in there
      BY <1>4, <2>1, <3>1, GotoTyped DEF Issue
    <3>2. CASE r.user \notin there
      BY <1>4, <1>2, <3>2, GotoTyped DEF Issue
    <3> QED BY <3>1, <3>2
  <2> QED BY <1>4, <1>0, <2>2 DEF Issue, Typed, TypeOK, rowVars, tokenVars, ghostVars
<1>5. CASE Save(h)
  <2> DEFINE u == r.user
             t == r.token
  <2>1. now + Ttl \in Until(Ttl)
    BY <1>0, UntilType DEF TypeOK
  <2>2. handler' \in [Handlers -> Handler] /\ Signed'
    BY <1>5, <1>2, GotoTyped DEF Save
  <2>3. t \in Time
    BY <1>5, <1>0 DEF Save, Signed
  <2>4. /\ expires' \in [Users -> [Time -> Until(Ttl)]]
        /\ index' \in [Users -> SUBSET Time]
        /\ indexUntil' \in [Users -> Until(Ttl)]
    BY <1>5, <1>0, <1>1, <2>1, <2>3 DEF Save, TypeOK
  <2>5. raced' \subseteq Users \X Time /\ late' \subseteq Users \X Time
    BY <1>5, <1>0, <1>1, <2>3 DEF Save, TypeOK
  <2> QED BY <1>5, <1>0, <2>2, <2>4, <2>5 DEF Save, Typed, TypeOK, rowVars
<1>6. CASE Schedule(h)
  <2>1. /\ [r EXCEPT !.update = FALSE] \in Handler
        /\ [r EXCEPT !.update = FALSE].pc = r.pc
        /\ [r EXCEPT !.update = FALSE].token = r.token
    BY <1>1 DEF Handler
  <2>2. handler' \in [Handlers -> Handler] /\ Signed'
    <3>1. CASE r.pc = "update"
      BY <1>6, <1>2, <3>1, GotoTyped DEF Schedule
    <3>2. CASE r.pc # "update"
      <4>1. Goto(h, [r EXCEPT !.update = FALSE])
        BY <1>6, <3>2 DEF Schedule
      <4>2. r.pc = "save" => r.token \in Time
        BY <1>0 DEF Signed
      <4> QED BY <4>1, <4>2, <2>1, GotoTyped
    <3> QED BY <3>1, <3>2
  <2>3. now + Grace \in Until(Grace)
    BY <1>0, UntilType DEF TypeOK
  <2>4. deletedAt' \in [Users -> Until(Grace)]
    BY <1>6, <1>0, <1>1, <2>3 DEF Schedule, TypeOK
  <2>5. overtaken' \subseteq Users
    BY <1>6, <1>0, <1>1, OvertakesType DEF Schedule
  <2> QED BY <1>6, <1>0, <2>2, <2>4, <2>5 DEF Schedule, Typed, TypeOK, tokenVars
<1>7. CASE ScanSessions(h)
  <2>1. /\ [r EXCEPT !.pc = "remove", !.seen = index[r.user]] \in Handler
        /\ [r EXCEPT !.pc = "remove", !.seen = index[r.user]].pc # "save"
    BY <1>0, <1>1 DEF Handler, TypeOK
  <2>2. handler' \in [Handlers -> Handler] /\ Signed'
    BY <1>7, <2>1, GotoTyped DEF ScanSessions
  <2> QED BY <1>7, <1>0, <2>2 DEF ScanSessions, Typed, TypeOK, rowVars, tokenVars, ghostVars
<1>8. CASE EndSessions(h)
  <2>1. /\ [r EXCEPT !.pc = "update", !.seen = {}] \in Handler
        /\ [r EXCEPT !.pc = "update", !.seen = {}].pc # "save"
    BY <1>1 DEF Handler
  <2>2. handler' \in [Handlers -> Handler] /\ Signed'
    <3>1. CASE r.update
      BY <1>8, <2>1, <3>1, GotoTyped DEF EndSessions
    <3>2. CASE ~r.update
      BY <1>8, <1>2, <3>2, GotoTyped DEF EndSessions
    <3> QED BY <3>1, <3>2
  <2>3. /\ expires' \in [Users -> [Time -> Until(Ttl)]]
        /\ index' \in [Users -> SUBSET Time]
        /\ indexUntil' \in [Users -> Until(Ttl)]
    BY <1>8, <1>0, <1>1, DeleteTokensType DEF EndSessions
  <2> QED BY <1>8, <1>0, <2>2, <2>3 DEF EndSessions, Typed, TypeOK, rowVars, ghostVars
<1>9. CASE Cancel(h)
  <2>1. handler' \in [Handlers -> Handler] /\ Signed'
    BY <1>9, <1>2, GotoTyped DEF Cancel
  <2>2. deletedAt' \in [Users -> Until(Grace)]
    BY <1>9, <1>0, <1>1 DEF Cancel, TypeOK, Until
  <2>3. overtaken' \subseteq Users
    BY <1>9, <1>0, <1>1, OvertakesType DEF Cancel
  <2> QED BY <1>9, <1>0, <2>1, <2>2, <2>3 DEF Cancel, Typed, TypeOK, tokenVars
<1> QED BY <1>3, <1>4, <1>5, <1>6, <1>7, <1>8, <1>9 DEF Continue

\* A step of a deleter on one user of its batch.
LEMMA ProgressType ==
  ASSUME TypeOK, NEW d \in Deleters, NEW u \in Users, NEW at \in Progress,
         NEW seen \in SUBSET Time,
         deleter' = [deleter EXCEPT ![d].at[u] = at, ![d].seen[u] = seen]
  PROVE  deleter' \in [Deleters -> Deleter]
<1>1. deleter[d] \in Deleter /\ deleter \in [Deleters -> Deleter]
  BY DeleterType DEF TypeOK
<1>2. [deleter[d] EXCEPT !.at[u] = at, !.seen[u] = seen] \in Deleter
  BY <1>1 DEF Deleter
<1>3. deleter' = [deleter EXCEPT ![d] = [deleter[d] EXCEPT !.at[u] = at, !.seen[u] = seen]]
  BY <1>1 DEF Deleter
<1> QED BY <1>1, <1>2, <1>3

\* Steps of the deleters.
LEMMA DeleterTyped ==
  ASSUME Typed, NEW d \in Deleters,
         StartPurge(d) \/ Work(d) \/ \E u \in Users : StartForced(d, u) \/ TokensFail(d, u)
  PROVE  Typed'
<1> USE AccountsAssumption
<1>0. TypeOK /\ Signed
  BY DEF Typed
<1>1. CASE StartPurge(d)
  <2>1. [Rest EXCEPT !.kind = "cron",
              !.at = [u \in Users |-> IF u \in Expired THEN "tokens" ELSE "out"]] \in Deleter
    BY DEF Rest, Deleter, Progress
  <2>2. deleter' \in [Deleters -> Deleter]
    BY <1>1, <1>0, <2>1 DEF StartPurge, TypeOK
  <2> QED BY <1>1, <1>0, <2>2 DEF StartPurge, Typed, TypeOK, Signed, rowVars, tokenVars, ghostVars
<1>2. ASSUME NEW u \in Users, StartForced(d, u) PROVE Typed'
  <2>1. [Rest EXCEPT !.kind = "force", !.at[u] = "tokens"] \in Deleter
    BY DEF Rest, Deleter, Progress
  <2>2. deleter' \in [Deleters -> Deleter]
    BY <1>2, <1>0, <2>1 DEF StartForced, TypeOK
  <2>3. requests' \in 0..MaxRequests
    <3>1. requests \in 0..MaxRequests
      BY <1>0 DEF TypeOK
    <3>2. requests < MaxRequests /\ requests' = requests + 1
      BY <1>2 DEF StartForced
    <3> QED BY <3>1, <3>2
  <2> QED BY <1>2, <1>0, <2>2, <2>3
          DEF StartForced, Typed, TypeOK, Signed, rowVars, tokenVars, ghostVars
<1>3. ASSUME NEW u \in Users, TokensFail(d, u) PROVE Typed'
  <2>1. deleter' \in [Deleters -> Deleter]
    <3>1. "failed" \in Progress /\ {} \in SUBSET Time
      BY DEF Progress
    <3> QED BY <1>3, <1>0, <3>1, ProgressType DEF TokensFail
  <2>2. faults' \in 0..MaxFaults
    <3>1. faults \in 0..MaxFaults
      BY <1>0 DEF TypeOK
    <3> QED BY <1>3, <3>1 DEF TokensFail
  <2> QED BY <1>3, <1>0, <2>1, <2>2
          DEF TokensFail, Typed, TypeOK, Signed, rowVars, tokenVars
<1>4. ASSUME NEW u \in Users, ReadTokens(d, u) PROVE Typed'
  <2>1. deleter' \in [Deleters -> Deleter]
    <3>1. "remove" \in Progress /\ index[u] \in SUBSET Time
      BY <1>0 DEF Progress, TypeOK
    <3> QED BY <1>4, <1>0, <3>1, ProgressType DEF ReadTokens
  <2> QED BY <1>4, <1>0, <2>1 DEF ReadTokens, Typed, TypeOK, Signed, rowVars, tokenVars, ghostVars
<1>5. ASSUME NEW u \in Users, RemoveTokens(d, u) PROVE Typed'
  <2>1. deleter' \in [Deleters -> Deleter]
    <3>1. "done" \in Progress /\ {} \in SUBSET Time
      BY DEF Progress
    <3> QED BY <1>5, <1>0, <3>1, ProgressType DEF RemoveTokens
  <2>2. /\ expires' \in [Users -> [Time -> Until(Ttl)]]
        /\ index' \in [Users -> SUBSET Time]
        /\ indexUntil' \in [Users -> Until(Ttl)]
    BY <1>5, <1>0, DeleteTokensType DEF RemoveTokens
  <2> QED BY <1>5, <1>0, <2>1, <2>2 DEF RemoveTokens, Typed, TypeOK, Signed, rowVars, ghostVars
<1>6. CASE DeleteRows(d)
  <2>1. deleter' \in [Deleters -> Deleter]
    BY <1>6, <1>0, RestType DEF DeleteRows, TypeOK
  <2>2. there' \subseteq Users
    BY <1>6, <1>0 DEF DeleteRows, TypeOK
  <2>3. deletedAt' \in [Users -> Until(Grace)]
    BY <1>6, <1>0 DEF DeleteRows, TypeOK, Until
  <2> QED BY <1>6, <1>0, <2>1, <2>2, <2>3
          DEF DeleteRows, Typed, TypeOK, Signed, tokenVars, ghostVars
<1> QED BY <1>1, <1>2, <1>3, <1>4, <1>5, <1>6 DEF Work

\* Keys that expire, and tokens that are handed in.
LEMMA TickTyped == ASSUME Typed, Tick PROVE Typed'
<1> USE AccountsAssumption
<1>1. now' \in Time
  BY DEF Tick, Typed, TypeOK, Time
<1>2. Never \in Until(Ttl)
  BY DEF Until
<1>3. /\ expires' \in [Users -> [Time -> Until(Ttl)]]
      /\ index' \in [Users -> SUBSET Time]
      /\ indexUntil' \in [Users -> Until(Ttl)]
  BY <1>2 DEF Tick, Typed, TypeOK
<1> QED BY <1>1, <1>3 DEF Tick, Typed, TypeOK, Signed, rowVars, ghostVars

LEMMA LogoutTyped ==
  ASSUME Typed, NEW u \in Users, NEW t \in Time, Logout(u, t) PROVE Typed'
<1>1. Never \in Until(Ttl)
  BY DEF Until
<1>2. /\ expires' \in [Users -> [Time -> Until(Ttl)]]
      /\ index' \in [Users -> SUBSET Time]
  BY <1>1 DEF Logout, Typed, TypeOK
<1> QED BY <1>2 DEF Logout, Typed, TypeOK, Signed, rowVars, ghostVars

\* The server comes back with no request and no batch.
LEMMA RestartTyped == ASSUME Typed, Restart PROVE Typed'
<1>1. faults' \in 0..MaxFaults
  BY AccountsAssumption DEF Restart, Typed, TypeOK
<1>2. handler' \in [Handlers -> Handler] /\ deleter' \in [Deleters -> Deleter]
  BY IdleType, RestType DEF Restart
<1>3. Signed'
  BY DEF Restart, Signed, Idle
<1> QED BY <1>1, <1>2, <1>3 DEF Restart, Typed, TypeOK, rowVars, tokenVars

\* Every step keeps the types, and they hold to begin with.
LEMMA TypedStep == ASSUME Typed, [Next]_vars PROVE Typed'
<1>1. ASSUME NEW h \in Handlers, Request(h) \/ Continue(h) PROVE Typed'
  BY <1>1, RequestTyped, ContinueTyped
<1>2. CASE UNCHANGED vars
  BY <1>2 DEF Typed, TypeOK, Signed, vars
<1> QED BY <1>1, <1>2, LogoutTyped, DeleterTyped, TickTyped, RestartTyped DEF Next

LEMMA TypedInit == ASSUME Init PROVE Typed
<1> USE AccountsAssumption
<1>1. /\ now \in Time
      /\ deletedAt \in [Users -> Until(Grace)]
      /\ expires \in [Users -> [Time -> Until(Ttl)]]
      /\ indexUntil \in [Users -> Until(Ttl)]
  BY DEF Init, Time, Until
<1>2. handler \in [Handlers -> Handler] /\ deleter \in [Deleters -> Deleter] /\ Signed
  BY IdleType, RestType DEF Init, Signed, Idle
<1> QED BY <1>1, <1>2 DEF Init, Typed, TypeOK

LEMMA TypedHolds == Spec => []Typed
  BY TypedInit, TypedStep, PTL DEF Spec

\* Every variable of the account model keeps to its type: expiry times stay within a
\* lifetime of the clock, and deletions within the grace period.
THEOREM TypeCorrect == Spec => []TypeOK
<1>1. Typed => TypeOK
  BY DEF Typed
<1> QED BY <1>1, TypedHolds, PTL

-----------------------------------------------------------------------------
(* No token is lost from the index of its user.                            *)

\* Of the tokens of u, those that a reader of the index has not seen are known to
\* have been stored since.
Caught(u, seen) ==
  \A t \in Time : Stored(u, t) /\ t \notin seen => <<u, t>> \in raced

\* The tokens of u, when none should be stored.
Excused(u) == \A t \in Time : Stored(u, t) => <<u, t>> \in raced \cup late

\* No indexed token outlives the index, which EXPIRE renews with every token.
Covered ==
  \A u \in Users, t \in Time :
    Stored(u, t) /\ t \in index[u] => expires[u][t] <= indexUntil[u]
Fresh == \A u \in Users, t \in Time : expires[u][t] <= now + Ttl

\* Who is about to delete all tokens has seen them all.
HandlersCatch ==
  \A h \in Handlers :
    handler[h].pc = "remove" => Caught(handler[h].user, handler[h].seen)
DeletersCatch ==
  \A d \in Deleters, u \in Users :
    deleter[d].at[u] = "remove" => Caught(u, deleter[d].seen[u])

\* A deleter that is done with a user has left none.
DoneTokensGone ==
  \A d \in Deleters, u \in Users : deleter[d].at[u] = "done" => Excused(u)

TokenInv ==
  /\ TokensIndexed /\ Covered /\ Fresh
  /\ HandlersCatch /\ DeletersCatch
  /\ DoneTokensGone /\ TokensGoFirst

\* A step of a handler that leaves Redis alone, and sees every token if it goes on to
\* delete them.
LEMMA HandlerMoves ==
  ASSUME Typed, TokenInv, NEW h \in Handlers, NEW r \in Handler, Goto(h, r),
         r.pc = "remove" => Caught(r.user, r.seen),
         UNCHANGED <<now, there, expires, index, indexUntil, deleter, raced, late>>
  PROVE  TokenInv'
<1>1. handler \in [Handlers -> Handler]
  BY DEF Typed, TypeOK
<1>2. HandlersCatch'
  <2> SUFFICES ASSUME NEW g \in Handlers, handler'[g].pc = "remove",
                      NEW t \in Time, Stored(handler'[g].user, t),
                      t \notin handler'[g].seen
               PROVE  <<handler'[g].user, t>> \in raced
    BY DEF HandlersCatch, Caught, Stored
  <2>1. CASE g = h
    BY <1>1, <2>1 DEF Goto, Caught
  <2>2. CASE g # h
    <3>1. handler'[g] = handler[g]
      BY <1>1, <2>2 DEF Goto
    <3> QED BY <3>1 DEF TokenInv, HandlersCatch, Caught
  <2> QED BY <2>1, <2>2
<1> QED BY <1>2 DEF TokenInv, TokensIndexed, Covered, Fresh, DeletersCatch, DoneTokensGone,
                    TokensGoFirst, Caught, Excused, Stored

\* A step of a deleter that leaves Redis alone.
LEMMA DeleterMoves ==
  ASSUME Typed, TokenInv,
         \A d \in Deleters, u \in Users :
           /\ deleter'[d].at[u] = "remove" => Caught(u, deleter'[d].seen[u])
           /\ deleter'[d].at[u] = "done" => Excused(u),
         \A u \in Users : u \notin there' => Excused(u),
         UNCHANGED <<now, expires, index, indexUntil, handler, raced, late>>
  PROVE  TokenInv'
<1>1. DeletersCatch' /\ DoneTokensGone'
  BY DEF DeletersCatch, DoneTokensGone, Caught, Excused, Stored
<1>2. TokensGoFirst'
  BY DEF TokensGoFirst, Excused, Stored
<1> QED BY <1>1, <1>2 DEF TokenInv, TokensIndexed, Covered, Fresh, HandlersCatch, Caught, Stored

\* Tokens go, or leave the index together with their keys, while nothing is read.
LEMMA TokensGo ==
  ASSUME Typed, TokenInv, now' \in Nat, now <= now',
         \A u \in Users, t \in Time :
           /\ expires'[u][t] \in {Never, expires[u][t]}
           /\ expires'[u][t] # Never /\ t \in index[u] =>
                t \in index'[u] /\ indexUntil'[u] = indexUntil[u]
           /\ t \in index'[u] => t \in index[u],
         \A h \in Handlers : handler'[h].pc = "remove" => handler'[h] = handler[h],
         \A d \in Deleters, u \in Users :
           /\ deleter'[d].at[u] = "remove" =>
                deleter[d].at[u] = "remove" /\ deleter'[d].seen[u] = deleter[d].seen[u]
           /\ deleter'[d].at[u] = "done" => deleter[d].at[u] = "done",
         UNCHANGED <<there, raced, late>>
  PROVE  TokenInv'
<1>1. \A u \in Users, t \in Time : Stored(u, t)' => Stored(u, t) /\ expires'[u][t] = expires[u][t]
  BY DEF Stored
<1>2. TokensIndexed' /\ TokensGoFirst'
  BY <1>1 DEF TokenInv, TokensIndexed, TokensGoFirst, Stored
<1>3. Covered'
  BY <1>1 DEF TokenInv, Covered, Stored
<1>4. Fresh'
  <2> SUFFICES ASSUME NEW u \in Users, NEW t \in Time PROVE expires'[u][t] <= now' + Ttl
    BY DEF Fresh
  <2>1. now \in Nat /\ Ttl \in Nat /\ expires[u][t] \in Nat
    BY AccountsAssumption DEF Typed, TypeOK, Time, Until, Never
  <2>2. expires[u][t] <= now + Ttl
    BY DEF TokenInv, Fresh
  <2> QED BY <2>1, <2>2 DEF Never
<1>5. HandlersCatch'
  <2> SUFFICES ASSUME NEW h \in Handlers, handler'[h].pc = "remove",
                      NEW t \in Time, Stored(handler[h].user, t)', t \notin handler'[h].seen
               PROVE  <<handler'[h].user, t>> \in raced
    BY DEF HandlersCatch, Caught
  <2>1. handler'[h] = handler[h] /\ handler[h].user \in Users
    BY HandlerType DEF Typed
  <2> QED BY <2>1, <1>1 DEF TokenInv, HandlersCatch, Caught, Stored
<1>6. DeletersCatch'
  BY <1>1 DEF TokenInv, DeletersCatch, Caught
<1>7. DoneTokensGone'
  BY <1>1 DEF TokenInv, DoneTokensGone, Excused
<1> QED BY <1>2, <1>3, <1>4, <1>5, <1>6, <1>7 DEF TokenInv

\* All tokens of a user are deleted: those that stay were stored meanwhile.
LEMMA AllTokensGo ==
  ASSUME Typed, TokenInv, NEW v \in Users, NEW seen \in SUBSET Time, Caught(v, seen),
         DeleteTokens(v, seen),
         \A h \in Handlers : handler'[h].pc = "remove" => handler'[h] = handler[h],
         \A d \in Deleters, u \in Users :
           /\ deleter'[d].at[u] = "remove" =>
                deleter[d].at[u] = "remove" /\ deleter'[d].seen[u] = deleter[d].seen[u]
           /\ deleter'[d].at[u] = "done" => deleter[d].at[u] = "done" \/ u = v,
         UNCHANGED <<now, there, raced, late>>
  PROVE  TokenInv'
<1>0. TypeOK /\ Never \in Nat
  BY DEF Typed, Never
<1>1. \A u \in Users, t \in Time :
        expires'[u][t] = IF u = v /\ t \in seen THEN Never ELSE expires[u][t]
  BY <1>0 DEF DeleteTokens, TypeOK
<1>2. \A u \in Users : index'[u] = IF u = v THEN {} ELSE index[u]
  BY <1>0 DEF DeleteTokens, TypeOK
<1>3. \A u \in Users : u # v => indexUntil'[u] = indexUntil[u]
  BY <1>0 DEF DeleteTokens, TypeOK
<1>4. \A u \in Users, t \in Time : Stored(u, t)' => Stored(u, t) /\ expires'[u][t] = expires[u][t]
  BY <1>1 DEF Stored
<1>5. \A t \in Time : Stored(v, t)' => <<v, t>> \in raced
  BY <1>1 DEF Stored, Caught
<1>6. TokensIndexed'
  BY <1>2, <1>4, <1>5 DEF TokenInv, TokensIndexed
<1>7. TokensGoFirst'
  BY <1>4 DEF TokenInv, TokensGoFirst
<1>8. Covered'
  BY <1>2, <1>3, <1>4 DEF TokenInv, Covered
<1>9. Fresh'
  <2> SUFFICES ASSUME NEW u \in Users, NEW t \in Time PROVE expires'[u][t] <= now + Ttl
    BY DEF Fresh
  <2>1. now \in Nat /\ Ttl \in Nat
    BY <1>0, AccountsAssumption DEF TypeOK, Time
  <2>2. expires[u][t] <= now + Ttl
    BY DEF TokenInv, Fresh
  <2> QED BY <2>1, <2>2, <1>1 DEF Never
<1>10. HandlersCatch'
  <2> SUFFICES ASSUME NEW h \in Handlers, handler'[h].pc = "remove",
                      NEW t \in Time, Stored(handler[h].user, t)', t \notin handler'[h].seen
               PROVE  <<handler'[h].user, t>> \in raced
    BY DEF HandlersCatch, Caught
  <2>1. handler'[h] = handler[h] /\ handler[h].user \in Users
    BY <1>0, HandlerType
  <2> QED BY <2>1, <1>4 DEF TokenInv, HandlersCatch, Caught, Stored
<1>11. DeletersCatch'
  BY <1>4 DEF TokenInv, DeletersCatch, Caught
<1>12. DoneTokensGone'
  BY <1>4, <1>5 DEF TokenInv, DoneTokensGone, Excused
<1> QED BY <1>6, <1>7, <1>8, <1>9, <1>10, <1>11, <1>12 DEF TokenInv

\* Storing a token: whoever deletes all tokens meanwhile has it recorded.
LEMMA SaveKeepsTokens ==
  ASSUME Typed, TokenInv, NEW h \in Handlers, Save(h) PROVE TokenInv'
<1> DEFINE v == handler[h].user
           s == handler[h].token
<1>0. TypeOK /\ v \in Users /\ s \in Time
  BY HandlerType DEF Typed, Signed, Save
<1>1. now \in Nat /\ Ttl \in Nat /\ now + Ttl # Never
  BY <1>0, AccountsAssumption DEF TypeOK, Time, Never
<1>2. \A u \in Users, t \in Time :
        expires'[u][t] = IF u = v /\ t = s THEN now + Ttl ELSE expires[u][t]
  BY <1>0 DEF Save, TypeOK
<1>3. \A u \in Users : index'[u] = IF u = v THEN index[u] \cup {s} ELSE index[u]
  BY <1>0 DEF Save, TypeOK
<1>4. \A u \in Users : indexUntil'[u] = IF u = v THEN now + Ttl ELSE indexUntil[u]
  BY <1>0 DEF Save, TypeOK
<1>5. /\ raced \subseteq raced' /\ late \subseteq late'
      /\ Clearing(v, s) => <<v, s>> \in raced'
      /\ Doomed(v) => <<v, s>> \in late'
  BY DEF Save
<1>6. /\ UNCHANGED <<now, there, deleter>>
      /\ \A g \in Handlers : handler'[g].pc = "remove" => handler'[g] = handler[g] /\ g # h
  BY <1>0 DEF Save, Goto, Idle, rowVars, TypeOK
<1>7. \A u \in Users, t \in Time : Stored(u, t)' => Stored(u, t) \/ (u = v /\ t = s)
  BY <1>2 DEF Stored
<1>8. TokensIndexed'
  BY <1>3, <1>5, <1>7 DEF TokenInv, TokensIndexed
<1>9. TokensGoFirst'
  BY <1>5, <1>6, <1>7 DEF TokenInv, TokensGoFirst, Doomed
<1>10. Fresh'
  BY <1>1, <1>2, <1>6 DEF TokenInv, Fresh
<1>11. Covered'
  <2> SUFFICES ASSUME NEW u \in Users, NEW t \in Time, Stored(u, t)', t \in index'[u]
               PROVE  expires'[u][t] <= indexUntil'[u]
    BY DEF Covered
  <2>1. CASE u = v
    BY <2>1, <1>1, <1>4, <1>6, <1>10 DEF Fresh
  <2>2. CASE u # v
    BY <2>2, <1>2, <1>3, <1>4, <1>7 DEF TokenInv, Covered
  <2> QED BY <2>1, <2>2
<1>12. HandlersCatch'
  <2> SUFFICES ASSUME NEW g \in Handlers, handler'[g].pc = "remove",
                      NEW t \in Time, Stored(handler[g].user, t)', t \notin handler'[g].seen
               PROVE  <<handler'[g].user, t>> \in raced'
    BY DEF HandlersCatch, Caught
  <2>1. handler'[g] = handler[g] /\ handler[g].user \in Users
    BY <1>0, <1>6, HandlerType
  <2>2. CASE handler[g].user = v /\ t = s
    BY <2>1, <2>2, <1>5 DEF Clearing
  <2>3. CASE ~(handler[g].user = v /\ t = s)
    BY <2>1, <2>3, <1>5, <1>7 DEF TokenInv, HandlersCatch, Caught, Stored
  <2> QED BY <2>2, <2>3
<1>13. DeletersCatch'
  <2> SUFFICES ASSUME NEW d \in Deleters, NEW u \in Users, deleter[d].at[u] = "remove",
                      NEW t \in Time, Stored(u, t)', t \notin deleter[d].seen[u]
               PROVE  <<u, t>> \in raced'
    BY <1>6 DEF DeletersCatch, Caught
  <2>1. CASE u = v /\ t = s
    BY <2>1, <1>5 DEF Clearing
  <2>2. CASE ~(u = v /\ t = s)
    BY <2>2, <1>5, <1>7 DEF TokenInv, DeletersCatch, Caught
  <2> QED BY <2>1, <2>2
<1>14. DoneTokensGone'
  <2> SUFFICES ASSUME NEW d \in Deleters, NEW u \in Users, deleter[d].at[u] = "done",
                      NEW t \in Time, Stored(u, t)'
               PROVE  <<u, t>> \in raced' \cup late'
    BY <1>6 DEF DoneTokensGone, Excused
  <2>1. CASE u = v /\ t = s
    BY <2>1, <1>5 DEF Doomed
  <2>2. CASE ~(u = v /\ t = s)
    BY <2>2, <1>5, <1>7 DEF TokenInv, DoneTokensGone, Excused
  <2> QED BY <2>1, <2>2
<1> QED BY <1>8, <1>9, <1>10, <1>11, <1>12, <1>13, <1>14 DEF TokenInv

\* Every other step of the requests.
LEMMA RequestKeepsTokens ==
  ASSUME Typed, TokenInv, NEW h \in Handlers, Request(h) PROVE TokenInv'
<1>0. Idle.user \in Users /\ Idle \in Handler
  BY IdleType
<1>1. ASSUME NEW u \in Users, BeginLogin(h, u) PROVE TokenInv'
  <2> DEFINE r == [Idle EXCEPT !.pc = "issue", !.user = u]
  <2>1. r \in Handler /\ r.pc # "remove"
    BY <1>0 DEF Handler
  <2> QED BY <1>1, <2>1, HandlerMoves DEF BeginLogin, Begin, rowVars, tokenVars, ghostVars
<1>2. ASSUME NEW u \in Users, BeginCancel(h, u) PROVE TokenInv'
  <2> DEFINE r == [Idle EXCEPT !.pc = "cancel", !.user = u]
  <2>1. r \in Handler /\ r.pc # "remove"
    BY <1>0 DEF Handler
  <2> QED BY <1>2, <2>1, HandlerMoves DEF BeginCancel, Begin, rowVars, tokenVars, ghostVars
<1>3. ASSUME NEW u \in Users, NEW t \in Time, BeginRefresh(h, u, t) PROVE TokenInv'
  <2> DEFINE r == [Idle EXCEPT !.pc = "clear", !.user = u, !.token = t]
  <2>1. r \in Handler /\ r.pc # "remove"
    BY <1>0 DEF Handler
  <2> QED BY <1>3, <2>1, HandlerMoves DEF BeginRefresh, Begin, rowVars, tokenVars, ghostVars
<1>4. ASSUME NEW u \in Users, NEW pc \in {"scan", "update"}, BeginSchedule(h, u, pc)
      PROVE  TokenInv'
  <2> DEFINE r == [Idle EXCEPT !.pc = pc, !.user = u, !.update = TRUE]
  <2>1. r \in Handler /\ r.pc # "remove"
    BY <1>0 DEF Handler
  <2> QED BY <1>4, <2>1, HandlerMoves DEF BeginSchedule, Begin, rowVars, tokenVars, ghostVars
<1> QED BY <1>1, <1>2, <1>3, <1>4 DEF Request

LEMMA ContinueKeepsTokens ==
  ASSUME Typed, TokenInv, NEW h \in Handlers, Continue(h) PROVE TokenInv'
<1> DEFINE r == handler[h]
<1>0. TypeOK
  BY DEF Typed
<1>1. r \in Handler /\ r.user \in Users /\ r.seen \subseteq Time
  BY <1>0, HandlerType
<1>2. Idle \in Handler /\ Idle.pc # "remove"
  BY IdleType DEF Idle
<1>3. now \in Nat
  BY <1>0 DEF TypeOK, Time
<1>4. CASE ClearOld(h)
  <2>1. \A u \in Users, t \in Time :
          /\ expires'[u][t] = IF u = r.user /\ t = r.token THEN Never ELSE expires[u][t]
          /\ t \in index'[u] <=> t \in index[u] /\ ~(u = r.user /\ t = r.token)
    BY <1>4, <1>0 DEF ClearOld, TypeOK
  <2>2. \A g \in Handlers : handler'[g].pc = "remove" => handler'[g] = handler[g]
    BY <1>4, <1>0, <1>1 DEF ClearOld, Goto, TypeOK, Handler
  <2>3. UNCHANGED <<now, there, indexUntil, deleter, raced, late>>
    BY <1>4 DEF ClearOld, rowVars, ghostVars
  <2> QED BY <2>1, <2>2, <2>3, <1>3, TokensGo
<1>5. CASE Issue(h)
  <2>1. /\ [r EXCEPT !.pc = "save", !.token = now] \in Handler
        /\ [r EXCEPT !.pc = "save", !.token = now].pc # "remove"
    BY <1>0, <1>1 DEF Handler, TypeOK
  <2>2. UNCHANGED <<now, there, expires, index, indexUntil, deleter, raced, late>>
    BY <1>5 DEF Issue, rowVars, tokenVars, ghostVars
  <2>3. CASE r.user \in there
    BY <1>5, <2>1, <2>2, <2>3, HandlerMoves DEF Issue
  <2>4. CASE r.user \notin there
    BY <1>5, <1>2, <2>2, <2>4, HandlerMoves DEF Issue
  <2> QED BY <2>3, <2>4
<1>6. CASE Save(h)
  BY <1>6, SaveKeepsTokens
<1>7. CASE Schedule(h)
  <2> DEFINE q == [r EXCEPT !.update = FALSE]
  <2>1. q \in Handler /\ q.pc = r.pc /\ q.user = r.user /\ q.seen = r.seen
    BY <1>1 DEF Handler
  <2>2. UNCHANGED <<now, there, expires, index, indexUntil, deleter, raced, late>>
    BY <1>7 DEF Schedule, tokenVars
  <2>3. CASE r.pc = "update"
    BY <1>7, <1>2, <2>2, <2>3, HandlerMoves DEF Schedule
  <2>4. CASE r.pc # "update"
    <3>1. Goto(h, q)
      BY <1>7, <2>4 DEF Schedule
    <3>2. q.pc = "remove" => Caught(q.user, q.seen)
      BY <2>1 DEF TokenInv, HandlersCatch
    <3> HIDE DEF q
    <3> QED BY <3>1, <3>2, <2>1, <2>2, HandlerMoves
  <2> QED BY <2>3, <2>4
<1>8. CASE ScanSessions(h)
  <2> DEFINE q == [r EXCEPT !.pc = "remove", !.seen = index[r.user]]
  <2>1. q \in Handler /\ q.user = r.user /\ q.seen = index[r.user]
    BY <1>0, <1>1 DEF Handler, TypeOK
  <2>2. Caught(q.user, q.seen)
    BY <1>1, <2>1 DEF TokenInv, TokensIndexed, Caught
  <2>3. UNCHANGED <<now, there, expires, index, indexUntil, deleter, raced, late>>
    BY <1>8 DEF ScanSessions, rowVars, tokenVars, ghostVars
  <2> QED BY <1>8, <2>1, <2>2, <2>3, HandlerMoves DEF ScanSessions
<1>9. CASE EndSessions(h)
  <2>1. Caught(r.user, r.seen) /\ DeleteTokens(r.user, r.seen)
    BY <1>9 DEF EndSessions, TokenInv, HandlersCatch
  <2>2. \A g \in Handlers : handler'[g].pc = "remove" => handler'[g] = handler[g]
    <3>1. [r EXCEPT !.pc = "update", !.seen = {}].pc # "remove"
      BY <1>1 DEF Handler
    <3> QED BY <1>9, <1>0, <1>2, <3>1 DEF EndSessions, Goto, TypeOK
  <2>3. UNCHANGED <<now, there, deleter, raced, late>>
    BY <1>9 DEF EndSessions, rowVars, ghostVars
  <2> QED BY <1>1, <2>1, <2>2, <2>3, AllTokensGo
<1>10. CASE Cancel(h)
  <2>1. UNCHANGED <<now, there, expires, index, indexUntil, deleter, raced, late>>
    BY <1>10 DEF Cancel, tokenVars
  <2> QED BY <1>10, <1>2, <2>1, HandlerMoves DEF Cancel
<1> QED BY <1>4, <1>5, <1>6, <1>7, <1>8, <1>9, <1>10 DEF Continue

\* What a deleter has done of its users when one of them moves on.
Moves(d, v, at, seen) ==
  deleter' = [deleter EXCEPT ![d].at[v] = at, ![d].seen[v] = seen]

LEMMA ProgressMoves ==
  ASSUME TypeOK, NEW d \in Deleters, NEW v \in Users, NEW at \in Progress,
         NEW seen \in SUBSET Time, Moves(d, v, at, seen)
  PROVE  \A e \in Deleters, u \in Users :
           /\ deleter'[e].kind = deleter[e].kind
           /\ deleter'[e].at[u] = IF e = d /\ u = v THEN at ELSE deleter[e].at[u]
           /\ deleter'[e].seen[u] = IF e = d /\ u = v THEN seen ELSE deleter[e].seen[u]
<1>1. deleter \in [Deleters -> Deleter]
  BY DEF TypeOK
<1> QED BY <1>1 DEF Deleter, Moves

LEMMA DeleterKeepsTokens ==
  ASSUME Typed, TokenInv, NEW d \in Deleters,
         StartPurge(d) \/ Work(d) \/ \E u \in Users : StartForced(d, u) \/ TokensFail(d, u)
  PROVE  TokenInv'
<1>0. TypeOK /\ deleter \in [Deleters -> Deleter]
  BY DEF Typed, TypeOK
<1>a. /\ \A u \in Users : u \notin there => Excused(u)
      /\ \A e \in Deleters, u \in Users :
           /\ deleter[e].at[u] = "remove" => Caught(u, deleter[e].seen[u])
           /\ deleter[e].at[u] = "done" => Excused(u)
  BY DEF TokenInv, TokensGoFirst, Excused, DeletersCatch, DoneTokensGone
<1>1. CASE StartPurge(d)
  <2>1. \A e \in Deleters, u \in Users :
          \/ deleter'[e].at[u] \in {"tokens", "out"}
          \/ deleter'[e] = deleter[e]
    BY <1>1, <1>0 DEF StartPurge, Rest
  <2>2. UNCHANGED <<now, there, expires, index, indexUntil, handler, raced, late>>
    BY <1>1 DEF StartPurge, rowVars, tokenVars, ghostVars
  <2> QED BY <2>1, <2>2, <1>a, DeleterMoves
<1>2. ASSUME NEW v \in Users, StartForced(d, v) PROVE TokenInv'
  <2>1. \A e \in Deleters, u \in Users :
          \/ deleter'[e].at[u] \in {"tokens", "out"}
          \/ deleter'[e] = deleter[e]
    BY <1>2, <1>0 DEF StartForced, Rest
  <2>2. UNCHANGED <<now, there, expires, index, indexUntil, handler, raced, late>>
    BY <1>2 DEF StartForced, rowVars, tokenVars, ghostVars
  <2> QED BY <2>1, <2>2, <1>a, DeleterMoves
<1>3. ASSUME NEW v \in Users, TokensFail(d, v) PROVE TokenInv'
  <2>1. \A e \in Deleters, u \in Users :
          \/ deleter'[e].at[u] = "failed"
          \/ deleter'[e].at[u] = deleter[e].at[u] /\ deleter'[e].seen[u] = deleter[e].seen[u]
    <3>1. "failed" \in Progress /\ {} \in SUBSET Time
      BY DEF Progress
    <3>2. Moves(d, v, "failed", {})
      BY <1>3 DEF TokensFail, Moves
    <3>3. \A e \in Deleters, u \in Users :
            /\ deleter'[e].at[u] = IF e = d /\ u = v THEN "failed" ELSE deleter[e].at[u]
            /\ deleter'[e].seen[u] = IF e = d /\ u = v THEN {} ELSE deleter[e].seen[u]
      BY <1>0, <3>1, <3>2, ProgressMoves
    <3> QED BY <3>3
  <2>2. UNCHANGED <<now, there, expires, index, indexUntil, handler, raced, late>>
    BY <1>3 DEF TokensFail, rowVars, tokenVars
  <2> QED BY <2>1, <2>2, <1>a, DeleterMoves
<1>4. ASSUME NEW v \in Users, ReadTokens(d, v) PROVE TokenInv'
  <2>1. \A e \in Deleters, u \in Users :
          \/ deleter'[e].at[u] = "remove" /\ deleter'[e].seen[u] = index[u]
          \/ deleter'[e].at[u] = deleter[e].at[u] /\ deleter'[e].seen[u] = deleter[e].seen[u]
    <3>1. "remove" \in Progress /\ index[v] \in SUBSET Time
      BY <1>0 DEF Progress, TypeOK
    <3>2. Moves(d, v, "remove", index[v])
      BY <1>4 DEF ReadTokens, Moves
    <3>3. \A e \in Deleters, u \in Users :
            /\ deleter'[e].at[u] = IF e = d /\ u = v THEN "remove" ELSE deleter[e].at[u]
            /\ deleter'[e].seen[u] = IF e = d /\ u = v THEN index[v] ELSE deleter[e].seen[u]
      BY <1>0, <3>1, <3>2, ProgressMoves
    <3> QED BY <3>3
  <2>2. \A u \in Users : Caught(u, index[u])
    BY DEF TokenInv, TokensIndexed, Caught
  <2>3. UNCHANGED <<now, there, expires, index, indexUntil, handler, raced, late>>
    BY <1>4 DEF ReadTokens, rowVars, tokenVars, ghostVars
  <2> QED BY <2>1, <2>2, <2>3, <1>a, DeleterMoves
<1>5. ASSUME NEW v \in Users, RemoveTokens(d, v) PROVE TokenInv'
  <2> DEFINE seen == deleter[d].seen[v]
  <2>1. /\ deleter[d].at[v] = "remove"
        /\ Moves(d, v, "done", {})
        /\ DeleteTokens(v, seen)
        /\ UNCHANGED <<now, there, handler, raced, late>>
    BY <1>5 DEF RemoveTokens, rowVars, ghostVars, Moves
  <2>2. \A e \in Deleters, u \in Users :
          \/ deleter'[e].at[u] = "done" /\ u = v
          \/ deleter'[e].at[u] = deleter[e].at[u] /\ deleter'[e].seen[u] = deleter[e].seen[u]
    <3>1. "done" \in Progress /\ {} \in SUBSET Time
      BY DEF Progress
    <3>2. Moves(d, v, "done", {})
      BY <2>1 DEF Moves
    <3>3. \A e \in Deleters, u \in Users :
            /\ deleter'[e].at[u] = IF e = d /\ u = v THEN "done" ELSE deleter[e].at[u]
            /\ deleter'[e].seen[u] = IF e = d /\ u = v THEN {} ELSE deleter[e].seen[u]
      BY <1>0, <3>1, <3>2, ProgressMoves
    <3> QED BY <3>3
  <2>3. Caught(v, seen) /\ seen \in SUBSET Time
    BY <2>1, <1>0, <1>a, DeleterType
  <2> HIDE DEF seen
  <2> QED BY <2>1, <2>2, <2>3, AllTokensGo
<1>6. CASE DeleteRows(d)
  <2>1. \A e \in Deleters, u \in Users :
          \/ deleter'[e].at[u] = "out"
          \/ deleter'[e] = deleter[e]
    BY <1>6, <1>0 DEF DeleteRows, Rest
  <2>2. \A u \in Users : u \notin there' => u \notin there \/ deleter[d].at[u] = "done"
    BY <1>6 DEF DeleteRows
  <2>3. UNCHANGED <<now, expires, index, indexUntil, handler, raced, late>>
    BY <1>6 DEF DeleteRows, tokenVars, ghostVars
  <2> QED BY <2>1, <2>2, <2>3, <1>a, DeleterMoves
<1> QED BY <1>1, <1>2, <1>3, <1>4, <1>5, <1>6 DEF Work

LEMMA TickKeepsTokens == ASSUME Typed, TokenInv, Tick PROVE TokenInv'
<1>0. TypeOK
  BY DEF Typed
<1>1. now \in Nat /\ now' = now + 1 /\ now' \in Nat
  BY <1>0 DEF TypeOK, Time, Tick
<1>2. \A u \in Users, t \in Time :
        /\ expires'[u][t] \in {Never, expires[u][t]}
        /\ t \in index'[u] => t \in index[u]
  BY DEF Tick
<1>3. ASSUME NEW u \in Users, NEW t \in Time, expires'[u][t] # Never, t \in index[u]
      PROVE  t \in index'[u] /\ indexUntil'[u] = indexUntil[u]
  <2>1. expires[u][t] # Never /\ ~(expires[u][t] <= now')
    BY <1>3 DEF Tick
  <2>2. expires[u][t] <= indexUntil[u]
    BY <1>3, <2>1 DEF TokenInv, Covered, Stored
  <2>3. expires[u][t] \in Nat /\ indexUntil[u] \in Nat
    BY <1>0, AccountsAssumption DEF TypeOK, Until, Never, Time
  <2>4. ~(indexUntil[u] <= now')
    BY <1>1, <2>1, <2>2, <2>3
  <2> QED BY <1>3, <2>4 DEF Tick
<1>4. UNCHANGED <<there, handler, deleter, raced, late>>
  BY DEF Tick, rowVars, ghostVars
<1> QED BY <1>1, <1>2, <1>3, <1>4, TokensGo

LEMMA LogoutKeepsTokens ==
  ASSUME Typed, TokenInv, NEW v \in Users, NEW s \in Time, Logout(v, s) PROVE TokenInv'
<1>0. TypeOK
  BY DEF Typed
<1>1. now \in Nat
  BY <1>0 DEF TypeOK, Time
<1>2. \A u \in Users, t \in Time :
        /\ expires'[u][t] = IF u = v /\ t = s THEN Never ELSE expires[u][t]
        /\ t \in index'[u] <=> t \in index[u] /\ ~(u = v /\ t = s)
  BY <1>0 DEF Logout, TypeOK
<1>3. UNCHANGED <<now, there, indexUntil, handler, deleter, raced, late>>
  BY DEF Logout, rowVars, ghostVars
<1> QED BY <1>1, <1>2, <1>3, TokensGo

LEMMA RestartKeepsTokens == ASSUME Typed, TokenInv, Restart PROVE TokenInv'
<1>1. now \in Nat
  BY DEF Typed, TypeOK, Time
<1>2. /\ \A h \in Handlers : handler'[h].pc # "remove"
      /\ \A d \in Deleters, u \in Users : deleter'[d].at[u] = "out"
  BY DEF Restart, Idle, Rest
<1>3. UNCHANGED <<now, there, expires, index, indexUntil, raced, late>>
  BY DEF Restart, rowVars, tokenVars
<1> QED BY <1>1, <1>2, <1>3, TokensGo

\* Every step keeps the invariant.
LEMMA TokenInvStep == ASSUME Typed, TokenInv, [Next]_vars PROVE TokenInv'
<1>1. ASSUME NEW h \in Handlers, Request(h) \/ Continue(h) PROVE TokenInv'
  BY <1>1, RequestKeepsTokens, ContinueKeepsTokens
<1>2. CASE UNCHANGED vars
  BY <1>2 DEF TokenInv, TokensIndexed, Covered, Fresh, HandlersCatch, DeletersCatch,
              DoneTokensGone, TokensGoFirst, Caught, Excused, Stored, vars
<1> QED BY <1>1, <1>2, LogoutKeepsTokens, DeleterKeepsTokens, TickKeepsTokens,
           RestartKeepsTokens DEF Next

LEMMA TokenInvHolds == Spec => []TokenInv
<1>1. Init => TokenInv
  <2> SUFFICES ASSUME Init PROVE TokenInv
    OBVIOUS
  <2>1. \A u \in Users, t \in Time : ~Stored(u, t) /\ expires[u][t] <= now + Ttl
    BY AccountsAssumption DEF Init, Stored, Never
  <2>2. /\ \A h \in Handlers : handler[h].pc # "remove"
        /\ \A d \in Deleters, u \in Users : deleter[d].at[u] = "out"
    BY DEF Init, Idle, Rest
  <2> QED BY <2>1, <2>2 DEF TokenInv, TokensIndexed, Covered, Fresh, HandlersCatch,
             DeletersCatch, DoneTokensGone, TokensGoFirst
<1> QED BY <1>1, TypedHolds, TokenInvStep, PTL DEF Spec

\* Whoever ends all sessions of a user finds every token that is stored in the index,
\* for any lifetimes: the index never expires before a token it has
\* (setRefreshToken), and only tokens stored between SMEMBERS and DEL are missed.
THEOREM TokensIndexedHolds == Spec => []TokensIndexed
<1>1. TokenInv => TokensIndexed
  BY DEF TokenInv
<1> QED BY <1>1, TokenInvHolds, PTL

\* No token outlives its account, but those stored when the tokens of the account
\* were already read to be deleted (purgeExpiredAccounts, executeHardDelete).
THEOREM TokensGoFirstHolds == Spec => []TokensGoFirst
<1>1. TokenInv => TokensGoFirst
  BY DEF TokenInv
<1> QED BY <1>1, TokenInvHolds, PTL

-----------------------------------------------------------------------------
(* No row is deleted before its time.                                      *)

\* The deletion of u is due for deleter d: its time has come, or it was ordered.
Due(d, u) ==
  /\ deletedAt[u] # Never
  /\ deletedAt[u] <= now \/ deleter[d].kind = "force"

\* What a deleter has in its batch was due when it was read, and still is unless the
\* row is gone or someone has written its date since.
DueInv ==
  \A d \in Deleters, u \in Users :
    deleter[d].at[u] # "out" => u \in overtaken \/ u \notin there \/ Due(d, u)

\* A step that leaves the batches and the dates of the rows in them alone.
LEMMA BatchesKept ==
  ASSUME Typed, DueInv, now' \in Nat, now <= now', there' \subseteq there,
         overtaken \subseteq overtaken',
         \A d \in Deleters, u \in Users :
           deleter'[d].at[u] # "out" =>
             /\ deleter[d].at[u] # "out" /\ deleter'[d].kind = deleter[d].kind
             /\ u \in there' => u \in overtaken' \/ deletedAt'[u] = deletedAt[u]
  PROVE  DueInv'
<1> SUFFICES ASSUME NEW d \in Deleters, NEW u \in Users, deleter'[d].at[u] # "out",
                    u \notin overtaken', u \in there'
             PROVE  Due(d, u)'
  BY DEF DueInv
<1>1. Due(d, u) /\ deletedAt'[u] = deletedAt[u] /\ deleter'[d].kind = deleter[d].kind
  BY DEF DueInv
<1>2. now \in Nat /\ deletedAt[u] \in Nat
  BY AccountsAssumption DEF Typed, TypeOK, Time, Until, Never
<1> QED BY <1>1, <1>2 DEF Due

\* Writing a date overtakes the deleters that have the row in their batch.
LEMMA DatesOvertake ==
  ASSUME Typed, NEW v \in Users, NEW date, Overtakes(v),
         deletedAt' = IF v \in there THEN [deletedAt EXCEPT ![v] = date] ELSE deletedAt
  PROVE  /\ overtaken \subseteq overtaken'
         /\ \A d \in Deleters, u \in Users :
              deleter[d].at[u] # "out" => u \in overtaken' \/ deletedAt'[u] = deletedAt[u]
<1>1. deletedAt \in [Users -> Until(Grace)]
  BY DEF Typed, TypeOK
<1> QED BY <1>1 DEF Overtakes

LEMMA DueInvStep == ASSUME Typed, DueInv, [Next]_vars PROVE DueInv'
<1>0. TypeOK /\ now \in Nat /\ now <= now
  BY DEF Typed, TypeOK, Time
<1>a. deleter \in [Deleters -> Deleter]
  BY <1>0 DEF TypeOK
<1>1. ASSUME UNCHANGED <<now, there, deletedAt, deleter, overtaken>> PROVE DueInv'
  BY <1>1 DEF DueInv, Due
<1>2. ASSUME NEW h \in Handlers, Request(h) PROVE DueInv'
  BY <1>1, <1>2 DEF Request, BeginLogin, BeginRefresh, BeginSchedule, BeginCancel, rowVars,
                    ghostVars
<1>3. ASSUME NEW h \in Handlers, Continue(h) PROVE DueInv'
  <2>1. CASE ClearOld(h) \/ Issue(h) \/ Save(h) \/ ScanSessions(h) \/ EndSessions(h)
    BY <2>1, <1>1 DEF ClearOld, Issue, Save, ScanSessions, EndSessions, rowVars, ghostVars
  <2>2. handler[h].user \in Users
    BY <1>0, HandlerType
  <2>3. CASE Schedule(h)
    BY <2>3, <2>2, <1>0, DatesOvertake, BatchesKept DEF Schedule
  <2>4. CASE Cancel(h)
    BY <2>4, <2>2, <1>0, DatesOvertake, BatchesKept DEF Cancel
  <2> QED BY <1>3, <2>1, <2>3, <2>4 DEF Continue
<1>4. ASSUME NEW u \in Users, NEW t \in Time, Logout(u, t) PROVE DueInv'
  BY <1>1, <1>4 DEF Logout, rowVars, ghostVars
<1>5. ASSUME NEW d \in Deleters, NEW v \in Users, NEW at \in Progress, NEW seen \in SUBSET Time,
             Moves(d, v, at, seen), deleter[d].at[v] # "out",
             UNCHANGED <<now, there, deletedAt, overtaken>>
      PROVE  DueInv'
  <2>1. \A e \in Deleters, u \in Users :
          /\ deleter'[e].kind = deleter[e].kind
          /\ deleter'[e].at[u] # "out" => deleter[e].at[u] # "out"
    BY <1>5, <1>0, ProgressMoves
  <2> QED BY <1>5, <1>0, <2>1, BatchesKept
<1>6. ASSUME NEW d \in Deleters, StartPurge(d) PROVE DueInv'
  <2>1. \A e \in Deleters, u \in Users :
          \/ deleter'[e] = deleter[e]
          \/ deleter'[e].at[u] # "out" => u \in Expired
    BY <1>6, <1>a DEF StartPurge, Rest
  <2>2. UNCHANGED <<now, there, deletedAt, overtaken>>
    BY <1>6 DEF StartPurge, rowVars, ghostVars
  <2> QED BY <2>1, <2>2 DEF DueInv, Due, Expired
<1>7. ASSUME NEW d \in Deleters, NEW v \in Users, StartForced(d, v) PROVE DueInv'
  <2>1. \A e \in Deleters, u \in Users :
          \/ deleter'[e] = deleter[e]
          \/ deleter'[e].kind = "force" /\ (deleter'[e].at[u] # "out" => u = v)
    BY <1>7, <1>a DEF StartForced, Rest
  <2>2. deletedAt[v] # Never /\ UNCHANGED <<now, there, deletedAt, overtaken>>
    BY <1>7 DEF StartForced, rowVars, ghostVars
  <2> QED BY <2>1, <2>2 DEF DueInv, Due
<1>8. ASSUME NEW d \in Deleters, NEW v \in Users, TokensFail(d, v) PROVE DueInv'
  <2>1. "failed" \in Progress /\ {} \in SUBSET Time
    BY DEF Progress
  <2>2. Moves(d, v, "failed", {}) /\ deleter[d].at[v] # "out"
    BY <1>8 DEF TokensFail, Moves
  <2> QED BY <1>8, <1>5, <2>1, <2>2 DEF TokensFail, rowVars
<1>9. ASSUME NEW d \in Deleters, NEW v \in Users, ReadTokens(d, v) PROVE DueInv'
  <2>1. "remove" \in Progress /\ index[v] \in SUBSET Time
    BY <1>0 DEF Progress, TypeOK
  <2>2. Moves(d, v, "remove", index[v]) /\ deleter[d].at[v] # "out"
    BY <1>9 DEF ReadTokens, Moves
  <2> QED BY <1>9, <1>5, <2>1, <2>2 DEF ReadTokens, rowVars, ghostVars
<1>10. ASSUME NEW d \in Deleters, NEW v \in Users, RemoveTokens(d, v) PROVE DueInv'
  <2>1. "done" \in Progress /\ {} \in SUBSET Time
    BY DEF Progress
  <2>2. Moves(d, v, "done", {}) /\ deleter[d].at[v] # "out"
    BY <1>10 DEF RemoveTokens, Moves
  <2> QED BY <1>10, <1>5, <2>1, <2>2 DEF RemoveTokens, rowVars, ghostVars
<1>11. ASSUME NEW d \in Deleters, DeleteRows(d) PROVE DueInv'
  <2>1. \A e \in Deleters, u \in Users :
          deleter'[e].at[u] = "out" \/ deleter'[e] = deleter[e]
    BY <1>11, <1>a DEF DeleteRows, Rest
  <2>2. /\ there' \subseteq there /\ UNCHANGED <<now, overtaken>>
        /\ \A u \in Users : u \in there' => deletedAt'[u] = deletedAt[u]
    BY <1>11 DEF DeleteRows, ghostVars
  <2> QED BY <2>1, <2>2, <1>0, BatchesKept
<1>12. CASE Tick
  <2>1. now' \in Nat /\ now <= now' /\ UNCHANGED <<there, deletedAt, deleter, overtaken>>
    BY <1>12, <1>0 DEF Tick, rowVars, ghostVars
  <2> QED BY <2>1, BatchesKept
<1>13. CASE Restart
  <2>1. \A d \in Deleters, u \in Users : deleter'[d].at[u] = "out"
    BY <1>13 DEF Restart, Rest
  <2> QED BY <2>1 DEF DueInv
<1>14. CASE UNCHANGED vars
  BY <1>14, <1>1 DEF vars
<1> QED BY <1>2, <1>3, <1>4, <1>6, <1>7, <1>8, <1>9, <1>10, <1>11, <1>12, <1>13, <1>14
        DEF Next, Work

LEMMA DueInvHolds == Spec => []DueInv
<1>1. Init => DueInv
  BY DEF Init, DueInv, Rest
<1> QED BY <1>1, TypedHolds, DueInvStep, PTL DEF Spec

\* Rows go by the last statement of a deleter only, and those of its batch.
LEMMA RowsGo ==
  ASSUME TypeOK, [Next]_vars, NEW u \in there \ there'
  PROVE  \E d \in Deleters : deleter[d].at[u] = "done"
<1>1. ASSUME NEW d \in Deleters, DeleteRows(d) PROVE deleter[d].at[u] = "done"
  BY <1>1 DEF DeleteRows
<1>2. ASSUME UNCHANGED there PROVE FALSE
  BY <1>2
<1>3. ASSUME NEW h \in Handlers, Request(h) \/ Continue(h) PROVE FALSE
  BY <1>2, <1>3 DEF Request, BeginLogin, BeginRefresh, BeginSchedule, BeginCancel, Continue,
     ClearOld, Issue, Save, ScanSessions, EndSessions, Schedule, Cancel, rowVars
<1>4. ASSUME NEW v \in Users, NEW t \in Time, Logout(v, t) PROVE FALSE
  BY <1>2, <1>4 DEF Logout, rowVars
<1>5. ASSUME NEW d \in Deleters, NEW v \in Users,
             \/ StartForced(d, v) \/ TokensFail(d, v)
             \/ StartPurge(d) \/ ReadTokens(d, v) \/ RemoveTokens(d, v)
      PROVE  FALSE
  BY <1>2, <1>5 DEF StartForced, TokensFail, StartPurge, ReadTokens, RemoveTokens, rowVars
<1>6. ASSUME Tick \/ Restart \/ UNCHANGED vars PROVE FALSE
  BY <1>2, <1>6 DEF Tick, Restart, rowVars, vars
<1>7. CASE \E d \in Deleters : StartPurge(d)
  BY <1>7, <1>2 DEF StartPurge, rowVars
<1> QED BY <1>1, <1>3, <1>4, <1>5, <1>6, <1>7 DEF Next, Work

\* A row is deleted only when its time has come or by an administrator's order,
\* unless the date was written while the deletion was under way: for any grace
\* period and any deleters at work (purgeExpiredAccounts, forceDeleteAccount).
THEOREM DeletedWhenDueHolds == Spec => DeletedWhenDue
<1>1. ASSUME Typed, DueInv, [Next]_vars
      PROVE  [\A u \in there \ there' :
                \/ u \in overtaken
                \/ /\ deletedAt[u] # Never
                   /\ \/ deletedAt[u] <= now
                      \/ \E d \in Deleters : deleter[d].kind = "force" /\ deleter[d].at[u] = "done"]_vars
  <2> SUFFICES ASSUME NEW u \in there \ there', u \notin overtaken
               PROVE  /\ deletedAt[u] # Never
                      /\ \/ deletedAt[u] <= now
                         \/ \E d \in Deleters : deleter[d].kind = "force" /\ deleter[d].at[u] = "done"
    OBVIOUS
  <2>1. TypeOK /\ u \in Users /\ u \in there
    BY <1>1 DEF Typed, TypeOK
  <2>2. PICK d \in Deleters : deleter[d].at[u] = "done"
    BY <1>1, <2>1, RowsGo
  <2>3. Due(d, u)
    BY <1>1, <2>1, <2>2 DEF DueInv
  <2> QED BY <2>2, <2>3 DEF Due
<1> QED BY <1>1, TypedHolds, DueInvHolds, PTL DEF Spec, DeletedWhenDue

=============================================================================
