---------------------------- MODULE Subscriptions ----------------------------
(***************************************************************************)
(* The paid subscription of a user: what the store says of it, and what      *)
(* the server has recorded.                                                *)
(*                                                                         *)
(* The store (Google Play or the App Store) goes through versions of the     *)
(* subscription and sends a notice of each, in any order, perhaps twice;     *)
(* the webhook answers 200 whatever happens, so a notice whose handling      *)
(* fails is gone.  Google's notice makes the server ask the store; Apple's   *)
(* carries the state.  The app reports a purchase, a daily job asks again     *)
(* about those that end soon, and an e-mail confirmed starts a trial.         *)
(*                                                                         *)
(* Users share nothing here: one stands for all.  Store events and server    *)
(* steps have times of one clock, and no two store events the same time.      *)
(***************************************************************************)
EXTENDS Integers, Sequences

CONSTANTS Handlers,    \* the reports that can be on their way at once
          None,        \* no row, no time limit, no report
          Events,      \* the statuses the store goes through
          Period,      \* ticks a purchase or renewal lasts
          Day,         \* ticks the daily job looks ahead
          MaxTime,     \* bound: the clock
          MaxRequests, \* bound: restores, trials and writes of the admin in all
          MaxVersions  \* bound: versions in the store

Platforms == {"ANDROID", "IOS"}
Statuses  == {"active", "grace_period", "canceled", "expired", "revoked"}
Entitled  == {"active", "grace_period", "canceled"}
Tiers     == {"free", "trial", "paid"}

VARIABLES
  platform, \* where the purchase was made
  now,      \* the clock
  store,    \* the versions in the store: [status, expires, at]
  notices,  \* versions whose notice is on its way
  sub,      \* subscriptions: [status, expires, at], at being lastVerifiedAt; or None
  user,     \* users: [tier, expires, token]
  report,   \* per handler: what was fetched and is to be applied, or None
  restore,  \* a restore has found the subscription ended and will write
  requests, \* counts the requests
  version,  \* ghost: the version sub was written from
  newest,   \* ghost: the newest version sub was ever written from
  bare,     \* ghost: sub was last written by a notice of the end
  skewed,   \* ghost: a report was applied with a time that is not its version's
  granted   \* ghost: the tier was given by hand

storeVars == <<platform, store, notices>>
ghostVars == <<version, newest, bare, skewed>>
vars == <<now, storeVars, sub, user, report, restore, requests, ghostVars, granted>>

Init ==
  /\ platform \in Platforms
  /\ now = 1
  /\ store = <<[status |-> "active", expires |-> 1 + Period, at |-> 1]>>
  /\ notices = {}
  /\ sub = None
  /\ user = [tier |-> "free", expires |-> None, token |-> FALSE]
  /\ report = [h \in Handlers |-> None]
  /\ restore = FALSE
  /\ requests = 0
  /\ version = 0 /\ newest = 0
  /\ bare = FALSE /\ skewed = FALSE /\ granted = FALSE

Latest == Len(store)

-----------------------------------------------------------------------------
(* The store and time.                                                     *)

\* Renewal, cancellation, grace, end or refund; the time is new.
StoreEvent(status) ==
  /\ Latest < MaxVersions /\ now < MaxTime
  /\ now' = now + 1
  /\ store' = Append(store,
       [status |-> status, at |-> now + 1,
        expires |-> IF status = "active" THEN now + 1 + Period
                    ELSE store[Latest].expires])
  /\ notices' = notices \cup {Latest + 1}
  /\ UNCHANGED <<platform, sub, user, report, restore, requests, ghostVars, granted>>

Tick ==
  /\ now < MaxTime
  /\ now' = now + 1
  /\ UNCHANGED <<storeVars, sub, user, report, restore, requests, ghostVars, granted>>

\* What a verifier makes of version v.  An Apple transaction carries its end and a
\* refund, and is otherwise active.
Status(v) ==
  IF platform = "ANDROID" THEN store[v].status
  ELSE IF store[v].status = "revoked" THEN "revoked"
  ELSE IF store[v].expires < now THEN "expired"
  ELSE "active"

-----------------------------------------------------------------------------
(* Writing what a store said.                                              *)

\* Variant: the time of the last one is not looked at.
ApplyAnyOrder(v, status, at) ==
  /\ sub' = [status |-> status, expires |-> store[v].expires, at |-> at]
  /\ user' = [tier |-> IF status \in Entitled THEN "paid" ELSE "free",
              expires |-> store[v].expires, token |-> TRUE]
  /\ version' = v
  /\ newest' = IF v > newest THEN v ELSE newest
  /\ bare' = FALSE /\ granted' = FALSE

\* applyVerifiedPurchase: ignored when an event of a later time was applied;
\* otherwise the subscription and the user are written in one transaction.
Apply(v, status, at) ==
  IF sub # None /\ sub.at > at
    THEN UNCHANGED <<sub, user, version, newest, bare, granted>>
    ELSE /\ sub' = [status |-> status, expires |-> store[v].expires, at |-> at]
         /\ user' = [tier |-> IF status \in Entitled THEN "paid" ELSE "free",
                     expires |-> store[v].expires, token |-> TRUE]
         /\ version' = v
         /\ newest' = IF v > newest THEN v ELSE newest
         /\ bare' = FALSE /\ granted' = FALSE

\* Variant: the user keeps the tier.
ExpireRowOnly ==
  /\ sub' = IF sub = None THEN None ELSE [sub EXCEPT !.status = "expired"]
  /\ UNCHANGED user

\* expireSubscription: no time is compared and none is kept.
Expire ==
  /\ sub' = IF sub = None THEN None ELSE [sub EXCEPT !.status = "expired"]
  /\ user' = [user EXCEPT !.tier = "free", !.expires = None]

Fetch(h, r) ==
  /\ report[h] = None
  /\ report' = [report EXCEPT ![h] = r]
  /\ UNCHANGED <<now, platform, store, sub, user, restore, requests, ghostVars, granted>>

\* verifyPurchase: Google is asked; Apple's signed transaction comes from the app,
\* which may have kept an earlier one.
VerifyFetch(h) ==
  /\ \E v \in 1..Latest :
       /\ platform = "ANDROID" => v = Latest
       /\ Fetch(h, [version |-> v, status |-> Status(v), event |-> None])
  /\ UNCHANGED notices

\* reconcileExpiringSubscriptions, one target.  What it holds of an Apple purchase
\* is not a signed transaction: the verifier throws, and the target is skipped.
ReconcileFetch(h) ==
  /\ platform = "ANDROID"
  /\ sub # None /\ sub.status \in {"active", "grace_period"} /\ sub.expires <= now + Day
  /\ Fetch(h, [version |-> Latest, status |-> Status(Latest), event |-> None])
  /\ UNCHANGED notices

\* handleGoogleWebhook: the store is asked, and the time is that of the notice.
GoogleNotice(h, n) ==
  /\ platform = "ANDROID" /\ n \in notices /\ sub # None
  /\ Fetch(h, [version |-> Latest, status |-> Status(Latest), event |-> n])
  /\ notices' \in {notices, notices \ {n}}

\* The transaction of a report.  Without a notice its time is now.
ApplyReport(h) ==
  /\ report[h] # None
  /\ LET r  == report[h]
         at == IF r.event = None THEN now ELSE store[r.event].at
     IN  /\ Apply(r.version, r.status, at)
         /\ skewed' = \/ skewed
                      \/ (r.event = None /\ r.version # Latest)
                      \/ (r.event # None /\ r.version # r.event)
                      \/ (bare /\ r.version < version)
  /\ report' = [report EXCEPT ![h] = None]
  /\ UNCHANGED <<now, storeVars, restore, requests>>

\* handleAppleWebhook: the end and a refund go one way, all others the other.
AppleNotice(n) ==
  /\ platform = "IOS" /\ n \in notices /\ sub # None
  /\ IF store[n].status \in {"expired", "revoked"}
       THEN /\ Expire
            /\ version' = n
            /\ newest' = IF n > newest THEN n ELSE newest
            /\ bare' = TRUE /\ granted' = FALSE
            /\ skewed' = (skewed \/ n < version)
       ELSE /\ Apply(n, Status(n), store[n].at)
            /\ skewed' = (skewed \/ (bare /\ n < version))
  /\ notices' \in {notices, notices \ {n}}
  /\ UNCHANGED <<now, platform, store, report, restore, requests>>

\* The purchase is not known yet, or handling it fails: 200 all the same.
NoticeLost(n) ==
  /\ n \in notices
  /\ notices' = notices \ {n}
  /\ UNCHANGED <<now, platform, store, sub, user, report, restore, requests,
                 ghostVars, granted>>

-----------------------------------------------------------------------------
(* Writes of the user's row alone.                                         *)

NewRequest == requests < MaxRequests /\ requests' = requests + 1

\* restoreSubscription: an ended tier is read, and then set to free.
RestoreRead ==
  /\ ~restore
  /\ NewRequest
  /\ user.tier # "free" /\ user.expires # None /\ user.expires <= now
  /\ restore' = TRUE
  /\ UNCHANGED <<now, storeVars, sub, user, report, ghostVars, granted>>

RestoreWrite ==
  /\ restore
  /\ restore' = FALSE
  /\ user' = [user EXCEPT !.tier = "free"]
  /\ UNCHANGED <<now, storeVars, sub, report, requests, ghostVars, granted>>

\* verifyEmail: a trial, whatever the tier was.
Trial ==
  /\ NewRequest
  /\ user' = [user EXCEPT !.tier = "trial", !.expires = now + Period]
  /\ UNCHANGED <<now, storeVars, sub, report, restore, ghostVars, granted>>

\* updateUserSubscription.
AdminUpdate(tier, expires) ==
  /\ NewRequest
  /\ user' = [user EXCEPT !.tier = tier, !.expires = expires]
  /\ granted' = TRUE
  /\ UNCHANGED <<now, storeVars, sub, report, restore, ghostVars>>

-----------------------------------------------------------------------------
Store == Tick \/ \E s \in Events : StoreEvent(s)

Server ==
  \/ \E h \in Handlers :
       \/ VerifyFetch(h)
       \/ ReconcileFetch(h)
       \/ ApplyReport(h)
       \/ \E n \in notices : GoogleNotice(h, n)
  \/ \E n \in notices : AppleNotice(n) \/ NoticeLost(n)
  \/ RestoreRead
  \/ RestoreWrite
  \/ Trial
  \/ \E t \in {"free", "paid"}, e \in {None, now} : AdminUpdate(t, e)

Next == Store \/ Server

Spec == Init /\ [][Next]_vars

-----------------------------------------------------------------------------
Time == 1..(MaxTime + Period)

Subscription == [status : Statuses, expires : Time, at : 1..MaxTime]

\* What the theorems assume of the constants.
ConstantsAssumption ==
  /\ Events \subseteq Statuses
  /\ Period \in Nat /\ Day \in Nat /\ MaxTime \in Nat \ {0}
  /\ MaxRequests \in Nat /\ MaxVersions \in Nat
  /\ None \notin Subscription

TypeOK ==
  /\ platform \in Platforms /\ now \in 1..MaxTime
  /\ store \in Seq(Subscription)
  /\ notices \subseteq 1..Latest
  /\ sub = None \/ sub \in Subscription
  /\ user \in [tier : Tiers, expires : {None} \cup Time, token : BOOLEAN]
  /\ report \in [Handlers -> {None} \cup [version : 1..Latest, status : Statuses,
                                          event : {None} \cup 1..Latest]]
  /\ restore \in BOOLEAN /\ requests \in 0..MaxRequests
  /\ version \in 0..Latest /\ newest \in 0..Latest
  /\ bare \in BOOLEAN /\ skewed \in BOOLEAN /\ granted \in BOOLEAN

\* However the notices are reordered, repeated or lost, the record is of the newest
\* version that was ever written: but where a version is applied under the time of
\* another one, or a notice of the end, which keeps no time, comes out of order
\* (applyVerifiedPurchase, lastVerifiedAt).
RecordIsNewest == ~skewed => version = newest

\* A user has the paid tier only while the record says so, or an admin gave it: no
\* order of reports, trials and restores leaves it behind (applyVerifiedPurchase and
\* expireSubscription write both rows).
PaidTierIsRecorded ==
  user.tier = "paid" /\ ~granted => sub # None /\ sub.status \in Entitled

=============================================================================
