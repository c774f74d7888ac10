----------------------------- MODULE EmailCodes -----------------------------
(***************************************************************************)
(* The codes an address is sent: to confirm it after the sign-up, and to set a   *)
(* new password.  A code is kept in Redis under the address, one of each kind;    *)
(* whoever shows it is served if it is the one that is kept, and it is deleted   *)
(* together with the write of the row, without either waiting for the other.     *)
(*                                                                         *)
(* Codes are numbers in the order in which they were drawn, and never alike.     *)
(***************************************************************************)
EXTENDS Integers

CONSTANTS Handlers, None, MaxRequests, MaxFaults \* requests at once; no row; bounds

VARIABLES
  user,     \* the row [local, verified], or None
  kept,     \* per kind, the code in Redis, or None
  mailed,   \* codes that have reached the address [kind, code]
  request,  \* per handler, what it is to do, or None
  drawn,    \* counts the codes
  requests, faults,
  trials,   \* ghost: counts the trials given
  spent,    \* ghost: per code, how often a password was set with it
  shared    \* ghost: codes that were in hand together with another or twice, or could not be
            \* deleted

ghosts == <<trials, spent, shared>>
vars == <<user, kept, mailed, request, drawn, requests, faults, ghosts>>

Kinds == {"verification", "reset"}
Codes == 1..MaxRequests

Init ==
  /\ user \in {None, [local |-> FALSE, verified |-> TRUE]}
  /\ kept = [k \in Kinds |-> None] /\ mailed = {} /\ request = [h \in Handlers |-> None]
  /\ drawn = 0 /\ requests = 0 /\ faults = 0
  /\ trials = 0 /\ spent = [c \in Codes |-> 0] /\ shared = {}

-----------------------------------------------------------------------------
Begin(h, r) ==
  /\ request[h] = None /\ requests < MaxRequests
  /\ requests' = requests + 1 /\ request' = [request EXCEPT ![h] = r]
At(h, stage) == request[h] # None /\ request[h].stage = stage
Done(h) == request' = [request EXCEPT ![h] = None]
Fault == faults < MaxFaults /\ faults' = faults + 1

\* signup: the address is new; a code is drawn.
Signup(h) ==
  /\ user = None
  /\ Begin(h, [stage |-> "create", kind |-> "verification", code |-> drawn + 1])
  /\ drawn' = drawn + 1
  /\ UNCHANGED <<user, kept, mailed, faults, ghosts>>

\* The address is unique: the second of two sign-ups fails.
CreateUser(h) ==
  /\ At(h, "create")
  /\ IF user = None
       THEN /\ user' = [local |-> TRUE, verified |-> FALSE]
            /\ request' = [request EXCEPT ![h].stage = "store"]
       ELSE Done(h) /\ UNCHANGED user
  /\ UNCHANGED <<kept, mailed, drawn, requests, faults, ghosts>>

\* resendVerificationEmail, requestPasswordReset.
Ask(h, kind) ==
  /\ user # None
  /\ kind = "verification" => ~user.verified /\ user.local
  /\ Begin(h, [stage |-> "store", kind |-> kind, code |-> drawn + 1])
  /\ drawn' = drawn + 1
  /\ UNCHANGED <<user, kept, mailed, faults, ghosts>>

\* The code takes the place of the one before.
Store(h) ==
  /\ At(h, "store")
  /\ kept' = [kept EXCEPT ![request[h].kind] = request[h].code]
  /\ request' = [request EXCEPT ![h].stage = "mail"]
  /\ UNCHANGED <<user, mailed, drawn, requests, faults, ghosts>>

Mail(h) ==
  /\ At(h, "mail")
  /\ mailed' = mailed \cup {[kind |-> request[h].kind, code |-> request[h].code]}
  /\ Done(h)
  /\ UNCHANGED <<user, kept, drawn, requests, faults, ghosts>>

\* Redis or the mail server fails: nobody has the code, but what was stored stays, the row of a
\* sign-up too.
SendFails(h) ==
  /\ At(h, "store") \/ At(h, "mail")
  /\ Fault /\ Done(h)
  /\ UNCHANGED <<user, kept, mailed, drawn, requests, ghosts>>

-----------------------------------------------------------------------------
\* verifyEmail, resetPassword: the code shown is the one that is kept.
Show(h, m) ==
  /\ kept[m.kind] = m.code
  /\ Begin(h, [stage |-> "row", kind |-> m.kind, code |-> m.code])
  /\ LET inHand == {o \in Handlers : (At(o, "row") \/ At(o, "both")) /\ request[o].kind = m.kind}
     IN shared' = shared \cup {request[o].code : o \in inHand}
                         \cup (IF inHand = {} THEN {} ELSE {m.code})
  /\ UNCHANGED <<user, kept, mailed, drawn, faults, trials, spent>>

Find(h) ==
  /\ At(h, "row")
  /\ LET r == request[h] IN
       request' = [request EXCEPT ![h] =
         IF user = None \/ (r.kind = "verification" /\ user.verified) THEN None
         ELSE [stage |-> "both", kind |-> r.kind, code |-> r.code, todo |-> {"row", "code"}]]
  /\ UNCHANGED <<user, kept, mailed, drawn, requests, faults, ghosts>>

\* One of the two is done: the answer waits for the other.
Did(h, what) ==
  request' = [request EXCEPT ![h] =
    IF request[h].todo = {what} THEN None ELSE [request[h] EXCEPT !.todo = @ \ {what}]]

WriteRow(h) ==
  /\ At(h, "both") /\ "row" \in request[h].todo
  /\ LET r == request[h] IN
       IF r.kind = "verification"
         THEN user' = [user EXCEPT !.verified = TRUE] /\ trials' = trials + 1
              /\ UNCHANGED spent
         ELSE spent' = [spent EXCEPT ![r.code] = @ + 1]
              /\ UNCHANGED <<user, trials>>
  /\ Did(h, "row")
  /\ UNCHANGED <<kept, mailed, drawn, requests, faults, shared>>

\* Variant: the code is left to expire.
DeleteNothing(h) ==
  /\ At(h, "both") /\ "code" \in request[h].todo
  /\ Did(h, "code")
  /\ UNCHANGED <<user, kept, mailed, drawn, requests, faults, ghosts>>

\* Whatever code is kept by now.
DeleteCode(h) ==
  /\ At(h, "both") /\ "code" \in request[h].todo
  /\ kept' = [kept EXCEPT ![request[h].kind] = None]
  /\ Did(h, "code")
  /\ UNCHANGED <<user, mailed, drawn, requests, faults, ghosts>>

DeleteFails(h) ==
  /\ At(h, "both") /\ "code" \in request[h].todo /\ Fault
  /\ Did(h, "code")
  /\ shared' = shared \cup {request[h].code}
  /\ UNCHANGED <<user, kept, mailed, drawn, requests, trials, spent>>

Expire(kind) ==
  /\ kept[kind] # None
  /\ kept' = [kept EXCEPT ![kind] = None]
  /\ UNCHANGED <<user, mailed, request, drawn, requests, faults, ghosts>>

Next ==
  \/ \E h \in Handlers :
       \/ Signup(h) \/ CreateUser(h) \/ Store(h) \/ Mail(h) \/ SendFails(h)
       \/ \E kind \in Kinds : Ask(h, kind)
       \/ \E m \in mailed : Show(h, m)
       \/ Find(h) \/ WriteRow(h) \/ DeleteCode(h) \/ DeleteFails(h)
  \/ \E kind \in Kinds : Expire(kind)

Spec == Init /\ [][Next]_vars

-----------------------------------------------------------------------------
Row == [local : BOOLEAN, verified : BOOLEAN]

Request ==
  [stage : {"create", "store", "mail", "row"}, kind : Kinds, code : Codes]
  \cup [stage : {"both"}, kind : Kinds, code : Codes, todo : SUBSET {"row", "code"}]

ConstantsAssumption ==
  /\ None \notin Row \cup Request \cup Codes
  /\ MaxRequests \in Nat /\ MaxFaults \in Nat

TypeOK ==
  /\ user \in {None} \cup Row
  /\ kept \in [Kinds -> Codes \cup {None}] /\ mailed \subseteq [kind : Kinds, code : Codes]
  /\ request \in [Handlers -> {None} \cup Request]
  /\ drawn \in 0..MaxRequests /\ requests \in 0..MaxRequests /\ faults \in 0..MaxFaults
  /\ trials \in Nat /\ spent \in [Codes -> Nat] /\ shared \subseteq Codes

\* A code sets a password once, unless two requests had codes in hand at once or it could
\* not be deleted (resetPassword); a sign-up is given the trial when its address is
\* confirmed and not again, however many codes were sent, unless two confirmed it at once
\* (verifyEmail).  What is kept has been drawn, for a row that is there.
CodesWorkOnce ==
  /\ \A c \in Codes : spent[c] > 1 => c \in shared
  /\ user = None => kept = [k \in Kinds |-> None]
  /\ user # None => (user.local /\ user.verified <=> trials > 0)
  /\ trials > 1 => \E m \in mailed : m.kind = "verification" /\ m.code \in shared

=============================================================================
