------------------------------ MODULE MemoLocks ------------------------------
(***************************************************************************)
(* The edit lock of a memo, and the edits it is meant to keep apart.       *)
(*                                                                         *)
(* The lock is a key in Redis with the editor's id and a time limit; the    *)
(* client renews it every 30 seconds.  An edit looks at the key, and writes *)
(* to MySQL in a later step.  Deleting and pinning do not look at it.       *)
(*                                                                         *)
(* One memo stands for all: memos share nothing.  All Users are members of  *)
(* its group; Owner wrote it.  Checks of access are made in the step that   *)
(* reads the memo.                                                         *)
(***************************************************************************)
EXTENDS Integers, FiniteSets

CONSTANTS Users,       \* the members of the group
          Owner,       \* the author
          Handlers,    \* the requests that can be on their way at once
          Texts,       \* contents
          Ttl,         \* the time limit of the lock, in ticks
          None,        \* no holder, no request
          MaxRequests, \* bound: requests in all
          MaxTicks     \* bound: ticks in all

VARIABLES
  memo,     \* memos: the row, [text, shared, pinned, deleted]
  editLock, \* memo:lock:{id}: [user, ttl], or None
  request,  \* per handler: the request and its stage, or None
  requests, \* counts the requests
  ticks,    \* counts the ticks
  lease,    \* per client: ticks left of the last lease it was told of
  early,    \* ghost: edits that looked at the lock before it was taken
  blind     \* ghost: a renewal failed and its result was not looked at

vars == <<memo, editLock, request, requests, ticks, lease, early, blind>>

Init ==
  /\ memo \in [text : Texts, shared : BOOLEAN, pinned : {FALSE}, deleted : {FALSE}]
  /\ editLock = None
  /\ request = [h \in Handlers |-> None]
  /\ requests = 0 /\ ticks = 0
  /\ lease = [u \in Users |-> 0]
  /\ early = {} /\ blind = FALSE

Holds(u) == editLock # None /\ editLock.user = u

\* validateReadAccess: a private memo is its author's.
CanRead(u) == ~memo.deleted /\ (memo.shared \/ u = Owner)

NewRequest == requests < MaxRequests /\ requests' = requests + 1

Begin(h, r) ==
  /\ request[h] = None
  /\ NewRequest
  /\ request' = [request EXCEPT ![h] = r]

End(h) == request' = [request EXCEPT ![h] = None] /\ early' = early \ {h}

At(h, op, stage) == request[h] # None /\ request[h].op = op /\ request[h].stage = stage

-----------------------------------------------------------------------------
(* update: read, look at the lock, write.                                  *)

UpdateRead(h, u, text, shared) ==
  /\ CanRead(u)
  /\ Begin(h, [op |-> "update", stage |-> "read", user |-> u, text |-> text,
               shared |-> shared])
  /\ UNCHANGED <<memo, editLock, ticks, lease, early, blind>>

\* Variant: the lock is not looked at.
PassAnyLock(h) ==
  /\ At(h, "update", "read")
  /\ request' = [request EXCEPT ![h].stage = "checked"]
  /\ UNCHANGED <<early, memo, editLock, requests, ticks, lease, blind>>

\* verifyLockOwnership: no lock at all is as good as one's own.
UpdateCheck(h) ==
  /\ At(h, "update", "read")
  /\ IF editLock = None \/ Holds(request[h].user)
       THEN request' = [request EXCEPT ![h].stage = "checked"] /\ UNCHANGED early
       ELSE End(h)
  /\ UNCHANGED <<memo, editLock, requests, ticks, lease, blind>>

\* The row is updated by its id, deleted or not; fields left out stay.
UpdateWrite(h) ==
  /\ At(h, "update", "checked")
  /\ memo' = [memo EXCEPT
       !.text = IF request[h].text = None THEN @ ELSE request[h].text,
       !.shared = IF request[h].shared = None THEN @ ELSE request[h].shared]
  /\ End(h)
  /\ UNCHANGED <<editLock, requests, ticks, lease, blind>>

\* remove: any member deletes a memo of the group.
RemoveRead(h, u) ==
  /\ CanRead(u)
  /\ Begin(h, [op |-> "remove", stage |-> "read", user |-> u])
  /\ UNCHANGED <<memo, editLock, ticks, lease, early, blind>>

RemoveWrite(h) ==
  /\ At(h, "remove", "read")
  /\ memo' = [memo EXCEPT !.deleted = TRUE]
  /\ End(h)
  /\ UNCHANGED <<editLock, requests, ticks, lease, blind>>

\* togglePin: the opposite of what was read is written.
PinRead(h, u) ==
  /\ CanRead(u)
  /\ Begin(h, [op |-> "pin", stage |-> "read", user |-> u, pinned |-> ~memo.pinned])
  /\ UNCHANGED <<memo, editLock, ticks, lease, early, blind>>

PinWrite(h) ==
  /\ At(h, "pin", "read")
  /\ memo' = [memo EXCEPT !.pinned = request[h].pinned]
  /\ End(h)
  /\ UNCHANGED <<editLock, requests, ticks, lease, blind>>

-----------------------------------------------------------------------------
(* The lock.                                                               *)

Checked == {h \in Handlers : At(h, "update", "checked")}

\* acquireLock: SET NX EX.  When there is a lock the request goes on.
Acquire(h, u) ==
  /\ CanRead(u)
  /\ IF editLock = None
       THEN /\ request[h] = None /\ NewRequest
            /\ editLock' = [user |-> u, ttl |-> Ttl]
            /\ lease' = [lease EXCEPT ![u] = Ttl]
            /\ early' = Checked
            /\ UNCHANGED request
       ELSE /\ Begin(h, [op |-> "acquire", stage |-> "taken", user |-> u])
            /\ UNCHANGED <<editLock, lease, early>>
  /\ UNCHANGED <<memo, ticks, blind>>

\* GET: another's lock, or none by now, is a conflict.
AcquireLook(h) ==
  /\ At(h, "acquire", "taken")
  /\ IF Holds(request[h].user)
       THEN request' = [request EXCEPT ![h].stage = "own"] /\ UNCHANGED early
       ELSE End(h)
  /\ UNCHANGED <<memo, editLock, requests, ticks, lease, blind>>

\* Renewal, and the answer "locked" whatever the renewal returned.
AcquireRenew(h) ==
  /\ At(h, "acquire", "own")
  /\ LET u == request[h].user IN
       /\ editLock' = IF Holds(u) THEN [editLock EXCEPT !.ttl = Ttl] ELSE editLock
       /\ blind' = (blind \/ ~Holds(u))
       /\ lease' = [lease EXCEPT ![u] = Ttl]
  /\ End(h)
  /\ UNCHANGED <<memo, requests, ticks>>

\* heartbeat: one script; the client is told when the lock is not its own.
Heartbeat(u) ==
  /\ NewRequest
  /\ editLock' = IF Holds(u) THEN [editLock EXCEPT !.ttl = Ttl] ELSE editLock
  /\ lease' = [lease EXCEPT ![u] = IF Holds(u) THEN Ttl ELSE 0]
  /\ UNCHANGED <<memo, request, ticks, early, blind>>

\* Variant: the key is deleted whoever holds it.
ReleaseAny(u) ==
  /\ NewRequest
  /\ editLock' = None
  /\ lease' = [lease EXCEPT ![u] = 0]
  /\ UNCHANGED <<memo, request, ticks, early, blind>>

\* releaseLock: one script; only the own lock is deleted.
ReleaseLock(u) ==
  /\ NewRequest
  /\ editLock' = IF Holds(u) THEN None ELSE editLock
  /\ lease' = [lease EXCEPT ![u] = 0]
  /\ UNCHANGED <<memo, request, ticks, early, blind>>

\* Variant: the key stays when its time limit is over.
TickKeeps ==
  /\ ticks < MaxTicks
  /\ ticks' = ticks + 1
  /\ editLock' = IF editLock = None THEN None ELSE [editLock EXCEPT !.ttl = @ - 1]
  /\ lease' = [u \in Users |-> IF lease[u] = 0 THEN 0 ELSE lease[u] - 1]
  /\ UNCHANGED <<memo, request, requests, early, blind>>

\* Time passes; the key goes when its time limit is over.
Tick ==
  /\ ticks < MaxTicks
  /\ ticks' = ticks + 1
  /\ editLock' = IF editLock = None \/ editLock.ttl = 1
                   THEN None ELSE [editLock EXCEPT !.ttl = @ - 1]
  /\ lease' = [u \in Users |-> IF lease[u] = 0 THEN 0 ELSE lease[u] - 1]
  /\ UNCHANGED <<memo, request, requests, early, blind>>

-----------------------------------------------------------------------------
Edit ==
  \/ \E h \in Handlers, u \in Users :
       \/ \E t \in Texts \cup {None}, s \in BOOLEAN \cup {None} : UpdateRead(h, u, t, s)
       \/ RemoveRead(h, u)
       \/ PinRead(h, u)
  \/ \E h \in Handlers :
       UpdateCheck(h) \/ UpdateWrite(h) \/ RemoveWrite(h) \/ PinWrite(h)

Locking ==
  \/ \E h \in Handlers, u \in Users : Acquire(h, u)
  \/ \E h \in Handlers : AcquireLook(h) \/ AcquireRenew(h)
  \/ \E u \in Users : Heartbeat(u) \/ ReleaseLock(u)

Next == Edit \/ Locking \/ Tick

Spec == Init /\ [][Next]_vars

-----------------------------------------------------------------------------
Memo == [text : Texts, shared : BOOLEAN, pinned : BOOLEAN, deleted : BOOLEAN]
Lock == [user : Users, ttl : 1..Ttl]
Request ==
  [op : {"update"}, stage : {"read", "checked"}, user : Users, text : Texts \cup {None},
   shared : BOOLEAN \cup {None}]
  \cup [op : {"remove"}, stage : {"read"}, user : Users]
  \cup [op : {"pin"}, stage : {"read"}, user : Users, pinned : BOOLEAN]
  \cup [op : {"acquire"}, stage : {"taken", "own"}, user : Users]

\* What the theorems assume of the constants.
ConstantsAssumption ==
  /\ Ttl \in Nat \ {0} /\ MaxRequests \in Nat /\ MaxTicks \in Nat
  /\ None \notin Lock

TypeOK ==
  /\ memo \in Memo
  /\ editLock \in {None} \cup Lock
  /\ request \in [Handlers -> {None} \cup Request]
  /\ requests \in 0..MaxRequests /\ ticks \in 0..MaxTicks
  /\ lease \in [Users -> 0..Ttl]
  /\ early \subseteq Handlers /\ blind \in BOOLEAN

\* While one member holds the lock another's text is not written, but by an edit
\* that had looked at the lock before it was taken (update, verifyLockOwnership).
RespectsLock ==
  \A h \in Checked :
    request'[h] = None /\ editLock # None /\ ~Holds(request[h].user) => h \in early
EditsRespectLock == [][RespectsLock]_vars

\* Two clients are never both within a lease they were told of, unless a renewal
\* failed unnoticed (acquireLock, heartbeat, releaseLock and the time limit).
OneEditor ==
  blind \/ \A u, v \in Users : lease[u] > 0 /\ lease[v] > 0 => u = v

=============================================================================
