--------------------------- MODULE GroupMembership ---------------------------
(***************************************************************************)
(* One group: its members, their roles, its join requests.                 *)
(*                                                                         *)
(* A request of the API is served by a handler in steps, one per group of   *)
(* awaits: a guard that looks at the role of the caller, reads of the rows  *)
(* it is about to change, and one write or transaction.  Nothing locks the  *)
(* rows between the reads and the write: a handler may write on grounds     *)
(* that no longer hold, and the ghost `stale` records that one did.         *)
(*                                                                         *)
(* Roles are the common ones; custom roles are the business of RoleService. *)
(***************************************************************************)
EXTENDS Naturals, Sequences, FiniteSets

CONSTANTS Users,
          Handlers,   \* requests served at the same time
          MaxRows,    \* bound: member rows ever created
          MaxAsked,   \* bound: rows of group_join_requests
          MaxPurges   \* bound: accounts deleted

ASSUME GroupAssumption ==
  /\ IsFiniteSet(Users)
  /\ MaxRows \in Nat \ {0}
  /\ MaxAsked \in Nat
  /\ MaxPurges \in Nat

Role == {"OWNER", "ADMIN", "MEMBER"}
DefaultRole == "MEMBER"

\* The permissions of the common roles.
MayManageMembers(role) == role \in {"OWNER", "ADMIN"}
MayInvite(role) == role \in {"OWNER", "ADMIN"}
MayDeleteGroup(role) == role = "OWNER"

\* A row of group_members; id 0: there is none.
Row == [id : 0..MaxRows, role : Role]
NoRow == [id |-> 0, role |-> DefaultRole]

JoinRequest == [user : Users, type : {"REQUEST", "INVITE"},
                status : {"PENDING", "ACCEPTED", "REJECTED"}]

VARIABLES
  exists,   \* the group is there
  member,   \* its member row of each user
  lastRow,  \* member rows created so far
  asked,    \* group_join_requests, oldest first
  purged,   \* users whose account is gone
  handler,  \* per handler: the request it serves and what it has read
  stale,    \* ghost: a write went through on grounds that had changed
  ownerPurged  \* ghost: the account of the owner was deleted

vars == <<exists, member, lastRow, asked, purged, handler, stale, ownerPurged>>

Op == {"leave", "setRole", "remove", "transfer", "join", "accept", "reject", "delete"}

Handler == [pc : {"read", "check", "pending", "write", "admit"},
            op : Op,
            actor : Users,          \* the caller, when the write is about its row
            target : Users, role : Role,
            req : 0..MaxAsked,      \* the join request it is about
            seen : SUBSET (1..MaxAsked), \* those of them it has read as pending
            row : Row, other : Row] \* rows it has read

Idle == [pc |-> "idle"]

\* A request of u about v, before anything is read.
Fresh(op, u, v) == [pc |-> "read", op |-> op, actor |-> u, target |-> v,
                    role |-> DefaultRole, req |-> 0, seen |-> {}, row |-> NoRow, other |-> NoRow]

Init ==
  /\ exists = FALSE
  /\ member = [u \in Users |-> NoRow]
  /\ lastRow = 0
  /\ asked = <<>>
  /\ purged = {}
  /\ handler = [h \in Handlers |-> Idle]
  /\ stale = FALSE /\ ownerPurged = FALSE

-----------------------------------------------------------------------------
IsMember(u) == member[u].id # 0
Owners == {u \in Users : IsMember(u) /\ member[u].role = "OWNER"}
PendingOf(u) == {i \in DOMAIN asked : asked[i].user = u /\ asked[i].status = "PENDING"}
InvitesOf(u) == {i \in PendingOf(u) : asked[i].type = "INVITE"}

Goto(h, r) == handler' = [handler EXCEPT ![h] = r]
Done(h) == handler' = [handler EXCEPT ![h] = Idle]

\* A handler writes: `grounds` says that what it has read is still so.
Note(grounds) == stale' = (stale \/ ~grounds)

\* A member row with a new id.
NewRow(u, role) ==
  /\ lastRow < MaxRows
  /\ lastRow' = lastRow + 1
  /\ member' = [member EXCEPT ![u] = [id |-> lastRow + 1, role |-> role]]

\* GroupService.create: the group and its owner in one statement.
CreateGroup(u) ==
  /\ ~exists /\ lastRow = 0 /\ u \notin purged
  /\ exists' = TRUE
  /\ NewRow(u, "OWNER")
  /\ UNCHANGED <<asked, purged, handler, stale, ownerPurged>>

Unchanged == UNCHANGED <<exists, member, lastRow, asked, purged, stale, ownerPurged>>

\* A request comes in and goes on as r; when the first thing it reads forbids it,
\* it ends there and nothing happens.
Begin(h, u, r) ==
  /\ handler[h] = Idle
  /\ u \notin purged
  /\ Goto(h, r)
  /\ Unchanged

\* GroupPermissionGuard: the role of the caller has the permission.
Allowed(u, op) ==
  /\ IsMember(u)
  /\ CASE op \in {"setRole", "remove"} -> MayManageMembers(member[u].role)
       [] op \in {"accept", "reject"} -> MayInvite(member[u].role)
       [] OTHER -> MayDeleteGroup(member[u].role)

-----------------------------------------------------------------------------
(* Members and roles.                                                      *)

\* Variant: the owner may leave.
BeginLeaveAnyone(h, u) ==
  /\ IsMember(u)
  /\ Begin(h, u, [Fresh("leave", u, u) EXCEPT !.pc = "write", !.row = member[u]])

\* leave reads the member row of the caller.
BeginLeave(h, u) ==
  /\ IsMember(u) /\ member[u].role # "OWNER"
  /\ Begin(h, u, [Fresh("leave", u, u) EXCEPT !.pc = "write", !.row = member[u]])

\* updateMemberRole and removeMember: not oneself, and not to make an owner.
BeginManage(h, op, u, v, role) ==
  /\ Allowed(u, op) /\ u # v /\ role # "OWNER"
  /\ Begin(h, u, [Fresh(op, v, v) EXCEPT !.role = role])

ReadMember(h) ==
  LET r == handler[h] IN
  /\ r.pc = "read" /\ r.op \in {"setRole", "remove"}
  /\ IF ~IsMember(r.target) \/ member[r.target].role = "OWNER" THEN Done(h)
     ELSE Goto(h, [r EXCEPT !.pc = "write", !.row = member[r.target]])
  /\ Unchanged

\* The row is deleted by its id; when it is gone the statement fails.
DeleteMember(h) ==
  LET r == handler[h] IN
  /\ r.pc = "write" /\ r.op \in {"leave", "remove"}
  /\ IF member[r.target].id = r.row.id
     THEN /\ member' = [member EXCEPT ![r.target] = NoRow]
          /\ Note(member[r.target] = r.row)
     ELSE UNCHANGED <<member, stale>>
  /\ Done(h)
  /\ UNCHANGED <<exists, lastRow, asked, purged, ownerPurged>>

SetRole(h) ==
  LET r == handler[h] IN
  /\ r.pc = "write" /\ r.op = "setRole"
  /\ IF member[r.target].id = r.row.id
     THEN /\ member' = [member EXCEPT ![r.target].role = r.role]
          /\ Note(member[r.target] = r.row)
     ELSE UNCHANGED <<member, stale>>
  /\ Done(h)
  /\ UNCHANGED <<exists, lastRow, asked, purged, ownerPurged>>

\* transferOwnership: the caller must be the owner, then the target a member.
BeginTransfer(h, u, v) ==
  /\ IsMember(u) /\ member[u].role = "OWNER" /\ u # v
  /\ Begin(h, u, [Fresh("transfer", u, v) EXCEPT !.pc = "check", !.row = member[u]])

ReadNewOwner(h) ==
  LET r == handler[h] IN
  /\ r.pc = "check" /\ r.op = "transfer"
  /\ IF ~IsMember(r.target) THEN Done(h)
     ELSE Goto(h, [r EXCEPT !.pc = "write", !.other = member[r.target]])
  /\ Unchanged

\* One transaction updates both rows by their ids, or fails.
Transfer(h) ==
  LET r == handler[h] IN
  /\ r.pc = "write" /\ r.op = "transfer"
  /\ IF member[r.actor].id = r.row.id /\ member[r.target].id = r.other.id
     THEN /\ member' = [member EXCEPT ![r.actor].role = DefaultRole,
                                      ![r.target].role = "OWNER"]
          /\ Note(member[r.actor] = r.row /\ member[r.target] = r.other)
     ELSE UNCHANGED <<member, stale>>
  /\ Done(h)
  /\ UNCHANGED <<exists, lastRow, asked, purged, ownerPurged>>

BeginDelete(h, u) ==
  /\ Allowed(u, "delete")
  /\ Begin(h, u, [Fresh("delete", u, u) EXCEPT !.pc = "write"])

\* GroupService.remove: the rows of the group go with it.
DeleteGroup(h) ==
  LET r == handler[h] IN
  /\ r.pc = "write" /\ r.op = "delete"
  /\ IF exists
     THEN /\ exists' = FALSE
          /\ member' = [u \in Users |-> NoRow]
          /\ asked' = <<>>
     ELSE UNCHANGED <<exists, member, asked>>
  /\ Done(h)
  /\ UNCHANGED <<lastRow, purged, stale, ownerPurged>>

-----------------------------------------------------------------------------
(* Joining.                                                                *)

\* An invitation by e-mail.  Nothing in the code writes such a row any more;
\* joinByInviteCode still looks for one.
Invite(u) ==
  /\ exists /\ ~IsMember(u) /\ PendingOf(u) = {}
  /\ Len(asked) < MaxAsked
  /\ asked' = Append(asked, [user |-> u, type |-> "INVITE", status |-> "PENDING"])
  /\ UNCHANGED <<exists, member, lastRow, purged, handler, stale, ownerPurged>>

\* joinByInviteCode: not a member yet ...
BeginJoin(h, u) ==
  /\ exists /\ ~IsMember(u)
  /\ Begin(h, u, [Fresh("join", u, u) EXCEPT !.pc = "check"])

\* ... invited by e-mail, or not ...
FindInvite(h) ==
  LET r == handler[h] IN
  /\ r.pc = "check" /\ r.op = "join"
  /\ IF InvitesOf(r.actor) = {} THEN Goto(h, [r EXCEPT !.pc = "pending"])
     ELSE \E i \in InvitesOf(r.actor) :
            Goto(h, [r EXCEPT !.pc = "admit", !.req = i, !.seen = {i}])
  /\ Unchanged

\* ... and no request is waiting.
\* Variant: requests that wait already are not looked for.
FindNothing(h) ==
  LET r == handler[h] IN
  /\ r.pc = "pending"
  /\ Goto(h, [r EXCEPT !.pc = "write", !.seen = PendingOf(r.actor)])
  /\ Unchanged

FindPending(h) ==
  LET r == handler[h] IN
  /\ r.pc = "pending"
  /\ IF PendingOf(r.actor) # {} THEN Done(h) ELSE Goto(h, [r EXCEPT !.pc = "write"])
  /\ Unchanged

\* Variant: the type and the status are swapped.
AskSwapped(h) ==
  LET r == handler[h] IN
  /\ r.pc = "write" /\ r.op = "join"
  /\ exists /\ Len(asked) < MaxAsked
  /\ asked' = Append(asked, [user |-> r.actor, type |-> "PENDING",
                             status |-> "REQUEST"])
  /\ Done(h)
  /\ UNCHANGED <<exists, member, lastRow, purged, stale, ownerPurged>>

Ask(h) ==
  LET r == handler[h] IN
  /\ r.pc = "write" /\ r.op = "join"
  /\ IF exists
     THEN /\ Len(asked) < MaxAsked
          /\ asked' = Append(asked, [user |-> r.actor, type |-> "REQUEST",
                                     status |-> "PENDING"])
          /\ Note(~IsMember(r.actor) /\ PendingOf(r.actor) = r.seen)
     ELSE UNCHANGED <<asked, stale>>
  /\ Done(h)
  /\ UNCHANGED <<exists, member, lastRow, purged, ownerPurged>>

BeginDecide(h, op, u, i) ==
  /\ Allowed(u, op)
  /\ Begin(h, u, [Fresh(op, asked[i].user, asked[i].user) EXCEPT !.req = i])

\* acceptJoinRequest and rejectJoinRequest read the request; to accept it, the
\* user must exist and not be a member, which the transaction finds out again.
\* Variant: a decided request is not refused.
ReadAnyRequest(h) ==
  LET r == handler[h]
      q == asked[r.req]
  IN
  /\ r.pc = "read" /\ r.op \in {"accept", "reject"}
  /\ IF \/ r.req \notin DOMAIN asked
        \/ r.op = "accept" /\ (q.type = "INVITE" \/ IsMember(q.user) \/ q.user \in purged)
     THEN Done(h)
     ELSE Goto(h, [r EXCEPT !.pc = IF r.op = "accept" THEN "admit" ELSE "write",
                            !.seen = {r.req} \cap PendingOf(q.user)])
  /\ Unchanged

ReadRequest(h) ==
  LET r == handler[h]
      q == asked[r.req]
  IN
  /\ r.pc = "read" /\ r.op \in {"accept", "reject"}
  /\ IF \/ r.req \notin DOMAIN asked
        \/ q.status # "PENDING"
        \/ r.op = "accept" /\ (q.type = "INVITE" \/ IsMember(q.user) \/ q.user \in purged)
     THEN Done(h)
     ELSE Goto(h, [r EXCEPT !.pc = IF r.op = "accept" THEN "admit" ELSE "write",
                            !.seen = {r.req} \cap PendingOf(q.user)])
  /\ Unchanged

\* The transaction of accept, and of join with an invitation: the request is
\* accepted and the member row created.  It fails when the user already has a
\* row (unique), is gone (foreign key), or the request is gone.
\* Variant: the request is not marked as accepted.
AdmitUnmarked(h) ==
  LET r == handler[h]
      u == r.target
  IN
  /\ r.pc = "admit"
  /\ IF r.req \in DOMAIN asked /\ ~IsMember(u) /\ u \notin purged
     THEN NewRow(u, DefaultRole) /\ Note(r.seen = {r.req} \cap PendingOf(r.target))
     ELSE UNCHANGED <<member, lastRow, stale>>
  /\ Done(h)
  /\ UNCHANGED <<exists, asked, purged, ownerPurged>>

Admit(h) ==
  LET r == handler[h]
      u == r.target
  IN
  /\ r.pc = "admit"
  /\ IF r.req \in DOMAIN asked /\ ~IsMember(u) /\ u \notin purged
     THEN /\ asked' = [asked EXCEPT ![r.req].status = "ACCEPTED"]
          /\ NewRow(u, DefaultRole)
          /\ Note(r.seen = {r.req} \cap PendingOf(r.target))
     ELSE UNCHANGED <<asked, member, lastRow, stale>>
  /\ Done(h)
  /\ UNCHANGED <<exists, purged, ownerPurged>>

Reject(h) ==
  LET r == handler[h] IN
  /\ r.pc = "write" /\ r.op = "reject"
  /\ IF r.req \in DOMAIN asked
     THEN /\ asked' = [asked EXCEPT ![r.req].status = "REJECTED"]
          /\ Note(r.seen = {r.req} \cap PendingOf(r.target))
     ELSE UNCHANGED <<asked, stale>>
  /\ Done(h)
  /\ UNCHANGED <<exists, member, lastRow, purged, ownerPurged>>

\* The account of u is deleted; its member row goes by ON DELETE CASCADE.
PurgeAccount(u) ==
  /\ u \notin purged
  /\ Cardinality(purged) < MaxPurges
  /\ purged' = purged \cup {u}
  /\ ownerPurged' = (ownerPurged \/ u \in Owners)
  /\ member' = [member EXCEPT ![u] = NoRow]
  /\ UNCHANGED <<exists, lastRow, asked, handler, stale>>

-----------------------------------------------------------------------------
Start(h) ==
  \/ \E u \in Users : BeginLeave(h, u) \/ BeginJoin(h, u) \/ BeginDelete(h, u)
  \/ \E u, v \in Users : BeginTransfer(h, u, v)
  \/ \E u, v \in Users, role \in Role : BeginManage(h, "setRole", u, v, role)
  \/ \E u, v \in Users : BeginManage(h, "remove", u, v, DefaultRole)
  \/ \E u \in Users, op \in {"accept", "reject"}, i \in DOMAIN asked :
       BeginDecide(h, op, u, i)

Step(h) ==
  \/ ReadMember(h) \/ DeleteMember(h) \/ SetRole(h)
  \/ ReadNewOwner(h) \/ Transfer(h) \/ DeleteGroup(h)
  \/ FindInvite(h) \/ FindPending(h) \/ Ask(h)
  \/ ReadRequest(h) \/ Admit(h) \/ Reject(h)

Next ==
  \/ \E u \in Users : CreateGroup(u) \/ Invite(u) \/ PurgeAccount(u)
  \/ \E h \in Handlers : Start(h) \/ Step(h)

Spec == Init /\ [][Next]_vars

-----------------------------------------------------------------------------
TypeOK ==
  /\ exists \in BOOLEAN
  /\ member \in [Users -> Row]
  /\ lastRow \in 0..MaxRows
  /\ asked \in Seq(JoinRequest) /\ Len(asked) <= MaxAsked
  /\ purged \subseteq Users
  /\ handler \in [Handlers -> Handler \cup {Idle}]
  /\ stale \in BOOLEAN /\ ownerPurged \in BOOLEAN

\* A group has exactly one owner, unless a write went through on grounds that had
\* changed or the account of the owner was deleted (leave, updateMemberRole,
\* removeMember and transferOwnership).
OneOwner ==
  exists /\ ~stale /\ ~ownerPurged =>
    \E u \in Users : Owners = {u}

\* A member has no pending request to join (joinByInviteCode, acceptJoinRequest).
PendingIsOutside ==
  ~stale => \A u \in Users : IsMember(u) => PendingOf(u) = {}

\* A user has at most one pending request (pending_join_request).
AskedOnce ==
  ~stale => \A u \in Users : Cardinality(PendingOf(u)) <= 1

\* Members and requests to join as GroupPolicy sees them.
Policy == INSTANCE GroupPolicy WITH
  NoRole <- "NONE",
  role <- [u \in Users |-> IF IsMember(u) THEN member[u].role ELSE "NONE"],
  requests <- [i \in DOMAIN asked |-> [user |-> asked[i].user, status |-> asked[i].status]],
  disturbed <- stale

\* Each request that reads, checks and then writes has the effect of one that is carried
\* out at once when it writes: an owner neither leaves nor is removed or degraded, a
\* transfer passes the group on from its owner, a request is decided once (the error
\* request_already_processed) and makes a member as it is accepted; until a write goes
\* through on grounds that have changed.
RequestsActAtOnce == Policy!Spec

\* "The owner cannot leave: transfer or delete first", "the owner cannot be
\* removed" (docs/features/02-groups.md).
GroupHasOwner == exists => Owners # {}

=============================================================================
