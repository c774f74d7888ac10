------------------------ MODULE GroupMembershipProofs ------------------------
(***************************************************************************)
(* Proofs about GroupMembership, for any set of users, any number of        *)
(* requests served at once and any bounds; and then about the roles, votes,  *)
(* questions, budgets and anniversaries of a group, each for any constants    *)
(* that fit its assumption.  The variables of one name are of one service at  *)
(* a time, as in MCServices.                                                *)
(***************************************************************************)
EXTENDS GroupMembership, Integers, FiniteSetTheorems, WellFoundedInduction, SequenceTheorems,
        TLAPS

CONSTANTS Servers, None, Keep,
          RoleIds, RoleNames, RoleRequests,                  \* of Roles
          Voters, VoteOwner, Options, VoteRequests,          \* of Votes
          Readers, Author, Admin, Answers,                   \* of Questions
          QuestionRequests, QuestionWeeks,
          Categories, Whole, BudgetMonths, BudgetRequests,   \* of Budgets
          NewAnniversaries, NewDates, TaskOffsets,           \* of Anniversaries
          Hundred, Year, DaysAhead, AnniversaryDays,
          AnniversaryRequests

VARIABLES request, requests,
          roles, holder, used, changed,                      \* of Roles
          members, vote, closed, ballots, choice,            \* of Votes
          overlapped,
          question, answers, weeks, replied, outdated,       \* of Questions
          month, templates, budgets, looked, registered,     \* of Budgets
          tasks, today, lock, fired, raced, freed,           \* of Anniversaries
          anniversary, misdated, through, since

GroupRoles == INSTANCE Roles WITH
  role <- roles, member <- holder, raced <- changed, Ids <- RoleIds, Names <- RoleNames,
  MaxRequests <- RoleRequests
Vote == INSTANCE Votes WITH
  Users <- Voters, Owner <- VoteOwner, crossed <- overlapped, MaxRequests <- VoteRequests
Question == INSTANCE Questions WITH
  Users <- Readers, raced <- outdated, MaxRequests <- QuestionRequests,
  MaxWeeks <- QuestionWeeks
Budget == INSTANCE Budgets WITH
  Total <- Whole, crossed <- looked, MaxMonths <- BudgetMonths, MaxRequests <- BudgetRequests
Annual == INSTANCE Anniversaries WITH
  row <- anniversary, stale <- misdated, crossed <- raced,
  Creations <- NewAnniversaries, Changes <- NewDates, Linked <- TaskOffsets,
  Ahead <- DaysAhead, MaxDays <- AnniversaryDays, MaxRequests <- AnniversaryRequests

-----------------------------------------------------------------------------
(* Type correctness.                                                       *)

\* A handler that moves on to a well-typed state leaves the rest well-typed.
LEMMA GotoType ==
  ASSUME TypeOK, NEW h \in Handlers, NEW r \in Handler \cup {Idle}, Goto(h, r), Unchanged
  PROVE  TypeOK'
  BY DEF TypeOK, Goto, Unchanged

\* A request that has just begun is well-typed.
LEMMA FreshType ==
  ASSUME NEW op \in Op, NEW u \in Users, NEW v \in Users
  PROVE  Fresh(op, u, v) \in Handler
  BY GroupAssumption DEF Fresh, Handler, Row, NoRow, Role, DefaultRole

\* A handler that has read a member row, and goes on, is well-typed.
LEMMA RowReadType ==
  ASSUME NEW r \in Handler, NEW row \in Row, NEW pc \in {"check", "write"}
  PROVE  /\ [r EXCEPT !.pc = pc, !.row = row] \in Handler
         /\ [r EXCEPT !.pc = pc, !.other = row] \in Handler
  BY DEF Handler

\* A well-typed handler that waits for its turn to do something is not idle.
LEMMA BusyType ==
  ASSUME TypeOK, NEW h \in Handlers, handler[h].pc # "idle"
  PROVE  handler[h] \in Handler
  BY DEF TypeOK, Idle

\* No request is a sequence of requests.
LEMMA NoRequest == <<>> \in Seq(JoinRequest) /\ Len(<<>>) <= MaxAsked
  BY GroupAssumption

\* A request is a record.
LEMMA RequestType ==
  ASSUME TypeOK, NEW i \in DOMAIN asked
  PROVE  /\ asked[i] \in JoinRequest /\ asked[i].user \in Users
         /\ i \in 1..MaxAsked
<1>1. asked[i] \in JoinRequest /\ i \in 1..MaxAsked
  BY GroupAssumption DEF TypeOK
<1> QED BY <1>1 DEF JoinRequest

\* The requests a user waits for are rows of asked.
LEMMA PendingRange ==
  ASSUME TypeOK, NEW u \in Users
  PROVE  PendingOf(u) \subseteq 1..MaxAsked
  BY GroupAssumption DEF TypeOK, PendingOf

\* A member row created for u is well-typed.
LEMMA NewRowType ==
  ASSUME TypeOK, NEW u \in Users, NEW role \in Role, NewRow(u, role)
  PROVE  /\ member' \in [Users -> Row]
         /\ lastRow' \in 0..MaxRows
<1> USE GroupAssumption
<1>1. lastRow + 1 \in 0..MaxRows
  BY DEF TypeOK, NewRow
<1>2. [id |-> lastRow + 1, role |-> role] \in Row
  BY <1>1 DEF Row
<1> QED BY <1>1, <1>2 DEF TypeOK, NewRow

\* A user's row that gets another role or that is deleted.
LEMMA MemberTypes ==
  ASSUME TypeOK
  PROVE  /\ member \in [Users -> Row] /\ lastRow \in 0..MaxRows
         /\ asked \in Seq(JoinRequest) /\ Len(asked) <= MaxAsked
         /\ stale \in BOOLEAN
  BY DEF TypeOK

LEMMA RowUpdate ==
  ASSUME NEW m \in [Users -> Row], NEW u \in Users, NEW role \in Role
  PROVE  /\ [m EXCEPT ![u].role = role] \in [Users -> Row]
         /\ \A v \in Users : [m EXCEPT ![u].role = role][v] =
              IF v = u THEN [id |-> m[v].id, role |-> role] ELSE m[v]
<1>1. \A v \in Users : [m EXCEPT ![u].role = role][v] =
        IF v = u THEN [m[v] EXCEPT !.role = role] ELSE m[v]
  OBVIOUS
<1>2. [m[u] EXCEPT !.role = role] = [id |-> m[u].id, role |-> role]
  BY DEF Row
<1>3. [id |-> m[u].id, role |-> role] \in Row
  BY DEF Row
<1> QED BY <1>1, <1>2, <1>3

\* Deciding a request leaves asked well-typed.
LEMMA DecideType ==
  ASSUME TypeOK, NEW i \in DOMAIN asked, NEW s \in {"PENDING", "ACCEPTED", "REJECTED"},
         asked' = [asked EXCEPT ![i].status = s]
  PROVE  asked' \in Seq(JoinRequest) /\ Len(asked') <= MaxAsked
<1>1. asked[i] \in JoinRequest
  BY DEF TypeOK
<1>2. [asked[i] EXCEPT !.status = s] \in JoinRequest
  BY <1>1 DEF JoinRequest
<1>3. asked' = [asked EXCEPT ![i] = [asked[i] EXCEPT !.status = s]]
  OBVIOUS
<1> QED BY <1>2, <1>3 DEF TypeOK

\* Requests that come in.
LEMMA StartType == ASSUME TypeOK, NEW h \in Handlers, Start(h) PROVE TypeOK'
<1>1. ASSUME NEW u \in Users, BeginLeave(h, u) PROVE TypeOK'
  <2>1. member[u] \in Row
    BY DEF TypeOK
  <2>2. [Fresh("leave", u, u) EXCEPT !.pc = "write", !.row = member[u]] \in Handler
    <3>1. "leave" \in Op
      BY DEF Op
    <3> QED BY <2>1, <3>1, FreshType, RowReadType
  <2> QED BY <1>1, <2>2, GotoType DEF BeginLeave, Begin
<1>2. ASSUME NEW u \in Users, BeginJoin(h, u) PROVE TypeOK'
  <2>1. [Fresh("join", u, u) EXCEPT !.pc = "check"] \in Handler
    BY FreshType DEF Handler, Op
  <2> QED BY <1>2, <2>1, GotoType DEF BeginJoin, Begin
<1>3. ASSUME NEW u \in Users, BeginDelete(h, u) PROVE TypeOK'
  <2>1. [Fresh("delete", u, u) EXCEPT !.pc = "write"] \in Handler
    BY FreshType DEF Handler, Op
  <2> QED BY <1>3, <2>1, GotoType DEF BeginDelete, Begin
<1>4. ASSUME NEW u \in Users, NEW v \in Users, BeginTransfer(h, u, v) PROVE TypeOK'
  <2>1. member[u] \in Row
    BY DEF TypeOK
  <2>2. [Fresh("transfer", u, v) EXCEPT !.pc = "check", !.row = member[u]] \in Handler
    <3>1. "transfer" \in Op
      BY DEF Op
    <3> QED BY <2>1, <3>1, FreshType, RowReadType
  <2> QED BY <1>4, <2>2, GotoType DEF BeginTransfer, Begin
<1>5. ASSUME NEW op \in {"setRole", "remove"}, NEW u \in Users, NEW v \in Users,
             NEW role \in Role, BeginManage(h, op, u, v, role)
      PROVE  TypeOK'
  <2>1. [Fresh(op, v, v) EXCEPT !.role = role] \in Handler
    BY FreshType DEF Handler, Op
  <2> QED BY <1>5, <2>1, GotoType DEF BeginManage, Begin
<1>6. ASSUME NEW op \in {"accept", "reject"}, NEW u \in Users, NEW i \in DOMAIN asked,
             BeginDecide(h, op, u, i)
      PROVE  TypeOK'
  <2>1. asked[i].user \in Users /\ i \in 0..MaxAsked
    BY GroupAssumption, RequestType
  <2>2. [Fresh(op, asked[i].user, asked[i].user) EXCEPT !.req = i] \in Handler
    BY <2>1, GroupAssumption DEF Fresh, Handler, Op, Row, NoRow, Role, DefaultRole
  <2> QED BY <1>6, <2>2, GotoType DEF BeginDecide, Begin
<1>7. "MEMBER" \in Role
  BY DEF Role
<1> QED
  BY <1>1, <1>2, <1>3, <1>4, <1>5, <1>6, <1>7 DEF Start, DefaultRole

\* Steps of a request that is being served.
LEMMA StepType == ASSUME TypeOK, NEW h \in Handlers, Step(h) PROVE TypeOK'
<1> USE GroupAssumption
<1> DEFINE r == handler[h]
<1>1. ASSUME r.pc # "idle" PROVE r \in Handler
  BY <1>1, BusyType
<1>2. Idle \in Handler \cup {Idle}
  OBVIOUS
<1>3. CASE ReadMember(h)
  <2>1. r \in Handler
    BY <1>1, <1>3 DEF ReadMember
  <2>2. [r EXCEPT !.pc = "write", !.row = member[r.target]] \in Handler
    <3>1. member[r.target] \in Row
      BY <2>1 DEF Handler, TypeOK
    <3> QED BY <2>1, <3>1, RowReadType
  <2> QED BY <1>3, <2>2, GotoType DEF ReadMember, Done, Goto
<1>4. CASE DeleteMember(h)
  <2>1. r \in Handler
    BY <1>1, <1>4 DEF DeleteMember
  <2>2. NoRow \in Row
    BY DEF NoRow, Row, Role, DefaultRole
  <2>3. member' \in [Users -> Row] /\ stale' \in BOOLEAN
    BY <1>4, <2>1, <2>2 DEF DeleteMember, Note, TypeOK, Handler
  <2> QED BY <1>4, <2>3 DEF DeleteMember, Done, TypeOK
<1>5. CASE SetRole(h)
  <2>1. r \in Handler
    BY <1>1, <1>5 DEF SetRole
  <2>2. r.role \in Role /\ r.target \in Users
    BY <2>1 DEF Handler
  <2>3. member' \in [Users -> Row] /\ stale' \in BOOLEAN
    <3>1. /\ member' = member \/ member' = [member EXCEPT ![r.target].role = r.role]
          /\ stale' \in BOOLEAN
      BY <1>5, MemberTypes DEF SetRole, Note
    <3> HIDE DEF r
    <3> QED BY <2>2, <3>1, MemberTypes, RowUpdate
  <2> QED BY <1>5, <2>3 DEF SetRole, Done, TypeOK
<1>6. CASE ReadNewOwner(h)
  <2>1. r \in Handler
    BY <1>1, <1>6 DEF ReadNewOwner
  <2>2. [r EXCEPT !.pc = "write", !.other = member[r.target]] \in Handler
    <3>1. member[r.target] \in Row
      BY <2>1 DEF Handler, TypeOK
    <3> QED BY <2>1, <3>1, RowReadType
  <2> QED BY <1>6, <2>2, GotoType DEF ReadNewOwner, Done, Goto
<1>7. CASE Transfer(h)
  <2>1. r \in Handler
    BY <1>1, <1>7 DEF Transfer
  <2>2. r.actor \in Users /\ r.target \in Users
    BY <2>1 DEF Handler
  <2>3. [member EXCEPT ![r.actor].role = DefaultRole, ![r.target].role = "OWNER"]
          \in [Users -> Row]
    BY <2>2 DEF TypeOK, Row, Role, DefaultRole
  <2>4. member' \in [Users -> Row] /\ stale' \in BOOLEAN
    BY <1>7, <2>3 DEF Transfer, Note, TypeOK
  <2> QED BY <1>7, <2>4 DEF Transfer, Done, TypeOK
<1>8. CASE DeleteGroup(h)
  <2>1. NoRow \in Row
    BY DEF NoRow, Row, Role, DefaultRole
  <2>2. /\ exists' \in BOOLEAN
        /\ member' \in [Users -> Row]
        /\ asked' \in Seq(JoinRequest) /\ Len(asked') <= MaxAsked
    BY <1>8, <2>1, NoRequest DEF DeleteGroup, TypeOK
  <2> QED BY <1>8, <2>2 DEF DeleteGroup, Done, TypeOK
<1>9. CASE FindInvite(h)
  <2>1. r \in Handler
    BY <1>1, <1>9 DEF FindInvite
  <2>2. ASSUME NEW i \in InvitesOf(r.actor)
        PROVE  [r EXCEPT !.pc = "admit", !.req = i, !.seen = {i}] \in Handler
    <3>1. i \in 1..MaxAsked
      BY <2>1, PendingRange DEF InvitesOf, Handler
    <3>2. i \in 0..MaxAsked /\ {i} \in SUBSET (1..MaxAsked)
      BY <3>1
    <3> HIDE DEF r
    <3> QED BY <2>1, <3>2 DEF Handler
  <2>3. [r EXCEPT !.pc = "pending"] \in Handler
    BY <2>1 DEF Handler
  <2> QED BY <1>9, <2>2, <2>3, GotoType DEF FindInvite
<1>10. CASE FindPending(h)
  <2>1. r \in Handler
    BY <1>1, <1>10 DEF FindPending
  <2>2. [r EXCEPT !.pc = "write"] \in Handler
    BY <2>1 DEF Handler
  <2> QED BY <1>10, <2>2, GotoType DEF FindPending, Done, Goto
<1>11. CASE Ask(h)
  <2>1. r \in Handler
    BY <1>1, <1>11 DEF Ask
  <2>2. [user |-> r.actor, type |-> "REQUEST", status |-> "PENDING"] \in JoinRequest
    BY <2>1 DEF Handler, JoinRequest
  <2>3. asked' \in Seq(JoinRequest) /\ Len(asked') <= MaxAsked /\ stale' \in BOOLEAN
    <3>1. stale' \in BOOLEAN
      BY <1>11, MemberTypes DEF Ask, Note
    <3>2. CASE asked' = asked
      BY <3>1, <3>2, MemberTypes
    <3>3. CASE Len(asked) < MaxAsked /\ asked' = Append(asked, [user |-> r.actor,
                 type |-> "REQUEST", status |-> "PENDING"])
      <4>1. Len(asked) \in Nat /\ asked' \in Seq(JoinRequest) /\ Len(asked') = Len(asked) + 1
        BY <2>2, <3>3, MemberTypes
      <4> QED BY <3>1, <3>3, <4>1
    <3> QED BY <1>11, <3>2, <3>3 DEF Ask
  <2> QED BY <1>11, <2>3 DEF Ask, Done, TypeOK
<1>12. CASE ReadRequest(h)
  <2>1. r \in Handler
    BY <1>1, <1>12 DEF ReadRequest
  <2>2. ASSUME r.req \in DOMAIN asked, NEW pc \in {"admit", "write"}
        PROVE  [r EXCEPT !.pc = pc,
                         !.seen = {r.req} \cap PendingOf(asked[r.req].user)] \in Handler
    <3>1. asked[r.req].user \in Users
      BY <2>2, RequestType
    <3>2. {r.req} \cap PendingOf(asked[r.req].user) \in SUBSET (1..MaxAsked)
      BY <3>1, PendingRange
    <3> HIDE DEF r
    <3> QED BY <2>1, <3>2 DEF Handler
  <2> QED BY <1>12, <2>2, GotoType DEF ReadRequest, Done, Goto
<1>13. CASE Admit(h)
  <2>1. r \in Handler
    BY <1>1, <1>13 DEF Admit
  <2>2. r.target \in Users /\ DefaultRole \in Role
    BY <2>1 DEF Handler, Role, DefaultRole
  <2>3. /\ member' \in [Users -> Row] /\ lastRow' \in 0..MaxRows
        /\ asked' \in Seq(JoinRequest) /\ Len(asked') <= MaxAsked
        /\ stale' \in BOOLEAN
    BY <1>13, <2>2, NewRowType, DecideType DEF Admit, Note, TypeOK
  <2> QED BY <1>13, <2>3 DEF Admit, Done, TypeOK
<1>14. CASE Reject(h)
  <2>1. asked' \in Seq(JoinRequest) /\ Len(asked') <= MaxAsked /\ stale' \in BOOLEAN
    BY <1>14, DecideType DEF Reject, Note, TypeOK
  <2> QED BY <1>14, <2>1 DEF Reject, Done, TypeOK
<1> QED
  BY <1>3, <1>4, <1>5, <1>6, <1>7, <1>8, <1>9, <1>10, <1>11, <1>12, <1>13, <1>14
     DEF Step

\* Every step keeps every variable's type.
LEMMA TypeStep == TypeOK /\ [Next]_vars => TypeOK'
<1> SUFFICES ASSUME TypeOK, [Next]_vars PROVE TypeOK'
  OBVIOUS
<1> USE GroupAssumption
<1>1. ASSUME NEW u \in Users, CreateGroup(u) PROVE TypeOK'
  <2>1. member' \in [Users -> Row] /\ lastRow' \in 0..MaxRows
    BY <1>1, NewRowType DEF CreateGroup, Role
  <2> QED BY <1>1, <2>1 DEF CreateGroup, TypeOK
<1>2. ASSUME NEW u \in Users, Invite(u) PROVE TypeOK'
  BY <1>2 DEF Invite, TypeOK, JoinRequest
<1>3. ASSUME NEW u \in Users, PurgeAccount(u) PROVE TypeOK'
  BY <1>3 DEF PurgeAccount, TypeOK, Row, NoRow, Role, DefaultRole
<1>4. CASE UNCHANGED vars
  BY <1>4 DEF vars, TypeOK
<1> QED BY <1>1, <1>2, <1>3, <1>4, StartType, StepType DEF Next

\* The initial state is well-typed.
LEMMA InitType == Init => TypeOK
<1>1. NoRow \in Row /\ 0 \in 0..MaxRows
  BY GroupAssumption DEF Row, NoRow, Role, DefaultRole
<1> QED BY <1>1, NoRequest DEF Init, TypeOK

\* Type correctness of the specification, for every value of the constants.
THEOREM TypeCorrect == Spec => []TypeOK
BY InitType, TypeStep, PTL DEF Spec

-----------------------------------------------------------------------------
(* One owner.                                                               *)

\* What a handler knows of the rows it has read, until it writes.
Known(r) ==
  /\ r.pc = "pending" => r.op = "join"
  /\ r.pc = "write" /\ r.op \in {"leave", "remove", "setRole"} => r.row.role # "OWNER"
  /\ r.op = "setRole" => r.role # "OWNER"
  /\ r.op = "transfer" =>
       /\ r.actor # r.target
       /\ r.row.id # 0 /\ r.row.role = "OWNER"
       /\ r.pc = "write" => r.other.id # 0

\* OneOwner is not inductive: a handler that is about to write must have read
\* what the write needs, and a group must not be created beside old members.
OwnerInv ==
  /\ TypeOK
  /\ OneOwner
  /\ \A u \in Users : member[u].id <= lastRow
  /\ \A h \in Handlers : handler[h].pc # "idle" => Known(handler[h])

\* The set of owners depends on the member rows only.
LEMMA SameOwners ==
  ASSUME TypeOK, TypeOK',
         \A u \in Users :
           member[u].id # 0 /\ member[u].role = "OWNER" <=>
             member'[u].id # 0 /\ member'[u].role = "OWNER"
  PROVE  Owners' = Owners
  BY DEF Owners, IsMember

\* A step that leaves the owners alone, and neither creates the group nor takes
\* back a ghost, keeps OneOwner.
LEMMA OwnersKept ==
  ASSUME OneOwner, exists' => exists, stale => stale', ownerPurged => ownerPurged',
         exists' /\ ~stale' /\ ~ownerPurged' => Owners' = Owners
  PROVE  OneOwner'
  BY DEF OneOwner

\* Every step keeps OneOwner.
LEMMA OneOwnerStep ==
  ASSUME OwnerInv, [Next]_vars, TypeOK'
  PROVE  OneOwner'
<1> USE GroupAssumption
<1>0. TypeOK /\ OneOwner
  BY DEF OwnerInv
<1>1. ASSUME NEW u \in Users, CreateGroup(u) PROVE OneOwner'
  <2>1. \A v \in Users : member[v].id = 0
    BY <1>1, <1>0 DEF OwnerInv, CreateGroup, TypeOK, Row
  <2>2. \A v \in Users : member'[v].id # 0 <=> v = u
    BY <1>1, <1>0, <2>1 DEF CreateGroup, NewRow, TypeOK, Row
  <2>3. member'[u].role = "OWNER"
    BY <1>1, <1>0 DEF CreateGroup, NewRow, TypeOK
  <2>4. Owners' = {u}
    BY <2>2, <2>3 DEF Owners, IsMember
  <2> QED BY <2>4 DEF OneOwner
<1>2. ASSUME NEW u \in Users, Invite(u) PROVE OneOwner'
  BY <1>2, <1>0 DEF Invite, OneOwner, Owners, IsMember
<1>3. ASSUME NEW u \in Users, PurgeAccount(u) PROVE OneOwner'
  <2>1. CASE u \in Owners
    BY <1>3, <2>1 DEF PurgeAccount, OneOwner
  <2>2. CASE u \notin Owners
    <3>1. \A v \in Users :
            member[v].id # 0 /\ member[v].role = "OWNER" <=>
              member'[v].id # 0 /\ member'[v].role = "OWNER"
      BY <1>3, <2>2, <1>0 DEF PurgeAccount, Owners, IsMember, NoRow, DefaultRole, TypeOK
    <3> QED BY <1>3, <3>1, <1>0, SameOwners, OwnersKept DEF PurgeAccount
  <2> QED BY <2>1, <2>2
<1>4. ASSUME NEW h \in Handlers, Start(h) PROVE OneOwner'
  <2>1. Unchanged
    BY <1>4 DEF Start, Begin, BeginLeave, BeginJoin, BeginDelete, BeginTransfer,
                BeginManage, BeginDecide
  <2> QED BY <2>1, <1>0 DEF Unchanged, OneOwner, Owners, IsMember
<1>5. ASSUME NEW h \in Handlers, Step(h) PROVE OneOwner'
  <2> DEFINE r == handler[h]
  <2>1. ASSUME r.pc # "idle" PROVE r \in Handler /\ Known(r)
    BY <2>1, <1>0, BusyType DEF OwnerInv
  <2>2. CASE UNCHANGED <<exists, member, stale, ownerPurged>>
    BY <2>2, <1>0 DEF OneOwner, Owners, IsMember
  <2>3. CASE ReadMember(h) \/ ReadNewOwner(h) \/ FindInvite(h) \/ FindPending(h)
             \/ ReadRequest(h)
    BY <2>2, <2>3 DEF ReadMember, ReadNewOwner, FindInvite, FindPending, ReadRequest,
                      Unchanged
  <2>4. CASE DeleteMember(h)
    <3>1. r \in Handler /\ Known(r) /\ r.pc = "write" /\ r.op \in {"leave", "remove"}
      BY <2>1, <2>4 DEF DeleteMember
    <3>2. r.target \in Users /\ r.row.role # "OWNER"
      BY <3>1 DEF Known, Handler
    <3>3. CASE member[r.target].id = r.row.id /\ member[r.target] = r.row
      <4>1. \A v \in Users :
              member[v].id # 0 /\ member[v].role = "OWNER" <=>
                member'[v].id # 0 /\ member'[v].role = "OWNER"
        BY <2>4, <3>2, <3>3, <1>0 DEF DeleteMember, NoRow, DefaultRole, TypeOK
      <4> QED BY <4>1, <2>4, <3>3, <1>0, SameOwners, OwnersKept DEF DeleteMember, Note
    <3>4. CASE member[r.target].id = r.row.id /\ member[r.target] # r.row
      BY <3>4, <2>4 DEF DeleteMember, Note, OneOwner
    <3>5. CASE member[r.target].id # r.row.id
      BY <3>5, <2>4, <2>2 DEF DeleteMember
    <3> QED BY <3>3, <3>4, <3>5
  <2>5. CASE SetRole(h)
    <3>1. r \in Handler /\ Known(r) /\ r.pc = "write" /\ r.op = "setRole"
      BY <2>1, <2>5 DEF SetRole
    <3>2. r.target \in Users /\ r.row.role # "OWNER" /\ r.role # "OWNER"
      BY <3>1 DEF Known, Handler
    <3>3. CASE member[r.target].id = r.row.id /\ member[r.target] = r.row
      <4>1. \A v \in Users :
              member[v].id # 0 /\ member[v].role = "OWNER" <=>
                member'[v].id # 0 /\ member'[v].role = "OWNER"
        <5>1. member' = [member EXCEPT ![r.target].role = r.role]
          BY <2>5, <3>3 DEF SetRole
        <5>2. r.role \in Role
          BY <3>1 DEF Handler
        <5> HIDE DEF r
        <5>3. \A v \in Users : member'[v] =
                IF v = r.target THEN [id |-> member[v].id, role |-> r.role] ELSE member[v]
          BY <3>2, <5>1, <5>2, <1>0, MemberTypes, RowUpdate
        <5>4. member'[r.target].id = member[r.target].id /\ member'[r.target].role = r.role
          <6>1. member'[r.target] = [id |-> member[r.target].id, role |-> r.role]
            BY <3>2, <5>3
          <6> QED BY <6>1
        <5>5. member[r.target].role # "OWNER" /\ r.role # "OWNER"
          BY <3>2, <3>3 DEF r
        <5>6. \A v \in Users : v # r.target => member'[v] = member[v]
          BY <5>3
        <5> QED BY <5>4, <5>5, <5>6
      <4> QED BY <4>1, <2>5, <3>3, <1>0, SameOwners, OwnersKept DEF SetRole, Note
    <3>4. CASE member[r.target].id = r.row.id /\ member[r.target] # r.row
      BY <3>4, <2>5 DEF SetRole, Note, OneOwner
    <3>5. CASE member[r.target].id # r.row.id
      BY <3>5, <2>5, <2>2 DEF SetRole
    <3> QED BY <3>3, <3>4, <3>5
  <2>6. CASE Transfer(h)
    <3>1. r \in Handler /\ Known(r) /\ r.pc = "write" /\ r.op = "transfer"
      BY <2>1, <2>6 DEF Transfer
    <3>2. /\ r.actor \in Users /\ r.target \in Users /\ r.actor # r.target
          /\ r.row.id # 0 /\ r.row.role = "OWNER" /\ r.other.id # 0
      BY <3>1 DEF Known, Handler
    <3>3. CASE member[r.actor] = r.row /\ member[r.target] = r.other
      <4> DEFINE new == [member EXCEPT ![r.actor].role = DefaultRole,
                                       ![r.target].role = "OWNER"]
      <4>1. member' = new /\ exists' = exists /\ stale' = stale
            /\ ownerPurged' = ownerPurged
        BY <2>6, <3>3, <1>0 DEF Transfer, Note, TypeOK
      <4>2. /\ new[r.actor].role = "MEMBER"
            /\ new[r.target].role = "OWNER" /\ new[r.target].id = member[r.target].id
            /\ \A v \in Users \ {r.actor, r.target} : new[v] = member[v]
        BY <3>2, <1>0 DEF TypeOK, Row, DefaultRole
      <4>3. ASSUME exists, ~stale, ~ownerPurged PROVE Owners = {r.actor}
        <5>1. r.actor \in Owners
          BY <3>2, <3>3 DEF Owners, IsMember
        <5> QED BY <5>1, <4>3, <1>0 DEF OneOwner
      <4>4. ASSUME exists, ~stale, ~ownerPurged PROVE Owners' = {r.target}
        <5>1. \A v \in Users \ {r.actor} : ~(member[v].id # 0 /\ member[v].role = "OWNER")
          BY <4>3, <4>4 DEF Owners, IsMember
        <5>2. \A v \in Users : member'[v].id # 0 /\ member'[v].role = "OWNER" <=> v = r.target
          <6> HIDE DEF new
          <6> QED BY <5>1, <4>1, <4>2, <3>2, <3>3
        <5> QED BY <5>2, <3>2 DEF Owners, IsMember
      <4> QED BY <4>1, <4>4, <3>2 DEF OneOwner
    <3>4. CASE /\ member[r.actor].id = r.row.id /\ member[r.target].id = r.other.id
               /\ ~(member[r.actor] = r.row /\ member[r.target] = r.other)
      BY <3>4, <2>6 DEF Transfer, Note, OneOwner
    <3>5. CASE ~(member[r.actor].id = r.row.id /\ member[r.target].id = r.other.id)
      BY <3>5, <2>6, <2>2 DEF Transfer
    <3> QED BY <3>3, <3>4, <3>5
  <2>7. CASE DeleteGroup(h)
    BY <2>7, <2>2 DEF DeleteGroup, OneOwner
  <2>8. CASE Ask(h) \/ Reject(h)
    <3>1. UNCHANGED <<exists, member, ownerPurged>> /\ (stale => stale')
      BY <2>8 DEF Ask, Reject, Note
    <3> QED BY <3>1, <1>0 DEF OneOwner, Owners, IsMember
  <2>9. CASE Admit(h)
    <3>1. r \in Handler
      BY <2>1, <2>9 DEF Admit
    <3>2. r.target \in Users
      BY <3>1 DEF Handler
    <3>3. UNCHANGED <<exists, ownerPurged>> /\ (stale => stale')
      BY <2>9 DEF Admit, Note
    <3>4. \A v \in Users :
            member[v].id # 0 /\ member[v].role = "OWNER" <=>
              member'[v].id # 0 /\ member'[v].role = "OWNER"
      BY <2>9, <3>2, <1>0 DEF Admit, NewRow, IsMember, DefaultRole, TypeOK
    <3> QED BY <3>3, <3>4, <1>0, SameOwners, OwnersKept
  <2> QED
    BY <1>5, <2>3, <2>4, <2>5, <2>6, <2>7, <2>8, <2>9 DEF Step
<1>6. CASE UNCHANGED vars
  BY <1>6, <1>0 DEF vars, OneOwner, Owners, IsMember
<1> QED BY <1>1, <1>2, <1>3, <1>4, <1>5, <1>6 DEF Next

\* No row has an id that was not given out.
LEMMA RowIdStep ==
  ASSUME TypeOK, \A u \in Users : member[u].id <= lastRow, [Next]_vars
  PROVE  \A u \in Users : member'[u].id <= lastRow'
<1> USE GroupAssumption DEF TypeOK, Row
<1>1. ASSUME NEW u \in Users, NEW role \in Role, NewRow(u, role)
      PROVE  \A v \in Users : member'[v].id <= lastRow'
  BY <1>1 DEF NewRow
<1>2. CASE UNCHANGED <<member, lastRow>>
  BY <1>2
<1>3. ASSUME NEW u \in Users, CreateGroup(u) PROVE \A v \in Users : member'[v].id <= lastRow'
  BY <1>3, <1>1 DEF CreateGroup, Role
<1>4. ASSUME NEW u \in Users, Invite(u) PROVE \A v \in Users : member'[v].id <= lastRow'
  BY <1>4, <1>2 DEF Invite
<1>5. ASSUME NEW u \in Users, PurgeAccount(u) PROVE \A v \in Users : member'[v].id <= lastRow'
  BY <1>5 DEF PurgeAccount, NoRow
<1>6. ASSUME NEW h \in Handlers, Start(h) PROVE \A v \in Users : member'[v].id <= lastRow'
  BY <1>6, <1>2 DEF Start, Begin, BeginLeave, BeginJoin, BeginDelete, BeginTransfer,
                    BeginManage, BeginDecide, Unchanged
<1>7. ASSUME NEW h \in Handlers, Step(h) PROVE \A v \in Users : member'[v].id <= lastRow'
  <2> DEFINE r == handler[h]
  <2>1. ASSUME r.pc # "idle" PROVE r.target \in Users /\ r.actor \in Users
    <3>1. r \in Handler
      BY <2>1, BusyType
    <3> QED BY <3>1 DEF Handler
  <2>2. CASE DeleteMember(h)
    <3>1. r.target \in Users /\ lastRow' = lastRow /\ NoRow.id = 0
      BY <2>1, <2>2 DEF DeleteMember, NoRow
    <3>2. member' = member \/ member' = [member EXCEPT ![r.target] = NoRow]
      BY <2>2 DEF DeleteMember
    <3>3. member \in [Users -> Row] /\ lastRow \in Nat
      BY MemberTypes
    <3> HIDE DEF r, TypeOK, Row
    <3> QED BY <3>1, <3>2, <3>3
  <2>3. CASE SetRole(h)
    <3>1. \A v \in Users : member'[v].id = member[v].id
      <4>1. CASE UNCHANGED member
        BY <4>1
      <4>2. CASE member' = [member EXCEPT ![r.target].role = r.role]
        BY <4>2, <2>3, <2>1 DEF SetRole, TypeOK, Row
      <4> QED BY <2>3, <4>1, <4>2 DEF SetRole
    <3>2. lastRow' = lastRow
      BY <2>3 DEF SetRole
    <3> QED BY <3>1, <3>2
  <2>4. CASE Transfer(h)
    <3>1. CASE UNCHANGED member
      BY <3>1, <2>4 DEF Transfer
    <3>2. CASE member' = [member EXCEPT ![r.actor].role = DefaultRole,
                                        ![r.target].role = "OWNER"]
      <4>1. \A v \in Users : member'[v].id = member[v].id
        BY <3>2, <2>1, <2>4 DEF Transfer
      <4> QED BY <4>1, <2>4 DEF Transfer
    <3> QED BY <3>1, <3>2, <2>4 DEF Transfer
  <2>5. CASE DeleteGroup(h)
    BY <2>5 DEF DeleteGroup, NoRow
  <2>6. CASE Admit(h)
    <3>1. r.target \in Users /\ DefaultRole \in Role
      BY <2>6, <2>1 DEF Admit, Role, DefaultRole
    <3> QED BY <2>6, <3>1, <1>1 DEF Admit
  <2>7. CASE ReadMember(h) \/ ReadNewOwner(h) \/ FindInvite(h) \/ FindPending(h)
             \/ ReadRequest(h) \/ Ask(h) \/ Reject(h)
    BY <2>7, <1>2 DEF ReadMember, ReadNewOwner, FindInvite, FindPending, ReadRequest,
                      Unchanged, Ask, Reject
  <2> QED BY <1>7, <2>2, <2>3, <2>4, <2>5, <2>6, <2>7 DEF Step
<1>8. CASE UNCHANGED vars
  BY <1>8, <1>2 DEF vars
<1> QED BY <1>3, <1>4, <1>5, <1>6, <1>7, <1>8 DEF Next

\* A handler that moves on knows what it must, and the others know what they knew.
LEMMA KnownKept ==
  ASSUME TypeOK, \A g \in Handlers : handler[g].pc # "idle" => Known(handler[g]),
         NEW h \in Handlers, NEW r, Goto(h, r), r.pc # "idle" => Known(r)
  PROVE  \A g \in Handlers : handler'[g].pc # "idle" => Known(handler'[g])
  BY DEF Goto, TypeOK

\* Every step leaves every handler with what it must know.
LEMMA KnownStep ==
  ASSUME TypeOK, \A g \in Handlers : handler[g].pc # "idle" => Known(handler[g]),
         [Next]_vars
  PROVE  \A g \in Handlers : handler'[g].pc # "idle" => Known(handler'[g])
<1> DEFINE Goal == \A g \in Handlers : handler'[g].pc # "idle" => Known(handler'[g])
<1> USE GroupAssumption
<1>1. CASE UNCHANGED handler
  BY <1>1
<1>2. ASSUME NEW h \in Handlers, Done(h) PROVE Goal
  BY <1>2, KnownKept DEF Done, Goto, Idle
<1>3. ASSUME NEW h \in Handlers, Start(h) PROVE Goal
  <2>1. ASSUME NEW u \in Users, BeginLeave(h, u) PROVE Goal
    <3> DEFINE r == [Fresh("leave", u, u) EXCEPT !.pc = "write", !.row = member[u]]
    <3>1. Known(r)
      BY <2>1 DEF Known, Fresh, BeginLeave
    <3>2. Goto(h, r)
      BY <2>1 DEF BeginLeave, Begin
    <3> HIDE DEF r
    <3> QED BY <3>1, <3>2, KnownKept
  <2>2. ASSUME NEW u \in Users, BeginJoin(h, u) PROVE Goal
    <3> DEFINE r == [Fresh("join", u, u) EXCEPT !.pc = "check"]
    <3>1. Known(r)
      BY DEF Known, Fresh
    <3>2. Goto(h, r)
      BY <2>2 DEF BeginJoin, Begin
    <3> HIDE DEF r
    <3> QED BY <3>1, <3>2, KnownKept
  <2>3. ASSUME NEW u \in Users, BeginDelete(h, u) PROVE Goal
    <3> DEFINE r == [Fresh("delete", u, u) EXCEPT !.pc = "write"]
    <3>1. Known(r)
      BY DEF Known, Fresh
    <3>2. Goto(h, r)
      BY <2>3 DEF BeginDelete, Begin
    <3> HIDE DEF r
    <3> QED BY <3>1, <3>2, KnownKept
  <2>4. ASSUME NEW u \in Users, NEW v \in Users, BeginTransfer(h, u, v) PROVE Goal
    <3> DEFINE r == [Fresh("transfer", u, v) EXCEPT !.pc = "check", !.row = member[u]]
    <3>1. Known(r)
      BY <2>4 DEF Known, Fresh, BeginTransfer, IsMember
    <3>2. Goto(h, r)
      BY <2>4 DEF BeginTransfer, Begin
    <3> HIDE DEF r
    <3> QED BY <3>1, <3>2, KnownKept
  <2>5. ASSUME NEW op \in {"setRole", "remove"}, NEW u \in Users, NEW v \in Users,
               NEW role \in Role, BeginManage(h, op, u, v, role)
        PROVE  Goal
    <3> DEFINE r == [Fresh(op, v, v) EXCEPT !.role = role]
    <3>1. Known(r)
      BY <2>5 DEF Known, Fresh, BeginManage
    <3>2. Goto(h, r)
      BY <2>5 DEF BeginManage, Begin
    <3> HIDE DEF r
    <3> QED BY <3>1, <3>2, KnownKept
  <2>6. ASSUME NEW op \in {"accept", "reject"}, NEW u \in Users, NEW i \in DOMAIN asked,
               BeginDecide(h, op, u, i)
        PROVE  Goal
    <3> DEFINE r == [Fresh(op, asked[i].user, asked[i].user) EXCEPT !.req = i]
    <3>1. Known(r)
      BY DEF Known, Fresh
    <3>2. Goto(h, r)
      BY <2>6 DEF BeginDecide, Begin
    <3> HIDE DEF r
    <3> QED BY <3>1, <3>2, KnownKept
  <2>7. "MEMBER" \in Role
    BY DEF Role
  <2> QED
    BY <1>3, <2>1, <2>2, <2>3, <2>4, <2>5, <2>6, <2>7 DEF Start, DefaultRole
<1>4. ASSUME NEW h \in Handlers, Step(h) PROVE Goal
  <2> DEFINE r == handler[h]
  <2>1. ASSUME r.pc # "idle" PROVE r \in Handler /\ Known(r)
    BY <2>1, BusyType
  <2>2. CASE DeleteMember(h) \/ SetRole(h) \/ Transfer(h) \/ DeleteGroup(h) \/ Ask(h)
             \/ Admit(h) \/ Reject(h)
    BY <2>2, <1>2 DEF DeleteMember, SetRole, Transfer, DeleteGroup, Ask, Admit, Reject
  <2>3. CASE ReadMember(h)
    <3> DEFINE s == [r EXCEPT !.pc = "write", !.row = member[r.target]]
    <3>1. r \in Handler /\ Known(r)
      BY <2>1, <2>3 DEF ReadMember
    <3>2. ASSUME member[r.target].role # "OWNER" PROVE Known(s)
      BY <2>3, <3>1, <3>2 DEF Known, Handler, ReadMember
    <3>3. Done(h) \/ (Goto(h, s) /\ member[r.target].role # "OWNER")
      BY <2>3 DEF ReadMember
    <3> HIDE DEF s
    <3> QED BY <3>2, <3>3, <1>2, KnownKept
  <2>4. CASE ReadNewOwner(h)
    <3> DEFINE s == [r EXCEPT !.pc = "write", !.other = member[r.target]]
    <3>1. r \in Handler /\ Known(r)
      BY <2>1, <2>4 DEF ReadNewOwner
    <3>2. ASSUME member[r.target].id # 0 PROVE Known(s)
      BY <2>4, <3>1, <3>2 DEF Known, Handler, ReadNewOwner
    <3>3. Done(h) \/ (Goto(h, s) /\ member[r.target].id # 0)
      BY <2>4 DEF ReadNewOwner, IsMember
    <3> HIDE DEF s
    <3> QED BY <3>2, <3>3, <1>2, KnownKept
  <2>5. CASE FindInvite(h)
    <3>1. r \in Handler /\ r.op = "join"
      BY <2>1, <2>5 DEF FindInvite
    <3>2. \A i : Known([r EXCEPT !.pc = "admit", !.req = i, !.seen = {i}])
      BY <3>1 DEF Known, Handler
    <3>3. Known([r EXCEPT !.pc = "pending"])
      BY <3>1 DEF Known, Handler
    <3> QED BY <2>5, <3>2, <3>3, KnownKept DEF FindInvite
  <2>6. CASE FindPending(h)
    <3> DEFINE s == [r EXCEPT !.pc = "write"]
    <3>1. r \in Handler /\ Known(r) /\ r.pc = "pending"
      BY <2>1, <2>6 DEF FindPending
    <3>2. Known(s)
      BY <3>1 DEF Known, Handler
    <3>3. Done(h) \/ Goto(h, s)
      BY <2>6 DEF FindPending
    <3> HIDE DEF s
    <3> QED BY <3>2, <3>3, <1>2, KnownKept
  <2>7. CASE ReadRequest(h)
    <3>1. r \in Handler /\ r.op \in {"accept", "reject"}
      BY <2>1, <2>7 DEF ReadRequest
    <3>2. \A pc \in {"admit", "write"} : \A seen : Known([r EXCEPT !.pc = pc, !.seen = seen])
      BY <3>1 DEF Known, Handler
    <3>3. \/ Done(h)
          \/ \E pc \in {"admit", "write"} : \E seen : Goto(h, [r EXCEPT !.pc = pc, !.seen = seen])
      BY <2>7 DEF ReadRequest
    <3> QED BY <3>2, <3>3, <1>2, KnownKept
  <2> QED BY <1>4, <2>2, <2>3, <2>4, <2>5, <2>6, <2>7 DEF Step
<1>5. CASE UNCHANGED vars
  BY <1>5, <1>1 DEF vars
<1> QED
  BY <1>1, <1>3, <1>4, <1>5 DEF Next, CreateGroup, Invite, PurgeAccount

\* The inductive invariant of the owner holds throughout.
LEMMA OwnerInvHolds == Spec => []OwnerInv
<1>1. Init => OwnerInv
  BY InitType DEF Init, OwnerInv, OneOwner, NoRow, Idle
<1>2. OwnerInv /\ [Next]_vars => OwnerInv'
  <2> SUFFICES ASSUME OwnerInv, [Next]_vars PROVE OwnerInv'
    OBVIOUS
  <2>1. TypeOK'
    BY TypeStep DEF OwnerInv
  <2>2. OneOwner'
    BY <2>1, OneOwnerStep
  <2>3. \A u \in Users : member'[u].id <= lastRow'
    BY RowIdStep DEF OwnerInv
  <2>4. \A h \in Handlers : handler'[h].pc # "idle" => Known(handler'[h])
    BY KnownStep DEF OwnerInv
  <2> QED BY <2>1, <2>2, <2>3, <2>4 DEF OwnerInv, Known
<1> QED BY <1>1, <1>2, PTL DEF Spec

\* A group has exactly one owner for as long as no write went through on grounds
\* that had changed and the owner's account is not deleted (leave,
\* updateMemberRole, removeMember, transferOwnership, acceptJoinRequest).
THEOREM OneOwnerHolds == Spec => []OneOwner
<1>1. OwnerInv => OneOwner
  BY DEF OwnerInv
<1> QED BY <1>1, OwnerInvHolds, PTL

-----------------------------------------------------------------------------
(* Requests to join.                                                        *)

\* What a handler that is about to write has seen of the requests that wait.
Decides(r) ==
  /\ r.pc = "pending" => r.op = "join"
  /\ r.op = "join" /\ r.pc \in {"check", "pending", "write"} => r.seen = {}
  /\ r.pc = "admit" => r.seen = {r.req}
  /\ r.pc = "write" /\ r.op = "reject" => r.seen = {r.req}

\* The requests of a user: one waits at most, and none for a member.
Orderly(u) ==
  /\ \A i, j \in PendingOf(u) : i = j
  /\ IsMember(u) => PendingOf(u) = {}

\* PendingIsOutside and AskedOnce need each other: who is admitted has no second request
\* that waits.  And they need what a handler has seen before it writes, and that requests
\* go with the group.
RequestInv ==
  /\ TypeOK
  /\ ~exists => asked = <<>>
  /\ \A h \in Handlers : handler[h].pc # "idle" => Decides(handler[h])
  /\ ~stale => \A u \in Users : Orderly(u)

\* A handler that moves on has seen what it must, and the others what they had.
LEMMA DecidesKept ==
  ASSUME TypeOK, \A g \in Handlers : handler[g].pc # "idle" => Decides(handler[g]),
         NEW h \in Handlers, NEW r, Goto(h, r), r.pc # "idle" => Decides(r)
  PROVE  \A g \in Handlers : handler'[g].pc # "idle" => Decides(handler'[g])
  BY DEF Goto, TypeOK

\* Every step leaves every handler with what it must have seen.
LEMMA DecidesStep ==
  ASSUME TypeOK, \A g \in Handlers : handler[g].pc # "idle" => Decides(handler[g]),
         [Next]_vars
  PROVE  \A g \in Handlers : handler'[g].pc # "idle" => Decides(handler'[g])
<1> DEFINE Goal == \A g \in Handlers : handler'[g].pc # "idle" => Decides(handler'[g])
<1> USE GroupAssumption
<1>1. CASE UNCHANGED handler
  BY <1>1
<1>2. ASSUME NEW h \in Handlers, Done(h) PROVE Goal
  BY <1>2, DecidesKept DEF Done, Goto, Idle
<1>3. ASSUME NEW h \in Handlers, Start(h) PROVE Goal
  <2> DEFINE r == handler'[h]
  <2>1. ASSUME NEW u \in Users, BeginLeave(h, u) \/ BeginJoin(h, u) \/ BeginDelete(h, u)
        PROVE  Decides(r)
    <3>1. CASE BeginLeave(h, u)
      BY <3>1 DEF TypeOK, Begin, Goto, BeginLeave, Fresh, Decides
    <3>2. CASE BeginJoin(h, u)
      BY <3>2 DEF TypeOK, Begin, Goto, BeginJoin, Fresh, Decides
    <3>3. CASE BeginDelete(h, u)
      BY <3>3 DEF TypeOK, Begin, Goto, BeginDelete, Fresh, Decides
    <3> QED BY <2>1, <3>1, <3>2, <3>3
  <2>2. ASSUME NEW u \in Users, NEW v \in Users, BeginTransfer(h, u, v) PROVE Decides(r)
    BY <2>2 DEF TypeOK, Begin, Goto, BeginTransfer, Fresh, Decides
  <2>3. ASSUME NEW op \in {"setRole", "remove"}, NEW u \in Users, NEW v \in Users, NEW role,
               BeginManage(h, op, u, v, role)
        PROVE  Decides(r)
    BY <2>3 DEF TypeOK, Begin, Goto, BeginManage, Fresh, Decides
  <2>4. ASSUME NEW op \in {"accept", "reject"}, NEW u \in Users, NEW i \in DOMAIN asked,
               BeginDecide(h, op, u, i)
        PROVE  Decides(r)
    BY <2>4 DEF TypeOK, Begin, Goto, BeginDecide, Fresh, Decides
  <2>5. Goto(h, r)
    BY <1>3 DEF Start, Begin, BeginLeave, BeginJoin, BeginDelete, BeginTransfer,
                BeginManage, BeginDecide, Goto, TypeOK
  <2>6. Decides(r)
    BY <1>3, <2>1, <2>2, <2>3, <2>4 DEF Start
  <2> HIDE DEF r
  <2> QED BY <2>5, <2>6, DecidesKept
<1>4. ASSUME NEW h \in Handlers, Step(h) PROVE Goal
  <2> DEFINE r == handler[h]
  <2>1. ASSUME r.pc # "idle" PROVE r \in Handler /\ Decides(r)
    BY <2>1, BusyType
  <2>2. CASE DeleteMember(h) \/ SetRole(h) \/ Transfer(h) \/ DeleteGroup(h) \/ Ask(h)
             \/ Admit(h) \/ Reject(h)
    BY <2>2, <1>2 DEF DeleteMember, SetRole, Transfer, DeleteGroup, Ask, Admit, Reject
  <2>3. CASE ReadMember(h)
    <3> DEFINE s == [r EXCEPT !.pc = "write", !.row = member[r.target]]
    <3>1. Decides(s)
      BY <2>1, <2>3 DEF Decides, Handler, ReadMember
    <3>2. Done(h) \/ Goto(h, s)
      BY <2>3 DEF ReadMember
    <3> HIDE DEF s
    <3> QED BY <3>1, <3>2, <1>2, DecidesKept
  <2>4. CASE ReadNewOwner(h)
    <3> DEFINE s == [r EXCEPT !.pc = "write", !.other = member[r.target]]
    <3>1. Decides(s)
      BY <2>1, <2>4 DEF Decides, Handler, ReadNewOwner
    <3>2. Done(h) \/ Goto(h, s)
      BY <2>4 DEF ReadNewOwner
    <3> HIDE DEF s
    <3> QED BY <3>1, <3>2, <1>2, DecidesKept
  <2>5. CASE FindInvite(h)
    <3>1. r \in Handler /\ Decides(r) /\ r.op = "join" /\ r.pc = "check"
      BY <2>1, <2>5 DEF FindInvite
    <3>2. \A i : Decides([r EXCEPT !.pc = "admit", !.req = i, !.seen = {i}])
      BY <3>1 DEF Decides, Handler
    <3>3. Decides([r EXCEPT !.pc = "pending"])
      BY <3>1 DEF Decides, Handler
    <3> QED BY <2>5, <3>2, <3>3, DecidesKept DEF FindInvite
  <2>6. CASE FindPending(h)
    <3> DEFINE s == [r EXCEPT !.pc = "write"]
    <3>1. r \in Handler /\ Decides(r) /\ r.pc = "pending"
      BY <2>1, <2>6 DEF FindPending
    <3>2. Decides(s)
      BY <3>1 DEF Decides, Handler
    <3>3. Done(h) \/ Goto(h, s)
      BY <2>6 DEF FindPending
    <3> HIDE DEF s
    <3> QED BY <3>2, <3>3, <1>2, DecidesKept
  <2>7. CASE ReadRequest(h)
    <3> DEFINE q == asked[r.req]
               s == [r EXCEPT !.pc = IF r.op = "accept" THEN "admit" ELSE "write",
                              !.seen = {r.req} \cap PendingOf(q.user)]
    <3>1. r \in Handler /\ r.op \in {"accept", "reject"}
      BY <2>1, <2>7 DEF ReadRequest
    <3>2. ASSUME r.req \in DOMAIN asked, q.status = "PENDING" PROVE Decides(s)
      <4>1. r.req \in PendingOf(q.user)
        BY <3>2 DEF PendingOf
      <4> QED BY <3>1, <4>1 DEF Decides, Handler
    <3>3. Done(h) \/ (Goto(h, s) /\ r.req \in DOMAIN asked /\ q.status = "PENDING")
      BY <2>7 DEF ReadRequest
    <3> HIDE DEF s
    <3> QED BY <3>2, <3>3, <1>2, DecidesKept
  <2> QED BY <1>4, <2>2, <2>3, <2>4, <2>5, <2>6, <2>7 DEF Step
<1>5. CASE UNCHANGED vars
  BY <1>5, <1>1 DEF vars
<1> QED
  BY <1>1, <1>3, <1>4, <1>5 DEF Next, CreateGroup, Invite, PurgeAccount

\* What waits for a user when a request is added.
LEMMA AskedPending ==
  ASSUME TypeOK, NEW u \in Users, NEW q \in JoinRequest, q.status = "PENDING",
         asked' = Append(asked, q)
  PROVE  PendingOf(u)' = IF u = q.user THEN PendingOf(u) \cup {Len(asked) + 1} ELSE PendingOf(u)
<1>1. /\ DOMAIN asked = 1..Len(asked) /\ Len(asked) \in Nat
      /\ DOMAIN asked' = 1..(Len(asked) + 1)
      /\ \A i \in 1..Len(asked) : asked'[i] = asked[i]
      /\ asked'[Len(asked) + 1] = q
  BY DEF TypeOK
<1> QED BY <1>1 DEF PendingOf

\* What waits for a user when a request is decided.
LEMMA DecidedPending ==
  ASSUME TypeOK, NEW u \in Users, NEW i \in DOMAIN asked, NEW s \in {"ACCEPTED", "REJECTED"},
         asked' = [asked EXCEPT ![i].status = s]
  PROVE  PendingOf(u)' = PendingOf(u) \ {i}
<1>1. /\ DOMAIN asked' = DOMAIN asked
      /\ \A j \in DOMAIN asked : /\ asked'[j].user = asked[j].user
                                 /\ asked'[j].status = IF j = i THEN s ELSE asked[j].status
  <2>1. \A j \in DOMAIN asked : asked[j] \in JoinRequest
    BY DEF TypeOK
  <2> QED BY <2>1 DEF JoinRequest
<1> QED BY <1>1 DEF PendingOf


\* A write on changed grounds is not taken back, and no request is left without a group.
LEMMA GroupGoesWithRequests ==
  ASSUME TypeOK, ~exists => asked = <<>>, [Next]_vars
  PROVE  /\ stale => stale'
         /\ ~exists' => asked' = <<>>
<1> DEFINE Goal == (stale => stale') /\ (~exists' => asked' = <<>>)
<1>0. ~exists => DOMAIN asked = {}
  OBVIOUS
<1>1. CASE UNCHANGED <<exists, asked, stale>>
  BY <1>1
<1>2. ASSUME NEW u \in Users, CreateGroup(u) \/ Invite(u) \/ PurgeAccount(u) PROVE Goal
  BY <1>2 DEF CreateGroup, Invite, PurgeAccount
<1>3. ASSUME NEW h \in Handlers, Start(h) PROVE Goal
  BY <1>3, <1>1 DEF Start, Begin, BeginLeave, BeginJoin, BeginDelete, BeginTransfer,
                    BeginManage, BeginDecide, Unchanged
<1>4. ASSUME NEW h \in Handlers, Step(h) PROVE Goal
  <2>1. CASE ReadMember(h) \/ ReadNewOwner(h) \/ FindInvite(h) \/ FindPending(h)
             \/ ReadRequest(h)
    BY <2>1, <1>1 DEF ReadMember, ReadNewOwner, FindInvite, FindPending, ReadRequest,
                      Unchanged
  <2>2. CASE DeleteMember(h) \/ SetRole(h) \/ Transfer(h)
    BY <2>2 DEF DeleteMember, SetRole, Transfer, Note
  <2>3. CASE DeleteGroup(h)
    BY <2>3 DEF DeleteGroup
  <2>4. CASE Ask(h)
    BY <2>4 DEF Ask, Note
  <2>5. CASE Admit(h)
    BY <2>5, <1>0 DEF Admit, Note
  <2>6. CASE Reject(h)
    BY <2>6, <1>0 DEF Reject, Note
  <2> QED BY <1>4, <2>1, <2>2, <2>3, <2>4, <2>5, <2>6 DEF Step
<1>5. CASE UNCHANGED vars
  BY <1>5, <1>1 DEF vars
<1> QED BY <1>2, <1>3, <1>4, <1>5 DEF Next

\* A step that adds no request that waits and no member keeps the requests in order.
LEMMA OrderKept ==
  ASSUME NEW u \in Users, Orderly(u), PendingOf(u)' \subseteq PendingOf(u),
         IsMember(u)' => IsMember(u)
  PROVE  Orderly(u)'
  BY DEF Orderly

\* Every step keeps the requests in order, unless it goes through on changed grounds.
LEMMA OrderStep ==
  ASSUME RequestInv, [Next]_vars, ~stale', NEW u \in Users
  PROVE  Orderly(u)'
<1> USE GroupAssumption
<1>0. TypeOK /\ ~stale
  BY GroupGoesWithRequests DEF RequestInv
<1>1. Orderly(u)
  BY <1>0 DEF RequestInv
<1>2. ASSUME UNCHANGED asked, member'[u].id # 0 => member[u].id # 0 PROVE Orderly(u)'
  BY <1>1, <1>2, OrderKept DEF PendingOf, IsMember
<1>3. ASSUME NEW v \in Users, CreateGroup(v) PROVE Orderly(u)'
  <2>1. asked' = <<>>
    BY <1>3 DEF RequestInv, CreateGroup
  <2> QED BY <2>1 DEF Orderly, PendingOf
<1>4. ASSUME NEW v \in Users, Invite(v) PROVE Orderly(u)'
  <2> DEFINE q == [user |-> v, type |-> "INVITE", status |-> "PENDING"]
  <2>1. q \in JoinRequest /\ q.status = "PENDING" /\ q.user = v
    BY DEF JoinRequest
  <2>2. asked' = Append(asked, q) /\ PendingOf(v) = {} /\ ~IsMember(v) /\ UNCHANGED member
    BY <1>4 DEF Invite
  <2> HIDE DEF q
  <2>3. PendingOf(u)' = IF u = v THEN PendingOf(u) \cup {Len(asked) + 1} ELSE PendingOf(u)
    BY <2>1, <2>2, <1>0, AskedPending
  <2> QED BY <2>2, <2>3, <1>1 DEF Orderly, IsMember
<1>5. ASSUME NEW v \in Users, PurgeAccount(v) PROVE Orderly(u)'
  BY <1>5, <1>2, <1>0 DEF PurgeAccount, NoRow, TypeOK
<1>6. ASSUME NEW h \in Handlers, Start(h) PROVE Orderly(u)'
  BY <1>6, <1>2 DEF Start, Begin, BeginLeave, BeginJoin, BeginDelete, BeginTransfer,
                    BeginManage, BeginDecide, Unchanged
<1>7. ASSUME NEW h \in Handlers, Step(h) PROVE Orderly(u)'
  <2> DEFINE r == handler[h]
  <2>1. ASSUME r.pc # "idle"
        PROVE  r \in Handler /\ Decides(r) /\ r.target \in Users /\ r.actor \in Users
    <3>1. r \in Handler
      BY <2>1, <1>0, BusyType
    <3> QED BY <2>1, <3>1 DEF RequestInv, Handler
  <2>2. CASE ReadMember(h) \/ ReadNewOwner(h) \/ FindInvite(h) \/ FindPending(h)
             \/ ReadRequest(h)
    BY <2>2, <1>2 DEF ReadMember, ReadNewOwner, FindInvite, FindPending, ReadRequest,
                      Unchanged
  <2>3. CASE DeleteMember(h)
    BY <2>3, <2>1, <1>2, <1>0 DEF DeleteMember, NoRow, TypeOK
  <2>4. CASE SetRole(h)
    <3>1. member'[u].id = member[u].id
      BY <2>4, <2>1, <1>0 DEF SetRole, TypeOK, Row
    <3> QED BY <3>1, <2>4, <1>2 DEF SetRole
  <2>5. CASE Transfer(h)
    <3>1. CASE UNCHANGED member
      BY <3>1, <2>5, <1>2 DEF Transfer
    <3>2. CASE member' = [member EXCEPT ![r.actor].role = DefaultRole,
                                        ![r.target].role = "OWNER"]
      <4>1. member'[u].id = member[u].id
        BY <3>2, <2>5, <2>1, <1>0 DEF Transfer, TypeOK, Row
      <4> QED BY <4>1, <2>5, <1>2 DEF Transfer
    <3> QED BY <3>1, <3>2, <2>5 DEF Transfer
  <2>6. CASE DeleteGroup(h)
    <3>1. CASE exists
      BY <3>1, <2>6 DEF DeleteGroup, Orderly, PendingOf
    <3>2. CASE ~exists
      BY <3>2, <2>6, <1>2 DEF DeleteGroup
    <3> QED BY <3>1, <3>2
  <2>7. CASE Ask(h)
    <3> DEFINE q == [user |-> r.actor, type |-> "REQUEST", status |-> "PENDING"]
    <3>1. CASE ~exists
      BY <3>1, <2>7, <1>2 DEF Ask
    <3>2. CASE exists
      <4>1. r.actor \in Users /\ r.seen = {}
        BY <2>7, <2>1 DEF Ask, Decides
      <4>2. q \in JoinRequest /\ q.status = "PENDING" /\ q.user = r.actor
        BY <4>1 DEF JoinRequest
      <4>3. asked' = Append(asked, q) /\ UNCHANGED member
            /\ ~IsMember(r.actor) /\ PendingOf(r.actor) = {}
        BY <3>2, <2>7, <4>1 DEF Ask, Note
      <4> HIDE DEF q
      <4>4. PendingOf(u)' = IF u = r.actor THEN PendingOf(u) \cup {Len(asked) + 1}
                            ELSE PendingOf(u)
        BY <4>2, <4>3, <1>0, AskedPending
      <4> QED BY <4>3, <4>4, <1>1 DEF Orderly, IsMember
    <3> QED BY <3>1, <3>2
  <2>8. CASE Admit(h)
    <3>1. CASE UNCHANGED <<asked, member>>
      BY <3>1, <1>2
    <3>2. CASE ~UNCHANGED <<asked, member>>
      <4>1. /\ r.req \in DOMAIN asked
            /\ asked' = [asked EXCEPT ![r.req].status = "ACCEPTED"]
            /\ NewRow(r.target, DefaultRole)
            /\ {r.req} = {r.req} \cap PendingOf(r.target)
        BY <3>2, <2>8, <2>1 DEF Admit, Note, Decides
      <4>2. PendingOf(u)' = PendingOf(u) \ {r.req}
        BY <4>1, <1>0, DecidedPending
      <4>3. CASE u = r.target
        BY <4>1, <4>2, <4>3, <1>1 DEF Orderly
      <4>4. CASE u # r.target
        BY <4>1, <4>2, <4>4, <1>1, <1>0 DEF Orderly, NewRow, IsMember, TypeOK
      <4> QED BY <4>3, <4>4
    <3> QED BY <3>1, <3>2
  <2>9. CASE Reject(h)
    <3>1. CASE UNCHANGED asked
      BY <3>1, <2>9, <1>2 DEF Reject
    <3>2. CASE r.req \in DOMAIN asked /\ asked' = [asked EXCEPT ![r.req].status = "REJECTED"]
      BY <3>2, <2>9, <1>0, <1>1, DecidedPending, OrderKept DEF Reject, IsMember
    <3> QED BY <3>1, <3>2, <2>9 DEF Reject
  <2> QED
    BY <1>7, <2>2, <2>3, <2>4, <2>5, <2>6, <2>7, <2>8, <2>9 DEF Step
<1>8. CASE UNCHANGED vars
  BY <1>8, <1>2 DEF vars
<1> QED BY <1>3, <1>4, <1>5, <1>6, <1>7, <1>8 DEF Next

\* Every step keeps RequestInv.
LEMMA RequestInvStep == RequestInv /\ [Next]_vars => RequestInv'
<1> SUFFICES ASSUME RequestInv, [Next]_vars PROVE RequestInv'
  OBVIOUS
<1>1. TypeOK'
  BY TypeStep DEF RequestInv
<1>2. ~exists' => asked' = <<>>
  BY GroupGoesWithRequests DEF RequestInv
<1>3. \A h \in Handlers : handler'[h].pc # "idle" => Decides(handler'[h])
  BY DecidesStep DEF RequestInv
<1>4. ~stale' => \A u \in Users : Orderly(u)'
  BY OrderStep
<1> QED BY <1>1, <1>2, <1>3, <1>4 DEF RequestInv, Decides

\* The inductive invariant of the requests holds throughout.
LEMMA RequestInvHolds == Spec => []RequestInv
<1>1. Init => RequestInv
  BY InitType DEF Init, RequestInv, Orderly, PendingOf, Idle
<1> QED BY <1>1, RequestInvStep, PTL DEF Spec

\* A member has no request that waits, for as long as no write went through on grounds
\* that had changed: who is admitted leaves no request behind (joinByInviteCode,
\* acceptJoinRequest).
THEOREM PendingIsOutsideHolds == Spec => []PendingIsOutside
<1>1. RequestInv => PendingIsOutside
  BY DEF RequestInv, Orderly, PendingIsOutside
<1> QED BY <1>1, RequestInvHolds, PTL

\* A user has one request that waits at most, under the same premise
\* (pending_join_request of joinByInviteCode).
THEOREM AskedOnceHolds == Spec => []AskedOnce
<1>1. ASSUME RequestInv PROVE AskedOnce
  <2> SUFFICES ASSUME ~stale, NEW u \in Users PROVE Cardinality(PendingOf(u)) <= 1
    BY DEF AskedOnce
  <2>1. \A i, j \in PendingOf(u) : i = j
    BY <1>1 DEF RequestInv, Orderly
  <2>2. CASE PendingOf(u) = {}
    BY <2>2, FS_EmptySet
  <2>3. ASSUME NEW i \in PendingOf(u) PROVE Cardinality(PendingOf(u)) <= 1
    <3>1. PendingOf(u) = {i}
      BY <2>1, <2>3
    <3>2. Cardinality({i}) = 1
      BY FS_Singleton
    <3> QED BY <3>1, <3>2
  <2> QED BY <2>2, <2>3
<1> QED BY <1>1, RequestInvHolds, PTL

-----------------------------------------------------------------------------
(* Requests act at once: GroupMembership implements GroupPolicy.            *)

\* The refinement mapping: the role of every user, and the requests without their type.
RoleOf == [u \in Users |-> IF IsMember(u) THEN member[u].role ELSE "NONE"]
Decided == [i \in DOMAIN asked |-> [user |-> asked[i].user, status |-> asked[i].status]]

\* What the policy sees of the member rows.
LEMMA RoleMapped ==
  ASSUME TypeOK, NEW u \in Users
  PROVE  /\ RoleOf[u] = "NONE" <=> ~IsMember(u)
         /\ IsMember(u) => RoleOf[u] = member[u].role
  BY DEF TypeOK, RoleOf, Row, Role

\* A step that changes nothing the policy sees.
LEMMA Hidden ==
  ASSUME UNCHANGED <<asked, stale>>,
         \A u \in Users : /\ IsMember(u)' <=> IsMember(u)
                          /\ IsMember(u) => member'[u].role = member[u].role
  PROVE  UNCHANGED Policy!vars
  BY DEF Policy!vars, IsMember

\* A step on changed grounds: the policy promises nothing.
LEMMA Disturbed == ASSUME stale' PROVE Policy!Next
  BY DEF Policy!Next

\* A step on unchanged grounds that the policy has.
LEMMA Promises ==
  ASSUME ~stale'
  PROVE  /\ \A u \in Users : Policy!Found(u) \/ Policy!Leave(u) \/ Policy!Vanish(u) => Policy!Next
         /\ \A u \in Users, role \in Role : Policy!SetRole(u, role) => Policy!Next
         /\ \A u, v \in Users : Policy!Transfer(u, v) => Policy!Next
         /\ \A i \in DOMAIN Decided : Policy!Accept(i) \/ Policy!Reject(i) => Policy!Next
         /\ Policy!Dissolve => Policy!Next
  BY DEF Policy!Next, Policy!Promised, Decided

\* A handler that writes, and leaves stale as it is, writes on grounds that hold.
LEMMA Grounded ==
  ASSUME TypeOK, ~stale', NEW grounds, Note(grounds)
  PROVE  grounds /\ UNCHANGED stale
<1>1. ~stale /\ grounds
  BY Zenon DEF Note
<1>2. stale \in BOOLEAN /\ stale' = FALSE
  BY <1>1, Zenon DEF TypeOK, Note
<1> QED BY <1>1, <1>2, Zenon

\* A request that comes to wait, of a user who is no member and has none that waits.
LEMMA AskMapped ==
  ASSUME TypeOK, ~stale', UNCHANGED member, NEW u \in Users, ~IsMember(u), PendingOf(u) = {},
         NEW q \in JoinRequest, q.user = u, q.status = "PENDING", asked' = Append(asked, q)
  PROVE  Policy!Next
<1>1. /\ DOMAIN asked = 1..Len(asked) /\ Len(asked) \in Nat
      /\ DOMAIN asked' = 1..(Len(asked) + 1)
      /\ \A i \in 1..Len(asked) : asked'[i] = asked[i]
      /\ asked'[Len(asked) + 1] = q
  BY DEF TypeOK
<1>2. Decided' = Append(Decided, [user |-> u, status |-> "PENDING"])
  BY <1>1 DEF Decided
<1>3. ~\E i \in DOMAIN Decided : Decided[i] = [user |-> u, status |-> "PENDING"]
  BY DEF Decided, PendingOf
<1>4. RoleOf[u] = "NONE" /\ RoleOf' = RoleOf
  BY RoleMapped DEF RoleOf, IsMember
<1>5. Policy!Ask(u)
  BY <1>2, <1>3, <1>4 DEF Policy!Ask, Policy!IsIn, Policy!Waiting, Decided, RoleOf
<1> QED BY <1>5 DEF Policy!Next, Policy!Promised

\* A request that is decided.
LEMMA DecideMapped ==
  ASSUME TypeOK, NEW i \in DOMAIN asked, NEW st, asked' = [asked EXCEPT ![i].status = st]
  PROVE  Decided' = [Decided EXCEPT ![i].status = st]
<1>1. \A j \in DOMAIN asked : asked[j] \in JoinRequest
  BY DEF TypeOK
<1>2. /\ DOMAIN asked' = DOMAIN asked
      /\ \A j \in DOMAIN asked : /\ asked'[j].user = asked[j].user
                                 /\ asked'[j].status = IF j = i THEN st ELSE asked[j].status
  BY <1>1 DEF JoinRequest
<1> QED BY <1>2 DEF Decided

\* Every step of a request is a step of the policy or hidden from it.
LEMMA StepMapped ==
  ASSUME OwnerInv, RequestInv, NEW h \in Handlers, Step(h)
  PROVE  [Policy!Next]_Policy!vars
<1> USE GroupAssumption
<1> DEFINE r == handler[h]
           Goal == [Policy!Next]_Policy!vars
<1>0. TypeOK
  BY DEF OwnerInv
<1>1. ASSUME r.pc # "idle"
      PROVE  /\ r \in Handler /\ Known(r) /\ Decides(r)
             /\ r.target \in Users /\ r.actor \in Users
  <2>1. r \in Handler
    BY <1>1, <1>0, BusyType
  <2> QED BY <1>1, <2>1 DEF OwnerInv, RequestInv, Handler
<1>2. CASE UNCHANGED <<member, asked, stale>>
  BY <1>2, Hidden DEF IsMember
<1>3. CASE stale'
  BY <1>3, Disturbed
<1>4. CASE ReadMember(h) \/ ReadNewOwner(h) \/ FindInvite(h) \/ FindPending(h)
           \/ ReadRequest(h)
  BY <1>4, <1>2 DEF ReadMember, ReadNewOwner, FindInvite, FindPending, ReadRequest, Unchanged
<1>5. CASE DeleteMember(h) /\ ~stale'
  <2>1. PICK u \in Users : u = r.target
    BY <1>1, <1>5 DEF DeleteMember
  <2>2. CASE UNCHANGED <<member, stale>>
    BY <2>2, <1>2, <1>5 DEF DeleteMember
  <2>3. CASE member' = [member EXCEPT ![u] = NoRow] /\ Note(member[u] = r.row)
    <3>1. member[u] = r.row /\ UNCHANGED <<asked, stale>>
      BY <2>3, <1>0, <1>5, Grounded DEF DeleteMember
    <3>2. member[u].role # "OWNER"
      BY <3>1, <1>1, <1>5 DEF DeleteMember, Known
    <3>3. CASE IsMember(u)
      <4>1. RoleOf[u] # "NONE" /\ RoleOf[u] # "OWNER"
        BY <3>2, <3>3, <1>0, RoleMapped
      <4>2. RoleOf' = [RoleOf EXCEPT ![u] = "NONE"]
        BY <2>3, <1>0 DEF RoleOf, IsMember, NoRow, TypeOK
      <4>3. Policy!Leave(u)
        BY <4>1, <4>2, <3>1 DEF Policy!Leave, Policy!IsIn, RoleOf
      <4> QED BY <4>3, <1>5, Promises
    <3>4. CASE ~IsMember(u)
      <4>1. \A v \in Users : /\ IsMember(v)' <=> IsMember(v)
                             /\ IsMember(v) => member'[v].role = member[v].role
        BY <2>3, <3>4, <1>0 DEF IsMember, NoRow, TypeOK
      <4> QED BY <4>1, <3>1, Hidden
    <3> QED BY <3>3, <3>4
  <2> QED BY <2>1, <2>2, <2>3, <1>5 DEF DeleteMember
<1>6. CASE SetRole(h) /\ ~stale'
  <2>1. PICK u \in Users, role \in Role : u = r.target /\ role = r.role
    BY <1>1, <1>6 DEF SetRole, Handler
  <2>2. CASE UNCHANGED <<member, stale>>
    BY <2>2, <1>2, <1>6 DEF SetRole
  <2>3. CASE member' = [member EXCEPT ![u].role = role] /\ Note(member[u] = r.row)
    <3>1. member[u] = r.row /\ UNCHANGED <<asked, stale>>
      BY <2>3, <1>0, <1>6, Grounded DEF SetRole
    <3>2. member[u].role # "OWNER" /\ role # "OWNER"
      BY <2>1, <3>1, <1>1, <1>6 DEF SetRole, Known
    <3>3. /\ \A v \in Users : member'[v].id = member[v].id
          /\ \A v \in Users \ {u} : member'[v] = member[v]
          /\ member'[u].role = role
      BY <2>3, <1>0 DEF TypeOK, Row
    <3>4. CASE IsMember(u)
      <4>1. RoleOf[u] # "NONE" /\ RoleOf[u] # "OWNER"
        BY <3>2, <3>4, <1>0, RoleMapped
      <4>2. RoleOf' = [RoleOf EXCEPT ![u] = role]
        BY <3>3, <3>4 DEF RoleOf, IsMember
      <4>3. Policy!SetRole(u, role)
        BY <4>1, <4>2, <3>1, <3>2 DEF Policy!SetRole, Policy!IsIn, RoleOf
      <4> QED BY <4>3, <1>6, Promises
    <3>5. CASE ~IsMember(u)
      BY <3>1, <3>3, <3>5, Hidden DEF IsMember
    <3> QED BY <3>4, <3>5
  <2> QED BY <2>1, <2>2, <2>3, <1>6 DEF SetRole
<1>7. CASE Transfer(h) /\ ~stale'
  <2>1. PICK u \in Users, v \in Users : u = r.actor /\ v = r.target
    BY <1>1, <1>7 DEF Transfer
  <2>2. u # v /\ r.row.id # 0 /\ r.row.role = "OWNER" /\ r.other.id # 0
    BY <2>1, <1>1, <1>7 DEF Transfer, Known
  <2>3. CASE UNCHANGED <<member, stale>>
    BY <2>3, <1>2, <1>7 DEF Transfer
  <2>4. CASE /\ member' = [member EXCEPT ![u].role = DefaultRole, ![v].role = "OWNER"]
             /\ Note(member[u] = r.row /\ member[v] = r.other)
    <3>1. member[u] = r.row /\ member[v] = r.other /\ UNCHANGED <<asked, stale>>
      BY <2>4, <1>0, <1>7, Grounded DEF Transfer
    <3>2. IsMember(u) /\ IsMember(v) /\ RoleOf[u] = "OWNER" /\ RoleOf[v] # "NONE"
      BY <2>2, <3>1, <1>0, RoleMapped DEF IsMember
    <3>3. /\ \A w \in Users : member'[w].id = member[w].id
          /\ \A w \in Users \ {u, v} : member'[w] = member[w]
          /\ member'[u].role = DefaultRole /\ member'[v].role = "OWNER"
      BY <2>2, <2>4, <1>0 DEF TypeOK, Row
    <3>4. RoleOf' = [RoleOf EXCEPT ![u] = DefaultRole, ![v] = "OWNER"]
      BY <2>2, <3>2, <3>3 DEF RoleOf, IsMember
    <3>5. Policy!Transfer(u, v)
      BY <2>2, <3>1, <3>2, <3>4 DEF Policy!Transfer, Policy!IsIn, RoleOf
    <3> QED BY <3>5, <1>7, Promises
  <2> QED BY <2>1, <2>3, <2>4, <1>7 DEF Transfer
<1>8. CASE DeleteGroup(h) /\ ~stale'
  <2>1. CASE exists
    <3>1. RoleOf' = [u \in Users |-> "NONE"]
      BY <2>1, <1>8 DEF DeleteGroup, RoleOf, IsMember, NoRow
    <3>2. Decided' = <<>>
      BY <2>1, <1>8 DEF DeleteGroup, Decided
    <3>3. Policy!Dissolve
      BY <3>1, <3>2 DEF Policy!Dissolve, Policy!Nobody, RoleOf, Decided
    <3> QED BY <3>3, <1>8, Promises
  <2>2. CASE ~exists
    BY <2>2, <1>8, <1>2 DEF DeleteGroup
  <2> QED BY <2>1, <2>2
<1>9. CASE Ask(h) /\ ~stale'
  <2> DEFINE q == [user |-> r.actor, type |-> "REQUEST", status |-> "PENDING"]
  <2>1. CASE ~exists
    BY <2>1, <1>9, <1>2 DEF Ask
  <2>2. CASE exists
    <3>1. r.actor \in Users /\ r.seen = {}
      BY <1>9, <1>1 DEF Ask, Decides
    <3>2. q \in JoinRequest /\ q.status = "PENDING" /\ q.user = r.actor
      BY <3>1 DEF JoinRequest
    <3>3. asked' = Append(asked, q) /\ UNCHANGED member
          /\ ~IsMember(r.actor) /\ PendingOf(r.actor) = {}
      BY <2>2, <1>9, <3>1 DEF Ask, Note
    <3> HIDE DEF q, r
    <3> QED BY <3>1, <3>2, <3>3, <1>9, <1>0, AskMapped
  <2> QED BY <2>1, <2>2
<1>10. CASE Admit(h) /\ ~stale'
  <2>1. CASE UNCHANGED <<asked, member, stale>>
    BY <2>1, <1>2
  <2>2. CASE r.req \in DOMAIN asked /\ ~IsMember(r.target)
             /\ NewRow(r.target, DefaultRole)
             /\ asked' = [asked EXCEPT ![r.req].status = "ACCEPTED"]
             /\ Note(r.seen = {r.req} \cap PendingOf(r.target))
    <3>1. PICK u \in Users, i \in DOMAIN asked : u = r.target /\ i = r.req
      BY <2>2, <1>1, <1>10 DEF Admit
    <3>2. i \in PendingOf(u) /\ UNCHANGED stale
      <4>1. r.seen = {i} \cap PendingOf(u) /\ UNCHANGED stale
        BY <2>2, <3>1, <1>0, <1>10, Grounded
      <4> QED BY <4>1, <3>1, <1>1, <1>10 DEF Admit, Decides
    <3>3. Decided[i].user = u /\ Decided[i].status = "PENDING" /\ i \in DOMAIN Decided
      BY <3>2 DEF Decided, PendingOf
    <3>4. Decided' = [Decided EXCEPT ![i].status = "ACCEPTED"]
      BY <2>2, <3>1, <1>0, DecideMapped
    <3>5. RoleOf[u] = "NONE" /\ RoleOf' = [RoleOf EXCEPT ![u] = DefaultRole]
      <4>1. RoleOf[u] = "NONE"
        BY <2>2, <3>1, <1>0, RoleMapped
      <4>2. /\ member' = [member EXCEPT ![u] = [id |-> lastRow + 1, role |-> DefaultRole]]
            /\ lastRow + 1 # 0
        BY <2>2, <3>1, <1>0 DEF NewRow, TypeOK
      <4> QED BY <4>1, <4>2, <1>0 DEF RoleOf, IsMember, TypeOK
    <3>6. Policy!Accept(i)
      BY <3>3, <3>4, <3>5 DEF Policy!Accept, Policy!IsIn, RoleOf, Decided
    <3> QED BY <3>3, <3>6, <1>10, Promises
  <2> QED BY <2>1, <2>2, <1>10 DEF Admit
<1>11. CASE Reject(h) /\ ~stale'
  <2>1. CASE UNCHANGED <<asked, stale>>
    BY <2>1, <1>2, <1>11 DEF Reject
  <2>2. CASE r.req \in DOMAIN asked
             /\ asked' = [asked EXCEPT ![r.req].status = "REJECTED"]
             /\ Note(r.seen = {r.req} \cap PendingOf(r.target))
    <3>1. PICK i \in DOMAIN asked : i = r.req
      BY <2>2
    <3>2. asked[i].status = "PENDING"
      <4>1. r.seen = {i} \cap PendingOf(r.target)
        BY <2>2, <3>1, <1>0, <1>11, Grounded
      <4> QED BY <4>1, <3>1, <1>1, <1>11 DEF Reject, Decides, PendingOf
    <3>3. Decided[i].status = "PENDING" /\ i \in DOMAIN Decided
      BY <3>2 DEF Decided
    <3>4. Decided' = [Decided EXCEPT ![i].status = "REJECTED"]
      BY <2>2, <3>1, <1>0, DecideMapped
    <3>5. Policy!Reject(i)
      BY <3>3, <3>4, <1>11 DEF Policy!Reject, Decided, IsMember, Reject
    <3> QED BY <3>3, <3>5, <1>11, Promises
  <2> QED BY <2>1, <2>2, <1>11 DEF Reject
<1> QED
  BY <1>3, <1>4, <1>5, <1>6, <1>7, <1>8, <1>9, <1>10, <1>11 DEF Step

\* Every step is a step of the policy or hidden from it.
LEMMA NextMapped ==
  ASSUME OwnerInv, RequestInv, [Next]_vars
  PROVE  [Policy!Next]_Policy!vars
<1> USE GroupAssumption
<1>0. TypeOK
  BY DEF OwnerInv
<1>1. ASSUME NEW u \in Users, CreateGroup(u) PROVE Policy!Next
  <2>1. \A v \in Users : member[v].id = 0
    BY <1>1, <1>0 DEF OwnerInv, CreateGroup, TypeOK, Row
  <2>2. RoleOf = [v \in Users |-> "NONE"]
    BY <2>1 DEF RoleOf, IsMember
  <2>3. RoleOf' = [RoleOf EXCEPT ![u] = "OWNER"]
    <3>1. member' = [member EXCEPT ![u] = [id |-> lastRow + 1, role |-> "OWNER"]]
          /\ lastRow + 1 # 0
      BY <1>1, <1>0 DEF CreateGroup, NewRow, TypeOK
    <3> QED BY <3>1, <2>1, <1>0 DEF RoleOf, IsMember, TypeOK
  <2>4. Policy!Found(u)
    BY <1>1, <2>2, <2>3 DEF Policy!Found, Policy!Nobody, RoleOf, CreateGroup
  <2>5. CASE stale'
    BY <2>5, Disturbed
  <2> QED BY <2>4, <2>5 DEF Policy!Next, Policy!Promised
<1>2. ASSUME NEW u \in Users, Invite(u) PROVE Policy!Next
  <2> DEFINE q == [user |-> u, type |-> "INVITE", status |-> "PENDING"]
  <2>1. q \in JoinRequest /\ q.status = "PENDING" /\ q.user = u
    BY DEF JoinRequest
  <2>2. asked' = Append(asked, q) /\ PendingOf(u) = {} /\ ~IsMember(u) /\ UNCHANGED member
    BY <1>2 DEF Invite
  <2>3. CASE stale'
    BY <2>3, Disturbed
  <2> HIDE DEF q
  <2> QED BY <2>1, <2>2, <2>3, <1>0, AskMapped
<1>3. ASSUME NEW u \in Users, PurgeAccount(u) PROVE Policy!Next
  <2>1. RoleOf' = [RoleOf EXCEPT ![u] = "NONE"]
    BY <1>3, <1>0 DEF PurgeAccount, RoleOf, IsMember, NoRow, TypeOK
  <2>2. Policy!Vanish(u)
    BY <2>1, <1>3 DEF Policy!Vanish, RoleOf, PurgeAccount
  <2>3. CASE stale'
    BY <2>3, Disturbed
  <2> QED BY <2>2, <2>3 DEF Policy!Next, Policy!Promised
<1>4. ASSUME NEW h \in Handlers, Start(h) PROVE UNCHANGED Policy!vars
  <2>1. UNCHANGED <<member, asked, stale>>
    BY <1>4 DEF Start, Begin, BeginLeave, BeginJoin, BeginDelete, BeginTransfer,
                BeginManage, BeginDecide, Unchanged
  <2> QED BY <2>1, Hidden DEF IsMember
<1>5. CASE UNCHANGED vars
  BY <1>5, Hidden DEF vars, IsMember
<1> QED BY <1>1, <1>2, <1>3, <1>4, <1>5, StepMapped DEF Next

\* As long as no write goes through on grounds that have changed, each request has the
\* effect of one that is carried out at once: the owner neither leaves nor is removed, a
\* transfer passes the group on from its owner, and a request is decided once and makes a
\* member as it is accepted.
THEOREM ImplementsPolicy == Spec => RequestsActAtOnce
<1>1. Init => Policy!Init
  BY DEF Init, Policy!Init, Policy!Nobody, IsMember, NoRow
<1>2. OwnerInv /\ RequestInv /\ [Next]_vars => [Policy!Next]_Policy!vars
  BY NextMapped
<1> QED
  BY <1>1, <1>2, OwnerInvHolds, RequestInvHolds, PTL DEF Spec, RequestsActAtOnce, Policy!Spec

-----------------------------------------------------------------------------
(* Roles: the names and the default of a scope.                            *)

\* Of the rows of a scope: the names differ, one is the default at most, and but for the
\* row of an id none has a name, and none is the default.
NamesDiffer(rows, scope) ==
  \A i, j \in RoleIds : rows[i] # None /\ rows[j] # None /\ i # j
                        /\ rows[i].scope = scope /\ rows[j].scope = scope
                        => rows[i].name # rows[j].name
OneDefault(rows, scope) ==
  \A i, j \in RoleIds : rows[i] # None /\ rows[j] # None /\ i # j
                        /\ rows[i].scope = scope /\ rows[j].scope = scope
                        => rows[i].default = FALSE \/ rows[j].default = FALSE
NameFree(rows, scope, id, name) ==
  \A i \in RoleIds : rows[i] # None /\ rows[i].scope = scope /\ i # id => rows[i].name # name
NoDefault(rows, scope, id) ==
  \A i \in RoleIds : rows[i] # None /\ rows[i].scope = scope /\ i # id => rows[i].default = FALSE

\* Ids are given out in order, and a scope does not change.
RolesNumbered ==
  /\ \A i \in RoleIds : roles[i] # None => i <= used
  /\ \A h \in Handlers : request[h] # None /\ request[h].op = "update" =>
       /\ request[h].id <= used
       /\ roles[request[h].id] # None => roles[request[h].id].scope = request[h].scope

\* What holds whatever crosses, by the index and the foreign key.
RolesKept ==
  /\ NamesDiffer(roles, "group")
  /\ holder # None => roles[holder] # None

\* What a request has looked up is still so.
LookedUp(r) ==
  /\ r.op = "create" =>
       /\ r.stage # "name" => NameFree(roles, r.scope, 0, r.name)
       /\ r.stage = "write" /\ r.default = TRUE => NoDefault(roles, r.scope, 0)
  /\ r.op = "update" =>
       /\ roles[r.id] # None /\ roles[r.id].default = r.was
       /\ r.stage # "name" /\ r.name # Keep => NameFree(roles, r.scope, r.id, r.name)
       /\ r.stage = "write" /\ r.default = TRUE => NoDefault(roles, r.scope, r.id)
RolesLookedUp ==
  changed = FALSE =>
    /\ \A scope \in GroupRoles!Scopes : NamesDiffer(roles, scope) /\ OneDefault(roles, scope)
    /\ \A h \in Handlers : request[h] # None => LookedUp(request[h])

RoleInvariant == GroupRoles!TypeOK /\ RolesNumbered /\ RolesKept /\ RolesLookedUp

\* What a request of the roles holds.
LEMMA RoleRequestTypes ==
  ASSUME GroupRoles!TypeOK, NEW h \in Handlers, request[h] # None
  PROVE  /\ request[h] \in GroupRoles!Request
         /\ request[h].op = "create" =>
              /\ request[h].scope \in GroupRoles!Scopes /\ request[h].id = 0
              /\ request[h].name \in RoleNames /\ request[h].default \in BOOLEAN
         /\ request[h].op = "update" =>
              /\ request[h].scope \in GroupRoles!Scopes /\ request[h].id \in RoleIds
              /\ request[h].name \in RoleNames \cup {Keep}
              /\ request[h].default \in BOOLEAN \cup {Keep} /\ request[h].was \in BOOLEAN
         /\ request[h].op \in {"remove", "assign"} => request[h].id \in RoleIds
<1>1. request[h] \in GroupRoles!Request
  BY DEF GroupRoles!TypeOK
<1> QED BY <1>1 DEF GroupRoles!Request

LEMMA RoleRows ==
  ASSUME GroupRoles!TypeOK, NEW i \in RoleIds, roles[i] # None
  PROVE  /\ roles[i] \in GroupRoles!Row /\ roles[i].scope \in GroupRoles!Scopes
         /\ roles[i].name \in RoleNames \cup {"OWNER"} /\ roles[i].default \in BOOLEAN
<1>1. roles[i] \in GroupRoles!Row
  BY DEF GroupRoles!TypeOK
<1> QED BY <1>1 DEF GroupRoles!Row

\* A handler gets a request, or one of another stage, and nothing else changes.
LEMMA RoleRequestStep ==
  ASSUME GroupRoles!ConstantsAssumption, RoleInvariant, NEW h \in Handlers,
         NEW r \in GroupRoles!Request \cup {None}, request' = [request EXCEPT ![h] = r],
         r # None /\ r.op = "update" =>
           r.id <= used /\ (roles[r.id] # None => roles[r.id].scope = r.scope),
         changed = FALSE /\ r # None => LookedUp(r),
         requests' \in 0..RoleRequests, UNCHANGED <<roles, used, changed>>,
         holder' \in RoleIds \cup {None}, holder' # None => roles[holder'] # None
  PROVE  RoleInvariant'
<1>1. request \in [Handlers -> {None} \cup GroupRoles!Request]
  BY DEF RoleInvariant, GroupRoles!TypeOK
<1>2. request' \in [Handlers -> {None} \cup GroupRoles!Request]
  BY <1>1
<1>3. \A g \in Handlers : request'[g] = IF g = h THEN r ELSE request[g]
  BY <1>1
<1>4. GroupRoles!TypeOK'
  BY <1>2 DEF RoleInvariant, GroupRoles!TypeOK
<1>5. RolesNumbered'
  BY <1>3 DEF RoleInvariant, RolesNumbered
<1>6. RolesKept'
  BY DEF RoleInvariant, RolesKept, NamesDiffer
<1>7. RolesLookedUp'
  <2>1. \A q : LookedUp(q)' <=> LookedUp(q)
    BY DEF LookedUp, NameFree, NoDefault
  <2>2. changed = FALSE => \A g \in Handlers : request'[g] # None => LookedUp(request'[g])
    BY <1>3 DEF RoleInvariant, RolesLookedUp
  <2>3. changed = FALSE => \A g \in Handlers : request'[g] # None => LookedUp(request[g])'
    <3> SUFFICES ASSUME changed = FALSE, NEW g \in Handlers, request'[g] # None
                 PROVE  LookedUp(request[g])'
      OBVIOUS
    <3>1. PICK q : q = request'[g]
      OBVIOUS
    <3>2. LookedUp(q)
      BY <2>2, <3>1
    <3> QED BY <3>1, <3>2 DEF LookedUp, NameFree, NoDefault
  <2> QED BY <2>3 DEF RoleInvariant, RolesLookedUp, NamesDiffer, OneDefault
<1> QED BY <1>4, <1>5, <1>6, <1>7 DEF RoleInvariant

LEMMA RoleBegins ==
  ASSUME GroupRoles!ConstantsAssumption, RoleInvariant, NEW h, NEW r, GroupRoles!Begin(h, r)
  PROVE  requests' \in 0..RoleRequests /\ request' = [request EXCEPT ![h] = r]
<1>1. requests \in 0..RoleRequests /\ RoleRequests \in Nat
  BY DEF RoleInvariant, GroupRoles!TypeOK, GroupRoles!ConstantsAssumption
<1>2. requests < RoleRequests /\ requests' = requests + 1
  BY DEF GroupRoles!Begin
<1>3. requests' \in 0..RoleRequests
  BY <1>1, <1>2
<1> QED BY <1>3 DEF GroupRoles!Begin

\* A request comes in.
LEMMA RoleStartStep ==
  ASSUME GroupRoles!ConstantsAssumption, RoleInvariant, NEW h \in Handlers, GroupRoles!Start(h)
  PROVE  RoleInvariant'
<1>0. /\ holder \in RoleIds \cup {None} /\ used \in RoleIds /\ RoleIds \subseteq Nat \ {0}
      /\ holder # None => roles[holder] # None
  BY DEF RoleInvariant, GroupRoles!TypeOK, GroupRoles!ConstantsAssumption, RolesKept
<1>1. ASSUME NEW scope \in GroupRoles!Scopes, NEW name \in RoleNames, NEW default \in BOOLEAN,
             GroupRoles!Create(h, scope, name, default)
      PROVE  RoleInvariant'
  <2> DEFINE r == [op |-> "create", stage |-> "name", scope |-> scope, id |-> 0, name |-> name,
                   default |-> default]
  <2>1. GroupRoles!Begin(h, r) /\ UNCHANGED <<roles, holder, used, changed>>
    BY <1>1 DEF GroupRoles!Create
  <2>2. r \in GroupRoles!Request /\ r.op = "create" /\ r.stage = "name"
    BY DEF GroupRoles!Request
  <2> HIDE DEF r
  <2>3. LookedUp(r)
    BY <2>2 DEF LookedUp
  <2> QED BY <1>0, <2>1, <2>2, <2>3, RoleBegins, RoleRequestStep
<1>2. ASSUME NEW id \in RoleIds, id \in GroupRoles!Rows, NEW name \in RoleNames \cup {Keep},
             NEW default \in BOOLEAN \cup {Keep},
             GroupRoles!Update(h, roles[id].scope, id, name, default)
      PROVE  RoleInvariant'
  <2>0. roles[id] # None
    BY <1>2 DEF GroupRoles!Rows
  <2>1. PICK row : row = roles[id]
    OBVIOUS
  <2>2. /\ row.scope \in GroupRoles!Scopes /\ row.default \in BOOLEAN
    BY <2>0, <2>1, RoleRows DEF RoleInvariant
  <2> DEFINE stage == IF name # Keep /\ name # row.name THEN "name"
                      ELSE IF default = TRUE /\ ~row.default THEN "default" ELSE "write"
             r == [op |-> "update", scope |-> row.scope, id |-> id, name |-> name,
                   default |-> default, stage |-> stage, was |-> row.default]
  <2>3. GroupRoles!Begin(h, r) /\ UNCHANGED <<roles, holder, used, changed>>
    BY <1>2, <2>1 DEF GroupRoles!Update
  <2>4. stage \in {"name", "default", "write"}
    OBVIOUS
  <2>5. /\ stage # "name" => name = Keep \/ name = row.name
        /\ stage = "write" /\ default = TRUE => row.default = TRUE
    BY <2>2
  <2> HIDE DEF stage
  <2>6. /\ r \in GroupRoles!Request /\ r.op = "update" /\ r.scope = row.scope /\ r.id = id
        /\ r.name = name /\ r.default = default /\ r.stage = stage /\ r.was = row.default
    BY <2>2, <2>4 DEF GroupRoles!Request
  <2> HIDE DEF r
  <2>7. id <= used
    BY <2>0 DEF RoleInvariant, RolesNumbered
  <2>8. ASSUME changed = FALSE PROVE LookedUp(r)
    <3>1. NamesDiffer(roles, row.scope) /\ OneDefault(roles, row.scope)
      BY <2>2, <2>8 DEF RoleInvariant, RolesLookedUp
    <3>2. stage # "name" /\ name # Keep => NameFree(roles, row.scope, id, name)
      BY <2>0, <2>1, <2>5, <3>1 DEF NamesDiffer, NameFree
    <3>3. stage = "write" /\ default = TRUE => NoDefault(roles, row.scope, id)
      BY <2>0, <2>1, <2>5, <3>1 DEF OneDefault, NoDefault
    <3> QED BY <2>0, <2>1, <2>6, <3>2, <3>3 DEF LookedUp
  <2>9. r.id <= used /\ (roles[r.id] # None => roles[r.id].scope = r.scope)
    BY <2>1, <2>6, <2>7
  <2>10. requests' \in 0..RoleRequests /\ request' = [request EXCEPT ![h] = r]
    BY <2>3, RoleBegins
  <2>11. holder' \in RoleIds \cup {None} /\ (holder' # None => roles[holder'] # None)
    BY <1>0, <2>3
  <2> QED BY <2>3, <2>6, <2>8, <2>9, <2>10, <2>11, RoleRequestStep
<1>3. ASSUME NEW r \in GroupRoles!Request, r.op \notin {"create", "update"},
             GroupRoles!Begin(h, r), UNCHANGED <<roles, holder, used, changed>>
      PROVE  RoleInvariant'
  <2>1. LookedUp(r)
    BY <1>3 DEF LookedUp
  <2> QED BY <1>0, <1>3, <2>1, RoleBegins, RoleRequestStep
<1>4. ASSUME NEW id \in RoleIds,
             GroupRoles!Remove(h, roles[id].scope, id) \/ GroupRoles!Assign(h, id)
      PROVE  RoleInvariant'
  <2>1. /\ [op |-> "remove", stage |-> "write", id |-> id] \in GroupRoles!Request
        /\ [op |-> "assign", stage |-> "write", id |-> id] \in GroupRoles!Request
    BY DEF GroupRoles!Request
  <2> QED BY <1>3, <1>4, <2>1 DEF GroupRoles!Remove, GroupRoles!Assign
<1>5. CASE GroupRoles!Join(h)
  <2>1. [op |-> "join", stage |-> "common", id |-> 0] \in GroupRoles!Request
    BY DEF GroupRoles!Request
  <2> QED BY <1>3, <1>5, <2>1 DEF GroupRoles!Join
<1>6. GroupRoles!Rows \subseteq RoleIds
  BY DEF GroupRoles!Rows
<1> QED BY <1>1, <1>2, <1>4, <1>5, <1>6 DEF GroupRoles!Start

\* What is known of a request that creates or changes a role.
LEMMA RoleLookStep ==
  ASSUME GroupRoles!ConstantsAssumption, RoleInvariant, NEW h \in Handlers,
         GroupRoles!LookName(h) \/ GroupRoles!LookDefault(h)
  PROVE  RoleInvariant'
<1> DEFINE r == request[h]
<1>1. /\ r # None /\ r.op \in {"create", "update"} /\ UNCHANGED <<roles, holder, used, requests, changed>>
      /\ r.stage \in {"name", "default"}
  BY DEF GroupRoles!LookName, GroupRoles!LookDefault, GroupRoles!At
<1>2. /\ r \in GroupRoles!Request /\ r.scope \in GroupRoles!Scopes
      /\ r.op = "create" => r.id = 0 /\ r.default \in BOOLEAN
      /\ r.op = "update" => r.id \in RoleIds /\ r.was \in BOOLEAN
  BY <1>1, RoleRequestTypes DEF RoleInvariant
<1>3. /\ holder \in RoleIds \cup {None} /\ requests \in 0..RoleRequests
      /\ holder # None => roles[holder] # None
      /\ request \in [Handlers -> {None} \cup GroupRoles!Request]
  BY DEF RoleInvariant, GroupRoles!TypeOK, RolesKept
<1>4. None \notin GroupRoles!Request /\ 0 \notin RoleIds
  BY DEF GroupRoles!ConstantsAssumption
<1>5. CASE GroupRoles!Done(h)
  BY <1>1, <1>3, <1>5, RoleRequestStep DEF GroupRoles!Done
<1>6. ASSUME NEW stage \in {"default", "write"}, GroupRoles!To(h, stage),
             changed = FALSE => LookedUp([r EXCEPT !.stage = stage])
      PROVE  RoleInvariant'
  <2> DEFINE q == [r EXCEPT !.stage = stage]
  <2>1. request' = [request EXCEPT ![h] = q]
    BY <1>3, <1>6 DEF GroupRoles!To
  <2>2. CASE r.op = "create"
    <3>1. q \in GroupRoles!Request /\ q.op = "create"
      BY <1>2, <1>6, <2>2 DEF GroupRoles!Request
    <3> HIDE DEF q
    <3> QED BY <1>1, <1>3, <1>6, <2>1, <3>1, RoleRequestStep DEF q
  <2>3. CASE r.op = "update"
    <3>1. q \in GroupRoles!Request /\ q.id = r.id /\ q.scope = r.scope
      BY <1>2, <1>6, <2>3 DEF GroupRoles!Request
    <3>2. r.id <= used /\ (roles[r.id] # None => roles[r.id].scope = r.scope)
      BY <1>1, <2>3 DEF RoleInvariant, RolesNumbered
    <3>3. changed = FALSE => LookedUp(q)
      BY <1>6
    <3> HIDE DEF q
    <3> QED BY <1>1, <1>3, <2>1, <3>1, <3>2, <3>3, RoleRequestStep
  <2> QED BY <1>1, <2>2, <2>3
<1>7. changed = FALSE => LookedUp(r)
  BY <1>1 DEF RoleInvariant, RolesLookedUp
<1>8. CASE GroupRoles!LookName(h)
  <2> DEFINE free == ~\E i \in GroupRoles!Of(r.scope) \ {r.id} : roles[i].name = r.name
  <2>1. /\ r.stage = "name"
        /\ \/ GroupRoles!Done(h)
           \/ /\ free /\ GroupRoles!To(h, "default")
           \/ /\ free /\ GroupRoles!To(h, "write")
              /\ ~(r.default = TRUE /\ (r.op = "create" \/ ~r.was))
    BY <1>8 DEF GroupRoles!LookName, GroupRoles!At
  <2>2. free => NameFree(roles, r.scope, r.id, r.name)
    BY DEF NameFree, GroupRoles!Of, GroupRoles!Rows
  <2> HIDE DEF free
  <2>3. ASSUME free, changed = FALSE PROVE LookedUp([r EXCEPT !.stage = "default"])
    <3> DEFINE q == [r EXCEPT !.stage = "default"]
    <3>1. /\ q.op = r.op /\ q.stage = "default"
          /\ q.scope = r.scope /\ q.id = r.id /\ q.name = r.name
          /\ r.op = "update" => q.was = r.was
      BY <1>1, <1>2 DEF GroupRoles!Request
    <3> HIDE DEF q
    <3>2. LookedUp(q)
      BY <1>2, <1>7, <2>2, <2>3, <3>1 DEF LookedUp
    <3> QED BY <3>2 DEF q
  <2>4. ASSUME free, changed = FALSE, ~(r.default = TRUE /\ (r.op = "create" \/ ~r.was))
        PROVE  LookedUp([r EXCEPT !.stage = "write"])
    <3> DEFINE q == [r EXCEPT !.stage = "write"]
    <3>1. /\ q.op = r.op /\ q.stage = "write"
          /\ q.scope = r.scope /\ q.id = r.id /\ q.name = r.name /\ q.default = r.default
          /\ r.op = "update" => q.was = r.was
      BY <1>1, <1>2 DEF GroupRoles!Request
    <3> HIDE DEF q
    <3>2. ASSUME r.op = "update", r.default = TRUE PROVE NoDefault(roles, r.scope, r.id)
      <4>1. r.was = TRUE
        BY <1>2, <2>4, <3>2
      <4>2. roles[r.id] # None /\ roles[r.id].default = TRUE
        BY <1>7, <2>4, <3>2, <4>1 DEF LookedUp
      <4>3. roles[r.id].scope = r.scope /\ r.id \in RoleIds
        BY <1>1, <1>2, <3>2, <4>2 DEF RoleInvariant, RolesNumbered
      <4>4. OneDefault(roles, r.scope)
        BY <1>2, <2>4 DEF RoleInvariant, RolesLookedUp
      <4> QED BY <4>2, <4>3, <4>4 DEF OneDefault, NoDefault
    <3>3. LookedUp(q)
      BY <1>2, <1>7, <2>2, <2>4, <3>1, <3>2 DEF LookedUp
    <3> QED BY <3>3 DEF q
  <2> QED BY <1>5, <1>6, <2>1, <2>3, <2>4
<1>9. CASE GroupRoles!LookDefault(h)
  <2> DEFINE free == ~\E i \in GroupRoles!Of(r.scope) \ {r.id} : roles[i].default
  <2>1. /\ r.stage = "default"
        /\ GroupRoles!Done(h) \/ (free /\ GroupRoles!To(h, "write"))
    BY <1>9 DEF GroupRoles!LookDefault, GroupRoles!At
  <2>2. free => NoDefault(roles, r.scope, r.id)
    <3>1. \A i \in RoleIds : roles[i] # None => roles[i].default \in BOOLEAN
      BY RoleRows DEF RoleInvariant
    <3> QED BY <3>1 DEF NoDefault, GroupRoles!Of, GroupRoles!Rows
  <2> HIDE DEF free
  <2>3. ASSUME free, changed = FALSE PROVE LookedUp([r EXCEPT !.stage = "write"])
    <3> DEFINE q == [r EXCEPT !.stage = "write"]
    <3>1. /\ q.op = r.op /\ q.stage = "write"
          /\ q.scope = r.scope /\ q.id = r.id /\ q.name = r.name /\ q.default = r.default
          /\ r.op = "update" => q.was = r.was
      BY <1>1, <1>2 DEF GroupRoles!Request
    <3> HIDE DEF q
    <3>2. LookedUp(q)
      BY <1>2, <1>7, <2>1, <2>2, <2>3, <3>1 DEF LookedUp
    <3> QED BY <3>2 DEF q
  <2> QED BY <1>5, <1>6, <2>1, <2>3
<1> QED BY <1>8, <1>9

\* The rows are changed as far as the request allows: enough for the invariant.
LEMMA RoleWriteStep ==
  ASSUME GroupRoles!ConstantsAssumption, RoleInvariant, NEW h \in Handlers,
         GroupRoles!Done(h), UNCHANGED <<holder, requests>>,
         NEW rows \in [RoleIds -> {None} \cup GroupRoles!Row], roles' = rows,
         used' \in RoleIds, used <= used', GroupRoles!Changed(h),
         \A i \in RoleIds : rows[i] # None => i <= used',
         \A i \in RoleIds : i <= used /\ rows[i] # None =>
           roles[i] # None /\ rows[i].scope = roles[i].scope,
         NamesDiffer(rows, "group"), holder # None => rows[holder] # None,
         changed = FALSE => \A scope \in GroupRoles!Scopes :
                              NamesDiffer(rows, scope) /\ OneDefault(rows, scope)
  PROVE  RoleInvariant'
<1>1. request \in [Handlers -> {None} \cup GroupRoles!Request]
  BY DEF RoleInvariant, GroupRoles!TypeOK
<1>2. /\ request' \in [Handlers -> {None} \cup GroupRoles!Request]
      /\ \A g \in Handlers : request'[g] = IF g = h THEN None ELSE request[g]
  BY <1>1 DEF GroupRoles!Done
<1>3. changed' \in BOOLEAN
  BY DEF GroupRoles!Changed, GroupRoles!Crossed, RoleInvariant, GroupRoles!TypeOK
<1>4. GroupRoles!TypeOK'
  BY <1>2, <1>3 DEF RoleInvariant, GroupRoles!TypeOK
<1>5. RolesNumbered'
  <2>1. used \in Nat /\ used' \in Nat
    BY DEF RoleInvariant, GroupRoles!TypeOK, GroupRoles!ConstantsAssumption
  <2> SUFFICES ASSUME NEW g \in Handlers, request'[g] # None, request'[g].op = "update"
               PROVE  /\ request'[g].id <= used'
                      /\ roles'[request'[g].id] # None =>
                           roles'[request'[g].id].scope = request'[g].scope
    BY DEF RolesNumbered
  <2>2. request'[g] = request[g] /\ request[g] # None /\ request[g].op = "update"
    BY <1>2
  <2>3. request[g].id \in RoleIds /\ request[g].id \in Nat
    BY <2>2, RoleRequestTypes DEF RoleInvariant, GroupRoles!ConstantsAssumption
  <2>4. /\ request[g].id <= used
        /\ roles[request[g].id] # None => roles[request[g].id].scope = request[g].scope
    BY <2>2 DEF RoleInvariant, RolesNumbered
  <2> QED BY <2>1, <2>2, <2>3, <2>4
<1>6. RolesKept'
  BY DEF RolesKept
<1>7. ASSUME changed' = FALSE PROVE changed = FALSE /\ ~GroupRoles!Crossed(h)
  BY <1>7 DEF GroupRoles!Changed, RoleInvariant, GroupRoles!TypeOK
<1>8. ASSUME changed' = FALSE, NEW g \in Handlers, request'[g] # None
      PROVE  LookedUp(request[g])'
  <2>1. request'[g] = request[g] /\ request[g].op \notin {"create", "update"}
    BY <1>2, <1>7, <1>8 DEF GroupRoles!Crossed
  <2> QED BY <2>1 DEF LookedUp
<1>9. RolesLookedUp'
  BY <1>7, <1>8 DEF RolesLookedUp
<1> QED BY <1>4, <1>5, <1>6, <1>9 DEF RoleInvariant

\* A request that ends without a row changed.
LEMMA RoleDoneStep ==
  ASSUME GroupRoles!ConstantsAssumption, RoleInvariant, NEW h \in Handlers,
         GroupRoles!Done(h), UNCHANGED <<roles, used, changed, requests>>,
         holder' \in RoleIds \cup {None}, holder' # None => roles[holder'] # None
  PROVE  RoleInvariant'
<1>1. requests' \in 0..RoleRequests
  BY DEF RoleInvariant, GroupRoles!TypeOK
<1> QED BY <1>1, RoleRequestStep DEF GroupRoles!Done

LEMMA RoleNewStep ==
  ASSUME GroupRoles!ConstantsAssumption, RoleInvariant, NEW h \in Handlers,
         GroupRoles!WriteNew(h)
  PROVE  RoleInvariant'
<1> DEFINE r   == request[h]
           row == [scope |-> r.scope, name |-> r.name, default |-> r.default]
<1>1. /\ r # None /\ r.op = "create" /\ r.stage = "write" /\ used + 1 \in RoleIds
      /\ GroupRoles!Done(h) /\ UNCHANGED <<holder, requests>>
  BY DEF GroupRoles!WriteNew, GroupRoles!At
<1>2. /\ r.scope \in GroupRoles!Scopes /\ r.name \in RoleNames /\ r.default \in BOOLEAN
  BY <1>1, RoleRequestTypes DEF RoleInvariant
<1>3. /\ holder \in RoleIds \cup {None}
      /\ holder # None => roles[holder] # None
      /\ roles \in [RoleIds -> {None} \cup GroupRoles!Row] /\ used \in RoleIds
      /\ RoleIds \subseteq Nat \ {0}
  BY DEF RoleInvariant, GroupRoles!TypeOK, RolesKept, GroupRoles!ConstantsAssumption
<1>4. CASE UNCHANGED <<roles, used, changed>>
  BY <1>1, <1>3, <1>4, RoleDoneStep
<1>5. CASE /\ GroupRoles!NameIsFree(r.scope, 0, r.name) /\ used' = used + 1
           /\ roles' = [roles EXCEPT ![used + 1] = row] /\ GroupRoles!Changed(h)
  <2>1. /\ row \in GroupRoles!Row /\ row.scope = r.scope /\ row.name = r.name
        /\ row.default = r.default
    BY <1>2 DEF GroupRoles!Row
  <2> HIDE DEF row
  <2>2. /\ roles' \in [RoleIds -> {None} \cup GroupRoles!Row]
        /\ \A i \in RoleIds : roles'[i] = IF i = used + 1 THEN row ELSE roles[i]
    BY <1>1, <1>3, <1>5, <2>1
  <2>3. PICK rows \in [RoleIds -> {None} \cup GroupRoles!Row] : rows = roles'
    BY <2>2
  <2>4. \A i \in RoleIds : rows[i] = IF i = used + 1 THEN row ELSE roles[i]
    BY <2>2, <2>3
  <2>5. /\ \A i \in RoleIds : roles[i] # None => i <= used /\ i # used + 1
        /\ 0 \notin RoleIds /\ used + 1 > used
    BY <1>3 DEF RoleInvariant, RolesNumbered
  <2>6. \A scope : NamesDiffer(roles, scope) /\ (row.scope = scope => NameFree(roles, scope, 0, r.name))
                   => NamesDiffer(rows, scope)
    BY <2>1, <2>4, <2>5 DEF NamesDiffer, NameFree
  <2>7. \A scope : OneDefault(roles, scope)
                   /\ (row.scope = scope => r.default = FALSE \/ NoDefault(roles, scope, 0))
                   => OneDefault(rows, scope)
    BY <2>1, <2>4, <2>5 DEF OneDefault, NoDefault
  <2>8. r.scope = "group" => NameFree(roles, "group", 0, r.name)
    BY <1>5 DEF NameFree, GroupRoles!NameIsFree, GroupRoles!Of, GroupRoles!Rows
  <2>9. NamesDiffer(rows, "group")
    BY <2>1, <2>6, <2>8 DEF RoleInvariant, RolesKept
  <2>10. ASSUME changed = FALSE, NEW scope \in GroupRoles!Scopes
         PROVE  NamesDiffer(rows, scope) /\ OneDefault(rows, scope)
    <3>1. /\ NamesDiffer(roles, scope) /\ OneDefault(roles, scope) /\ LookedUp(r)
      BY <1>1, <2>10 DEF RoleInvariant, RolesLookedUp
    <3>2. /\ NameFree(roles, r.scope, 0, r.name)
          /\ r.default = FALSE \/ NoDefault(roles, r.scope, 0)
      BY <1>1, <1>2, <3>1 DEF LookedUp
    <3> QED BY <2>1, <2>6, <2>7, <3>1, <3>2
  <2>11. used' \in RoleIds /\ used <= used'
    BY <1>1, <1>3, <1>5
  <2>12. \A i \in RoleIds : rows[i] # None => i <= used'
    BY <1>1, <1>3, <1>5, <2>4, <2>5
  <2>13. \A i \in RoleIds : i <= used /\ rows[i] # None =>
           roles[i] # None /\ rows[i].scope = roles[i].scope
    BY <1>3, <2>4
  <2>14. holder # None => rows[holder] # None
    BY <1>3, <2>4, <2>5
  <2> QED BY <1>1, <1>5, <2>3, <2>9, <2>10, <2>11, <2>12, <2>13, <2>14, RoleWriteStep
<1> QED BY <1>4, <1>5 DEF GroupRoles!WriteNew

LEMMA RoleChangeStep ==
  ASSUME GroupRoles!ConstantsAssumption, RoleInvariant, NEW h \in Handlers,
         GroupRoles!WriteChange(h)
  PROVE  RoleInvariant'
<1> DEFINE r    == request[h]
           old  == roles[r.id]
           name == IF r.name = Keep THEN old.name ELSE r.name
           def  == IF r.default = Keep THEN old.default ELSE r.default
           row  == [old EXCEPT !.name = name, !.default = def]
<1>1. /\ r # None /\ r.op = "update" /\ r.stage = "write"
      /\ GroupRoles!Done(h) /\ UNCHANGED <<holder, used, requests>>
  BY DEF GroupRoles!WriteChange, GroupRoles!At
<1>2. /\ r.scope \in GroupRoles!Scopes /\ r.id \in RoleIds /\ r.name \in RoleNames \cup {Keep}
      /\ r.default \in BOOLEAN \cup {Keep}
  BY <1>1, RoleRequestTypes DEF RoleInvariant
<1>3. /\ holder \in RoleIds \cup {None}
      /\ holder # None => roles[holder] # None
      /\ roles \in [RoleIds -> {None} \cup GroupRoles!Row] /\ used \in RoleIds
      /\ RoleIds \subseteq Nat \ {0}
  BY DEF RoleInvariant, GroupRoles!TypeOK, RolesKept, GroupRoles!ConstantsAssumption
<1>4. CASE UNCHANGED <<roles, changed>>
  BY <1>1, <1>3, <1>4, RoleDoneStep
<1>5. CASE /\ r.id \in GroupRoles!Rows
           /\ r.name = Keep \/ GroupRoles!NameIsFree(r.scope, r.id, r.name)
           /\ roles' = [roles EXCEPT ![r.id].name = name, ![r.id].default = def]
           /\ GroupRoles!Changed(h)
  <2>1. old # None
    BY <1>5 DEF GroupRoles!Rows
  <2>2. /\ old \in GroupRoles!Row /\ old.name \in RoleNames \cup {"OWNER"}
        /\ old.default \in BOOLEAN
    BY <1>2, <2>1, RoleRows DEF RoleInvariant
  <2>3. old.scope = r.scope
    BY <1>1, <2>1 DEF RoleInvariant, RolesNumbered
  <2>4. roles' = [roles EXCEPT ![r.id] = row]
    BY <1>2, <1>3, <1>5
  <2>5. name \in RoleNames \cup {"OWNER"} /\ def \in BOOLEAN
    BY <1>2, <2>2
  <2> HIDE DEF name, def
  <2>6. row \in GroupRoles!Row /\ row.scope = old.scope /\ row.name = name /\ row.default = def
    BY <2>2, <2>5 DEF GroupRoles!Row
  <2> HIDE DEF row
  <2>7. /\ roles' \in [RoleIds -> {None} \cup GroupRoles!Row]
        /\ \A i \in RoleIds : roles'[i] = IF i = r.id THEN row ELSE roles[i]
    BY <1>2, <1>3, <2>4, <2>6
  <2>8. PICK rows \in [RoleIds -> {None} \cup GroupRoles!Row] : rows = roles'
    BY <2>7
  <2>9. \A i \in RoleIds : rows[i] = IF i = r.id THEN row ELSE roles[i]
    BY <2>7, <2>8
  <2>10. row # None
    BY <2>6 DEF GroupRoles!ConstantsAssumption
  <2>11. \A scope : NamesDiffer(roles, scope)
                    /\ (r.scope = scope => r.name = Keep \/ NameFree(roles, scope, r.id, r.name))
                    => NamesDiffer(rows, scope)
    <3> SUFFICES ASSUME NEW scope, NamesDiffer(roles, scope),
                        r.scope = scope => r.name = Keep \/ NameFree(roles, scope, r.id, r.name),
                        NEW i \in RoleIds, NEW j \in RoleIds, rows[i] # None, rows[j] # None,
                        i # j, rows[i].scope = scope, rows[j].scope = scope,
                        rows[i].name = rows[j].name
                 PROVE  FALSE
      BY DEF NamesDiffer
    <3>1. r.scope = scope => \A k \in RoleIds : k # r.id /\ roles[k] # None /\ roles[k].scope = scope
                                                => roles[k].name # name
      BY <1>2, <2>1, <2>3 DEF NamesDiffer, NameFree, name
    <3> QED BY <2>3, <2>6, <2>9, <3>1 DEF NamesDiffer
  <2>12. \A scope : OneDefault(roles, scope)
                    /\ (r.scope = scope => r.default # TRUE \/ NoDefault(roles, scope, r.id))
                    => OneDefault(rows, scope)
    <3> SUFFICES ASSUME NEW scope, OneDefault(roles, scope),
                        r.scope = scope => r.default # TRUE \/ NoDefault(roles, scope, r.id),
                        NEW i \in RoleIds, NEW j \in RoleIds, rows[i] # None, rows[j] # None,
                        i # j, rows[i].scope = scope, rows[j].scope = scope
                 PROVE  rows[i].default = FALSE \/ rows[j].default = FALSE
      BY DEF OneDefault
    <3>1. r.scope = scope =>
            def = FALSE \/ \A k \in RoleIds : k # r.id /\ roles[k] # None /\ roles[k].scope = scope
                                              => roles[k].default = FALSE
      <4>1. r.default = Keep \/ r.default = TRUE \/ r.default = FALSE
        BY <1>2
      <4>2. old.default = TRUE \/ old.default = FALSE
        BY <2>2
      <4> QED BY <1>2, <2>1, <2>3, <4>1, <4>2 DEF OneDefault, NoDefault, def
    <3> QED BY <2>3, <2>6, <2>9, <3>1 DEF OneDefault
  <2>13. r.scope = "group" => r.name = Keep \/ NameFree(roles, "group", r.id, r.name)
    BY <1>5 DEF NameFree, GroupRoles!NameIsFree, GroupRoles!Of, GroupRoles!Rows
  <2>14. NamesDiffer(rows, "group")
    BY <2>11, <2>13 DEF RoleInvariant, RolesKept
  <2>15. ASSUME changed = FALSE, NEW scope \in GroupRoles!Scopes
         PROVE  NamesDiffer(rows, scope) /\ OneDefault(rows, scope)
    <3>1. /\ NamesDiffer(roles, scope) /\ OneDefault(roles, scope) /\ LookedUp(r)
      BY <1>1, <2>15 DEF RoleInvariant, RolesLookedUp
    <3>2. /\ r.name = Keep \/ NameFree(roles, r.scope, r.id, r.name)
          /\ r.default # TRUE \/ NoDefault(roles, r.scope, r.id)
      BY <1>1, <3>1 DEF LookedUp
    <3> QED BY <2>11, <2>12, <3>1, <3>2
  <2>16. \A i \in RoleIds : rows[i] # None => i <= used'
    BY <1>1, <2>1, <2>9 DEF RoleInvariant, RolesNumbered
  <2>17. \A i \in RoleIds : i <= used /\ rows[i] # None =>
           roles[i] # None /\ rows[i].scope = roles[i].scope
    BY <2>1, <2>6, <2>9
  <2>18. holder # None => rows[holder] # None
    BY <1>3, <2>9, <2>10
  <2>19. used' \in RoleIds /\ used <= used'
    BY <1>1, <1>3
  <2> QED BY <1>1, <1>5, <2>8, <2>14, <2>15, <2>16, <2>17, <2>18, <2>19, RoleWriteStep
<1> QED BY <1>1, <1>4, <1>5 DEF GroupRoles!WriteChange

LEMMA RoleRemoveStep ==
  ASSUME GroupRoles!ConstantsAssumption, RoleInvariant, NEW h \in Handlers,
         GroupRoles!RemoveRow(h)
  PROVE  RoleInvariant'
<1> DEFINE id == request[h].id
<1>1. /\ request[h] # None /\ request[h].op = "remove"
      /\ GroupRoles!Done(h) /\ UNCHANGED <<holder, used, requests>>
  BY DEF GroupRoles!RemoveRow, GroupRoles!At
<1>2. id \in RoleIds
  BY <1>1, RoleRequestTypes DEF RoleInvariant
<1>3. /\ holder \in RoleIds \cup {None}
      /\ holder # None => roles[holder] # None
      /\ roles \in [RoleIds -> {None} \cup GroupRoles!Row] /\ used \in RoleIds
      /\ RoleIds \subseteq Nat \ {0}
  BY DEF RoleInvariant, GroupRoles!TypeOK, RolesKept, GroupRoles!ConstantsAssumption
<1>4. CASE UNCHANGED <<roles, changed>>
  BY <1>1, <1>3, <1>4, RoleDoneStep
<1>5. CASE holder # id /\ roles' = [roles EXCEPT ![id] = None] /\ GroupRoles!Changed(h)
  <2> HIDE DEF id
  <2>1. /\ roles' \in [RoleIds -> {None} \cup GroupRoles!Row]
        /\ \A i \in RoleIds : roles'[i] = IF i = id THEN None ELSE roles[i]
    BY <1>2, <1>3, <1>5
  <2>2. PICK rows \in [RoleIds -> {None} \cup GroupRoles!Row] : rows = roles'
    BY <2>1
  <2>3. \A i \in RoleIds : rows[i] # None => rows[i] = roles[i]
    BY <2>1, <2>2
  <2>4. \A scope : /\ NamesDiffer(roles, scope) => NamesDiffer(rows, scope)
                   /\ OneDefault(roles, scope) => OneDefault(rows, scope)
    BY <2>3 DEF NamesDiffer, OneDefault
  <2>5. NamesDiffer(rows, "group")
    BY <2>4 DEF RoleInvariant, RolesKept
  <2>6. changed = FALSE => \A scope \in GroupRoles!Scopes :
                             NamesDiffer(rows, scope) /\ OneDefault(rows, scope)
    BY <2>4 DEF RoleInvariant, RolesLookedUp
  <2>7. \A i \in RoleIds : rows[i] # None => i <= used'
    BY <1>1, <2>3 DEF RoleInvariant, RolesNumbered
  <2>8. holder # None => rows[holder] # None
    BY <1>3, <1>5, <2>1, <2>2
  <2>9. used' \in RoleIds /\ used <= used'
    BY <1>1, <1>3
  <2> QED BY <1>1, <1>5, <2>2, <2>3, <2>5, <2>6, <2>7, <2>8, <2>9, RoleWriteStep
<1> QED BY <1>1, <1>4, <1>5 DEF GroupRoles!RemoveRow

\* A member joins or gets another role.
LEMMA RoleMemberStep ==
  ASSUME GroupRoles!ConstantsAssumption, RoleInvariant, NEW h \in Handlers,
         \/ \E scope \in GroupRoles!Scopes, id \in RoleIds : GroupRoles!LookForRole(h, scope, id)
         \/ GroupRoles!WriteMember(h)
  PROVE  RoleInvariant'
<1>1. /\ holder \in RoleIds \cup {None}
      /\ holder # None => roles[holder] # None
      /\ requests \in 0..RoleRequests
      /\ request \in [Handlers -> {None} \cup GroupRoles!Request]
  BY DEF RoleInvariant, GroupRoles!TypeOK, RolesKept
<1>2. ASSUME NEW scope \in GroupRoles!Scopes, NEW id \in RoleIds,
             GroupRoles!LookForRole(h, scope, id)
      PROVE  RoleInvariant'
  <2>1. /\ request[h] # None /\ request[h].op = "join"
        /\ UNCHANGED <<roles, holder, used, requests, changed>>
        /\ \/ GroupRoles!Done(h)
           \/ request' = [request EXCEPT ![h].id = id, ![h].stage = "write"]
    BY <1>2 DEF GroupRoles!LookForRole, GroupRoles!At
  <2>2. CASE GroupRoles!Done(h)
    BY <1>1, <2>1, <2>2, RoleDoneStep
  <2>3. CASE request' = [request EXCEPT ![h].id = id, ![h].stage = "write"]
    <3> DEFINE r == [request[h] EXCEPT !.id = id, !.stage = "write"]
    <3>1. request' = [request EXCEPT ![h] = r]
      BY <1>1, <2>3
    <3>2. request[h] \in GroupRoles!Request
      BY <2>1, RoleRequestTypes DEF RoleInvariant
    <3>3. r \in GroupRoles!Request /\ r.op = "join"
      BY <2>1, <3>2 DEF GroupRoles!Request
    <3> HIDE DEF r
    <3>4. LookedUp(r)
      BY <3>3 DEF LookedUp
    <3> QED BY <1>1, <2>1, <3>1, <3>3, <3>4, RoleRequestStep
  <2> QED BY <2>1, <2>2, <2>3
<1>3. CASE GroupRoles!WriteMember(h)
  <2>1. /\ holder' \in RoleIds \cup {None}
        /\ holder' # None => roles[holder'] # None
        /\ GroupRoles!Done(h) /\ UNCHANGED <<roles, used, requests, changed>>
    BY <1>1, <1>3 DEF GroupRoles!WriteMember, GroupRoles!Rows
  <2> QED BY <2>1, RoleDoneStep
<1> QED BY <1>2, <1>3

LEMMA RoleInvariantStep ==
  ASSUME GroupRoles!ConstantsAssumption, RoleInvariant, [GroupRoles!Next]_(GroupRoles!vars)
  PROVE  RoleInvariant'
<1>1. ASSUME NEW h \in Handlers,
             \/ GroupRoles!Start(h)
             \/ \E scope \in GroupRoles!Scopes, id \in RoleIds :
                  GroupRoles!LookForRole(h, scope, id)
             \/ GroupRoles!LookName(h) \/ GroupRoles!LookDefault(h) \/ GroupRoles!WriteNew(h)
             \/ GroupRoles!WriteChange(h) \/ GroupRoles!RemoveRow(h)
             \/ GroupRoles!WriteMember(h)
      PROVE  RoleInvariant'
  BY <1>1, RoleStartStep, RoleLookStep, RoleNewStep, RoleChangeStep, RoleRemoveStep,
     RoleMemberStep
<1>2. CASE UNCHANGED GroupRoles!vars
  BY <1>2 DEF GroupRoles!vars, RoleInvariant, GroupRoles!TypeOK, RolesNumbered, RolesKept,
     RolesLookedUp, LookedUp, NamesDiffer, OneDefault, NameFree, NoDefault
<1> QED BY <1>1, <1>2 DEF GroupRoles!Next

LEMMA RoleInvariantInit ==
  ASSUME GroupRoles!ConstantsAssumption, GroupRoles!Init
  PROVE  RoleInvariant
<1> DEFINE first  == CHOOSE n \in RoleNames : TRUE
           owner  == [scope |-> "common", name |-> "OWNER", default |-> FALSE]
           common == [scope |-> "common", name |-> first, default |-> TRUE]
<1>1. /\ RoleIds \subseteq Nat \ {0} /\ 1 \in RoleIds /\ 2 \in RoleIds
      /\ "OWNER" \notin RoleNames /\ first \in RoleNames
      /\ None \notin GroupRoles!Row /\ RoleRequests \in Nat
  BY DEF GroupRoles!ConstantsAssumption
<1> HIDE DEF first
<1>2. /\ owner \in GroupRoles!Row /\ common \in GroupRoles!Row
      /\ owner.name = "OWNER" /\ common.name = first /\ owner.scope = "common"
      /\ common.scope = "common" /\ owner.default = FALSE
  BY <1>1 DEF GroupRoles!Row, GroupRoles!Scopes
<1>3. /\ roles = [i \in RoleIds |-> CASE i = 1 -> owner [] i = 2 -> common [] OTHER -> None]
      /\ holder = None /\ used = 2 /\ request = [h \in Handlers |-> None] /\ requests = 0
      /\ changed = FALSE
  BY Zenon DEF GroupRoles!Init, GroupRoles!Owner, first
<1> HIDE DEF owner, common
<1>4. \A i \in RoleIds : roles[i] = IF i = 1 THEN owner ELSE IF i = 2 THEN common ELSE None
  BY <1>3
<1>5. roles \in [RoleIds -> {None} \cup GroupRoles!Row]
  BY <1>2, <1>3
<1>6. GroupRoles!TypeOK
  <2>1. requests \in 0..RoleRequests /\ used \in RoleIds
    BY <1>1, <1>3
  <2> QED BY <1>3, <1>5, <2>1 DEF GroupRoles!TypeOK
<1>7. RolesNumbered
  BY <1>1, <1>3, <1>4 DEF RolesNumbered
<1>8. \A scope : NamesDiffer(roles, scope) /\ OneDefault(roles, scope)
  BY <1>1, <1>2, <1>4 DEF NamesDiffer, OneDefault
<1>9. RolesKept /\ RolesLookedUp
  BY <1>3, <1>8 DEF RolesKept, RolesLookedUp
<1> QED BY <1>6, <1>7, <1>9 DEF RoleInvariant

LEMMA RolesFromInvariant ==
  ASSUME GroupRoles!ConstantsAssumption, RoleInvariant
  PROVE  GroupRoles!RolesAgree
<1>1. ASSUME NEW scope, NamesDiffer(roles, scope), NEW i \in GroupRoles!Of(scope),
             NEW j \in GroupRoles!Of(scope), i # j
      PROVE  roles[i].name # roles[j].name
  BY <1>1 DEF NamesDiffer, GroupRoles!Of, GroupRoles!Rows
<1>2. ASSUME NEW scope, OneDefault(roles, scope)
      PROVE  GroupRoles!Cardinality(GroupRoles!Defaults(scope)) <= 1
  <2> DEFINE D == GroupRoles!Defaults(scope)
  <2>1. \A i, j \in D : i = j
    BY <1>2 DEF OneDefault, GroupRoles!Defaults, GroupRoles!Of, GroupRoles!Rows
  <2>2. D = {} \/ \E x : D = {x}
    BY <2>1
  <2>3. Cardinality({}) = 0 /\ \A x : Cardinality({x}) = 1
    BY FS_EmptySet, FS_Singleton
  <2>4. Cardinality(D) \in {0, 1}
    BY <2>2, <2>3
  <2>5. GroupRoles!Cardinality(D) = Cardinality(D)
    BY Zenon DEF Cardinality, GroupRoles!Cardinality
  <2> QED BY <2>4, <2>5
<1>3. holder # None => holder \in GroupRoles!Rows
  BY DEF RoleInvariant, RolesKept, GroupRoles!Rows, GroupRoles!TypeOK
<1>4. /\ NamesDiffer(roles, "group")
      /\ ~changed => \A scope \in GroupRoles!Scopes :
                       NamesDiffer(roles, scope) /\ OneDefault(roles, scope)
  BY DEF RoleInvariant, RolesKept, RolesLookedUp
<1> QED BY <1>1, <1>2, <1>3, <1>4 DEF GroupRoles!RolesAgree

\* Roles and their requests keep their shapes (the table of roles).
THEOREM RolesTypeCorrect ==
  ASSUME GroupRoles!ConstantsAssumption
  PROVE  GroupRoles!Spec => []GroupRoles!TypeOK
<1>1. RoleInvariant => GroupRoles!TypeOK
  BY DEF RoleInvariant
<1> QED BY RoleInvariantInit, RoleInvariantStep, <1>1, PTL DEF GroupRoles!Spec

\* The roles of a scope have different names and one default at most, unless changes of
\* roles crossed, those of the group always different names, and no member has a role that
\* is gone (RoleService, getDefaultRole, updateMemberRole).
THEOREM RolesAgreeHolds ==
  ASSUME GroupRoles!ConstantsAssumption
  PROVE  GroupRoles!Spec => []GroupRoles!RolesAgree
BY RoleInvariantInit, RoleInvariantStep, RolesFromInvariant, PTL DEF GroupRoles!Spec

-----------------------------------------------------------------------------
(* Votes: the ballots of a user and what he chose.                         *)

\* At most one option.
OneOf(S) == \A x, y \in S : x = y

\* The rows of a user are those of his last choice, unless two of his requests overlapped.
ChosenRows ==
  \A u \in Voters \ overlapped : Vote!BallotsOf(u) = {u} \X choice[u]

\* A transaction deletes rows of its own user only.
SeenAreOwn ==
  \A h \in Handlers : request[h] # None => \A b \in request[h].seen : b[1] = request[h].user

\* A request belongs to a vote there is or was, and a vote of one choice gets one at most.
ChoicesFit ==
  /\ requests = 0 => \A h \in Handlers : request[h] = None
  /\ vote = None => ballots = {} /\ \A u \in Voters : choice[u] = {}
  /\ vote # None /\ vote.multiple = FALSE =>
       /\ \A h \in Handlers : request[h] # None => OneOf(request[h].picks)
       /\ \A u \in Voters : OneOf(choice[u])

VoteInvariant == Vote!TypeOK /\ ChosenRows /\ SeenAreOwn /\ ChoicesFit

LEMMA VoteCardinality == \A S : Vote!Cardinality(S) = Cardinality(S)
BY Zenon DEF Cardinality, Vote!Cardinality

LEMMA OneAtMost ==
  ASSUME NEW S, IsFiniteSet(S), Cardinality(S) <= 1
  PROVE  OneOf(S)
<1> SUFFICES ASSUME NEW x \in S, NEW y \in S, x # y PROVE FALSE
  BY DEF OneOf
<1>1. /\ IsFiniteSet({x}) /\ Cardinality({x}) = 1
  BY FS_Singleton
<1>2. Cardinality({x} \cup {y}) = 2
  <2>1. Cardinality({x} \cup {y}) = Cardinality({x}) + 1
    BY <1>1, FS_AddElement, Zenon
  <2> QED BY <1>1, <2>1
<1>3. {x} \cup {y} \subseteq S
  OBVIOUS
<1>4. Cardinality({x} \cup {y}) <= Cardinality(S)
  BY <1>3, FS_Subset
<1>5. Cardinality(S) \in Nat
  BY FS_CardinalityType
<1> QED BY <1>2, <1>4, <1>5

\* What a request of a voter holds.
LEMMA VoteRequestTypes ==
  ASSUME Vote!TypeOK, NEW h \in Handlers, request[h] # None
  PROVE  /\ request[h] \in Vote!Request /\ request[h].user \in Voters
         /\ request[h].picks \subseteq Options
         /\ request[h].seen \subseteq Voters \X Options
<1>1. request[h] \in Vote!Request
  BY DEF Vote!TypeOK
<1> QED BY <1>1 DEF Vote!Request

LEMMA VoteBeginStep ==
  ASSUME Vote!ConstantsAssumption, VoteInvariant, NEW h \in Handlers, NEW u \in Voters,
         NEW picks \in SUBSET Options, Vote!Begin(h, u, picks)
  PROVE  VoteInvariant'
<1> DEFINE r == [user |-> u, picks |-> picks, stage |-> "delete", seen |-> {}]
<1>1. /\ vote # None /\ Vote!NewRequest /\ request' = [request EXCEPT ![h] = r]
      /\ UNCHANGED <<members, vote, closed, ballots, choice, overlapped>>
      /\ ~vote.multiple => Vote!Cardinality(picks) <= 1
  BY DEF Vote!Begin
<1>2. r \in Vote!Request /\ r.seen = {} /\ r.picks = picks
  BY DEF Vote!Request
<1>3. vote.multiple = FALSE => OneOf(picks)
  <2>0. IsFiniteSet(Options)
    BY DEF Vote!ConstantsAssumption, Vote!IsFiniteSet, IsFiniteSet
  <2>1. IsFiniteSet(picks)
    BY <2>0, FS_Subset
  <2>2. ~vote.multiple => Cardinality(picks) <= 1
    BY <1>1, VoteCardinality
  <2> QED BY <2>1, <2>2, OneAtMost
<1> HIDE DEF r
<1>4. request \in [Handlers -> {None} \cup Vote!Request]
  BY DEF VoteInvariant, Vote!TypeOK
<1>5. request' \in [Handlers -> {None} \cup Vote!Request]
  BY <1>1, <1>2, <1>4
<1>6. requests' \in 0..VoteRequests /\ requests' # 0
  <2>1. requests \in 0..VoteRequests /\ VoteRequests \in Nat
    BY DEF VoteInvariant, Vote!TypeOK, Vote!ConstantsAssumption
  <2>2. requests < VoteRequests /\ requests' = requests + 1
    BY <1>1 DEF Vote!NewRequest
  <2> QED BY <2>1, <2>2
<1>7. Vote!TypeOK'
  BY <1>1, <1>5, <1>6 DEF VoteInvariant, Vote!TypeOK
<1>8. \A g \in Handlers : request'[g] = IF g = h THEN r ELSE request[g]
  BY <1>1, <1>4
<1>9. ChosenRows'
  BY <1>1 DEF VoteInvariant, ChosenRows, Vote!BallotsOf
<1>10. SeenAreOwn'
  BY <1>2, <1>8 DEF VoteInvariant, SeenAreOwn
<1>11. ChoicesFit'
  BY <1>1, <1>2, <1>3, <1>6, <1>8 DEF VoteInvariant, ChoicesFit
<1> QED BY <1>7, <1>9, <1>10, <1>11 DEF VoteInvariant

\* A handler is free: nothing is left to say of its request.
LEMMA VoteDone ==
  ASSUME VoteInvariant, NEW h \in Handlers, Vote!Done(h)
  PROVE  /\ request' \in [Handlers -> {None} \cup Vote!Request]
         /\ \A g \in Handlers : request'[g] = IF g = h THEN None ELSE request[g]
<1>1. request \in [Handlers -> {None} \cup Vote!Request]
  BY DEF VoteInvariant, Vote!TypeOK
<1> QED BY <1>1 DEF Vote!Done

LEMMA VoteCancelStep ==
  ASSUME Vote!ConstantsAssumption, VoteInvariant, NEW h \in Handlers, Vote!Cancel(h)
  PROVE  VoteInvariant'
<1> DEFINE u == request[h].user
<1>1. /\ request[h] # None /\ Vote!Done(h)
      /\ ballots' = ballots \ Vote!BallotsOf(u)
      /\ choice' = [choice EXCEPT ![u] = {}]
      /\ overlapped' \in {overlapped, overlapped \cup {u}}
      /\ UNCHANGED <<members, vote, closed, requests>>
  BY DEF Vote!Cancel
<1>2. u \in Voters
  BY <1>1, VoteRequestTypes DEF VoteInvariant
<1> HIDE DEF u
<1>3. /\ ballots' \subseteq Voters \X Options
      /\ choice \in [Voters -> SUBSET Options] /\ choice' \in [Voters -> SUBSET Options]
      /\ overlapped' \subseteq Voters /\ overlapped \subseteq overlapped'
  BY <1>1, <1>2 DEF VoteInvariant, Vote!TypeOK
<1>4. Vote!TypeOK'
  BY <1>1, <1>3, VoteDone DEF VoteInvariant, Vote!TypeOK
<1>5. \A v \in Voters : choice'[v] = IF v = u THEN {} ELSE choice[v]
  BY <1>1, <1>3
<1>6. ChosenRows'
  <2> SUFFICES ASSUME NEW v \in Voters \ overlapped'
               PROVE  {b \in ballots' : b[1] = v} = {v} \X choice'[v]
    BY DEF ChosenRows, Vote!BallotsOf
  <2>1. CASE v = u
    BY <1>1, <1>5, <2>1 DEF Vote!BallotsOf
  <2>2. CASE v # u
    <3>1. {b \in ballots : b[1] = v} = {v} \X choice[v]
      BY <1>3 DEF VoteInvariant, ChosenRows, Vote!BallotsOf
    <3>2. {b \in ballots' : b[1] = v} = {b \in ballots : b[1] = v}
      BY <1>1, <2>2 DEF Vote!BallotsOf
    <3> QED BY <1>5, <2>2, <3>1, <3>2
  <2> QED BY <2>1, <2>2
<1>7. SeenAreOwn'
  BY <1>1, VoteDone DEF VoteInvariant, SeenAreOwn
<1>8. ChoicesFit'
  <2>1. OneOf({})
    BY DEF OneOf
  <2>2. \A g \in Handlers : request'[g] = IF g = h THEN None ELSE request[g]
    BY <1>1, VoteDone
  <2>3. vote = None => ballots' = {} /\ \A v \in Voters : choice'[v] = {}
    BY <1>1, <1>5 DEF VoteInvariant, ChoicesFit
  <2> QED BY <1>1, <1>5, <2>1, <2>2, <2>3 DEF VoteInvariant, ChoicesFit
<1> QED BY <1>4, <1>6, <1>7, <1>8 DEF VoteInvariant

LEMMA VoteDeleteStep ==
  ASSUME Vote!ConstantsAssumption, VoteInvariant, NEW h \in Handlers, Vote!Delete(h)
  PROVE  VoteInvariant'
<1> DEFINE u == request[h].user
           r == [request[h] EXCEPT !.stage = "insert", !.seen = Vote!BallotsOf(u)]
<1>1. /\ request[h] # None /\ request' = [request EXCEPT ![h] = r]
      /\ UNCHANGED <<members, vote, closed, ballots, requests, choice, overlapped>>
  <2>1. /\ request[h] # None
        /\ request' = [request EXCEPT ![h].stage = "insert", ![h].seen = Vote!BallotsOf(request[h].user)]
        /\ UNCHANGED <<members, vote, closed, ballots, requests, choice, overlapped>>
    BY DEF Vote!Delete
  <2>2. request \in [Handlers -> {None} \cup Vote!Request]
    BY DEF VoteInvariant, Vote!TypeOK
  <2> QED BY <2>1, <2>2
<1>2. r \in Vote!Request /\ r.user = u /\ r.picks = request[h].picks
      /\ r.seen = Vote!BallotsOf(u)
  <2>1. request[h] \in Vote!Request
    BY <1>1, VoteRequestTypes DEF VoteInvariant
  <2>2. Vote!BallotsOf(u) \subseteq Voters \X Options
    BY DEF VoteInvariant, Vote!TypeOK, Vote!BallotsOf
  <2> QED BY <2>1, <2>2 DEF Vote!Request
<1>3. request \in [Handlers -> {None} \cup Vote!Request]
  BY DEF VoteInvariant, Vote!TypeOK
<1> HIDE DEF r
<1>4. request' \in [Handlers -> {None} \cup Vote!Request]
  BY <1>1, <1>2, <1>3
<1>5. \A g \in Handlers : request'[g] = IF g = h THEN r ELSE request[g]
  BY <1>1, <1>3
<1>6. Vote!TypeOK'
  BY <1>1, <1>4 DEF VoteInvariant, Vote!TypeOK
<1>7. ChosenRows'
  BY <1>1 DEF VoteInvariant, ChosenRows, Vote!BallotsOf
<1>8. SeenAreOwn'
  <2>1. \A b \in r.seen : b[1] = r.user
    BY <1>2 DEF Vote!BallotsOf
  <2> QED BY <1>5, <2>1 DEF VoteInvariant, SeenAreOwn
<1>9. ChoicesFit'
  BY <1>1, <1>2, <1>5 DEF VoteInvariant, ChoicesFit
<1> QED BY <1>6, <1>7, <1>8, <1>9 DEF VoteInvariant

LEMMA VoteInsertStep ==
  ASSUME Vote!ConstantsAssumption, VoteInvariant, NEW h \in Handlers, Vote!Insert(h)
  PROVE  VoteInvariant'
<1> DEFINE u    == request[h].user
           new  == {u} \X request[h].picks
           rest == ballots \ request[h].seen
<1>1. /\ request[h] # None /\ Vote!Done(h)
      /\ UNCHANGED <<members, vote, closed, requests>>
      /\ \/ UNCHANGED <<ballots, choice, overlapped>>
         \/ /\ vote # None /\ ballots' = rest \cup new
            /\ choice' = [choice EXCEPT ![u] = request[h].picks]
            /\ overlapped' = IF Vote!BallotsOf(u) # request[h].seen
                               THEN overlapped \cup {u} ELSE overlapped
  BY DEF Vote!Insert
<1>2. /\ u \in Voters /\ request[h].picks \subseteq Options
      /\ \A b \in request[h].seen : b[1] = u
  BY <1>1, VoteRequestTypes DEF VoteInvariant, SeenAreOwn
<1>3. SeenAreOwn'
  BY <1>1, VoteDone DEF VoteInvariant, SeenAreOwn
<1>4. CASE UNCHANGED <<ballots, choice, overlapped>>
  <2>1. Vote!TypeOK'
    BY <1>1, <1>4, VoteDone DEF VoteInvariant, Vote!TypeOK
  <2>2. ChosenRows'
    BY <1>4 DEF VoteInvariant, ChosenRows, Vote!BallotsOf
  <2>3. ChoicesFit'
    BY <1>1, <1>4, VoteDone DEF VoteInvariant, ChoicesFit
  <2> QED BY <1>3, <2>1, <2>2, <2>3 DEF VoteInvariant
<1>5. CASE /\ vote # None /\ ballots' = rest \cup new
           /\ choice' = [choice EXCEPT ![u] = request[h].picks]
           /\ overlapped' = IF Vote!BallotsOf(u) # request[h].seen
                              THEN overlapped \cup {u} ELSE overlapped
  <2>1. /\ choice \in [Voters -> SUBSET Options] /\ overlapped \subseteq Voters
        /\ ballots \subseteq Voters \X Options
    BY DEF VoteInvariant, Vote!TypeOK
  <2>2. /\ ballots' \subseteq Voters \X Options /\ choice' \in [Voters -> SUBSET Options]
        /\ overlapped' \subseteq Voters /\ overlapped \subseteq overlapped'
    BY <1>2, <1>5, <2>1
  <2>3. Vote!TypeOK'
    BY <1>1, <2>2, VoteDone DEF VoteInvariant, Vote!TypeOK
  <2>4. \A v \in Voters : choice'[v] = IF v = u THEN request[h].picks ELSE choice[v]
    BY <1>5, <2>1
  <2>5. ChosenRows'
    <3> SUFFICES ASSUME NEW v \in Voters \ overlapped'
                 PROVE  {b \in ballots' : b[1] = v} = {v} \X choice'[v]
      BY DEF ChosenRows, Vote!BallotsOf
    <3>1. CASE v = u
      <4>1. {b \in ballots : b[1] = u} = request[h].seen
        BY <1>5, <3>1 DEF Vote!BallotsOf
      <4>2. {b \in ballots' : b[1] = u} = new
        BY <1>5, <4>1
      <4> QED BY <2>4, <3>1, <4>2
    <3>2. CASE v # u
      <4>1. {b \in ballots : b[1] = v} = {v} \X choice[v]
        BY <2>2 DEF VoteInvariant, ChosenRows, Vote!BallotsOf
      <4>2. {b \in ballots' : b[1] = v} = {b \in ballots : b[1] = v}
        BY <1>2, <1>5, <3>2
      <4> QED BY <2>4, <3>2, <4>1, <4>2
    <3> QED BY <3>1, <3>2
  <2>6. ChoicesFit'
    <3>1. \A g \in Handlers : request'[g] = IF g = h THEN None ELSE request[g]
      BY <1>1, VoteDone
    <3>2. vote.multiple = FALSE => OneOf(request[h].picks)
      BY <1>1, <1>5 DEF VoteInvariant, ChoicesFit
    <3>3. vote.multiple = FALSE => \A v \in Voters : OneOf(choice'[v])
      BY <1>5, <2>4, <3>2 DEF VoteInvariant, ChoicesFit
    <3> QED BY <1>1, <1>5, <3>1, <3>3 DEF VoteInvariant, ChoicesFit
  <2> QED BY <1>3, <2>3, <2>5, <2>6 DEF VoteInvariant
<1> QED BY <1>1, <1>4, <1>5

\* The steps of one statement.
LEMMA VoteRowStep ==
  ASSUME Vote!ConstantsAssumption, VoteInvariant,
         \/ \E u \in Voters :
              Vote!Remove(u) \/ Vote!Leave(u) \/ \E m \in BOOLEAN : Vote!Create(u, m)
         \/ Vote!Close
  PROVE  VoteInvariant'
<1>1. requests \in 0..VoteRequests /\ VoteRequests \in Nat
  BY DEF VoteInvariant, Vote!TypeOK, Vote!ConstantsAssumption
<1>2. ASSUME NEW u \in Voters, Vote!Remove(u) PROVE VoteInvariant'
  <2>1. /\ vote' = None /\ ballots' = {} /\ choice' = [v \in Voters |-> {}]
        /\ requests < VoteRequests /\ requests' = requests + 1
        /\ UNCHANGED <<members, closed, request, overlapped>>
    BY <1>2 DEF Vote!Remove, Vote!NewRequest
  <2>2. requests' \in 0..VoteRequests /\ requests' # 0
    BY <1>1, <2>1
  <2>3. Vote!TypeOK'
    BY <2>1, <2>2 DEF VoteInvariant, Vote!TypeOK
  <2>4. ChosenRows'
    BY <2>1 DEF ChosenRows, Vote!BallotsOf
  <2>5. SeenAreOwn' /\ ChoicesFit'
    BY <2>1, <2>2 DEF VoteInvariant, SeenAreOwn, ChoicesFit
  <2> QED BY <2>3, <2>4, <2>5 DEF VoteInvariant
<1>3. ASSUME NEW u \in Voters, NEW m \in BOOLEAN, Vote!Create(u, m) PROVE VoteInvariant'
  <2>1. /\ u \in members /\ vote = None /\ requests = 0
        /\ vote' = [creator |-> u, multiple |-> m]
        /\ requests < VoteRequests /\ requests' = requests + 1
        /\ UNCHANGED <<members, closed, ballots, request, choice, overlapped>>
    BY <1>3 DEF Vote!Create, Vote!NewRequest
  <2>2. requests' \in 0..VoteRequests /\ requests' # 0
    BY <1>1, <2>1
  <2>3. vote' \in Vote!Row
    BY <2>1 DEF Vote!Row
  <2>4. vote' # None
    BY <2>3 DEF Vote!ConstantsAssumption
  <2>5. Vote!TypeOK'
    BY <2>1, <2>2, <2>3 DEF VoteInvariant, Vote!TypeOK
  <2>6. ChosenRows' /\ SeenAreOwn'
    BY <2>1 DEF VoteInvariant, ChosenRows, Vote!BallotsOf, SeenAreOwn
  <2>7. \A h \in Handlers : request'[h] = None
    BY <2>1 DEF VoteInvariant, ChoicesFit
  <2>8. \A v \in Voters : OneOf(choice'[v])
    BY <2>1 DEF VoteInvariant, ChoicesFit, OneOf
  <2>9. ChoicesFit'
    BY <2>2, <2>4, <2>7, <2>8 DEF ChoicesFit
  <2> QED BY <2>5, <2>6, <2>9 DEF VoteInvariant
<1>4. CASE (\E u \in Voters : Vote!Leave(u)) \/ Vote!Close
  <2>1. /\ members' \subseteq Voters /\ closed' \in BOOLEAN
        /\ UNCHANGED <<vote, ballots, request, requests, choice, overlapped>>
    BY <1>4 DEF VoteInvariant, Vote!TypeOK, Vote!Leave, Vote!Close
  <2>2. Vote!TypeOK'
    BY <2>1 DEF VoteInvariant, Vote!TypeOK
  <2> QED BY <2>1, <2>2 DEF VoteInvariant, ChosenRows, Vote!BallotsOf, SeenAreOwn, ChoicesFit
<1> QED BY <1>2, <1>3, <1>4

LEMMA VoteInvariantStep ==
  ASSUME Vote!ConstantsAssumption, VoteInvariant, [Vote!Next]_(Vote!vars)
  PROVE  VoteInvariant'
<1>1. ASSUME NEW h \in Handlers,
             \/ \E u \in Voters, picks \in SUBSET Options : Vote!Begin(h, u, picks)
             \/ Vote!Cancel(h) \/ Vote!Delete(h) \/ Vote!Insert(h)
      PROVE  VoteInvariant'
  BY <1>1, VoteBeginStep, VoteCancelStep, VoteDeleteStep, VoteInsertStep
<1>2. CASE \/ \E u \in Voters :
                Vote!Remove(u) \/ Vote!Leave(u) \/ \E m \in BOOLEAN : Vote!Create(u, m)
           \/ Vote!Close
  BY <1>2, VoteRowStep
<1>3. CASE UNCHANGED Vote!vars
  BY <1>3 DEF Vote!vars, VoteInvariant, Vote!TypeOK, ChosenRows, Vote!BallotsOf, SeenAreOwn,
              ChoicesFit
<1> QED BY <1>1, <1>2, <1>3 DEF Vote!Next

LEMMA VoteInvariantInit ==
  ASSUME Vote!ConstantsAssumption, Vote!Init
  PROVE  VoteInvariant
<1>1. /\ members = Voters /\ vote = None /\ closed = FALSE /\ ballots = {}
      /\ request = [h \in Handlers |-> None] /\ requests = 0
      /\ choice = [u \in Voters |-> {}] /\ overlapped = {}
  BY DEF Vote!Init
<1>2. requests \in 0..VoteRequests
  BY <1>1 DEF Vote!ConstantsAssumption
<1>3. Vote!TypeOK
  BY <1>1, <1>2 DEF Vote!TypeOK
<1>4. ChosenRows
  BY <1>1 DEF ChosenRows, Vote!BallotsOf
<1>5. SeenAreOwn /\ ChoicesFit
  BY <1>1 DEF SeenAreOwn, ChoicesFit
<1> QED BY <1>3, <1>4, <1>5 DEF VoteInvariant

\* In a vote of one choice the rows are as many as the users they are of.
LEMMA RowsAreVoters ==
  ASSUME Vote!ConstantsAssumption, VoteInvariant,
         vote # None, vote.multiple = FALSE, overlapped = {}
  PROVE  Cardinality(ballots) = Cardinality({b[1] : b \in ballots})
<1> DEFINE T == {b[1] : b \in ballots}
           f == [b \in ballots |-> b[1]]
<1>1. IsFiniteSet(ballots)
  <2>1. IsFiniteSet(Voters) /\ IsFiniteSet(Options)
    BY DEF Vote!ConstantsAssumption, Vote!IsFiniteSet, IsFiniteSet
  <2>2. IsFiniteSet(Voters \X Options)
    BY <2>1, FS_Product
  <2>3. ballots \subseteq Voters \X Options
    BY DEF VoteInvariant, Vote!TypeOK
  <2> QED BY <2>2, <2>3, FS_Subset
<1>2. f \in Surjection(ballots, T)
  BY DEF Surjection
<1>3. \A b, c \in ballots : b[1] = c[1] => b = c
  <2> SUFFICES ASSUME NEW b \in ballots, NEW c \in ballots, b[1] = c[1] PROVE b = c
    OBVIOUS
  <2>1. b \in Voters \X Options /\ c \in Voters \X Options
    BY DEF VoteInvariant, Vote!TypeOK
  <2>2. b[1] \in Voters
    BY <2>1
  <2>3. b \in {b[1]} \X choice[b[1]] /\ c \in {b[1]} \X choice[b[1]]
    BY <2>2 DEF VoteInvariant, ChosenRows, Vote!BallotsOf
  <2>4. b[2] = c[2]
    BY <2>2, <2>3 DEF VoteInvariant, ChoicesFit, OneOf
  <2> QED BY <2>1, <2>4
<1>4. f \in Injection(ballots, T)
  BY <1>2, <1>3 DEF Surjection, Injection, IsInjective
<1> HIDE DEF f, T
<1>5. Cardinality(T) = Cardinality(ballots)
  BY <1>1, <1>2, <1>4, FS_Surjection
<1> QED BY <1>5 DEF T

LEMMA VoteFromInvariant ==
  ASSUME Vote!ConstantsAssumption, VoteInvariant
  PROVE  Vote!BallotsFollowChoice
<1>1. ASSUME NEW u \in Voters \ overlapped PROVE Vote!Shown(u).selected = choice[u]
  <2>1. choice[u] \subseteq Options
    BY DEF VoteInvariant, Vote!TypeOK
  <2>2. {b \in ballots : b[1] = u} = {u} \X choice[u]
    BY DEF VoteInvariant, ChosenRows, Vote!BallotsOf
  <2>3. {o \in Options : <<u, o>> \in ballots} = choice[u]
    BY <2>1, <2>2
  <2> QED BY <2>3 DEF Vote!Shown
<1>2. ASSUME NEW u \in members, vote # None, ~vote.multiple, overlapped = {}
      PROVE  Vote!Shown(u).counted = Vote!Shown(u).totalVoters
  <2>1. vote.multiple = FALSE
    BY <1>2 DEF VoteInvariant, Vote!TypeOK, Vote!Row
  <2>2. Vote!Cardinality(ballots) = Vote!Cardinality({b[1] : b \in ballots})
    BY <1>2, <2>1, RowsAreVoters, VoteCardinality
  <2> QED BY <2>2 DEF Vote!Shown
<1>3. ASSUME NEW u \in members
      PROVE  Vote!Listed("ONGOING")
               = IF Vote!Shown(u).ongoing THEN Vote!Listed("ALL") ELSE {}
  BY DEF VoteInvariant, Vote!TypeOK, Vote!Listed, Vote!Shown
<1> QED BY <1>1, <1>2, <1>3 DEF Vote!BallotsFollowChoice

\* The vote, its rows and its requests keep their shapes (the tables of votes).
THEOREM VotesTypeCorrect ==
  ASSUME Vote!ConstantsAssumption
  PROVE  Vote!Spec => []Vote!TypeOK
<1>1. VoteInvariant => Vote!TypeOK
  BY DEF VoteInvariant
<1> QED BY VoteInvariantInit, VoteInvariantStep, <1>1, PTL DEF Vote!Spec

\* What a user is shown as chosen is what his last request chose, and in a vote of one
\* choice the rows are as many as the voters, unless two requests of one user overlapped
\* (castBallot and cancelBallot, which delete and insert in one transaction).
THEOREM BallotsFollowChoiceHolds ==
  ASSUME Vote!ConstantsAssumption
  PROVE  Vote!Spec => []Vote!BallotsFollowChoice
BY VoteInvariantInit, VoteInvariantStep, VoteFromInvariant, PTL DEF Vote!Spec

-----------------------------------------------------------------------------
(* Questions: what the status of a question says of its answers.           *)

\* A request belongs to a question; one that counts as answered was answered as it reads,
\* also when it has been deleted since.
QuestionAsked ==
  /\ \A h \in Handlers : request[h] # None => question # None
  /\ \A a \in Answers : answers[a] # None => question # None
AnsweredAsRead ==
  question # None /\ question.status # "PENDING" => replied = question.text \/ outdated

QuestionInvariant == Question!TypeOK /\ QuestionAsked /\ AnsweredAsRead

\* What a request of a question has read.
LEMMA QuestionRequestTypes ==
  ASSUME Question!TypeOK, NEW h \in Handlers, request[h] # None
  PROVE  /\ request[h] \in Question!Request /\ request[h].text \in Nat
         /\ request[h].kind = "update" => /\ request[h].status \in {"PENDING", "ANSWERED"}
                                          /\ request[h].more \in {None, "PUBLIC", "PRIVATE"}
         /\ request[h].kind = "answer" => request[h].more \in Answers
<1>1. request[h] \in Question!Request
  BY DEF Question!TypeOK
<1> QED BY <1>1 DEF Question!Request

\* A request comes in.
LEMMA QuestionReadStep ==
  ASSUME Question!ConstantsAssumption, QuestionInvariant, NEW h \in Handlers,
         \/ \E v \in {None, "PUBLIC", "PRIVATE"} : Question!UpdateRead(h, v)
         \/ Question!ResolveRead(h) \/ \E a \in Answers : Question!AnswerRead(h, a)
  PROVE  QuestionInvariant'
<1>1. /\ question # None /\ Question!NewRequest
      /\ UNCHANGED <<question, answers, weeks, replied, outdated>>
  BY DEF Question!UpdateRead, Question!ResolveRead, Question!AnswerRead, Question!Exists
<1>2. question \in Question!Row
  BY <1>1 DEF QuestionInvariant, Question!TypeOK
<1>3. /\ question.status \in {"PENDING", "ANSWERED", "RESOLVED"} /\ question.text \in Nat
  BY <1>2 DEF Question!Row
<1>4. PICK r \in Question!Request : request' = [request EXCEPT ![h] = r]
  <2>1. ASSUME NEW v \in {None, "PUBLIC", "PRIVATE"}, Question!UpdateRead(h, v)
        PROVE  \E r \in Question!Request : request' = [request EXCEPT ![h] = r]
    <3>1. [kind |-> "update", status |-> question.status, text |-> question.text, more |-> v]
            \in Question!Request
      BY <1>3, <2>1 DEF Question!Request, Question!UpdateRead
    <3> QED BY <2>1, <3>1 DEF Question!UpdateRead, Question!Read
  <2>2. CASE Question!ResolveRead(h)
    <3>1. [kind |-> "resolve", status |-> question.status, text |-> question.text, more |-> None]
            \in Question!Request
      BY <1>3, <2>2 DEF Question!Request, Question!ResolveRead
    <3> QED BY <2>2, <3>1 DEF Question!ResolveRead, Question!Read
  <2>3. ASSUME NEW a \in Answers, Question!AnswerRead(h, a)
        PROVE  \E r \in Question!Request : request' = [request EXCEPT ![h] = r]
    <3>1. [kind |-> "answer", status |-> question.status, text |-> question.text, more |-> a]
            \in Question!Request
      BY <1>3 DEF Question!Request
    <3> QED BY <2>3, <3>1 DEF Question!AnswerRead, Question!Read
  <2> QED BY <2>1, <2>2, <2>3
<1>5. request' \in [Handlers -> {None} \cup Question!Request]
  BY <1>4 DEF QuestionInvariant, Question!TypeOK
<1>6. requests' \in 0..QuestionRequests
  <2>1. requests \in 0..QuestionRequests /\ QuestionRequests \in Nat
    BY DEF QuestionInvariant, Question!TypeOK, Question!ConstantsAssumption
  <2>2. requests < QuestionRequests /\ requests' = requests + 1
    BY <1>1 DEF Question!NewRequest
  <2> QED BY <2>1, <2>2
<1>7. Question!TypeOK'
  BY <1>1, <1>5, <1>6 DEF QuestionInvariant, Question!TypeOK
<1> QED BY <1>1, <1>7 DEF QuestionInvariant, QuestionAsked, AnsweredAsRead

\* A request writes.
LEMMA QuestionWriteStep ==
  ASSUME Question!ConstantsAssumption, QuestionInvariant, NEW h \in Handlers,
         Question!UpdateWrite(h) \/ Question!ResolveWrite(h) \/ Question!AnswerWrite(h)
  PROVE  QuestionInvariant'
<1> DEFINE r == request[h]
<1>1. /\ r # None /\ request' = [request EXCEPT ![h] = None]
      /\ UNCHANGED <<requests, weeks>>
  BY DEF Question!UpdateWrite, Question!ResolveWrite, Question!AnswerWrite, Question!Doing,
         Question!Done
<1>2. question # None /\ question \in Question!Row
  BY <1>1 DEF QuestionInvariant, QuestionAsked, Question!TypeOK
<1>3. /\ r.text \in Nat
      /\ r.kind = "answer" => r.more \in Answers
      /\ r.kind = "update" => /\ r.status \in {"PENDING", "ANSWERED"}
                              /\ r.more \in {None, "PUBLIC", "PRIVATE"}
  BY <1>1, QuestionRequestTypes DEF QuestionInvariant
<1>4. \A q \in Question!Row : q # None
  BY DEF Question!ConstantsAssumption
<1>5. request' \in [Handlers -> {None} \cup Question!Request]
  BY <1>1 DEF QuestionInvariant, Question!TypeOK
<1>6. CASE Question!UpdateWrite(h)
  <2> DEFINE v == IF r.more = None THEN question.visibility ELSE r.more
             s == IF r.status = "ANSWERED" THEN "PENDING" ELSE question.status
             q == [question EXCEPT !.text = question.text + 1, !.visibility = v, !.status = s]
  <2>1. /\ question' = [q EXCEPT !.old = FALSE]
        /\ outdated' = (outdated \/ question.status # r.status)
        /\ UNCHANGED <<answers, replied>>
    BY <1>6 DEF Question!UpdateWrite, Question!Touched
  <2>2. r.kind = "update"
    BY <1>6 DEF Question!UpdateWrite, Question!Doing
  <2>3. v \in {"PUBLIC", "PRIVATE"} /\ s \in {"PENDING", "ANSWERED", "RESOLVED"}
    BY <1>2, <1>3, <2>2 DEF Question!Row
  <2>4. question' \in Question!Row /\ question'.status = s
    <3>1. question.text + 1 \in Nat
      BY <1>2 DEF Question!Row
    <3>2. q \in Question!Row /\ q.status = s
      BY <1>2, <2>3, <3>1 DEF Question!Row
    <3> HIDE DEF q, s, v
    <3> QED BY <2>1, <3>2 DEF Question!Row
  <2>5. outdated' \in BOOLEAN
    BY <2>1 DEF QuestionInvariant, Question!TypeOK
  <2>6. Question!TypeOK'
    BY <1>1, <1>5, <2>1, <2>4, <2>5 DEF QuestionInvariant, Question!TypeOK
  <2>7. s = "PENDING" \/ outdated'
    BY <1>3, <2>1, <2>2
  <2> QED BY <1>4, <2>4, <2>6, <2>7 DEF QuestionInvariant, QuestionAsked, AnsweredAsRead
<1>7. CASE Question!ResolveWrite(h)
  <2> DEFINE q == [question EXCEPT !.status = "RESOLVED"]
  <2>1. /\ question' = [q EXCEPT !.old = FALSE]
        /\ outdated' = (outdated \/ question.status # "ANSWERED" \/ question.text # r.text)
        /\ UNCHANGED <<answers, replied>>
    BY <1>7 DEF Question!ResolveWrite, Question!Touched
  <2>2. question' \in Question!Row /\ question'.text = question.text
    BY <1>2, <2>1 DEF Question!Row
  <2>3. outdated' \in BOOLEAN
    BY <2>1 DEF QuestionInvariant, Question!TypeOK
  <2>4. Question!TypeOK'
    BY <1>1, <1>5, <2>1, <2>2, <2>3 DEF QuestionInvariant, Question!TypeOK
  <2>5. replied = question.text \/ outdated'
    BY <1>2, <2>1 DEF QuestionInvariant, AnsweredAsRead
  <2> QED BY <1>4, <2>1, <2>2, <2>4, <2>5 DEF QuestionInvariant, QuestionAsked, AnsweredAsRead
<1>8. CASE Question!AnswerWrite(h)
  <2> DEFINE q == [question EXCEPT !.status = "ANSWERED"]
  <2>1. /\ question' = [q EXCEPT !.old = FALSE] /\ replied' = r.text
        /\ outdated' = (outdated \/ question.text # r.text)
        /\ answers' = [answers EXCEPT ![r.more] = r.text]
    BY <1>8 DEF Question!AnswerWrite, Question!Touched
  <2>2. question' \in Question!Row /\ question'.text = question.text
    BY <1>2, <2>1 DEF Question!Row
  <2>0. r.more \in Answers
    <3>1. r.kind = "answer"
      BY <1>8 DEF Question!AnswerWrite, Question!Doing
    <3> QED BY <1>3, <3>1
  <2>3. /\ outdated' \in BOOLEAN /\ replied' \in Nat
        /\ answers' \in [Answers -> {None} \cup Nat]
    <3>1. outdated' \in BOOLEAN
      BY <2>1 DEF QuestionInvariant, Question!TypeOK
    <3>2. answers \in [Answers -> {None} \cup Nat]
      BY DEF QuestionInvariant, Question!TypeOK
    <3>3. r.text \in Nat
      BY <1>3
    <3>4. answers' = [answers EXCEPT ![r.more] = r.text] /\ replied' = r.text
      BY <2>1
    <3> HIDE DEF r
    <3>5. answers' \in [Answers -> {None} \cup Nat]
      BY <2>0, <3>2, <3>3, <3>4
    <3> QED BY <3>1, <3>3, <3>4, <3>5
  <2>4. Question!TypeOK'
    BY <1>1, <1>5, <2>2, <2>3 DEF QuestionInvariant, Question!TypeOK
  <2>5. replied' = question'.text \/ outdated'
    BY <2>1, <2>2
  <2> QED BY <1>4, <2>2, <2>4, <2>5 DEF QuestionInvariant, QuestionAsked, AnsweredAsRead
<1> QED BY <1>6, <1>7, <1>8

\* The steps of one statement.
LEMMA QuestionRowStep ==
  ASSUME Question!ConstantsAssumption, QuestionInvariant,
         \/ \E v \in {"PUBLIC", "PRIVATE"} : Question!Create(v)
         \/ Question!Remove \/ Question!AutoResolve \/ Question!Week
  PROVE  QuestionInvariant'
<1>1. UNCHANGED <<answers, request, replied, outdated>>
  BY DEF Question!Create, Question!Remove, Question!AutoResolve, Question!Week
<1>2. requests' \in 0..QuestionRequests
  <2>1. requests \in 0..QuestionRequests /\ QuestionRequests \in Nat
    BY DEF QuestionInvariant, Question!TypeOK, Question!ConstantsAssumption
  <2>2. requests' = requests \/ Question!NewRequest
    BY DEF Question!Create, Question!Remove, Question!AutoResolve, Question!Week
  <2> QED BY <2>1, <2>2 DEF Question!NewRequest
<1>3. weeks' \in 0..QuestionWeeks
  BY DEF QuestionInvariant, Question!TypeOK, Question!ConstantsAssumption, Question!Create,
         Question!Remove, Question!AutoResolve, Question!Week
<1>4. question' \in Question!Row
  <2>1. ASSUME NEW v \in {"PUBLIC", "PRIVATE"}, Question!Create(v) PROVE question' \in Question!Row
    BY <2>1 DEF Question!Create, Question!Row
  <2>2. CASE Question!Remove \/ Question!AutoResolve \/ Question!Week
    <3>1. question \in Question!Row
      BY <2>2 DEF QuestionInvariant, Question!TypeOK, Question!Remove, Question!AutoResolve,
                  Question!Week, Question!Exists
    <3>2. /\ [question EXCEPT !.deleted = TRUE] \in Question!Row
          /\ [question EXCEPT !.status = "RESOLVED"] \in Question!Row
          /\ [question EXCEPT !.old = TRUE] \in Question!Row
      BY <3>1 DEF Question!Row
    <3>3. \A q \in Question!Row : Question!Touched(q) \in Question!Row
      BY DEF Question!Row, Question!Touched
    <3> QED BY <2>2, <3>2, <3>3 DEF Question!Remove, Question!AutoResolve, Question!Week
  <2> QED BY <2>1, <2>2
<1>5. question' # None
  BY <1>4 DEF Question!ConstantsAssumption
<1>6. Question!TypeOK'
  BY <1>1, <1>2, <1>3, <1>4 DEF QuestionInvariant, Question!TypeOK
<1>7. AnsweredAsRead'
  <2>1. ASSUME NEW v \in {"PUBLIC", "PRIVATE"}, Question!Create(v) PROVE question'.status = "PENDING"
    BY <2>1 DEF Question!Create
  <2>2. CASE Question!Remove \/ Question!AutoResolve \/ Question!Week
    <3>1. question # None /\ question \in Question!Row
      BY <2>2 DEF QuestionInvariant, Question!TypeOK, Question!Remove, Question!AutoResolve,
                  Question!Week, Question!Exists
    <3>2. /\ question'.text = question.text
          /\ question'.status = question.status \/ question.status = "ANSWERED"
      BY <2>2, <3>1 DEF Question!Remove, Question!AutoResolve, Question!Week, Question!Touched,
                        Question!Row
    <3> QED BY <1>1, <3>1, <3>2 DEF QuestionInvariant, AnsweredAsRead
  <2> QED BY <2>1, <2>2 DEF AnsweredAsRead
<1> QED BY <1>5, <1>6, <1>7 DEF QuestionInvariant, QuestionAsked

\* An answer is edited or deleted.
LEMMA AnswerStep ==
  ASSUME Question!ConstantsAssumption, QuestionInvariant, NEW a \in Answers,
         Question!UpdateAnswer(a) \/ Question!RemoveAnswer(a)
  PROVE  QuestionInvariant'
<1>1. /\ answers[a] # None /\ Question!NewRequest
      /\ UNCHANGED <<question, request, weeks, replied, outdated>>
  BY DEF Question!UpdateAnswer, Question!RemoveAnswer
<1>2. question # None /\ question \in Question!Row
  BY <1>1 DEF QuestionInvariant, QuestionAsked, Question!TypeOK
<1>3. answers' \in [Answers -> {None} \cup Nat]
  <2>1. question.text \in Nat
    BY <1>2 DEF Question!Row
  <2> QED BY <2>1 DEF QuestionInvariant, Question!TypeOK, Question!UpdateAnswer,
                      Question!RemoveAnswer, Question!Deleted
<1>4. requests' \in 0..QuestionRequests
  <2>1. requests \in 0..QuestionRequests /\ QuestionRequests \in Nat
    BY DEF QuestionInvariant, Question!TypeOK, Question!ConstantsAssumption
  <2>2. requests < QuestionRequests /\ requests' = requests + 1
    BY <1>1 DEF Question!NewRequest
  <2> QED BY <2>1, <2>2
<1>5. Question!TypeOK'
  BY <1>1, <1>3, <1>4 DEF QuestionInvariant, Question!TypeOK
<1> QED BY <1>1, <1>2, <1>5 DEF QuestionInvariant, QuestionAsked, AnsweredAsRead

LEMMA QuestionInvariantStep ==
  ASSUME Question!ConstantsAssumption, QuestionInvariant, [Question!Next]_(Question!vars)
  PROVE  QuestionInvariant'
<1>1. CASE \/ \E v \in {"PUBLIC", "PRIVATE"} : Question!Create(v)
           \/ Question!Remove \/ Question!AutoResolve \/ Question!Week
  BY <1>1, QuestionRowStep
<1>2. ASSUME NEW h \in Handlers,
             \/ \E v \in {None, "PUBLIC", "PRIVATE"} : Question!UpdateRead(h, v)
             \/ Question!UpdateWrite(h) \/ Question!ResolveRead(h) \/ Question!ResolveWrite(h)
             \/ Question!AnswerWrite(h) \/ \E a \in Answers : Question!AnswerRead(h, a)
      PROVE  QuestionInvariant'
  BY <1>2, QuestionReadStep, QuestionWriteStep
<1>3. ASSUME NEW a \in Answers, Question!UpdateAnswer(a) \/ Question!RemoveAnswer(a)
      PROVE  QuestionInvariant'
  BY <1>3, AnswerStep
<1>4. CASE UNCHANGED Question!vars
  BY <1>4 DEF Question!vars, QuestionInvariant, Question!TypeOK, QuestionAsked, AnsweredAsRead
<1> QED BY <1>1, <1>2, <1>3, <1>4 DEF Question!Next

LEMMA QuestionInvariantInit ==
  ASSUME Question!ConstantsAssumption, Question!Init
  PROVE  QuestionInvariant
<1>1. Question!TypeOK
  <2>1. requests \in 0..QuestionRequests /\ weeks \in 0..QuestionWeeks
    BY DEF Question!ConstantsAssumption, Question!Init
  <2> QED BY <2>1 DEF Question!Init, Question!TypeOK
<1>2. QuestionAsked
  BY DEF Question!Init, QuestionAsked
<1>3. AnsweredAsRead
  BY DEF Question!Init, AnsweredAsRead
<1> QED BY <1>1, <1>2, <1>3 DEF QuestionInvariant

\* The operators' numbers count one question at most.
LEMMA StatisticsAddUp ==
  Question!Statistics.pending + Question!Statistics.answered <= Question!Statistics.total
<1> DEFINE pending  == {q \in Question!All : q.status = "PENDING"}
           answered == {q \in Question!All : q.status = "ANSWERED"}
<1>1. /\ Question!Statistics.pending = Cardinality(pending)
      /\ Question!Statistics.answered = Cardinality(answered)
      /\ Question!Statistics.total = Cardinality(Question!All)
  <2> DEFINE t == Cardinality(Question!All)
             p == Cardinality(pending)
             a == Cardinality(answered)
  <2>1. Question!Statistics = [total |-> t, pending |-> p, answered |-> a]
    BY Zenon DEF Question!Statistics, Cardinality, Question!Cardinality
  <2> HIDE DEF t, p, a
  <2>2. Question!Statistics.total = t /\ Question!Statistics.pending = p
        /\ Question!Statistics.answered = a
    BY <2>1
  <2> QED BY <2>2 DEF t, p, a
<1>2. \A x : Cardinality({x}) = 1
  BY FS_Singleton
<1>3. Cardinality({}) = 0
  BY FS_EmptySet
<1>4. Question!All = IF Question!Exists THEN {question} ELSE {}
  BY DEF Question!All
<1>5. CASE ~Question!Exists
  <2>1. Question!All = {} /\ pending = {} /\ answered = {}
    BY <1>4, <1>5
  <2> QED BY <1>1, <1>3, <2>1
<1>6. CASE Question!Exists
  <2>1. Question!All = {question}
    BY <1>4, <1>6
  <2>2. \/ pending = {} /\ answered = {}
        \/ pending = {question} /\ answered = {}
        \/ pending = {} /\ answered = {question}
    BY <2>1
  <2>3. Cardinality(Question!All) = 1
    BY <1>2, <2>1
  <2>4. \/ Cardinality(pending) = 0 /\ Cardinality(answered) = 0
        \/ Cardinality(pending) = 1 /\ Cardinality(answered) = 0
        \/ Cardinality(pending) = 0 /\ Cardinality(answered) = 1
    BY <1>2, <1>3, <2>2
  <2> QED BY <1>1, <2>3, <2>4
<1> QED BY <1>5, <1>6

LEMMA QuestionFromInvariant ==
  ASSUME Question!ConstantsAssumption, QuestionInvariant
  PROVE  Question!AnswersFitQuestion
<1>1. Question!Exists /\ question.status # "PENDING" => replied = question.text \/ outdated
  BY DEF QuestionInvariant, AnsweredAsRead, Question!Exists
<1>2. ASSUME Question!Exists, question.visibility = "PRIVATE",
             NEW u \in (Readers \cup {None}) \ {Author, Admin}
      PROVE  /\ Question!FindOne(u) = {}
             /\ \A f \in {"all", "my", "public"} : Question!FindQuestions(u, f) = {}
  <2>1. Question!FindOne(u) = {}
    BY <1>2 DEF Question!FindOne, Question!Visible
  <2>2. ASSUME NEW f \in {"all", "my", "public"} PROVE Question!FindQuestions(u, f) = {}
    <3>1. \A q \in Question!All : q.visibility = "PRIVATE"
      BY <1>2 DEF Question!All
    <3> QED BY <1>2, <3>1 DEF Question!FindQuestions
  <2> QED BY <2>1, <2>2
<1> QED BY <1>1, <1>2, StatisticsAddUp DEF Question!AnswersFitQuestion

\* Questions, answers and requests keep their shapes (the tables and handlers of qna).
THEOREM QuestionsTypeCorrect ==
  ASSUME Question!ConstantsAssumption
  PROVE  Question!Spec => []Question!TypeOK
<1>1. QuestionInvariant => Question!TypeOK
  BY DEF QuestionInvariant
<1> QED BY QuestionInvariantInit, QuestionInvariantStep, <1>1, PTL DEF Question!Spec

\* A question that counts as answered or resolved was answered as it now reads, unless a
\* write went through on what had changed since it was read, and a private one is shown to
\* its author and the operators only (update, createAnswer, resolve and the job).
THEOREM AnswersFitQuestionHolds ==
  ASSUME Question!ConstantsAssumption
  PROVE  Question!Spec => []Question!AnswersFitQuestion
BY QuestionInvariantInit, QuestionInvariantStep, QuestionFromInvariant, PTL DEF Question!Spec

-----------------------------------------------------------------------------
(* Budgets: one row per key, and the month a new template fills.           *)

\* In a list of steps the month is filled right after its template is written; some lists
\* only set budgets.
FillsFollow(todo) ==
  \A i \in 1..Len(todo) : todo[i].table = "template" /\ todo[i].how = "set" =>
    /\ i + 1 \in 1..Len(todo) /\ todo[i + 1].table = "budget" /\ todo[i + 1].key = todo[i].key
    /\ todo[i + 1].how \in {"fill", "fillIfNew"}
SetsOnly(todo) == \A i \in 1..Len(todo) : todo[i].table = "budget" /\ todo[i].how = "set"

Top(r) == r.todo[1]
RowsOf(s, m) == IF s.table = "template" THEN templates[s.key] ELSE budgets[s.key][m]
SameRow(r, q) == Top(r).table = Top(q).table /\ Top(r).key = Top(q).key /\ r.month = q.month

\* The next step of a request fills a month of a new template.
OwesFill(r, k, m) ==
  /\ r # None /\ r.todo # <<>> /\ r.month = m /\ Top(r).table = "budget" /\ Top(r).key = k
  /\ Top(r).how = "fill" \/ (Top(r).how = "fillIfNew" /\ r.new = TRUE)

PlansFit ==
  \A h \in Handlers : request[h] # None =>
    FillsFollow(request[h].todo) /\ (request[h].month = month \/ SetsOnly(request[h].todo))

\* What was found is still so, but for keys that were looked up by two.
FoundFits(r) ==
  r.found # "unknown" =>
    /\ r.todo # <<>> /\ Top(r).how # "probe" /\ ~Budget!Upserts(Top(r))
    /\ Top(r).how = "fillIfNew" => r.new = TRUE
    /\ r.found = "yes" /\ Top(r).table = "budget" => budgets[Top(r).key][r.month] > 0
    /\ r.found = "no" => Top(r).key \in looked \/ RowsOf(Top(r), r.month) = 0
FoundStill == \A h \in Handlers : request[h] # None => FoundFits(request[h])
FoundByOne ==
  \A h, o \in Handlers :
    /\ h # o /\ request[h] # None /\ request[o] # None
    /\ request[h].found = "no" /\ request[o].found = "no" /\ SameRow(request[h], request[o])
    => Top(request[h]).key \in looked

OneRow ==
  \A k \in Budget!Keys \ looked :
    templates[k] <= 1 /\ \A m \in Budget!Months : budgets[k][m] <= 1
FillsOwed ==
  \A k \in registered \ looked :
    budgets[k][month] > 0 \/ \E h \in Handlers : OwesFill(request[h], k, month)

BudgetInvariant ==
  Budget!TypeOK /\ PlansFit /\ FoundStill /\ FoundByOne /\ OneRow /\ FillsOwed

\* The steps that are left.
LEMMA BudgetTail ==
  ASSUME NEW todo \in Seq(Budget!Steps), todo # <<>>
  PROVE  /\ Head(todo) = todo[1] /\ todo[1] \in Budget!Steps /\ Tail(todo) \in Seq(Budget!Steps)
         /\ FillsFollow(todo) => FillsFollow(Tail(todo))
         /\ SetsOnly(todo) => SetsOnly(Tail(todo))
         /\ todo[1].table = "template" => ~SetsOnly(todo)
         /\ FillsFollow(todo) /\ todo[1].table = "template" /\ todo[1].how = "set" =>
              /\ Len(todo) > 1 /\ Tail(todo) # <<>> /\ Tail(todo)[1] = todo[2]
              /\ todo[2].table = "budget" /\ todo[2].key = todo[1].key
              /\ todo[2].how \in {"fill", "fillIfNew"}
<1> DEFINE tail == Tail(todo)
<1>1. /\ Len(todo) \in Nat /\ Len(todo) >= 1 /\ 1 \in 1..Len(todo)
      /\ Head(todo) = todo[1] /\ todo[1] \in Budget!Steps
      /\ tail \in Seq(Budget!Steps) /\ Len(tail) = Len(todo) - 1
      /\ \A i \in 1..Len(tail) : tail[i] = todo[i + 1]
  <2>1. Len(todo) \in Nat /\ todo \in [1..Len(todo) -> Budget!Steps]
    OBVIOUS
  <2>2. Len(todo) # 0
    BY EmptySeq
  <2>3. /\ tail \in Seq(Budget!Steps) /\ Len(tail) = Len(todo) - 1
        /\ \A i \in 1..Len(tail) : tail[i] = todo[i + 1]
    BY HeadTailProperties
  <2>4. Head(todo) = todo[1]
    OBVIOUS
  <2> QED BY <2>1, <2>2, <2>3, <2>4
<1>2. \A i \in 1..Len(tail) : i + 1 \in 1..Len(todo)
  BY <1>1
<1> HIDE DEF tail
<1>3. FillsFollow(todo) => FillsFollow(tail)
  <2> SUFFICES ASSUME FillsFollow(todo), NEW i \in 1..Len(tail), tail[i].table = "template",
                      tail[i].how = "set"
               PROVE  /\ i + 1 \in 1..Len(tail) /\ tail[i + 1].table = "budget"
                      /\ tail[i + 1].key = tail[i].key
                      /\ tail[i + 1].how \in {"fill", "fillIfNew"}
    BY DEF FillsFollow
  <2>1. i + 1 \in 1..Len(todo) /\ tail[i] = todo[i + 1]
    BY <1>1, <1>2
  <2>2. /\ i + 1 + 1 \in 1..Len(todo) /\ todo[i + 1 + 1].table = "budget"
        /\ todo[i + 1 + 1].key = todo[i + 1].key
        /\ todo[i + 1 + 1].how \in {"fill", "fillIfNew"}
    BY <2>1 DEF FillsFollow
  <2>3. i + 1 \in 1..Len(tail)
    BY <1>1, <2>2
  <2>4. tail[i + 1] = todo[i + 1 + 1]
    BY <1>1, <2>3
  <2> QED BY <2>1, <2>2, <2>3, <2>4
<1>4. SetsOnly(todo) => SetsOnly(tail)
  BY <1>1, <1>2 DEF SetsOnly
<1>5. todo[1].table = "template" => ~SetsOnly(todo)
  BY <1>1 DEF SetsOnly
<1>6. ASSUME FillsFollow(todo), todo[1].table = "template", todo[1].how = "set"
      PROVE  /\ Len(todo) > 1 /\ tail # <<>> /\ tail[1] = todo[2]
             /\ todo[2].table = "budget" /\ todo[2].key = todo[1].key
             /\ todo[2].how \in {"fill", "fillIfNew"}
  <2>1. /\ 1 + 1 \in 1..Len(todo) /\ todo[1 + 1].table = "budget"
        /\ todo[1 + 1].key = todo[1].key /\ todo[1 + 1].how \in {"fill", "fillIfNew"}
    BY <1>1, <1>6 DEF FillsFollow
  <2>2. 1 \in 1..Len(tail) /\ Len(todo) > 1
    BY <1>1, <2>1
  <2>3. tail[1] = todo[2] /\ tail # <<>>
    BY <1>1, <2>2
  <2> QED BY <2>1, <2>2, <2>3
<1> QED BY <1>1, <1>3, <1>4, <1>5, <1>6 DEF tail

\* What a request of a budget holds.
LEMMA BudgetRequestTypes ==
  ASSUME Budget!TypeOK, NEW h \in Handlers, request[h] # None
  PROVE  /\ request[h] \in Budget!Request /\ request[h].todo \in Seq(Budget!Steps)
         /\ request[h].found \in {"unknown", "yes", "no"} /\ request[h].new \in BOOLEAN
         /\ request[h].month \in Budget!Months
<1>1. request[h] \in Budget!Request
  BY DEF Budget!TypeOK
<1> QED BY <1>1 DEF Budget!Request

\* What the next step of a request is.
LEMMA BudgetHead ==
  ASSUME BudgetInvariant, NEW h \in Handlers, Budget!Busy(h)
  PROVE  /\ request[h] # None /\ request[h].todo # <<>>
         /\ Budget!Head1(h) = Top(request[h])
         /\ Top(request[h]) \in Budget!Steps /\ Top(request[h]).key \in Budget!Keys
         /\ Top(request[h]).table \in {"template", "budget"}
         /\ Top(request[h]).table = "template" => request[h].month = month
         /\ Top(request[h]).how \in {"fill", "fillIfNew"} =>
              Top(request[h]).table = "budget" /\ request[h].month = month
         /\ \A m : Budget!Rows(Top(request[h]), m) = RowsOf(Top(request[h]), m)
<1>1. request[h] # None /\ request[h].todo # <<>>
  BY DEF Budget!Busy
<1>2. request[h].todo \in Seq(Budget!Steps)
  BY <1>1, BudgetRequestTypes DEF BudgetInvariant
<1> DEFINE todo == request[h].todo
<1>3. Head(todo) = todo[1] /\ todo[1] \in Budget!Steps /\ 1 \in 1..Len(todo)
  <2>1. Len(todo) \in Nat /\ Len(todo) # 0
    BY <1>1, <1>2, EmptySeq
  <2>2. 1 \in 1..Len(todo)
    BY <2>1
  <2> QED BY <1>1, <1>2, <2>2, BudgetTail
<1>4. todo[1].key \in Budget!Keys /\ todo[1].table \in {"template", "budget"}
      /\ (todo[1].how \in {"fill", "fillIfNew"} => todo[1].table = "budget")
  BY <1>3 DEF Budget!Steps
<1>5. request[h].month = month \/ SetsOnly(todo)
  BY <1>1 DEF BudgetInvariant, PlansFit
<1>6. todo[1].table = "template" \/ todo[1].how \in {"fill", "fillIfNew"}
      => request[h].month = month
  BY <1>3, <1>5 DEF SetsOnly
<1> QED BY <1>1, <1>3, <1>4, <1>6 DEF Top, Budget!Head1, Budget!Rows, RowsOf

\* The step is done: the request has one step less.
LEMMA BudgetPop ==
  ASSUME Budget!ConstantsAssumption, BudgetInvariant, NEW h \in Handlers, Budget!Busy(h),
         Budget!Pop(h)
  PROVE  \E r \in Budget!Request :
           /\ request' = [request EXCEPT ![h] = r] /\ r.todo = Tail(request[h].todo)
           /\ r.found = "unknown" /\ r.new = request[h].new /\ r.month = request[h].month
           /\ FillsFollow(r.todo) /\ (r.month = month \/ SetsOnly(r.todo))
<1> DEFINE r == [request[h] EXCEPT !.todo = Tail(request[h].todo), !.found = "unknown"]
<1>1. request[h] # None /\ request[h].todo # <<>>
  BY BudgetHead
<1>2. request[h] \in Budget!Request /\ request[h].todo \in Seq(Budget!Steps)
  BY <1>1, BudgetRequestTypes DEF BudgetInvariant
<1>3. /\ Tail(request[h].todo) \in Seq(Budget!Steps)
      /\ FillsFollow(request[h].todo) => FillsFollow(Tail(request[h].todo))
      /\ SetsOnly(request[h].todo) => SetsOnly(Tail(request[h].todo))
  BY <1>1, <1>2, BudgetTail
<1>4. FillsFollow(request[h].todo) /\ (request[h].month = month \/ SetsOnly(request[h].todo))
  BY <1>1 DEF BudgetInvariant, PlansFit
<1>5. /\ r \in Budget!Request /\ r.todo = Tail(request[h].todo)
      /\ r.found = "unknown" /\ r.new = request[h].new /\ r.month = request[h].month
  BY <1>2, <1>3 DEF Budget!Request
<1>6. request' = [request EXCEPT ![h] = r]
  <2>1. request \in [Handlers -> {None} \cup Budget!Request]
    BY DEF BudgetInvariant, Budget!TypeOK
  <2> QED BY <2>1 DEF Budget!Pop
<1> HIDE DEF r
<1> QED BY <1>3, <1>4, <1>5, <1>6

\* A request moves on while the tables stay.
LEMMA BudgetRequestStep ==
  ASSUME Budget!ConstantsAssumption, BudgetInvariant, NEW h \in Handlers,
         NEW r \in {None} \cup Budget!Request, request' = [request EXCEPT ![h] = r],
         requests' \in 0..BudgetRequests, UNCHANGED <<month, templates, budgets, registered>>,
         looked' \subseteq Budget!Keys, looked \subseteq looked',
         r # None => FillsFollow(r.todo) /\ (r.month = month \/ SetsOnly(r.todo)) /\ FoundFits(r),
         r # None /\ r.found = "no" =>
           \/ Top(r).key \in looked'
           \/ \A o \in Handlers \ {h} :
                request[o] # None /\ request[o].found = "no" => ~SameRow(r, request[o]),
         \A k \in registered : OwesFill(request[h], k, month) =>
           budgets[k][month] > 0 \/ OwesFill(r, k, month)
  PROVE  BudgetInvariant'
<1>1. request \in [Handlers -> {None} \cup Budget!Request]
  BY DEF BudgetInvariant, Budget!TypeOK
<1>2. /\ request' \in [Handlers -> {None} \cup Budget!Request]
      /\ \A g \in Handlers : request'[g] = IF g = h THEN r ELSE request[g]
  BY <1>1
<1>3. Budget!TypeOK'
  BY <1>2 DEF BudgetInvariant, Budget!TypeOK
<1>4. PlansFit'
  BY <1>2 DEF BudgetInvariant, PlansFit, FillsFollow, SetsOnly
<1>5. FoundStill'
  <2> SUFFICES ASSUME NEW g \in Handlers, request'[g] # None PROVE FoundFits(request[g])'
    BY DEF FoundStill
  <2>1. PICK q : q = request'[g]
    OBVIOUS
  <2>2. FoundFits(q)
    BY <1>2, <2>1 DEF BudgetInvariant, FoundStill
  <2> QED BY <2>1, <2>2 DEF FoundFits, RowsOf, Top, Budget!Upserts
<1>6. FoundByOne'
  <2> SUFFICES ASSUME NEW g \in Handlers, NEW o \in Handlers, g # o, request'[g] # None,
                      request'[o] # None, request'[g].found = "no", request'[o].found = "no",
                      SameRow(request'[g], request'[o])
               PROVE  Top(request'[g]).key \in looked'
    BY DEF FoundByOne, SameRow, Top
  <2>1. SameRow(request'[o], request'[g]) /\ Top(request'[g]).key = Top(request'[o]).key
    BY DEF SameRow
  <2>2. CASE g = h
    BY <1>2, <2>2
  <2>3. CASE o = h
    BY <1>2, <2>1, <2>3
  <2>4. CASE g # h /\ o # h
    BY <1>2, <2>4 DEF BudgetInvariant, FoundByOne
  <2> QED BY <2>2, <2>3, <2>4
<1>7. OneRow'
  BY DEF BudgetInvariant, OneRow, Budget!Months
<1>8. FillsOwed'
  <2> DEFINE owed(k) == budgets[k][month] > 0 \/ \E g \in Handlers : OwesFill(request'[g], k, month)
  <2> SUFFICES ASSUME NEW k \in registered \ looked' PROVE owed(k)
    <3>1. month' = month /\ budgets' = budgets /\ registered' = registered
      OBVIOUS
    <3>2. FillsOwed' <=> \A k \in registered \ looked' : owed(k)
      BY <3>1 DEF FillsOwed, OwesFill, Top
    <3> QED BY <3>2
  <2>1. budgets[k][month] > 0 \/ \E g \in Handlers : OwesFill(request[g], k, month)
    BY DEF BudgetInvariant, FillsOwed
  <2> QED BY <1>2, <2>1
<1> QED BY <1>3, <1>4, <1>5, <1>6, <1>7, <1>8 DEF BudgetInvariant

\* The lists of steps the requests begin with.
LEMMA BudgetPlans ==
  ASSUME NEW plan \in Budget!Plans
  PROVE  plan \in Seq(Budget!Steps) /\ FillsFollow(plan)
<1>1. Whole \in Budget!Keys /\ Categories \subseteq Budget!Keys
  BY DEF Budget!Keys
<1> DEFINE T(k, how) == [table |-> "template", key |-> k, how |-> how]
           B(k, how) == [table |-> "budget", key |-> k, how |-> how]
<1>2. /\ \A k \in Budget!Keys, how \in {"probe", "set"} :
           /\ T(k, how) \in Budget!Steps /\ T(k, how).key = k /\ T(k, how).how = how
      /\ \A k \in Budget!Keys, how \in {"set", "fill", "fillIfNew"} :
           /\ B(k, how) \in Budget!Steps /\ B(k, how).table = "budget"
           /\ B(k, how).key = k /\ B(k, how).how = how
  BY DEF Budget!Steps
<1>3. /\ \A k \in Budget!Keys : Budget!SetBudget(k) = <<B(k, "set")>>
      /\ \A k \in Budget!Keys :
           Budget!SetTemplate(k) = <<T(k, "probe"), T(k, "set"), B(k, "fillIfNew")>>
      /\ \A c \in Categories : Budget!BulkBudget(c) = <<B(Whole, "set"), B(c, "set")>>
      /\ \A c \in Categories :
           Budget!BulkTemplate(c) = <<T(Whole, "set"), B(Whole, "fill"), T(c, "set"), B(c, "fill")>>
  BY DEF Budget!SetBudget, Budget!SetTemplate, Budget!BulkBudget, Budget!BulkTemplate, Budget!Step
<1> HIDE DEF T, B
<1>4. ASSUME NEW k \in Budget!Keys, plan = <<B(k, "set")>>
      PROVE  plan \in Seq(Budget!Steps) /\ FillsFollow(plan)
  BY <1>2, <1>4 DEF FillsFollow
<1>5. ASSUME NEW k \in Budget!Keys, plan = <<T(k, "probe"), T(k, "set"), B(k, "fillIfNew")>>
      PROVE  plan \in Seq(Budget!Steps) /\ FillsFollow(plan)
  <2>1. /\ Len(plan) = 3 /\ plan[1] = T(k, "probe") /\ plan[2] = T(k, "set")
        /\ plan[3] = B(k, "fillIfNew") /\ plan \in Seq(Budget!Steps)
    BY <1>2, <1>5
  <2>2. \A i \in 1..3 : i = 1 \/ i = 2 \/ i = 3
    OBVIOUS
  <2> QED BY <1>2, <2>1, <2>2 DEF FillsFollow
<1>6. ASSUME NEW c \in Categories, plan = <<B(Whole, "set"), B(c, "set")>>
      PROVE  plan \in Seq(Budget!Steps) /\ FillsFollow(plan)
  <2>1. /\ Len(plan) = 2 /\ plan[1] = B(Whole, "set") /\ plan[2] = B(c, "set")
        /\ plan \in Seq(Budget!Steps)
    BY <1>1, <1>2, <1>6
  <2>2. \A i \in 1..2 : i = 1 \/ i = 2
    OBVIOUS
  <2> QED BY <1>1, <1>2, <2>1, <2>2 DEF FillsFollow
<1>7. ASSUME NEW c \in Categories,
             plan = <<T(Whole, "set"), B(Whole, "fill"), T(c, "set"), B(c, "fill")>>
      PROVE  plan \in Seq(Budget!Steps) /\ FillsFollow(plan)
  <2>1. /\ Len(plan) = 4 /\ plan[1] = T(Whole, "set") /\ plan[2] = B(Whole, "fill")
        /\ plan[3] = T(c, "set") /\ plan[4] = B(c, "fill") /\ plan \in Seq(Budget!Steps)
    BY <1>1, <1>2, <1>7
  <2>2. \A i \in 1..4 : i = 1 \/ i = 2 \/ i = 3 \/ i = 4
    OBVIOUS
  <2> QED BY <1>1, <1>2, <2>1, <2>2 DEF FillsFollow
<1> QED BY <1>1, <1>3, <1>4, <1>5, <1>6, <1>7 DEF Budget!Plans

LEMMA BudgetBeginStep ==
  ASSUME Budget!ConstantsAssumption, BudgetInvariant, NEW h \in Handlers,
         NEW plan \in Budget!Plans, NEW m \in Budget!Months, Budget!Begin(h, plan, m)
  PROVE  BudgetInvariant'
<1> DEFINE r == [todo |-> plan, found |-> "unknown", new |-> FALSE, month |-> m]
<1>1. /\ request[h] = None /\ request' = [request EXCEPT ![h] = r]
      /\ UNCHANGED <<month, templates, budgets, looked, registered>>
      /\ m = month \/ \A i \in DOMAIN plan : plan[i].how = "set" /\ plan[i].table = "budget"
  BY DEF Budget!Begin
<1>2. plan \in Seq(Budget!Steps) /\ FillsFollow(plan)
  BY BudgetPlans
<1>3. /\ r \in Budget!Request /\ r.todo = plan /\ r.found = "unknown" /\ r.month = m
  BY <1>2 DEF Budget!Request
<1> HIDE DEF r
<1>4. r.month = month \/ SetsOnly(r.todo)
  BY <1>1, <1>2, <1>3 DEF SetsOnly
<1>5. requests' \in 0..BudgetRequests
  <2>1. requests \in 0..BudgetRequests /\ BudgetRequests \in Nat
    BY DEF BudgetInvariant, Budget!TypeOK, Budget!ConstantsAssumption
  <2>2. requests < BudgetRequests /\ requests' = requests + 1
    BY DEF Budget!Begin
  <2> QED BY <2>1, <2>2
<1>6. looked' \subseteq Budget!Keys /\ looked \subseteq looked'
  BY <1>1 DEF BudgetInvariant, Budget!TypeOK
<1>7. FoundFits(r)
  BY <1>3 DEF FoundFits
<1>8. r.found # "no" /\ \A k : ~OwesFill(request[h], k, month)
  BY <1>1, <1>3 DEF OwesFill
<1> QED BY <1>1, <1>2, <1>3, <1>4, <1>5, <1>6, <1>7, <1>8, BudgetRequestStep

\* A step that looks, is left out or updates: the tables stay.
LEMMA BudgetLookStep ==
  ASSUME Budget!ConstantsAssumption, BudgetInvariant, NEW h \in Handlers,
         \/ Budget!Probe(h) \/ Budget!Skip(h) \/ Budget!Look(h) \/ Budget!Update(h)
         \/ Budget!End(h)
  PROVE  BudgetInvariant'
<1> DEFINE q == request[h]
<1>1. /\ requests' \in 0..BudgetRequests
      /\ UNCHANGED <<month, templates, budgets, registered>>
  BY DEF BudgetInvariant, Budget!TypeOK, Budget!Probe, Budget!Skip, Budget!Look, Budget!Update,
         Budget!End
<1>2. looked \subseteq Budget!Keys /\ request \in [Handlers -> {None} \cup Budget!Request]
  BY DEF BudgetInvariant, Budget!TypeOK
<1>3. q # None => FoundFits(q)
  BY DEF BudgetInvariant, FoundStill
<1>4. CASE Budget!End(h)
  <2>1. request' = [request EXCEPT ![h] = None] /\ looked' = looked /\ q.todo = <<>>
    BY <1>4 DEF Budget!End
  <2>2. \A k : ~OwesFill(request[h], k, month)
    BY <2>1 DEF OwesFill
  <2> QED BY <1>1, <1>2, <2>1, <2>2, BudgetRequestStep
<1>5. CASE Budget!Probe(h)
  <2>1. /\ Budget!Busy(h) /\ Budget!Head1(h).how = "probe" /\ looked' = looked
        /\ request' = [request EXCEPT ![h].todo = Tail(@),
                         ![h].new = (Budget!Rows(Budget!Head1(h), request[h].month) = 0)]
    BY <1>5 DEF Budget!Probe
  <2> DEFINE n == Budget!Rows(Budget!Head1(h), request[h].month) = 0
             r == [q EXCEPT !.todo = Tail(q.todo), !.new = n]
  <2>2. /\ q # None /\ q.todo # <<>> /\ Top(q).how = "probe"
        /\ q \in Budget!Request /\ q.todo \in Seq(Budget!Steps)
    BY <2>1, BudgetHead, BudgetRequestTypes DEF BudgetInvariant
  <2>3. request' = [request EXCEPT ![h] = r]
    BY <1>2, <2>1
  <2>4. /\ Tail(q.todo) \in Seq(Budget!Steps)
        /\ FillsFollow(q.todo) => FillsFollow(Tail(q.todo))
        /\ SetsOnly(q.todo) => SetsOnly(Tail(q.todo))
    BY <2>2, BudgetTail
  <2>5. q.found = "unknown"
    BY <1>3, <2>2 DEF FoundFits
  <2>6. n \in BOOLEAN
    OBVIOUS
  <2> HIDE DEF n
  <2>7. /\ r \in Budget!Request /\ r.todo = Tail(q.todo) /\ r.found = "unknown"
        /\ r.month = q.month
    BY <2>2, <2>4, <2>5, <2>6 DEF Budget!Request
  <2> HIDE DEF r
  <2>8. FillsFollow(r.todo) /\ (r.month = month \/ SetsOnly(r.todo))
    BY <2>2, <2>4, <2>7 DEF BudgetInvariant, PlansFit
  <2>9. FoundFits(r) /\ r.found # "no" /\ \A k : ~OwesFill(request[h], k, month)
    BY <2>2, <2>7 DEF FoundFits, OwesFill
  <2> QED BY <1>1, <1>2, <2>1, <2>3, <2>7, <2>8, <2>9, BudgetRequestStep
<1>6. ASSUME Budget!Busy(h), Budget!Pop(h), looked' = looked,
             \A k : OwesFill(q, k, month) => budgets[k][month] > 0
      PROVE  BudgetInvariant'
  <2>1. PICK r \in Budget!Request :
           /\ request' = [request EXCEPT ![h] = r] /\ r.found = "unknown"
           /\ FillsFollow(r.todo) /\ (r.month = month \/ SetsOnly(r.todo))
    BY <1>6, BudgetPop
  <2>2. FoundFits(r) /\ r.found # "no"
    BY <2>1 DEF FoundFits
  <2> QED BY <1>1, <1>2, <1>6, <2>1, <2>2, BudgetRequestStep
<1>7. CASE Budget!Skip(h)
  <2>1. /\ Budget!Busy(h) /\ Budget!Head1(h).how = "fillIfNew" /\ ~q.new /\ Budget!Pop(h)
        /\ looked' = looked
    BY <1>7 DEF Budget!Skip
  <2>2. \A k : ~OwesFill(q, k, month)
    BY <2>1, BudgetHead DEF OwesFill
  <2> QED BY <1>6, <2>1, <2>2
<1>8. CASE Budget!Update(h)
  <2>1. /\ Budget!Busy(h) /\ q.found = "yes" /\ looked' = looked
        /\ \/ Budget!Head1(h).how = "set" /\ request' = [request EXCEPT ![h] = None]
           \/ Budget!Pop(h)
    BY <1>8 DEF Budget!Update
  <2>2. q # None /\ Budget!Head1(h) = Top(q)
    BY <2>1, BudgetHead
  <2>3. \A k : OwesFill(q, k, month) => budgets[k][month] > 0
    BY <1>3, <2>1, <2>2 DEF OwesFill, FoundFits
  <2>4. CASE Budget!Pop(h)
    BY <1>6, <2>1, <2>3, <2>4
  <2>5. CASE Budget!Head1(h).how = "set" /\ request' = [request EXCEPT ![h] = None]
    BY <1>1, <1>2, <2>1, <2>3, <2>5, BudgetRequestStep
  <2> QED BY <2>1, <2>4, <2>5
<1>9. CASE Budget!Look(h)
  <2> DEFINE f == IF Budget!Rows(Budget!Head1(h), q.month) > 0 THEN "yes" ELSE "no"
             r == [q EXCEPT !.found = f]
  <2>1. /\ Budget!Busy(h) /\ Budget!Head1(h).how \in {"set", "fill", "fillIfNew"}
        /\ Budget!Head1(h).how = "fillIfNew" => q.new
        /\ ~Budget!Upserts(Budget!Head1(h))
        /\ request' = [request EXCEPT ![h].found = f]
        /\ looked' = IF Budget!Racing(h) THEN looked \cup {Budget!Head1(h).key} ELSE looked
    BY <1>9 DEF Budget!Look
  <2>2. /\ q # None /\ q.todo # <<>> /\ Budget!Head1(h) = Top(q)
        /\ Top(q) \in Budget!Steps /\ Top(q).key \in Budget!Keys
        /\ Top(q).table \in {"template", "budget"}
        /\ \A m : Budget!Rows(Top(q), m) = RowsOf(Top(q), m)
        /\ q \in Budget!Request /\ q.new \in BOOLEAN /\ q.month \in Budget!Months
    BY <2>1, BudgetHead, BudgetRequestTypes DEF BudgetInvariant
  <2>3. RowsOf(Top(q), q.month) \in Nat
    BY <2>2 DEF RowsOf, BudgetInvariant, Budget!TypeOK
  <2>4. /\ f \in {"yes", "no"} /\ f = "yes" => RowsOf(Top(q), q.month) > 0
    BY <2>2
  <2>5. f = "no" => RowsOf(Top(q), q.month) = 0
    BY <2>2, <2>3
  <2>6. request' = [request EXCEPT ![h] = r]
    BY <1>2, <2>1
  <2>7. f = "yes" \/ f = "no"
    OBVIOUS
  <2> HIDE DEF f
  <2>8. /\ r \in Budget!Request /\ r.todo = q.todo /\ r.found = f /\ r.new = q.new
        /\ r.month = q.month
    BY <2>2, <2>7 DEF Budget!Request
  <2> HIDE DEF r
  <2>9. Top(r) = Top(q)
    BY <2>8 DEF Top
  <2>10. FillsFollow(r.todo) /\ (r.month = month \/ SetsOnly(r.todo))
    BY <2>2, <2>8 DEF BudgetInvariant, PlansFit
  <2>11. FoundFits(r)
    <3>1. f = "yes" => RowsOf(Top(q), q.month) > 0
      BY <2>4
    <3>2. Top(q).how # "probe" /\ ~Budget!Upserts(Top(q)) /\ (Top(q).how = "fillIfNew" => q.new = TRUE)
      BY <2>1, <2>2
    <3> QED BY <2>2, <2>5, <2>8, <2>9, <3>1, <3>2 DEF FoundFits, RowsOf
  <2>12. looked' \subseteq Budget!Keys /\ looked \subseteq looked'
    BY <1>2, <2>1, <2>2
  <2>13. ASSUME ~Budget!Racing(h), NEW o \in Handlers \ {h}, request[o] # None,
                request[o].found = "no"
         PROVE  ~SameRow(r, request[o])
    <3>1. FoundFits(request[o])
      BY <2>13 DEF BudgetInvariant, FoundStill
    <3>2. request[o].todo # <<>>
      BY <2>13, <3>1 DEF FoundFits
    <3>3. Budget!Busy(o)
      BY <2>13, <3>2 DEF Budget!Busy
    <3>4. Budget!Head1(o) = Top(request[o])
      BY <3>3, BudgetHead
    <3> QED BY <2>2, <2>8, <2>9, <2>13, <3>3, <3>4 DEF Budget!Racing, SameRow
  <2>14. \/ Top(r).key \in looked'
         \/ \A o \in Handlers \ {h} :
              request[o] # None /\ request[o].found = "no" => ~SameRow(r, request[o])
    BY <2>1, <2>2, <2>9, <2>13
  <2>15. \A k : OwesFill(q, k, month) => OwesFill(r, k, month)
    BY <2>2, <2>8, <2>9 DEF OwesFill, Budget!ConstantsAssumption
  <2> QED BY <1>1, <1>2, <2>6, <2>8, <2>10, <2>11, <2>12, <2>14, <2>15, BudgetRequestStep
<1> QED BY <1>4, <1>5, <1>7, <1>8, <1>9

\* A row is inserted.
LEMMA BudgetInsertStep ==
  ASSUME Budget!ConstantsAssumption, BudgetInvariant, NEW h \in Handlers,
         Budget!Insert(h) \/ Budget!Upsert(h)
  PROVE  BudgetInvariant'
<1> DEFINE q == request[h]
           s == Top(q)
<1>1. Budget!Busy(h) /\ Budget!Pop(h) /\ UNCHANGED <<month, requests>>
  BY DEF Budget!Insert, Budget!Upsert
<1>2. /\ q # None /\ q.todo # <<>> /\ Budget!Head1(h) = s
      /\ s \in Budget!Steps /\ s.key \in Budget!Keys /\ s.table \in {"template", "budget"}
      /\ s.table = "template" => q.month = month
      /\ s.how \in {"fill", "fillIfNew"} => s.table = "budget" /\ q.month = month
      /\ q.month \in Budget!Months /\ q.new \in BOOLEAN /\ q.todo \in Seq(Budget!Steps)
  BY <1>1, BudgetHead, BudgetRequestTypes DEF BudgetInvariant
<1>3. /\ templates \in [Budget!Keys -> Nat] /\ budgets \in [Budget!Keys -> [Budget!Months -> Nat]]
      /\ looked \subseteq Budget!Keys /\ registered \subseteq Budget!Keys
      /\ month \in Budget!Months /\ requests \in 0..BudgetRequests
      /\ request \in [Handlers -> {None} \cup Budget!Request] /\ None \notin Budget!Request
  BY DEF BudgetInvariant, Budget!TypeOK, Budget!ConstantsAssumption
<1>4. PICK r \in Budget!Request :
         /\ request' = [request EXCEPT ![h] = r] /\ r.todo = Tail(q.todo)
         /\ r.found = "unknown" /\ r.new = q.new /\ r.month = q.month
         /\ FillsFollow(r.todo) /\ (r.month = month \/ SetsOnly(r.todo))
  BY <1>1, BudgetPop
<1>5. /\ request' \in [Handlers -> {None} \cup Budget!Request]
      /\ \A g \in Handlers : request'[g] = IF g = h THEN r ELSE request[g]
  BY <1>3, <1>4
<1>6. /\ looked' = IF Budget!Stale(h) THEN looked \cup {s.key} ELSE looked
      /\ \/ /\ s.table = "template" /\ s.how = "set" /\ budgets' = budgets
            /\ registered' \in {registered, registered \cup {s.key}}
            /\ \/ q.found = "no" /\ templates' = [templates EXCEPT ![s.key] = templates[s.key] + 1]
               \/ /\ Budget!Upserts(s) /\ templates' = [templates EXCEPT ![s.key] = 1]
                  /\ registered' = IF templates[s.key] = 0 THEN registered \cup {s.key}
                                   ELSE registered
         \/ /\ s.table = "budget" /\ q.found = "no" /\ UNCHANGED <<templates, registered>>
            /\ budgets' = [budgets EXCEPT ![s.key][q.month] = budgets[s.key][q.month] + 1]
  <2>1. CASE Budget!Insert(h)
    <3>1. /\ q.found = "no"
          /\ looked' = IF Budget!Stale(h) THEN looked \cup {s.key} ELSE looked
          /\ \/ /\ s.table = "template" /\ templates' = [templates EXCEPT ![s.key] = @ + 1]
                /\ registered' = registered \cup {s.key} /\ budgets' = budgets
             \/ /\ s.table # "template" /\ UNCHANGED <<templates, registered>>
                /\ budgets' = [budgets EXCEPT ![s.key][q.month] = @ + 1]
      BY <1>2, <2>1 DEF Budget!Insert
    <3>2. s.how # "probe"
      BY <1>2, <3>1 DEF BudgetInvariant, FoundStill, FoundFits
    <3>3. s.table = "template" => s.how = "set"
      BY <1>2, <3>2 DEF Budget!Steps
    <3> QED BY <1>2, <1>3, <3>1, <3>3
  <2>2. CASE Budget!Upsert(h)
    BY <1>2, <2>2 DEF Budget!Upsert, Budget!Upserts
  <2> QED BY <2>1, <2>2
<1>7. looked' \subseteq Budget!Keys /\ looked \subseteq looked'
  BY <1>2, <1>3, <1>6
<1>8. registered' \subseteq Budget!Keys
  <2>1. registered' = registered \/ registered' = registered \cup {s.key}
    BY <1>6
  <2>2. {s.key} \subseteq Budget!Keys
    BY <1>2
  <2> HIDE DEF s
  <2> QED BY <1>3, <2>1, <2>2
<1>9. /\ templates' \in [Budget!Keys -> Nat]
      /\ \A k \in Budget!Keys : k # s.key \/ s.table # "template" => templates'[k] = templates[k]
  <2>1. templates[s.key] \in Nat
    BY <1>2, <1>3
  <2>2. /\ UNCHANGED templates \/ \E n \in Nat : templates' = [templates EXCEPT ![s.key] = n]
        /\ s.table # "template" => UNCHANGED templates
    <3>1. templates[s.key] + 1 \in Nat /\ 1 \in Nat
      BY <2>1
    <3> QED BY <1>2, <1>6, <3>1
  <2>3. s.key \in Budget!Keys
    BY <1>2
  <2> HIDE DEF s
  <2> QED BY <1>3, <2>2, <2>3
<1>10. /\ budgets' \in [Budget!Keys -> [Budget!Months -> Nat]]
       /\ \A k \in Budget!Keys, m \in Budget!Months :
            /\ k # s.key \/ s.table # "budget" \/ m # q.month => budgets'[k][m] = budgets[k][m]
            /\ budgets'[k][m] >= budgets[k][m]
       /\ s.table = "budget" => budgets'[s.key][q.month] = budgets[s.key][q.month] + 1
  <2>1. CASE s.table = "template"
    BY <1>3, <1>6, <2>1
  <2>2. CASE s.table = "budget"
    <3>1. budgets' = [budgets EXCEPT ![s.key][q.month] = budgets[s.key][q.month] + 1]
      BY <1>6, <2>2
    <3>2. budgets[s.key] \in [Budget!Months -> Nat] /\ budgets[s.key][q.month] + 1 \in Nat
      BY <1>2, <1>3
    <3> DEFINE n == budgets[s.key][q.month] + 1
               b == [budgets[s.key] EXCEPT ![q.month] = n]
    <3>3. s.key \in Budget!Keys /\ q.month \in Budget!Months /\ n >= budgets[s.key][q.month]
      BY <1>2, <3>2, <1>3
    <3>4. budgets' = [budgets EXCEPT ![s.key] = b]
      BY <3>1
    <3>5. /\ b \in [Budget!Months -> Nat] /\ b[q.month] = n
          /\ \A m \in Budget!Months : m # q.month => b[m] = budgets[s.key][m]
      BY <3>2, <3>3
    <3> HIDE DEF n
    <3>6. \A m \in Budget!Months : b[m] >= budgets[s.key][m]
      BY <3>2, <3>3, <3>5
    <3> HIDE DEF b
    <3>7. budgets' \in [Budget!Keys -> [Budget!Months -> Nat]]
      BY <1>3, <3>4, <3>5
    <3>8. budgets'[s.key] = b /\ \A k \in Budget!Keys : k # s.key => budgets'[k] = budgets[k]
      BY <1>3, <3>3, <3>4
    <3>9. \A k \in Budget!Keys, m \in Budget!Months : budgets[k][m] \in Nat
      BY <1>3
    <3> QED BY <2>2, <3>3, <3>5, <3>6, <3>7, <3>8, <3>9 DEF n
  <2> QED BY <1>2, <2>1, <2>2
<1>11. Budget!TypeOK'
  BY <1>1, <1>3, <1>5, <1>7, <1>8, <1>9, <1>10 DEF Budget!TypeOK
<1>12. PlansFit'
  <2> SUFFICES ASSUME NEW g \in Handlers, request'[g] # None
               PROVE  (FillsFollow(request[g].todo) /\ (request[g].month = month
                         \/ SetsOnly(request[g].todo)))'
    BY DEF PlansFit
  <2>1. PICK t : t = request'[g].todo
    OBVIOUS
  <2>2. FillsFollow(t) /\ (request'[g].month = month \/ SetsOnly(t))
    BY <1>4, <1>5, <2>1 DEF BudgetInvariant, PlansFit
  <2> QED BY <1>1, <2>1, <2>2 DEF FillsFollow, SetsOnly
<1>13. ASSUME NEW g \in Handlers \ {h}, request[g] # None, request[g].found = "no",
              Top(request[g]).table = s.table, Top(request[g]).key = s.key,
              s.table = "template" \/ request[g].month = q.month, q.found = "no"
       PROVE  s.key \in looked
  <2>1. FoundFits(request[g])
    BY <1>13 DEF BudgetInvariant, FoundStill
  <2>2. Budget!Busy(g)
    BY <1>13, <2>1 DEF FoundFits, Budget!Busy
  <2>3. s.table = "template" => request[g].month = month
    BY <1>13, <2>2, BudgetHead
  <2>4. SameRow(q, request[g])
    BY <1>2, <1>13, <2>3 DEF SameRow
  <2> QED BY <1>2, <1>13, <2>4 DEF BudgetInvariant, FoundByOne
<1>14. FoundStill'
  <2> SUFFICES ASSUME NEW g \in Handlers, request'[g] # None PROVE FoundFits(request[g])'
    BY DEF FoundStill
  <2>1. PICK p : p = request'[g]
    OBVIOUS
  <2>2. CASE g = h
    BY <1>4, <1>5, <2>2 DEF FoundFits
  <2>3. CASE g # h
    <3>1. p = request[g] /\ p # None /\ FoundFits(p)
      BY <1>5, <2>1, <2>3 DEF BudgetInvariant, FoundStill
    <3>2. CASE p.found = "unknown"
      BY <2>1, <3>2 DEF FoundFits
    <3>3. CASE p.found # "unknown"
      <4>1. Budget!Busy(g)
        BY <3>1, <3>3 DEF FoundFits, Budget!Busy
      <4>2. Top(p).key \in Budget!Keys /\ Top(p).table \in {"template", "budget"}
            /\ p.month \in Budget!Months
        BY <3>1, <4>1, BudgetHead, BudgetRequestTypes DEF BudgetInvariant
      <4>3. p.found = "yes" /\ Top(p).table = "budget" => budgets'[Top(p).key][p.month] > 0
        <5>1. /\ budgets[Top(p).key][p.month] \in Nat /\ budgets'[Top(p).key][p.month] \in Nat
              /\ budgets'[Top(p).key][p.month] >= budgets[Top(p).key][p.month]
          BY <1>3, <1>10, <4>2
        <5> QED BY <3>1, <5>1 DEF FoundFits
      <4>4. ASSUME p.found = "no", Top(p).key \notin looked'
            PROVE  IF Top(p).table = "template" THEN templates'[Top(p).key] = 0
                                                ELSE budgets'[Top(p).key][p.month] = 0
        <5>1. Top(p).key \notin looked
          BY <1>7, <4>4
        <5>2. RowsOf(Top(p), p.month) = 0 /\ ~Budget!Upserts(Top(p))
          BY <3>1, <4>4, <5>1 DEF FoundFits
        <5>3. CASE Top(p).table = "template"
          <6>1. s.table = "template" => s.key # Top(p).key
            <7>1. ASSUME s.table = "template", s.key = Top(p).key PROVE FALSE
              <8>1. ~Budget!Upserts(s)
                BY <5>2, <5>3, <7>1 DEF Budget!Upserts
              <8>2. q.found = "no"
                BY <1>6, <7>1, <8>1
              <8> QED BY <1>13, <2>3, <3>1, <4>4, <5>1, <5>3, <7>1, <8>2
            <7> QED BY <7>1
          <6> QED BY <1>9, <4>2, <5>2, <5>3, <6>1 DEF RowsOf
        <5>4. CASE Top(p).table = "budget"
          <6>1. s.table = "budget" => s.key # Top(p).key \/ p.month # q.month
            BY <1>6, <1>13, <2>3, <3>1, <4>4, <5>1, <5>4
          <6> QED BY <1>10, <4>2, <5>2, <5>4, <6>1 DEF RowsOf
        <5> QED BY <4>2, <5>3, <5>4
      <4> QED BY <2>1, <3>1, <3>3, <4>3, <4>4 DEF FoundFits, RowsOf, Top, Budget!Upserts
    <3> QED BY <3>2, <3>3
  <2> QED BY <2>2, <2>3
<1>15. FoundByOne'
  <2> SUFFICES ASSUME NEW g \in Handlers, NEW o \in Handlers, g # o, request'[g] # None,
                      request'[o] # None, request'[g].found = "no", request'[o].found = "no",
                      SameRow(request'[g], request'[o])
               PROVE  Top(request'[g]).key \in looked'
    BY DEF FoundByOne, SameRow, Top
  <2>1. g # h /\ o # h
    BY <1>4, <1>5
  <2> QED BY <1>5, <1>7, <2>1 DEF BudgetInvariant, FoundByOne
<1>16. q.found = "no" /\ s.key \notin looked' => RowsOf(s, q.month) = 0
  BY <1>2, <1>7 DEF BudgetInvariant, FoundStill, FoundFits
<1>17. OneRow'
  <2> SUFFICES ASSUME NEW k \in Budget!Keys \ looked'
               PROVE  templates'[k] <= 1 /\ \A m \in Budget!Months : budgets'[k][m] <= 1
    BY DEF OneRow, Budget!Keys, Budget!Months
  <2>1. templates[k] <= 1 /\ \A m \in Budget!Months : budgets[k][m] <= 1
    BY <1>7 DEF BudgetInvariant, OneRow
  <2>2. templates'[k] <= 1
    <3>1. CASE k # s.key \/ s.table # "template"
      BY <1>9, <2>1, <3>1
    <3>2. CASE k = s.key /\ s.table = "template"
      <4>1. q.found = "no" => templates[k] = 0
        BY <1>16, <3>2 DEF RowsOf
      <4>2. (templates'[k] = templates[k] + 1 /\ q.found = "no") \/ templates'[k] = 1
        BY <1>2, <1>3, <1>6, <3>2
      <4> QED BY <4>1, <4>2
    <3> QED BY <3>1, <3>2
  <2>3. ASSUME NEW m \in Budget!Months PROVE budgets'[k][m] <= 1
    <3>1. CASE k # s.key \/ s.table # "budget" \/ m # q.month
      BY <1>10, <2>1, <3>1
    <3>2. CASE k = s.key /\ s.table = "budget" /\ m = q.month
      <4>1. budgets[k][m] = 0
        BY <1>6, <1>16, <3>2 DEF RowsOf
      <4> QED BY <1>10, <3>2, <4>1
    <3> QED BY <3>1, <3>2
  <2> QED BY <2>2, <2>3
<1>18. FillsOwed'
  <2> SUFFICES ASSUME NEW k \in registered' \ looked'
               PROVE  budgets'[k][month] > 0 \/ \E g \in Handlers : OwesFill(request'[g], k, month)
    BY <1>1 DEF FillsOwed, OwesFill, Top
  <2>1. budgets[k][month] \in Nat /\ budgets'[k][month] \in Nat /\ budgets'[k][month] >= budgets[k][month]
    BY <1>3, <1>8, <1>10
  <2>2. CASE k \in registered
    <3>1. budgets[k][month] > 0 \/ \E g \in Handlers : OwesFill(request[g], k, month)
      BY <1>7, <2>2 DEF BudgetInvariant, FillsOwed
    <3>2. CASE budgets[k][month] > 0
      BY <2>1, <3>2
    <3>3. CASE OwesFill(q, k, month)
      <4>1. s.table = "budget" /\ s.key = k /\ q.month = month
        BY <3>3 DEF OwesFill
      <4> QED BY <1>3, <1>8, <1>10, <2>1, <4>1
    <3>4. ASSUME NEW g \in Handlers \ {h}, OwesFill(request[g], k, month)
          PROVE  OwesFill(request'[g], k, month)
      BY <1>5, <3>4
    <3> QED BY <3>1, <3>2, <3>3, <3>4
  <2>3. CASE k \notin registered
    <3>1. k = s.key /\ s.table = "template" /\ s.how = "set" /\ q.month = month
      BY <1>2, <1>6, <2>3
    <3>2. templates[k] = 0
      BY <1>6, <1>16, <2>3, <3>1 DEF RowsOf
    <3>3. FillsFollow(q.todo)
      BY <1>2 DEF BudgetInvariant, PlansFit
    <3>4. /\ Len(q.todo) > 1 /\ r.todo # <<>> /\ Top(r) = q.todo[2]
          /\ q.todo[2].table = "budget" /\ q.todo[2].key = k
          /\ q.todo[2].how \in {"fill", "fillIfNew"}
      BY <1>2, <1>4, <3>1, <3>3, BudgetTail DEF Top
    <3>5. ~Budget!Stale(h)
      BY <1>6, <3>1
    <3>6. q.todo[2].how = "fillIfNew" => q.new = TRUE
      BY <1>2, <3>1, <3>2, <3>4, <3>5 DEF Budget!Stale
    <3>7. OwesFill(r, k, month)
      BY <1>3, <1>4, <3>1, <3>4, <3>6 DEF OwesFill
    <3> QED BY <1>5, <3>7
  <2> QED BY <2>2, <2>3
<1> QED BY <1>11, <1>12, <1>14, <1>15, <1>17, <1>18 DEF BudgetInvariant

\* A template is removed, or a month passes.
LEMMA BudgetRestStep ==
  ASSUME Budget!ConstantsAssumption, BudgetInvariant,
         (\E k \in Budget!Keys : Budget!RemoveTemplate(k)) \/ Budget!NextMonth
  PROVE  BudgetInvariant'
<1>1. /\ templates \in [Budget!Keys -> Nat] /\ budgets \in [Budget!Keys -> [Budget!Months -> Nat]]
      /\ month \in Budget!Months /\ requests \in 0..BudgetRequests
      /\ BudgetRequests \in Nat /\ BudgetMonths \in Nat
  BY DEF BudgetInvariant, Budget!TypeOK, Budget!ConstantsAssumption
<1>2. ASSUME NEW k \in Budget!Keys, Budget!RemoveTemplate(k) PROVE BudgetInvariant'
  <2>1. /\ requests < BudgetRequests /\ requests' = requests + 1 /\ templates[k] > 0
        /\ templates' = [templates EXCEPT ![k] = templates[k] - 1]
        /\ registered' = registered \ {k}
        /\ UNCHANGED <<month, budgets, request, looked>>
    BY <1>2 DEF Budget!RemoveTemplate
  <2>2. requests' \in 0..BudgetRequests
    BY <1>1, <2>1
  <2>3. templates[k] \in Nat
    BY <1>1
  <2>4. /\ templates' \in [Budget!Keys -> Nat]
        /\ \A x \in Budget!Keys : templates'[x] = IF x = k THEN templates[k] - 1 ELSE templates[x]
    <3>1. templates[k] - 1 \in Nat
      BY <2>1, <2>3
    <3> QED BY <1>1, <2>1, <3>1
  <2>5. Budget!TypeOK'
    BY <2>1, <2>2, <2>4 DEF BudgetInvariant, Budget!TypeOK
  <2>6. PlansFit' /\ FoundByOne'
    BY <2>1 DEF BudgetInvariant, PlansFit, FoundByOne, FillsFollow, SetsOnly, SameRow, Top
  <2>7. FoundStill'
    <3> SUFFICES ASSUME NEW g \in Handlers, request[g] # None PROVE FoundFits(request[g])'
      BY <2>1 DEF FoundStill
    <3>1. FoundFits(request[g])
      BY DEF BudgetInvariant, FoundStill
    <3>2. CASE request[g].found = "unknown"
      BY <2>1, <3>2 DEF FoundFits
    <3>3. CASE request[g].found # "unknown"
      <4>1. Budget!Busy(g)
        BY <3>1, <3>3 DEF FoundFits, Budget!Busy
      <4>2. Top(request[g]).key \in Budget!Keys
        BY <4>1, BudgetHead
      <4>3. /\ Top(request[g]).table = "template" /\ templates[Top(request[g]).key] = 0
               => templates'[Top(request[g]).key] = 0
        BY <2>1, <2>4, <4>2
      <4> QED BY <2>1, <3>1, <3>3, <4>3 DEF FoundFits, RowsOf, Top, Budget!Upserts
    <3> QED BY <3>2, <3>3
  <2>8. OneRow'
    <3> SUFFICES ASSUME NEW x \in Budget!Keys \ looked
                 PROVE  templates'[x] <= 1 /\ \A m \in Budget!Months : budgets[x][m] <= 1
      BY <2>1 DEF OneRow, Budget!Keys, Budget!Months
    <3>1. templates[x] <= 1 /\ \A m \in Budget!Months : budgets[x][m] <= 1
      BY DEF BudgetInvariant, OneRow
    <3> QED BY <2>3, <2>4, <3>1
  <2>9. FillsOwed'
    BY <2>1 DEF BudgetInvariant, FillsOwed, OwesFill, Top
  <2> QED BY <2>5, <2>6, <2>7, <2>8, <2>9 DEF BudgetInvariant
<1>3. CASE Budget!NextMonth
  <2>1. /\ month < BudgetMonths /\ month' = month + 1 /\ registered' = {}
        /\ \A h \in Handlers : request[h] = None
        /\ UNCHANGED <<templates, budgets, request, requests, looked>>
    BY <1>3 DEF Budget!NextMonth
  <2>2. month' \in Budget!Months
    BY <1>1, <2>1 DEF Budget!Months
  <2>3. Budget!TypeOK'
    BY <2>1, <2>2 DEF BudgetInvariant, Budget!TypeOK
  <2>4. PlansFit' /\ FoundStill' /\ FoundByOne'
    BY <2>1 DEF PlansFit, FoundStill, FoundByOne
  <2>5. OneRow' /\ FillsOwed'
    BY <2>1 DEF BudgetInvariant, OneRow, FillsOwed, Budget!Keys, Budget!Months
  <2> QED BY <2>3, <2>4, <2>5 DEF BudgetInvariant
<1> QED BY <1>2, <1>3

LEMMA BudgetInvariantStep ==
  ASSUME Budget!ConstantsAssumption, BudgetInvariant, [Budget!Next]_(Budget!vars)
  PROVE  BudgetInvariant'
<1>1. ASSUME NEW h \in Handlers,
             \/ \E plan \in Budget!Plans, m \in Budget!Months : Budget!Begin(h, plan, m)
             \/ Budget!Probe(h) \/ Budget!Skip(h) \/ Budget!Look(h) \/ Budget!Update(h)
             \/ Budget!Insert(h) \/ Budget!Upsert(h) \/ Budget!End(h)
      PROVE  BudgetInvariant'
  BY <1>1, BudgetBeginStep, BudgetLookStep, BudgetInsertStep
<1>2. CASE (\E k \in Budget!Keys : Budget!RemoveTemplate(k)) \/ Budget!NextMonth
  BY <1>2, BudgetRestStep
<1>3. CASE UNCHANGED Budget!vars
  <2>1. UNCHANGED <<month, templates, budgets, request, requests, looked, registered>>
    BY <1>3 DEF Budget!vars
  <2>2. Budget!TypeOK'
    BY <2>1 DEF BudgetInvariant, Budget!TypeOK
  <2>3. PlansFit' /\ FoundByOne' /\ OneRow' /\ FillsOwed'
    BY <2>1 DEF BudgetInvariant, PlansFit, FoundByOne, OneRow, FillsOwed, FillsFollow, SetsOnly,
                SameRow, Top, OwesFill, Budget!Keys, Budget!Months
  <2>4. FoundStill'
    BY <2>1 DEF BudgetInvariant, FoundStill, FoundFits, RowsOf, Top, Budget!Upserts
  <2> QED BY <2>2, <2>3, <2>4 DEF BudgetInvariant
<1> QED BY <1>1, <1>2, <1>3 DEF Budget!Next

LEMMA BudgetInvariantInit ==
  ASSUME Budget!ConstantsAssumption, Budget!Init
  PROVE  BudgetInvariant
<1>1. /\ month = 1 /\ templates = [k \in Budget!Keys |-> 0]
      /\ budgets = [k \in Budget!Keys |-> [m \in Budget!Months |-> 0]]
      /\ request = [h \in Handlers |-> None] /\ requests = 0 /\ looked = {} /\ registered = {}
  BY DEF Budget!Init
<1>2. 1 \in Budget!Months /\ requests \in 0..BudgetRequests
  BY <1>1 DEF Budget!Months, Budget!ConstantsAssumption
<1>3. Budget!TypeOK
  BY <1>1, <1>2 DEF Budget!TypeOK
<1>4. PlansFit /\ FoundStill /\ FoundByOne
  BY <1>1 DEF PlansFit, FoundStill, FoundByOne
<1>5. OneRow /\ FillsOwed
  BY <1>1 DEF OneRow, FillsOwed
<1> QED BY <1>3, <1>4, <1>5 DEF BudgetInvariant

LEMMA BudgetFromInvariant ==
  ASSUME Budget!ConstantsAssumption, BudgetInvariant
  PROVE  Budget!OneBudgetPerKey
<1>1. ASSUME NEW k \in registered \ looked PROVE budgets[k][month] > 0 \/ Budget!Filling(k)
  <2>1. budgets[k][month] > 0 \/ \E h \in Handlers : OwesFill(request[h], k, month)
    BY DEF BudgetInvariant, FillsOwed
  <2>2. ASSUME NEW h \in Handlers, OwesFill(request[h], k, month) PROVE Budget!Filling(k)
    <3> DEFINE todo == request[h].todo
    <3>1. /\ request[h] # None /\ todo # <<>> /\ request[h].month = month
          /\ todo[1].table = "budget" /\ todo[1].key = k
          /\ todo[1].how = "fill" \/ (todo[1].how = "fillIfNew" /\ request[h].new)
      BY <2>2 DEF OwesFill, Top
    <3>2. todo \in Seq(Budget!Steps)
      BY <3>1, BudgetRequestTypes DEF BudgetInvariant
    <3>3. 1 \in DOMAIN todo
      <4>1. Len(todo) \in Nat /\ Len(todo) # 0 /\ DOMAIN todo = 1..Len(todo)
        BY <3>1, <3>2, EmptySeq
      <4> QED BY <4>1
    <3> QED BY <3>1, <3>3 DEF Budget!Filling, Budget!Busy
  <2> QED BY <2>1, <2>2
<1> QED BY <1>1 DEF BudgetInvariant, OneRow, Budget!OneBudgetPerKey

\* Templates, budgets and requests keep their shapes (the tables of budgets).
THEOREM BudgetsTypeCorrect ==
  ASSUME Budget!ConstantsAssumption
  PROVE  Budget!Spec => []Budget!TypeOK
<1>1. BudgetInvariant => Budget!TypeOK
  BY DEF BudgetInvariant
<1> QED BY BudgetInvariantInit, BudgetInvariantStep, <1>1, PTL DEF Budget!Spec

\* One budget per key and month and one template per key, but for keys two requests looked
\* up at once, and a template registered this month has its budget or is about to get it
\* (upsertBudgetRecord, upsertBudgetTemplateRecord, upsertGroupBudgetRecord).
THEOREM OneBudgetPerKeyHolds ==
  ASSUME Budget!ConstantsAssumption
  PROVE  Budget!Spec => []Budget!OneBudgetPerKey
BY BudgetInvariantInit, BudgetInvariantStep, BudgetFromInvariant, PTL DEF Budget!Spec

-----------------------------------------------------------------------------
(* Anniversaries: a generation at work knows what it found.                  *)

AnnualHorizon == today + DaysAhead

\* Before the first request there is nothing.
NotBegun == requests = 0 => anniversary = None /\ tasks = {} /\ through = 0

\* What is about to be inserted are the milestones as of today that had no task.
MilestonesOwed ==
  \A w \in Annual!Workers : Annual!At(w, "insert") =>
    LET r == request[w] IN
    /\ r.day = today /\ r.todo \cap r.found = {}
    /\ r.todo \subseteq Annual!Specs(r.date, r.config)
    /\ Annual!Specs(r.date, r.config) \subseteq r.todo \cup r.found

\* Who is to delete the tasks ahead stored a configuration today, if no date came after it.
ClearsToday == \A h \in Handlers : Annual!At(h, "clear") => since \in {0, today}

DatedFrom == Annual!Exists =>
  misdated \/ \A t \in tasks : t.at = Annual!CalcScheduledAt(anniversary.date, t.offset)

OneEach == \A t, u \in tasks : t.made /\ u.made /\ t.offset = u.offset => t = u
AllThere ==
  through = today =>
    \A o \in {"DAYS", "YEARS"} \X (1..AnnualHorizon) \cup {<<"DAYS", 0>>} :
      Annual!Milestone(o, AnnualHorizon) => o \in Annual!Offsets(tasks) \cup freed
NoOthers ==
  since # 0 /\ (\A h \in Handlers : ~Annual!At(h, "clear")) =>
    \A t \in tasks : t.made /\ t.at >= since => Annual!Milestone(t.offset, AnnualHorizon)

AnnualInvariant ==
  /\ Annual!TypeOK /\ IsFiniteSet(tasks) /\ through <= today /\ since <= today
  /\ NotBegun /\ MilestonesOwed /\ ClearsToday /\ DatedFrom
  /\ Annual!Exists => raced \/ (OneEach /\ AllThere /\ NoOthers)

LEMMA AnnualTyped ==
  ASSUME Annual!ConstantsAssumption, Annual!TypeOK
  PROVE  /\ today \in Nat /\ today >= 1 /\ AnnualHorizon \in Nat /\ AnnualHorizon >= 1
         /\ DaysAhead \in Nat /\ Hundred \in Nat \ {0} /\ Year \in Nat \ {0}
         /\ through \in Nat /\ since \in Nat /\ requests \in Nat
         /\ Annual!Exists => /\ anniversary \in Annual!Row /\ anniversary.date \in Int
                             /\ anniversary.config \in Annual!Configurations
<1>1. anniversary \in {None} \cup Annual!Row
  BY DEF Annual!TypeOK
<1>2. Annual!Exists => /\ anniversary \in Annual!Row /\ anniversary.date \in Int
                       /\ anniversary.config \in Annual!Configurations
  BY <1>1 DEF Annual!Exists, Annual!Row
<1> QED BY <1>2 DEF Annual!ConstantsAssumption, Annual!TypeOK, AnnualHorizon

\* A product of two of the counted numbers is no less than one of them.
LEMMA AtLeastFactor ==
  ASSUME NEW m \in Nat \ {0}, NEW n \in Nat
  PROVE  m * n \in Nat /\ m * n >= n
OBVIOUS

LEMMA MultipleOf ==
  ASSUME NEW m \in Nat \ {0}, NEW n \in Nat
  PROVE  (m * n) % m = 0
OBVIOUS

LEMMA IsMultiple ==
  ASSUME NEW m \in Nat \ {0}, NEW x \in Nat \ {0}, x % m = 0
  PROVE  \E n \in 1..x : x = m * n
<1>1. x = m * (x \div m) + (x % m) /\ x \div m \in Int
  OBVIOUS
<1> DEFINE n == x \div m
<1>2. x = m * n /\ n \in Int
  BY <1>1
<1> HIDE DEF n
<1>3. n >= 1
  BY <1>2
<1>4. n <= x
  BY <1>2, <1>3, AtLeastFactor
<1> QED BY <1>2, <1>3, <1>4

LEMMA CalcTyped ==
  ASSUME Annual!ConstantsAssumption, NEW date \in Int, NEW o \in Annual!Offset
  PROVE  Annual!CalcScheduledAt(date, o) \in Int
<1>1. o[2] \in Int
  BY DEF Annual!Offset
<1>2. Year \in Int
  BY DEF Annual!ConstantsAssumption
<1> QED BY <1>1, <1>2 DEF Annual!CalcScheduledAt

\* The milestones that are computed.
LEMMA SpecsMembers ==
  ASSUME Annual!ConstantsAssumption, Annual!TypeOK,
         NEW date \in Int, NEW config \in Annual!Configurations
  PROVE  /\ Annual!Specs(date, config) \subseteq Annual!Offset
         /\ \A o \in Annual!Offset :
              o \in Annual!Specs(date, config) <=>
                /\ Annual!CalcScheduledAt(date, o) <= AnnualHorizon
                /\ \/ o = <<"DAYS", 0>>
                   \/ /\ config # None /\ "every100Days" \in config
                      /\ \E n \in 1..AnnualHorizon : o = <<"DAYS", Hundred * n>>
                   \/ /\ config # None /\ "everyYear" \in config
                      /\ \E n \in 1..AnnualHorizon : o = <<"YEARS", 1 * n>>
<1> DEFINE of(kind, type, step) ==
             {<<type, step * n>> : n \in {m \in 1..AnnualHorizon : kind \in config}}
           days  == IF config = None THEN {} ELSE of("every100Days", "DAYS", Hundred)
           years == IF config = None THEN {} ELSE of("everyYear", "YEARS", 1)
<1>1. Annual!Specs(date, config) =
        {o \in {<<"DAYS", 0>>} \cup days \cup years :
           Annual!CalcScheduledAt(date, o) <= AnnualHorizon}
  BY DEF Annual!Specs, AnnualHorizon
<1>2. AnnualHorizon \in Nat /\ Hundred \in Nat
  BY AnnualTyped
<1>3. days \subseteq Annual!Offset /\ years \subseteq Annual!Offset
  BY <1>2 DEF Annual!Offset
<1>4. <<"DAYS", 0>> \in Annual!Offset
  BY DEF Annual!Offset
<1>5. \A o : o \in days <=> /\ config # None /\ "every100Days" \in config
                            /\ \E n \in 1..AnnualHorizon : o = <<"DAYS", Hundred * n>>
  OBVIOUS
<1>6. \A o : o \in years <=> /\ config # None /\ "everyYear" \in config
                             /\ \E n \in 1..AnnualHorizon : o = <<"YEARS", 1 * n>>
  OBVIOUS
<1> HIDE DEF days, years
<1> QED BY <1>1, <1>3, <1>4, <1>5, <1>6

LEMMA SpecsFinite ==
  ASSUME Annual!ConstantsAssumption, Annual!TypeOK,
         NEW date \in Int, NEW config \in Annual!Configurations
  PROVE  IsFiniteSet(Annual!Specs(date, config))
<1> DEFINE N == 1..AnnualHorizon
           A == {<<"DAYS", Hundred * n>> : n \in N}
           B == {<<"YEARS", 1 * n>> : n \in N}
           All == {<<"DAYS", 0>>} \cup A \cup B
<1>1. IsFiniteSet(N)
  BY AnnualTyped, FS_Interval
<1> HIDE DEF N
<1>2. IsFiniteSet(A) /\ IsFiniteSet(B)
  <2>1. /\ [n \in N |-> <<"DAYS", Hundred * n>>] \in Surjection(N, A)
        /\ [n \in N |-> <<"YEARS", 1 * n>>] \in Surjection(N, B)
    BY DEF Surjection
  <2> QED BY <1>1, <2>1, FS_Surjection
<1>3. \A o \in Annual!Specs(date, config) : o = <<"DAYS", 0>> \/ o \in A \/ o \in B
  BY SpecsMembers DEF N
<1> HIDE DEF A, B
<1>4. IsFiniteSet({<<"DAYS", 0>>})
  BY FS_Singleton
<1>5. IsFiniteSet({<<"DAYS", 0>>} \cup A)
  BY <1>2, <1>4, FS_Union
<1>6. IsFiniteSet(All)
  BY <1>2, <1>5, FS_Union
<1>7. Annual!Specs(date, config) \subseteq All
  BY <1>3
<1> QED BY <1>6, <1>7, FS_Subset

\* ... are those that the anniversary has.
LEMMA SpecsAreMilestones ==
  ASSUME Annual!ConstantsAssumption, Annual!TypeOK, Annual!Exists
  PROVE  LET S == Annual!Specs(anniversary.date, anniversary.config) IN
         /\ \A o \in S : Annual!Milestone(o, AnnualHorizon)
         /\ \A o \in {"DAYS", "YEARS"} \X (1..AnnualHorizon) \cup {<<"DAYS", 0>>} :
              Annual!Milestone(o, AnnualHorizon) => o \in S
<1> DEFINE date == anniversary.date
           config == anniversary.config
           S == Annual!Specs(date, config)
<1>1. /\ date \in Int /\ config \in Annual!Configurations /\ AnnualHorizon \in Nat
      /\ Hundred \in Nat \ {0} /\ Year \in Nat
  BY AnnualTyped
<1>2. /\ S \subseteq Annual!Offset
      /\ \A o \in Annual!Offset : o \in S <=>
           /\ Annual!CalcScheduledAt(date, o) <= AnnualHorizon
           /\ \/ o = <<"DAYS", 0>>
              \/ /\ config # None /\ "every100Days" \in config
                 /\ \E n \in 1..AnnualHorizon : o = <<"DAYS", Hundred * n>>
              \/ /\ config # None /\ "everyYear" \in config
                 /\ \E n \in 1..AnnualHorizon : o = <<"YEARS", 1 * n>>
  BY <1>1, SpecsMembers
<1> HIDE DEF S
<1>3. \A o \in Annual!Offset :
        Annual!CalcScheduledAt(date, o) = date + (o[2] * (IF o[1] = "YEARS" THEN Year ELSE 1))
  BY DEF Annual!CalcScheduledAt
<1>4. ASSUME NEW o \in S PROVE Annual!Milestone(o, AnnualHorizon)
  <2>1. o \in Annual!Offset /\ o[2] \in Int /\ Annual!CalcScheduledAt(date, o) <= AnnualHorizon
    BY <1>2 DEF Annual!Offset
  <2>2. CASE o = <<"DAYS", 0>>
    <3>1. o[1] = "DAYS" /\ o[2] = 0
      BY <2>2
    <3>2. date <= AnnualHorizon
      BY <1>1, <1>3, <2>1, <3>1
    <3> QED BY <2>2, <3>2 DEF Annual!Milestone
  <2>3. CASE /\ config # None /\ "every100Days" \in config
             /\ \E n \in 1..AnnualHorizon : o = <<"DAYS", Hundred * n>>
    <3>1. PICK n \in 1..AnnualHorizon : o = <<"DAYS", Hundred * n>>
      BY <2>3
    <3>2. o[1] = "DAYS" /\ o[2] = Hundred * n /\ n \in Nat
      BY <1>1, <3>1
    <3>3. o[2] % Hundred = 0
      BY <1>1, <3>2, MultipleOf
    <3>4. date + o[2] <= AnnualHorizon
      BY <1>1, <1>3, <2>1, <3>2
    <3> QED BY <2>3, <3>2, <3>3, <3>4 DEF Annual!Milestone
  <2>4. CASE /\ config # None /\ "everyYear" \in config
             /\ \E n \in 1..AnnualHorizon : o = <<"YEARS", 1 * n>>
    <3>1. o[1] = "YEARS"
      BY <2>4
    <3>2. date + o[2] * Year <= AnnualHorizon
      BY <1>3, <2>1, <3>1
    <3> QED BY <2>4, <3>1, <3>2 DEF Annual!Milestone
  <2> QED BY <1>2, <2>1, <2>2, <2>3, <2>4
<1>5. ASSUME NEW o \in {"DAYS", "YEARS"} \X (1..AnnualHorizon) \cup {<<"DAYS", 0>>},
             Annual!Milestone(o, AnnualHorizon)
      PROVE  o \in S
  <2>1. /\ o \in Annual!Offset /\ o = <<o[1], o[2]>> /\ o[2] \in Nat
        /\ o = <<"DAYS", 0>> \/ o[2] \in 1..AnnualHorizon
    BY <1>1 DEF Annual!Offset
  <2>2. CASE o = <<"DAYS", 0>> /\ date <= AnnualHorizon
    <3>1. o[1] = "DAYS" /\ o[2] = 0
      BY <2>2
    <3>2. Annual!CalcScheduledAt(date, o) <= AnnualHorizon
      BY <1>1, <1>3, <2>1, <2>2, <3>1
    <3> QED BY <1>2, <2>1, <2>2, <3>2
  <2>3. CASE /\ config # None /\ "every100Days" \in config /\ o[1] = "DAYS" /\ o # <<"DAYS", 0>>
             /\ o[2] % Hundred = 0 /\ date + o[2] <= AnnualHorizon
    <3>1. o[2] \in 1..AnnualHorizon
      BY <2>1, <2>3
    <3>2. PICK n \in 1..o[2] : o[2] = Hundred * n
      <4> DEFINE x == o[2]
      <4>1. x \in Nat \ {0} /\ x % Hundred = 0
        BY <2>3, <3>1
      <4> HIDE DEF x
      <4>2. \E n \in 1..x : x = Hundred * n
        BY <1>1, <4>1, IsMultiple
      <4> QED BY <4>2 DEF x
    <3>3. n \in 1..AnnualHorizon
      BY <1>1, <3>1
    <3>4. o = <<"DAYS", Hundred * n>>
      BY <2>1, <2>3, <3>2
    <3>5. Annual!CalcScheduledAt(date, o) <= AnnualHorizon
      BY <1>1, <1>3, <2>1, <2>3
    <3> QED BY <1>2, <2>1, <2>3, <3>3, <3>4, <3>5
  <2>4. CASE /\ config # None /\ "everyYear" \in config /\ o[1] = "YEARS"
             /\ date + o[2] * Year <= AnnualHorizon
    <3>1. o[2] \in 1..AnnualHorizon
      BY <2>1, <2>4
    <3>2. o = <<"YEARS", 1 * o[2]>>
      BY <2>1, <2>4
    <3>3. Annual!CalcScheduledAt(date, o) <= AnnualHorizon
      BY <1>3, <2>1, <2>4
    <3> QED BY <1>2, <2>1, <2>4, <3>1, <3>2, <3>3
  <2>5. CASE /\ config # None /\ "every100Days" \in config /\ o = <<"DAYS", 0>>
             /\ date + o[2] <= AnnualHorizon
    <3>1. o[2] = 0
      BY <2>5
    <3> QED BY <1>1, <2>2, <2>5, <3>1
  <2> QED BY <1>5, <2>2, <2>3, <2>4, <2>5 DEF Annual!Milestone
<1> QED BY <1>4, <1>5 DEF S

LEMMA OffsetsMembers ==
  ASSUME NEW S, NEW o
  PROVE  o \in Annual!Offsets(S) <=> \E t \in S : t.offset = o
BY DEF Annual!Offsets

\* A task as it was inserted.
NewOne(t, O, date, made) ==
  t.offset \in O /\ t.made = made /\ t.at = Annual!CalcScheduledAt(date, t.offset)

\* One more task for each of the offsets.
LEMMA WithTasksWritten ==
  ASSUME Annual!ConstantsAssumption, NEW S \in SUBSET Annual!Task, IsFiniteSet(S),
         NEW O \in SUBSET Annual!Offset, IsFiniteSet(O), NEW date \in Int, NEW made \in BOOLEAN
  PROVE  LET T == Annual!WithTasks(S, O, date, made) IN
         /\ T \subseteq Annual!Task /\ IsFiniteSet(T) /\ S \subseteq T
         /\ Annual!Offsets(T) = Annual!Offsets(S) \cup O
         /\ \A t \in T : t \in S \/ NewOne(t, O, date, made)
         /\ \A t, u \in T : t \notin S /\ u \notin S /\ t.offset = u.offset => t = u
<1> DEFINE copies(o) == Annual!Cardinality({t \in S : t.offset = o /\ t.made = made})
           new(o) == [offset |-> o, at |-> Annual!CalcScheduledAt(date, o), made |-> made,
                      copy |-> copies(o)]
           N == {new(o) : o \in O}
           T == Annual!WithTasks(S, O, date, made)
<1>1. T = S \cup N
  BY DEF Annual!WithTasks
<1>2. ASSUME NEW o \in O PROVE copies(o) \in Nat
  <2> DEFINE C == {t \in S : t.offset = o /\ t.made = made}
  <2>1. IsFiniteSet(C)
    BY FS_Subset
  <2>2. Annual!Cardinality(C) = Cardinality(C)
    BY Zenon DEF Cardinality, Annual!Cardinality
  <2> QED BY <2>1, <2>2, FS_CardinalityType
<1> HIDE DEF copies
<1>3. N \subseteq Annual!Task
  BY <1>2, CalcTyped DEF Annual!Task
<1>4. IsFiniteSet(N)
  <2>1. [o \in O |-> new(o)] \in Surjection(O, N)
    BY DEF Surjection
  <2> QED BY <2>1, FS_Surjection
<1>5. \A t \in N : /\ t.offset \in O /\ t.made = made /\ t = new(t.offset)
                   /\ t.at = Annual!CalcScheduledAt(date, t.offset)
  OBVIOUS
<1>6. Annual!Offsets(N) = O
  <2>1. \A o \in O : new(o) \in N /\ new(o).offset = o
    OBVIOUS
  <2>2. \A o : o \in Annual!Offsets(N) <=> \E t \in N : t.offset = o
    BY OffsetsMembers
  <2>3. \A o : o \in Annual!Offsets(N) => o \in O
    BY <1>5, <2>2
  <2> HIDE DEF N, new
  <2>4. \A o \in O : o \in Annual!Offsets(N)
    BY <2>1, <2>2
  <2> QED BY <2>3, <2>4
<1> HIDE DEF N, new
<1>7. IsFiniteSet(S \cup N)
  BY <1>4, FS_Union
<1>8. Annual!Offsets(S \cup N) = Annual!Offsets(S) \cup O
  <2>1. \A A, B : Annual!Offsets(A \cup B) = Annual!Offsets(A) \cup Annual!Offsets(B)
    BY OffsetsMembers
  <2> QED BY <1>6, <2>1
<1>9. \A t, u \in N : t.offset = u.offset => t = u
  BY <1>5
<1>10. /\ T \subseteq Annual!Task /\ S \subseteq T
       /\ \A t \in T : t \in S \/ NewOne(t, O, date, made)
       /\ \A t, u \in T : t \notin S /\ u \notin S /\ t.offset = u.offset => t = u
  <2>1. \A t \in T : t \in S \/ t \in N
    BY <1>1
  <2>2. T \subseteq Annual!Task /\ S \subseteq T
    BY <1>1, <1>3
  <2>3. \A t, u \in T : t \notin S /\ u \notin S /\ t.offset = u.offset => t = u
    BY <1>9, <2>1
  <2>4. \A t \in N : NewOne(t, O, date, made)
    BY <1>5 DEF NewOne
  <2> QED BY <2>1, <2>2, <2>3, <2>4
<1>11. IsFiniteSet(T) /\ Annual!Offsets(T) = Annual!Offsets(S) \cup O
  BY <1>1, <1>7, <1>8
<1> QED BY <1>10, <1>11

\* One entry of the requests is written, not with what is to be inserted.
LEMMA AnnualEntryWritten ==
  ASSUME Annual!ConstantsAssumption, AnnualInvariant, NEW w \in Annual!Workers,
         NEW r \in {None} \cup Annual!Request, request' = [request EXCEPT ![w] = r],
         r # None => r.stage # "insert",
         r # None /\ r.stage = "clear" => since' \in {0, today},
         since' = since \/ since' \in {0, today}, today' = today
  PROVE  /\ request' \in [Annual!Workers -> {None} \cup Annual!Request]
         /\ \A v \in Annual!Workers : request'[v] = IF v = w THEN r ELSE request[v]
         /\ MilestonesOwed' /\ ClearsToday'
<1>1. /\ request' \in [Annual!Workers -> {None} \cup Annual!Request]
      /\ \A v \in Annual!Workers : request'[v] = IF v = w THEN r ELSE request[v]
  BY DEF AnnualInvariant, Annual!TypeOK
<1>2. MilestonesOwed'
  <2>1. \A d, c : Annual!Specs(d, c)' = Annual!Specs(d, c)
    BY DEF Annual!Specs, Annual!CalcScheduledAt
  <2>2. \A v \in Annual!Workers : Annual!At(v, "insert")' =>
          Annual!At(v, "insert") /\ request'[v] = request[v]
    BY <1>1 DEF Annual!At
  <2>3. MilestonesOwed
    BY DEF AnnualInvariant
  <2> QED BY <2>1, <2>2, <2>3 DEF MilestonesOwed
<1>3. ClearsToday'
  <2>1. ASSUME NEW h \in Handlers, Annual!At(h, "clear")' PROVE since' \in {0, today'}
    <3>1. h \in Annual!Workers
      BY DEF Annual!Workers
    <3>2. h = w \/ Annual!At(h, "clear")
      BY <1>1, <2>1, <3>1 DEF Annual!At
    <3>3. CASE h = w
      BY <1>1, <2>1, <3>1, <3>3 DEF Annual!At
    <3>4. CASE Annual!At(h, "clear")
      BY <3>4 DEF AnnualInvariant, ClearsToday
    <3> QED BY <3>2, <3>3, <3>4
  <2> QED BY <2>1 DEF ClearsToday
<1> QED BY <1>1, <1>2, <1>3

\* The rows, tasks and ghosts stay as they are.
LEMMA AnnualRowsKept ==
  ASSUME Annual!ConstantsAssumption, AnnualInvariant,
         UNCHANGED <<today, anniversary, tasks, misdated, raced, freed, through, since>>,
         request' \in [Annual!Workers -> {None} \cup Annual!Request],
         lock' \in Servers \cup {None}, fired' \subseteq Servers,
         requests' \in 0..AnniversaryRequests, requests' = 0 => requests = 0,
         MilestonesOwed', ClearsToday',
         \A h \in Handlers : Annual!At(h, "clear") => Annual!At(h, "clear")'
  PROVE  AnnualInvariant'
<1>1. Annual!TypeOK'
  BY DEF AnnualInvariant, Annual!TypeOK
<1>2. IsFiniteSet(tasks)' /\ (through <= today /\ since <= today)' /\ NotBegun'
  BY DEF AnnualInvariant, NotBegun
<1>3. DatedFrom'
  BY DEF AnnualInvariant, DatedFrom, Annual!Exists, Annual!CalcScheduledAt
<1>4. (Annual!Exists => raced \/ (OneEach /\ AllThere /\ NoOthers))'
  <2>1. \A o, n : Annual!Milestone(o, n)' <=> Annual!Milestone(o, n)
    BY DEF Annual!Milestone
  <2>2. OneEach => OneEach'
    BY DEF OneEach
  <2>3. AllThere => AllThere'
    BY <2>1 DEF AllThere, AnnualHorizon, Annual!Offsets
  <2>4. NoOthers => NoOthers'
    BY <2>1 DEF NoOthers, AnnualHorizon
  <2> QED BY <2>2, <2>3, <2>4 DEF AnnualInvariant, Annual!Exists
<1> QED BY <1>1, <1>2, <1>3, <1>4 DEF AnnualInvariant

\* ... and one entry of the requests is written, not of who is to delete.
LEMMA AnnualEntryStep ==
  ASSUME Annual!ConstantsAssumption, AnnualInvariant,
         UNCHANGED <<today, anniversary, tasks, misdated, raced, freed, through, since>>,
         NEW w \in Annual!Workers, NEW r \in {None} \cup Annual!Request,
         request' = [request EXCEPT ![w] = r],
         r # None => r.stage \notin {"insert", "clear"},
         w \in Handlers => ~Annual!At(w, "clear"),
         lock' \in Servers \cup {None}, fired' \subseteq Servers,
         requests' \in 0..AnniversaryRequests, requests' = 0 => requests = 0
  PROVE  AnnualInvariant'
<1>1. /\ request' \in [Annual!Workers -> {None} \cup Annual!Request]
      /\ \A v \in Annual!Workers : request'[v] = IF v = w THEN r ELSE request[v]
      /\ MilestonesOwed' /\ ClearsToday'
  BY AnnualEntryWritten
<1>2. \A h \in Handlers : Annual!At(h, "clear") => Annual!At(h, "clear")'
  <2>1. Handlers \subseteq Annual!Workers
    BY DEF Annual!Workers
  <2> QED BY <1>1, <2>1 DEF Annual!At
<1> QED BY <1>1, <1>2, AnnualRowsKept

LEMMA AnnualBegin ==
  ASSUME Annual!ConstantsAssumption, AnnualInvariant, NEW h \in Handlers, NEW r,
         Annual!Begin(h, r)
  PROVE  /\ h \in Annual!Workers /\ request[h] = None /\ request' = [request EXCEPT ![h] = r]
         /\ requests' \in 0..AnniversaryRequests /\ requests' # 0
         /\ ~Annual!At(h, "clear")
<1>1. requests \in 0..AnniversaryRequests /\ AnniversaryRequests \in Nat
  BY DEF AnnualInvariant, Annual!TypeOK, Annual!ConstantsAssumption
<1> QED BY <1>1 DEF Annual!Begin, Annual!Workers, Annual!At

\* What a request or a job has read.
LEMMA AnnualRead ==
  ASSUME Annual!ConstantsAssumption, AnnualInvariant, NEW w \in Annual!Workers, request[w] # None
  PROVE  LET r == request[w] IN
         /\ r \in Annual!Request
         /\ r.stage \in {"look", "clear", "insert"} =>
              r.date \in Int /\ r.config \in Annual!Configurations
         /\ r.stage \in {"look", "clear"} => r.todo = {} /\ r = [stage |-> r.stage, date |-> r.date, config |-> r.config, todo |-> {}]
         /\ r.stage = "insert" => /\ r.day \in 1..AnniversaryDays
                                  /\ r.todo \subseteq Annual!Offset
         /\ r.stage = "update" => /\ r.date \in {None} \cup Int /\ r.was \in Int
                                  /\ r.config \in Annual!Configurations
         /\ r.stage = "link" => r.offset \in Annual!Offset /\ r.date \in Int
<1>1. request[w] \in Annual!Request
  BY DEF AnnualInvariant, Annual!TypeOK
<1> QED BY <1>1 DEF Annual!Request

\* Requests that read, and the job.
LEMMA AnnualRequestsStep ==
  ASSUME Annual!ConstantsAssumption, AnnualInvariant, NEW h \in Handlers,
         \/ \E change \in NewDates : Annual!UpdateRead(h, change)
         \/ \E keep \in BOOLEAN : Annual!Delete(h, keep)
         \/ \E offset \in TaskOffsets : Annual!Link(h, offset)
  PROVE  AnnualInvariant'
<1>1. /\ UNCHANGED <<today, anniversary, tasks, lock, fired, misdated, raced, freed, through, since>>
      /\ Annual!Exists /\ lock \in Servers \cup {None} /\ fired \subseteq Servers
  BY DEF Annual!UpdateRead, Annual!Delete, Annual!Link, Annual!ghosts, AnnualInvariant,
         Annual!TypeOK
<1>2. PICK r \in Annual!Request : /\ Annual!Begin(h, r)
                                  /\ r.stage \notin {"insert", "clear"}
  <2>1. anniversary.date \in Int
    BY <1>1, AnnualTyped DEF AnnualInvariant
  <2>2. CASE \E change \in NewDates : Annual!UpdateRead(h, change)
    <3>1. PICK change \in NewDates :
             Annual!Begin(h, [stage |-> "update", date |-> change.date, config |-> change.config,
                              was |-> anniversary.date])
      BY <2>2 DEF Annual!UpdateRead
    <3>2. [stage |-> "update", date |-> change.date, config |-> change.config,
           was |-> anniversary.date] \in Annual!Request
      BY <2>1 DEF Annual!ConstantsAssumption, Annual!Request
    <3> QED BY <3>1, <3>2
  <2>3. CASE \E keep \in BOOLEAN : Annual!Delete(h, keep)
    <3>1. PICK stage \in {"detach", "delete"} : Annual!Begin(h, [stage |-> stage])
      BY <2>3 DEF Annual!Delete
    <3>2. [stage |-> stage] \in Annual!Request
      BY DEF Annual!Request
    <3> QED BY <3>1, <3>2
  <2>4. CASE \E offset \in TaskOffsets : Annual!Link(h, offset)
    <3>1. PICK offset \in TaskOffsets :
             Annual!Begin(h, [stage |-> "link", offset |-> offset, date |-> anniversary.date])
      BY <2>4 DEF Annual!Link
    <3>2. [stage |-> "link", offset |-> offset, date |-> anniversary.date] \in Annual!Request
      BY <2>1 DEF Annual!ConstantsAssumption, Annual!Request
    <3> QED BY <3>1, <3>2
  <2> QED BY <2>2, <2>3, <2>4
<1>3. /\ h \in Annual!Workers /\ request' = [request EXCEPT ![h] = r]
      /\ requests' \in 0..AnniversaryRequests /\ requests' # 0 /\ ~Annual!At(h, "clear")
  BY <1>2, AnnualBegin
<1> QED BY <1>1, <1>2, <1>3, AnnualEntryStep

LEMMA AnnualJobStep ==
  ASSUME Annual!ConstantsAssumption, AnnualInvariant,
         \/ \E w \in Annual!Workers : Annual!InsertFails(w)
         \/ \E s \in Servers : Annual!Fire(s) \/ Annual!Extend(s) \/ Annual!Release(s)
  PROVE  AnnualInvariant'
<1>1. /\ UNCHANGED <<today, anniversary, tasks, requests, misdated, raced, freed, through, since>>
      /\ lock \in Servers \cup {None} /\ fired \subseteq Servers
      /\ requests \in 0..AnniversaryRequests
      /\ request \in [Annual!Workers -> {None} \cup Annual!Request]
      /\ MilestonesOwed /\ ClearsToday
  BY DEF Annual!InsertFails, Annual!Fire, Annual!Extend, Annual!Release, Annual!ghosts,
         AnnualInvariant, Annual!TypeOK
<1>2. ASSUME NEW w \in Annual!Workers, NEW stage \in {"insert", "extend"}, Annual!At(w, stage),
             NEW r \in {None} \cup Annual!Request, request' = [request EXCEPT ![w] = r],
             r # None => r.stage \notin {"insert", "clear"},
             UNCHANGED <<lock, fired>>
      PROVE  AnnualInvariant'
  <2>1. ~Annual!At(w, "clear")
    BY <1>2 DEF Annual!At
  <2> QED BY <1>1, <1>2, <2>1, AnnualEntryStep
<1>3. ASSUME NEW w \in Annual!Workers, Annual!InsertFails(w) PROVE AnnualInvariant'
  BY <1>2, <1>3 DEF Annual!InsertFails, Annual!Done
<1>4. ASSUME NEW s \in Servers, Annual!Extend(s) PROVE AnnualInvariant'
  <2>1. s \in Annual!Workers
    BY DEF Annual!Workers
  <2>2. CASE Annual!Exists
    <3> DEFINE r == Annual!Generation("look", anniversary.date, anniversary.config)
    <3>1. r \in Annual!Request /\ r.stage = "look"
      BY <2>2, AnnualTyped DEF AnnualInvariant, Annual!Generation, Annual!Request
    <3>2. request' = [request EXCEPT ![s] = r] /\ Annual!At(s, "extend") /\ UNCHANGED <<lock, fired>>
      BY <1>4, <2>2 DEF Annual!Extend
    <3> QED BY <1>2, <2>1, <3>1, <3>2
  <2>3. CASE ~Annual!Exists
    BY <1>2, <1>4, <2>1, <2>3 DEF Annual!Extend
  <2> QED BY <2>2, <2>3
<1>5. \A v : Annual!At(v, "clear") /\ request' = request => Annual!At(v, "clear")'
  BY DEF Annual!At
<1>6. ASSUME request' = request, lock' \in Servers \cup {None}, fired' \subseteq Servers
      PROVE  AnnualInvariant'
  <2>1. MilestonesOwed'
    <3>1. \A d, c : Annual!Specs(d, c)' = Annual!Specs(d, c)
      BY <1>1 DEF Annual!Specs, Annual!CalcScheduledAt
    <3> QED BY <1>1, <1>6, <3>1 DEF MilestonesOwed, Annual!At
  <2>2. ClearsToday'
    BY <1>1, <1>6 DEF ClearsToday, Annual!At
  <2>3. \A h \in Handlers : Annual!At(h, "clear") => Annual!At(h, "clear")'
    BY <1>5, <1>6
  <2> QED BY <1>1, <1>6, <2>1, <2>2, <2>3, AnnualRowsKept
<1>7. ASSUME NEW s \in Servers, Annual!Fire(s) PROVE AnnualInvariant'
  <2>1. s \in Annual!Workers /\ [stage |-> "extend"] \in Annual!Request
    BY DEF Annual!Workers, Annual!Request
  <2>2. fired' = fired \cup {s}
    BY <1>7 DEF Annual!Fire
  <2>3. CASE lock = None
    <3>1. lock' = s /\ request' = [request EXCEPT ![s] = [stage |-> "extend"]]
      BY <1>7, <2>3 DEF Annual!Fire
    <3>2. s \notin Handlers
      BY DEF Annual!ConstantsAssumption
    <3> QED BY <1>1, <2>1, <2>2, <3>1, <3>2, AnnualEntryStep
  <2>4. CASE lock # None
    BY <1>1, <1>6, <1>7, <2>2, <2>4 DEF Annual!Fire
  <2> QED BY <2>3, <2>4
<1>8. ASSUME NEW s \in Servers, Annual!Release(s) PROVE AnnualInvariant'
  BY <1>1, <1>6, <1>8 DEF Annual!Release
<1> QED BY <1>3, <1>4, <1>7, <1>8

\* The milestones that have no task are those to insert.
LEMMA AnnualLookStep ==
  ASSUME Annual!ConstantsAssumption, AnnualInvariant, NEW w \in Annual!Workers, Annual!Look(w)
  PROVE  AnnualInvariant'
<1> DEFINE r == request[w]
           S == Annual!Specs(r.date, r.config)
           n == [stage |-> "insert", date |-> r.date, config |-> r.config, day |-> today,
                 todo |-> S \ Annual!Offsets(tasks), found |-> Annual!Offsets(tasks)]
<1>1. /\ Annual!At(w, "look") /\ request' = [request EXCEPT ![w] = n]
      /\ UNCHANGED <<today, anniversary, tasks, lock, fired, requests, misdated, raced, freed,
                     through, since>>
  BY DEF Annual!Look, Annual!ghosts
<1>2. r.date \in Int /\ r.config \in Annual!Configurations
  BY <1>1, AnnualRead DEF Annual!At
<1>3. S \subseteq Annual!Offset
  BY <1>2, SpecsMembers DEF AnnualInvariant
<1>4. Annual!Offsets(tasks) \subseteq Annual!Offset
  BY DEF AnnualInvariant, Annual!TypeOK, Annual!Offsets, Annual!Task
<1>5. n \in Annual!Request
  <2>1. today \in 1..AnniversaryDays
    BY DEF AnnualInvariant, Annual!TypeOK
  <2> HIDE DEF S
  <2> QED BY <1>2, <1>3, <1>4, <2>1 DEF Annual!Request
<1>6. /\ n.stage = "insert" /\ n.day = today /\ n.todo \cap n.found = {} /\ n.todo \subseteq S
      /\ S \subseteq n.todo \cup n.found /\ n.date = r.date /\ n.config = r.config
  OBVIOUS
<1>7. \A d, c : Annual!Specs(d, c)' = Annual!Specs(d, c)
  BY <1>1 DEF Annual!Specs, Annual!CalcScheduledAt
<1>8. S = Annual!Specs(n.date, n.config)
  BY <1>6
<1> HIDE DEF n, S
<1>9. request' \in [Annual!Workers -> {None} \cup Annual!Request]
  BY <1>1, <1>5 DEF AnnualInvariant, Annual!TypeOK
<1>10. \A v \in Annual!Workers : request'[v] = IF v = w THEN n ELSE request[v]
  BY <1>1 DEF AnnualInvariant, Annual!TypeOK
<1>11. MilestonesOwed'
  <2>1. ASSUME NEW v \in Annual!Workers, Annual!At(v, "insert")'
        PROVE  LET q == request'[v] IN
               /\ q.day = today /\ q.todo \cap q.found = {}
               /\ q.todo \subseteq Annual!Specs(q.date, q.config)
               /\ Annual!Specs(q.date, q.config) \subseteq q.todo \cup q.found
    <3>1. CASE v = w
      BY <1>6, <1>8, <1>10, <3>1
    <3>2. CASE v # w
      <4>1. request'[v] = request[v] /\ Annual!At(v, "insert")
        BY <1>10, <2>1, <3>2 DEF Annual!At
      <4> QED BY <4>1 DEF AnnualInvariant, MilestonesOwed
    <3> QED BY <3>1, <3>2
  <2> QED BY <1>1, <1>7, <2>1 DEF MilestonesOwed
<1>12. \A h \in Handlers : Annual!At(h, "clear")' <=> Annual!At(h, "clear")
  <2>1. Handlers \subseteq Annual!Workers
    BY DEF Annual!Workers
  <2> QED BY <1>1, <1>6, <1>10, <2>1 DEF Annual!At
<1>13. ClearsToday'
  BY <1>1, <1>12 DEF AnnualInvariant, ClearsToday
<1>14. /\ lock' \in Servers \cup {None} /\ fired' \subseteq Servers
       /\ requests' \in 0..AnniversaryRequests /\ requests' = requests
  BY <1>1 DEF AnnualInvariant, Annual!TypeOK
<1> QED BY <1>1, <1>9, <1>11, <1>12, <1>13, <1>14, AnnualRowsKept

\* They are inserted, for the row as it was read.
LEMMA AnnualInsertStep ==
  ASSUME Annual!ConstantsAssumption, AnnualInvariant, NEW w \in Annual!Workers, Annual!Insert(w)
  PROVE  AnnualInvariant'
<1> DEFINE r == request[w]
           S == Annual!Specs(r.date, r.config)
<1>1. /\ Annual!At(w, "insert") /\ request' = [request EXCEPT ![w] = None]
      /\ UNCHANGED <<today, anniversary, lock, fired, requests, freed, since>>
  BY DEF Annual!Insert, Annual!Done
<1>2. /\ r.date \in Int /\ r.config \in Annual!Configurations /\ r.todo \subseteq Annual!Offset
      /\ request[w] # None /\ r.stage = "insert"
  BY <1>1, AnnualRead DEF Annual!At
<1>3. /\ r.day = today /\ r.todo \cap r.found = {} /\ r.todo \subseteq S
      /\ S \subseteq r.todo \cup r.found
  BY <1>1 DEF AnnualInvariant, MilestonesOwed
<1>4. /\ request' \in [Annual!Workers -> {None} \cup Annual!Request]
      /\ \A v \in Annual!Workers : request'[v] = IF v = w THEN None ELSE request[v]
      /\ MilestonesOwed' /\ ClearsToday'
  BY <1>1, AnnualEntryWritten
<1>5. \A h \in Handlers : Annual!At(h, "clear")' <=> Annual!At(h, "clear")
  <2>1. Handlers \subseteq Annual!Workers
    BY DEF Annual!Workers
  <2> QED BY <1>2, <1>4, <2>1 DEF Annual!At
<1>6. /\ lock' \in Servers \cup {None} /\ fired' \subseteq Servers /\ freed' \subseteq Annual!Offset
      /\ requests' \in 0..AnniversaryRequests /\ today' \in 1..AnniversaryDays
      /\ tasks \subseteq Annual!Task /\ IsFiniteSet(tasks) /\ since' \in 0..AnniversaryDays
      /\ anniversary' \in {None} \cup Annual!Row /\ since' <= today' /\ today \in 1..AnniversaryDays
      /\ misdated \in BOOLEAN /\ raced \in BOOLEAN
  BY <1>1 DEF AnnualInvariant, Annual!TypeOK
<1>7. CASE ~Annual!Exists
  <2>1. UNCHANGED <<tasks, misdated, raced, through>>
    BY <1>1, <1>7 DEF Annual!Insert
  <2> QED BY <1>1, <1>4, <1>5, <1>6, <2>1, AnnualRowsKept
<1>8. CASE Annual!Exists
  <2>1. /\ tasks' = Annual!WithTasks(tasks, r.todo, r.date, TRUE)
        /\ misdated' = (misdated \/ (r.todo # {} /\ r.date # anniversary.date))
        /\ raced' = (raced \/ r.date # anniversary.date \/ r.config # anniversary.config
                           \/ r.found # Annual!Offsets(tasks))
        /\ through' = r.day
    BY <1>1, <1>8 DEF Annual!Insert
  <2>2. IsFiniteSet(S)
    BY <1>2, SpecsFinite DEF AnnualInvariant
  <2>3. IsFiniteSet(r.todo)
    BY <1>3, <2>2, FS_Subset
  <2> HIDE DEF S
  <2>4. /\ tasks' \subseteq Annual!Task /\ IsFiniteSet(tasks') /\ tasks \subseteq tasks'
        /\ Annual!Offsets(tasks') = Annual!Offsets(tasks) \cup r.todo
        /\ \A t \in tasks' : t \in tasks \/ NewOne(t, r.todo, r.date, TRUE)
        /\ \A t, u \in tasks' : t \notin tasks /\ u \notin tasks /\ t.offset = u.offset => t = u
    <3> DEFINE O == r.todo
               d == r.date
    <3>1. O \in SUBSET Annual!Offset /\ IsFiniteSet(O) /\ d \in Int
      BY <1>2, <2>3
    <3>2. tasks' = Annual!WithTasks(tasks, O, d, TRUE)
      BY <2>1
    <3> HIDE DEF O, d
    <3>3. TRUE \in BOOLEAN /\ tasks \in SUBSET Annual!Task
      BY <1>6
    <3>4. LET T == Annual!WithTasks(tasks, O, d, TRUE) IN
          /\ T \subseteq Annual!Task /\ IsFiniteSet(T) /\ tasks \subseteq T
          /\ Annual!Offsets(T) = Annual!Offsets(tasks) \cup O
          /\ \A t \in T : t \in tasks \/ NewOne(t, O, d, TRUE)
          /\ \A t, u \in T : t \notin tasks /\ u \notin tasks /\ t.offset = u.offset => t = u
      BY <1>6, <3>1, <3>3, WithTasksWritten
    <3> QED BY <3>2, <3>4 DEF O, d
  <2>5. Annual!TypeOK'
    <3>1. through' \in 0..AnniversaryDays /\ misdated' \in BOOLEAN /\ raced' \in BOOLEAN
      BY <1>3, <1>6, <2>1
    <3> QED BY <1>4, <1>6, <2>4, <3>1 DEF Annual!TypeOK
  <2>6. (through <= today /\ since <= today)'
    BY <1>1, <1>3, <1>6, <2>1
  <2>7. NotBegun'
    BY <1>1, <1>8 DEF AnnualInvariant, NotBegun, Annual!Exists
  <2>8. DatedFrom'
    <3>1. ASSUME NEW t \in tasks', ~misdated'
          PROVE  t.at = Annual!CalcScheduledAt(anniversary.date, t.offset)
      <4>1. CASE t \in tasks
        BY <1>8, <2>1, <3>1, <4>1 DEF AnnualInvariant, DatedFrom
      <4>2. CASE NewOne(t, r.todo, r.date, TRUE)
        BY <2>1, <3>1, <4>2 DEF NewOne
      <4> QED BY <2>4, <4>1, <4>2
    <3>2. \A d, o : Annual!CalcScheduledAt(d, o)' = Annual!CalcScheduledAt(d, o)
      BY DEF Annual!CalcScheduledAt
    <3> QED BY <1>1, <3>1, <3>2 DEF DatedFrom
  <2>9. ASSUME ~raced' PROVE OneEach' /\ AllThere' /\ NoOthers'
    <3>1. /\ r.date = anniversary.date /\ r.config = anniversary.config
          /\ r.found = Annual!Offsets(tasks) /\ OneEach /\ AllThere /\ NoOthers
      BY <1>8, <2>1, <2>9 DEF AnnualInvariant
    <3>2. S = Annual!Specs(anniversary.date, anniversary.config)
      BY <3>1 DEF S
    <3>3. /\ \A o \in S : Annual!Milestone(o, AnnualHorizon)
          /\ \A o \in {"DAYS", "YEARS"} \X (1..AnnualHorizon) \cup {<<"DAYS", 0>>} :
               Annual!Milestone(o, AnnualHorizon) => o \in S
      BY <1>8, <3>2, SpecsAreMilestones DEF AnnualInvariant
    <3>4. OneEach'
      <4>1. ASSUME NEW t \in tasks', NEW u \in tasks', t.made, u.made, t.offset = u.offset,
                   t \in tasks, u \notin tasks
            PROVE  FALSE
        <5>1. u.offset \in r.todo
          BY <2>4, <4>1 DEF NewOne
        <5>2. t.offset \in Annual!Offsets(tasks)
          BY <4>1 DEF Annual!Offsets
        <5> QED BY <1>3, <3>1, <4>1, <5>1, <5>2
      <4>2. \A t, u \in tasks : t.made /\ u.made /\ t.offset = u.offset => t = u
        BY <3>1 DEF OneEach
      <4> QED BY <2>4, <4>1, <4>2 DEF OneEach
    <3>5. \A o, n : Annual!Milestone(o, n)' <=> Annual!Milestone(o, n)
      BY <1>1 DEF Annual!Milestone
    <3>6. AllThere'
      <4>1. S \subseteq Annual!Offsets(tasks')
        BY <1>3, <2>4, <3>1
      <4>2. \A o \in {"DAYS", "YEARS"} \X (1..AnnualHorizon) \cup {<<"DAYS", 0>>} :
              Annual!Milestone(o, AnnualHorizon) => o \in Annual!Offsets(tasks')
        BY <3>3, <4>1
      <4>3. AnnualHorizon' = AnnualHorizon /\ Annual!Offsets(tasks)' = Annual!Offsets(tasks')
        BY <1>1 DEF AnnualHorizon, Annual!Offsets
      <4> QED BY <3>5, <4>2, <4>3 DEF AllThere
    <3>7. NoOthers'
      <4>1. AnnualHorizon' = AnnualHorizon
        BY <1>1 DEF AnnualHorizon
      <4>2. ASSUME NEW t \in tasks', since # 0, \A h \in Handlers : ~Annual!At(h, "clear"),
                   t.made, t.at >= since
            PROVE  Annual!Milestone(t.offset, AnnualHorizon)
        <5>1. CASE t \in tasks
          BY <3>1, <4>2, <5>1 DEF NoOthers
        <5>2. CASE NewOne(t, r.todo, r.date, TRUE)
          BY <1>3, <3>3, <5>2 DEF NewOne
        <5> QED BY <2>4, <5>1, <5>2
      <4> QED BY <1>1, <1>5, <3>5, <4>1, <4>2 DEF NoOthers
    <3> QED BY <3>4, <3>6, <3>7
  <2> QED BY <1>4, <2>4, <2>5, <2>6, <2>7, <2>8, <2>9 DEF AnnualInvariant
<1> QED BY <1>7, <1>8

\* Tasks are left as they are or dropped; what is left of them is well.
LEMMA FewerTasks ==
  ASSUME Annual!ConstantsAssumption, AnnualInvariant, tasks' \subseteq tasks
  PROVE  /\ tasks' \subseteq Annual!Task /\ IsFiniteSet(tasks')
         /\ UNCHANGED <<anniversary, misdated>> => DatedFrom'
         /\ OneEach => OneEach'
<1>1. tasks \subseteq Annual!Task /\ IsFiniteSet(tasks)
  BY DEF AnnualInvariant, Annual!TypeOK
<1>2. IsFiniteSet(tasks')
  BY <1>1, FS_Subset
<1>3. UNCHANGED <<anniversary, misdated>> => DatedFrom'
  BY DEF AnnualInvariant, DatedFrom, Annual!Exists, Annual!CalcScheduledAt
<1>4. OneEach => OneEach'
  BY DEF OneEach
<1> QED BY <1>1, <1>2, <1>3, <1>4

\* The tasks from today on are deleted.
LEMMA AnnualClearStep ==
  ASSUME Annual!ConstantsAssumption, AnnualInvariant, NEW h \in Handlers, Annual!Clear(h)
  PROVE  AnnualInvariant'
<1> DEFINE r == request[h]
           n == Annual!Generation("look", r.date, r.config)
<1>1. /\ Annual!At(h, "clear") /\ tasks' = {t \in tasks : t.at < today}
      /\ freed' = freed \cup Annual!Offsets({t \in tasks : t.at >= today /\ ~t.made})
      /\ request' = [request EXCEPT ![h].stage = "look"] /\ through' = 0
      /\ UNCHANGED <<today, anniversary, lock, fired, requests, misdated, raced, since>>
  BY DEF Annual!Clear
<1>2. h \in Annual!Workers
  BY DEF Annual!Workers
<1>3. /\ r.date \in Int /\ r.config \in Annual!Configurations /\ r.stage = "clear"
      /\ r = [stage |-> r.stage, date |-> r.date, config |-> r.config, todo |-> {}]
  BY <1>1, <1>2, AnnualRead DEF Annual!At
<1>4. /\ n \in Annual!Request /\ n.stage = "look" /\ request' = [request EXCEPT ![h] = n]
  <2>1. n \in Annual!Request /\ n.stage = "look"
    BY <1>3 DEF Annual!Generation, Annual!Request
  <2>2. [r EXCEPT !.stage = "look"] = n
    BY <1>3 DEF Annual!Generation
  <2>3. request' = [request EXCEPT ![h] = [r EXCEPT !.stage = "look"]]
    BY <1>1
  <2> QED BY <2>1, <2>2, <2>3
<1> HIDE DEF n
<1>5. /\ request' \in [Annual!Workers -> {None} \cup Annual!Request]
      /\ \A v \in Annual!Workers : request'[v] = IF v = h THEN n ELSE request[v]
      /\ MilestonesOwed' /\ ClearsToday'
  BY <1>1, <1>2, <1>4, AnnualEntryWritten
<1>6. tasks' \subseteq tasks
  BY <1>1
<1>7. tasks' \subseteq Annual!Task /\ IsFiniteSet(tasks') /\ DatedFrom' /\ (OneEach => OneEach')
  BY <1>1, <1>6, FewerTasks
<1>8. today \in Nat /\ today >= 1 /\ since \in {0, today}
  BY <1>1, AnnualTyped DEF AnnualInvariant, ClearsToday
<1>9. freed' \subseteq Annual!Offset
  BY <1>1 DEF AnnualInvariant, Annual!TypeOK, Annual!Offsets, Annual!Task
<1>10. Annual!TypeOK'
  <2>1. through' \in 0..AnniversaryDays
    BY <1>1 DEF Annual!ConstantsAssumption
  <2> QED BY <1>1, <1>5, <1>7, <1>9, <2>1 DEF AnnualInvariant, Annual!TypeOK
<1>11. (through <= today /\ since <= today)' /\ NotBegun'
  <2>1. NotBegun'
    BY <1>1, <1>6 DEF AnnualInvariant, NotBegun
  <2> QED BY <1>1, <1>8, <2>1
<1>12. AllThere'
  BY <1>1, <1>8 DEF AllThere
<1>13. NoOthers'
  <2>1. \A t \in tasks' : t.at \in Int /\ t.at < today
    BY <1>1, <1>7 DEF Annual!Task
  <2>2. since' # 0 => since' = today
    BY <1>1, <1>8
  <2>3. \A t \in tasks' : since' # 0 => ~(t.at >= since')
    BY <1>8, <2>1, <2>2
  <2> QED BY <2>3 DEF NoOthers
<1> QED BY <1>1, <1>5, <1>7, <1>10, <1>11, <1>12, <1>13 DEF AnnualInvariant, Annual!Exists

\* The tasks are detached, or the row is deleted.
LEMMA AnnualDeleteStep ==
  ASSUME Annual!ConstantsAssumption, AnnualInvariant, NEW h \in Handlers,
         Annual!Detach(h) \/ Annual!DeleteRow(h)
  PROVE  AnnualInvariant'
<1>1. /\ tasks' = {} /\ h \in Annual!Workers
      /\ UNCHANGED <<today, lock, fired, requests, misdated, raced, through, since>>
  BY DEF Annual!Detach, Annual!DeleteRow, Annual!ghosts, Annual!Workers
<1>2. PICK r \in {None} \cup Annual!Request : /\ request' = [request EXCEPT ![h] = r]
                                              /\ r # None => r.stage \notin {"insert", "clear"}
  <2>1. CASE Annual!Detach(h)
    <3> DEFINE r == request[h]
    <3>1. Annual!At(h, "detach") /\ request' = [request EXCEPT ![h].stage = "delete"]
      BY <2>1 DEF Annual!Detach
    <3>2. r \in Annual!Request /\ r.stage = "detach"
      BY <1>1, <3>1, AnnualRead DEF Annual!At
    <3>3. r = [stage |-> "detach"]
      BY <3>2 DEF Annual!Request
    <3>4. [r EXCEPT !.stage = "delete"] = [stage |-> "delete"]
      BY <3>3
    <3>5. request' = [request EXCEPT ![h] = [stage |-> "delete"]]
      BY <3>1, <3>4
    <3> DEFINE n == [stage |-> "delete"]
    <3>6. n \in {None} \cup Annual!Request /\ n.stage = "delete"
      BY DEF Annual!Request
    <3>7. request' = [request EXCEPT ![h] = n]
      BY <3>5
    <3> HIDE DEF n
    <3> QED BY <3>6, <3>7
  <2>2. CASE Annual!DeleteRow(h)
    BY <2>2 DEF Annual!DeleteRow, Annual!Done
  <2> QED BY <2>1, <2>2
<1>3. /\ request' \in [Annual!Workers -> {None} \cup Annual!Request]
      /\ \A v \in Annual!Workers : request'[v] = IF v = h THEN r ELSE request[v]
      /\ MilestonesOwed' /\ ClearsToday'
  BY <1>1, <1>2, AnnualEntryWritten
<1>4. /\ anniversary' \in {None, anniversary} /\ freed \subseteq freed'
      /\ freed' \subseteq freed \cup Annual!Offsets(tasks)
      /\ anniversary' = None \/ freed' = freed \cup Annual!Offsets(tasks)
  BY DEF Annual!Detach, Annual!DeleteRow, Annual!ghosts
<1>5. tasks' \subseteq Annual!Task /\ IsFiniteSet(tasks')
  BY <1>1, FewerTasks
<1>6. Annual!TypeOK'
  <2>1. Annual!Offsets(tasks) \subseteq Annual!Offset /\ freed \subseteq Annual!Offset
    BY DEF AnnualInvariant, Annual!TypeOK, Annual!Offsets, Annual!Task
  <2> QED BY <1>1, <1>3, <1>4, <1>5, <2>1 DEF AnnualInvariant, Annual!TypeOK
<1>7. (through <= today /\ since <= today)' /\ NotBegun' /\ DatedFrom'
  BY <1>1, <1>4 DEF AnnualInvariant, NotBegun, DatedFrom
<1>8. ASSUME Annual!Exists', ~raced' PROVE OneEach' /\ AllThere' /\ NoOthers'
  <2>1. anniversary' = anniversary /\ freed' = freed \cup Annual!Offsets(tasks) /\ AllThere
    BY <1>1, <1>4, <1>8 DEF AnnualInvariant, Annual!Exists
  <2>2. \A o, n : Annual!Milestone(o, n)' <=> Annual!Milestone(o, n)
    BY <2>1 DEF Annual!Milestone
  <2>3. AllThere'
    BY <1>1, <2>1, <2>2 DEF AllThere, AnnualHorizon
  <2> QED BY <1>1, <2>3 DEF OneEach, NoOthers
<1> QED BY <1>3, <1>5, <1>6, <1>7, <1>8 DEF AnnualInvariant

\* A user takes a task away.
LEMMA AnnualUnlinkStep ==
  ASSUME Annual!ConstantsAssumption, AnnualInvariant, NEW t \in tasks, Annual!Unlink(t)
  PROVE  AnnualInvariant'
<1>1. /\ requests < AnniversaryRequests /\ requests' = requests + 1
      /\ tasks' = tasks \ {t} /\ freed' = freed \cup {t.offset}
      /\ UNCHANGED <<today, anniversary, request, lock, fired, misdated, raced, through, since>>
  BY DEF Annual!Unlink
<1>2. tasks' \subseteq tasks
  BY <1>1
<1>3. tasks' \subseteq Annual!Task /\ IsFiniteSet(tasks') /\ DatedFrom' /\ (OneEach => OneEach')
  BY <1>1, <1>2, FewerTasks
<1>4. requests' \in 0..AnniversaryRequests /\ requests' # 0
  BY <1>1 DEF AnnualInvariant, Annual!TypeOK, Annual!ConstantsAssumption
<1>5. freed' \subseteq Annual!Offset
  BY <1>1 DEF AnnualInvariant, Annual!TypeOK, Annual!Task
<1>6. Annual!TypeOK'
  BY <1>1, <1>3, <1>4, <1>5 DEF AnnualInvariant, Annual!TypeOK
<1>7. (through <= today /\ since <= today)' /\ NotBegun'
  BY <1>1, <1>4 DEF AnnualInvariant, NotBegun
<1>8. MilestonesOwed' /\ ClearsToday'
  <2>1. \A d, c : Annual!Specs(d, c)' = Annual!Specs(d, c)
    BY <1>1 DEF Annual!Specs, Annual!CalcScheduledAt
  <2>2. MilestonesOwed'
    BY <1>1, <2>1 DEF AnnualInvariant, MilestonesOwed, Annual!At
  <2> QED BY <1>1, <2>2 DEF AnnualInvariant, ClearsToday, Annual!At
<1>9. \A o, n : Annual!Milestone(o, n)' <=> Annual!Milestone(o, n)
  BY <1>1 DEF Annual!Milestone
<1>10. AllThere => AllThere'
  <2>1. \A o : o \in Annual!Offsets(tasks) \cup freed => o \in Annual!Offsets(tasks)' \cup freed'
    BY <1>1 DEF Annual!Offsets
  <2>2. AnnualHorizon' = AnnualHorizon
    BY <1>1 DEF AnnualHorizon
  <2> QED BY <1>1, <1>9, <2>1, <2>2 DEF AllThere
<1>11. NoOthers => NoOthers'
  <2>1. \A h : Annual!At(h, "clear")' <=> Annual!At(h, "clear")
    BY <1>1 DEF Annual!At
  <2> QED BY <1>1, <1>2, <1>9, <2>1 DEF NoOthers, AnnualHorizon
<1> QED BY <1>1, <1>3, <1>6, <1>7, <1>8, <1>10, <1>11 DEF AnnualInvariant, Annual!Exists

\* A task is linked, dated as the anniversary was read.
LEMMA AnnualLinkStep ==
  ASSUME Annual!ConstantsAssumption, AnnualInvariant, NEW h \in Handlers, Annual!LinkWrite(h)
  PROVE  AnnualInvariant'
<1> DEFINE r == request[h]
<1>1. /\ Annual!At(h, "link") /\ request' = [request EXCEPT ![h] = None]
      /\ UNCHANGED <<today, anniversary, lock, fired, requests, raced, freed, through, since>>
  BY DEF Annual!LinkWrite, Annual!Done
<1>2. h \in Annual!Workers
  BY DEF Annual!Workers
<1>3. r.offset \in Annual!Offset /\ r.date \in Int /\ request[h] # None /\ r.stage = "link"
  BY <1>1, <1>2, AnnualRead DEF Annual!At
<1>4. /\ request' \in [Annual!Workers -> {None} \cup Annual!Request]
      /\ \A v \in Annual!Workers : request'[v] = IF v = h THEN None ELSE request[v]
      /\ MilestonesOwed' /\ ClearsToday'
  BY <1>1, <1>2, AnnualEntryWritten
<1>5. \A g \in Handlers : Annual!At(g, "clear")' <=> Annual!At(g, "clear")
  <2>1. Handlers \subseteq Annual!Workers
    BY DEF Annual!Workers
  <2> QED BY <1>3, <1>4, <2>1 DEF Annual!At
<1>6. CASE ~Annual!Exists
  <2>1. UNCHANGED <<tasks, misdated>>
    BY <1>1, <1>6 DEF Annual!LinkWrite
  <2>2. /\ lock' \in Servers \cup {None} /\ fired' \subseteq Servers
        /\ requests' \in 0..AnniversaryRequests /\ requests' = requests
    BY <1>1 DEF AnnualInvariant, Annual!TypeOK
  <2> QED BY <1>1, <1>4, <1>5, <2>1, <2>2, AnnualRowsKept
<1>7. CASE Annual!Exists
  <2>1. /\ tasks' = Annual!WithTasks(tasks, {r.offset}, r.date, FALSE)
        /\ misdated' = (misdated \/ r.date # anniversary.date)
    BY <1>1, <1>7 DEF Annual!LinkWrite
  <2>2. /\ tasks' \subseteq Annual!Task /\ IsFiniteSet(tasks') /\ tasks \subseteq tasks'
        /\ \A t \in tasks' : t \in tasks \/ NewOne(t, {r.offset}, r.date, FALSE)
    <3> DEFINE O == {r.offset}
               d == r.date
    <3>1. O \in SUBSET Annual!Offset /\ IsFiniteSet(O) /\ d \in Int
      BY <1>3, FS_Singleton
    <3>2. tasks' = Annual!WithTasks(tasks, O, d, FALSE)
      BY <2>1
    <3> HIDE DEF O, d
    <3>3. FALSE \in BOOLEAN /\ tasks \in SUBSET Annual!Task /\ IsFiniteSet(tasks)
      BY DEF AnnualInvariant, Annual!TypeOK
    <3>4. LET T == Annual!WithTasks(tasks, O, d, FALSE) IN
          /\ T \subseteq Annual!Task /\ IsFiniteSet(T) /\ tasks \subseteq T
          /\ \A t \in T : t \in tasks \/ NewOne(t, O, d, FALSE)
      BY <3>1, <3>3, WithTasksWritten
    <3> QED BY <3>2, <3>4 DEF O, d
  <2>3. Annual!TypeOK'
    <3>1. misdated' \in BOOLEAN
      BY <2>1 DEF AnnualInvariant, Annual!TypeOK
    <3> QED BY <1>1, <1>4, <2>2, <3>1 DEF AnnualInvariant, Annual!TypeOK
  <2>4. (through <= today /\ since <= today)' /\ NotBegun'
    BY <1>1, <1>7 DEF AnnualInvariant, NotBegun, Annual!Exists
  <2>5. DatedFrom'
    <3>1. ASSUME NEW t \in tasks', ~misdated'
          PROVE  t.at = Annual!CalcScheduledAt(anniversary.date, t.offset)
      <4>1. CASE t \in tasks
        BY <1>7, <2>1, <3>1, <4>1 DEF AnnualInvariant, DatedFrom
      <4>2. CASE NewOne(t, {r.offset}, r.date, FALSE)
        BY <2>1, <3>1, <4>2 DEF NewOne
      <4> QED BY <2>2, <4>1, <4>2
    <3>2. \A d, o : Annual!CalcScheduledAt(d, o)' = Annual!CalcScheduledAt(d, o)
      BY DEF Annual!CalcScheduledAt
    <3> QED BY <1>1, <3>1, <3>2 DEF DatedFrom
  <2>6. \A t \in tasks' : t.made => t \in tasks
    BY <2>2 DEF NewOne
  <2>7. \A o, n : Annual!Milestone(o, n)' <=> Annual!Milestone(o, n)
    BY <1>1 DEF Annual!Milestone
  <2>8. AnnualHorizon' = AnnualHorizon
    BY <1>1 DEF AnnualHorizon
  <2>9. OneEach => OneEach'
    BY <2>6 DEF OneEach
  <2>10. AllThere => AllThere'
    <3>1. \A o : o \in Annual!Offsets(tasks) => o \in Annual!Offsets(tasks)'
      BY <2>2 DEF Annual!Offsets
    <3> QED BY <1>1, <2>7, <2>8, <3>1 DEF AllThere
  <2>11. NoOthers => NoOthers'
    BY <1>1, <1>5, <2>6, <2>7, <2>8 DEF NoOthers
  <2> QED BY <1>1, <1>4, <1>7, <2>2, <2>3, <2>4, <2>5, <2>9, <2>10, <2>11 DEF AnnualInvariant
<1> QED BY <1>6, <1>7

\* The date of every task is computed anew.
LEMMA AnnualRecalculated ==
  ASSUME Annual!ConstantsAssumption, AnnualInvariant, NEW date \in Int
  PROVE  LET T == Annual!Recalculated(date) IN
         /\ T \subseteq Annual!Task /\ IsFiniteSet(T)
         /\ \A t \in T : t.at = Annual!CalcScheduledAt(date, t.offset)
         /\ OneEach => \A t, u \in T : t.made /\ u.made /\ t.offset = u.offset => t = u
<1> DEFINE moved(t) == [t EXCEPT !.at = Annual!CalcScheduledAt(date, t.offset)]
           T == Annual!Recalculated(date)
<1>1. T = {moved(t) : t \in tasks}
  BY DEF Annual!Recalculated
<1>2. tasks \subseteq Annual!Task /\ IsFiniteSet(tasks)
  BY DEF AnnualInvariant, Annual!TypeOK
<1>3. ASSUME NEW t \in tasks
      PROVE  /\ moved(t) \in Annual!Task /\ moved(t).offset = t.offset /\ moved(t).made = t.made
             /\ moved(t).at = Annual!CalcScheduledAt(date, t.offset)
  <2>1. t \in Annual!Task /\ t.offset \in Annual!Offset
    BY <1>2 DEF Annual!Task
  <2>2. Annual!CalcScheduledAt(date, t.offset) \in Int
    BY <2>1, CalcTyped
  <2> QED BY <2>1, <2>2 DEF Annual!Task
<1>4. IsFiniteSet(T)
  <2>1. [t \in tasks |-> moved(t)] \in Surjection(tasks, T)
    BY <1>1 DEF Surjection
  <2> HIDE DEF T, moved
  <2> QED BY <1>2, <2>1, FS_Surjection
<1> HIDE DEF T
<1>5. \A t \in T : \E u \in tasks : t = moved(u)
  BY <1>1
<1> HIDE DEF moved
<1>6. T \subseteq Annual!Task /\ \A t \in T : t.at = Annual!CalcScheduledAt(date, t.offset)
  BY <1>3, <1>5
<1>7. ASSUME OneEach, NEW t \in T, NEW u \in T, t.made, u.made, t.offset = u.offset PROVE t = u
  BY <1>3, <1>5, <1>7 DEF OneEach
<1> QED BY <1>4, <1>6, <1>7 DEF T

\* The row is stored with the dates of its tasks.
LEMMA AnnualUpdateStep ==
  ASSUME Annual!ConstantsAssumption, AnnualInvariant, NEW h \in Handlers, Annual!UpdateWrite(h)
  PROVE  AnnualInvariant'
<1> DEFINE r == request[h]
           date == IF r.date = None THEN r.was ELSE r.date
           n == IF ~Annual!Exists \/ r.config = None THEN None
                ELSE Annual!Generation("clear", date, r.config)
<1>1. /\ Annual!At(h, "update")
      /\ UNCHANGED <<today, lock, fired, requests, misdated, raced, freed>>
  BY DEF Annual!UpdateWrite
<1>2. h \in Annual!Workers
  BY DEF Annual!Workers
<1>3. /\ r.date \in {None} \cup Int /\ r.was \in Int /\ r.config \in Annual!Configurations
      /\ request[h] # None /\ r.stage = "update"
  BY <1>1, <1>2, AnnualRead DEF Annual!At
<1>4. request' = [request EXCEPT ![h] = n]
  BY DEF Annual!UpdateWrite, Annual!Done
<1>5. n \in {None} \cup Annual!Request /\ (n # None => n.stage = "clear")
  <2>1. date \in Int
    BY <1>3
  <2> QED BY <1>3, <2>1 DEF Annual!Generation, Annual!Request
<1>6. today \in Nat /\ today >= 1
  BY AnnualTyped DEF AnnualInvariant
<1>7. CASE ~Annual!Exists
  <2>1. UNCHANGED <<anniversary, tasks, through, since>> /\ n = None
    BY <1>7 DEF Annual!UpdateWrite
  <2>2. /\ lock' \in Servers \cup {None} /\ fired' \subseteq Servers
        /\ requests' \in 0..AnniversaryRequests /\ requests' = requests
    BY <1>1 DEF AnnualInvariant, Annual!TypeOK
  <2>3. ~Annual!At(h, "clear")
    BY <1>3 DEF Annual!At
  <2> HIDE DEF n
  <2> QED BY <1>1, <1>2, <1>4, <1>5, <2>1, <2>2, <2>3, AnnualEntryStep
<1>8. CASE Annual!Exists
  <2>1. /\ anniversary' = [date   |-> IF r.date = None THEN anniversary.date ELSE r.date,
                           config |-> IF r.config = None THEN anniversary.config ELSE r.config]
        /\ tasks' = IF r.date = None THEN tasks ELSE Annual!Recalculated(r.date)
        /\ through' = 0
        /\ since' = IF r.config # None THEN today ELSE IF r.date # None THEN 0 ELSE since
    BY <1>8 DEF Annual!UpdateWrite
  <2>2. n = None <=> r.config = None
    <3>1. CASE r.config # None
      <4>1. n \in Annual!Request \/ n = None
        BY <1>5
      <4>2. n = Annual!Generation("clear", date, r.config)
        BY <1>8, <3>1
      <4>3. n.stage = "clear" /\ date \in Int
        BY <1>3, <4>2 DEF Annual!Generation
      <4>4. Annual!Generation("clear", date, r.config) \in Annual!Request
        BY <1>3, <4>3 DEF Annual!Generation, Annual!Request
      <4> QED BY <3>1, <4>2, <4>4 DEF Annual!ConstantsAssumption
    <3> QED BY <3>1
  <2> HIDE DEF n
  <2>3. since' = since \/ since' \in {0, today}
    BY <2>1
  <2>4. n # None /\ n.stage = "clear" => since' \in {0, today}
    BY <2>1, <2>2
  <2>5. /\ request' \in [Annual!Workers -> {None} \cup Annual!Request]
        /\ \A v \in Annual!Workers : request'[v] = IF v = h THEN n ELSE request[v]
        /\ MilestonesOwed' /\ ClearsToday'
    BY <1>1, <1>2, <1>4, <1>5, <2>3, <2>4, AnnualEntryWritten
  <2>6. /\ anniversary.date \in Int /\ anniversary.config \in Annual!Configurations
        /\ anniversary # None
    BY <1>8, AnnualTyped DEF AnnualInvariant, Annual!Exists
  <2>7. anniversary' \in Annual!Row
    BY <1>3, <2>1, <2>6 DEF Annual!Row
  <2>8. tasks' \subseteq Annual!Task /\ IsFiniteSet(tasks')
    <3>1. CASE r.date = None
      BY <2>1, <3>1 DEF AnnualInvariant, Annual!TypeOK
    <3>2. CASE r.date # None
      BY <1>3, <2>1, <3>2, AnnualRecalculated
    <3> QED BY <3>1, <3>2
  <2>9. /\ since' \in 0..AnniversaryDays /\ through' \in 0..AnniversaryDays
        /\ (through <= today /\ since <= today)'
    BY <1>1, <1>6, <2>1, <2>3 DEF AnnualInvariant, Annual!TypeOK, Annual!ConstantsAssumption
  <2>10. Annual!TypeOK'
    BY <1>1, <2>5, <2>7, <2>8, <2>9 DEF AnnualInvariant, Annual!TypeOK
  <2>11. NotBegun'
    BY <1>1, <1>8 DEF AnnualInvariant, NotBegun, Annual!Exists
  <2>12. DatedFrom'
    <3>1. \A d, o : Annual!CalcScheduledAt(d, o)' = Annual!CalcScheduledAt(d, o)
      BY DEF Annual!CalcScheduledAt
    <3>2. ASSUME NEW t \in tasks', ~misdated
          PROVE  t.at = Annual!CalcScheduledAt(anniversary'.date, t.offset)
      <4>1. CASE r.date = None
        <5>1. anniversary'.date = anniversary.date /\ t \in tasks
          BY <2>1, <3>2, <4>1
        <5> QED BY <1>8, <3>2, <5>1 DEF AnnualInvariant, DatedFrom
      <4>2. CASE r.date # None
        <5>1. anniversary'.date = r.date /\ t \in Annual!Recalculated(r.date) /\ r.date \in Int
          BY <1>3, <2>1, <4>2
        <5> QED BY <5>1, AnnualRecalculated
      <4> QED BY <4>1, <4>2
    <3> QED BY <1>1, <3>1, <3>2 DEF DatedFrom
  <2>13. OneEach => OneEach'
    <3>1. CASE r.date = None
      BY <2>1, <3>1 DEF OneEach
    <3>2. CASE r.date # None
      <4>1. OneEach => \A t, u \in tasks' : t.made /\ u.made /\ t.offset = u.offset => t = u
        BY <1>3, <2>1, <3>2, AnnualRecalculated
      <4> QED BY <4>1 DEF OneEach
    <3> QED BY <3>1, <3>2
  <2>14. AllThere'
    BY <1>1, <1>6, <2>1 DEF AllThere
  <2>15. NoOthers => NoOthers'
    <3>1. CASE r.config # None
      <4>1. Annual!At(h, "clear")'
        BY <1>2, <1>5, <2>2, <2>5, <3>1 DEF Annual!At
      <4> QED BY <4>1 DEF NoOthers
    <3>2. CASE r.config = None /\ r.date # None
      BY <2>1, <3>2 DEF NoOthers
    <3>3. CASE r.config = None /\ r.date = None
      <4>1. /\ anniversary'.date = anniversary.date /\ anniversary'.config = anniversary.config
            /\ tasks' = tasks /\ since' = since
        BY <2>1, <3>3
      <4>2. \A o, m : Annual!Milestone(o, m)' <=> Annual!Milestone(o, m)
        <5>1. anniversary' # None
          BY <2>7 DEF Annual!ConstantsAssumption
        <5> QED BY <4>1 DEF Annual!Milestone
      <4>3. \A g \in Handlers : Annual!At(g, "clear") => Annual!At(g, "clear")'
        <5>1. Handlers \subseteq Annual!Workers
          BY DEF Annual!Workers
        <5> QED BY <1>3, <2>5, <5>1 DEF Annual!At
      <4>4. AnnualHorizon' = AnnualHorizon
        BY <1>1 DEF AnnualHorizon
      <4> QED BY <4>1, <4>2, <4>3, <4>4 DEF NoOthers
    <3> QED BY <3>1, <3>2, <3>3
  <2> QED BY <1>1, <1>8, <2>5, <2>8, <2>9, <2>10, <2>11, <2>12, <2>13, <2>14, <2>15
          DEF AnnualInvariant
<1> QED BY <1>7, <1>8

LEMMA AnnualCreateStep ==
  ASSUME Annual!ConstantsAssumption, AnnualInvariant, NEW h \in Handlers,
         NEW new \in NewAnniversaries, Annual!Create(h, new)
  PROVE  AnnualInvariant'
<1> DEFINE n == Annual!Generation("look", new.date, new.config)
<1>1. /\ requests = 0 /\ Annual!Begin(h, n) /\ anniversary' = new /\ since' = today
      /\ UNCHANGED <<today, tasks, lock, fired, misdated, raced, freed, through>>
  BY DEF Annual!Create
<1>2. tasks = {} /\ through = 0
  BY <1>1 DEF AnnualInvariant, NotBegun
<1>3. new \in Annual!Row
  BY DEF Annual!ConstantsAssumption
<1>4. n \in Annual!Request /\ n.stage = "look"
  BY <1>3 DEF Annual!Row, Annual!Generation, Annual!Request
<1> HIDE DEF n
<1>5. /\ h \in Annual!Workers /\ request' = [request EXCEPT ![h] = n]
      /\ requests' \in 0..AnniversaryRequests /\ requests' # 0
  BY <1>1, AnnualBegin
<1>6. /\ request' \in [Annual!Workers -> {None} \cup Annual!Request]
      /\ MilestonesOwed' /\ ClearsToday'
  BY <1>1, <1>4, <1>5, AnnualEntryWritten
<1>7. today \in Nat /\ today >= 1 /\ today \in 1..AnniversaryDays
  BY AnnualTyped DEF AnnualInvariant, Annual!TypeOK
<1>8. since' \in 0..AnniversaryDays
  BY <1>1, <1>7 DEF Annual!ConstantsAssumption
<1>9. Annual!TypeOK'
  BY <1>1, <1>3, <1>5, <1>6, <1>8 DEF AnnualInvariant, Annual!TypeOK
<1>10. IsFiniteSet(tasks)' /\ (through <= today /\ since <= today)' /\ NotBegun'
  BY <1>1, <1>2, <1>5, <1>7 DEF AnnualInvariant, NotBegun
<1>11. DatedFrom' /\ OneEach' /\ AllThere' /\ NoOthers'
  BY <1>1, <1>2, <1>7 DEF DatedFrom, OneEach, AllThere, NoOthers
<1> QED BY <1>6, <1>9, <1>10, <1>11 DEF AnnualInvariant

LEMMA AnnualDayStep ==
  ASSUME Annual!ConstantsAssumption, AnnualInvariant, Annual!NextDay
  PROVE  AnnualInvariant'
<1>1. /\ today < AnniversaryDays /\ today' = today + 1 /\ fired' = {}
      /\ \A w \in Annual!Workers : request[w] = None
      /\ UNCHANGED <<anniversary, tasks, request, lock, requests, misdated, raced, freed, through,
                     since>>
  BY DEF Annual!NextDay, Annual!ghosts
<1>2. /\ today \in Nat /\ today' \in 1..AnniversaryDays /\ through \in Nat /\ since \in Nat
      /\ AnnualHorizon \in Nat /\ AnnualHorizon' = AnnualHorizon + 1
      /\ through <= today /\ since <= today
  <2>1. today \in 1..AnniversaryDays /\ AnniversaryDays \in Nat /\ DaysAhead \in Nat
    BY DEF AnnualInvariant, Annual!TypeOK, Annual!ConstantsAssumption
  <2>2. today \in Nat /\ through \in Nat /\ since \in Nat /\ AnnualHorizon \in Nat
    BY AnnualTyped DEF AnnualInvariant
  <2>3. through <= today /\ since <= today
    BY DEF AnnualInvariant
  <2>4. AnnualHorizon' = AnnualHorizon + 1
    BY <1>1, <2>1 DEF AnnualHorizon
  <2> QED BY <1>1, <2>1, <2>2, <2>3, <2>4
<1>3. Annual!TypeOK'
  BY <1>1, <1>2 DEF AnnualInvariant, Annual!TypeOK
<1>4. IsFiniteSet(tasks)' /\ (through <= today /\ since <= today)' /\ NotBegun'
  BY <1>1, <1>2 DEF AnnualInvariant, NotBegun
<1>5. \A w \in Annual!Workers : \A stage : ~Annual!At(w, stage) /\ ~Annual!At(w, stage)'
  BY <1>1 DEF Annual!At
<1>6. MilestonesOwed' /\ ClearsToday'
  BY <1>5 DEF MilestonesOwed, ClearsToday, Annual!Workers
<1>7. DatedFrom'
  BY <1>1 DEF AnnualInvariant, DatedFrom, Annual!Exists, Annual!CalcScheduledAt
<1>8. OneEach => OneEach'
  BY <1>1 DEF OneEach
<1>9. AllThere'
  BY <1>1, <1>2 DEF AllThere
<1>10. ASSUME Annual!Exists, NoOthers PROVE NoOthers'
  <2>1. ASSUME NEW t \in tasks, Annual!Milestone(t.offset, AnnualHorizon)
        PROVE  Annual!Milestone(t.offset, AnnualHorizon + 1)
    <3> DEFINE o == t.offset
    <3>1. o[2] \in Int /\ Year \in Nat /\ anniversary.date \in Int
      <4>1. t.offset \in Annual!Offset
        BY DEF AnnualInvariant, Annual!TypeOK, Annual!Task
      <4> QED BY <1>10, <4>1, AnnualTyped DEF AnnualInvariant, Annual!Offset
    <3>2. Annual!Milestone(o, AnnualHorizon)
      BY <2>1
    <3> HIDE DEF o
    <3>3. o[2] * Year \in Int
      BY <3>1
    <3> DEFINE y == o[2] * Year
    <3>4. anniversary.date + y <= AnnualHorizon => anniversary.date + y <= AnnualHorizon + 1
      BY <1>2, <3>1, <3>3
    <3>5. Annual!Milestone(o, AnnualHorizon + 1)
      BY <1>2, <3>1, <3>2, <3>4 DEF Annual!Milestone
    <3> QED BY <3>5 DEF o
  <2>2. \A o, m : Annual!Milestone(o, m)' <=> Annual!Milestone(o, m)
    BY <1>1 DEF Annual!Milestone
  <2>3. \A h \in Handlers : ~Annual!At(h, "clear")
    BY <1>5 DEF Annual!Workers
  <2> QED BY <1>1, <1>2, <1>10, <2>1, <2>2, <2>3 DEF NoOthers
<1> QED BY <1>1, <1>3, <1>4, <1>6, <1>7, <1>8, <1>9, <1>10 DEF AnnualInvariant, Annual!Exists

LEMMA AnnualInvariantStep ==
  ASSUME Annual!ConstantsAssumption, AnnualInvariant, [Annual!Next]_(Annual!vars)
  PROVE  AnnualInvariant'
<1>1. CASE \E h \in Handlers :
             \/ \E new \in NewAnniversaries : Annual!Create(h, new)
             \/ \E change \in NewDates : Annual!UpdateRead(h, change)
             \/ \E keep \in BOOLEAN : Annual!Delete(h, keep)
             \/ \E offset \in TaskOffsets : Annual!Link(h, offset)
             \/ Annual!UpdateWrite(h) \/ Annual!Clear(h) \/ Annual!Detach(h)
             \/ Annual!DeleteRow(h) \/ Annual!LinkWrite(h)
  BY <1>1, AnnualCreateStep, AnnualRequestsStep, AnnualUpdateStep, AnnualClearStep,
     AnnualDeleteStep, AnnualLinkStep
<1>2. CASE \/ \E w \in Annual!Workers : Annual!Look(w) \/ Annual!Insert(w) \/ Annual!InsertFails(w)
           \/ \E s \in Servers : Annual!Fire(s) \/ Annual!Extend(s) \/ Annual!Release(s)
  BY <1>2, AnnualLookStep, AnnualInsertStep, AnnualJobStep
<1>3. CASE (\E t \in tasks : Annual!Unlink(t)) \/ Annual!NextDay
  BY <1>3, AnnualUnlinkStep, AnnualDayStep
<1>4. CASE UNCHANGED Annual!vars
  <2>1. UNCHANGED <<today, anniversary, tasks, request, lock, fired, requests, misdated, raced,
                    freed, through, since>>
    BY <1>4 DEF Annual!vars, Annual!ghosts
  <2>2. /\ request' \in [Annual!Workers -> {None} \cup Annual!Request]
        /\ lock' \in Servers \cup {None} /\ fired' \subseteq Servers
        /\ requests' \in 0..AnniversaryRequests
    BY <2>1 DEF AnnualInvariant, Annual!TypeOK
  <2>3. MilestonesOwed'
    <3>1. \A d, c : Annual!Specs(d, c)' = Annual!Specs(d, c)
      BY <2>1 DEF Annual!Specs, Annual!CalcScheduledAt
    <3> QED BY <2>1, <3>1 DEF AnnualInvariant, MilestonesOwed, Annual!At
  <2>4. ClearsToday' /\ \A h \in Handlers : Annual!At(h, "clear") => Annual!At(h, "clear")'
    BY <2>1 DEF AnnualInvariant, ClearsToday, Annual!At
  <2> QED BY <2>1, <2>2, <2>3, <2>4, AnnualRowsKept
<1> QED BY <1>1, <1>2, <1>3, <1>4 DEF Annual!Next

LEMMA AnnualInvariantInit ==
  ASSUME Annual!ConstantsAssumption, Annual!Init
  PROVE  AnnualInvariant
<1>1. /\ today = 1 /\ anniversary = None /\ tasks = {} /\ lock = None /\ fired = {}
      /\ request = [w \in Annual!Workers |-> None] /\ requests = 0 /\ misdated = FALSE
      /\ raced = FALSE /\ freed = {} /\ through = 0 /\ since = 0
  BY DEF Annual!Init
<1>2. Annual!TypeOK
  <2>1. AnniversaryDays \in Nat \ {0} /\ AnniversaryRequests \in Nat
    BY DEF Annual!ConstantsAssumption
  <2>2. /\ today \in 1..AnniversaryDays /\ requests \in 0..AnniversaryRequests
        /\ through \in 0..AnniversaryDays /\ since \in 0..AnniversaryDays
    BY <1>1, <2>1
  <2>3. request \in [Annual!Workers -> {None} \cup Annual!Request]
    BY <1>1
  <2>4. misdated \in BOOLEAN /\ raced \in BOOLEAN
    BY <1>1
  <2> QED BY <1>1, <2>2, <2>3, <2>4 DEF Annual!TypeOK
<1>3. NotBegun /\ MilestonesOwed /\ ClearsToday /\ DatedFrom /\ ~Annual!Exists
  BY <1>1 DEF NotBegun, MilestonesOwed, ClearsToday, DatedFrom, Annual!Exists, Annual!At,
              Annual!Workers
<1> QED BY <1>1, <1>2, <1>3, FS_EmptySet DEF AnnualInvariant

LEMMA AnnualFromInvariant ==
  ASSUME AnnualInvariant
  PROVE  Annual!TypeOK /\ Annual!TasksFollowAnniversary
BY DEF AnnualInvariant, Annual!TasksFollowAnniversary, DatedFrom, OneEach, AllThere, NoOthers,
       AnnualHorizon

LEMMA AnnualInvariantHolds ==
  ASSUME Annual!ConstantsAssumption
  PROVE  Annual!Spec => []AnnualInvariant
<1> QED BY AnnualInvariantInit, AnnualInvariantStep, PTL DEF Annual!Spec

\* The anniversary, its tasks and who works on them keep their shapes (AnniversaryService).
THEOREM AnniversariesTypeCorrect ==
  ASSUME Annual!ConstantsAssumption
  PROVE  Annual!Spec => []Annual!TypeOK
BY AnnualInvariantHolds, AnnualFromInvariant, PTL

\* The tasks follow the anniversary: each is as far from its date as its offset says, and
\* the milestones are those of the configuration, once (AnniversaryService, TaskService).
THEOREM TasksFollowAnniversaryHolds ==
  ASSUME Annual!ConstantsAssumption
  PROVE  Annual!Spec => []Annual!TasksFollowAnniversary
BY AnnualInvariantHolds, AnnualFromInvariant, PTL
=============================================================================
