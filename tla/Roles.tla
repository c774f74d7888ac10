-------------------------------- MODULE Roles --------------------------------
(***************************************************************************)
(* The roles an administrator keeps for all groups ("common") and the owner   *)
(* of a group keeps for it ("group"), and the role of one member.              *)
(*                                                                         *)
(* A request looks the name and the default role up before it writes.  The    *)
(* index on (name, groupId) stops a second role of a name in the group, but     *)
(* says nothing of common roles, whose groupId is null; a role that a member     *)
(* has is kept by the foreign key.                                            *)
(***************************************************************************)
EXTENDS Integers, FiniteSets

CONSTANTS
  Ids,          \* of roles, 1..n, given out in order
  Names,        \* but for "OWNER"
  Handlers,     \* requests in progress at once
  None,         \* no row, no request
  Keep,         \* a field left out of an update
  MaxRequests   \* bound: requests

VARIABLES
  role,         \* per id, the row [scope, name, default], or None
  member,       \* the role of the member, or None before it joins
  used,         \* the ids given out
  request,      \* per handler, [op, stage, scope, id, name, default, row, ...], or None
  requests,
  raced         \* ghost: a role was written while another change of one was under way

vars == <<role, member, used, request, requests, raced>>

Scopes == {"common", "group"}
Rows == {i \in Ids : role[i] # None}
Of(scope) == {i \in Rows : role[i].scope = scope}
Owner == 1

\* The seed: the common OWNER, and a common default role.
Init ==
  /\ role = [i \in Ids |-> CASE i = Owner -> [scope |-> "common", name |-> "OWNER", default |-> FALSE]
                             [] i = 2 -> [scope |-> "common", name |-> CHOOSE n \in Names : TRUE,
                                          default |-> TRUE]
                             [] OTHER -> None]
  /\ member = None /\ used = 2
  /\ request = [h \in Handlers |-> None] /\ requests = 0 /\ raced = FALSE

-----------------------------------------------------------------------------
Begin(h, r) ==
  /\ request[h] = None /\ requests < MaxRequests
  /\ requests' = requests + 1 /\ request' = [request EXCEPT ![h] = r]

At(h, ops, stage) == request[h] # None /\ request[h].op \in ops /\ request[h].stage = stage
Done(h) == request' = [request EXCEPT ![h] = None]
To(h, stage) == request' = [request EXCEPT ![h].stage = stage]
Crossed(h) == \E o \in Handlers \ {h} : request[o] # None /\ request[o].op \in {"create", "update"}

Changed(h) == raced' = (raced \/ Crossed(h))

\* create, createForGroup.
Create(h, scope, name, default) ==
  /\ Begin(h, [op |-> "create", stage |-> "name", scope |-> scope, id |-> 0, name |-> name,
               default |-> default])
  /\ UNCHANGED <<role, member, used, raced>>

\* update, updateForGroup: the row of the scope, and whether there is anything to look up.
Update(h, scope, id, name, default) ==
  /\ id \in Of(scope)
  /\ Begin(h, [op |-> "update", scope |-> scope, id |-> id, name |-> name, default |-> default,
               stage |-> IF name # Keep /\ name # role[id].name THEN "name"
                         ELSE IF default = TRUE /\ ~role[id].default THEN "default" ELSE "write",
               was |-> role[id].default])
  /\ UNCHANGED <<role, member, used, raced>>

\* The name must be new in the scope.
LookName(h) ==
  /\ At(h, {"create", "update"}, "name")
  /\ LET r == request[h] IN
       IF \E i \in Of(r.scope) \ {r.id} : role[i].name = r.name THEN Done(h)
       ELSE IF r.default = TRUE /\ (r.op = "create" \/ ~r.was) THEN To(h, "default")
       ELSE To(h, "write")
  /\ UNCHANGED <<role, member, used, requests, raced>>

\* And the default role the only one.
LookDefault(h) ==
  /\ At(h, {"create", "update"}, "default")
  /\ LET r == request[h] IN
       IF \E i \in Of(r.scope) \ {r.id} : role[i].default THEN Done(h) ELSE To(h, "write")
  /\ UNCHANGED <<role, member, used, requests, raced>>

\* The unique index, which does not see that two groupIds are null.
NameIsFree(scope, id, name) ==
  scope = "common" \/ \A i \in Of("group") \ {id} : role[i].name # name

WriteNew(h) ==
  /\ At(h, {"create"}, "write") /\ used + 1 \in Ids
  /\ LET r == request[h] IN
       IF NameIsFree(r.scope, 0, r.name)
         THEN /\ used' = used + 1
              /\ role' = [role EXCEPT ![used + 1] = [scope |-> r.scope, name |-> r.name,
                                                     default |-> r.default]]
              /\ Changed(h)
         ELSE UNCHANGED <<role, used, raced>>
  /\ Done(h)
  /\ UNCHANGED <<member, requests>>

WriteChange(h) ==
  /\ At(h, {"update"}, "write")
  /\ LET r == request[h]
         patch(old, new) == IF new = Keep THEN old ELSE new
     IN IF r.id \in Rows /\ (r.name = Keep \/ NameIsFree(r.scope, r.id, r.name))
          THEN /\ role' = [role EXCEPT ![r.id].name = patch(@, r.name),
                                       ![r.id].default = patch(@, r.default)]
               /\ Changed(h)
          ELSE UNCHANGED <<role, raced>>
  /\ Done(h)
  /\ UNCHANGED <<member, used, requests>>

\* remove, removeForGroup: the row with its members counted, then the row alone.
Remove(h, scope, id) ==
  /\ id \in Of(scope) /\ member # id
  /\ scope = "common" => role[id].name # "OWNER"
  /\ Begin(h, [op |-> "remove", stage |-> "write", id |-> id])
  /\ UNCHANGED <<role, member, used, raced>>

RemoveRow(h) ==
  /\ At(h, {"remove"}, "write")
  /\ LET id == request[h].id IN
       IF id \in Rows /\ member # id
         THEN role' = [role EXCEPT ![id] = None] /\ Changed(h)
         ELSE UNCHANGED <<role, raced>>
  /\ Done(h)
  /\ UNCHANGED <<member, used, requests>>

-----------------------------------------------------------------------------
Defaults(scope) == {i \in Of(scope) : role[i].default}

\* getDefaultRole: that of the group, or else the common one; the member is made later.
Join(h) ==
  /\ member = None
  /\ Begin(h, [op |-> "join", stage |-> "common", id |-> 0])
  /\ UNCHANGED <<role, member, used, raced>>

LookForRole(h, scope, id) ==
  /\ At(h, {"join"}, "common")
  /\ scope = IF Defaults("group") # {} THEN "group" ELSE "common"
  /\ IF Defaults(scope) = {} THEN id = Owner /\ Done(h)
     ELSE /\ id \in Defaults(scope)
          /\ request' = [request EXCEPT ![h].id = id, ![h].stage = "write"]
  /\ UNCHANGED <<role, member, used, requests, raced>>

\* updateMemberRole: any role but one called OWNER.
Assign(h, id) ==
  /\ member # None /\ role[member].name # "OWNER" /\ id \in Rows /\ role[id].name # "OWNER"
  /\ Begin(h, [op |-> "assign", stage |-> "write", id |-> id])
  /\ UNCHANGED <<role, member, used, raced>>

\* The foreign key refuses a role that is gone.
WriteMember(h) ==
  /\ At(h, {"join", "assign"}, "write")
  /\ member' = IF request[h].id \in Rows /\ (request[h].op = "join" => member = None)
                 THEN request[h].id ELSE member
  /\ Done(h)
  /\ UNCHANGED <<role, used, requests, raced>>

\* A request comes in.
Start(h) ==
  \/ \E scope \in Scopes, name \in Names, default \in BOOLEAN : Create(h, scope, name, default)
  \/ \E id \in Rows, name \in Names \cup {Keep}, default \in BOOLEAN \cup {Keep} :
       Update(h, role[id].scope, id, name, default)
  \/ \E id \in Rows : Remove(h, role[id].scope, id) \/ Assign(h, id)
  \/ Join(h)

Next ==
  \E h \in Handlers :
    \/ request[h] = None /\ requests < MaxRequests /\ Start(h)
    \/ \E scope \in Scopes, id \in Ids : LookForRole(h, scope, id)
    \/ LookName(h) \/ LookDefault(h) \/ WriteNew(h) \/ WriteChange(h) \/ RemoveRow(h)
    \/ WriteMember(h)

Spec == Init /\ [][Next]_vars

-----------------------------------------------------------------------------
Row == [scope : Scopes, name : Names \cup {"OWNER"}, default : BOOLEAN]

\* What a handler is about: a removal has only the id, as the new role of a member.
Request ==
  [op : {"create"}, stage : {"name", "default", "write"}, scope : Scopes, id : {0},
   name : Names, default : BOOLEAN]
  \cup [op : {"update"}, stage : {"name", "default", "write"}, scope : Scopes, id : Ids,
        name : Names \cup {Keep}, default : BOOLEAN \cup {Keep}, was : BOOLEAN]
  \cup [op : {"join"}, stage : {"common", "write"}, id : Ids \cup {0}]
  \cup [op : {"remove", "assign"}, stage : {"write"}, id : Ids]

ConstantsAssumption ==
  /\ Ids \subseteq Nat \ {0} /\ {1, 2} \subseteq Ids
  /\ Names # {} /\ "OWNER" \notin Names
  /\ Keep \notin Names /\ Keep \notin BOOLEAN
  /\ None \notin Row /\ None \notin Request /\ None \notin Ids
  /\ MaxRequests \in Nat

TypeOK ==
  /\ role \in [Ids -> {None} \cup Row]
  /\ member \in Ids \cup {None} /\ used \in Ids
  /\ request \in [Handlers -> {None} \cup Request]
  /\ requests \in 0..MaxRequests /\ raced \in BOOLEAN

\* The roles of the group never share a name, and neither these nor the common roles have two
\* defaults or, the common ones, a name twice, unless changes of roles crossed, whatever
\* roles are renamed, made default and removed meanwhile; and no member is left with a role
\* that is gone (RoleService, getDefaultRole).
RolesAgree ==
  /\ \A i, j \in Of("group") : i # j => role[i].name # role[j].name
  /\ ~raced => \A scope \in Scopes :
       /\ \A i, j \in Of(scope) : i # j => role[i].name # role[j].name
       /\ Cardinality(Defaults(scope)) <= 1
  /\ member # None => member \in Rows

=============================================================================
