----------------------------- MODULE GroupPolicy -----------------------------
(***************************************************************************)
(* What a group promises (docs/features/02-groups.md), with every request     *)
(* carried out at once: who is a member and in which role, and what became of  *)
(* the requests to join.  A group has one owner, who changes by a transfer      *)
(* only; a request is decided once, and accepting it makes a member.           *)
(*                                                                         *)
(* Once disturbed, nothing is promised.                                      *)
(***************************************************************************)
EXTENDS Sequences

CONSTANTS Users, Role, DefaultRole, NoRole

VARIABLES
  role,      \* per user, the role in the group, or NoRole
  requests,  \* to join, oldest first: [user, status]
  disturbed

vars == <<role, requests, disturbed>>

IsIn(u) == role[u] # NoRole
Waiting(u) == \E i \in DOMAIN requests : requests[i] = [user |-> u, status |-> "PENDING"]
Nobody == [u \in Users |-> NoRole]

Init == role = Nobody /\ requests = <<>> /\ ~disturbed

Found(u) ==
  /\ role = Nobody
  /\ role' = [role EXCEPT ![u] = "OWNER"]
  /\ UNCHANGED requests

Leave(u) ==
  /\ IsIn(u) /\ role[u] # "OWNER"
  /\ role' = [role EXCEPT ![u] = NoRole]
  /\ UNCHANGED requests

SetRole(u, r) ==
  /\ IsIn(u) /\ role[u] # "OWNER" /\ r # "OWNER"
  /\ role' = [role EXCEPT ![u] = r]
  /\ UNCHANGED requests

Transfer(u, v) ==
  /\ u # v /\ role[u] = "OWNER" /\ IsIn(v)
  /\ role' = [role EXCEPT ![u] = DefaultRole, ![v] = "OWNER"]
  /\ UNCHANGED requests

Ask(u) ==
  /\ ~IsIn(u) /\ ~Waiting(u)
  /\ requests' = Append(requests, [user |-> u, status |-> "PENDING"])
  /\ UNCHANGED role

Accept(i) ==
  /\ requests[i].status = "PENDING" /\ ~IsIn(requests[i].user)
  /\ requests' = [requests EXCEPT ![i].status = "ACCEPTED"]
  /\ role' = [role EXCEPT ![requests[i].user] = DefaultRole]

Reject(i) ==
  /\ requests[i].status = "PENDING"
  /\ requests' = [requests EXCEPT ![i].status = "REJECTED"]
  /\ UNCHANGED role

Dissolve == role' = Nobody /\ requests' = <<>>

\* The account of a user is deleted.
Vanish(u) == role' = [role EXCEPT ![u] = NoRole] /\ UNCHANGED requests

Promised ==
  \/ \E u \in Users : Found(u) \/ Leave(u) \/ Ask(u) \/ Vanish(u)
  \/ \E u \in Users, r \in Role : SetRole(u, r)
  \/ \E u, v \in Users : Transfer(u, v)
  \/ \E i \in DOMAIN requests : Accept(i) \/ Reject(i)
  \/ Dissolve

Next == disturbed' \/ (~disturbed' /\ Promised)

Spec == Init /\ [][Next]_vars

=============================================================================
