-------------------------------- MODULE Votes --------------------------------
(***************************************************************************)
(* A vote of a group: created, cast, withdrawn and deleted.                 *)
(*                                                                         *)
(* A ballot is a row of a user and an option, unique as a pair; that a user    *)
(* has one ballot in a vote of a single choice is left to the transaction     *)
(* that deletes his ballots and inserts the new ones.  Members, the end of      *)
(* the vote and the vote itself are looked at before.                       *)
(***************************************************************************)
EXTENDS Integers, FiniteSets

CONSTANTS Users, Owner,  \* the users, and who owns the group
          Options,       \* the options of the vote
          Handlers,      \* the requests that can be on their way at once
          None,          \* no vote, no request
          MaxRequests    \* bound: requests in all

VARIABLES
  members,  \* users in the group
  vote,     \* the row, or None
  closed,   \* its end has come
  ballots,  \* rows <<user, option>>
  request,  \* per handler, what it has read
  requests, \* counts the requests
  choice,   \* ghost: per user, the options of the last request that went through
  crossed   \* ghost: users of whom two transactions overlapped

vars == <<members, vote, closed, ballots, request, requests, choice, crossed>>

Init ==
  /\ members = Users /\ vote = None /\ closed = FALSE /\ ballots = {}
  /\ request = [h \in Handlers |-> None] /\ requests = 0
  /\ choice = [u \in Users |-> {}] /\ crossed = {}

NewRequest == requests < MaxRequests /\ requests' = requests + 1
BallotsOf(u) == {b \in ballots : b[1] = u}
Done(h) == request' = [request EXCEPT ![h] = None]

Create(u, multiple) ==
  /\ u \in members /\ vote = None /\ requests = 0
  /\ NewRequest
  /\ vote' = [creator |-> u, multiple |-> multiple]
  /\ UNCHANGED <<members, closed, ballots, request, choice, crossed>>

\* castBallot and cancelBallot up to the transaction; picks of a cancellation are {}.
Begin(h, u, picks) ==
  /\ request[h] = None /\ u \in members /\ vote # None /\ ~closed
  /\ ~vote.multiple => Cardinality(picks) <= 1
  /\ NewRequest
  /\ request' = [request EXCEPT ![h] =
       [user |-> u, picks |-> picks, stage |-> "delete", seen |-> {}]]
  /\ UNCHANGED <<members, vote, closed, ballots, choice, crossed>>

\* cancelBallot: one statement.
Cancel(h) ==
  /\ request[h] # None /\ request[h].stage = "delete" /\ request[h].picks = {}
  /\ LET u == request[h].user IN
       /\ ballots' = ballots \ BallotsOf(u)
       /\ choice' = [choice EXCEPT ![u] = {}]
       /\ crossed' = IF \E o \in Handlers \ {h} : request[o] # None
                          /\ request[o].user = u /\ request[o].stage = "insert"
                       THEN crossed \cup {u} ELSE crossed
  /\ Done(h)
  /\ UNCHANGED <<members, vote, closed, requests>>

\* castBallot: the ballots that the transaction deletes are those it sees.
Delete(h) ==
  /\ request[h] # None /\ request[h].stage = "delete" /\ request[h].picks # {}
  /\ request' = [request EXCEPT ![h].stage = "insert", ![h].seen = BallotsOf(request[h].user)]
  /\ UNCHANGED <<members, vote, closed, ballots, requests, choice, crossed>>

\* Variant: the old ballots are kept.
InsertOnly(h) ==
  /\ request[h] # None /\ request[h].stage = "insert"
  /\ LET u   == request[h].user
         new == {u} \X request[h].picks
     IN IF vote = None \/ new \cap ballots # {}
          THEN UNCHANGED <<ballots, choice, crossed>>
          ELSE /\ ballots' = ballots \cup new
               /\ choice' = [choice EXCEPT ![u] = request[h].picks]
               /\ UNCHANGED crossed
  /\ Done(h)
  /\ UNCHANGED <<members, vote, closed, requests>>

\* castBallot: the new ballots, and the commit.  It fails where the vote is gone, or
\* another transaction has inserted one of the same ballots meanwhile.
Insert(h) ==
  /\ request[h] # None /\ request[h].stage = "insert"
  /\ LET u    == request[h].user
         new  == {u} \X request[h].picks
         rest == ballots \ request[h].seen
     IN IF vote = None \/ new \cap rest # {}
          THEN UNCHANGED <<ballots, choice, crossed>>
          ELSE /\ ballots' = rest \cup new
               /\ choice' = [choice EXCEPT ![u] = request[h].picks]
               /\ crossed' = IF BallotsOf(u) # request[h].seen
                               THEN crossed \cup {u} ELSE crossed
  /\ Done(h)
  /\ UNCHANGED <<members, vote, closed, requests>>

\* remove, by the creator or the owner of the group; options and ballots cascade.
Remove(u) ==
  /\ vote # None /\ u \in members /\ u \in {vote.creator, Owner}
  /\ NewRequest
  /\ vote' = None /\ ballots' = {}
  /\ choice' = [v \in Users |-> {}]
  /\ UNCHANGED <<members, closed, request, crossed>>

Close == vote # None /\ ~closed /\ closed' = TRUE
         /\ UNCHANGED <<members, vote, ballots, request, requests, choice, crossed>>

\* A member leaves the group: the ballots stay.
Leave(u) ==
  /\ u \in members \ {Owner}
  /\ members' = members \ {u}
  /\ UNCHANGED <<vote, closed, ballots, request, requests, choice, crossed>>

Next ==
  \/ \E h \in Handlers : \/ \E u \in Users, picks \in SUBSET Options : Begin(h, u, picks)
                         \/ Cancel(h) \/ Delete(h) \/ Insert(h)
  \/ \E u \in Users : Remove(u) \/ Leave(u) \/ \E m \in BOOLEAN : Create(u, m)
  \/ Close

Spec == Init /\ [][Next]_vars

-----------------------------------------------------------------------------
\* toDto: what a member is shown of the vote.  The counts of the options are taken
\* together: a row counts for its one option.
Shown(u) ==
  [ongoing |-> ~closed,
   counted |-> Cardinality(ballots),
   selected |-> {o \in Options : <<u, o>> \in ballots},
   totalVoters |-> Cardinality({b[1] : b \in ballots})]

\* findAll: the votes of the group for a filter.
Listed(filter) ==
  {v \in {vote} \ {None} : CASE filter = "ALL" -> TRUE
                             [] filter = "ONGOING" -> ~closed
                             [] filter = "CLOSED" -> closed}

Row == [creator : Users, multiple : BOOLEAN]
Request ==
  [user : Users, picks : SUBSET Options, stage : {"delete", "insert"},
   seen : SUBSET (Users \X Options)]

ConstantsAssumption ==
  /\ IsFiniteSet(Users) /\ IsFiniteSet(Options)
  /\ None \notin Row \cup Request
  /\ MaxRequests \in Nat

TypeOK ==
  /\ members \subseteq Users /\ closed \in BOOLEAN
  /\ vote \in {None} \cup Row
  /\ ballots \subseteq Users \X Options
  /\ request \in [Handlers -> {None} \cup Request]
  /\ requests \in 0..MaxRequests
  /\ choice \in [Users -> SUBSET Options] /\ crossed \subseteq Users

\* What a user is shown as chosen is what the last of his requests chose, and in a vote
\* of a single choice the counts add up to the voters, unless two requests of one user
\* overlapped (castBallot: deleting and inserting is what keeps the choice single).
BallotsFollowChoice ==
  /\ \A u \in Users \ crossed : Shown(u).selected = choice[u]
  /\ \A u \in members :
       vote # None /\ ~vote.multiple /\ crossed = {} =>
         Shown(u).counted = Shown(u).totalVoters
  /\ \A u \in members : Listed("ONGOING") = IF Shown(u).ongoing THEN Listed("ALL") ELSE {}

=============================================================================
