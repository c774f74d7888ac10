------------------------------- MODULE HttpApi -------------------------------
(***************************************************************************)
(* How a request finds its handler: the first route that matches, then          *)
(* JwtAuthGuard, then the guard of the route.  And how a client that logs in     *)
(* carries its refresh token: in a cookie or in the body.                       *)
(*                                                                         *)
(* The input is a route, or a client.  A parameter of a path stands for its      *)
(* position; a caller belongs to at most one group, that of position 2.          *)
(***************************************************************************)
EXTENDS Naturals, RouteTable

CONSTANT None \* no user, membership, token

Agents  == {"app", "browser", "other", "none"}
Clients == [jar : BOOLEAN, agent : Agents, cookie : {None, "old"}]

VARIABLE input \* [route : an index of Routes, client : None], or the other way round

Init == input \in [route : DOMAIN Routes, client : {None}]
                    \cup [route : {None}, client : Clients]

-----------------------------------------------------------------------------
(* The router.                                                             *)

Matches(row, method, path) ==
  /\ row.method = method /\ Len(row.path) = Len(path)
  /\ \A i \in DOMAIN path : row.path[i] \in Params \/ row.path[i] = path[i]

\* The path of a request for a row; no literal of a path is "?".
PathFor(row) == [i \in DOMAIN row.path |-> IF row.path[i] \in Params THEN "?" ELSE row.path[i]]

HandlerOf(method, path) ==
  CHOOSE i \in DOMAIN Routes :
    /\ Matches(Routes[i], method, path)
    /\ \A j \in 1..(i - 1) : ~Matches(Routes[j], method, path)

-----------------------------------------------------------------------------
(* The guards.  A caller: its token, the row of its user, the permissions of its   *)
(* role in the group (None if not a member), and whose question it asks for.      *)

Codes == {"INVITE_MEMBER", "DELETE_GROUP", "UPDATE_GROUP", "MANAGE_ROLE", "MANAGE_MEMBER"}

Callers ==
  [token : {"none", "gone", "valid"}, isAdmin : BOOLEAN, isSuperAdmin : BOOLEAN,
   member : BOOLEAN, rights : {{}, Codes} \cup {{p} : p \in Codes},
   question : {"public", "own", "private"}]

Logins == {"password", "google", "kakao", "apple"}
IsPublic(row) == row.access \in Logins \cup {"public", "anyone", "visible"}

\* JwtStrategy.validate refuses the token of an account that is gone.
JwtAuthGuard(row, c) == IsPublic(row) \/ c.token = "valid"

\* request.user: a public route does not read the token.
UserKnown(row, c) == ~IsPublic(row) /\ c.token = "valid"

AdminGuard(row, c)      == UserKnown(row, c) /\ c.isAdmin
SuperAdminGuard(row, c) == UserKnown(row, c) /\ c.isSuperAdmin

\* Variant: id comes before groupId.
ParamById(row) ==
  LET at(p) == {i \in DOMAIN row.path : row.path[i] = p}
  IN IF at(":id") # {} THEN CHOOSE i \in at(":id") : TRUE
     ELSE IF at(":groupId") # {} THEN CHOOSE i \in at(":groupId") : TRUE ELSE None

\* The parameter a guard takes for the group: groupId, or else id.
GroupParam(row) ==
  LET at(p) == {i \in DOMAIN row.path : row.path[i] = p}
  IN IF at(":groupId") # {} THEN CHOOSE i \in at(":groupId") : TRUE
     ELSE IF at(":id") # {} THEN CHOOSE i \in at(":id") : TRUE ELSE None

GroupMembershipGuard(row, c) ==
  UserKnown(row, c) /\ c.member /\ GroupParam(row) = 2

GroupPermissionGuard(row, c) ==
  GroupMembershipGuard(row, c) /\ row.access \in c.rights

QuestionVisibilityGuard(row, c) ==
  c.question = "public" \/ (UserKnown(row, c) /\ (c.isAdmin \/ c.question = "own"))

Admits(row, c) ==
  /\ JwtAuthGuard(row, c)
  /\ row.access = "admin"   => AdminGuard(row, c)
  /\ row.access = "super"   => SuperAdminGuard(row, c)
  /\ row.access = "member"  => GroupMembershipGuard(row, c)
  /\ row.access \in Codes   => GroupPermissionGuard(row, c)
  /\ row.access = "visible" => QuestionVisibilityGuard(row, c)

-----------------------------------------------------------------------------
(* The clients.  What one holds: [cookie, body], the refresh token in each.        *)

\* isWebClient: a cookie tells, and without one the User-Agent.
IsWebClient(client, held) == held.cookie # None \/ client.agent = "browser"

\* login and handleTokenResponse: a client without a jar loses the cookie.
Issue(client, held, token) ==
  IF IsWebClient(client, held)
    THEN [held EXCEPT !.cookie = IF client.jar THEN token ELSE None]
    ELSE [held EXCEPT !.body = token]

\* extractRefreshToken: None is refused.
ExtractRefreshToken(client, held) ==
  IF IsWebClient(client, held) THEN held.cookie ELSE held.body

\* refresh gives the next token for the one extracted; a client that is refused keeps what it has.
Refresh(client, held, token) ==
  IF ExtractRefreshToken(client, held) = None THEN held ELSE Issue(client, held, token)

\* logout clears the cookie of a web client.
Logout(client, held) ==
  IF IsWebClient(client, held) THEN [held EXCEPT !.cookie = None] ELSE held

-----------------------------------------------------------------------------
\* What stands in the path of a route is what its guards let through.
AdminPath(row) == \E i \in DOMAIN row.path : row.path[i] = "admin"
OfGroup(row)   == Len(row.path) > 1 /\ row.path[1] = "groups" /\ row.path[2] \in Params
Has(row, name) == \E i \in DOMAIN row.path : row.path[i] = name

\* leave, transferOwnership: the service checks.
InService == {<<"POST", "leave">>, <<"POST", "transfer-ownership">>}

\* Every route is found by its own requests, although routes with parameters match the
\* paths of others (a literal must come first); some caller is let in; who comes to a path
\* of administration is an administrator; who comes to what is in a group belongs to that
\* very group, also where the path names a role or a member too, and changes its roles,
\* members or requests with the permission for them (the controllers, JwtAuthGuard,
\* AdminGuard, GroupMembershipGuard, GroupPermissionGuard, QuestionVisibilityGuard).
RoutesAdmitRightly ==
  input.route # None =>
    LET row == Routes[input.route]
    IN /\ HandlerOf(row.method, PathFor(row)) = input.route
       /\ \E c \in Callers : Admits(row, c)
       /\ \A c \in Callers : Admits(row, c) =>
            /\ AdminPath(row) => c.token = "valid" /\ (c.isAdmin \/ c.isSuperAdmin)
            /\ OfGroup(row) /\ <<row.method, row.path[Len(row.path)]>> \notin InService
                 => c.token = "valid" /\ c.member
            /\ OfGroup(row) /\ row.method # "GET" =>
                 /\ Has(row, "roles") => "MANAGE_ROLE" \in c.rights
                 /\ Has(row, "members") /\ ~Has(row, "report") => "MANAGE_MEMBER" \in c.rights
                 /\ Has(row, "join-requests") => "INVITE_MEMBER" \in c.rights

\* A client finds the token it was last given when it refreshes, again and again, whatever
\* cookie it came with, and not after it has logged out; but a browser that keeps no cookies
\* loses its session, and a body keeps a token that was logged out (login,
\* handleTokenResponse, extractRefreshToken, isWebClient, logout).
ClientKeepsSession ==
  input.client # None =>
    LET c      == input.client
        start  == [cookie |-> c.cookie, body |-> None]
        first  == Issue(c, start, "first")
        second == Refresh(c, first, "second")
        third  == Refresh(c, second, "third")
    IN c.jar \/ (c.agent # "browser" /\ c.cookie = None) =>
         /\ ExtractRefreshToken(c, first) = "first"
         /\ ExtractRefreshToken(c, second) = "second"
         /\ ExtractRefreshToken(c, third) = "third"
         /\ ExtractRefreshToken(c, Logout(c, third)) \in {None} \cup {third.body}

AccessFits == RoutesAdmitRightly /\ ClientKeepsSession

=============================================================================
