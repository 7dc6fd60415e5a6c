----------------------------- MODULE AdminAccess -----------------------------
(***************************************************************************)
(* The administrator endpoints that change who may do what (/admin/users   *)
(* and /admin/employers) together with the public POST /auth/register on   *)
(* an account that already exists: the six handlers that read a row of     *)
(* `users', decide, and write PostgreSQL, Firebase and MongoDB.            *)
(*                                                                         *)
(* Each handler is a coroutine, so several requests are in flight at once, *)
(* and each `await' lets the others run.  A request is a record; an action *)
(* is the code between two awaits that touch shared state.  One SQLAlchemy *)
(* session, hence one READ COMMITTED transaction, spans the whole request  *)
(* and commits after the handler has returned (shared/database/postgres.py *)
(* get_db); an exception anywhere before that rolls it back.               *)
(*                                                                         *)
(* An account is named by its row.  A Firebase identity whose row is gone  *)
(* and that registers again is a new account and belongs to the            *)
(* provisioning part of the project.  Profile columns (name, phone, ...),  *)
(* company membership and the Redis token cache are left out here.         *)
(***************************************************************************)
EXTENDS Naturals, Sequences, FiniteSets, Functions

CONSTANTS
    User,       \* accounts: the rows of `users' and their Firebase identities
    Request,    \* slots for requests in flight
    Endpoints,  \* the handlers that take part, a subset of Handler
    Grants,     \* the (primary_role, available_roles) pairs request bodies carry
    Requested,  \* the roles POST /auth/register may ask for
    MaxCalls,   \* bound: how many requests a behaviour admits
    NoUser,     \* the row is absent
    NoIdentity, \* the Firebase identity is absent
    NoCall      \* the slot holds no request

Role == {"CANDIDATE", "EMPLOYER", "EXPERT", "EMPLOYEE", "SUPER_ADMIN"}
SelfServiceRoles == {"CANDIDATE", "EMPLOYER", "EXPERT"}

\* Endpoints that end by pushing the whole row to Firebase.
SyncHandler ==
    {"update_user", "update_user_roles", "update_user_status", "update_employer"}

\* Endpoints behind require_super_admin, and those among them that call
\* _ensure_admin_invariants.
AdminHandler == SyncHandler \cup {"delete_user"}
CheckedHandler == AdminHandler \ {"update_employer"}

Handler == AdminHandler \cup {"register"}

\* available_roles is a list in PostgreSQL; no role occurs in it twice.
RoleList == {list \in Seq(Role) : IsInjective(list)}
Row == [primary: Role, roles: RoleList, active: BOOLEAN]
Identity == [primary: Role, roles: RoleList, disabled: BOOLEAN]
Step == {"load", "check", "claims", "status", "profile", "identity", "write",
         "commit"}

(***************************************************************************)
(* A request in flight.  `snap' is the row as the session's identity map   *)
(* holds it, `next' the same object once the handler has assigned to it.   *)
(* `written' says that the UPDATE or DELETE is in the open transaction,    *)
(* which from then on holds the row's lock; `exposed' that Firebase or     *)
(* MongoDB have already been changed, which no rollback takes back.        *)
(* `contended' is history: another request was at work on the same row.    *)
(***************************************************************************)
Call == [step: Step, endpoint: Handler, actor: User, target: User,
         snap: Row, next: Row \cup {NoUser},
         written: BOOLEAN, exposed: BOOLEAN, contended: BOOLEAN]

ASSUME EndpointsAssumption == Endpoints \subseteq Handler
ASSUME UserAssumption == IsFiniteSet(User)
\* UpdateUserRolesRequest: no role twice, the primary role among them.
ASSUME GrantsAssumption ==
    \A g \in Grants : /\ g \in [primary: Role, roles: RoleList]
                      /\ g.primary \in Range(g.roles)
\* RegisterRequest accepts self-service roles only.
ASSUME RequestedAssumption == Requested \subseteq SelfServiceRoles
ASSUME MaxCallsAssumption == MaxCalls \in Nat
ASSUME AbsentAssumption ==
    /\ NoUser \notin Row
    /\ NoIdentity \notin Identity
    /\ NoCall \notin Call

VARIABLES
    users,     \* committed rows of PostgreSQL
    firebase,  \* identities: role claims and the disabled flag
    profiles,  \* accounts with a document in MongoDB
    req,       \* the requests in flight
    calls,     \* how many requests have been admitted (for the bound only)
    torn,      \* history: accounts whose stores an overlap or a failure may have split
    slipped    \* history: a demotion slipped past the count of administrators

vars == <<users, firebase, profiles, req, calls, torn, slipped>>

(***************************************************************************)
(* Roles                                                                   *)
(***************************************************************************)

\* An active account that holds SUPER_ADMIN.
IsAdmin(row) ==
    row # NoUser /\ row.active /\ "SUPER_ADMIN" \in Range(row.roles)

ActiveAdmins == {u \in User : IsAdmin(users[u])}

\* The identity sync_firebase_access leaves behind for a row.
Synced(row) ==
    [primary |-> row.primary, roles |-> row.roles, disabled |-> ~row.active]

\* ck_users_available_roles
RolesConstraint(row) == row.primary \in Range(row.roles)

\* Faulty: the role is appended although the account has it.
WithRoleTwice(roles, role) == Append(roles, role)

WithRole(roles, role) ==
    IF role \in Range(roles) THEN roles ELSE Append(roles, role)

\* What the handler assigns to the row it loaded, one value per request body.
Changes(endpoint, row) ==
    CASE endpoint = "update_user" ->
            {[primary |-> g.primary, roles |-> g.roles, active |-> a] :
                g \in Grants, a \in BOOLEAN}
      [] endpoint = "update_user_roles" ->
            {[primary |-> g.primary, roles |-> g.roles, active |-> row.active] :
                g \in Grants}
      [] endpoint \in {"update_user_status", "update_employer"} ->
            {[row EXCEPT !.active = a] : a \in BOOLEAN}
      [] endpoint = "delete_user" -> {NoUser}
      [] endpoint = "register" ->
            {[row EXCEPT !.roles = WithRole(row.roles, role)] :
                role \in Requested}

\* The unit of work puts only the columns the handler changed in its UPDATE,
\* and PostgreSQL applies it to the row's current version.
\* Faulty: every column is written, changed or not.
ColumnAlways(current, old, new) == new

Column(current, old, new) == IF new = old THEN current ELSE new

Merged(current, old, new) ==
    IF current = NoUser \/ new = NoUser
    THEN NoUser
    ELSE [primary |-> Column(current.primary, old.primary, new.primary),
          roles   |-> Column(current.roles, old.roles, new.roles),
          active  |-> Column(current.active, old.active, new.active)]

(***************************************************************************)
(* Requests in flight                                                      *)
(***************************************************************************)

At(r, step) == req[r] # NoCall /\ req[r].step = step

\* r relies on a copy of u's row.  An administrator who edits the own account
\* works on the copy read when the request was authorized.
Holds(r, u) ==
    /\ req[r] # NoCall
    /\ req[r].target = u
    /\ req[r].step # "load" \/ req[r].actor = u

\* A demotion that has passed _ensure_admin_invariants and not yet ended.
Demoting(r) ==
    /\ req[r] # NoCall
    /\ req[r].endpoint \in CheckedHandler
    /\ req[r].step \notin {"load", "check"}
    /\ IsAdmin(req[r].snap)
    /\ ~IsAdmin(req[r].next)

\* The requests once r goes on as `call', which holds its target's row.
Enter(r, call) ==
    LET peers == {q \in Request : q # r /\ Holds(q, call.target)}
    IN  [q \in Request |->
            IF q = r THEN [call EXCEPT !.contended = @ \/ peers # {}]
            ELSE IF q \in peers THEN [req[q] EXCEPT !.contended = TRUE]
            ELSE req[q]]

\* A request takes a free slot, within the bound.
Admit(r) ==
    /\ req[r] = NoCall
    /\ calls < MaxCalls
    /\ calls' = calls + 1

GoTo(r, step) == req' = [req EXCEPT ![r].step = step]

\* The request ends in an exception: rollback, and whatever it did elsewhere
\* stays.
Abort(r) ==
    /\ req' = [req EXCEPT ![r] = NoCall]
    /\ torn' = IF req[r].exposed THEN torn \cup {req[r].target} ELSE torn
    /\ UNCHANGED <<users, firebase, profiles, calls, slipped>>

(***************************************************************************)
(* The order in which each handler does its work                           *)
(***************************************************************************)

AfterLoad(endpoint) == IF endpoint = "update_employer" THEN "write" ELSE "check"

\* Faulty: delete_user forgets the document in MongoDB.
AfterCheckNoMongo(endpoint) ==
    CASE endpoint = "update_user" -> "claims"
      [] endpoint = "delete_user" -> "identity"
      [] OTHER                    -> "write"

AfterCheck(endpoint) ==
    CASE endpoint = "update_user" -> "claims"
      [] endpoint = "delete_user" -> "profile"
      [] OTHER                    -> "write"

AfterSync(endpoint) == IF endpoint = "update_user" THEN "write" ELSE "commit"

AfterWrite(endpoint) ==
    CASE endpoint \in {"update_user", "delete_user"} -> "commit"
      [] endpoint = "register"                       -> "profile"
      [] OTHER                                       -> "claims"

(***************************************************************************)
(* Actions                                                                 *)
(***************************************************************************)

Init ==
    /\ users \in [User -> {[primary |-> g.primary, roles |-> g.roles,
                            active |-> a] : g \in Grants, a \in BOOLEAN}]
    /\ ActiveAdmins # {}
    /\ firebase = [u \in User |-> Synced(users[u])]
    /\ profiles = User
    /\ req = [r \in Request |-> NoCall]
    /\ calls = 0
    /\ torn = {}
    /\ slipped = FALSE

\* require_super_admin: the caller's row is read in the request's session and
\* must be an active administrator's.
Authorize(r) ==
    /\ Admit(r)
    /\ \E endpoint \in Endpoints \cap AdminHandler, actor \in ActiveAdmins,
          target \in User :
        LET call == [step |-> "load", endpoint |-> endpoint,
                     actor |-> actor, target |-> target,
                     snap |-> users[actor], next |-> users[actor],
                     written |-> FALSE, exposed |-> FALSE, contended |-> FALSE]
        IN  req' = IF actor = target THEN Enter(r, call)
                   ELSE [req EXCEPT ![r] = call]
    /\ UNCHANGED <<users, firebase, profiles, torn, slipped>>

\* register on an existing account: the token is verified (revocation and the
\* disabled flag included), the row is read and the role appended to the copy.
RegisterStart(r) ==
    /\ Admit(r)
    /\ "register" \in Endpoints
    /\ \E u \in User :
        /\ firebase[u] # NoIdentity /\ ~firebase[u].disabled
        /\ users[u] # NoUser
        /\ \E next \in Changes("register", users[u]) :
            req' = Enter(r, [step |-> "write", endpoint |-> "register",
                             actor |-> u, target |-> u,
                             snap |-> users[u], next |-> next,
                             written |-> FALSE, exposed |-> FALSE,
                             contended |-> FALSE])
    /\ UNCHANGED <<users, firebase, profiles, torn, slipped>>

\* _get_target_user.  A row the session has already loaded keeps the attribute
\* values it was loaded with; a missing one is 404.
LoadTarget(r) ==
    /\ At(r, "load")
    /\ LET c    == req[r]
           copy == IF c.actor = c.target THEN c.snap ELSE users[c.target]
       IN  \/ /\ users[c.target] = NoUser
              /\ Abort(r)
           \/ /\ users[c.target] # NoUser
              /\ c.endpoint = "update_employer"
              /\ "EMPLOYER" \notin Range(copy.roles)
              /\ Abort(r)
           \/ /\ users[c.target] # NoUser
              /\ c.endpoint = "update_employer" => "EMPLOYER" \in Range(copy.roles)
              /\ \E next \in Changes(c.endpoint, copy) :
                    req' = Enter(r, [c EXCEPT !.step = AfterLoad(c.endpoint),
                                              !.snap = copy, !.next = next])
              /\ UNCHANGED <<users, firebase, profiles, calls, torn, slipped>>

\* _ensure_admin_invariants: 409 for giving up the own access, and for a
\* demotion when the committed rows show no second active administrator.
\* Faulty: a deactivation of the own account is not looked at.
SelfLockoutRolesOnly(c) ==
    /\ c.actor = c.target
    /\ c.next # NoUser => "SUPER_ADMIN" \notin Range(c.next.roles)

SelfLockout(c) == c.actor = c.target /\ ~IsAdmin(c.next)

\* Faulty: the count is off by one.
LastAdminOffByOne(c) ==
    /\ IsAdmin(c.snap)
    /\ ~IsAdmin(c.next)
    /\ Cardinality(ActiveAdmins) < 1

LastAdmin(c) ==
    /\ IsAdmin(c.snap)
    /\ ~IsAdmin(c.next)
    /\ Cardinality(ActiveAdmins) <= 1

EnsureAdminInvariants(r) ==
    /\ At(r, "check")
    /\ LET c == req[r]
       IN  \/ /\ SelfLockout(c) \/ LastAdmin(c)
              /\ Abort(r)
           \/ /\ ~SelfLockout(c)
              /\ ~LastAdmin(c)
              /\ GoTo(r, AfterCheck(c.endpoint))
              /\ slipped' = (slipped \/ (/\ IsAdmin(c.snap)
                                         /\ ~IsAdmin(c.next)
                                         /\ \E q \in Request \ {r} :
                                              /\ Demoting(q)
                                              /\ req[q].target # c.target))
              /\ UNCHANGED <<users, firebase, profiles, calls, torn>>

\* sync_firebase_access, first call: the role claims.  Every Firebase call
\* raises for an identity that does not exist.
SyncClaims(r) ==
    /\ At(r, "claims")
    /\ LET c == req[r]
       IN  \/ firebase[c.target] = NoIdentity /\ Abort(r)
           \/ /\ firebase[c.target] # NoIdentity
              /\ firebase' = [firebase EXCEPT ![c.target].primary = c.next.primary,
                                              ![c.target].roles = c.next.roles]
              /\ req' = [req EXCEPT ![r].step = "status", ![r].exposed = TRUE]
              /\ UNCHANGED <<users, profiles, calls, torn, slipped>>

\* sync_firebase_access, second call: the disabled flag.  The third one revokes
\* refresh tokens, which changes nothing kept here.
SyncStatus(r) ==
    /\ At(r, "status")
    /\ LET c == req[r]
       IN  \/ firebase[c.target] = NoIdentity /\ Abort(r)
           \/ /\ firebase[c.target] # NoIdentity
              /\ firebase' = [firebase EXCEPT ![c.target].disabled = ~c.next.active]
              /\ GoTo(r, AfterSync(c.endpoint))
              /\ UNCHANGED <<users, profiles, calls, torn, slipped>>

\* delete_mongo_profile
DeleteProfile(r) ==
    /\ At(r, "profile")
    /\ req[r].endpoint = "delete_user"
    /\ profiles' = profiles \ {req[r].target}
    /\ req' = [req EXCEPT ![r].step = "identity", ![r].exposed = TRUE]
    /\ UNCHANGED <<users, firebase, calls, torn, slipped>>

\* register's upsert of an empty document; its failure is swallowed.
UpsertProfile(r) ==
    /\ At(r, "profile")
    /\ req[r].endpoint = "register"
    /\ profiles' \in {profiles, profiles \cup {req[r].target}}
    /\ GoTo(r, "commit")
    /\ UNCHANGED <<users, firebase, calls, torn, slipped>>

\* delete_firebase_user
DeleteIdentity(r) ==
    /\ At(r, "identity")
    /\ LET c == req[r]
       IN  \/ firebase[c.target] = NoIdentity /\ Abort(r)
           \/ /\ firebase[c.target] # NoIdentity
              /\ firebase' = [firebase EXCEPT ![c.target] = NoIdentity]
              /\ GoTo(r, "write")
              /\ UNCHANGED <<users, profiles, calls, torn, slipped>>

\* session.flush().  No changed column, no statement.  Otherwise the statement
\* waits for the row's lock; an UPDATE that finds no row is a StaleDataError,
\* one that breaks the CHECK constraint an IntegrityError; a DELETE that finds
\* no row passes with a warning.
RowLocked(u) ==
    \E q \in Request : /\ req[q] # NoCall
                       /\ req[q].target = u
                       /\ req[q].written

\* Faulty: the table has no CHECK constraint.
RefusedWithoutConstraint(c) == c.next # NoUser /\ users[c.target] = NoUser

Refused(c) ==
    /\ c.next # NoUser
    /\ users[c.target] # NoUser
         => ~RolesConstraint(Merged(users[c.target], c.snap, c.next))

Flush(r) ==
    /\ At(r, "write")
    /\ LET c == req[r]
       IN  \/ /\ c.next = c.snap
              /\ GoTo(r, AfterWrite(c.endpoint))
              /\ UNCHANGED <<users, firebase, profiles, calls, torn, slipped>>
           \/ /\ c.next # c.snap
              /\ ~RowLocked(c.target)
              /\ Refused(c)
              /\ Abort(r)
           \/ /\ c.next # c.snap
              /\ ~RowLocked(c.target)
              /\ ~Refused(c)
              /\ req' = [req EXCEPT ![r].step = AfterWrite(c.endpoint),
                                    ![r].written = TRUE]
              /\ UNCHANGED <<users, firebase, profiles, calls, torn, slipped>>

\* get_db after the handler has returned.  A lone access update leaves the
\* stores equal, whatever split them before.
Commit(r) ==
    /\ At(r, "commit")
    /\ LET c   == req[r]
           row == IF c.written THEN Merged(users[c.target], c.snap, c.next)
                  ELSE users[c.target]
       IN  /\ users' = [users EXCEPT ![c.target] = row]
           /\ torn' = IF c.contended THEN torn \cup {c.target}
                      ELSE IF c.endpoint \in SyncHandler THEN torn \ {c.target}
                      ELSE torn
           /\ slipped' = (slipped \/ (/\ IsAdmin(users[c.target])
                                      /\ ~IsAdmin(row)
                                      /\ \/ ~IsAdmin(c.snap)
                                         \/ c.endpoint \notin CheckedHandler))
    /\ req' = [req EXCEPT ![r] = NoCall]
    /\ UNCHANGED <<firebase, profiles, calls>>

\* Any awaited call may raise, and the process may die: both end the request
\* between two of its steps.
Fail(r) ==
    /\ req[r] # NoCall
    /\ Abort(r)

HandlerStep(r) ==
    \/ Authorize(r)
    \/ RegisterStart(r)
    \/ LoadTarget(r)
    \/ EnsureAdminInvariants(r)
    \/ SyncClaims(r)
    \/ SyncStatus(r)
    \/ DeleteProfile(r)
    \/ UpsertProfile(r)
    \/ DeleteIdentity(r)
    \/ Flush(r)
    \/ Commit(r)
    \/ Fail(r)

Next == \E r \in Request : HandlerStep(r)

Spec == Init /\ [][Next]_vars

(***************************************************************************)
(* Properties                                                              *)
(***************************************************************************)

\* Every store and every request in flight has its shape.
TypeOK ==
    /\ users \in [User -> Row \cup {NoUser}]
    /\ firebase \in [User -> Identity \cup {NoIdentity}]
    /\ profiles \subseteq User
    /\ req \in [Request -> Call \cup {NoCall}]
    /\ calls \in 0..MaxCalls
    /\ torn \subseteq User
    /\ slipped \in BOOLEAN

\* Some account can still administer the system, in every history whatsoever:
\* what the docstring of _ensure_admin_invariants promises.
AdminRemains == ActiveAdmins # {}

\* What the count in _ensure_admin_invariants does guarantee: the last active
\* administrator can disappear only after two demotions of different accounts
\* were both between their check and their commit, after a request that read a
\* plain account overwrote its promotion, or through update_employer.
AdminRemainsUnlessSlipped == ~slipped => ActiveAdmins # {}

\* r commits and takes the access of the administrator who issued it.
LocksOutActor(r) ==
    /\ At(r, "commit")
    /\ req'[r] = NoCall
    /\ req[r].actor = req[r].target
    /\ IsAdmin(users[req[r].target])
    /\ ~IsAdmin(users'[req[r].target])

\* No request through a handler that calls _ensure_admin_invariants, however it
\* interleaves with others, takes the access of the administrator who issued
\* it: the copy that was judged is the one the commit writes from.
CheckedNoSelfLockout ==
    [][\A r \in Request :
        LocksOutActor(r) => req[r].endpoint \notin CheckedHandler]_vars

\* The stores agree on u: no store keeps a deleted account, and for a live one
\* Firebase has the right disabled flag and claims no role the row lacks
\* (register adds a role to the row and tells Firebase nothing).
Agree(u) ==
    IF users[u] = NoUser
    THEN firebase[u] = NoIdentity /\ u \notin profiles
    ELSE /\ firebase[u] # NoIdentity
         /\ firebase[u].disabled = ~users[u].active
         /\ Range(firebase[u].roles) \subseteq Range(users[u].roles)

\* Firebase and MongoDB follow PostgreSQL on every account no request is at
\* work on, unless overlapping requests or a request that failed half-way split
\* them; one later access update that runs alone mends them again.
StoresAgree ==
    \A u \in User \ torn :
        (\A r \in Request : ~Holds(r, u)) => Agree(u)

\* A row's primary role stays among its available roles although two requests
\* may each change one of the two columns: the CHECK constraint judges the
\* merged row, and the row lock keeps the verdict true until the commit.
PrimaryRoleAvailable ==
    \A u \in User : users[u] # NoUser => RolesConstraint(users[u])

\* Role edits and status edits of one account commute: neither handler's commit
\* restores the other's column from its stale copy of the row.
DisjointEditsCommute ==
    [][\A r \in Request :
        (/\ At(r, "commit")
         /\ req'[r] = NoCall
         /\ users[req[r].target] # NoUser
         /\ req[r].next # NoUser)
        => LET old == users[req[r].target]
               new == users'[req[r].target]
           IN  /\ req[r].endpoint \in {"update_user_roles", "register"}
                    => new.active = old.active
               /\ req[r].endpoint \in {"update_user_status", "update_employer"}
                    => new.roles = old.roles /\ new.primary = old.primary]_vars

\* Only an administrator's request gives an account a role that sign-up does not
\* offer: a committed registration leaves EMPLOYEE and SUPER_ADMIN as they are.
AdminRolesGrantedByAdmins ==
    [][\A r \in Request :
        (At(r, "commit") /\ req'[r] = NoCall /\ req[r].endpoint = "register")
        => LET u == req[r].target
           IN  users'[u] # NoUser =>
                 Range(users'[u].roles) \ SelfServiceRoles
                    \subseteq Range(users[u].roles)]_vars

=============================================================================
