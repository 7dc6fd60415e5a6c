------------------------------ MODULE Profiles ------------------------------
(***************************************************************************)
(* The profile columns and push tokens of accounts: PUT /auth/me,          *)
(* POST /companies/register and POST /auth/fcm-token by their owner,       *)
(* against the administrator's PUT /admin/users/{id} and                   *)
(* PUT /admin/employers/{id}, which edit the same columns, and             *)
(* DELETE /admin/users/{id}.                                               *)
(*                                                                         *)
(* An edit reads the profile, assigns attributes, and flushes the columns  *)
(* that differ from what it read: first the UPDATE of users, then the      *)
(* membership of an employer, then the UPDATE of user_profiles.  A deletion*)
(* goes the other way, children before parent.  Rows stay locked until     *)
(* get_db commits or rolls back.  What the edits do to roles, status and   *)
(* memberships, beyond their locks, is in AdminAccess and Companies.       *)
(***************************************************************************)
EXTENDS Naturals, Sequences, FiniteSets

CONSTANTS
    User,         \* accounts
    Field,        \* columns of user_profiles
    AdminFields,  \* those update_user sets: name, phone, location and bio
    CompanyField, \* current_company, which update_employer and register_company set
    Value,        \* what a column may hold, or a request ask for
    Null,         \* the column is NULL; the request does not mention it
    Token,        \* push tokens of devices
    Request,      \* slots for requests in flight
    MaxCalls,     \* bound: how many requests a behaviour admits
    NoToken,      \* the request is about no token
    NoProfile,    \* the account has been deleted
    NoCall        \* the slot holds no request

Columns == [Field -> Value \cup {Null}]
SomeColumns == UNION {[given -> Value \cup {Null}] : given \in SUBSET Field}
TokenRow == [token: Token, user: User]

Membership == {"update_employer", "register_company"}
Edit == {"update_me", "update_user"} \cup Membership
Endpoint == Edit \cup {"fcm_token", "delete_user"}
Statement == {"users", "member", "profile", "find", "insert", "children", "parent",
              "commit"}

\* Row locks: of an UPDATE of users, of its DELETE, the shared one of a foreign
\* key; of the membership or its key, of the profile's row and the rows of tokens;
\* and the entry of an inserted token in the unique index.
Lock == {"updated", "deleted", "shared", "member", "profile", "tokens", "entry"}

(***************************************************************************)
(* A request in flight.  `todo' are the statements it has yet to send,     *)
(* `given' the columns the client asks to change, with their values,       *)
(* `copy' the profile as the session holds it, with the assignments made,  *)
(* and `dirty' the columns in which it differs from what was read.         *)
(* History: `overtaken' are those that others have changed since.          *)
(***************************************************************************)
Call == [endpoint: Endpoint, todo: Seq(Statement), user: User,
         token: Token \cup {NoToken}, given: SomeColumns, copy: Columns,
         dirty: SUBSET Field, held: SUBSET Lock, overtaken: SUBSET Field]

ASSUME FieldsAssumption == AdminFields \subseteq Field /\ CompanyField \in Field
ASSUME BoundsAssumption == MaxCalls \in Nat
ASSUME AbsentAssumption == /\ Null \notin Value /\ NoToken \notin Token
                           /\ NoProfile \notin Columns /\ NoCall \notin Call

VARIABLES
    profile, \* the committed profile of each account
    tokens,  \* committed rows of user_fcm_tokens
    req,     \* the requests in flight
    calls    \* how many requests there have been

tables == <<profile, tokens>>
vars == <<tables, req, calls>>

At(r, statement) == req[r] # NoCall /\ Head(req[r].todo) = statement

\* r has sent a statement, and holds these locks from now on.
Sent(r, locks) ==
    /\ req' = [req EXCEPT ![r].todo = Tail(@), ![r].held = @ \cup locks]
    /\ UNCHANGED <<tables, calls>>

Alive(u) == profile[u] # NoProfile

\* Rollback.
Abort(r) ==
    /\ req' = [req EXCEPT ![r] = NoCall]
    /\ UNCHANGED <<tables, calls>>

Init ==
    /\ profile \in [User -> Columns]
    /\ tokens = {}
    /\ req = [r \in Request |-> NoCall]
    /\ calls = 0

(***************************************************************************)
(* Locks                                                                   *)
(***************************************************************************)

\* The other requests that hold one of these locks on rows of u.
Holders(r, u, locks) ==
    {q \in Request \ {r} :
        req[q] # NoCall /\ req[q].user = u /\ req[q].held \cap locks # {}}

\* An INSERT of a token waits for open ones of the same, and for deletions of the
\* row that has it.
TokenHolders(r) ==
    {q \in Request \ {r} : /\ req[q] # NoCall
                           /\ "entry" \in req[q].held
                           /\ req[q].token = req[r].token}
    \cup UNION {Holders(r, row.user, {"tokens", "deleted"}) :
                    row \in {row \in tokens : row.token = req[r].token}}

\* Whom r's next statement waits for.
BlockedBy(r) ==
    LET u == req[r].user
    IN  CASE At(r, "users")    -> Holders(r, u, {"updated", "deleted"})
          [] At(r, "parent")   -> Holders(r, u, {"updated", "deleted", "shared"})
          [] At(r, "member")   -> Holders(r, u, {"member", "deleted"})
          [] At(r, "profile")  -> IF req[r].dirty = {} THEN {} ELSE Holders(r, u, {"profile"})
          [] At(r, "children") -> Holders(r, u, {"member", "profile"})
          [] At(r, "insert")   -> TokenHolders(r) \cup Holders(r, u, {"deleted"})
          [] OTHER -> {}

Proceeds(r, statement) == At(r, statement) /\ BlockedBy(r) = {}

\* Requests each of which waits for another one of them.
Stuck(waiting) ==
    /\ waiting # {}
    /\ \A r \in waiting : req[r] # NoCall /\ BlockedBy(r) \cap waiting # {}

(***************************************************************************)
(* The edits of a profile                                                  *)
(***************************************************************************)

Admit(r) ==
    /\ req[r] = NoCall
    /\ calls < MaxCalls
    /\ calls' = calls + 1
    /\ UNCHANGED tables

\* What a client may ask for: of update_me any columns, where None means that one
\* is not mentioned; of update_user all of its own, where None means NULL; of
\* update_employer a company's name, or None to take it away; of register_company a
\* name.
Asked(endpoint) ==
    CASE endpoint = "update_me"       -> UNION {[given -> Value] : given \in SUBSET Field}
      [] endpoint = "update_user"     -> [AdminFields -> Value \cup {Null}]
      [] endpoint = "update_employer" -> [{CompanyField} -> Value \cup {Null}]
      [] endpoint = "register_company" -> [{CompanyField} -> Value]

\* The profile after the handler's assignments.
\* Faulty: None is assigned to what is not mentioned.
AssignedAll(given, old) ==
    [f \in Field |-> IF f \in DOMAIN given THEN given[f] ELSE Null]

\* Faulty: None is not assigned, update_user or not.
AssignedIfSet(given, old) ==
    [f \in Field |-> IF f \in DOMAIN given /\ given[f] # Null THEN given[f] ELSE old[f]]

Assigned(given, old) ==
    [f \in Field |-> IF f \in DOMAIN given THEN given[f] ELSE old[f]]

\* The columns the flush writes: those that have changed.
Dirty(old, new) == {f \in Field : old[f] # new[f]}

\* The statements of an edit: the UPDATE of users, which update_me always sends
\* (updated_at), the administrator's endpoints may, and update_employer sends before
\* it deletes the membership; a flush has company_members before user_profiles.
\* Faulty: update_employer writes the membership last.
MembershipLast(endpoint, access) ==
    LET rest == CASE endpoint = "update_employer"  -> <<"profile", "member", "commit">>
                  [] endpoint = "register_company" -> <<"member", "profile", "commit">>
                  [] OTHER -> <<"profile", "commit">>
    IN  IF access THEN <<"users">> \o rest ELSE rest

Flushes(endpoint, access) ==
    LET rest == IF endpoint \in Membership THEN <<"member", "profile", "commit">>
                ELSE <<"profile", "commit">>
    IN  IF access THEN <<"users">> \o rest ELSE rest

\* get_user_by_id, and the assignments.
EditProfile(r) ==
    /\ Admit(r)
    /\ \E u \in User, endpoint \in Edit, access \in BOOLEAN :
        /\ Alive(u)
        /\ endpoint = "update_me" => access
        /\ endpoint = "register_company" => ~access
        /\ \E given \in Asked(endpoint) :
            LET copy == Assigned(given, profile[u])
            IN  req' = [req EXCEPT ![r] =
                    [endpoint |-> endpoint, todo |-> Flushes(endpoint, access), user |-> u,
                     token |-> NoToken, given |-> given, copy |-> copy,
                     dirty |-> Dirty(profile[u], copy), held |-> {},
                     overtaken |-> {}]]

\* UPDATE users; when the row is gone, StaleDataError.
UpdateUsers(r) ==
    /\ Proceeds(r, "users")
    /\ IF Alive(req[r].user) THEN Sent(r, {"updated"}) ELSE Abort(r)

\* The DELETE and the INSERT of update_employer, or register_company's INSERT, which
\* refers to the account.  Finding another membership there is an error (Fail).
WriteMembership(r) ==
    /\ Proceeds(r, "member")
    /\ IF Alive(req[r].user)
       THEN Sent(r, IF req[r].given[CompanyField] = Null THEN {"member"}
                    ELSE {"member", "shared"})
       ELSE Abort(r)

\* UPDATE user_profiles, when a column has changed.
UpdateProfile(r) ==
    /\ Proceeds(r, "profile")
    /\ IF req[r].dirty = {} THEN Sent(r, {})
       ELSE IF Alive(req[r].user) THEN Sent(r, {"profile"}) ELSE Abort(r)

\* The profile with the columns r's transaction has written.
Written(r) ==
    [f \in Field |-> IF f \in req[r].dirty THEN req[r].copy[f]
                     ELSE profile[req[r].user][f]]

(***************************************************************************)
(* Push tokens and deletion                                                *)
(***************************************************************************)

\* A request that edits no column.
Plain(endpoint, todo, u, t) ==
    [endpoint |-> endpoint, todo |-> todo, user |-> u, token |-> t,
     given |-> <<>>, copy |-> profile[u], dirty |-> {}, held |-> {}, overtaken |-> {}]

RegisterToken(r) ==
    /\ Admit(r)
    /\ \E u \in User, t \in Token :
        /\ Alive(u)
        /\ req' = [req EXCEPT ![r] =
                Plain("fcm_token", <<"find", "insert", "commit">>, u, t)]

\* add_fcm_token: a token that is there is left as it is, whoever has it.
FindToken(r) ==
    /\ At(r, "find")
    /\ IF \E row \in tokens : row.token = req[r].token THEN Abort(r) ELSE Sent(r, {})

\* INSERT: IntegrityError for a token that is there by now, or a user who is not.
TokenTaken(r) == \E row \in tokens : row.token = req[r].token

InsertToken(r) ==
    /\ Proceeds(r, "insert")
    /\ IF TokenTaken(r) \/ ~Alive(req[r].user) THEN Abort(r)
       ELSE Sent(r, {"entry", "shared"})

DeleteUser(r) ==
    /\ Admit(r)
    /\ \E u \in User :
        /\ Alive(u)
        /\ req' = [req EXCEPT ![r] =
                Plain("delete_user", <<"children", "parent", "commit">>, u, NoToken)]

\* The ORM's cascade: DELETE of membership, tokens and profile as it loaded them.  Rows
\* that are gone are passed over.
DeleteChildren(r) ==
    /\ Proceeds(r, "children")
    /\ Sent(r, IF Alive(req[r].user) THEN {"member", "profile", "tokens"} ELSE {})

\* DELETE of the users row, with which the database deletes what refers to it.
DeleteParent(r) ==
    /\ Proceeds(r, "parent")
    /\ Sent(r, IF Alive(req[r].user) THEN {"deleted"} ELSE {})

(***************************************************************************)
(* The end of a request                                                    *)
(***************************************************************************)

\* ON DELETE CASCADE.
\* Faulty: only the tokens that the session has loaded go.
Uncascaded(u) == tokens

Cascaded(u) == {row \in tokens : row.user # u}

\* get_db after the handler has returned.
Commit(r) ==
    /\ At(r, "commit")
    /\ LET c == req[r]
       IN  /\ profile' = [profile EXCEPT ![c.user] =
                IF "deleted" \in c.held THEN NoProfile
                ELSE IF "profile" \in c.held THEN Written(r) ELSE @]
           /\ tokens' = IF "deleted" \in c.held THEN Cascaded(c.user)
                        ELSE IF "entry" \in c.held
                        THEN tokens \cup {[token |-> c.token, user |-> c.user]}
                        ELSE tokens
           /\ req' = [q \in Request |->
                IF q = r THEN NoCall
                ELSE IF req[q] = NoCall \/ req[q].user # c.user \/ "deleted" \in c.held
                THEN req[q]
                ELSE [req[q] EXCEPT !.overtaken = @ \cup
                        {f \in Field : "profile" \in c.held /\ Written(r)[f] # profile[c.user][f]}]]
    /\ UNCHANGED calls

\* PostgreSQL finds a deadlock and ends one of its requests; or anything else
\* fails between two steps.
Fail(r) == req[r] # NoCall /\ Abort(r)

HandlerStep(r) ==
    \/ EditProfile(r) \/ UpdateUsers(r) \/ WriteMembership(r) \/ UpdateProfile(r)
    \/ RegisterToken(r) \/ FindToken(r) \/ InsertToken(r)
    \/ DeleteUser(r) \/ DeleteChildren(r) \/ DeleteParent(r)
    \/ Commit(r) \/ Fail(r)

Next == \E r \in Request : HandlerStep(r)

Spec == Init /\ [][Next]_vars

(***************************************************************************)
(* Properties                                                              *)
(***************************************************************************)

\* The tables and the requests in flight have their shape; a request writes no
\* column it was not asked to change, and the rows it has locked are there.
TypeOK ==
    /\ profile \in [User -> Columns \cup {NoProfile}]
    /\ tokens \subseteq TokenRow
    /\ req \in [Request -> Call \cup {NoCall}]
    /\ calls \in 0..MaxCalls
    /\ \A r \in Request : req[r] # NoCall =>
        /\ req[r].dirty \subseteq DOMAIN req[r].given
        /\ req[r].held # {} => Alive(req[r].user)

\* Devices register while others register the same token and administrators
\* delete accounts: a push token has one row, of an account that exists, although
\* add_fcm_token looks before it inserts and the cascade of the session does not
\* see a token inserted after it loaded the account.
PushTokens ==
    /\ \A a, b \in tokens : a.token = b.token => a = b
    /\ \A row \in tokens : Alive(row.user)

\* Edits of one profile never wait for each other in a circle, whichever columns
\* they change and whether or not they change the users row too.  Only with a
\* deletion can they, which locks the profile before the account.
DeadlockNeedsDeletion ==
    \A waiting \in SUBSET Request :
        Stuck(waiting) => \E r \in waiting : req[r].endpoint = "delete_user"

\* A profile edited by its owner and an administrator at once keeps both edits:
\* a commit changes no column its request was not asked to change, although it
\* works on a copy of the whole row.
OtherColumnsStay ==
    [][\A u \in User, f \in Field :
        Alive(u) /\ profile'[u] # NoProfile /\ profile'[u][f] # profile[u][f] =>
            \E r \in Request :
                Commit(r) /\ req[r].user = u /\ f \in DOMAIN req[r].given]_vars

\* What an edit is asked to set is in the profile once it has committed, NULL
\* included, whatever other edits do between its read and its commit; but for a
\* column that already had the value asked for when it was read and that another
\* request has changed since: no statement carries it, and the other edit stays.
EditsTakeEffect ==
    [][\A r \in Request : Commit(r) /\ Alive(req[r].user) =>
        \A f \in DOMAIN req[r].given :
            \/ profile'[req[r].user][f] = req[r].given[f]
            \/ f \in req[r].overtaken /\ f \notin req[r].dirty]_vars

=============================================================================
