---------------------------- MODULE Provisioning ----------------------------
(***************************************************************************)
(* How accounts come to be and go, across Firebase, PostgreSQL, MongoDB    *)
(* and Kafka: sign-up followed by POST /auth/register, POST /admin/users   *)
(* with its compensation, and DELETE /admin/users/{id}.                    *)
(*                                                                         *)
(* Nothing makes the four stores change together.  Each handler calls one  *)
(* after the other, and the PostgreSQL transaction commits after the       *)
(* handler has returned, when no exception handler of it runs any more.    *)
(* Firebase keeps one identity per e-mail address, PostgreSQL one row per  *)
(* identity and per address.                                               *)
(*                                                                         *)
(* Roles and status of accounts are AdminAccess' subject and left out.     *)
(***************************************************************************)
EXTENDS Naturals, FiniteSets

CONSTANTS
    Email,    \* e-mail addresses
    Request,  \* slots for requests in flight
    MaxUids,  \* bound: how many identities Firebase ever creates
    MaxCalls, \* bound: how many requests a behaviour admits
    NoUid,    \* Firebase has no identity for an address
    NoId,     \* the request has no row yet
    NoCall    \* the slot holds no request

Uid == 1..MaxUids
Id == 1..MaxCalls   \* primary keys: a request makes at most one row

Row == [id: Id, uid: Uid, email: Email]
Endpoint == {"register", "create_user", "delete_user"}
Step == {"lookup", "insert", "profile", "emit", "sync", "compensate",
         "identity", "delete", "commit"}

\* `pending': the open transaction has inserted, or deleted, the request's row.
Call == [endpoint: Endpoint, step: Step, email: Email, uid: Uid,
         id: Id \cup {NoId}, pending: BOOLEAN]

ASSUME BoundsAssumption == MaxUids \in Nat /\ MaxCalls \in Nat
ASSUME AbsentAssumption == NoUid \notin Uid /\ NoId \notin Id /\ NoCall \notin Call

VARIABLES
    identities,  \* Firebase: the identity of each address
    rows,        \* PostgreSQL: committed users
    profiles,    \* MongoDB: user ids with a document
    announced,   \* Kafka: user ids of the user.registered events
    req,         \* the requests in flight
    uids, calls, ids, \* how many identities, requests and keys there have been
    provisioned, \* history: identities an administrator created
    abandoned,   \* history: identities whose creation broke off where no code undoes it
    stranded,    \* history: identities removed under another request or a registered
                 \* person, or by a deletion that failed
    accounts,    \* history: user ids that have ever been committed
    orphaned     \* history: user ids a registration wrote of and did not commit, or
                 \* wrote of while a deletion removed them

registry == <<accounts, orphaned>>
vars == <<identities, rows, profiles, announced, req, uids, calls, ids,
          provisioned, abandoned, stranded, accounts, orphaned>>

At(r, step) == req[r] # NoCall /\ req[r].step = step
GoTo(r, step) == req' = [req EXCEPT ![r].step = step]
End(r) == req' = [req EXCEPT ![r] = NoCall]

Exists(uid) == \E e \in Email : identities[e] = uid
\* Firebase without the request's identity.
\* Faulty: the identity is found by its address.
WithoutEmail(c) == [identities EXCEPT ![c.email] = NoUid]

Without(c) ==
    [e \in Email |-> IF identities[e] = c.uid THEN NoUid ELSE identities[e]]

\* Another request of the same identity is in flight.
Shared(r) == \E q \in Request \ {r} : req[q] # NoCall /\ req[q].uid = req[r].uid

\* An administrator's creation is about to remove the identity of a person who has
\* registered with it meanwhile.
Overtaken(r) ==
    req[r].endpoint = "create_user" /\ \E row \in rows : row.uid = req[r].uid

\* r removes its identity.  History: others rely on it.
Remove(r) ==
    /\ identities' = Without(req[r])
    /\ stranded' = IF Shared(r) \/ Overtaken(r) THEN stranded \cup {req[r].uid}
                   ELSE stranded

\* Faulty: a row that no flush has given its key.
RowOfUnflushed(c) == [id |-> NoId, uid |-> c.uid, email |-> c.email]

RowOf(c) == [id |-> c.id, uid |-> c.uid, email |-> c.email]

\* The rows in the open transactions of other requests: inserted, or deleted
\* and still visible.
Pending(r) == {q \in Request \ {r} : req[q] # NoCall /\ req[q].pending}

\* users.firebase_uid and users.email are unique.
\* Faulty: the identity only.
ClashesOnUid(row, c) == row.uid = c.uid

Clashes(row, c) == row.uid = c.uid \/ row.email = c.email

Init ==
    /\ identities = [e \in Email |-> NoUid]
    /\ rows = {} /\ profiles = {} /\ announced = {}
    /\ req = [r \in Request |-> NoCall]
    /\ uids = 0 /\ calls = 0 /\ ids = 0
    /\ provisioned = {} /\ abandoned = {} /\ stranded = {}
    /\ accounts = {} /\ orphaned = {}

Admit(r) ==
    /\ req[r] = NoCall
    /\ calls < MaxCalls
    /\ calls' = calls + 1

\* A person signs up with Firebase, outside of this service.
SignUp(e) ==
    /\ identities[e] = NoUid
    /\ uids < MaxUids
    /\ uids' = uids + 1
    /\ identities' = [identities EXCEPT ![e] = uids + 1]
    /\ UNCHANGED <<rows, profiles, announced, req, calls, ids, provisioned,
                   abandoned, stranded, registry>>

(***************************************************************************)
(* POST /auth/register                                                     *)
(***************************************************************************)

\* verify_firebase_token
Register(r) ==
    /\ Admit(r)
    /\ \E e \in Email :
        /\ identities[e] # NoUid
        /\ req' = [req EXCEPT ![r] =
                    [endpoint |-> "register", step |-> "lookup", email |-> e,
                     uid |-> identities[e], id |-> NoId, pending |-> FALSE]]
    /\ UNCHANGED <<identities, rows, profiles, announced, uids, ids, provisioned,
                   abandoned, stranded, registry>>

\* user_service.create_user looks for the identity's row.
Lookup(r) ==
    /\ At(r, "lookup")
    /\ \/ \E row \in rows :
            /\ row.uid = req[r].uid
            /\ req' = [req EXCEPT ![r].step = "profile", ![r].id = row.id]
       \/ /\ \A row \in rows : row.uid # req[r].uid
          /\ GoTo(r, "insert")
    /\ UNCHANGED <<identities, rows, profiles, announced, uids, calls, ids,
                   provisioned, abandoned, stranded, registry>>

\* An exception inside the handler.  create_user deletes the identity it has
\* created; for the others the request ends, rolled back.
\* Faulty: nothing is compensated.
FailsPlainly(r) == End(r)

Fails(r) ==
    IF req[r].endpoint = "create_user" THEN GoTo(r, "compensate") ELSE End(r)

\* INSERT into users and user_profiles.  It waits for an open transaction that
\* has inserted or deleted a clashing row; a committed one is an IntegrityError.
Blocked(r, c) == \E q \in Pending(r) : Clashes(RowOf(req[q]), c)

Insert(r) ==
    /\ At(r, "insert")
    /\ ~Blocked(r, req[r])
    /\ \/ /\ \E row \in rows : Clashes(row, req[r])
          /\ Fails(r)
          /\ UNCHANGED ids
       \/ /\ \A row \in rows : ~Clashes(row, req[r])
          /\ ids' = ids + 1
          /\ req' = [req EXCEPT
                ![r].step = IF req[r].endpoint = "register" THEN "profile" ELSE "sync",
                ![r].id = ids + 1, ![r].pending = TRUE]
    /\ UNCHANGED <<identities, rows, profiles, announced, uids, calls,
                   provisioned, abandoned, stranded, registry>>

\* The account has been deleted since the registration found it, or a deletion has
\* removed its document already.
Vanishing(r) ==
    /\ ~req[r].pending
    /\ \/ \A row \in rows : row.id # req[r].id
       \/ \E q \in Request : /\ req[q] # NoCall
                            /\ req[q].endpoint = "delete_user"
                            /\ req[q].id = req[r].id
                            /\ req[q].step # "profile"

\* The upsert of an empty candidate profile; its failure is swallowed.
UpsertProfile(r) ==
    /\ At(r, "profile")
    /\ req[r].endpoint = "register"
    /\ profiles' \in {profiles, profiles \cup {req[r].id}}
    /\ orphaned' = IF Vanishing(r) THEN orphaned \cup {req[r].id} ELSE orphaned
    /\ GoTo(r, "emit")
    /\ UNCHANGED <<identities, rows, announced, uids, calls, ids, provisioned,
                   abandoned, stranded, accounts>>

\* send_event(USER_REGISTERED), for new and for returning accounts; its failure
\* is swallowed.
Emit(r) ==
    /\ At(r, "emit")
    /\ announced' \in {announced, announced \cup {req[r].id}}
    /\ GoTo(r, "commit")
    /\ UNCHANGED <<identities, rows, profiles, uids, calls, ids, provisioned,
                   abandoned, stranded, registry>>

(***************************************************************************)
(* POST /admin/users                                                       *)
(***************************************************************************)

\* create_firebase_user: 409 for an address that has an identity.  When the
\* call fails although Firebase has created the identity, no uid is known to
\* compensate.
CreateUser(r) ==
    /\ Admit(r)
    /\ \E e \in Email :
        \/ /\ identities[e] # NoUid
           /\ UNCHANGED <<identities, req, uids, provisioned, abandoned>>
        \/ /\ identities[e] = NoUid
           /\ uids < MaxUids
           /\ uids' = uids + 1
           /\ identities' = [identities EXCEPT ![e] = uids']
           /\ provisioned' = provisioned \cup {uids'}
           /\ \/ /\ req' = [req EXCEPT ![r] =
                        [endpoint |-> "create_user", step |-> "insert", email |-> e,
                         uid |-> uids', id |-> NoId, pending |-> FALSE]]
                 /\ UNCHANGED abandoned
              \/ /\ abandoned' = abandoned \cup {uids'}
                 /\ UNCHANGED req
    /\ UNCHANGED <<rows, profiles, announced, ids, stranded, registry>>

\* sync_firebase_access raises when the identity is gone.
Sync(r) ==
    /\ At(r, "sync")
    /\ IF Exists(req[r].uid) THEN GoTo(r, "commit") ELSE Fails(r)
    /\ UNCHANGED <<identities, rows, profiles, announced, uids, calls, ids,
                   provisioned, abandoned, stranded, registry>>

\* create_user's exception handler: the identity is deleted, or that fails too
\* and is logged; then the transaction rolls back.
Compensate(r) ==
    /\ At(r, "compensate")
    /\ \/ /\ Remove(r)
          /\ UNCHANGED abandoned
       \/ /\ abandoned' = abandoned \cup {req[r].uid}
          /\ UNCHANGED <<identities, stranded>>
    /\ End(r)
    /\ UNCHANGED <<rows, profiles, announced, uids, calls, ids, provisioned, registry>>

(***************************************************************************)
(* DELETE /admin/users/{id}                                                *)
(***************************************************************************)

\* _get_target_user
DeleteUser(r) ==
    /\ Admit(r)
    /\ \E row \in rows :
        req' = [req EXCEPT ![r] =
            [endpoint |-> "delete_user", step |-> "profile", email |-> row.email,
             uid |-> row.uid, id |-> row.id, pending |-> FALSE]]
    /\ UNCHANGED <<identities, rows, profiles, announced, uids, ids, provisioned,
                   abandoned, stranded, registry>>

\* The documents without the account's.
\* Faulty: it is left behind.
ProfilesKept(id) == profiles

ProfilesWithout(id) == profiles \ {id}

\* delete_mongo_profile
DeleteProfile(r) ==
    /\ At(r, "profile")
    /\ req[r].endpoint = "delete_user"
    /\ profiles' = ProfilesWithout(req[r].id)
    /\ GoTo(r, "identity")
    /\ UNCHANGED <<identities, rows, announced, uids, calls, ids, provisioned,
                   abandoned, stranded, registry>>

\* delete_firebase_user raises when the identity is gone.
\* Faulty: what Firebase raises is swallowed, as in the compensation.
DeleteIdentitySwallowing(r) ==
    /\ At(r, "identity")
    /\ \/ UNCHANGED <<identities, stranded>>
       \/ Exists(req[r].uid) /\ Remove(r)
    /\ GoTo(r, "delete")
    /\ UNCHANGED <<rows, profiles, announced, uids, calls, ids, provisioned,
                   abandoned, registry>>

DeleteIdentity(r) ==
    /\ At(r, "identity")
    /\ \/ ~Exists(req[r].uid) /\ Fails(r) /\ UNCHANGED <<identities, stranded>>
       \/ /\ Exists(req[r].uid)
          /\ Remove(r)
          /\ GoTo(r, "delete")
    /\ UNCHANGED <<rows, profiles, announced, uids, calls, ids, provisioned,
                   abandoned, registry>>

\* DELETE waits for another one of the row; when the row is gone it passes.
DeleteRow(r) ==
    /\ At(r, "delete")
    /\ \A q \in Pending(r) : req[q].id # req[r].id
    /\ req' = [req EXCEPT ![r].step = "commit", ![r].pending = TRUE]
    /\ UNCHANGED <<identities, rows, profiles, announced, uids, calls, ids,
                   provisioned, abandoned, stranded, registry>>

(***************************************************************************)
(* The end of a request                                                    *)
(***************************************************************************)

\* get_db after the handler has returned.
Commit(r) ==
    /\ At(r, "commit")
    /\ rows' = IF ~req[r].pending THEN rows
               ELSE IF req[r].endpoint = "delete_user" THEN rows \ {RowOf(req[r])}
               ELSE rows \cup {RowOf(req[r])}
    /\ accounts' = accounts \cup {row.id : row \in rows'}
    /\ End(r)
    /\ UNCHANGED <<identities, profiles, announced, uids, calls, ids, provisioned,
                   abandoned, stranded, orphaned>>

\* History: a deletion fails after the identity is gone, a registration after it
\* has written of its account.
Strand(r) ==
    LET late(endpoint, steps) == req[r].endpoint = endpoint /\ req[r].step \in steps
    IN  /\ stranded' = IF late("delete_user", {"delete", "commit"})
                       THEN stranded \cup {req[r].uid} ELSE stranded
        /\ orphaned' = IF late("register", {"emit", "commit"}) /\ req[r].pending
                       THEN orphaned \cup {req[r].id} ELSE orphaned
        /\ UNCHANGED accounts

\* A call inside the handler raises.
Raise(r) ==
    /\ req[r] # NoCall
    /\ req[r].step \notin {"compensate", "commit"}
    /\ Fails(r)
    /\ Strand(r)
    /\ UNCHANGED <<identities, rows, profiles, announced, uids, calls, ids,
                   provisioned, abandoned>>

\* The commit fails, or the process dies: the transaction rolls back and no
\* code of the handler runs any more.
Break(r) ==
    /\ req[r] # NoCall
    /\ abandoned' = IF req[r].endpoint = "create_user"
                    THEN abandoned \cup {req[r].uid} ELSE abandoned
    /\ Strand(r)
    /\ End(r)
    /\ UNCHANGED <<identities, rows, profiles, announced, uids, calls, ids, provisioned>>

HandlerStep(r) ==
    \/ Register(r) \/ Lookup(r) \/ Insert(r) \/ UpsertProfile(r) \/ Emit(r)
    \/ CreateUser(r) \/ Sync(r) \/ Compensate(r)
    \/ DeleteUser(r) \/ DeleteProfile(r) \/ DeleteIdentity(r) \/ DeleteRow(r)
    \/ Commit(r) \/ Raise(r) \/ Break(r)

Next == (\E e \in Email : SignUp(e)) \/ (\E r \in Request : HandlerStep(r))

Spec == Init /\ [][Next]_vars

(***************************************************************************)
(* Properties                                                              *)
(***************************************************************************)

\* Every store and every request in flight has its shape.
TypeOK ==
    /\ identities \in [Email -> Uid \cup {NoUid}]
    /\ rows \subseteq Row
    /\ profiles \subseteq Id /\ announced \subseteq Id
    /\ req \in [Request -> Call \cup {NoCall}]
    /\ uids \in 0..MaxUids /\ calls \in 0..MaxCalls /\ ids \in 0..calls
    /\ provisioned \subseteq 1..uids /\ abandoned \subseteq provisioned
    /\ stranded \subseteq 1..uids
    /\ accounts \subseteq 1..ids /\ orphaned \subseteq 1..ids
    /\ {row.id : row \in rows} \subseteq accounts

\* Registrations and administrators that create the same person at the same time
\* end up with one account: no two rows share an identity or an address.
UniqueAccounts ==
    \A a, b \in rows : a.uid = b.uid \/ a.email = b.email => a = b

\* An administrator's creation takes effect in Firebase and PostgreSQL or in
\* neither: an identity it left behind without a row is one no code of the
\* handler could take back, because the commit or the compensation failed or the
\* process died.
ProvisionedTogether ==
    \A uid \in provisioned :
        Exists(uid) => \/ \E row \in rows : row.uid = uid
                       \/ uid \in abandoned
                       \/ \E r \in Request : /\ req[r] # NoCall
                                            /\ req[r].endpoint = "create_user"
                                            /\ req[r].uid = uid

\* A deletion that failed can be asked again: an account nobody deletes has the
\* identity without which delete_user raises before it reaches the row, unless
\* the identity was removed while another request of the account was in flight,
\* or by a deletion that failed afterwards.  Those rows no retry ever deletes.
DeletionCanBeRetried ==
    \A row \in rows :
        \/ Exists(row.uid)
        \/ row.uid \in stranded
        \/ \E r \in Request : /\ req[r] # NoCall
                            /\ req[r].uid = row.uid
                            /\ req[r].endpoint = "delete_user"

\* The profile documents and the user.registered events, which register writes
\* before its commit, are about accounts: a document belongs to one that exists,
\* an event to one that has existed, unless the registration failed after it wrote
\* them, or wrote them for an account that was being deleted.
WrittenOfAccounts ==
    LET registering == {req[r].id : r \in {r \in Request : /\ req[r] # NoCall
                                                          /\ req[r].endpoint = "register"
                                                          /\ req[r].pending}}
    IN  /\ profiles \subseteq {row.id : row \in rows} \cup registering \cup orphaned
        /\ announced \subseteq accounts \cup registering \cup orphaned

\* The handlers add up to the registry of identities and accounts, however they
\* overlap and break off: keys and identities are never used again, an account opens
\* for the identity of its address and for nobody who has one, and a deletion closes
\* it after the identity has gone and never before.
R == INSTANCE Registry WITH
        Address <- Email, Identity <- Uid, Account <- Row, NoIdentity <- NoUid,
        identity <- identities, issued <- 1..uids, open <- rows, used <- accounts,
        doubtful <- stranded
OneRegistry == R!Spec

=============================================================================
