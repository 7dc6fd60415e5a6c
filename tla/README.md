# Verification of the Recruitzaa backend

TLA+ models of the auth service of Recruitzaa-BE (FastAPI, PostgreSQL, MongoDB, Firebase
Authentication, Redis, Kafka), TLC configurations that check them on small instances, and
TLAPS proofs, for every size of the system, of the safety properties those runs check.
Paths below are those of the repository.

## The system

One uvicorn worker runs every handler as a coroutine; each `await` lets other requests run. The
state is outside of the process, in stores that nothing changes together:

| Store | Holds | Changed by |
| --- | --- | --- |
| PostgreSQL | users, profiles, push tokens, companies, memberships | every handler, in one READ COMMITTED transaction per request |
| Firebase | identities, role claims, the disabled flag, token revocation | `firebase_service`, in a thread per call |
| MongoDB | candidate and employer profile documents | register, delete_user |
| Redis | a cached user per token, an index of an account's cached tokens | `get_current_user`, `_invalidate_auth_cache`, logout |
| Kafka | `user.registered` | register |

`get_db` commits **after** the handler has returned (FastAPI ends yield-dependencies then) and
rolls PostgreSQL back, and nothing else, when it raised. Everything hard about this code follows:

- two requests read the same rows before either commits (no `SELECT ... FOR UPDATE` anywhere);
- Firebase, MongoDB, Kafka and Redis are changed before the commit that may still fail;
- a row loaded twice in a session is the object loaded first (SQLAlchemy's identity map), and an
  UPDATE carries the columns that differ from it;
- Redis is optional: its errors are swallowed, it evicts (`allkeys-lru`), its keys expire;
- the process may die between any two calls.

### Components and what makes them correct

| Component | Operations | Correct when | Module |
| --- | --- | --- | --- |
| Administrator access (`routers/admin.py`, `admin_user_service.py`) | update user, roles, status, employer; delete user | an administrator remains; nobody locks themselves out; edits do not undo each other; Firebase and MongoDB follow the row | AdminAccess |
| Registration and provisioning (`routers/auth.py`, `user_service.py`, `routers/admin.py`) | register, create user, delete user | one account per person; all stores or none; a failed deletion can be repeated; the handlers add up to one registry | Provisioning, Registry (roles: AdminAccess) |
| Authentication and token cache (`shared/auth/dependencies.py`) | lookup, fill, invalidate, logout | access changes take effect; what escapes expires | AuthCache |
| Companies and membership (`company_service.py`) | register, create, update, delete company; assign employer | unique domains; one company per employer; no member of a company that is gone; overlapping requests add up to whole operations | Companies, Directory |
| Messaging (`shared/messaging`) | producer start and send, consumer start, loop, handler, auto-commit | one producer per process; events handed over in order and in the end; a death loses one at most | Messaging, Delivery |
| Own profile, push tokens (`routers/auth.py`, `user_service.py`) | update_me, register_fcm_token, against update_user, update_employer, register_company, delete_user | edits keep each other's columns and take effect; a token once, of a live account | Profiles (the cache effect: AuthCache) |
| Listings, pagination | list_users, list_companies, list_employers | a walk through the pages shows every row once, as far as the list stays | Listing |
| Schemas, serialisation | validation, camel case | - | the accepted values only |
| Migrations | constraints | - | the constraints only |
| Object storage, start-up, infrastructure | - | pure I/O | not modelled |

They interact through the stores only. register (Provisioning, AdminAccess), update_me and the
registration of a company (Companies) change rows the cache (AuthCache) holds; every administrator endpoint (AdminAccess) ends in the
invalidation (AuthCache); delete_user is in AdminAccess for what it does to access, in
Provisioning for what it does to the account, in Profiles for what it locks and cascades to, and
in AuthCache for the cached tokens. What register sends (Provisioning) goes through the producer
to consumers in other processes (Messaging); those are external to this repository, which holds
their base class.

## The modules

In all of them a request is a record in a slot, `NoCall` when the slot is free, with the step it
is about to take; an action is the code between two awaits that touches shared state; the last
step is `Commit`; `Fail` (`Raise` and `Break` in Provisioning) ends a request between any two of
its steps, which stands for every exception, a broken deadlock and the death of the process.
Operators marked *Faulty* are changed versions of the operator after them, used by nothing: put in
its place they are plausible bugs, and each makes a property fail.

### AdminAccess

`users`, `firebase`, `profiles` are the stores, keyed by account; `req` the requests. `snap` is
the row as the session holds it, `next` what the handler made of it, `written` that the UPDATE or
DELETE is in the open transaction (which then holds the row lock). `AfterLoad` ... `AfterWrite`
give each handler's order of work: update_user synchronises Firebase before the flush, the other
endpoints after it, delete_user removes document, identity and row in this order.
`Merged` is the commit: columns equal to the copy keep their committed value.
`Refused` is the CHECK constraint on the merged row. `LoadTarget` keeps the copy read at
authorization when administrators act on their own account.

History variables explain what the code does not guarantee: `contended` (another request worked
on the row), `torn` (an account whose stores such an overlap, or a failure half-way, may have
split; one later access update that runs alone takes it out again), `slipped` (a demotion slipped
past the count: two demotions between check and commit, a stale copy, or update_employer).

### AuthCache

`entry` and `index` are the Redis keys with their time to live, `row` the committed row as a
version number, `identity`, `issued` and `valid` Firebase. A lookup goes verify, read, SETEX,
SADD, EXPIRE; a change goes through Firebase and flush in the order of its endpoint, then
SMEMBERS, DEL, DEL, then the commit. `Tick` ages all keys. `RemoveEntry` is both eviction and
logout (which deletes every account's entries). `EditOwn` is register and update_me,
`RegisterCompany` the registration of a company, which changes the cached current_company: they
change what is cached and leave the entries. The former two wait for a lock of the account's row,
the last one, which shares it, for a deletion only. The history `escaped` names the tokens whose entry an
invalidation could not see, with `raced` for those still on their way; `Carrying` are those lookups
on their way whose row has changed since.

### Provisioning and Registry

`identities` (by address), `rows`, `profiles` and `announced` are the stores. `SignUp` is the
client's; `Register` ... `Emit` are register, `CreateUser` ... `Compensate` the administrator's
creation, `DeleteUser` ... `DeleteRow` the deletion. `pending` marks an open INSERT or DELETE, on
which other INSERTs wait (`Blocked`). `Raise` runs create_user's compensation, `Break` does not:
the commit runs after the handler. `abandoned`, `stranded` and `orphaned` name what no code can
undo: identities without a row, rows without an identity, documents and events without an account.

`Registry` is the abstract specification: the identity of each address and the accounts there are,
with the identities and keys there have been. It says in five operations what the handlers come to
in three stores: an identity is issued once and withdrawn once; an account opens under a new key,
for the identity of its address and for nobody who has an account; it closes after its identity
has gone. Its state is Provisioning's `identities`, `1..uids`, `rows`, `accounts` and `stranded`
(`doubtful`). That last one is the price of two stores: the token of a registration stays good
while a deletion removes the identity, and the account opens for an identity that is no more. What
the registry does not promise is that a withdrawn identity's account ever closes.

### Companies and Directory

`companies` and `members` are the tables as sets of rows, so that uniqueness has to be earned;
`wrote` is what a request's open transaction has done, from which follow the locks (`DomainBusy`,
`CompanyBusy`, `CompanyShared`, `MemberBusy`) and, at the commit, the tables (`Companies`,
`Members`). `Wait` and `Misses` are READ COMMITTED's re-evaluation: a DELETE that waited for a row
another transaction deleted finds nothing, whatever that transaction inserted instead. `DeleteRow`
takes the company's lock and those of the memberships it cascades to in one step, where PostgreSQL
takes them in two and may have to break a deadlock (`Fail`); what the model allows besides is that
others get at the company until the second.

`Directory` is the abstract specification: the domain of each company there is (`site`) and the
company and role of each employer who has one (`place`), changed by one whole operation at a time,
each with the conditions the handlers look up first: a free domain, a company that is there, of the
domain of the employer's address, an employer without one, a company to close that nobody works for.
`OneOperationAtATime` says that Companies implements it, with `Site` and `Place` read off the
committed tables: every commit that changes them is one operation, which the tables allow *at the
commit*, although handlers decide statements earlier, on tables that others have changed since.

Two decisions the code does not make again, and no lock or constraint makes for it: that a company
to delete has no members (`company_service.py:225`) and that one to join has the domain of the
address (`company_service.py:136`). Here the commit may come too late, and the refinement says so instead
of leaving the conditions out: `peopled` are the companies about to be closed that somebody has come
to work for, `strayed` the employers about to join a company that has gone to another domain. `Close`
and `Join` ask for their condition *or* for such an entry, and entries are added by nothing but the
operation that makes the decision wrong: a first employer coming to the company, a move to another domain.
In Companies they are no history but read off the requests in flight (`Closing`, `Joining`,
`Outrun`, `Late`), so that a handler that decided wrongly at the time (to delete a company with
members, to join one of another domain) would violate the refinement, and so would a decision
overtaken in any other way. `RegistrationsComeTrue` says which operation a registration is.
That an `Assign` replaces a membership unseen is what the code does; that no membership should be
taken along by a `Close` is `MembershipsProtected`, which fails.

### Messaging and Delivery

Two processes. In the service, `producer` is the global `_producer`, `req` the registrations in
`send_event`: `EnsureStarted` is the test and the assignment up to the await of `start()`,
`Started` its return or its exception (after which a producer that never started stays in place
until `RestartService`), `Send` the acknowledged or failed `send_and_wait`. In the consumer,
`position` is how many events the loop has fetched, `handling` the one its handler is at work on,
`committed` the offset of the group in Kafka; `AutoCommit` is aiokafka's timer, `LoopEnds` a
KafkaError, `Crash` the death of the process, `Start` the next one's start. `handed`, `finished`,
`spoiled` and `made` are history.

`Delivery` is the abstract specification: a log to which events are appended, and a set of
delivered positions that only grows by the next one. `DeliversInOrder` says that Messaging
implements it with `log <- topic` and `delivered <- handed`; a redelivery is a stuttering step.

### Profiles

A request has the statements it has yet to send (`todo`), the locks it holds (`held`), and for an
edit the columns it was given with their values, its copy of the profile and the columns in which the copy differs
from what was read (`dirty`): these are all the UPDATE carries, and none is sent when there are
none. `BlockedBy` is whom the next statement waits for, `Stuck` a circle of waiting requests,
which PostgreSQL breaks (`Fail`). `Flushes` is SQLAlchemy's order of a flush, parents before
children: the account, the membership (which update_employer and register_company write before
they set current_company), the profile; a deletion goes the other way (`DeleteChildren`,
`DeleteParent`). `Cascaded` is ON
DELETE CASCADE, for tokens inserted after the session loaded the account.

### Listing

`listed` is the set of committed rows that satisfy the filters, `created` their created_at, with
ties. `Enter` and `Leave` are the commits of any other request that change it. The client sends
`Count` and `Select` for a page and goes on while `HasNext` says so. `steady`, `entered`, `left`
and `late` record what happened during the walk.

## The runs

Passing runs:

| Run | Instance | States | Shows |
| --- | --- | --- | --- |
| admin_access | 2 accounts, 2 slots, 3 requests, all 6 handlers | 720,542 | access, stores and constraint under every overlap of two handlers |
| auth_cache | 1 account, 2 tokens, 2 lookups, 1 change, life of 2 ticks | 691,289 | the index covers what must be found; stale entries have a named cause and only fade |
| auth_cache_converges | 1 account, 2 tokens, 1 lookup, 2 changes | about 1,000,000 | stale entries disappear for good |
| provisioning | 2 addresses, 2 slots, 4 requests, 3 identities | 695,071 | one account per person; what compensation and retry can mend; documents and events without an account have a named cause; Registry is implemented |
| companies | 2 employers, 2 domains, 2 slots, 5 requests, 2 companies | 500,786 | index, keys and locks against every overlap of two handlers; Directory is implemented, with two named exceptions |
| messaging | 2 registrations at a time, 3 events, 2 deaths of the consumer, 1 restart of the service | 289,493 | one producer; one event lost per death at most; Delivery is implemented; everything is handled in the end |
| profiles | 2 accounts, 2 columns, 1 token, 3 slots, 3 requests | 975,729 | edits keep each other's columns and take effect; only a deletion deadlocks; no token is left over |
| listing | 5 rows, pages of 2, 2 values of created_at, 3 changes | 413,408 | a change costs the client one row at most, missed or repeated |

Runs that end in a counterexample, each against a sentence of the repository:

| Run | Sentence | What happens |
| --- | --- | --- |
| last_admin | `admin.py:102` "Prevent self-lockout and removal of the final active super administrator." | two administrators deactivate each other; both count two |
| register_roles | `rbac.py:22` "Roles only SUPER_ADMIN can grant." | register writes back a list read before SUPER_ADMIN was removed |
| auth_cache_stale | `admin.py:81` "Ensure role and status changes take effect before cached tokens expire." | a lookup stores the row it read before the commit; no fault needed |
| company_deleted | `company_service.py:224` "Delete an empty company while protecting existing employer memberships." | a membership commits between the test and the DELETE, which cascades |

Three more disagreements are visible in the models and have no run of their own. `README.md:17` speaks
of "self-lockout protection", but PUT /admin/employers/{id} on the own account is not guarded by
`_ensure_admin_invariants`: `CheckedNoSelfLockout` is therefore about the handlers that call it,
and the endpoint is one of the named causes in `AdminRemainsUnlessSlipped`. And `create_user` is not
idempotent under overlap, as its docstring says: of two registrations of one identity the second
INSERT fails (`Insert` in Provisioning), which is what `UniqueAccounts` rests on. And
`company_service.py:138` says "Your verified work email domain must match the existing company.": the
match is with the domain it had when `FindDomain` looked; an administrator may give it another one
before the membership is inserted (`UpdateCompany`, `SetDomain` and `Commit` between `FindDomain` and
`Join`), which is the exception `D!Join` makes of the pairs in `strayed`.

Bounds: two slots make every pair of overlapping requests; `MaxCalls` (3 to 5) lets others come
before or after them, so that state left by a finished request meets a new one. Two accounts let
an administrator act on another and on the own account; two tokens share an index and let a
revoked one be replaced; two ticks separate an entry from a younger one of the same index; three
identities let an address be used twice; two domains let a company move; three events let one be
lost, one repeated and one left for later; three slots in Profiles let two edits meet a deletion;
five rows in pages of two make two full pages and a last one that may fill up or vanish. Larger instances (four
requests, or three accounts, in AdminAccess; three slots in Companies; two changes and two lookups
in AuthCache) were run as well and gave the same answers. Each bound only ends behaviours, so the
runs switch off the deadlock check: after the last admitted request the model has nothing to do.
Symmetry is used for accounts, tokens, addresses and slots, never with liveness.

Fairness: in AuthCache only `WF_vars(Tick)`, time passes. Clients need not come back, requests may
hang for ever, Redis and Firebase may fail each time: convergence holds nevertheless. In Messaging
`WF_vars(Start)`, the consumer's process is brought up again after a death; `WF_vars(Handle)`, the
loop asks for the next event as soon as it may; `WF_vars(Handled)`, handlers return or raise. No
fairness of the producer, of auto-commit or of Kafka: `AnnouncementsHandled` is about events that
are in the topic, and excepts a loop that a KafkaError ended, because no code starts it again.

## The proofs

For all accounts, slots, grants and bounds (assumptions: accounts are a finite set; grants satisfy
what `UpdateUserRolesRequest` validates; registrations ask for self-service roles; the absent
values are no records):

- AdminAccessProofs: `TypeCorrect` (`Spec => []TypeOK`), `PrimaryRoleStays`, `SelfLockoutPrevented`,
  `EditsCommute`, `AdminSurvives`.
- `StoresFollow` (AdminAccessStores): `Spec => []StoresAgree`.
- MessagingProofs: `TypeCorrect`, `OneProducerMade`, `OneLostPerCrash`, and `ImplementsDelivery`: the
  refinement `Spec => DeliversInOrder`.
- ProfilesProofs: `TypeCorrect`, `PushTokensKept`, `OtherColumnsKept`, `EditsHold`, `NoCircleOfEdits`.
- CompaniesProofs: `TypeCorrect`, `DomainsAreUnique`, `MembershipsAreUnique`,
  `CompaniesOutliveMembers`, `FoundersOwn`, `AssignmentsHold`, `RegistrationsHold`, and
  `ImplementsDirectory`: the refinement `Spec => OneOperationAtATime`.
- ProvisioningProofs: `TypeCorrect`, `AccountsAreUnique`, `ProvisionsTogether`,
  `DeletionsAreRetriable`, `WritingsAreOfAccounts`, and `ImplementsRegistry`: the refinement
  `Spec => OneRegistry`.
- AuthCacheProofs: `TypeCorrect`, `IndexCoversEntries`, `OutdatedOnlyIfEscaped`, `OutdatedFade`.
- ListingProofs: `TypeCorrect`, `PromisesKept`, `RepeatsBounded`, `SkipsBounded`.

The argument for the administrator endpoints. None of these is inductive. `Shape` says which steps each endpoint goes through and
what its record holds there (a written request has a changed copy; a registration keeps primary
role and status). With it, the copy invariant says that a request's `next` is one of the
`Changes` of its `snap`, so that a role edit's status column equals the copy's and `Merged`
keeps the committed one: `EditsCommute`. The lock invariant says that at most one
request has written a row and that the row was checked when it did: nobody commits in
between, so the constraint's verdict holds at the commit: `PrimaryRoleStays`. Self-lockout is
judged on the very copy the commit writes from: `SelfLockoutPrevented`. `AdminSurvives` counts:
while `slipped` is false, all demotions past their check concern one account and another
active administrator exists, which needs cardinalities of finite sets. For `StoresFollow` the invariant
is about accounts outside `torn`: a request at work on one is alone there (or marked contended),
and what Firebase holds is what its stage of the handler has written, so that an
uncontended commit makes the stores agree and an abort before the first external
change leaves them so.

In Messaging the invariant is `Progress`: everything up to the loop's position, and up to what the
group has committed, has been handed to the handler; the position is not behind what is committed;
and at most one event is being handled, by a running loop. With it each `Handle` is either a
`Deliver` of the next event or a redelivery, which is a stutter, and each acknowledged `Send` a
`Publish`: `ImplementsDelivery`. What is lost lies below the point the next start resumes from;
only a death adds to it, at most the one event in `handling`, which the cardinalities turn into
`OneLostPerCrash`. `OneProducerMade` needs that none is made before one is assigned, and it is
assigned before `start()` is awaited.

In Profiles `Sound` joins the types to two facts: each request sends its statements in the order of
its endpoint (`Orderly`: what it holds follows from what it has yet to send), and no two hold one
lock (`Exclusive`). The locks that `Takes` found free are those `Continues` adds, so that a commit
meets nobody else's write: `Fresh` (a token about to be inserted is nobody's) gives
`PushTokensKept`, `Based` (a column that is not dirty has the value asked for, or was overtaken
since) gives `EditsHold`. In a circle without a deletion everybody waits for a holder of a row and
the holder waits at a later statement; after the last statement comes only the commit, which
waits for nobody: `NoCircleOfEdits`.

In Companies the tables are sets of rows, so that neither key is a matter of types. `Own` says what
a request's writes keep to: a founded company has a new key and a domain no committed company has,
a joined one exists, an inserted membership is the only one its transaction leaves. `Apart` says
that no two open transactions write one domain, one company or one employer's membership. Both
have to be in the invariant `Sound`: a statement earns them by the locks it met and the
constraints it passed (`Statement...`), other commits keep them, and at the own commit they are
what uniqueness and the foreign key need (`CommitSound`). `FoundersOwn` and `AssignmentsHold` add
that the steps of a request (`Shape`) let it commit with its membership inserted.

For `ImplementsDirectory`, `WrittenAtCommit` lists the nine sets of writes a request may commit with;
`CompaniesAfter` and `MembersAfter` say what each makes of the tables, and `Enlists`, `Moves`,
`Closes`, `Joins`, `Leaves` and `Promotes` turn that into an operation on `Site` and `Place`. Most
guards come from the invariant and not from what the handler has looked up: the domain is free by
`Own`, the company listed and the employer without one by `Own` too, and that a role change meets
one membership is `OneCompanyPerEmployer`. That a company to close is empty, and one to join of the
right domain, cannot come from there: a request in flight is either right about it by the committed
tables or in `Late`, by the definition of `Outrun`. What has to be shown instead is how one becomes
late. A request that decides is right when it does (`Decided`), and a step that leaves the tables
alone makes nobody late (`Quiet`): it is a `GiveUp`. A commit makes late (`CommitOutruns`) those
only whose answer the operation changes: a founded company has a key that no decision is about
(`Own`, `Apart`), an insertion makes `peopled` at most the company it is in, and that if it was
empty, a move makes `strayed` at most those whose domain the company had. A move, deletion or role
change whose row is gone would be a stutter of the tables (the locks rule it out, but the step does
not need that).

In Provisioning `Becomes` gives every step of a handler one form, so that the types and uniqueness
need one case for all of them and one for the commit. `Sound` says which steps an endpoint goes
through (`Shape`), that identities and keys were given out before they are used (`Known`), that an
inserted row clashes with no committed and no other inserted one (`Separate`), and that keys
suffice, each request without one being entitled to one (`Counted`, which needs cardinalities):
`AccountsAreUnique`. For the rest it takes what a deletion has removed from Firebase staying
removed (`Removed`), since no identity is given twice: a creation's identity is then there with
its row, its request or its excuse (`ProvisionsTogether`). That a deletion can be retried needs
two more: a request that may yet insert has its identity (`Identified`), and a deletion is about
the committed row of its identity, or both are gone (`Targeted`). For documents and events,
`Written` adds that a registration has written nothing of its row while it is at `profile`, and
that a deletion past that step left no document: `WritingsAreOfAccounts`.

For `ImplementsRegistry`, `RegistrySteps` sorts the handlers' steps by what they do to the registry.
Issuing needs that uids are counted up. A removal takes whatever addresses hold the request's uid;
that it is one address, and the one of the request, is a further invariant (`Addressed`), which the
opening of an account needs as well: with `Identified` the account's identity is that of its address
or stranded. `Separate` makes key, identity and address of an inserted row new; `Removed` lets a
deletion's commit close its account, and one that breaks off cast doubt on nothing but what has
gone. A deletion whose row has gone already is a stutter.

In AuthCache the types need a count (`Counted`: a version and the changes in flight stay within the
attempts), everything else one statement about each token and one about each lookup on its way. A
cached token that `escaped` does not excuse is `Kept`: it is as new as its row, the index has it or a
lookup is at its SADD, the index outlives it or a lookup is still at work on it, and an
invalidation past its SMEMBERS holds it among the keys it will delete. A lookup that stores
without being marked is `Coming` with the row as it is, while no invalidation has looked past it.
The last parts make the others inductive: the commit finds nothing unexcused in the cache, and
deleting the index takes nothing that is still needed. `IndexCoversEntries` and
`OutdatedOnlyIfEscaped` are parts of `Kept`; both hold for any number of changes in flight, the
runs have one. `OutdatedFade` is the safety part of `CacheConverges`: while the rows stay as they are,
no lookup comes to carry an outdated row (`AboutToStore`), a tick takes time to live from every outdated
answer, since none is kept for ever (`Kept`), and only a lookup that then carries one no more puts
another in. What TLC adds is that time passes.

In Listing the rows a client has been shown are compared with the list as it is now. `RestCount`
says that a list of finitely many rows has as many after its first *k* as it should, or none: the
places of the rows are a one-to-one numbering (`RankOrders`, `RankDiffers`), and the theorems about
cardinalities do the rest, without an induction over the list. `RestGrows` says what a change does to it: a
row that comes in or drops out moves at most one other past place *k*. So the invariants are counts:
`Repeating`, that the rows shown and still behind the last page, added to those shown twice, are
no more than those that came in; `Skipping`, that the rows of all the while that are before the end
of the last page and were not shown are no more than those that dropped out; `Covered`, that a walk
that ends has no row after its last page but the late ones; `Promising`, that behind a page that
announces another there is a row as long as nothing has dropped out. `EnterMoves`, `LeaveMoves`
and `SelectMoves` keep the first two.

Only model-checked: liveness (`CacheConverges`, `AnnouncementsHandled`), since the prover handles
neither fairness nor ENABLED; the variant of the former is proved. The properties of the four runs that end in a counterexample do not
hold. Everything else the runs check is proved.

## Not modelled

Names, websites, display, search patterns and logging; what update_me answers (its answer depends
on how far the refresh of a relationship refreshes the related object); `normalize_domain`, which is
string work (one leading `www.` is taken off, so `www.www.a.io` stays apart from `a.io`); the
connection pool: requests wait there for nothing but each other's ends, and a model would only
say that thirty slow ones stop the rest;
start-up; the SDK's initialisation; MinIO; generic cache helpers that nothing calls. The role set
ADMIN_EMAILS grants to a new account. `verify_id_token` is synchronous: it blocks the loop, so it
is one step. In AuthCache a profile-only edit counts as a change of the row; in Companies
accounts do not come and go.

## Plan

Written, in this order: AdminAccess and its proofs, AuthCache, Provisioning, Companies, Messaging with
Delivery, Profiles, Listing, then the proofs of each, Directory and Registry. Next:

1. An abstract specification for AdminAccess: edits of roles and status applied one at a time to the
   committed rows, which its overlapping edits of copies implement, but for register's, which may write
   an older list of roles back.
2. A run for the domain a registration joins by, against the sentence quoted above.
