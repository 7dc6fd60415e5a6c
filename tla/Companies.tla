------------------------------ MODULE Companies ------------------------------
(***************************************************************************)
(* Companies and the employers who belong to them: POST /companies/register*)
(* by an employer, and the administrator endpoints that create, update and *)
(* delete companies and assign employers to them.                          *)
(*                                                                         *)
(* Everything is in PostgreSQL.  Each request is one READ COMMITTED        *)
(* transaction that looks, decides and writes in separate statements, so   *)
(* that what keeps the tables consistent are the unique index on           *)
(* companies.domain, the primary key company_members.user_id, the foreign  *)
(* key from members to companies, and the row locks they take.  A request  *)
(* that has written keeps its locks until get_db commits it or rolls it    *)
(* back.                                                                   *)
(*                                                                         *)
(* Employers' accounts are stable here (AdminAccess and Provisioning       *)
(* change them), and a company is its key and its domain.                  *)
(***************************************************************************)
EXTENDS Naturals, FiniteSets

CONSTANTS
    User,         \* employers
    Domain,       \* domains of company websites and of work e-mail addresses
    EmailDomain,  \* the domain of each employer's address
    Roles,        \* the roles administrators give, a subset of Role
    Request,      \* slots for requests in flight
    MaxCompanies, \* bound: how many companies are ever inserted
    MaxCalls,     \* bound: how many requests a behaviour admits
    NoUser,       \* the request concerns no employer
    NoDomain,     \* a company without a website
    NoCompany,    \* no company
    NoCall        \* the slot holds no request

Id == 1..MaxCompanies
Role == {"OWNER", "ADMIN", "RECRUITER"}
Company == [id: Id, domain: Domain \cup {NoDomain}]
Member == [user: User, company: Id, role: Role]

Endpoint == {"register", "create_company", "update_company", "delete_company",
             "update_employer"}
Step == {"membership", "domain", "insert", "join", "set_domain", "delete",
         "unassign", "waiting", "company", "set_role", "commit"}

\* What an open transaction has done: inserted a company, changed its domain,
\* deleted it; inserted a membership, deleted the old one, changed its role.
Write == {"founded", "moved", "deleted", "joined", "left", "promoted"}

(***************************************************************************)
(* A request in flight.  `old' is the company's domain as the session has  *)
(* loaded it; `eligible' says that the caller's address is verified and of *)
(* the domain asked for.                                                   *)
(***************************************************************************)
Call == [endpoint: Endpoint, step: Step, user: User \cup {NoUser},
         company: Id \cup {NoCompany}, domain: Domain \cup {NoDomain},
         old: Domain \cup {NoDomain}, role: Role, eligible: BOOLEAN,
         wrote: SUBSET Write]

ASSUME EmailAssumption == EmailDomain \in [User -> Domain]
ASSUME RolesAssumption == Roles \subseteq Role
ASSUME BoundsAssumption == MaxCompanies \in Nat /\ MaxCalls \in Nat
ASSUME AbsentAssumption == /\ NoUser \notin User /\ NoDomain \notin Domain
                           /\ NoCompany \notin Id /\ NoCall \notin Call

VARIABLES
    companies, \* committed rows of companies
    members,   \* committed rows of company_members
    req,       \* the requests in flight
    ids, calls \* how many companies and requests there have been

vars == <<companies, members, req, ids, calls>>
tables == <<companies, members>>

At(r, step) == req[r] # NoCall /\ req[r].step = step
GoTo(r, step) == req' = [req EXCEPT ![r].step = step]
Wrote(r, write, step) ==
    req' = [req EXCEPT ![r].step = step, ![r].wrote = @ \cup {write}]

Others(r) == {q \in Request \ {r} : req[q] # NoCall}
Ids == {k.id : k \in companies}

\* The request ends in an exception: rollback.
\* Faulty: the savepoint around the INSERT is taken for a commit.
AbortPartly(r) ==
    /\ companies' = IF "founded" \notin req[r].wrote THEN companies
                    ELSE companies \cup {[id |-> req[r].company, domain |-> req[r].domain]}
    /\ req' = [req EXCEPT ![r] = NoCall]
    /\ UNCHANGED <<members, ids, calls>>

Abort(r) ==
    /\ req' = [req EXCEPT ![r] = NoCall]
    /\ UNCHANGED <<tables, ids, calls>>

(***************************************************************************)
(* Constraints and locks                                                   *)
(***************************************************************************)

\* The unique index on companies.domain, for the row of company id.
\* Faulty: the column has none.
DomainUnindexed(d, id) == FALSE

DomainTaken(d, id) == \E k \in companies : k.domain = d /\ k.domain # NoDomain /\ k.id # id

\* A statement that puts a domain in the index waits for open transactions that
\* put it there or take it away.
DomainBusy(r, d) ==
    \E q \in Others(r) :
        \/ req[q].wrote \cap {"founded", "moved"} # {} /\ req[q].domain = d /\ d # NoDomain
        \/ /\ req[q].wrote \cap {"deleted", "moved"} # {}
           /\ \E k \in companies : k.id = req[q].company /\ k.domain = d /\ d # NoDomain

\* The row of a company is locked by whoever changes its domain or deletes it.
CompanyBusy(r, id) ==
    \E q \in Others(r) :
        req[q].company = id /\ req[q].wrote \cap {"moved", "deleted"} # {}

\* It is also held, shared, by those who insert a member of it (the foreign key).
\* Faulty: the table has no foreign key.
CompanyUnshared(r, id) == FALSE

CompanyShared(r, id) ==
    \E q \in Others(r) : req[q].company = id /\ "joined" \in req[q].wrote

\* q's transaction deletes the membership m; a deleted company takes its
\* memberships along.
\* Faulty: only a DELETE of the membership itself does.
RemovesOne(q, m) == "left" \in req[q].wrote /\ m.user = req[q].user

Removes(q, m) ==
    \/ "left" \in req[q].wrote /\ m.user = req[q].user
    \/ "deleted" \in req[q].wrote /\ m.company = req[q].company

\* u's committed membership is locked.
MemberBusy(r, u) ==
    \E q \in Others(r) :
        \/ "promoted" \in req[q].wrote /\ req[q].user = u
        \/ \E m \in members : m.user = u /\ Removes(q, m)

\* The primary key of company_members.
\* Faulty: the table has none.
MemberUnkeyed(r) == FALSE

MemberTaken(r) ==
    \E m \in members : m.user = req[r].user /\ ~Removes(r, m)

(***************************************************************************)
(* Requests                                                                *)
(***************************************************************************)

Init ==
    /\ companies = {} /\ members = {}
    /\ req = [r \in Request |-> NoCall]
    /\ ids = 0 /\ calls = 0

Admit(r, call) ==
    /\ req[r] = NoCall
    /\ calls < MaxCalls
    /\ calls' = calls + 1
    /\ req' = [req EXCEPT ![r] = call]
    /\ UNCHANGED <<tables, ids>>

\* POST /companies/register
RegisterCompany(r) ==
    \E u \in User, d \in Domain \cup {NoDomain}, verified \in BOOLEAN :
        Admit(r, [endpoint |-> "register", step |-> "membership", user |-> u,
                  company |-> NoCompany, domain |-> d, old |-> NoDomain,
                  role |-> "OWNER", eligible |-> verified /\ EmailDomain[u] = d,
                  wrote |-> {}])

\* A member gets the own company back.
FindMembership(r) ==
    /\ At(r, "membership")
    /\ \/ /\ \E m \in members : m.user = req[r].user
          /\ Abort(r)
       \/ /\ \A m \in members : m.user # req[r].user
          /\ GoTo(r, IF req[r].domain = NoDomain THEN "insert" ELSE "domain")
          /\ UNCHANGED <<tables, ids, calls>>

\* POST /admin/companies
CreateCompany(r) ==
    \E d \in Domain \cup {NoDomain} :
        Admit(r, [endpoint |-> "create_company",
                  step |-> IF d = NoDomain THEN "insert" ELSE "domain",
                  user |-> NoUser, company |-> NoCompany, domain |-> d,
                  old |-> NoDomain, role |-> "OWNER", eligible |-> FALSE, wrote |-> {}])

\* PUT /admin/companies/{id} with a website; the other fields are not kept here.
UpdateCompany(r) ==
    \E k \in companies, d \in Domain \cup {NoDomain} :
        Admit(r, [endpoint |-> "update_company",
                  step |-> IF d = NoDomain THEN "set_domain" ELSE "domain",
                  user |-> NoUser, company |-> k.id, domain |-> d,
                  old |-> k.domain, role |-> "OWNER", eligible |-> FALSE, wrote |-> {}])

\* The SELECT by domain.  A registration joins the company it finds, if the
\* caller may (403 otherwise); the administrator endpoints refuse.
FindDomain(r) ==
    /\ At(r, "domain")
    /\ LET c == req[r]
           found == {k \in companies : k.domain = c.domain /\ k.id # c.company}
       IN  \/ /\ found # {}
              /\ c.endpoint # "register" \/ ~c.eligible
              /\ Abort(r)
           \/ /\ c.endpoint = "register" /\ c.eligible
              /\ \E k \in found :
                    req' = [req EXCEPT ![r].step = "join", ![r].company = k.id,
                                       ![r].role = "RECRUITER"]
              /\ UNCHANGED <<tables, ids, calls>>
           \/ /\ found = {}
              /\ GoTo(r, IF c.endpoint = "update_company" THEN "set_domain" ELSE "insert")
              /\ UNCHANGED <<tables, ids, calls>>

\* The INSERT into companies, in a savepoint; a clash is a ValueError.
\* Faulty: the key is read before the INSERT has given it.
NewIdEarly == ids

NewId == ids + 1

InsertCompany(r) ==
    /\ At(r, "insert")
    /\ ~DomainBusy(r, req[r].domain)
    /\ \/ DomainTaken(req[r].domain, NoCompany) /\ Abort(r)
       \/ /\ ~DomainTaken(req[r].domain, NoCompany)
          /\ ids < MaxCompanies
          /\ ids' = ids + 1
          /\ req' = [req EXCEPT
                ![r].step = IF req[r].endpoint = "register" THEN "join" ELSE "commit",
                ![r].company = NewId, ![r].wrote = @ \cup {"founded"}]
          /\ UNCHANGED <<tables, calls>>

\* The INSERT into company_members, by register and by update_employer.  It
\* waits for open changes of the employer's membership and of the company; a
\* membership that is there by then, or a company that is gone, is an error.
Join(r) ==
    /\ At(r, "join")
    /\ LET c == req[r]
       IN  /\ ~MemberBusy(r, c.user) /\ ~CompanyBusy(r, c.company)
           /\ \A q \in Others(r) : ~("joined" \in req[q].wrote /\ req[q].user = c.user)
           /\ \/ /\ \/ MemberTaken(r)
                    \/ c.company \notin Ids /\ "founded" \notin c.wrote
                 /\ Abort(r)
              \/ /\ ~MemberTaken(r)
                 /\ c.company \in Ids \/ "founded" \in c.wrote
                 /\ Wrote(r, "joined", "commit")
                 /\ UNCHANGED <<tables, ids, calls>>

\* The UPDATE of a company.  A domain equal to the loaded one is not written; a
\* missing row is a StaleDataError, a clash an IntegrityError.
SetDomain(r) ==
    /\ At(r, "set_domain")
    /\ LET c == req[r]
       IN  \/ /\ c.domain = c.old
              /\ GoTo(r, "commit")
              /\ UNCHANGED <<tables, ids, calls>>
           \/ /\ c.domain # c.old
              /\ ~CompanyBusy(r, c.company) /\ ~CompanyShared(r, c.company)
              /\ ~DomainBusy(r, c.domain)
              /\ \/ /\ c.company \notin Ids \/ DomainTaken(c.domain, c.company)
                    /\ Abort(r)
                 \/ /\ c.company \in Ids /\ ~DomainTaken(c.domain, c.company)
                    /\ Wrote(r, "moved", "commit")
                    /\ UNCHANGED <<tables, ids, calls>>

\* DELETE /admin/companies/{id}, which refuses a company that has members.
DeleteCompany(r) ==
    \E k \in companies :
        /\ \A m \in members : m.company # k.id
        /\ Admit(r, [endpoint |-> "delete_company", step |-> "delete",
                     user |-> NoUser, company |-> k.id, domain |-> NoDomain,
                     old |-> k.domain, role |-> "OWNER", eligible |-> FALSE,
                     wrote |-> {}])

\* The DELETE waits for those who hold the row, or rows the cascade deletes.  A
\* company that is gone passes.
DeleteRow(r) ==
    /\ At(r, "delete")
    /\ LET id == req[r].company
       IN  /\ ~CompanyBusy(r, id) /\ ~CompanyShared(r, id)
           /\ \A m \in members : m.company = id => ~MemberBusy(r, m.user)
           /\ IF id \in Ids THEN Wrote(r, "deleted", "commit") ELSE GoTo(r, "commit")
    /\ UNCHANGED <<tables, ids, calls>>

(***************************************************************************)
(* PUT /admin/employers/{id}: a company, no company, or a role only         *)
(***************************************************************************)

UpdateEmployer(r) ==
    \E u \in User, id \in Id \cup {NoCompany}, role \in Roles,
       step \in {"unassign", "set_role"} :
        /\ step = "set_role" => id = NoCompany
        /\ Admit(r, [endpoint |-> "update_employer", step |-> step, user |-> u,
                     company |-> id, domain |-> NoDomain, old |-> NoDomain,
                     role |-> role, eligible |-> FALSE, wrote |-> {}])

AfterUnassign(c) == IF c.company = NoCompany THEN "commit" ELSE "company"

\* The DELETE of the membership meets a row that an open transaction has changed.
Wait(r) ==
    /\ At(r, "unassign")
    /\ MemberBusy(r, req[r].user)
    /\ GoTo(r, "waiting")
    /\ UNCHANGED <<tables, ids, calls>>

\* It deletes the committed row, if there is one.
Unassign(r) ==
    /\ At(r, "unassign") \/ At(r, "waiting")
    /\ ~MemberBusy(r, req[r].user)
    /\ IF \E m \in members : m.user = req[r].user
       THEN Wrote(r, "left", AfterUnassign(req[r]))
       ELSE GoTo(r, AfterUnassign(req[r]))
    /\ UNCHANGED <<tables, ids, calls>>

\* get_company finds none: LookupError, and the deletion rolls back.
\* Faulty: the answer is 404 and the transaction commits.
NotFoundCommits(r) == GoTo(r, "commit") /\ UNCHANGED <<tables, ids, calls>>

NotFound(r) == Abort(r)

LookupCompany(r) ==
    /\ At(r, "company")
    /\ \/ req[r].company \notin Ids /\ NotFound(r)
       \/ /\ req[r].company \in Ids
          /\ GoTo(r, "join")
          /\ UNCHANGED <<tables, ids, calls>>

\* The SELECT of the membership and its UPDATE; without one it is a LookupError,
\* and a role equal to the loaded one is not written.
SetRole(r) ==
    /\ At(r, "set_role")
    /\ LET own == {m \in members : m.user = req[r].user}
       IN  \/ own = {} /\ Abort(r)
           \/ /\ \E m \in own :
                    IF m.role = req[r].role THEN GoTo(r, "commit")
                    ELSE ~MemberBusy(r, m.user) /\ Wrote(r, "promoted", "commit")
              /\ UNCHANGED <<tables, ids, calls>>

(***************************************************************************)
(* The end of a request                                                    *)
(***************************************************************************)

\* The tables with what r's transaction has done.
Companies(r) ==
    LET c == req[r]
        kept == {k \in companies : ~("deleted" \in c.wrote /\ k.id = c.company)}
    IN  {IF "moved" \in c.wrote /\ k.id = c.company THEN [k EXCEPT !.domain = c.domain]
         ELSE k : k \in kept}
        \cup (IF "founded" \in c.wrote THEN {[id |-> c.company, domain |-> c.domain]}
              ELSE {})

Members(r) ==
    LET c == req[r]
        kept == {m \in members : ~Removes(r, m)}
    IN  {IF "promoted" \in c.wrote /\ m.user = c.user THEN [m EXCEPT !.role = c.role]
         ELSE m : m \in kept}
        \cup (IF "joined" \in c.wrote
              THEN {[user |-> c.user, company |-> c.company, role |-> c.role]} ELSE {})

\* r deletes the row that q's DELETE is waiting for: that statement finds nothing,
\* whatever r has inserted instead.
Misses(q, r) ==
    /\ At(q, "waiting")
    /\ \E m \in members : m.user = req[q].user /\ Removes(r, m)

\* get_db after the handler has returned (for update_employer, after the identity
\* is synchronised).
Commit(r) ==
    /\ At(r, "commit")
    /\ companies' = Companies(r)
    /\ members' = Members(r)
    /\ req' = [q \in Request |->
                IF q = r THEN NoCall
                ELSE IF Misses(q, r) THEN [req[q] EXCEPT !.step = AfterUnassign(req[q])]
                ELSE req[q]]
    /\ UNCHANGED <<ids, calls>>

\* Any statement or call may fail, a deadlock be broken, the process die.
Fail(r) == req[r] # NoCall /\ Abort(r)

HandlerStep(r) ==
    \/ RegisterCompany(r) \/ FindMembership(r) \/ FindDomain(r) \/ InsertCompany(r)
    \/ Join(r) \/ CreateCompany(r) \/ UpdateCompany(r) \/ SetDomain(r)
    \/ DeleteCompany(r) \/ DeleteRow(r)
    \/ UpdateEmployer(r) \/ Wait(r) \/ Unassign(r) \/ LookupCompany(r) \/ SetRole(r)
    \/ Commit(r) \/ Fail(r)

Next == \E r \in Request : HandlerStep(r)

Spec == Init /\ [][Next]_vars

(***************************************************************************)
(* Properties                                                              *)
(***************************************************************************)

\* Every table and every request in flight has its shape.
TypeOK ==
    /\ companies \subseteq Company
    /\ members \subseteq Member
    /\ req \in [Request -> Call \cup {NoCall}]
    /\ ids \in 0..MaxCompanies /\ calls \in 0..MaxCalls

\* Registrations, creations and updates of companies that each looked for the
\* domain before any of them wrote it: at most one company gets it, because the
\* index has the last word and makes them wait for each other.
UniqueDomains ==
    \A k, l \in companies : k.domain = l.domain /\ k.domain # NoDomain => k = l

\* An employer who registers twice at once, or is assigned by two
\* administrators, or both, belongs to one company.
OneCompanyPerEmployer == \A m, n \in members : m.user = n.user => m = n

\* Nobody is a member of a company that is gone, although the INSERT of a
\* membership and the DELETE of its company each saw the other's table before.
MembersOfExisting == \A m \in members : m.company \in Ids

\* r commits.
Commits(r) == At(r, "commit") /\ req'[r] = NoCall /\ tables' # tables

\* A registration that fails between its INSERTs leaves no company behind: the
\* companies that employers register appear together with their owner.
FoundedWithOwner ==
    [][\A r \in Request :
        (/\ req[r] # NoCall /\ req'[r] = NoCall
         /\ req[r].endpoint = "register"
         /\ \E k \in companies' : k.id = req[r].company /\ k.id \notin Ids)
        => [user |-> req[r].user, company |-> req[r].company, role |-> "OWNER"]
            \in members']_vars

\* Once an administrator's assignment has committed, the employer belongs to that
\* company and to no other, whatever other administrators and the employer did
\* meanwhile.  (An assignment to no company may meet a concurrent one and find
\* nothing to delete; it promises nothing.)
AssignmentInForce ==
    [][\A r \in Request :
        (/\ Commits(r)
         /\ req[r].endpoint = "update_employer"
         /\ req[r].company # NoCompany)
        => {m \in members' : m.user = req[r].user}
            = {[user |-> req[r].user, company |-> req[r].company, role |-> req[r].role]}]_vars

\* "Delete an empty company while protecting existing employer memberships":
\* no deletion of a company takes a committed membership along.
MembershipsProtected ==
    [][\A r \in Request :
        (Commits(r) /\ req[r].endpoint = "delete_company") => members \subseteq members']_vars

\* The tables as a directory: the domains of the rows with a key (one, if there
\* is one row), the companies and roles of the rows of an employer.
Site == [id \in Id |-> {k.domain : k \in {k \in companies : k.id = id}}]
Place == [u \in User |-> {[company |-> m.company, role |-> m.role] :
                            m \in {m \in members : m.user = u}}]

\* The handler has decided to delete a company without members, or to make the
\* caller a recruiter of the company with the domain of the caller's address.
Closing(c) == c.endpoint = "delete_company"
Joining(c) == c.endpoint = "register" /\ c.step \in {"join", "commit"} /\ "founded" \notin c.wrote

\* It has, and by now there are members, or the company has another domain.
Outrun(c) ==
    \/ Closing(c) /\ \E m \in members : m.company = c.company
    \/ Joining(c) /\ \E k \in companies : k.id = c.company /\ k.domain # EmailDomain[c.user]

Late == {r \in Request : req[r] # NoCall /\ Outrun(req[r])}

Peopled == {req[r].company : r \in {r \in Late : Closing(req[r])}}
Strayed == {<<req[r].user, req[r].company>> : r \in {r \in Late : Joining(req[r])}}

D == INSTANCE Directory WITH Key <- Id, MailDomain <- EmailDomain, site <- Site,
                             place <- Place, peopled <- Peopled, strayed <- Strayed

\* Overlapping requests, each of which looks, decides and writes in statements of
\* its own, add up to whole operations one after the other.  Every commit that
\* changes the tables is one that the committed tables allow at that moment, with
\* two exceptions, both of decisions that another commit has overtaken: a company
\* is deleted with the members it got meanwhile (company_service.py:225), and an
\* employer joins a company that got another domain meanwhile (line 136).  A
\* decision that was wrong when it was taken, or overtaken in any other way,
\* never shows.
OneOperationAtATime == D!Spec

\* A registration that has seen no membership and no company with the domain, or
\* one to join, comes true when it commits: the employer, who has none by then
\* either, owns a company new to the directory or joins one that is in it, of the
\* domain of the employer's address unless it got another one meanwhile.
RegistrationsComeTrue ==
    [][\A r \in Request :
        (Commits(r) /\ req[r].endpoint = "register")
        => \/ D!Found(req[r].user, req[r].company, req[r].domain)
           \/ D!Join(req[r].user, req[r].company)]_vars

=============================================================================
