------------------------------ MODULE Directory ------------------------------
(***************************************************************************)
(* What the company endpoints promise together: one directory of companies *)
(* and of who works for which, changed by one whole operation at a time.   *)
(* Each operation asks of the directory that it changes what its handler   *)
(* asks of the tables: that a domain is free, that a company is there, that*)
(* it is of the employer's domain, that nobody works for it.               *)
(*                                                                         *)
(* Two of these the code asks only once, earlier: that nobody works for a  *)
(* company to close, and that a company to join is of the employer's       *)
(* domain.  `peopled' and `strayed' say where the answer has become wrong  *)
(* since.  Close and Join go ahead there all the same, and only there; and *)
(* only an operation that changes the answer may add to the two.           *)
(***************************************************************************)
CONSTANTS
    Key,       \* companies
    User,      \* employers
    Domain,    \* domains of company websites
    MailDomain,\* the domain of each employer's address
    NoDomain,  \* a company without a website
    Role       \* roles in a company

VARIABLES
    site,      \* the domain of each company there is
    place,     \* the company and role of each employer who has one
    peopled,   \* companies about to be closed, for which somebody works after all
    strayed    \* employers about to join a company that is of another domain after all

Listed(id) == site[id] # {}
Free(d, id) == d = NoDomain \/ \A k \in Key \ {id} : d \notin site[k]
Empty(id) == \A u \in User : \A p \in place[u] : p.company # id
As(id, role) == {[company |-> id, role |-> role]}

Init ==
    /\ site = [id \in Key |-> {}]
    /\ place = [u \in User |-> {}]
    /\ peopled = {} /\ strayed = {}

\* The first who comes to id makes wrong that it is empty, a new domain d that it
\* has another.
Peopling(id) == {k \in {id} : Empty(k)}
Straying(id, d) == {u \in User : site[id] = {MailDomain[u]} /\ d # MailDomain[u]} \X {id}

\* Answers that an operation makes wrong; any number is no longer waited for.
Outruns(closings, joinings) ==
    /\ peopled' \subseteq peopled \cup closings
    /\ strayed' \subseteq strayed \cup joinings

Enlist(id, d) ==
    /\ ~Listed(id) /\ Free(d, id)
    /\ site' = [site EXCEPT ![id] = {d}]

\* POST /admin/companies
Create(id, d) == Enlist(id, d) /\ Outruns({}, {}) /\ UNCHANGED place

\* POST /companies/register, with the employer as owner of a new company.
Found(u, id, d) ==
    /\ Enlist(id, d)
    /\ place[u] = {}
    /\ place' = [place EXCEPT ![u] = As(id, "OWNER")]
    /\ Outruns({}, {})

\* POST /companies/register, joining one that is there and of the same domain, or
\* was when the employer asked.
Join(u, id) ==
    /\ Listed(id) /\ (site[id] = {MailDomain[u]} \/ <<u, id>> \in strayed)
    /\ place[u] = {}
    /\ place' = [place EXCEPT ![u] = As(id, "RECRUITER")]
    /\ Outruns(Peopling(id), {})
    /\ UNCHANGED site

\* PUT /admin/companies/{id}
Move(id, d) ==
    /\ Listed(id) /\ Free(d, id)
    /\ site' = [site EXCEPT ![id] = {d}]
    /\ Outruns({}, Straying(id, d))
    /\ UNCHANGED place

\* DELETE /admin/companies/{id}, of a company nobody works for, or nobody did when
\* the administrator asked; who does loses the place.
Close(id) ==
    /\ Listed(id) /\ (Empty(id) \/ id \in peopled)
    /\ site' = [site EXCEPT ![id] = {}]
    /\ place' = [u \in User |-> {p \in place[u] : p.company # id}]
    /\ Outruns({}, {})

\* PUT /admin/employers/{id}: a company in place of any other, none, or a role.
Assign(u, id, role) ==
    /\ Listed(id)
    /\ place' = [place EXCEPT ![u] = As(id, role)]
    /\ Outruns(Peopling(id), {})
    /\ UNCHANGED site

Dismiss(u) ==
    /\ place' = [place EXCEPT ![u] = {}]
    /\ Outruns({}, {})
    /\ UNCHANGED site

Promote(u, role) ==
    /\ \E p \in place[u] : place' = [place EXCEPT ![u] = As(p.company, role)]
    /\ Outruns({}, {})
    /\ UNCHANGED site

\* A request ends without an operation.
GiveUp == Outruns({}, {}) /\ UNCHANGED <<site, place>>

OfCompanies ==
    \E id \in Key, d \in Domain \cup {NoDomain} :
        \/ Create(id, d) \/ Move(id, d) \/ Close(id)
        \/ \E u \in User : Found(u, id, d)

OfEmployers ==
    \E u \in User :
        \/ \E id \in Key : Join(u, id)
        \/ \E id \in Key, role \in Role : Assign(u, id, role)
        \/ Dismiss(u)
        \/ \E role \in Role : Promote(u, role)

vars == <<site, place, peopled, strayed>>

Spec == Init /\ [][OfCompanies \/ OfEmployers \/ GiveUp]_vars

=============================================================================
