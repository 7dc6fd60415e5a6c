---------------------------- MODULE CompaniesProofs ----------------------------
(***************************************************************************)
(* Proofs about Companies, for any employers, domains, companies and       *)
(* requests: its types, and what the unique index, the primary key, the    *)
(* foreign key and the locks make of handlers that look before they write, *)
(* which is to add up to the operations of Directory.                      *)
(***************************************************************************)
EXTENDS Companies, TLAPS

(***************************************************************************)
(* The invariant                                                           *)
(***************************************************************************)

\* Which steps a request goes through, and what it has written when.
Shape(c) ==
    /\ c.endpoint = "register" =>
        /\ c.user \in User
        /\ c.step \in {"membership", "domain", "insert", "join", "commit"}
        /\ c.wrote \subseteq {"founded", "joined"}
        /\ c.step \in {"membership", "domain", "insert"} => c.wrote = {} /\ c.role = "OWNER"
        /\ c.step \in {"join", "commit"} => c.company \in Id
        /\ "joined" \in c.wrote <=> c.step = "commit"
        /\ "founded" \in c.wrote => c.role = "OWNER"
        /\ c.step \in {"join", "commit"} /\ "founded" \notin c.wrote => c.role = "RECRUITER"
        /\ c.eligible => EmailDomain[c.user] = c.domain
    /\ c.endpoint = "create_company" =>
        /\ c.step \in {"domain", "insert", "commit"}
        /\ c.wrote \subseteq {"founded"}
        /\ c.step # "commit" => c.wrote = {}
        /\ c.wrote # {} => c.company \in Id
    /\ c.endpoint = "update_company" =>
        /\ c.company \in Id
        /\ c.step \in {"domain", "set_domain", "commit"}
        /\ c.wrote \subseteq {"moved"}
        /\ c.step # "commit" => c.wrote = {}
    /\ c.endpoint = "delete_company" =>
        /\ c.company \in Id
        /\ c.step \in {"delete", "commit"}
        /\ c.wrote \subseteq {"deleted"}
        /\ c.step # "commit" => c.wrote = {}
    /\ c.endpoint = "update_employer" =>
        /\ c.user \in User
        /\ c.step \in {"unassign", "waiting", "company", "join", "set_role", "commit"}
        /\ c.wrote \subseteq {"left", "joined", "promoted"}
        /\ c.step \in {"unassign", "waiting", "set_role"} => c.wrote = {}
        /\ c.step \in {"company", "join"} => c.wrote \subseteq {"left"} /\ c.company \in Id
        /\ c.step = "set_role" => c.company = NoCompany
        /\ c.step = "commit" /\ c.company # NoCompany => "joined" \in c.wrote
        /\ "joined" \in c.wrote => c.company \in Id /\ c.step = "commit"
        /\ "promoted" \in c.wrote => c.wrote = {"promoted"}

Shapes == \A r \in Request : req[r] # NoCall => Shape(req[r])

\* Requests that have decided what becomes of a company that was there.
Decided(c) == Closing(c) \/ Joining(c)

\* What r has written, against the committed tables.
Own(c) ==
    /\ "founded" \in c.wrote => c.company \notin Ids /\ c.company <= ids
    /\ "joined" \in c.wrote /\ "founded" \notin c.wrote => c.company \in Ids
    /\ c.wrote \cap {"founded", "moved"} # {} /\ c.domain # NoDomain =>
        \A k \in companies : k.domain = c.domain => k.id = c.company
    /\ "joined" \in c.wrote =>
        \A m \in members : m.user = c.user => "left" \in c.wrote
    /\ Decided(c) => c.company <= ids

\* What two requests have written, against each other.
Apart(c, d) ==
    /\ (/\ c.wrote \cap {"founded", "moved"} # {} /\ d.wrote \cap {"founded", "moved"} # {}
        /\ c.domain = d.domain)
        => c.domain = NoDomain
    /\ c.wrote \cap {"moved", "deleted"} # {} /\ d.wrote \cap {"moved", "deleted", "joined"} # {}
        => c.company # d.company
    /\ "joined" \in c.wrote /\ "joined" \in d.wrote => c.user # d.user
    /\ "founded" \in c.wrote /\ "founded" \in d.wrote => c.company # d.company
    /\ Decided(c) /\ "founded" \in d.wrote => c.company # d.company

Transactions ==
    /\ \A r \in Request : req[r] # NoCall => Own(req[r])
    /\ \A r, q \in Request : r # q /\ req[r] # NoCall /\ req[q] # NoCall =>
        Apart(req[r], req[q])

\* The primary key of companies.
Keys == \A k \in companies : k.id <= ids /\ \A l \in companies : k.id = l.id => k = l

Sound ==
    /\ TypeOK /\ Shapes /\ Transactions
    /\ Keys /\ UniqueDomains /\ OneCompanyPerEmployer /\ MembersOfExisting

(***************************************************************************)
(* What a step does                                                        *)
(***************************************************************************)

\* r's request becomes c: it has written no more than before, or c's write has met
\* no lock and no constraint.
Allowed(r, c) ==
    \/ c.wrote = {} /\ ids' = ids
    \/ /\ c.wrote \in {req[r].wrote, req[r].wrote \cup {"left"}, req[r].wrote \cup {"promoted"}}
       /\ req[r] # NoCall /\ "joined" \notin req[r].wrote
       /\ c.company = req[r].company /\ c.domain = req[r].domain /\ ids' = ids
    \/ /\ c.wrote = {"founded"} /\ c.company = ids + 1 /\ ids' = ids + 1
       /\ ~DomainBusy(r, c.domain) /\ ~DomainTaken(c.domain, NoCompany)
    \/ /\ req[r] # NoCall /\ c.wrote = req[r].wrote \cup {"joined"}
       /\ c.user = req[r].user /\ c.company = req[r].company /\ c.domain = req[r].domain
       /\ c.wrote \cap {"moved", "deleted"} = {}
       /\ ~CompanyBusy(r, c.company) /\ ids' = ids
       /\ \A q \in Others(r) : ~("joined" \in req[q].wrote /\ req[q].user = c.user)
       /\ \A m \in members : m.user = c.user => "left" \in c.wrote
       /\ c.company \in Ids \/ "founded" \in c.wrote
    \/ /\ c.wrote = {"moved"} /\ ids' = ids
       /\ ~CompanyBusy(r, c.company) /\ ~CompanyShared(r, c.company)
       /\ ~DomainBusy(r, c.domain) /\ ~DomainTaken(c.domain, c.company)
    \/ /\ c.wrote = {"deleted"} /\ ids' = ids
       /\ ~CompanyBusy(r, c.company) /\ ~CompanyShared(r, c.company)

\* What c has decided the tables bear out, unless r had decided it before.
Keeps(r, c) ==
    Decided(c) =>
        \/ c.company \in Ids /\ ~Outrun(c)
        \/ /\ req[r] # NoCall /\ c.company = req[r].company /\ c.user = req[r].user
           /\ Closing(c) => Closing(req[r])
           /\ Joining(c) => Joining(req[r])

Becomes(r, c) ==
    /\ req' = [req EXCEPT ![r] = c]
    /\ UNCHANGED tables
    /\ ids' \in 0..MaxCompanies /\ calls' \in 0..MaxCalls
    /\ Shape(c) /\ Allowed(r, c) /\ Keeps(r, c)

LEMMA AdmitBecomes ==
    ASSUME TypeOK, NEW r \in Request, NEW c \in Call, Shape(c), c.wrote = {}, Keeps(r, c), Admit(r, c)
    PROVE  Becomes(r, c)
BY BoundsAssumption DEF TypeOK, Becomes, Allowed, Admit, tables

LEMMA Admitting ==
    ASSUME TypeOK, NEW r \in Request,
           RegisterCompany(r) \/ CreateCompany(r) \/ UpdateCompany(r)
            \/ DeleteCompany(r) \/ UpdateEmployer(r)
    PROVE  \E c \in Call : Becomes(r, c)
<1> USE EmailAssumption, RolesAssumption DEF TypeOK
<1>1. CASE RegisterCompany(r)
    <2>1. PICK u \in User, d \in Domain \cup {NoDomain}, verified \in BOOLEAN :
            Admit(r, [endpoint |-> "register", step |-> "membership", user |-> u,
                  company |-> NoCompany, domain |-> d, old |-> NoDomain,
                  role |-> "OWNER", eligible |-> verified /\ EmailDomain[u] = d,
                  wrote |-> {}])
        BY <1>1 DEF RegisterCompany
    <2> DEFINE c == [endpoint |-> "register", step |-> "membership", user |-> u,
                  company |-> NoCompany, domain |-> d, old |-> NoDomain,
                  role |-> "OWNER", eligible |-> verified /\ EmailDomain[u] = d,
                  wrote |-> {}]
    <2>2. c.eligible \in BOOLEAN
        BY Zenon
    <2>3. c \in Call
        BY <2>2 DEF Call, Endpoint, Step, Role
    <2>4. Shape(c) /\ c.wrote = {} /\ Keeps(r, c)
        BY DEF Shape, Keeps, Decided, Closing, Joining
    <2>5. Admit(r, c)
        BY <2>1
    <2> HIDE DEF c
    <2> QED BY <2>3, <2>4, <2>5, AdmitBecomes DEF TypeOK
<1>2. CASE CreateCompany(r)
    <2>1. PICK d \in Domain \cup {NoDomain} :
            Admit(r, [endpoint |-> "create_company",
                  step |-> IF d = NoDomain THEN "insert" ELSE "domain",
                  user |-> NoUser, company |-> NoCompany, domain |-> d,
                  old |-> NoDomain, role |-> "OWNER", eligible |-> FALSE, wrote |-> {}])
        BY <1>2 DEF CreateCompany
    <2> DEFINE c == [endpoint |-> "create_company",
                  step |-> IF d = NoDomain THEN "insert" ELSE "domain",
                  user |-> NoUser, company |-> NoCompany, domain |-> d,
                  old |-> NoDomain, role |-> "OWNER", eligible |-> FALSE, wrote |-> {}]
    <2>2. c \in Call /\ Shape(c) /\ c.wrote = {} /\ Keeps(r, c)
        BY DEF Call, Endpoint, Step, Role, Shape, Keeps, Decided, Closing, Joining
    <2>5. Admit(r, c)
        BY <2>1
    <2> HIDE DEF c
    <2> QED BY <2>2, <2>5, AdmitBecomes DEF TypeOK
<1>3. CASE UpdateCompany(r)
    <2>1. PICK k \in companies, d \in Domain \cup {NoDomain} :
            Admit(r, [endpoint |-> "update_company",
                  step |-> IF d = NoDomain THEN "set_domain" ELSE "domain",
                  user |-> NoUser, company |-> k.id, domain |-> d,
                  old |-> k.domain, role |-> "OWNER", eligible |-> FALSE, wrote |-> {}])
        BY <1>3 DEF UpdateCompany
    <2> DEFINE c == [endpoint |-> "update_company",
                  step |-> IF d = NoDomain THEN "set_domain" ELSE "domain",
                  user |-> NoUser, company |-> k.id, domain |-> d,
                  old |-> k.domain, role |-> "OWNER", eligible |-> FALSE, wrote |-> {}]
    <2>2. k.id \in Id /\ k.domain \in Domain \cup {NoDomain}
        BY DEF Company
    <2>3. c \in Call /\ Shape(c) /\ c.wrote = {} /\ Keeps(r, c)
        BY <2>2 DEF Call, Endpoint, Step, Role, Shape, Keeps, Decided, Closing, Joining
    <2>5. Admit(r, c)
        BY <2>1
    <2> HIDE DEF c
    <2> QED BY <2>3, <2>5, AdmitBecomes DEF TypeOK
<1>4. CASE DeleteCompany(r)
    <2>1. PICK k \in companies :
            /\ \A m \in members : m.company # k.id
            /\ Admit(r, [endpoint |-> "delete_company", step |-> "delete",
                     user |-> NoUser, company |-> k.id, domain |-> NoDomain,
                     old |-> k.domain, role |-> "OWNER", eligible |-> FALSE,
                     wrote |-> {}])
        BY <1>4 DEF DeleteCompany
    <2> DEFINE c == [endpoint |-> "delete_company", step |-> "delete",
                     user |-> NoUser, company |-> k.id, domain |-> NoDomain,
                     old |-> k.domain, role |-> "OWNER", eligible |-> FALSE,
                     wrote |-> {}]
    <2>2. k.id \in Id /\ k.domain \in Domain \cup {NoDomain}
        BY DEF Company
    <2>3. c \in Call /\ Shape(c) /\ c.wrote = {}
        BY <2>2 DEF Call, Endpoint, Step, Role, Shape
    <2>4. Keeps(r, c)
        BY <2>1 DEF Keeps, Outrun, Joining, Ids
    <2>5. Admit(r, c)
        BY <2>1
    <2> HIDE DEF c
    <2> QED BY <2>3, <2>4, <2>5, AdmitBecomes DEF TypeOK
<1>5. CASE UpdateEmployer(r)
    <2>1. PICK u \in User, id \in Id \cup {NoCompany}, role \in Roles,
               step \in {"unassign", "set_role"} :
            /\ step = "set_role" => id = NoCompany
            /\ Admit(r, [endpoint |-> "update_employer", step |-> step, user |-> u,
                     company |-> id, domain |-> NoDomain, old |-> NoDomain,
                     role |-> role, eligible |-> FALSE, wrote |-> {}])
        BY <1>5 DEF UpdateEmployer
    <2> DEFINE c == [endpoint |-> "update_employer", step |-> step, user |-> u,
                     company |-> id, domain |-> NoDomain, old |-> NoDomain,
                     role |-> role, eligible |-> FALSE, wrote |-> {}]
    <2>2. c \in Call /\ Shape(c) /\ c.wrote = {} /\ Keeps(r, c)
        BY <2>1 DEF Call, Endpoint, Step, Role, Shape, Keeps, Decided, Closing, Joining
    <2>5. Admit(r, c)
        BY <2>1
    <2> HIDE DEF c
    <2> QED BY <2>2, <2>5, AdmitBecomes DEF TypeOK
<1> QED BY <1>1, <1>2, <1>3, <1>4, <1>5

LEMMA GoToBecomes ==
    ASSUME TypeOK, NEW r \in Request, req[r] # NoCall, NEW step \in Step,
           GoTo(r, step), UNCHANGED <<tables, ids, calls>>,
           Shape([req[r] EXCEPT !.step = step]), "joined" \notin req[r].wrote,
           req[r].endpoint = "register" => step \in {"insert", "domain"}
    PROVE  \E c \in Call : Becomes(r, c)
<1> DEFINE c == [req[r] EXCEPT !.step = step]
<1>1. c \in Call
    BY DEF TypeOK, Call
<1>2. req' = [req EXCEPT ![r] = c]
    BY DEF GoTo
<1>3. /\ c.wrote = req[r].wrote /\ c.company = req[r].company
      /\ c.domain = req[r].domain /\ c.user = req[r].user
      /\ c.endpoint = req[r].endpoint /\ c.step = step
    BY DEF TypeOK, Call
<1> HIDE DEF c
<1>4. Allowed(r, c) /\ Keeps(r, c)
    BY <1>3 DEF Allowed, Keeps, Decided, Closing, Joining
<1> QED BY <1>1, <1>2, <1>4 DEF Becomes, TypeOK, c

LEMMA WroteBecomes ==
    ASSUME TypeOK, NEW r \in Request, req[r] # NoCall, NEW write \in Write, NEW step \in Step,
           Wrote(r, write, step), UNCHANGED <<tables, ids, calls>>,
           Shape([req[r] EXCEPT !.step = step, !.wrote = @ \cup {write}]),
           req[r].endpoint = "register" => req[r].step = "join",
           Allowed(r, [req[r] EXCEPT !.step = step, !.wrote = @ \cup {write}])
    PROVE  \E c \in Call : Becomes(r, c)
<1> DEFINE c == [req[r] EXCEPT !.step = step, !.wrote = @ \cup {write}]
<1>1. c \in Call
    BY DEF TypeOK, Call
<1>2. req' = [req EXCEPT ![r] = c]
    BY DEF Wrote
<1>3. /\ c.wrote = req[r].wrote \cup {write} /\ c.company = req[r].company
      /\ c.user = req[r].user /\ c.endpoint = req[r].endpoint
    BY DEF TypeOK, Call
<1> HIDE DEF c
<1>4. Keeps(r, c)
    BY <1>3 DEF Keeps, Decided, Closing, Joining
<1> QED BY <1>1, <1>2, <1>4 DEF Becomes, TypeOK, c

\* Steps of the requests that look up or insert a company.
LEMMA Looking ==
    ASSUME TypeOK, Shapes, Keys, NEW r \in Request, ~Abort(r),
           FindMembership(r) \/ FindDomain(r) \/ InsertCompany(r) \/ LookupCompany(r)
    PROVE  \E c \in Call : Becomes(r, c)
<1>1. req[r] # NoCall
    BY DEF FindMembership, FindDomain, InsertCompany, LookupCompany, At
<1>2. req[r] \in Call /\ Shape(req[r])
    BY <1>1 DEF TypeOK, Shapes
<1>3. CASE FindMembership(r)
    <2>1. PICK step \in {"insert", "domain"} :
            GoTo(r, step) /\ UNCHANGED <<tables, ids, calls>>
        BY <1>3, Zenon DEF FindMembership
    <2>2. req[r].endpoint = "register" /\ req[r].wrote = {} /\ req[r].step = "membership"
        BY <1>2, <1>3 DEF FindMembership, At, Shape, Call, Endpoint
    <2>3. Shape([req[r] EXCEPT !.step = step])
        BY <1>2, <2>2 DEF Shape, Call
    <2> QED BY <1>1, <2>1, <2>2, <2>3, GoToBecomes DEF Step
<1>4. CASE FindDomain(r)
    <2>1. /\ req[r].endpoint \in {"register", "create_company", "update_company"}
          /\ req[r].wrote = {} /\ req[r].step = "domain"
        BY <1>2, <1>4 DEF FindDomain, At, Shape, Call, Endpoint
    <2>2. \/ /\ req[r].endpoint = "register" /\ req[r].eligible
             /\ \E k \in {k \in companies : k.domain = req[r].domain} :
                    req' = [req EXCEPT ![r].step = "join", ![r].company = k.id,
                                       ![r].role = "RECRUITER"]
             /\ UNCHANGED <<tables, ids, calls>>
          \/ /\ GoTo(r, IF req[r].endpoint = "update_company" THEN "set_domain" ELSE "insert")
             /\ UNCHANGED <<tables, ids, calls>>
        BY <1>4 DEF FindDomain
    <2>3. CASE /\ req[r].endpoint = "register" /\ req[r].eligible
               /\ \E k \in {k \in companies : k.domain = req[r].domain} :
                    req' = [req EXCEPT ![r].step = "join", ![r].company = k.id,
                                       ![r].role = "RECRUITER"]
               /\ UNCHANGED <<tables, ids, calls>>
        <3>1. PICK k \in companies :
                /\ k.domain = req[r].domain
                /\ req' = [req EXCEPT ![r].step = "join", ![r].company = k.id,
                                      ![r].role = "RECRUITER"]
            BY <2>3
        <3> DEFINE c == [req[r] EXCEPT !.step = "join", !.company = k.id, !.role = "RECRUITER"]
        <3>2. k.id \in Id
            BY DEF TypeOK, Company
        <3>3. /\ c \in Call /\ c.wrote = {} /\ c.company = k.id
              /\ c.user = req[r].user /\ c.endpoint = "register"
            BY <1>2, <2>1, <2>3, <3>2 DEF Call, Step, Role
        <3>4. Shape(c)
            BY <1>2, <2>1, <2>3, <3>2 DEF Shape, Call
        <3>5. req' = [req EXCEPT ![r] = c]
            BY <3>1
        <3> HIDE DEF c
        <3>6. k.domain = EmailDomain[c.user]
            BY <1>2, <2>3, <3>1, <3>3 DEF Shape
        <3>7. Keeps(r, c)
            BY <3>3, <3>6 DEF Keeps, Outrun, Closing, Ids, Keys
        <3> QED BY <2>3, <3>3, <3>4, <3>5, <3>7 DEF Becomes, Allowed, TypeOK
    <2>4. CASE /\ GoTo(r, IF req[r].endpoint = "update_company" THEN "set_domain" ELSE "insert")
               /\ UNCHANGED <<tables, ids, calls>>
        <3>1. CASE req[r].endpoint = "update_company"
            <4>1. Shape([req[r] EXCEPT !.step = "set_domain"])
                BY <1>2, <2>1, <3>1 DEF Shape, Call
            <4> QED BY <1>1, <2>1, <2>4, <3>1, <4>1, GoToBecomes DEF Step
        <3>2. CASE req[r].endpoint # "update_company"
            <4>1. Shape([req[r] EXCEPT !.step = "insert"])
                BY <1>2, <2>1, <3>2 DEF Shape, Call
            <4> QED BY <1>1, <2>1, <2>4, <3>2, <4>1, GoToBecomes DEF Step
        <3> QED BY <3>1, <3>2
    <2> QED BY <2>2, <2>3, <2>4
<1>5. CASE InsertCompany(r)
    <2>1. /\ req[r].endpoint \in {"register", "create_company"}
          /\ req[r].wrote = {} /\ req[r].step = "insert"
        BY <1>2, <1>5 DEF InsertCompany, At, Shape, Call, Endpoint
    <2> DEFINE step == IF req[r].endpoint = "register" THEN "join" ELSE "commit"
               c == [req[r] EXCEPT !.step = step, !.company = ids + 1, !.wrote = @ \cup {"founded"}]
    <2>2. /\ ~DomainBusy(r, req[r].domain) /\ ~DomainTaken(req[r].domain, NoCompany)
          /\ ids < MaxCompanies /\ ids' = ids + 1
          /\ req' = [req EXCEPT ![r].step = step, ![r].company = ids + 1,
                                ![r].wrote = @ \cup {"founded"}]
          /\ UNCHANGED <<tables, calls>>
        BY <1>5 DEF InsertCompany, NewId
    <2>3. ids + 1 \in Id /\ ids' \in 0..MaxCompanies
        BY <2>2, BoundsAssumption DEF TypeOK, Id
    <2>4. /\ c \in Call /\ c.wrote = {"founded"} /\ c.company = ids + 1
          /\ c.domain = req[r].domain
        BY <1>2, <2>1, <2>3 DEF Call, Step, Write
    <2>5. Shape(c)
        BY <1>2, <2>1, <2>3 DEF Shape, Call
    <2>6. req' = [req EXCEPT ![r] = c]
        BY <2>2
    <2> HIDE DEF c
    <2>7. Allowed(r, c) /\ Keeps(r, c)
        BY <2>2, <2>4, <2>5 DEF Allowed, Keeps, Decided, Closing, Joining, Shape
    <2> QED BY <2>2, <2>3, <2>4, <2>5, <2>6, <2>7 DEF Becomes, TypeOK
<1>6. CASE LookupCompany(r)
    <2>1. /\ req[r].endpoint = "update_employer" /\ req[r].company \in Id
          /\ req[r].wrote \subseteq {"left"} /\ req[r].step = "company"
        BY <1>2, <1>6 DEF LookupCompany, At, Shape, Call, Endpoint
    <2>2. GoTo(r, "join") /\ UNCHANGED <<tables, ids, calls>>
        BY <1>6 DEF LookupCompany, NotFound
    <2>3. Shape([req[r] EXCEPT !.step = "join"])
        BY <1>2, <2>1 DEF Shape, Call
    <2> QED BY <1>1, <2>1, <2>2, <2>3, GoToBecomes DEF Step
<1> QED BY <1>3, <1>4, <1>5, <1>6

\* Steps that write, or find that there is nothing to write.
LEMMA Writing ==
    ASSUME TypeOK, Shapes, NEW r \in Request, ~Abort(r),
           Join(r) \/ SetDomain(r) \/ DeleteRow(r) \/ Wait(r) \/ Unassign(r) \/ SetRole(r)
    PROVE  \E c \in Call : Becomes(r, c)
<1>1. req[r] # NoCall
    BY DEF Join, SetDomain, DeleteRow, Wait, Unassign, SetRole, At
<1>2. req[r] \in Call /\ Shape(req[r])
    BY <1>1 DEF TypeOK, Shapes
<1>3. CASE Join(r)
    <2>1. /\ req[r].endpoint \in {"register", "update_employer"} /\ req[r].step = "join"
          /\ req[r].wrote \subseteq {"founded", "left"} /\ req[r].company \in Id
          /\ req[r].endpoint = "register" => req[r].wrote \subseteq {"founded"}
          /\ req[r].endpoint = "update_employer" => req[r].wrote \subseteq {"left"}
        BY <1>2, <1>3 DEF Join, At, Shape, Call, Endpoint
    <2>2. /\ ~CompanyBusy(r, req[r].company) /\ ~MemberTaken(r)
          /\ \A q \in Others(r) : ~("joined" \in req[q].wrote /\ req[q].user = req[r].user)
          /\ req[r].company \in Ids \/ "founded" \in req[r].wrote
          /\ Wrote(r, "joined", "commit") /\ UNCHANGED <<tables, ids, calls>>
        BY <1>3 DEF Join
    <2> DEFINE c == [req[r] EXCEPT !.step = "commit", !.wrote = @ \cup {"joined"}]
    <2>3. /\ c.wrote = req[r].wrote \cup {"joined"} /\ c.user = req[r].user
          /\ c.company = req[r].company /\ c.domain = req[r].domain
        BY <1>2 DEF Call
    <2>4. Shape(c)
        BY <1>2, <2>1 DEF Shape, Call
    <2>5. \A m \in members : m.user = c.user => "left" \in c.wrote
        BY <2>1, <2>2, <2>3 DEF MemberTaken, Removes
    <2> HIDE DEF c
    <2>6. Allowed(r, c)
        BY <1>1, <2>1, <2>2, <2>3, <2>5 DEF Allowed
    <2> QED BY <1>1, <2>1, <2>2, <2>4, <2>6, WroteBecomes DEF c, Step, Write
<1>4. CASE SetDomain(r)
    <2>1. /\ req[r].endpoint = "update_company" /\ req[r].step = "set_domain"
          /\ req[r].wrote = {} /\ req[r].company \in Id
        BY <1>2, <1>4 DEF SetDomain, At, Shape, Call, Endpoint
    <2>2. CASE GoTo(r, "commit") /\ UNCHANGED <<tables, ids, calls>>
        <3>1. Shape([req[r] EXCEPT !.step = "commit"])
            BY <1>2, <2>1 DEF Shape, Call
        <3> QED BY <1>1, <2>1, <2>2, <3>1, GoToBecomes DEF Step
    <2>3. CASE /\ ~CompanyBusy(r, req[r].company) /\ ~CompanyShared(r, req[r].company)
               /\ ~DomainBusy(r, req[r].domain)
               /\ ~DomainTaken(req[r].domain, req[r].company)
               /\ Wrote(r, "moved", "commit") /\ UNCHANGED <<tables, ids, calls>>
        <3> DEFINE c == [req[r] EXCEPT !.step = "commit", !.wrote = @ \cup {"moved"}]
        <3>1. c.wrote = {"moved"} /\ c.company = req[r].company /\ c.domain = req[r].domain
            BY <1>2, <2>1 DEF Call
        <3>2. Shape(c)
            BY <1>2, <2>1 DEF Shape, Call
        <3> HIDE DEF c
        <3>3. Allowed(r, c)
            BY <2>3, <3>1 DEF Allowed
        <3> QED BY <1>1, <2>1, <2>3, <3>2, <3>3, WroteBecomes DEF c, Step, Write
    <2> QED BY <1>4, <2>2, <2>3 DEF SetDomain
<1>5. CASE DeleteRow(r)
    <2>1. /\ req[r].endpoint = "delete_company" /\ req[r].step = "delete"
          /\ req[r].wrote = {} /\ req[r].company \in Id
        BY <1>2, <1>5 DEF DeleteRow, At, Shape, Call, Endpoint
    <2>2. CASE GoTo(r, "commit") /\ UNCHANGED <<tables, ids, calls>>
        <3>1. Shape([req[r] EXCEPT !.step = "commit"])
            BY <1>2, <2>1 DEF Shape, Call
        <3> QED BY <1>1, <2>1, <2>2, <3>1, GoToBecomes DEF Step
    <2>3. CASE /\ ~CompanyBusy(r, req[r].company) /\ ~CompanyShared(r, req[r].company)
               /\ Wrote(r, "deleted", "commit") /\ UNCHANGED <<tables, ids, calls>>
        <3> DEFINE c == [req[r] EXCEPT !.step = "commit", !.wrote = @ \cup {"deleted"}]
        <3>1. c.wrote = {"deleted"} /\ c.company = req[r].company
            BY <1>2, <2>1 DEF Call
        <3>2. Shape(c)
            BY <1>2, <2>1 DEF Shape, Call
        <3> HIDE DEF c
        <3>3. Allowed(r, c)
            BY <2>3, <3>1 DEF Allowed
        <3> QED BY <1>1, <2>1, <2>3, <3>2, <3>3, WroteBecomes DEF c, Step, Write
    <2> QED BY <1>5, <2>2, <2>3 DEF DeleteRow
<1>6. CASE Wait(r) \/ Unassign(r)
    <2>1. /\ req[r].endpoint = "update_employer" /\ req[r].step \in {"unassign", "waiting"}
          /\ req[r].wrote = {}
        BY <1>2, <1>6 DEF Wait, Unassign, At, Shape, Call, Endpoint
    <2> DEFINE after == AfterUnassign(req[r])
    <2>2. /\ after \in {"commit", "company"}
          /\ after = "commit" => req[r].company = NoCompany
          /\ after = "company" => req[r].company \in Id
        BY <1>2 DEF AfterUnassign, Call
    <2> HIDE DEF after
    <2>3. \A step \in {"waiting", after} : Shape([req[r] EXCEPT !.step = step])
        BY <1>2, <2>1, <2>2 DEF Shape, Call
    <2>4. CASE \E step \in {"waiting", after} : GoTo(r, step) /\ UNCHANGED <<tables, ids, calls>>
        BY <1>1, <2>1, <2>2, <2>3, <2>4, GoToBecomes DEF Step
    <2>5. CASE Wrote(r, "left", after) /\ UNCHANGED <<tables, ids, calls>>
        <3> DEFINE c == [req[r] EXCEPT !.step = after, !.wrote = @ \cup {"left"}]
        <3>1. /\ c.wrote = req[r].wrote \cup {"left"} /\ c.company = req[r].company
              /\ c.domain = req[r].domain
            BY <1>2 DEF Call
        <3>2. Shape(c)
            BY <1>2, <2>1, <2>2 DEF Shape, Call
        <3> HIDE DEF c
        <3>3. Allowed(r, c)
            BY <1>1, <2>1, <2>5, <3>1 DEF Allowed
        <3> QED BY <1>1, <2>1, <2>2, <2>5, <3>2, <3>3, WroteBecomes DEF c, Step, Write
    <2> QED BY <1>6, <2>4, <2>5 DEF Wait, Unassign, after
<1>7. CASE SetRole(r)
    <2>1. /\ req[r].endpoint = "update_employer" /\ req[r].step = "set_role"
          /\ req[r].wrote = {} /\ req[r].company = NoCompany
        BY <1>2, <1>7 DEF SetRole, At, Shape, Call, Endpoint
    <2>2. CASE GoTo(r, "commit") /\ UNCHANGED <<tables, ids, calls>>
        <3>1. Shape([req[r] EXCEPT !.step = "commit"])
            BY <1>2, <2>1 DEF Shape, Call
        <3> QED BY <1>1, <2>1, <2>2, <3>1, GoToBecomes DEF Step
    <2>3. CASE Wrote(r, "promoted", "commit") /\ UNCHANGED <<tables, ids, calls>>
        <3> DEFINE c == [req[r] EXCEPT !.step = "commit", !.wrote = @ \cup {"promoted"}]
        <3>1. /\ c.wrote = req[r].wrote \cup {"promoted"} /\ c.company = req[r].company
              /\ c.domain = req[r].domain
            BY <1>2 DEF Call
        <3>2. Shape(c)
            BY <1>2, <2>1 DEF Shape, Call
        <3> HIDE DEF c
        <3>3. Allowed(r, c)
            BY <1>1, <2>1, <2>3, <3>1 DEF Allowed
        <3> QED BY <1>1, <2>1, <2>3, <3>2, <3>3, WroteBecomes DEF c, Step, Write
    <2> QED BY <1>7, <2>2, <2>3 DEF SetRole
<1> QED BY <1>3, <1>4, <1>5, <1>6, <1>7

LEMMA StepCases ==
    ASSUME TypeOK, Shapes, Keys, [Next]_vars
    PROVE  \/ UNCHANGED vars
           \/ \E r \in Request : Commit(r) \/ Abort(r) \/ \E c \in Call : Becomes(r, c)
<1>1. CASE Next
    <2>1. PICK r \in Request : HandlerStep(r)
        BY <1>1 DEF Next
    <2>2. \/ RegisterCompany(r) \/ CreateCompany(r) \/ UpdateCompany(r)
          \/ DeleteCompany(r) \/ UpdateEmployer(r)
          \/ FindMembership(r) \/ FindDomain(r) \/ InsertCompany(r) \/ LookupCompany(r)
          \/ Join(r) \/ SetDomain(r) \/ DeleteRow(r) \/ Wait(r) \/ Unassign(r) \/ SetRole(r)
          \/ Commit(r) \/ Abort(r)
        BY <2>1 DEF HandlerStep, Fail
    <2> QED BY <2>2, Admitting, Looking, Writing
<1> QED BY <1>1

(***************************************************************************)
(* A statement                                                             *)
(***************************************************************************)

LEMMA Statement ==
    ASSUME Sound, NEW r \in Request, NEW c \in Call, Becomes(r, c)
    PROVE  /\ c.wrote \subseteq Write /\ ids \in Nat /\ ids <= ids'
           /\ companies' = companies /\ members' = members
           /\ req'[r] = c /\ \A q \in Request \ {r} : req'[q] = req[q]
           /\ req[r] # NoCall => Own(req[r])
           /\ \A q \in Request : req[q] # NoCall => Own(req[q]) /\ req[q] \in Call
           /\ \A q \in Request \ {r} : req[q] # NoCall /\ req[r] # NoCall =>
                Apart(req[r], req[q]) /\ Apart(req[q], req[r])
           /\ Keys
<1>1. c.wrote \subseteq Write
    BY DEF Call
<1>2. ids \in Nat /\ ids <= ids'
    BY BoundsAssumption DEF Sound, TypeOK, Becomes, Allowed
<1> QED BY <1>1, <1>2 DEF Sound, TypeOK, Transactions, Becomes, tables

\* What the request has written keeps to the tables.
LEMMA StatementOwn ==
    ASSUME Sound, NEW r \in Request, NEW c \in Call, Becomes(r, c)
    PROVE  Own(c)'
<1> USE Statement
<1>1. \A k \in companies : k.id \in Nat /\ k.id <= ids
    BY DEF Keys, Sound, TypeOK, Company, Id
<1>2. Decided(c) => c.company <= ids'
    <2>1. Decided(c) => c.company \in Nat
        BY BoundsAssumption DEF Becomes, Shape, Decided, Closing, Joining, Id
    <2>2. Decided(c) => c.company <= ids
        BY <1>1 DEF Becomes, Keeps, Decided, Ids, Own
    <2>3. ids' \in Nat
        BY BoundsAssumption DEF Becomes
    <2> QED BY <2>1, <2>2, <2>3
<1>3. CASE c.wrote = {} /\ ids' = ids
    BY <1>2, <1>3 DEF Own
<1>4. CASE /\ c.wrote \in {req[r].wrote, req[r].wrote \cup {"left"}, req[r].wrote \cup {"promoted"}}
           /\ req[r] # NoCall /\ "joined" \notin req[r].wrote
           /\ c.company = req[r].company /\ c.domain = req[r].domain /\ ids' = ids
    BY <1>2, <1>4 DEF Own, Ids
<1>5. CASE /\ c.wrote = {"founded"} /\ c.company = ids + 1 /\ ids' = ids + 1
           /\ ~DomainBusy(r, c.domain) /\ ~DomainTaken(c.domain, NoCompany)
    <2>1. c.company \notin Ids /\ c.company <= ids'
        BY <1>1, <1>5 DEF Ids
    <2>2. c.domain # NoDomain => \A k \in companies : k.domain # c.domain
        BY <1>5, AbsentAssumption DEF DomainTaken, Sound, TypeOK, Company
    <2> QED BY <1>2, <1>5, <2>1, <2>2 DEF Own, Ids
<1>6. CASE /\ req[r] # NoCall /\ c.wrote = req[r].wrote \cup {"joined"}
           /\ c.user = req[r].user /\ c.company = req[r].company /\ c.domain = req[r].domain
           /\ c.wrote \cap {"moved", "deleted"} = {}
           /\ ~CompanyBusy(r, c.company) /\ ids' = ids
           /\ \A q \in Others(r) : ~("joined" \in req[q].wrote /\ req[q].user = c.user)
           /\ \A m \in members : m.user = c.user => "left" \in c.wrote
           /\ c.company \in Ids \/ "founded" \in c.wrote
    BY <1>2, <1>6 DEF Own, Ids
<1>7. CASE /\ c.wrote = {"moved"} /\ ids' = ids
           /\ ~DomainBusy(r, c.domain) /\ ~DomainTaken(c.domain, c.company)
    BY <1>2, <1>7 DEF Own, Ids, DomainTaken
<1>8. CASE c.wrote = {"deleted"} /\ ids' = ids
    BY <1>2, <1>8 DEF Own, Ids
<1> QED BY <1>3, <1>4, <1>5, <1>6, <1>7, <1>8 DEF Becomes, Allowed

\* And it keeps apart from what the others have written: it has met their locks.
LEMMA StatementApart ==
    ASSUME Sound, NEW r \in Request, NEW c \in Call, Becomes(r, c),
           NEW q \in Request \ {r}, req[q] # NoCall
    PROVE  Apart(c, req[q]) /\ Apart(req[q], c)
<1> USE Statement
<1>1. q \in Others(r) /\ req[q] \in Call /\ Own(req[q])
    BY DEF Others
<1>2. Decided(c) /\ "founded" \in req[q].wrote => c.company # req[q].company
    <2>1. CASE c.company \in Ids
        BY <1>1, <2>1 DEF Own
    <2>2. CASE req[r] # NoCall /\ c.company = req[r].company /\ Decided(req[r])
        BY <2>2 DEF Apart
    <2>3. Keeps(r, c)
        BY DEF Becomes
    <2> QED BY <2>1, <2>2, <2>3 DEF Keeps, Decided
<1>3. Decided(req[q]) /\ "founded" \in c.wrote => req[q].company # c.company
    <2>1. CASE c.wrote = {"founded"} /\ c.company = ids + 1
        <3>1. Decided(req[q]) => req[q].company <= ids
            BY <1>1 DEF Own
        <3>2. ~(ids + 1 <= ids)
            OBVIOUS
        <3> QED BY <2>1, <3>1, <3>2
    <2>2. CASE /\ req[r] # NoCall /\ c.company = req[r].company
               /\ "founded" \in c.wrote => "founded" \in req[r].wrote
        BY <2>2 DEF Apart
    <2> QED BY <2>1, <2>2 DEF Becomes, Allowed
<1>4. CASE c.wrote = {}
    BY <1>2, <1>4 DEF Apart
<1>5. CASE /\ c.wrote \in {req[r].wrote, req[r].wrote \cup {"left"}, req[r].wrote \cup {"promoted"}}
           /\ req[r] # NoCall /\ "joined" \notin req[r].wrote
           /\ c.company = req[r].company /\ c.domain = req[r].domain
    BY <1>2, <1>3, <1>5 DEF Apart
<1>6. CASE /\ c.wrote = {"founded"} /\ c.company = ids + 1
           /\ ~DomainBusy(r, c.domain)
    <2>1. "founded" \in req[q].wrote => req[q].company # c.company
        <3> SUFFICES ASSUME "founded" \in req[q].wrote
                     PROVE  req[q].company # c.company
            OBVIOUS
        <3>1. req[q].company <= ids
            BY <1>1 DEF Own
        <3>2. ~(ids + 1 <= ids)
            OBVIOUS
        <3> QED BY <1>6, <3>1, <3>2
    <2> QED BY <1>1, <1>2, <1>3, <1>6, <2>1 DEF Apart, DomainBusy
<1>7. CASE /\ req[r] # NoCall /\ c.wrote = req[r].wrote \cup {"joined"}
           /\ c.user = req[r].user /\ c.company = req[r].company /\ c.domain = req[r].domain
           /\ c.wrote \cap {"moved", "deleted"} = {}
           /\ ~CompanyBusy(r, c.company)
           /\ \A p \in Others(r) : ~("joined" \in req[p].wrote /\ req[p].user = c.user)
    BY <1>1, <1>2, <1>3, <1>7 DEF Apart, CompanyBusy
<1>8. CASE /\ c.wrote = {"moved"}
           /\ ~CompanyBusy(r, c.company) /\ ~CompanyShared(r, c.company)
           /\ ~DomainBusy(r, c.domain)
    BY <1>1, <1>2, <1>3, <1>8 DEF Apart, CompanyBusy, CompanyShared, DomainBusy
<1>9. CASE /\ c.wrote = {"deleted"}
           /\ ~CompanyBusy(r, c.company) /\ ~CompanyShared(r, c.company)
    BY <1>1, <1>2, <1>3, <1>9 DEF Apart, CompanyBusy, CompanyShared
<1> QED BY <1>4, <1>5, <1>6, <1>7, <1>8, <1>9 DEF Becomes, Allowed

LEMMA StatementSound ==
    ASSUME Sound, NEW r \in Request, NEW c \in Call, Becomes(r, c)
    PROVE  Sound'
<1> USE Statement
<1>1. TypeOK'
    BY DEF Sound, TypeOK, Becomes
<1>2. Shapes'
    <2> SUFFICES ASSUME NEW q \in Request, req'[q] # NoCall
                 PROVE  Shape(req'[q])
        BY DEF Shapes, Shape
    <2> QED BY DEF Becomes, Sound, Shapes
<1>3. Transactions'
    <2>1. ASSUME NEW q \in Request, req'[q] # NoCall
          PROVE  Own(req[q])'
        <3>1. CASE q = r
            BY <3>1, StatementOwn DEF Own, Ids
        <3>2. CASE q # r
            <4>1. req'[q] = req[q] /\ Own(req[q])
                BY <2>1, <3>2
            <4>2. "founded" \in req[q].wrote => req[q].company \in Nat
                BY <2>1, <3>2, AbsentAssumption DEF Own, Sound, Shapes, Shape, Id, Call, Endpoint
            <4>3. "founded" \in req[q].wrote => req[q].company <= ids'
                BY <1>1, <4>1, <4>2, BoundsAssumption DEF Own, TypeOK
            <4>4. Decided(req[q]) => req[q].company \in Nat
                BY <2>1, <3>2, BoundsAssumption
                DEF Sound, Shapes, Shape, Decided, Closing, Joining, Id
            <4>5. Decided(req[q]) => req[q].company <= ids'
                BY <1>1, <4>1, <4>4, BoundsAssumption DEF Own, TypeOK
            <4> QED BY <4>1, <4>3, <4>5 DEF Own, Ids
        <3> QED BY <3>1, <3>2
    <2>2. ASSUME NEW p \in Request, NEW q \in Request, p # q, req'[p] # NoCall, req'[q] # NoCall
          PROVE  Apart(req'[p], req'[q])
        BY <2>2, StatementApart DEF Sound, Transactions
    <2> QED BY <2>1, <2>2 DEF Transactions, Apart
<1>4. Keys'
    <2>1. \A k \in companies : k.id \in Nat
        BY BoundsAssumption DEF Sound, TypeOK, Company, Id
    <2>2. ids' \in Nat
        BY <1>1, BoundsAssumption DEF TypeOK
    <2>3. \A k \in companies : k.id <= ids'
        BY <2>1, <2>2 DEF Keys
    <2> QED BY <2>3 DEF Keys
<1>5. UniqueDomains' /\ OneCompanyPerEmployer' /\ MembersOfExisting'
    BY DEF Sound, UniqueDomains, OneCompanyPerEmployer, MembersOfExisting, Ids
<1> QED BY <1>1, <1>2, <1>3, <1>4, <1>5 DEF Sound

(***************************************************************************)
(* The end of a request                                                    *)
(***************************************************************************)

LEMMA AbortSound ==
    ASSUME Sound, NEW r \in Request, Abort(r)
    PROVE  Sound'
<1>1. /\ UNCHANGED <<companies, members, ids, calls>>
      /\ \A q \in Request : req'[q] # NoCall => req'[q] = req[q] /\ q # r
      /\ req' \in [Request -> Call \cup {NoCall}]
    BY DEF Abort, tables, Sound, TypeOK
<1>2. TypeOK' /\ Keys' /\ UniqueDomains' /\ OneCompanyPerEmployer' /\ MembersOfExisting'
    BY <1>1 DEF Sound, TypeOK, Keys, UniqueDomains, OneCompanyPerEmployer, MembersOfExisting, Ids
<1>3. Shapes'
    BY <1>1 DEF Sound, Shapes, Shape
<1>4. Transactions'
    BY <1>1 DEF Sound, Transactions, Own, Apart, Ids
<1> QED BY <1>2, <1>3, <1>4 DEF Sound

\* Where a company comes from that r's commit leaves: it was the company l, or r
\* has founded it.
FromCompany(r, k, l) ==
    /\ ~("deleted" \in req[r].wrote /\ l.id = req[r].company)
    /\ k.id = l.id
    /\ IF "moved" \in req[r].wrote /\ l.id = req[r].company
       THEN k = [id |-> l.id, domain |-> req[r].domain] ELSE k = l

Founded(r, k) ==
    /\ "founded" \in req[r].wrote
    /\ k = [id |-> req[r].company, domain |-> req[r].domain]

\* Where a membership comes from: it was the membership n, or r has inserted it.
FromMember(r, m, n) ==
    /\ ~Removes(r, n) /\ m \in Member /\ m.user = n.user /\ m.company = n.company
    /\ IF "promoted" \in req[r].wrote /\ n.user = req[r].user
       THEN m.role = req[r].role ELSE m = n

NewMember(r) == [user |-> req[r].user, company |-> req[r].company, role |-> req[r].role]

LEMMA Committed ==
    ASSUME Sound, NEW r \in Request, Commit(r)
    PROVE  /\ req[r] # NoCall /\ req[r] \in Call /\ req[r].step = "commit"
           /\ Shape(req[r]) /\ Own(req[r])
           /\ \A k \in companies' : Founded(r, k) \/ \E l \in companies : FromCompany(r, k, l)
           /\ \A l \in companies :
                l.id \in Ids' \/ ("deleted" \in req[r].wrote /\ l.id = req[r].company)
           /\ "founded" \in req[r].wrote => req[r].company \in Ids'
           /\ \A m \in members' :
                \/ "joined" \in req[r].wrote /\ m = NewMember(r)
                \/ \E n \in members : FromMember(r, m, n)
           /\ "joined" \in req[r].wrote => NewMember(r) \in members'
<1>1. /\ req[r] # NoCall /\ req[r] \in Call /\ req[r].step = "commit"
      /\ Shape(req[r]) /\ Own(req[r])
    BY DEF Commit, At, Sound, TypeOK, Shapes, Transactions
<1>2. \A l \in companies : [l EXCEPT !.domain = req[r].domain]
                            = [id |-> l.id, domain |-> req[r].domain]
    BY DEF Sound, TypeOK, Company
<1>3. companies' =
        {IF "moved" \in req[r].wrote /\ l.id = req[r].company
         THEN [id |-> l.id, domain |-> req[r].domain] ELSE l :
            l \in {l \in companies : ~("deleted" \in req[r].wrote /\ l.id = req[r].company)}}
        \cup (IF "founded" \in req[r].wrote
              THEN {[id |-> req[r].company, domain |-> req[r].domain]} ELSE {})
    BY <1>2 DEF Commit, Companies
<1>4. \A k \in companies' : Founded(r, k) \/ \E l \in companies : FromCompany(r, k, l)
    BY <1>3 DEF Founded, FromCompany
<1>5. ASSUME NEW l \in companies, ~("deleted" \in req[r].wrote /\ l.id = req[r].company)
      PROVE  l.id \in Ids'
    <2> DEFINE k == IF "moved" \in req[r].wrote /\ l.id = req[r].company
                    THEN [id |-> l.id, domain |-> req[r].domain] ELSE l
    <2>1. k \in companies'
        BY <1>3, <1>5
    <2>2. k.id = l.id
        OBVIOUS
    <2> HIDE DEF k
    <2> QED BY <2>1, <2>2 DEF Ids
<1>6. "founded" \in req[r].wrote => req[r].company \in Ids'
    <2> DEFINE k == [id |-> req[r].company, domain |-> req[r].domain]
    <2>1. "founded" \in req[r].wrote => k \in companies'
        BY <1>3
    <2>2. k.id = req[r].company
        OBVIOUS
    <2> HIDE DEF k
    <2> QED BY <2>1, <2>2 DEF Ids
<1>7. \A n \in members : n \in Member /\ [n EXCEPT !.role = req[r].role] \in Member
                          /\ [n EXCEPT !.role = req[r].role].user = n.user
                          /\ [n EXCEPT !.role = req[r].role].company = n.company
                          /\ [n EXCEPT !.role = req[r].role].role = req[r].role
    BY <1>1 DEF Sound, TypeOK, Member, Call
<1>8. ASSUME NEW m \in members', ~("joined" \in req[r].wrote /\ m = NewMember(r))
      PROVE  \E n \in members : FromMember(r, m, n)
    <2>1. PICK n \in members :
                ~Removes(r, n) /\ m = IF "promoted" \in req[r].wrote /\ n.user = req[r].user
                                      THEN [n EXCEPT !.role = req[r].role] ELSE n
        BY <1>8 DEF Commit, Members, NewMember
    <2>2. CASE "promoted" \in req[r].wrote /\ n.user = req[r].user
        BY <1>7, <2>1, <2>2 DEF FromMember
    <2>3. CASE ~("promoted" \in req[r].wrote /\ n.user = req[r].user)
        BY <1>7, <2>1, <2>3 DEF FromMember
    <2> QED BY <2>2, <2>3
<1>9. "joined" \in req[r].wrote => NewMember(r) \in members'
    BY DEF Commit, Members, NewMember
<1> QED BY <1>1, <1>4, <1>5, <1>6, <1>8, <1>9

\* The other requests: some miss the row they were waiting for.
LEMMA Remaining ==
    ASSUME Sound, NEW r \in Request, Commit(r)
    PROVE  /\ req' \in [Request -> Call \cup {NoCall}] /\ req'[r] = NoCall
           /\ \A q \in Request \ {r} :
                /\ req'[q] # NoCall <=> req[q] # NoCall
                /\ req[q] # NoCall =>
                    /\ req[q] \in Call /\ Own(req[q]) /\ Shape(req[q])
                    /\ Apart(req[r], req[q]) /\ Apart(req[q], req[r])
                    /\ Shape(req'[q])
                    /\ req'[q].wrote = req[q].wrote /\ req'[q].company = req[q].company
                    /\ req'[q].domain = req[q].domain /\ req'[q].user = req[q].user
                    /\ Closing(req'[q]) <=> Closing(req[q])
                    /\ Joining(req'[q]) <=> Joining(req[q])
<1>1. req' = [q \in Request |->
                IF q = r THEN NoCall
                ELSE IF Misses(q, r) THEN [req[q] EXCEPT !.step = AfterUnassign(req[q])]
                ELSE req[q]]
    BY DEF Commit
<1>2. ASSUME NEW q \in Request \ {r}
      PROVE  /\ req'[q] \in Call \cup {NoCall}
             /\ req'[q] # NoCall <=> req[q] # NoCall
             /\ req[q] # NoCall =>
                    /\ Shape(req'[q])
                    /\ req'[q].wrote = req[q].wrote /\ req'[q].company = req[q].company
                    /\ req'[q].domain = req[q].domain /\ req'[q].user = req[q].user
                    /\ Closing(req'[q]) <=> Closing(req[q])
                    /\ Joining(req'[q]) <=> Joining(req[q])
    <2>1. CASE ~Misses(q, r)
        BY <1>1, <2>1 DEF Sound, TypeOK, Shapes
    <2>2. CASE Misses(q, r)
        <3>1. /\ req[q] # NoCall /\ req[q].step = "waiting" /\ req[q] \in Call
              /\ Shape(req[q])
            BY <2>2 DEF Misses, At, Sound, TypeOK, Shapes
        <3>2. req[q].endpoint = "update_employer" /\ req[q].wrote = {}
            BY <3>1 DEF Shape, Call, Endpoint
        <3> DEFINE after == AfterUnassign(req[q])
                   d == [req[q] EXCEPT !.step = after]
        <3>3. req'[q] = d
            BY <1>1, <2>2
        <3>4. /\ after \in {"commit", "company"}
              /\ after = "commit" => req[q].company = NoCompany
              /\ after = "company" => req[q].company \in Id
            BY <3>1 DEF AfterUnassign, Call
        <3> HIDE DEF after
        <3>5. d \in Call
            BY <3>1, <3>4 DEF Call, Step
        <3>6. Shape(d)
            BY <3>1, <3>2, <3>4 DEF Shape, Call
        <3>7. /\ d.wrote = req[q].wrote /\ d.company = req[q].company
              /\ d.domain = req[q].domain /\ d.user = req[q].user
              /\ d.endpoint = req[q].endpoint
            BY <3>1 DEF Call
        <3> HIDE DEF d
        <3> QED BY <3>1, <3>2, <3>3, <3>5, <3>6, <3>7, AbsentAssumption DEF Closing, Joining
    <2> QED BY <2>1, <2>2
<1>3. \A q \in Request \ {r} : req[q] # NoCall =>
        /\ req[q] \in Call /\ Own(req[q]) /\ Shape(req[q])
        /\ Apart(req[r], req[q]) /\ Apart(req[q], req[r])
    BY DEF Sound, TypeOK, Shapes, Transactions, Commit, At
<1>4. req'[r] = NoCall
    BY <1>1
<1>5. req' \in [Request -> Call \cup {NoCall}]
    BY <1>1, <1>2, <1>4
<1> QED BY <1>2, <1>3, <1>4, <1>5

LEMMA CommitSound ==
    ASSUME Sound, NEW r \in Request, Commit(r)
    PROVE  Sound'
<1>1. /\ req[r] # NoCall /\ req[r] \in Call /\ req[r].step = "commit"
      /\ Shape(req[r]) /\ Own(req[r])
    BY Committed
<1>2. /\ req[r].domain \in Domain \cup {NoDomain} /\ req[r].role \in Role
      /\ req[r].wrote \subseteq Write /\ req[r].endpoint \in Endpoint
      /\ "founded" \in req[r].wrote => req[r].company \in Id
      /\ "joined" \in req[r].wrote =>
            /\ req[r].user \in User /\ req[r].company \in Id
            /\ req[r].wrote \cap {"deleted", "moved"} = {}
      /\ "founded" \in req[r].wrote => "moved" \notin req[r].wrote
    BY <1>1 DEF Call, Shape, Endpoint
<1>3. /\ companies \subseteq Company /\ members \subseteq Member
      /\ ids' = ids /\ calls' = calls /\ ids \in 0..MaxCompanies /\ calls \in 0..MaxCalls
    BY DEF Sound, TypeOK, Commit
<1>4. \A k \in companies' : Founded(r, k) \/ \E l \in companies : FromCompany(r, k, l)
    BY Committed
<1>5. \A m \in members' :
        \/ "joined" \in req[r].wrote /\ m = NewMember(r)
        \/ \E n \in members : FromMember(r, m, n)
    BY Committed
<1>6. TypeOK'
    <2>1. ASSUME NEW k \in companies'
          PROVE  k \in Company
        <3>1. CASE Founded(r, k)
            BY <1>2, <3>1 DEF Founded, Company
        <3>2. ASSUME NEW l \in companies, FromCompany(r, k, l)
              PROVE  k \in Company
            BY <1>2, <1>3, <3>2 DEF FromCompany, Company
        <3> QED BY <1>4, <3>1, <3>2
    <2>2. ASSUME NEW m \in members'
          PROVE  m \in Member
        BY <1>2, <1>5 DEF Member, NewMember, FromMember
    <2>3. req' \in [Request -> Call \cup {NoCall}]
        BY Remaining
    <2> QED BY <1>3, <2>1, <2>2, <2>3 DEF TypeOK
<1>7. Shapes'
    <2> SUFFICES ASSUME NEW q \in Request, req'[q] # NoCall
                 PROVE  Shape(req'[q])
        BY DEF Shapes, Shape
    <2> QED BY Remaining
<1>8. Transactions'
    <2>1. ASSUME NEW q \in Request, req'[q] # NoCall
          PROVE  Own(req[q])'
        <3>1. /\ q # r /\ req[q] # NoCall /\ Own(req[q]) /\ req[q] \in Call
              /\ Apart(req[r], req[q]) /\ Apart(req[q], req[r])
              /\ req'[q].wrote = req[q].wrote /\ req'[q].company = req[q].company
              /\ req'[q].domain = req[q].domain /\ req'[q].user = req[q].user
              /\ Decided(req'[q]) <=> Decided(req[q])
            BY <2>1, Remaining DEF Decided
        <3>2. ASSUME "founded" \in req[q].wrote, NEW k \in companies', k.id = req[q].company
              PROVE  FALSE
            <4>1. CASE Founded(r, k)
                BY <3>1, <3>2, <4>1 DEF Founded, Apart
            <4>2. ASSUME NEW l \in companies, FromCompany(r, k, l)
                  PROVE  FALSE
                BY <3>1, <3>2, <4>2 DEF FromCompany, Own, Ids
            <4> QED BY <1>4, <4>1, <4>2
        <3>3. "joined" \in req[q].wrote /\ "founded" \notin req[q].wrote => req[q].company \in Ids'
            <4> SUFFICES ASSUME "joined" \in req[q].wrote, "founded" \notin req[q].wrote
                         PROVE  req[q].company \in Ids'
                OBVIOUS
            <4>1. PICK l \in companies : l.id = req[q].company
                BY <3>1 DEF Own, Ids
            <4>2. ~("deleted" \in req[r].wrote /\ l.id = req[r].company)
                BY <3>1, <4>1 DEF Apart
            <4> QED BY <4>1, <4>2, Committed
        <3>4. ASSUME req[q].wrote \cap {"founded", "moved"} # {}, req[q].domain # NoDomain,
                     NEW k \in companies', k.domain = req[q].domain
              PROVE  k.id = req[q].company
            <4>1. CASE Founded(r, k)
                BY <3>1, <3>4, <4>1 DEF Founded, Apart
            <4>2. ASSUME NEW l \in companies, FromCompany(r, k, l)
                  PROVE  k.id = req[q].company
                <5>1. CASE "moved" \in req[r].wrote /\ l.id = req[r].company
                    BY <3>1, <3>4, <4>2, <5>1 DEF FromCompany, Apart
                <5>2. CASE ~("moved" \in req[r].wrote /\ l.id = req[r].company)
                    BY <3>1, <3>4, <4>2, <5>2 DEF FromCompany, Own
                <5> QED BY <5>1, <5>2
            <4> QED BY <1>4, <4>1, <4>2
        <3>5. ASSUME "joined" \in req[q].wrote, NEW m \in members', m.user = req[q].user
              PROVE  "left" \in req[q].wrote
            <4>1. CASE "joined" \in req[r].wrote /\ m = NewMember(r)
                BY <3>1, <3>5, <4>1 DEF NewMember, Apart
            <4>2. ASSUME NEW n \in members, FromMember(r, m, n)
                  PROVE  "left" \in req[q].wrote
                BY <3>1, <3>5, <4>2 DEF FromMember, Own
            <4> QED BY <1>5, <4>1, <4>2
        <3>6. "founded" \in req[q].wrote => req[q].company \notin Ids' /\ req[q].company <= ids'
            BY <1>3, <3>1, <3>2 DEF Own, Ids
        <3>7. Decided(req'[q]) => req[q].company <= ids'
            BY <1>3, <3>1 DEF Own
        <3> QED BY <3>1, <3>3, <3>4, <3>5, <3>6, <3>7 DEF Own
    <2>2. ASSUME NEW p \in Request, NEW q \in Request, p # q, req'[p] # NoCall, req'[q] # NoCall
          PROVE  Apart(req'[p], req'[q])
        <3>1. p # r /\ q # r /\ req[p] # NoCall /\ req[q] # NoCall
            BY <2>2, Remaining
        <3>2. Apart(req[p], req[q])
            BY <2>2, <3>1 DEF Sound, Transactions
        <3>3. /\ req'[p].wrote = req[p].wrote /\ req'[p].company = req[p].company
              /\ req'[p].domain = req[p].domain /\ req'[p].user = req[p].user
              /\ req'[q].wrote = req[q].wrote /\ req'[q].company = req[q].company
              /\ req'[q].domain = req[q].domain /\ req'[q].user = req[q].user
              /\ Decided(req'[p]) <=> Decided(req[p])
            BY <3>1, Remaining DEF Decided
        <3> QED BY <3>2, <3>3 DEF Apart
    <2> QED BY <2>1, <2>2 DEF Transactions, Apart
<1>9. Keys'
    <2>1. ASSUME NEW k \in companies'
          PROVE  k.id <= ids'
        <3>1. CASE Founded(r, k)
            BY <1>1, <1>3, <3>1 DEF Founded, Own
        <3>2. ASSUME NEW l \in companies, FromCompany(r, k, l)
              PROVE  k.id <= ids'
            BY <1>3, <3>2 DEF FromCompany, Sound, Keys
        <3> QED BY <1>4, <3>1, <3>2
    <2>2. ASSUME NEW k \in companies', NEW l \in companies', k.id = l.id
          PROVE  k = l
        <3>1. ASSUME NEW a \in companies', NEW b \in companies, Founded(r, a), b.id = a.id
              PROVE  FALSE
            BY <1>1, <3>1 DEF Founded, Own, Ids
        <3>2. CASE Founded(r, k) \/ Founded(r, l)
            BY <1>4, <2>2, <3>1, <3>2 DEF Founded, FromCompany
        <3>3. ASSUME NEW a \in companies, NEW b \in companies,
                     FromCompany(r, k, a), FromCompany(r, l, b)
              PROVE  k = l
            BY <2>2, <3>3 DEF FromCompany, Sound, Keys
        <3> QED BY <1>4, <3>2, <3>3
    <2> QED BY <2>1, <2>2 DEF Keys
<1>10. UniqueDomains'
    <2> SUFFICES ASSUME NEW k \in companies', NEW l \in companies',
                        k.domain = l.domain, k.domain # NoDomain
                 PROVE  k = l
        BY DEF UniqueDomains
    \* Whoever has the domain r writes has it from r or is the company r writes.
    <2>1. ASSUME NEW a \in companies',
                 req[r].wrote \cap {"founded", "moved"} # {}, a.domain = req[r].domain,
                 req[r].domain # NoDomain
          PROVE  a.id = req[r].company
        <3>1. CASE Founded(r, a)
            BY <3>1 DEF Founded
        <3>2. ASSUME NEW b \in companies, FromCompany(r, a, b)
              PROVE  a.id = req[r].company
            BY <1>1, <2>1, <3>2 DEF FromCompany, Own
        <3> QED BY <1>4, <3>1, <3>2
    <2>2. CASE req[r].wrote \cap {"founded", "moved"} # {} /\ k.domain = req[r].domain
        <3>1. k.id = l.id
            BY <2>1, <2>2
        <3> QED BY <1>9, <3>1 DEF Keys
    <2>3. CASE ~(req[r].wrote \cap {"founded", "moved"} # {} /\ k.domain = req[r].domain)
        <3>1. k \in companies /\ l \in companies
            BY <1>4, <2>3 DEF Founded, FromCompany
        <3> QED BY <3>1 DEF Sound, UniqueDomains
    <2> QED BY <2>2, <2>3
<1>11. OneCompanyPerEmployer'
    <2> SUFFICES ASSUME NEW m \in members', NEW n \in members', m.user = n.user
                 PROVE  m = n
        BY DEF OneCompanyPerEmployer
    <2>1. ASSUME "joined" \in req[r].wrote, NEW a \in members', NEW b \in members,
                 a.user = req[r].user
          PROVE  ~FromMember(r, a, b)
        BY <1>1, <2>1 DEF FromMember, Own, Removes
    <2>2. CASE "joined" \in req[r].wrote /\ m.user = req[r].user
        BY <1>5, <2>1, <2>2 DEF NewMember
    <2>3. CASE ~("joined" \in req[r].wrote /\ m.user = req[r].user)
        <3>1. PICK a \in members : FromMember(r, m, a)
            BY <1>5, <2>3 DEF NewMember
        <3>2. PICK b \in members : FromMember(r, n, b)
            BY <1>5, <2>3 DEF NewMember
        <3>3. a = b
            BY <3>1, <3>2 DEF FromMember, Sound, OneCompanyPerEmployer
        <3>4. m.company = n.company /\ m.role = n.role /\ m \in Member /\ n \in Member
            BY <3>1, <3>2, <3>3 DEF FromMember
        <3> QED BY <3>4 DEF Member
    <2> QED BY <2>2, <2>3
<1>12. MembersOfExisting'
    <2> SUFFICES ASSUME NEW m \in members'
                 PROVE  m.company \in Ids'
        BY DEF MembersOfExisting, Ids
    <2>1. ASSUME NEW id \in Ids, ~("deleted" \in req[r].wrote /\ id = req[r].company)
          PROVE  id \in Ids'
        <3>1. PICK l \in companies : l.id = id
            BY DEF Ids
        <3> QED BY <2>1, <3>1, Committed
    <2>2. ASSUME NEW n \in members, FromMember(r, m, n)
          PROVE  m.company \in Ids'
        <3>1. n.company \in Ids
            BY DEF Sound, MembersOfExisting
        <3> QED BY <2>1, <2>2, <3>1 DEF FromMember, Removes
    <2>3. CASE "joined" \in req[r].wrote /\ m = NewMember(r)
        <3>1. CASE "founded" \in req[r].wrote
            BY <2>3, <3>1, Committed DEF NewMember
        <3>2. CASE "founded" \notin req[r].wrote
            BY <1>1, <1>2, <2>1, <2>3, <3>2 DEF NewMember, Own
        <3> QED BY <3>1, <3>2
    <2> QED BY <1>5, <2>2, <2>3
<1> QED BY <1>6, <1>7, <1>8, <1>9, <1>10, <1>11, <1>12 DEF Sound

(***************************************************************************)
(* Theorems                                                                *)
(***************************************************************************)

LEMMA SoundInvariant == Spec => []Sound
<1>1. Init => Sound
    BY BoundsAssumption, AbsentAssumption
    DEF Init, Sound, TypeOK, Shapes, Transactions, Keys, UniqueDomains,
        OneCompanyPerEmployer, MembersOfExisting
<1>2. Sound /\ [Next]_vars => Sound'
    <2> SUFFICES ASSUME Sound, [Next]_vars
                 PROVE  Sound'
        OBVIOUS
    <2>1. CASE UNCHANGED vars
        BY <2>1 DEF vars, Sound, TypeOK, Shapes, Shape, Transactions, Own, Apart, Ids, Keys,
            UniqueDomains, OneCompanyPerEmployer, MembersOfExisting
    <2>2. ASSUME NEW r \in Request, Commit(r) \/ Abort(r) \/ \E c \in Call : Becomes(r, c)
          PROVE  Sound'
        BY <2>2, CommitSound, AbortSound, StatementSound
    <2> QED BY <2>1, <2>2, StepCases DEF Sound
<1> QED BY <1>1, <1>2, PTL DEF Spec

\* Every table and every request in flight keeps its shape.
THEOREM TypeCorrect == Spec => []TypeOK
<1>1. Sound => TypeOK
    BY DEF Sound
<1> QED BY <1>1, SoundInvariant, PTL

\* Whoever registers, creates or moves companies at the same time: no two have a
\* domain in common.
THEOREM DomainsAreUnique == Spec => []UniqueDomains
<1>1. Sound => UniqueDomains
    BY DEF Sound
<1> QED BY <1>1, SoundInvariant, PTL

\* Whatever registers and assigns an employer at the same time: there is one
\* membership.
THEOREM MembershipsAreUnique == Spec => []OneCompanyPerEmployer
<1>1. Sound => OneCompanyPerEmployer
    BY DEF Sound
<1> QED BY <1>1, SoundInvariant, PTL

\* No membership outlives its company, however joins and deletions interleave.
THEOREM CompaniesOutliveMembers == Spec => []MembersOfExisting
<1>1. Sound => MembersOfExisting
    BY DEF Sound
<1> QED BY <1>1, SoundInvariant, PTL

\* A request that ends in a step that changes a table is the one that commits.
LEMMA Committing ==
    ASSUME Sound, [Next]_vars, NEW r \in Request, req[r] # NoCall, req'[r] = NoCall,
           tables' # tables
    PROVE  Commit(r)
<1>1. CASE UNCHANGED vars
    BY <1>1 DEF vars, tables
<1>2. ASSUME NEW p \in Request, Abort(p) \/ \E c \in Call : Becomes(p, c)
      PROVE  FALSE
    BY <1>2 DEF Abort, Becomes, tables
<1>3. ASSUME NEW p \in Request, Commit(p)
      PROVE  p = r
    BY <1>3, Remaining
<1> QED BY <1>1, <1>2, <1>3, StepCases DEF Sound

\* A company that an employer registers appears together with its owner.
THEOREM FoundersOwn == Spec => FoundedWithOwner
<1> DEFINE Owned == \A r \in Request :
        (/\ req[r] # NoCall /\ req'[r] = NoCall
         /\ req[r].endpoint = "register"
         /\ \E k \in companies' : k.id = req[r].company /\ k.id \notin Ids)
        => [user |-> req[r].user, company |-> req[r].company, role |-> "OWNER"]
            \in members'
<1>1. Sound /\ [Next]_vars => Owned
    <2> SUFFICES ASSUME Sound, [Next]_vars, NEW r \in Request, req[r] # NoCall,
                        req'[r] = NoCall, req[r].endpoint = "register",
                        NEW k \in companies', k.id = req[r].company, k.id \notin Ids
                 PROVE  [user |-> req[r].user, company |-> req[r].company, role |-> "OWNER"]
                            \in members'
        OBVIOUS
    <2>1. Commit(r)
        BY Committing DEF tables, Ids
    <2>2. Founded(r, k)
        <3>1. ASSUME NEW l \in companies, FromCompany(r, k, l)
              PROVE  FALSE
            BY <3>1 DEF FromCompany, Ids
        <3> QED BY <2>1, <3>1, Committed
    <2>3. "joined" \in req[r].wrote /\ req[r].role = "OWNER"
        BY <2>1, <2>2, Committed DEF Founded, Shape
    <2> QED BY <2>1, <2>3, Committed DEF NewMember
<1>2. Owned => [Owned]_vars
    OBVIOUS
<1> QED BY <1>1, SoundInvariant, PTL DEF Spec, FoundedWithOwner

\* A committed assignment leaves its employer in that company and in no other.
THEOREM AssignmentsHold == Spec => AssignmentInForce
<1> DEFINE InForce == \A r \in Request :
        (/\ Commits(r)
         /\ req[r].endpoint = "update_employer"
         /\ req[r].company # NoCompany)
        => {m \in members' : m.user = req[r].user}
            = {[user |-> req[r].user, company |-> req[r].company, role |-> req[r].role]}
<1>1. Sound /\ [Next]_vars => InForce
    <2> SUFFICES ASSUME Sound, [Next]_vars, NEW r \in Request, Commits(r),
                        req[r].endpoint = "update_employer", req[r].company # NoCompany
                 PROVE  {m \in members' : m.user = req[r].user} = {NewMember(r)}
        BY DEF NewMember
    <2>1. Commit(r)
        BY Committing DEF Commits, At
    <2>2. "joined" \in req[r].wrote
        BY <2>1, Committed DEF Shape
    <2>3. NewMember(r) \in members'
        BY <2>1, <2>2, Committed
    <2>4. NewMember(r).user = req[r].user
        BY DEF NewMember
    <2>5. OneCompanyPerEmployer'
        BY <2>1, CommitSound DEF Sound
    <2> QED BY <2>3, <2>4, <2>5 DEF OneCompanyPerEmployer
<1>2. InForce => [InForce]_vars
    OBVIOUS
<1> QED BY <1>1, SoundInvariant, PTL DEF Spec, AssignmentInForce

(***************************************************************************)
(* Overlapping requests add up to whole operations                         *)
(***************************************************************************)

\* What a request may have written when it commits, by its endpoint.
LEMMA WrittenAtCommit ==
    ASSUME Sound, NEW r \in Request, Commit(r)
    PROVE  LET c == req[r] IN
           \/ c.wrote = {}
           \/ c.wrote = {"founded"}
           \/ c.wrote = {"moved"} /\ c.company \in Id
           \/ c.wrote = {"deleted"} /\ c.company \in Id /\ Closing(c)
           \/ c.wrote = {"founded", "joined"} /\ c.user \in User /\ c.role = "OWNER"
           \/ c.wrote = {"joined"} /\ c.user \in User /\ c.company \in Id
                /\ ((Joining(c) /\ c.role = "RECRUITER") \/ c.endpoint = "update_employer")
           \/ c.wrote = {"left", "joined"} /\ c.user \in User /\ c.company \in Id
           \/ c.wrote = {"left"} /\ c.user \in User
           \/ c.wrote = {"promoted"} /\ c.user \in User
<1> DEFINE c == req[r]
<1>1. c \in Call /\ c.step = "commit" /\ Shape(c) /\ c.wrote \subseteq Write
    BY Committed DEF Call
<1> HIDE DEF c
<1>2. CASE c.endpoint = "register"
    <2>1. /\ c.wrote \subseteq {"founded", "joined"} /\ "joined" \in c.wrote
          /\ c.user \in User /\ c.company \in Id
          /\ "founded" \in c.wrote => c.role = "OWNER"
          /\ "founded" \notin c.wrote => c.role = "RECRUITER"
        BY <1>1, <1>2 DEF Shape
    <2>2. \/ c.wrote = {"founded", "joined"}
          \/ c.wrote = {"joined"} /\ Joining(c)
        BY <1>1, <1>2, <2>1 DEF Joining
    <2> QED BY <2>1, <2>2 DEF c
<1>3. CASE c.endpoint = "create_company"
    <2>1. c.wrote \subseteq {"founded"}
        BY <1>1, <1>3 DEF Shape
    <2>2. c.wrote = {} \/ c.wrote = {"founded"}
        BY <2>1
    <2> QED BY <2>2 DEF c
<1>4. CASE c.endpoint = "update_company"
    <2>1. c.wrote \subseteq {"moved"} /\ c.company \in Id
        BY <1>1, <1>4 DEF Shape
    <2>2. c.wrote = {} \/ c.wrote = {"moved"}
        BY <2>1
    <2> QED BY <2>1, <2>2 DEF c
<1>5. CASE c.endpoint = "delete_company"
    <2>1. c.wrote \subseteq {"deleted"} /\ c.company \in Id /\ Closing(c)
        BY <1>1, <1>5 DEF Shape, Closing
    <2>2. c.wrote = {} \/ c.wrote = {"deleted"}
        BY <2>1
    <2> QED BY <2>1, <2>2 DEF c
<1>6. CASE c.endpoint = "update_employer"
    <2>1. /\ c.wrote \subseteq {"left", "joined", "promoted"} /\ c.user \in User
          /\ "promoted" \in c.wrote => c.wrote = {"promoted"}
          /\ "joined" \in c.wrote => c.company \in Id
        BY <1>1, <1>6 DEF Shape
    <2>2. \/ c.wrote = {} \/ c.wrote = {"promoted"} \/ c.wrote = {"left"}
          \/ c.wrote = {"joined"} \/ c.wrote = {"left", "joined"}
        BY <2>1
    <2> QED BY <1>6, <2>1, <2>2 DEF c
<1> QED BY <1>1, <1>2, <1>3, <1>4, <1>5, <1>6 DEF Call, Endpoint

\* The tables after a commit, write by write.
LEMMA CompaniesAfter ==
    ASSUME Sound, NEW r \in Request, Commit(r)
    PROVE  LET c == req[r] IN
           /\ c.wrote \cap {"founded", "moved", "deleted"} = {} => companies' = companies
           /\ c.wrote \in {{"founded"}, {"founded", "joined"}} =>
                companies' = companies \cup {[id |-> c.company, domain |-> c.domain]}
           /\ c.wrote = {"moved"} =>
                companies' = {IF l.id = c.company THEN [id |-> l.id, domain |-> c.domain]
                              ELSE l : l \in companies}
           /\ c.wrote = {"deleted"} =>
                companies' = {l \in companies : l.id # c.company}
<1>1. \A l \in companies : [l EXCEPT !.domain = req[r].domain]
                            = [id |-> l.id, domain |-> req[r].domain]
    BY DEF Sound, TypeOK, Company
<1>2. companies' =
        {IF "moved" \in req[r].wrote /\ l.id = req[r].company
         THEN [id |-> l.id, domain |-> req[r].domain] ELSE l :
            l \in {l \in companies : ~("deleted" \in req[r].wrote /\ l.id = req[r].company)}}
        \cup (IF "founded" \in req[r].wrote
              THEN {[id |-> req[r].company, domain |-> req[r].domain]} ELSE {})
    BY <1>1 DEF Commit, Companies
<1>3. CASE "moved" \notin req[r].wrote /\ "deleted" \notin req[r].wrote
    BY <1>2, <1>3
<1>4. CASE req[r].wrote = {"moved"}
    BY <1>2, <1>4
<1>5. CASE req[r].wrote = {"deleted"}
    BY <1>2, <1>5
<1> QED BY <1>3, <1>4, <1>5

LEMMA MembersAfter ==
    ASSUME Sound, NEW r \in Request, Commit(r)
    PROVE  LET c == req[r]
               others == {m \in members : m.user # c.user}
           IN
           /\ c.wrote \cap {"joined", "left", "promoted", "deleted"} = {} => members' = members
           /\ c.wrote = {"deleted"} => members' = {m \in members : m.company # c.company}
           /\ c.wrote \in {{"joined"}, {"founded", "joined"}, {"left", "joined"}} =>
                members' = others \cup {NewMember(r)}
           /\ c.wrote = {"left"} => members' = others
           /\ c.wrote = {"promoted"} =>
                members' = {IF m.user = c.user
                            THEN [user |-> m.user, company |-> m.company, role |-> c.role]
                            ELSE m : m \in members}
<1>1. \A m \in members : [m EXCEPT !.role = req[r].role]
                            = [user |-> m.user, company |-> m.company, role |-> req[r].role]
    BY DEF Sound, TypeOK, Member
<1>2. members' =
        {IF "promoted" \in req[r].wrote /\ m.user = req[r].user
         THEN [user |-> m.user, company |-> m.company, role |-> req[r].role] ELSE m :
            m \in {m \in members : ~Removes(r, m)}}
        \cup (IF "joined" \in req[r].wrote THEN {NewMember(r)} ELSE {})
    <2>1. members' = Members(r)
        BY DEF Commit
    <2>2. {IF "promoted" \in req[r].wrote /\ m.user = req[r].user
           THEN [m EXCEPT !.role = req[r].role] ELSE m :
              m \in {m \in members : ~Removes(r, m)}}
          = {IF "promoted" \in req[r].wrote /\ m.user = req[r].user
             THEN [user |-> m.user, company |-> m.company, role |-> req[r].role] ELSE m :
                m \in {m \in members : ~Removes(r, m)}}
        BY <1>1
    <2> QED BY <2>1, <2>2, Zenon DEF Members, NewMember
<1>3. CASE req[r].wrote \cap {"joined", "left", "promoted", "deleted"} = {}
    BY <1>2, <1>3 DEF Removes
<1>4. CASE req[r].wrote = {"deleted"}
    BY <1>2, <1>4 DEF Removes
<1>5. CASE req[r].wrote \in {{"joined"}, {"founded", "joined"}}
    <2>1. \A m \in members : m.user # req[r].user /\ ~Removes(r, m)
        BY <1>5, Committed DEF Own, Removes
    <2>2. members' = members \cup {NewMember(r)}
        BY <1>2, <1>5, <2>1
    <2> QED BY <1>5, <2>1, <2>2
<1>6. CASE req[r].wrote = {"left", "joined"}
    BY <1>2, <1>6 DEF Removes
<1>7. CASE req[r].wrote = {"left"}
    BY <1>2, <1>7 DEF Removes
<1>8. CASE req[r].wrote = {"promoted"}
    BY <1>2, <1>8 DEF Removes
<1> QED BY <1>3, <1>4, <1>5, <1>6, <1>7, <1>8

\* The directory at a key: the domain of the only row with it.
LEMMA SiteOf ==
    ASSUME Sound, NEW id \in Id
    PROVE  /\ Site[id] = {k.domain : k \in {k \in companies : k.id = id}}
           /\ \A k \in companies : k.id = id => Site[id] = {k.domain}
           /\ id \notin Ids => Site[id] = {}
           /\ D!Listed(id) <=> id \in Ids
<1>1. Site[id] = {k.domain : k \in {k \in companies : k.id = id}}
    BY DEF Site
<1>2. ASSUME NEW k \in companies, k.id = id
      PROVE  Site[id] = {k.domain}
    BY <1>1, <1>2 DEF Sound, Keys
<1>3. id \notin Ids => Site[id] = {}
    BY <1>1 DEF Ids
<1>4. D!Listed(id) <=> id \in Ids
    BY <1>2, <1>3 DEF D!Listed, Ids
<1> QED BY <1>1, <1>2, <1>3, <1>4

\* Nobody has a place at id if there is no row that says so.
LEMMA EmptyOf ==
    ASSUME TypeOK, NEW id
    PROVE  D!Empty(id) <=> \A m \in members : m.company # id
<1>1. ASSUME D!Empty(id), NEW m \in members
      PROVE  m.company # id
    <2>1. m.user \in User
        BY DEF TypeOK, Member
    <2>2. [company |-> m.company, role |-> m.role] \in Place[m.user]
        BY <2>1 DEF Place
    <2> QED BY <1>1, <2>1, <2>2 DEF D!Empty
<1>2. ASSUME \A m \in members : m.company # id
      PROVE  D!Empty(id)
    BY <1>2 DEF D!Empty, Place
<1> QED BY <1>1, <1>2

\* Which decisions another commit has outrun.
LEMMA PeopledOf ==
    ASSUME NEW q \in Request, req[q] # NoCall, Closing(req[q]),
           NEW m \in members, m.company = req[q].company
    PROVE  req[q].company \in Peopled
<1>1. q \in Late
    BY DEF Late, Outrun
<1> QED BY <1>1 DEF Peopled

LEMMA StrayedOf ==
    ASSUME NEW q \in Request, req[q] # NoCall, Joining(req[q]),
           NEW k \in companies, k.id = req[q].company, k.domain # EmailDomain[req[q].user]
    PROVE  <<req[q].user, req[q].company>> \in Strayed
<1>1. q \in Late
    BY DEF Late, Outrun
<1> QED BY <1>1 DEF Strayed

\* A statement or a rollback outruns none: what a request decides holds then.
LEMMA Quiet ==
    ASSUME Sound, NEW r \in Request, Abort(r) \/ \E c \in Call : Becomes(r, c)
    PROVE  D!GiveUp
<1>1. companies' = companies /\ members' = members
    BY DEF Abort, Becomes, tables
<1>2. ASSUME NEW q \in Request, req'[q] # NoCall, Decided(req'[q]), Outrun(req[q])'
      PROVE  /\ req[q] # NoCall /\ Outrun(req[q])
             /\ req'[q].company = req[q].company /\ req'[q].user = req[q].user
             /\ Closing(req'[q]) => Closing(req[q])
             /\ Joining(req'[q]) => Joining(req[q])
    <2>1. Outrun(req'[q])
        BY <1>1, <1>2 DEF Outrun
    <2>2. CASE q # r \/ Abort(r)
        <3>1. req'[q] = req[q]
            BY <1>2, <2>2 DEF Abort, Becomes, Sound, TypeOK
        <3> QED BY <1>2, <2>1, <3>1
    <2>3. ASSUME q = r, NEW c \in Call, Becomes(r, c)
          PROVE  /\ req[q] # NoCall /\ Outrun(req[q])
                 /\ req'[q].company = req[q].company /\ req'[q].user = req[q].user
                 /\ Closing(req'[q]) => Closing(req[q])
                 /\ Joining(req'[q]) => Joining(req[q])
        <3>1. req'[q] = c
            BY <2>3 DEF Becomes, Sound, TypeOK
        <3>2. /\ req[q] # NoCall /\ c.company = req[q].company /\ c.user = req[q].user
              /\ Closing(c) => Closing(req[q])
              /\ Joining(c) => Joining(req[q])
            BY <1>2, <2>1, <2>3, <3>1 DEF Becomes, Keeps
        <3> QED BY <2>1, <3>1, <3>2 DEF Outrun
    <2> QED BY <2>2, <2>3
<1>3. Peopled' \subseteq Peopled
    <2> SUFFICES ASSUME NEW id \in Peopled'
                 PROVE  id \in Peopled
        OBVIOUS
    <2>1. PICK q \in Request : /\ req'[q] # NoCall /\ Closing(req'[q]) /\ Outrun(req[q])'
                               /\ id = req'[q].company
        BY DEF Peopled, Late, Outrun, Closing, Joining
    <2>2. /\ req[q] # NoCall /\ Outrun(req[q]) /\ req'[q].company = req[q].company
          /\ Closing(req[q])
        BY <1>2, <2>1 DEF Decided
    <2> QED BY <2>1, <2>2 DEF Peopled, Late
<1>4. Strayed' \subseteq Strayed
    <2> SUFFICES ASSUME NEW x \in Strayed'
                 PROVE  x \in Strayed
        OBVIOUS
    <2>1. PICK q \in Request : /\ req'[q] # NoCall /\ Joining(req'[q]) /\ Outrun(req[q])'
                               /\ x = <<req'[q].user, req'[q].company>>
        BY DEF Strayed, Late, Outrun, Closing, Joining
    <2>2. /\ req[q] # NoCall /\ Outrun(req[q]) /\ req'[q].company = req[q].company
          /\ req'[q].user = req[q].user /\ Joining(req[q])
        BY <1>2, <2>1 DEF Decided
    <2> QED BY <2>1, <2>2 DEF Strayed, Late
<1> QED BY <1>1, <1>3, <1>4 DEF D!GiveUp, D!Outruns, Site, Place

\* What a commit outruns: the deletion of a company that gets its first member,
\* and the decision to join a company that loses the domain for it.
Peopling(r) == IF req[r].wrote \in {{"joined"}, {"left", "joined"}}
               THEN D!Peopling(req[r].company) ELSE {}
Straying(r) == IF req[r].wrote = {"moved"}
               THEN D!Straying(req[r].company, req[r].domain) ELSE {}

LEMMA CommitOutruns ==
    ASSUME Sound, NEW r \in Request, Commit(r)
    PROVE  D!Outruns(Peopling(r), Straying(r))
<1>1. ASSUME NEW q \in Request, req'[q] # NoCall, Decided(req'[q])
      PROVE  /\ req[q] # NoCall /\ req[q] \in Call /\ Shape(req[q])
             /\ req'[q].company = req[q].company /\ req'[q].user = req[q].user
             /\ Closing(req'[q]) => Closing(req[q])
             /\ Joining(req'[q]) => Joining(req[q])
             /\ "founded" \in req[r].wrote => req[q].company # req[r].company
    BY <1>1, Remaining DEF Decided, Apart
<1>2. ASSUME NEW id \in Peopled'
      PROVE  id \in Peopled \cup Peopling(r)
    <2>1. PICK q \in Request : /\ req'[q] # NoCall /\ Closing(req'[q]) /\ id = req'[q].company
                               /\ \E m \in members' : m.company = id
        BY DEF Peopled, Late, Outrun, Closing, Joining
    <2>2. /\ req[q] # NoCall /\ Closing(req[q]) /\ id = req[q].company
          /\ "founded" \in req[r].wrote => id # req[r].company
        BY <1>1, <2>1 DEF Decided
    <2>3. CASE \E n \in members : n.company = id
        BY <2>2, <2>3, PeopledOf
    <2>4. CASE \A n \in members : n.company # id
        <3>1. "joined" \in req[r].wrote /\ id = req[r].company
            <4>1. PICK m \in members' : m.company = id
                BY <2>1
            <4>2. ~\E n \in members : FromMember(r, m, n)
                BY <2>4, <4>1 DEF FromMember
            <4>3. "joined" \in req[r].wrote /\ m = NewMember(r)
                BY <4>2, Committed
            <4> QED BY <4>1, <4>3 DEF NewMember
        <3>2. req[r].wrote \in {{"joined"}, {"left", "joined"}}
            BY <2>2, <3>1, WrittenAtCommit
        <3>3. D!Empty(id)
            BY <2>4, EmptyOf DEF Sound
        <3> QED BY <3>1, <3>2, <3>3 DEF Peopling, D!Peopling
    <2> QED BY <2>3, <2>4
<1>3. ASSUME NEW x \in Strayed'
      PROVE  x \in Strayed \cup Straying(r)
    <2>1. PICK q \in Request : /\ req'[q] # NoCall /\ Joining(req'[q])
                               /\ x = <<req'[q].user, req'[q].company>>
                               /\ \E k \in companies' : /\ k.id = req'[q].company
                                                         /\ k.domain # EmailDomain[req'[q].user]
        BY DEF Strayed, Late, Outrun, Closing, Joining
    <2>2. /\ req[q] # NoCall /\ Joining(req[q]) /\ Shape(req[q])
          /\ x = <<req[q].user, req[q].company>>
          /\ \E k \in companies' : /\ k.id = req[q].company
                                    /\ k.domain # EmailDomain[req[q].user]
          /\ "founded" \in req[r].wrote => req[q].company # req[r].company
        BY <1>1, <2>1 DEF Decided
    <2>3. req[q].user \in User /\ req[q].company \in Id
        BY <2>2 DEF Joining, Shape
    <2>4. PICK k \in companies' : k.id = req[q].company /\ k.domain # EmailDomain[req[q].user]
        BY <2>2
    <2>5. PICK l \in companies : FromCompany(r, k, l)
        BY <2>2, <2>4, Committed DEF Founded
    <2>6. CASE l.domain # EmailDomain[req[q].user]
        BY <2>2, <2>4, <2>5, <2>6, StrayedOf DEF FromCompany
    <2>7. CASE l.domain = EmailDomain[req[q].user]
        <3>1. /\ "moved" \in req[r].wrote /\ k.domain = req[r].domain
              /\ l.id = req[r].company /\ l.id = req[q].company
            BY <2>4, <2>5, <2>7 DEF FromCompany
        <3>2. req[r].wrote = {"moved"}
            BY <3>1, WrittenAtCommit
        <3>3. Site[req[q].company] = {EmailDomain[req[q].user]}
            BY <2>3, <2>7, <3>1, SiteOf
        <3> QED BY <2>2, <2>3, <2>4, <3>1, <3>2, <3>3 DEF Straying, D!Straying
    <2> QED BY <2>6, <2>7
<1> QED BY <1>2, <1>3 DEF D!Outruns

\* What r has written to the domains is free when it commits.
LEMMA FreeAtCommit ==
    ASSUME Sound, NEW r \in Request, Commit(r), req[r].company \in Id,
           req[r].wrote \cap {"founded", "moved"} # {}
    PROVE  D!Free(req[r].domain, req[r].company)
<1>1. CASE req[r].domain # NoDomain
    <2> SUFFICES ASSUME NEW id \in Id \ {req[r].company}, req[r].domain \in Site[id]
                 PROVE  FALSE
        BY DEF D!Free
    <2>1. PICK k \in companies : k.id = id /\ k.domain = req[r].domain
        BY SiteOf
    <2> QED BY <1>1, <2>1, Committed DEF Own
<1> QED BY <1>1 DEF D!Free

\* A company that appears: nobody had its key or its domain.
LEMMA Enlists ==
    ASSUME Sound, NEW r \in Request, Commit(r),
           req[r].wrote \in {{"founded"}, {"founded", "joined"}}
    PROVE  req[r].company \in Id /\ D!Enlist(req[r].company, req[r].domain)
<1> DEFINE key == req[r].company
           d == req[r].domain
<1>1. key \in Id /\ key \notin Ids
    <2>1. key \notin Ids /\ key \in Ids'
        BY Committed DEF Own
    <2>2. TypeOK'
        BY CommitSound DEF Sound
    <2> QED BY <2>1, <2>2 DEF TypeOK, Company, Ids
<1>2. companies' = companies \cup {[id |-> key, domain |-> d]}
    BY CompaniesAfter
<1>3. D!Free(d, key)
    BY <1>1, FreeAtCommit
<1> HIDE DEF key, d
<1>4. \A k \in companies : k.id # key
    BY <1>1 DEF Ids
<1>5. ASSUME NEW id \in Id
      PROVE  {k.domain : k \in {k \in companies' : k.id = id}}
              = IF id = key THEN {d} ELSE {k.domain : k \in {k \in companies : k.id = id}}
    <2>1. CASE id = key
        <3>1. {k \in companies' : k.id = id} = {[id |-> key, domain |-> d]}
            BY <1>2, <1>4, <2>1
        <3>2. {k.domain : k \in {[id |-> key, domain |-> d]}} = {d}
            OBVIOUS
        <3> QED BY <2>1, <3>1, <3>2, Zenon
    <2>2. CASE id # key
        <3>1. {k \in companies' : k.id = id} = {k \in companies : k.id = id}
            BY <1>2, <2>2
        <3> QED BY <2>2, <3>1
    <2> QED BY <2>1, <2>2
<1>6. Site' = [Site EXCEPT ![key] = {d}]
    BY <1>1, <1>5 DEF Site
<1>7. ~D!Listed(key)
    BY <1>1, SiteOf
<1> QED BY <1>1, <1>3, <1>6, <1>7 DEF D!Enlist, key, d

\* A company that moves: its new domain is nobody else's.
LEMMA Moves ==
    ASSUME Sound, NEW r \in Request, Commit(r), req[r].wrote = {"moved"},
           req[r].company \in Id
    PROVE  D!Move(req[r].company, req[r].domain) \/ D!GiveUp
<1> DEFINE key == req[r].company
           d == req[r].domain
<1>1. companies' = {IF l.id = key THEN [id |-> l.id, domain |-> d] ELSE l : l \in companies}
    BY CompaniesAfter
<1>2. members' = members
    BY MembersAfter
<1>3. D!Free(d, key) /\ D!Outruns({}, D!Straying(key, d))
    BY FreeAtCommit, CommitOutruns DEF Peopling, Straying
<1> HIDE DEF key, d
<1>4. UNCHANGED Place
    BY <1>2 DEF Place
<1>5. CASE key \notin Ids
    <2>1. companies' = companies
        BY <1>1, <1>5 DEF Ids
    <2>2. D!Straying(key, d) = {}
        <3>1. Site[key] = {}
            BY <1>5, SiteOf DEF key
        <3> QED BY <3>1 DEF D!Straying
    <2> QED BY <1>3, <1>4, <2>1, <2>2 DEF D!GiveUp, Site
<1>6. CASE key \in Ids
    <2>1. PICK l \in companies : l.id = key
        BY <1>6 DEF Ids
    <2>2. ASSUME NEW id \in Id
          PROVE  {k.domain : k \in {k \in companies' : k.id = id}}
                  = IF id = key THEN {d} ELSE {k.domain : k \in {k \in companies : k.id = id}}
        <3>1. CASE id = key
            <4>1. [id |-> key, domain |-> d] \in companies'
                BY <1>1, <2>1
            <4>2. \A k \in companies' : k.id = key => k = [id |-> key, domain |-> d]
                BY <1>1
            <4> QED BY <3>1, <4>1, <4>2
        <3>2. CASE id # key
            <4>1. {k \in companies' : k.id = id} = {k \in companies : k.id = id}
                BY <1>1, <3>2
            <4> QED BY <3>2, <4>1
        <3> QED BY <3>1, <3>2
    <2>3. Site' = [Site EXCEPT ![key] = {d}]
        BY <2>2 DEF Site
    <2>4. D!Listed(key)
        BY <1>6, SiteOf DEF key
    <2> QED BY <1>3, <1>4, <2>3, <2>4 DEF D!Move, key, d
<1> QED BY <1>5, <1>6

\* A company that goes, with those who work for it: nobody, unless they came
\* while it was being deleted.
LEMMA Closes ==
    ASSUME Sound, NEW r \in Request, Commit(r), req[r].wrote = {"deleted"},
           req[r].company \in Id, Closing(req[r])
    PROVE  D!Close(req[r].company) \/ D!GiveUp
<1> DEFINE key == req[r].company
<1>1. companies' = {l \in companies : l.id # key}
    BY CompaniesAfter
<1>2. members' = {m \in members : m.company # key}
    BY MembersAfter
<1> HIDE DEF key
<1>3. D!Outruns({}, {})
    BY CommitOutruns DEF Peopling, Straying
<1>4. CASE key \notin Ids
    <2>1. companies' = companies /\ members' = members
        BY <1>1, <1>2, <1>4 DEF Ids, Sound, MembersOfExisting
    <2> QED BY <1>3, <2>1 DEF D!GiveUp, Site, Place
<1>5. CASE key \in Ids
    <2>1. ASSUME NEW id \in Id
          PROVE  {k.domain : k \in {k \in companies' : k.id = id}}
                  = IF id = key THEN {} ELSE {k.domain : k \in {k \in companies : k.id = id}}
        <3>1. {k \in companies' : k.id = id}
                = IF id = key THEN {} ELSE {k \in companies : k.id = id}
            BY <1>1
        <3> QED BY <3>1
    <2>2. Site' = [Site EXCEPT ![key] = {}]
        BY <2>1 DEF Site
    <2>3. ASSUME NEW u \in User
          PROVE  {[company |-> m.company, role |-> m.role] :
                    m \in {m \in members' : m.user = u}}
                 = {p \in {[company |-> m.company, role |-> m.role] :
                        m \in {m \in members : m.user = u}} : p.company # key}
        BY <1>2
    <2>4. Place' = [u \in User |-> {p \in Place[u] : p.company # key}]
        BY <2>3 DEF Place
    <2>5. D!Listed(key)
        BY <1>5, SiteOf DEF key
    <2>6. D!Empty(key) \/ key \in Peopled
        BY EmptyOf, PeopledOf, Committed DEF Sound, key
    <2> QED BY <1>3, <2>2, <2>4, <2>5, <2>6 DEF D!Close, key
<1> QED BY <1>4, <1>5

\* The companies and roles of u in rows of members.
PlaceIn(rows, u) == {[company |-> m.company, role |-> m.role] : m \in {m \in rows : m.user = u}}

\* An employer who gets a company, in place of any other.
LEMMA Joins ==
    ASSUME Sound, NEW r \in Request, Commit(r), req[r].user \in User,
           req[r].wrote \in {{"joined"}, {"founded", "joined"}, {"left", "joined"}}
    PROVE  /\ Place' = [Place EXCEPT ![req[r].user] = D!As(req[r].company, req[r].role)]
           /\ "left" \notin req[r].wrote => Place[req[r].user] = {}
<1> DEFINE who == req[r].user
           new == NewMember(r)
           place == [company |-> req[r].company, role |-> req[r].role]
<1>1. new.user = who /\ [company |-> new.company, role |-> new.role] = place
    BY DEF NewMember
<1>2. members' = {m \in members : m.user # who} \cup {new}
    BY MembersAfter
<1>3. "left" \notin req[r].wrote => Place[who] = {}
    <2>1. "left" \notin req[r].wrote => {m \in members : m.user = who} = {}
        BY Committed DEF Own
    <2> QED BY <2>1 DEF Place
<1>4. D!As(req[r].company, req[r].role) = {place}
    BY DEF D!As
<1> HIDE DEF who, new, place
<1>5. ASSUME NEW u \in User
      PROVE  PlaceIn(members', u) = IF u = who THEN {place} ELSE PlaceIn(members, u)
    <2>1. CASE u = who
        <3>1. {m \in members' : m.user = u} = {new}
            BY <1>1, <1>2, <2>1
        <3> QED BY <1>1, <2>1, <3>1 DEF PlaceIn
    <2>2. CASE u # who
        <3>1. {m \in members' : m.user = u} = {m \in members : m.user = u}
            BY <1>1, <1>2, <2>2
        <3> QED BY <2>2, <3>1 DEF PlaceIn
    <2> QED BY <2>1, <2>2
<1>6. Place' = [Place EXCEPT ![who] = {place}]
    BY <1>5 DEF Place, PlaceIn
<1> QED BY <1>3, <1>4, <1>6 DEF who

\* An employer who registers a company.
LEMMA Founds ==
    ASSUME Sound, NEW r \in Request, Commit(r), req[r].user \in User,
           req[r].wrote = {"founded", "joined"}, req[r].role = "OWNER"
    PROVE  /\ D!Found(req[r].user, req[r].company, req[r].domain)
           /\ req[r].company \in Id
<1>1. D!Outruns({}, {})
    BY CommitOutruns DEF Peopling, Straying
<1> QED BY <1>1, Enlists, Joins DEF D!Found

\* An employer who joins a company: it is of the domain of the employer's address,
\* unless it got another one after the employer had found it.
LEMMA JoinsExisting ==
    ASSUME Sound, NEW r \in Request, Commit(r), req[r].user \in User, req[r].company \in Id,
           req[r].wrote = {"joined"}, Joining(req[r]), req[r].role = "RECRUITER"
    PROVE  D!Join(req[r].user, req[r].company)
<1> DEFINE id == req[r].company
           u == req[r].user
<1>1. UNCHANGED Site
    BY CompaniesAfter DEF Site
<1>2. PICK k \in companies : k.id = id
    BY Committed DEF Own, Ids
<1>3. Site[id] = {k.domain} /\ D!Listed(id)
    BY <1>2, SiteOf DEF Ids
<1>4. Site[id] = {EmailDomain[u]} \/ <<u, id>> \in Strayed
    BY <1>2, <1>3, Committed, StrayedOf
<1>5. D!Outruns(D!Peopling(id), {})
    BY CommitOutruns DEF Peopling, Straying
<1> QED BY <1>1, <1>3, <1>4, <1>5, Joins DEF D!Join

\* An employer who loses the company, while the others keep theirs.
LEMMA Leaves ==
    ASSUME Sound, NEW r \in Request, Commit(r), req[r].user \in User,
           req[r].wrote = {"left"}
    PROVE  Place' = [Place EXCEPT ![req[r].user] = {}]
<1> DEFINE who == req[r].user
<1>1. members' = {m \in members : m.user # who}
    BY MembersAfter
<1> HIDE DEF who
<1>2. ASSUME NEW u \in User
      PROVE  PlaceIn(members', u) = IF u = who THEN {} ELSE PlaceIn(members, u)
    <2>1. {m \in members' : m.user = u} = IF u = who THEN {} ELSE {m \in members : m.user = u}
        BY <1>1
    <2> QED BY <2>1 DEF PlaceIn
<1>3. Place' = [Place EXCEPT ![who] = {}]
    BY <1>2 DEF Place, PlaceIn
<1> QED BY <1>3 DEF who

\* An employer whose role changes in the company of the only membership.
LEMMA Promotes ==
    ASSUME Sound, NEW r \in Request, Commit(r), req[r].wrote = {"promoted"},
           req[r].user \in User
    PROVE  D!Promote(req[r].user, req[r].role) \/ D!GiveUp
<1> DEFINE who == req[r].user
           role == req[r].role
<1>1. members' = {IF m.user = who THEN [user |-> m.user, company |-> m.company, role |-> role]
                  ELSE m : m \in members}
    BY MembersAfter
<1>2. companies' = companies
    BY CompaniesAfter
<1> HIDE DEF who, role
<1>3. UNCHANGED Site
    BY <1>2 DEF Site
<1>4. D!Outruns({}, {})
    BY CommitOutruns DEF Peopling, Straying
<1>5. CASE \A m \in members : m.user # who
    <2>1. members' = members
        BY <1>1, <1>5
    <2> QED BY <1>3, <1>4, <2>1 DEF D!GiveUp, Place
<1>6. ASSUME NEW n \in members, n.user = who
      PROVE  D!Promote(who, role)
    <2> DEFINE changed == [user |-> who, company |-> n.company, role |-> role]
               place == [company |-> n.company, role |-> role]
    <2>1. \A m \in members : m.user = who => m = n
        BY <1>6 DEF Sound, OneCompanyPerEmployer
    <2>2. /\ changed \in members' /\ changed.user = who
          /\ [company |-> changed.company, role |-> changed.role] = place
        BY <1>1, <1>6
    <2>3. \A m \in members' : m.user = who => m = changed
        BY <1>1, <1>6, <2>1
    <2>4. ASSUME NEW u \in User
          PROVE  PlaceIn(members', u) = IF u = who THEN {place} ELSE PlaceIn(members, u)
        <3> HIDE DEF changed, place
        <3>1. CASE u = who
            <4>1. {m \in members' : m.user = u} = {changed}
                BY <2>2, <2>3, <3>1
            <4> QED BY <2>2, <3>1, <4>1 DEF PlaceIn
        <3>2. CASE u # who
            <4>1. {m \in members' : m.user = u} = {m \in members : m.user = u}
                BY <1>1, <3>2
            <4> QED BY <3>2, <4>1 DEF PlaceIn
        <3> QED BY <3>1, <3>2
    <2>5. Place' = [Place EXCEPT ![who] = D!As(n.company, role)]
        BY <2>4 DEF Place, PlaceIn, D!As
    <2>6. [company |-> n.company, role |-> n.role] \in Place[who]
        BY <1>6 DEF Place, who
    <2> QED BY <1>3, <1>4, <2>5, <2>6 DEF D!Promote
<1> QED BY <1>3, <1>5, <1>6 DEF who, role

\* A commit is one operation on the directory, which the tables allow then.
LEMMA CommitIsOperation ==
    ASSUME Sound, NEW r \in Request, Commit(r)
    PROVE  D!OfCompanies \/ D!OfEmployers \/ D!GiveUp
<1> DEFINE c == req[r]
<1>1. /\ c.role \in Role /\ c.domain \in Domain \cup {NoDomain} /\ Shape(c)
    BY Committed DEF Call
<1>2. /\ c.wrote \cap {"founded", "moved", "deleted"} = {} => UNCHANGED Site
      /\ c.wrote \cap {"joined", "left", "promoted", "deleted"} = {} => UNCHANGED Place
    BY CompaniesAfter, MembersAfter DEF Site, Place
<1>3. /\ c.wrote \notin {{"joined"}, {"left", "joined"}, {"moved"}} => D!Outruns({}, {})
      /\ c.wrote \in {{"joined"}, {"left", "joined"}} => D!Outruns(D!Peopling(c.company), {})
    BY CommitOutruns DEF Peopling, Straying
<1>4. CASE c.wrote = {}
    BY <1>2, <1>3, <1>4 DEF D!GiveUp
<1>5. CASE c.wrote = {"founded"}
    <2>1. D!Create(c.company, c.domain) /\ c.company \in Id
        BY <1>2, <1>3, <1>5, Enlists DEF D!Create
    <2> QED BY <1>1, <2>1 DEF D!OfCompanies
<1>6. CASE c.wrote = {"moved"} /\ c.company \in Id
    BY <1>1, <1>6, Moves DEF D!OfCompanies
<1>7. CASE c.wrote = {"deleted"} /\ c.company \in Id /\ Closing(c)
    BY <1>1, <1>7, Closes DEF D!OfCompanies
<1>8. CASE c.wrote = {"founded", "joined"} /\ c.user \in User /\ c.role = "OWNER"
    <2>1. D!Found(c.user, c.company, c.domain) /\ c.company \in Id
        BY <1>8, Founds
    <2> QED BY <1>1, <1>8, <2>1 DEF D!OfCompanies
<1>9. CASE /\ c.wrote = {"joined"} /\ c.user \in User /\ c.company \in Id
           /\ Joining(c) /\ c.role = "RECRUITER"
    <2>1. D!Join(c.user, c.company)
        BY <1>9, JoinsExisting
    <2> QED BY <1>9, <2>1 DEF D!OfEmployers
<1>10. CASE /\ c.wrote \in {{"joined"}, {"left", "joined"}} /\ c.user \in User
            /\ c.company \in Id
    <2>1. UNCHANGED Site
        BY <1>2, <1>10
    <2>2. D!Listed(c.company)
        <3>1. c.company \in Ids
            BY <1>10, Committed DEF Own
        <3> QED BY <1>10, <3>1, SiteOf
    <2>3. D!Assign(c.user, c.company, c.role)
        BY <1>3, <1>10, <2>1, <2>2, Joins DEF D!Assign
    <2> QED BY <1>1, <1>10, <2>3 DEF D!OfEmployers
<1>11. CASE c.wrote = {"left"} /\ c.user \in User
    <2>1. D!Dismiss(c.user)
        BY <1>2, <1>3, <1>11, Leaves DEF D!Dismiss
    <2> QED BY <1>11, <2>1 DEF D!OfEmployers
<1>12. CASE c.wrote = {"promoted"} /\ c.user \in User
    BY <1>1, <1>12, Promotes DEF D!OfEmployers
<1> QED BY <1>4, <1>5, <1>6, <1>7, <1>8, <1>9, <1>10, <1>11, <1>12, WrittenAtCommit

\* However registrations, creations, updates, deletions and assignments overlap,
\* the committed tables go from one whole operation to the next, each allowed by
\* the tables it changes, but for the deletions and joins that another commit has
\* overtaken.
THEOREM ImplementsDirectory == Spec => OneOperationAtATime
<1> DEFINE Operation == [D!OfCompanies \/ D!OfEmployers \/ D!GiveUp]_(D!vars)
<1>1. Init => D!Init
    BY DEF Init, D!Init, Site, Place, Peopled, Strayed, Late
<1>2. Sound /\ [Next]_vars => Operation
    <2> SUFFICES ASSUME Sound, [Next]_vars
                 PROVE  Operation
        OBVIOUS
    <2>1. CASE UNCHANGED vars
        BY <2>1 DEF vars, D!vars, Site, Place, Peopled, Strayed, Late, Outrun
    <2>2. ASSUME NEW r \in Request, Commit(r)
          PROVE  Operation
        BY <2>2, CommitIsOperation
    <2>3. ASSUME NEW r \in Request, Abort(r) \/ \E c \in Call : Becomes(r, c)
          PROVE  Operation
        BY <2>3, Quiet
    <2> QED BY <2>1, <2>2, <2>3, StepCases DEF Sound
<1> QED BY <1>1, <1>2, SoundInvariant, PTL DEF Spec, OneOperationAtATime, D!Spec

\* A registration that commits founds a company or joins one, and what it had
\* looked up is still so, or the company to join has got another domain since.
THEOREM RegistrationsHold == Spec => RegistrationsComeTrue
<1> DEFINE ComeTrue == \A r \in Request :
        (Commits(r) /\ req[r].endpoint = "register")
        => \/ D!Found(req[r].user, req[r].company, req[r].domain)
           \/ D!Join(req[r].user, req[r].company)
<1>1. Sound /\ [Next]_vars => ComeTrue
    <2> SUFFICES ASSUME Sound, [Next]_vars, NEW r \in Request, Commits(r),
                        req[r].endpoint = "register"
                 PROVE  \/ D!Found(req[r].user, req[r].company, req[r].domain)
                        \/ D!Join(req[r].user, req[r].company)
        OBVIOUS
    <2>1. Commit(r)
        BY Committing DEF Commits, At
    <2>2. /\ req[r].wrote \subseteq {"founded", "joined"} /\ "joined" \in req[r].wrote
          /\ req[r].user \in User /\ req[r].company \in Id
          /\ "founded" \in req[r].wrote => req[r].role = "OWNER"
          /\ "founded" \notin req[r].wrote => req[r].role = "RECRUITER"
        BY <2>1, Committed DEF Shape
    <2>3. CASE "founded" \in req[r].wrote
        <3>1. req[r].wrote = {"founded", "joined"}
            BY <2>2, <2>3
        <3> QED BY <2>1, <2>2, <2>3, <3>1, Founds
    <2>4. CASE "founded" \notin req[r].wrote
        <3>1. req[r].wrote = {"joined"}
            BY <2>2, <2>4
        <3>2. Joining(req[r])
            BY <2>1, <2>4, Committed DEF Joining
        <3> QED BY <2>1, <2>2, <2>4, <3>1, <3>2, JoinsExisting
    <2> QED BY <2>3, <2>4
<1>2. ComeTrue => [ComeTrue]_vars
    OBVIOUS
<1> QED BY <1>1, <1>2, SoundInvariant, PTL DEF Spec, RegistrationsComeTrue

=============================================================================
