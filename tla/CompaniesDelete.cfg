\* A company is deleted while an employer joins it.
SPECIFICATION Spec
CONSTANTS
    u1 = u1  u2 = u2  d1 = d1  d2 = d2
    r1 = r1  r2 = r2
    User = {u1}
    Domain = {d1}
    EmailDomain <- MCEmailDomain
    Roles = {"RECRUITER"}
    Request = {r1, r2}
    MaxCompanies = 2
    MaxCalls = 3
    NoUser = NoUser
    NoDomain = NoDomain
    NoCompany = NoCompany
    NoCall = NoCall
\* A behaviour ends once it has admitted MaxCalls requests.
CHECK_DEADLOCK FALSE
SYMMETRY Symmetry
PROPERTIES
    MembershipsProtected
