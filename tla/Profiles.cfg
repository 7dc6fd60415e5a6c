\* Two accounts, two columns, three requests at a time.
SPECIFICATION Spec
CONSTANTS
    u1 = u1  u2 = u2
    name = name  company = company
    v1 = v1
    t1 = t1
    r1 = r1  r2 = r2  r3 = r3
    User = {u1, u2}
    Field = {name, company}
    AdminFields = {name}
    CompanyField = company
    Value = {v1}
    Null = Null
    Token = {t1}
    Request = {r1, r2, r3}
    MaxCalls = 3
    NoToken = NoToken
    NoProfile = NoProfile
    NoCall = NoCall
\* A behaviour ends once it has admitted MaxCalls requests.
CHECK_DEADLOCK FALSE
SYMMETRY Symmetry
INVARIANTS
    TypeOK
    PushTokens
    DeadlockNeedsDeletion
PROPERTIES
    OtherColumnsStay
    EditsTakeEffect
