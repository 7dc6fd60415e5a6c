\* Two administrators deactivate each other.
SPECIFICATION Spec
CONSTANTS
    u1 = u1  u2 = u2
    r1 = r1  r2 = r2
    User = {u1, u2}
    Request = {r1, r2}
    Endpoints = {"update_user_status"}
    Grants <- MCGrants
    Requested = {"CANDIDATE"}
    MaxCalls = 2
    NoUser = NoUser
    NoIdentity = NoIdentity
    NoCall = NoCall
\* A behaviour ends once it has admitted MaxCalls requests.
CHECK_DEADLOCK FALSE
SYMMETRY Symmetry
INVARIANTS
    AdminRemains
