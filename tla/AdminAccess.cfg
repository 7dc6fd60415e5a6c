\* Every handler, two accounts, two requests in flight at a time.
SPECIFICATION Spec
CONSTANTS
    u1 = u1  u2 = u2
    r1 = r1  r2 = r2
    User = {u1, u2}
    Request = {r1, r2}
    Endpoints = {"update_user", "update_user_roles", "update_user_status", "update_employer", "delete_user", "register"}
    Grants <- MCGrants
    Requested = {"CANDIDATE"}
    MaxCalls = 3
    NoUser = NoUser
    NoIdentity = NoIdentity
    NoCall = NoCall
\* A behaviour ends once it has admitted MaxCalls requests.
CHECK_DEADLOCK FALSE
SYMMETRY Symmetry
INVARIANTS
    TypeOK
    AdminRemainsUnlessSlipped
    StoresAgree
    PrimaryRoleAvailable
PROPERTIES
    CheckedNoSelfLockout
    DisjointEditsCommute
