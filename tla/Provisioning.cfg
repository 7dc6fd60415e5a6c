\* Every handler, two addresses, two requests in flight at a time.
SPECIFICATION Spec
CONSTANTS
    e1 = e1  e2 = e2
    r1 = r1  r2 = r2  r3 = r3
    Email = {e1, e2}
    Request = {r1, r2}
    MaxUids = 3
    MaxCalls = 4
    NoUid = NoUid
    NoId = NoId
    NoCall = NoCall
\* A behaviour ends once it has admitted MaxCalls requests.
CHECK_DEADLOCK FALSE
SYMMETRY Symmetry
INVARIANTS
    TypeOK
    UniqueAccounts
    ProvisionedTogether
    DeletionCanBeRetried
    WrittenOfAccounts
PROPERTIES
    OneRegistry
