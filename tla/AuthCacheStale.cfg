\* A lookup overlaps a change of its account; Redis works, nothing fails.
SPECIFICATION Spec
CONSTANTS
    u1 = u1
    t1 = t1  t2 = t2
    p1 = p1  p2 = p2
    w1 = w1  w2 = w2
    User = {u1}
    Token = {t1, t2}
    Owner <- MCOwner
    Fill = {p1}
    Writer = {w1}
    Lifetime = 2
    MaxWrites = 1
    Faults = FALSE
    OwnEdits = FALSE
    NoCall = NoCall
\* A behaviour ends once every token is revoked and the cache is empty.
CHECK_DEADLOCK FALSE
INVARIANTS
    ChangesTakeEffect
