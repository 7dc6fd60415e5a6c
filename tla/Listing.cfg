\* Five rows in pages of two, three changes.
SPECIFICATION Spec
CONSTANTS
    Rows = 5
    PageSize = 2
    MaxTime = 2
    MaxChanges = 3
\* A walk ends with its last page.
CHECK_DEADLOCK FALSE
INVARIANTS
    TypeOK
    NothingSkipped
    NoRepeats
    PromisedPages
