SPECIFICATION Spec
CONSTANTS
    Users = {u1, u2}
    Codes = {c1, c2}
    Tasks = {t1, t2}
    None = None
    Gone = Gone
    MaxRequests = 3
    MaxRestarts = 1
SYMMETRY Symmetry
\* Requests and restarts are bounded.
CHECK_DEADLOCK FALSE
INVARIANTS
    TypeOK
    UserShownIsCurrent
    CachedSessionIsOnRecord
    NeverAheadOfRows
