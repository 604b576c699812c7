SPECIFICATION Spec
CONSTANTS
    Users = {u1, u2}
    Codes = {c1, c2, c3}
    Tasks = {t1, t2, t3}
    None = None
    MaxRequests = 4
    MaxRestarts = 1
SYMMETRY Symmetry
\* Codes, requests and restarts are bounded.
CHECK_DEADLOCK FALSE
INVARIANTS
    TypeOK
    AccountIsLastVerified
    ApplicationServesOnce
PROPERTIES
    ImplementsSignup
