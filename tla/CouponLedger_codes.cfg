SPECIFICATION Spec
CONSTANTS
    u1 = u1
    u2 = u2
    Users = {u1, u2}
    Codes = {c1, c2}
    Tasks = {t1, t2}
    StampPrice = 2
    FirstStars <- MCFirstStars
    MaxStars = 2
    MaxRequests = 3
    MaxRestarts = 1
SYMMETRY Symmetry
CONSTRAINT FewEvents
\* Codes, requests, stars and restarts are bounded.
CHECK_DEADLOCK FALSE
INVARIANTS
    TypeOK
    SpentOnce
    BoxIsTrue
    StampsPaidFor
