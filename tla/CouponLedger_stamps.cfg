SPECIFICATION Spec
CONSTANTS
    u1 = u1
    u2 = u2
    Users = {u1}
    Codes = {c1, c2}
    Tasks = {t1, t2}
    StampPrice = 6
    FirstStars <- MCFirstStars
    MaxStars = 6
    MaxRequests = 2
    MaxRestarts = 0
CHECK_DEADLOCK FALSE
INVARIANTS
    StampCouponNeedsStamps
