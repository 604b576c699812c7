SPECIFICATION CounterSpec
CONSTANTS
    o1 = o1
    Orders = {o1, k1, k2}
    CouponOrders = {k1, k2}
    Gifts = {g1}
    Codes = {c1, c2}
    None = None
    Tasks = {t1, t2}
    Price <- MCPrice
    PointOrders = {o1}
    MaxDeliveries = 1
    MaxAccepts = 1
    MaxRemovals = 1
    MaxUses = 2
    MaxReports = 2
    MaxRestarts = 0
SYMMETRY Symmetry
\* Every message is bounded, and a process that died may stay down.
CHECK_DEADLOCK FALSE
INVARIANTS
    CounterTypeOK
    CouponBuysOneOrder
    SpentCouponIsAnswered
    GiftsArePaidFor
    WrappedGiftIsAnnounced
PROPERTIES
    ImplementsOrderBook
