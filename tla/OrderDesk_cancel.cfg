SPECIFICATION Spec
CONSTANTS
    o1 = o1
    o2 = o2
    Orders = {o1}
    Tasks = {t1, t2}
    Price <- MCPrice
    PointOrders = {o1}
    MaxDeliveries = 1
    MaxAccepts = 1
    MaxRemovals = 1
    MaxRestarts = 0
CHECK_DEADLOCK FALSE
INVARIANTS
    CancelledOrderLeavesCache
