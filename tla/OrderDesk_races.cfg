SPECIFICATION FairSpec
CONSTANTS
    o1 = o1
    o2 = o2
    Orders = {o1}
    Tasks = {t1, t2}
    Price <- MCPrice
    PointOrders = {o1}
    MaxDeliveries = 2
    MaxAccepts = 2
    MaxRemovals = 2
    MaxRestarts = 1
\* Every message is bounded, and a process that died may stay down.
CHECK_DEADLOCK FALSE
INVARIANTS
    TypeOK
    SalesMatchOrders
    WalletIsSumOfSales
    HistoryBacked
    AcceptedOrderIsSettleable
    VanishedOrderIsExplained
PROPERTIES
    CachedOrderIsAnswered
    BookedOrderIsAnnounced
    RemovedOrderLeavesCache
