SPECIFICATION ShopSpec
CONSTANTS
    Stores = {m1, m2}
    Sockets = {s1, s2}
    Tasks = {t1, t2}
    Errands = {e1}
    Absent = Absent
    Closed = Closed
    MaxLogins = 2
    MaxRestarts = 1
SYMMETRY Symmetry
CONSTRAINT FewEvents
\* Socket ids, logins and restarts are bounded.
CHECK_DEADLOCK FALSE
INVARIANTS
    ShopTypeOK
    SocketLoggedInForStore
    LoggedInStoreIsOpen
    RegisteredStoreIsListed
    OrderGoesToItsMerchant
    LostOrderIsExplained
