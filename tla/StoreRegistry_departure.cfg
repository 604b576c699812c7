SPECIFICATION FairSpec
CONSTANTS
    Stores = {m1}
    Sockets = {s1, s2}
    Tasks = {t1, t2}
    Absent = Absent
    Closed = Closed
    MaxLogins = 2
    MaxRestarts = 1
CHECK_DEADLOCK FALSE
PROPERTIES
    DeadSocketIsForgotten
