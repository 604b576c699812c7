SPECIFICATION FrontSpec
CONSTANTS
    Users = {u1, u2}
    Streams = {s1, s2, s3}
    Requests = {r1, r2}
    Failures <- MCFailures
    Accepted <- MCAccepted
    Plain = "Plain"
    MaxJobs = 2
    MaxStarts = 1
SYMMETRY Symmetry
\* A process that died may stay down.
CHECK_DEADLOCK FALSE
INVARIANTS
    FrontTypeOK
    NobodyLockedOut
    UndisturbedUserIsNotified
    SteadyLog
    OwnSubstatusIsAnswered
