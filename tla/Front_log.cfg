SPECIFICATION FrontSpec
CONSTANTS
    Users = {u1}
    Streams = {s1, s2}
    Requests = {r1, r2}
    Failures <- MCFailures
    Accepted <- MCAccepted
    Plain = "Plain"
    MaxJobs = 2
    MaxStarts = 1
\* A process that died may stay down.
CHECK_DEADLOCK FALSE
INVARIANTS
    AppendMakesTheFolder
