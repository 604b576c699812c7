SPECIFICATION Spec
CONSTANTS
    Users = {u1, u2}
    Streams = {s1, s2, s3, s4}
\* Every request is made once, and users may stay.
CHECK_DEADLOCK FALSE
INVARIANTS
    DuplicateIsTheOneCancelled
