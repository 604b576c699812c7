-------------------------------- MODULE MCFront --------------------------------
(* Small instances of Front for TLC.                                       *)
EXTENDS Front, TLC

\* Two errors; UnAuthorized is thrown with two substatus and without one.
MCAccepted == <<"Accepted", "TypeException">>
MCFailures == {MCAccepted, <<"UnAuthorized", "Plain">>,
               <<"UnAuthorized", "ExpiredToken">>, <<"UnAuthorized", "NotEqualPass">>}

\* Requests, streams and users are interchangeable.
Symmetry == Permutations(Requests) \cup Permutations(Streams) \cup Permutations(Users)
=============================================================================
