----------------------------- MODULE MCRegistration -----------------------------
(* Registration on small instances.                                        *)
EXTENDS Registration, TLC

\* Users, codes and slots are interchangeable.
Symmetry == Permutations(Users) \cup Permutations(Codes) \cup Permutations(Tasks)
=============================================================================
