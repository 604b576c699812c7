----------------------------- MODULE MCUserCache -----------------------------
(* UserCache on small instances.                                           *)
EXTENDS UserCache, TLC

\* Users, codes and slots are interchangeable.
Symmetry == Permutations(Users) \cup Permutations(Codes) \cup Permutations(Tasks)
=============================================================================
