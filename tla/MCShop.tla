--------------------------------- MODULE MCShop ---------------------------------
(* Small instances of Shop for TLC.                                        *)
EXTENDS Shop, TLC

Symmetry == Permutations(Tasks) \cup Permutations(Sockets) \cup Permutations(Stores)

\* A bound on both: two logins without a restart, or one and a restart.
FewEvents == sent + restarts <= 2
=============================================================================
