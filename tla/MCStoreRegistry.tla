---------------------------- MODULE MCStoreRegistry ----------------------------
(* Small instances of StoreRegistry for TLC.                               *)
EXTENDS StoreRegistry, TLC

Symmetry == Permutations(Tasks) \cup Permutations(Sockets) \cup Permutations(Stores)
=============================================================================
