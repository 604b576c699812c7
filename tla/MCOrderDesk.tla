------------------------------ MODULE MCOrderDesk ------------------------------
(* Small instances of OrderDesk for TLC.                                   *)
EXTENDS OrderDesk, TLC

CONSTANTS o1, o2

\* Prices that tell the orders, and any sum of them, apart.
MCPrice == [o \in Orders |-> IF o = o1 THEN 1 ELSE 4]

\* The slots of the event loop are interchangeable.
TaskSymmetry == Permutations(Tasks)
=============================================================================
