------------------------------- MODULE MCCounter -------------------------------
(* Small instances of Counter for TLC.                                     *)
EXTENDS Counter, TLC

CONSTANT o1

\* What is paid for with a coupon earns the store nothing.
MCPrice == [o \in Orders |-> IF o = o1 THEN 1 ELSE 0]

\* Slots, coupon codes and coupon orders are interchangeable.
Symmetry == Permutations(Tasks) \cup Permutations(Codes) \cup Permutations(CouponOrders)
=============================================================================
