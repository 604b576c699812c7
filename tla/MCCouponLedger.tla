--------------------------- MODULE MCCouponLedger ---------------------------
(* CouponLedger on small instances.                                        *)
EXTENDS CouponLedger, TLC

CONSTANTS u1, u2

\* One user can pay a stamp coupon at once, the other lacks a star.
MCFirstStars == [u \in Users |-> IF u = u1 THEN StampPrice ELSE StampPrice - 1]

\* Codes and slots are interchangeable, users are not.
TaskSymmetry == Permutations(Tasks)
Symmetry     == Permutations(Codes) \cup TaskSymmetry

\* A bound on both: three requests without a restart, or two and a restart.
FewEvents == asked + restarts <= 3
=============================================================================
