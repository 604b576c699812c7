------------------------------- MODULE OrderBook -------------------------------
(***************************************************************************)
(* What the order desk promises of the books when a merchant accepts an    *)
(* order at most once: an order goes through "new", "open" and "closed" in *)
(* this direction only, the store earns its price when it is opened and    *)
(* gives it back when it is closed, in one step each.  A start of the      *)
(* server closes every open order at once and keeps what they earned.      *)
(***************************************************************************)
EXTENDS Integers

CONSTANTS Orders, Price

VARIABLES stage, earned

Init ==
    /\ stage = [o \in Orders |-> "new"]
    /\ earned = 0

Open(o) ==
    /\ stage[o] = "new"
    /\ stage' = [stage EXCEPT ![o] = "open"]
    /\ earned' = earned + Price[o]

Close(o) ==
    /\ stage[o] = "open"
    /\ stage' = [stage EXCEPT ![o] = "closed"]
    /\ earned' = earned - Price[o]

StartOver ==
    /\ stage' = [o \in Orders |-> IF stage[o] = "open" THEN "closed" ELSE stage[o]]
    /\ UNCHANGED earned

Next == StartOver \/ \E o \in Orders : Open(o) \/ Close(o)

Spec == Init /\ [][Next]_<<stage, earned>>
=============================================================================
