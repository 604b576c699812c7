---------------------------------- MODULE Shop ----------------------------------
(***************************************************************************)
(* How an order finds its merchant: StoreService.sendOrder and useCoupon   *)
(* over the "stores" array of StoreRegistry.                               *)
(*                                                                         *)
(* Both read the store's entry (_getStore), wait for other things (the     *)
(* order's cache entry, the buyer's points, the coupon) and emit the order *)
(* to the socket id they read before.  emit addresses a room; it returns   *)
(* true whether or not anybody is in it, and the buyer is told to wait.    *)
(* What the payment or the coupon has become is the subject of Counter.    *)
(***************************************************************************)
EXTENDS StoreRegistry

CONSTANT Errands    \* slots for the orders under way

VARIABLE
    errand      \* what every slot is doing, or how its last order ended

shopVars == <<vars, errand>>

\* An order that waits for the array, with the entry its read took; that waits
\* for what comes before emit; or that was emitted, and whether anybody got it.
\* History: `live`, whether the socket of the entry was connected at the time
\* of the read; `excused`, whether the array was then known to lag behind.
Paths ==
    [at: {"read"}, store: Stores, entry: Entries, live: BOOLEAN, excused: BOOLEAN]
      \cup [at: {"chosen"}, store: Stores, entry: Sockets, live: BOOLEAN, excused: BOOLEAN]
      \cup [at: {"sent"}, store: Stores, entry: Sockets, live: BOOLEAN, excused: BOOLEAN,
            got: BOOLEAN]

OrderAt(e, p) == errand[e].at = p
PutErrand(e, r) == errand' = [errand EXCEPT ![e] = r]

ShopInit == Init /\ errand = [e \in Errands |-> Idle]

-----------------------------------------------------------------------------
\* Mutation: any store that is open will do.
EntryOfAny(m) ==
    LET open == {n \in Stores : stores[n] \in Sockets} IN
    IF m \in open \/ open = {} THEN stores[m] ELSE stores[CHOOSE n \in open : TRUE]

\* find in _getStore: the entry of the store with this id.
EntryOf(m) == stores[m]

\* An order or a coupon order for a store: the array is read.
OrderArrives(e, m) ==
    LET s == EntryOf(m) IN
    /\ Up
    /\ OrderAt(e, "idle") \/ OrderAt(e, "sent")
    /\ PutErrand(e, [at |-> "read", store |-> m, entry |-> s,
                     live |-> s \in Sockets /\ conn[s] = "on",
                     excused |-> stale \/ boot.at # "done" \/ Departing(s) \/ s \in missed])
    /\ UNCHANGED vars

\* _getStore: the store's entry is there, is open and has a socket id.
IsOpen(e) == errand[e].entry \in Sockets

\* The store is not open: the buyer is told that there is no order.
TurnAway(e) ==
    /\ OrderAt(e, "read")
    /\ ~IsOpen(e)
    /\ PutErrand(e, Idle)
    /\ UNCHANGED vars

Choose(e) ==
    /\ OrderAt(e, "read")
    /\ IsOpen(e)
    /\ PutErrand(e, [errand[e] EXCEPT !.at = "chosen"])
    /\ UNCHANGED vars

\* The array cannot be read; or the order cannot be cached, the points cannot
\* be debited, or the coupon cannot be spent.
GiveUp(e) ==
    /\ OrderAt(e, "read") \/ OrderAt(e, "chosen")
    /\ PutErrand(e, Idle)
    /\ UNCHANGED vars

\* emit reaches the socket that is in the room of this id.
Reaches(s) == conn[s] = "on"

SendOrder(e) ==
    /\ OrderAt(e, "chosen")
    /\ PutErrand(e, [at |-> "sent", store |-> errand[e].store, entry |-> errand[e].entry,
                     live |-> errand[e].live, excused |-> errand[e].excused,
                     got |-> Reaches(errand[e].entry)])
    /\ UNCHANGED vars

Order(e) ==
    \/ \E m \in Stores : OrderArrives(e, m)
    \/ TurnAway(e) \/ Choose(e) \/ GiveUp(e) \/ SendOrder(e)

\* The registry goes on; a crash cuts the orders under way.
Registry ==
    /\ Next
    /\ errand' = IF Up /\ boot'.at = "down"
                   THEN [e \in Errands |-> IF OrderAt(e, "sent") THEN errand[e] ELSE Idle]
                   ELSE errand

ShopNext == Registry \/ \E e \in Errands : Order(e)

ShopSpec == ShopInit /\ [][ShopNext]_shopVars

-----------------------------------------------------------------------------
(* Properties.                                                             *)

ShopTypeOK == TypeOK /\ errand \in [Errands -> Paths \cup {Idle}]

\* An order is sent to nobody but a merchant of its store: the socket it was
\* emitted to logged in for the store, whatever was written to the array
\* between the read and the emit, and whatever writes were lost before.
OrderGoesToItsMerchant ==
    \A e \in Errands : OrderAt(e, "sent") => errand[e].store \in logins[errand[e].entry]

\* The buyer who was told to wait for an order nobody got was unlucky: the
\* merchant's connection ended after the read, or the array was lagging then,
\* because a write was lost, the server was starting, or the connection's
\* disconnect was under way or had failed.
LostOrderIsExplained ==
    \A e \in Errands : OrderAt(e, "sent") /\ ~errand[e].got
        => errand[e].live \/ errand[e].excused
=============================================================================
