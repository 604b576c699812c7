------------------------------- MODULE OrderDesk -------------------------------
(***************************************************************************)
(* The life of a paid order: the payment webhook (StoreService), the       *)
(* merchant's accept, refuse and finish messages (SocketGateWay) and the   *)
(* helpers they share (PortOneMethod, StoreRepository).                    *)
(*                                                                         *)
(* Every handler is a task of the one event loop.  A task runs alone from  *)
(* one await to the next, and an action below is such a segment together   *)
(* with the database or cache operation that ends it; between two awaits   *)
(* any other task may run.  Interactive transactions commit all or         *)
(* nothing, so a failed one is a single step with no effect.  Redis        *)
(* answers one connection in order: a read is settled when it is issued    *)
(* and its value is USED after the await, which is why a task carries it.  *)
(*                                                                         *)
(* One store.  Whether it is open, and whether the order event reaches the *)
(* merchant's app, is nondeterministic here: the "stores" cache is the     *)
(* subject of StoreRegistry.                                               *)
(***************************************************************************)
EXTENDS Integers, FiniteSets, FiniteSetsExt

CONSTANTS
    Orders,         \* order numbers (merchant_uid of PortOne)
    Price,          \* what an order adds to the store's wallet
    PointOrders,    \* the orders paid in part with the buyer's points
    Tasks,          \* slots for the handlers in flight
    MaxDeliveries,  \* bound: payment webhooks per order
    MaxAccepts,     \* bound: accept messages per order
    MaxRemovals,    \* bound: refuse and finish messages per order
    MaxRestarts     \* bound: restarts of the process

ASSUME PriceAssumption == Price \in [Orders -> Nat]
ASSUME PointAssumption == PointOrders \subseteq Orders
ASSUME BoundAssumption ==
    /\ MaxDeliveries \in Nat \ {0}
    /\ MaxAccepts \in Nat
    /\ MaxRemovals \in Nat
    /\ MaxRestarts \in Nat

VARIABLES
    orderCache, \* Redis: the sales_uid of the cached order, 0 when absent
    orders,     \* Postgres: rows of table order
    sales,      \* Postgres: rows of table sales, as <<order, sales_uid>>
    point,      \* Postgres: point of the store's wallet
    server,     \* the process: "starting" until its deleteOrders is done
    task,       \* what every slot is doing
    inbox,      \* orders the merchant's app was sent
    told,       \* order states pushed to the buyer
    calls,      \* history: messages received for an order
    past,       \* history: what became of an order
    restarts

db   == <<orders, sales, point>>
env  == <<inbox, calls>>
vars == <<orderCache, db, server, task, told, past, env, restarts>>

-----------------------------------------------------------------------------
(***************************************************************************)
(* Tasks.  `sale` is the sales_uid the task read or drew; `why` is the     *)
(* handler, or the caller of removeOrderById: "undo" is the catch of       *)
(* accept, "back" the _refuseOrder nobody awaits.                          *)
(***************************************************************************)
SaleIds == 1..MaxDeliveries
Points  == {"lookup", "store", "cached", "accept", "accepted",
            "remove", "removed", "settle", "finished"}
Causes  == {"payment", "accept", "undo", "refuse", "finish", "back"}
States  == {"wait", "accept", "refuse", "finish"}
Busy    == [at: Points, order: Orders, sale: 0..MaxDeliveries, why: Causes]
Idle    == [at |-> "idle"]

Working(t) == task[t] # Idle
At(t, p)   == task[t].at = p

\* The slot carries on at `p`; the slot is given back.
Goto(t, p) == task' = [task EXCEPT ![t].at = p]
End(t)     == task' = [task EXCEPT ![t] = Idle]

\* A task starts in a free slot of a running process.
Start(t, p, o, s, w) ==
    /\ server # "down"
    /\ ~Working(t)
    /\ task' = [task EXCEPT ![t] = [at |-> p, order |-> o, sale |-> s, why |-> w]]

\* removeOrderById: findOrderByUUID issues its read of the cached order.
Remove(t, o, w) ==
    task' = [task EXCEPT ![t] = [at |-> "remove", order |-> o,
                                 sale |-> orderCache[o], why |-> w]]

\* Mutations: the buyer is not told one of the states.
TellNoWait(o, s)   == told' = [told EXCEPT ![o] = IF s = "wait" THEN @ ELSE @ \cup {s}]
TellNoAccept(o, s) == told' = [told EXCEPT ![o] = IF s = "accept" THEN @ ELSE @ \cup {s}]
TellNoRefuse(o, s) == told' = [told EXCEPT ![o] = IF s = "refuse" THEN @ ELSE @ \cup {s}]

\* pushStateMessage: the buyer is sent an order state.
Tell(o, s) == told' = [told EXCEPT ![o] = @ \cup {s}]

\* The runs of the process are numbered from 1.  An order is `kept` by the run
\* in which Redis refused to delete it from the cache, 0 when there is none.
Run == restarts + 1

\* The process dies: its tasks are cut short, Redis and Postgres remain.
Crash ==
    /\ server' = "down"
    /\ task' = [t \in Tasks |-> Idle]
    /\ past' = [o \in Orders |->
                  [past[o] EXCEPT !.cut = @ \/ \E t \in Tasks : Working(t) /\ task[t].order = o]]

Init ==
    /\ orderCache = [o \in Orders |-> 0]
    /\ orders = {}
    /\ sales = {}
    /\ point = 0
    /\ server = "starting"
    /\ task = [t \in Tasks |-> Idle]
    /\ inbox = {}
    /\ told = [o \in Orders |-> {}]
    /\ calls = [o \in Orders |-> [webhook |-> 0, accept |-> 0, remove |-> 0]]
    /\ past = [o \in Orders |-> [booked |-> 0, recorded |-> 0, lost |-> FALSE,
                                 wiped |-> FALSE, cut |-> FALSE, kept |-> 0]]
    /\ restarts = 0

-----------------------------------------------------------------------------
(* The payment webhook: paymentFactory and sendOrder.                      *)

\* PortOne calls the webhook; the payment is looked up at PortOne.  The n-th
\* delivery of an order draws the n-th sales_uid (a random UUID in the code).
WebhookArrives(t, o) ==
    /\ calls[o].webhook < MaxDeliveries
    /\ Start(t, "lookup", o, calls[o].webhook + 1, "payment")
    /\ calls' = [calls EXCEPT ![o].webhook = @ + 1]
    /\ UNCHANGED <<orderCache, db, server, told, past, inbox, restarts>>

\* PortOne does not know the payment or cannot be reached, or its payload is
\* unreadable: the webhook throws.
LookupFails(t) ==
    /\ At(t, "lookup")
    /\ End(t)
    /\ UNCHANGED <<orderCache, db, server, told, past, env, restarts>>

\* PortOne's order number or payment number is another one: _refuseOrder in
\* the background, and the webhook throws.
LookupMismatch(t) ==
    /\ At(t, "lookup")
    /\ Remove(t, task[t].order, "back")
    /\ UNCHANGED <<orderCache, db, server, told, past, env, restarts>>

\* The payment is known; the "stores" array is read.
LookupDone(t) ==
    /\ At(t, "lookup")
    /\ Goto(t, "store")
    /\ UNCHANGED <<orderCache, db, server, told, past, env, restarts>>

\* The payload has no orderInfo or the store no socket: _refuseOrder in the
\* background, and sendOrder throws without telling the buyer.
RejectOrder(t) ==
    /\ At(t, "store")
    /\ Remove(t, task[t].order, "back")
    /\ UNCHANGED <<orderCache, db, server, told, past, env, restarts>>

\* The store is closed or the order cannot be cached, or the buyer's points
\* cannot be debited: _refuseOrder in the background, the buyer is told.
AbandonOrder(t) ==
    /\ \/ At(t, "store")
       \/ At(t, "cached") /\ task[t].order \in PointOrders
    /\ Remove(t, task[t].order, "back")
    /\ Tell(task[t].order, "refuse")
    /\ UNCHANGED <<orderCache, db, server, past, env, restarts>>

\* redis.set of the order, over whatever was cached under its number.
CacheOrder(t) ==
    /\ At(t, "store")
    /\ orderCache' = [orderCache EXCEPT ![task[t].order] = task[t].sale]
    /\ Goto(t, "cached")
    /\ UNCHANGED <<db, server, told, past, env, restarts>>

\* The order event is emitted to the socket of the cached store entry.  emit
\* returns true whether or not anybody listens: the buyer is told to wait.
SendOrder(t) ==
    /\ At(t, "cached")
    /\ \E arrives \in BOOLEAN :
         inbox' = IF arrives THEN inbox \cup {task[t].order} ELSE inbox
    /\ Tell(task[t].order, "wait")
    /\ End(t)
    /\ UNCHANGED <<orderCache, db, server, past, calls, restarts>>

-----------------------------------------------------------------------------
(* handleAccpetOrder: acceptOrder and StoreRepository.createOrder.         *)

AcceptOrder(t, o) ==
    /\ o \in inbox
    /\ calls[o].accept < MaxAccepts
    /\ Start(t, "accept", o, orderCache[o], "accept")
    /\ calls' = [calls EXCEPT ![o].accept = @ + 1]
    /\ UNCHANGED <<orderCache, db, server, told, past, inbox, restarts>>

\* Mutation: createOrder is not preceded by findOrderByUUID.
RowsAbsentUnchecked(o, s) == o \notin orders /\ <<o, s>> \notin sales

\* createOrder can go through: the order was cached, and neither of the two
\* rows, which have a primary key each, is there.
RowsAbsent(o, s) == s # 0 /\ o \notin orders /\ <<o, s>> \notin sales

\* The transaction commits: order row, sales row and wallet together.
CreateOrderCommits(t) ==
    LET o == task[t].order
        s == task[t].sale IN
    /\ At(t, "accept")
    /\ RowsAbsent(o, s)
    /\ orders' = orders \cup {o}
    /\ sales' = sales \cup {<<o, s>>}
    /\ point' = point + Price[o]
    /\ past' = [past EXCEPT ![o].booked = @ + 1]
    /\ Goto(t, "accepted")
    /\ UNCHANGED <<orderCache, server, told, env, restarts>>

\* The order is not cached, its row or sale exists already, or the database
\* fails: the handler's catch removes the order.
AcceptFails(t) ==
    /\ At(t, "accept")
    /\ Remove(t, task[t].order, "undo")
    /\ UNCHANGED <<orderCache, db, server, told, past, env, restarts>>

AcceptDone(t) ==
    /\ At(t, "accepted")
    /\ Tell(task[t].order, "accept")
    /\ End(t)
    /\ UNCHANGED <<orderCache, db, server, past, env, restarts>>

-----------------------------------------------------------------------------
(* handleRefuseOrder, handleFinishOrder, _refuseOrder: removeOrderById and *)
(* StoreRepository.deleteOrder.                                            *)

RefuseOrder(t, o) ==
    /\ o \in inbox
    /\ calls[o].remove < MaxRemovals
    /\ Start(t, "remove", o, orderCache[o], "refuse")
    /\ calls' = [calls EXCEPT ![o].remove = @ + 1]
    /\ UNCHANGED <<orderCache, db, server, told, past, inbox, restarts>>

FinishOrder(t, o) ==
    /\ o \in inbox
    /\ calls[o].remove < MaxRemovals
    /\ Start(t, "remove", o, orderCache[o], "finish")
    /\ calls' = [calls EXCEPT ![o].remove = @ + 1]
    /\ UNCHANGED <<orderCache, db, server, told, past, inbox, restarts>>

\* Mutation: deleteMany, which is content with rows that are missing.
RowsPresentOrNot(o, s) == s # 0

\* deleteOrder can go through: the order was cached, and both rows are there.
RowsPresent(o, s) == s # 0 /\ o \in orders /\ <<o, s>> \in sales

\* Mutations: the sale, or the wallet, is left out of the transaction.
DeleteRowsNotSale(o, s) ==
    orders' = orders \ {o} /\ point' = point - Price[o] /\ UNCHANGED sales
DeleteRowsNotPoint(o, s) ==
    orders' = orders \ {o} /\ sales' = sales \ {<<o, s>>} /\ UNCHANGED point

DeleteRows(o, s) ==
    orders' = orders \ {o} /\ sales' = sales \ {<<o, s>>} /\ point' = point - Price[o]

\* The transaction commits.
DeleteOrderCommits(t) ==
    LET o == task[t].order
        s == task[t].sale IN
    /\ At(t, "remove")
    /\ RowsPresent(o, s)
    /\ DeleteRows(o, s)
    /\ Goto(t, "removed")
    /\ UNCHANGED <<orderCache, server, told, past, env, restarts>>

\* Mutation: the cached order is deleted although its rows are not.
RemovalFailsAndForgets(t) ==
    /\ At(t, "remove")
    /\ orderCache' = [orderCache EXCEPT ![task[t].order] = 0]
    /\ End(t)
    /\ UNCHANGED <<db, server, past, told, env, restarts>>

\* The order is not cached, a row is missing, or the database fails.  A
\* handler answers "fail"; nobody handles the rejection of a background
\* removal, and Node ends the process on it.
RemovalFails(t) ==
    /\ At(t, "remove")
    /\ IF task[t].why = "back"
         THEN Crash
         ELSE End(t) /\ UNCHANGED <<server, past>>
    /\ UNCHANGED <<orderCache, db, told, env, restarts>>

\* Mutation: the cached order is not deleted.
UncacheNothing(o) == UNCHANGED <<orderCache, past>>

\* redis.delete of the order, which nobody waits for, goes through.
Uncache(o) == orderCache' = [orderCache EXCEPT ![o] = 0] /\ UNCHANGED past

\* Redis refuses the delete: the order stays cached, and nobody handles the
\* rejection (RejectionUnhandled).
DeleteRefused(o) == past' = [past EXCEPT ![o].kept = Run] /\ UNCHANGED orderCache

\* Either way the caller goes on at once.
RemovalDone(t) ==
    LET o == task[t].order IN
    /\ At(t, "removed")
    /\ Uncache(o) \/ DeleteRefused(o)
    /\ IF task[t].why = "finish" THEN Goto(t, "settle") ELSE End(t)
    /\ IF task[t].why = "refuse" THEN Tell(o, "refuse") ELSE UNCHANGED told
    /\ UNCHANGED <<db, server, env, restarts>>

\* finishOrder: the buyer's order history (and points) are written.
HistoryCommits(t) ==
    /\ At(t, "settle")
    /\ past' = [past EXCEPT ![task[t].order].recorded = @ + 1]
    /\ Goto(t, "finished")
    /\ UNCHANGED <<orderCache, db, server, told, env, restarts>>

\* The store is not in the "stores" cache, or the database refuses the
\* history: the merchant is answered "fail", the order is gone.
HistoryFails(t) ==
    /\ At(t, "settle")
    /\ past' = [past EXCEPT ![task[t].order].lost = TRUE]
    /\ End(t)
    /\ UNCHANGED <<orderCache, db, server, told, env, restarts>>

FinishDone(t) ==
    /\ At(t, "finished")
    /\ Tell(task[t].order, "finish")
    /\ End(t)
    /\ UNCHANGED <<orderCache, db, server, past, env, restarts>>

-----------------------------------------------------------------------------
(* The process.                                                            *)

\* The process dies at any moment.
Kill ==
    /\ server # "down"
    /\ restarts < MaxRestarts
    /\ Crash
    /\ UNCHANGED <<orderCache, db, told, env, restarts>>

\* It is started again, and serves requests while _initialized, which nobody
\* awaits, is under way.
Restart ==
    /\ server = "down"
    /\ restarts < MaxRestarts
    /\ server' = "starting"
    /\ restarts' = restarts + 1
    /\ UNCHANGED <<orderCache, db, task, told, past, env>>

\* _initialized deletes every order row: not the sales, the wallet's points
\* or the cached orders.
StartupDeletes ==
    /\ server = "starting"
    /\ orders' = {}
    /\ server' = "up"
    /\ past' = [o \in Orders |-> [past[o] EXCEPT !.wiped = @ \/ o \in orders]]
    /\ UNCHANGED <<orderCache, sales, point, task, told, env, restarts>>

\* deleteOrders fails: the rejection is unhandled too.
StartupFails ==
    /\ server = "starting"
    /\ Crash
    /\ UNCHANGED <<orderCache, db, told, env, restarts>>

\* A refused delete's rejection reaches the top of the process, which ends on
\* it; other tasks may have run in between.
RejectionUnhandled ==
    /\ server # "down"
    /\ \E o \in Orders : past[o].kept = Run
    /\ Crash
    /\ UNCHANGED <<orderCache, db, told, env, restarts>>

-----------------------------------------------------------------------------
\* What a task does next, once it has begun.
Proceed(t) ==
    \/ LookupFails(t) \/ LookupMismatch(t) \/ LookupDone(t)
    \/ RejectOrder(t) \/ AbandonOrder(t) \/ CacheOrder(t) \/ SendOrder(t)
    \/ CreateOrderCommits(t) \/ AcceptFails(t) \/ AcceptDone(t)
    \/ DeleteOrderCommits(t) \/ RemovalFails(t) \/ RemovalDone(t)
    \/ HistoryCommits(t) \/ HistoryFails(t) \/ FinishDone(t)

Begin(t, o) ==
    WebhookArrives(t, o) \/ AcceptOrder(t, o) \/ RefuseOrder(t, o) \/ FinishOrder(t, o)

Process == Kill \/ Restart \/ StartupDeletes \/ StartupFails \/ RejectionUnhandled

Next ==
    \/ \E t \in Tasks : Proceed(t) \/ \E o \in Orders : Begin(t, o)
    \/ Process

Spec == Init /\ [][Next]_vars

\* Every await of a running process is answered: the database and Redis
\* clients have timeouts, PortOne's HTTP request ends.  Nothing obliges a
\* webhook to arrive, a merchant to act or a process to be started again.  Node
\* does end a process on a rejection nobody handles.
Fairness ==
    /\ \A t \in Tasks : WF_vars(Proceed(t))
    /\ WF_vars(RejectionUnhandled)

FairSpec == Spec /\ Fairness

-----------------------------------------------------------------------------
(* Properties.                                                             *)

TypeOK ==
    /\ orderCache \in [Orders -> 0..MaxDeliveries]
    /\ orders \subseteq Orders
    /\ sales \subseteq Orders \X SaleIds
    /\ point \in Int
    /\ server \in {"starting", "up", "down"}
    /\ task \in [Tasks -> Busy \cup {Idle}]
    /\ inbox \subseteq Orders
    /\ told \in [Orders -> SUBSET States]
    /\ calls \in [Orders -> [webhook: 0..MaxDeliveries, accept: 0..MaxAccepts,
                             remove: 0..MaxRemovals]]
    /\ past \in [Orders -> [booked: Nat, recorded: Nat, lost: BOOLEAN,
                            wiped: BOOLEAN, cut: BOOLEAN, kept: 0..MaxRestarts + 1]]
    /\ restarts \in 0..MaxRestarts

InFlight(o) == \E t \in Tasks : Working(t) /\ task[t].order = o

\* The merchant's app sent one accept for the order, PortOne one webhook, and
\* no start of the server found the order's row.
Ordinary(o) ==
    /\ calls[o].webhook <= 1
    /\ calls[o].accept <= 1
    /\ ~past[o].wiped

\* createOrder and deleteOrder keep the tables order and sales in step: an
\* accepted order has a sale and, unless a start of the server deleted order
\* rows, a sale has its order and an order one sale, whatever webhooks,
\* accepts, refusals and finishes race.
SalesMatchOrders ==
    /\ \A o \in orders : \E s \in SaleIds : <<o, s>> \in sales
    /\ \A x \in sales : ~past[x[1]].wiped => x[1] \in orders
    /\ \A x, y \in sales : x[1] = y[1] /\ ~past[x[1]].wiped => x = y

\* The wallet's point column, moved by increments and decrements of separate
\* transactions, stays the sum of the sales that are on record.
WalletIsSumOfSales == point = MapThenSumSet(LAMBDA x : Price[x[1]], sales)

\* A removal deletes an acceptance once: the finished orders in the buyer's
\* history and the order rows never exceed the acceptances committed, even
\* when two finish messages (or a finish and a refusal) of one order race.
HistoryBacked ==
    \A o \in Orders :
        past[o].recorded + (IF o \in orders THEN 1 ELSE 0) <= past[o].booked

\* An order on the books can be finished or refused: removeOrderById finds it
\* in the cache, with the sales_uid under which its sale was booked.
AcceptedOrderIsSettleable ==
    \A o \in orders : Ordinary(o) =>
        orderCache[o] # 0 /\ <<o, orderCache[o]>> \in sales

\* An accepted order does not disappear quietly: when it is gone and nothing
\* is in flight, the buyer was told it was refused, or finished with the order
\* in the history, or the finish failed after the order's removal (`lost`).
VanishedOrderIsExplained ==
    \A o \in Orders :
        (Ordinary(o) /\ ~past[o].cut /\ past[o].booked > 0 /\ o \notin orders /\ ~InFlight(o))
          => \/ "refuse" \in told[o]
             \/ "finish" \in told[o] /\ past[o].recorded = 1
             \/ past[o].lost

\* One accept message per order: the tables order and storewallet implement
\* OrderBook, whatever the webhooks, refusals, finishes and crashes do.
Stage(o) ==
    IF o \in orders THEN "open" ELSE IF past[o].booked = 0 THEN "new" ELSE "closed"

Book == INSTANCE OrderBook WITH stage <- [o \in Orders |-> Stage(o)], earned <- point

ImplementsOrderBook == Book!Spec

\* The inductive invariant of the proofs.  Sales numbers never run ahead of
\* the webhooks delivered, and a webhook task has one.
SalesWereDelivered ==
    /\ \A o \in Orders : orderCache[o] <= calls[o].webhook
    /\ \A x \in sales : x[2] <= calls[x[1]].webhook
    /\ \A t \in Tasks : Working(t) => task[t].sale <= calls[task[t].order].webhook
    /\ \A t \in Tasks : At(t, "lookup") \/ At(t, "store") => task[t].sale # 0

AcceptedAtMostOnce(o) == calls[o].accept <= 1

\* With one accept message, an accept in flight is the only one and finds
\* nothing booked; a removal that deleted the row finds it still deleted; and
\* the cache entry the accept saw is there until the row is deleted.
OneAcceptFor(o) ==
    /\ past[o].booked > 0 => calls[o].accept > 0
    /\ o \in orders => past[o].booked > 0 /\ orderCache[o] # 0
    /\ \A t \in Tasks : At(t, "accept") /\ task[t].order = o =>
          /\ calls[o].accept > 0
          /\ past[o].booked = 0
          /\ task[t].sale # 0 => orderCache[o] # 0
          /\ \A u \in Tasks : At(u, "accept") /\ task[u].order = o => u = t
    /\ \A t \in Tasks : At(t, "removed") /\ task[t].order = o =>
          past[o].booked > 0 /\ o \notin orders

OneAcceptInFlight ==
    \A o \in Orders : AcceptedAtMostOnce(o) => OneAcceptFor(o)

Inductive == TypeOK /\ SalesMatchOrders /\ SalesWereDelivered /\ OneAcceptInFlight

\* An order that was cached gets an answer: the buyer is told to wait or that
\* the order is refused, unless a crash cut the order's task.
CachedOrderIsAnswered ==
    \A o \in Orders : orderCache[o] # 0 ~> told[o] # {} \/ past[o].cut

\* The buyer of a booked order hears of it: createOrder's commit is followed
\* by the "accept" notice, unless a crash cut the order's task.
BookedOrderIsAnnounced ==
    \A o \in Orders : past[o].booked > 0 ~> "accept" \in told[o] \/ past[o].cut

\* A removed order leaves the cache: after deleteOrder's commit the cached
\* order is deleted too, although nobody waits for it.  When Redis refuses the
\* delete, the run of the process that asked for it ends, and the order is
\* left to be found by the next; a crash may cut the removal before the delete.
RemovedOrderLeavesCache ==
    \A o \in Orders :
        (Ordinary(o) /\ past[o].booked > 0 /\ o \notin orders)
          ~> \/ orderCache[o] = 0
             \/ past[o].kept # 0 /\ (past[o].kept < Run \/ server = "down")
             \/ past[o].cut

\* What store.service.ts:178-179 says of sendOrder: every failure branch calls
\* the cancel routine, and that routine deletes the cached order.  An order
\* refused before the merchant did anything is then no longer cached.
CancelledOrderLeavesCache ==
    \A o \in Orders :
        (calls[o].remove = 0 /\ calls[o].accept = 0 /\ "refuse" \in told[o] /\ ~InFlight(o))
          => orderCache[o] = 0
=============================================================================
