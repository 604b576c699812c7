---------------------------- MODULE OrderDeskProofs ----------------------------
(* Theorems about OrderDesk for every set of orders and tasks and every     *)
(* bound.                                                                   *)
EXTENDS OrderDesk, FiniteSetTheorems, WellFoundedInduction, TLAPS

USE PriceAssumption, PointAssumption, BoundAssumption
USE DEF RowsAbsent, RowsPresent, DeleteRows, Uncache, DeleteRefused

-----------------------------------------------------------------------------
(* Type correctness.                                                        *)

LEMMA InitType == Init => TypeOK
  BY DEF Init, TypeOK, SaleIds, Idle

LEMMA StartType ==
  ASSUME TypeOK, NEW t \in Tasks, NEW o \in Orders, NEW p \in Points,
         NEW s \in 0..MaxDeliveries, NEW w \in Causes, Start(t, p, o, s, w)
  PROVE  task' \in [Tasks -> Busy \cup {Idle}]
  BY DEF TypeOK, Start, Busy

LEMMA GotoType ==
  ASSUME TypeOK, NEW t \in Tasks, NEW p \in Points, Working(t), Goto(t, p)
  PROVE  task' \in [Tasks -> Busy \cup {Idle}]
  BY DEF TypeOK, Goto, Busy, Working

LEMMA EndType ==
  ASSUME TypeOK, NEW t \in Tasks, End(t)
  PROVE  task' \in [Tasks -> Busy \cup {Idle}]
  BY DEF TypeOK, End

LEMMA RemoveType ==
  ASSUME TypeOK, NEW t \in Tasks, NEW o \in Orders, NEW w \in Causes, Remove(t, o, w)
  PROVE  task' \in [Tasks -> Busy \cup {Idle}]
  BY DEF TypeOK, Remove, Busy, Points

LEMMA TellType ==
  ASSUME TypeOK, NEW o \in Orders, NEW s \in States, Tell(o, s)
  PROVE  told' \in [Orders -> SUBSET States]
  BY DEF TypeOK, Tell

LEMMA CrashType ==
  ASSUME TypeOK, Crash
  PROVE  /\ server' \in {"starting", "up", "down"}
         /\ task' \in [Tasks -> Busy \cup {Idle}]
         /\ past' \in [Orders -> [booked: Nat, recorded: Nat, lost: BOOLEAN,
                                  wiped: BOOLEAN, cut: BOOLEAN, kept: 0..MaxRestarts + 1]]
  BY DEF TypeOK, Crash

\* A task that waits at some point is busy, with an order of the program.
LEMMA Waiting ==
  ASSUME TypeOK, NEW t \in Tasks, NEW p \in Points, At(t, p)
  PROVE  Working(t) /\ task[t] \in Busy /\ task[t].order \in Orders
  BY DEF TypeOK, At, Idle, Points, Working, Busy

LEMMA RefusedType ==
  ASSUME TypeOK, NEW o \in Orders, DeleteRefused(o)
  PROVE  past' \in [Orders -> [booked: Nat, recorded: Nat, lost: BOOLEAN,
                               wiped: BOOLEAN, cut: BOOLEAN, kept: 0..MaxRestarts + 1]]
<1>1. Run \in 0..MaxRestarts + 1
  BY DEF TypeOK, Run
<1> QED
  BY <1>1 DEF TypeOK

LEMMA ProceedType ==
  ASSUME TypeOK, NEW t \in Tasks, Proceed(t)
  PROVE  TypeOK'
<1>1. CASE LookupFails(t)
  BY <1>1, Waiting, EndType DEF TypeOK, LookupFails, Points, Causes, States, db, env
<1>2. CASE LookupMismatch(t)
  BY <1>2, Waiting, RemoveType DEF TypeOK, LookupMismatch, Points, Causes, States, db, env
<1>3. CASE LookupDone(t)
  BY <1>3, Waiting, GotoType DEF TypeOK, LookupDone, Points, Causes, States, db, env
<1>4. CASE RejectOrder(t)
  BY <1>4, Waiting, RemoveType DEF TypeOK, RejectOrder, Points, Causes, States, db, env
<1>5. CASE AbandonOrder(t)
  BY <1>5, Waiting, RemoveType, TellType DEF TypeOK, AbandonOrder, Points, Causes, States, db, env
<1>6. CASE CacheOrder(t)
  BY <1>6, Waiting, GotoType DEF TypeOK, CacheOrder, Points, Causes, States, db, env, Busy
<1>7. CASE SendOrder(t)
  BY <1>7, Waiting, EndType, TellType DEF TypeOK, SendOrder, Points, Causes, States, db, env
<1>8. CASE CreateOrderCommits(t)
  <2>1. Working(t) /\ task[t] \in Busy /\ task[t].order \in Orders
    BY <1>8, Waiting DEF CreateOrderCommits, Points
  <2>2. task[t].sale \in SaleIds
    BY <1>8, <2>1 DEF CreateOrderCommits, Busy, SaleIds
  <2>3. sales' \subseteq Orders \X SaleIds
    BY <1>8, <2>1, <2>2 DEF CreateOrderCommits, TypeOK
  <2>4. past' \in [Orders -> [booked: Nat, recorded: Nat, lost: BOOLEAN,
                               wiped: BOOLEAN, cut: BOOLEAN, kept: 0..MaxRestarts + 1]]
    <3>1. past' = [past EXCEPT ![task[t].order].booked = @ + 1]
      BY <1>8 DEF CreateOrderCommits
    <3>2. past \in [Orders -> [booked: Nat, recorded: Nat, lost: BOOLEAN,
                              wiped: BOOLEAN, cut: BOOLEAN, kept: 0..MaxRestarts + 1]]
      BY DEF TypeOK
    <3>3. past[task[t].order].booked + 1 \in Nat
      BY <2>1, <3>2
    <3> QED
      BY <2>1, <3>1, <3>2, <3>3
  <2>6. orders' \subseteq Orders /\ point' \in Int
    <3>1. Price[task[t].order] \in Nat
      BY <2>1
    <3> QED
      BY <1>8, <2>1, <3>1 DEF CreateOrderCommits, TypeOK
  <2>5. task' \in [Tasks -> Busy \cup {Idle}]
    BY <1>8, <2>1, GotoType DEF CreateOrderCommits, Points
  <2> QED
    BY <1>8, <2>3, <2>4, <2>5, <2>6 DEF CreateOrderCommits, TypeOK, env
<1>9. CASE AcceptFails(t)
  BY <1>9, Waiting, RemoveType DEF TypeOK, AcceptFails, Points, Causes, States, db, env
<1>10. CASE AcceptDone(t)
  BY <1>10, Waiting, EndType, TellType DEF TypeOK, AcceptDone, Points, Causes, States, db, env
<1>11. CASE DeleteOrderCommits(t)
  BY <1>11, Waiting, GotoType DEF TypeOK, DeleteOrderCommits, Points, Causes, States, db, env
<1>12. CASE RemovalFails(t)
  BY <1>12, Waiting, EndType, CrashType DEF TypeOK, RemovalFails, Points, Causes, States, db, env
<1>13. CASE RemovalDone(t)
  <2>1. Working(t) /\ task[t].order \in Orders
    BY <1>13, Waiting DEF RemovalDone, Points
  <2>2. /\ task' \in [Tasks -> Busy \cup {Idle}]
        /\ told' \in [Orders -> SUBSET States]
    BY <1>13, <2>1, EndType, GotoType, TellType DEF TypeOK, RemovalDone, Points, States
  <2>3. CASE Uncache(task[t].order)
    BY <1>13, <2>1, <2>2, <2>3 DEF TypeOK, RemovalDone, db, env
  <2>4. CASE DeleteRefused(task[t].order)
    BY <1>13, <2>1, <2>2, <2>4, RefusedType DEF TypeOK, RemovalDone, db, env
  <2> QED
    BY <1>13, <2>3, <2>4 DEF RemovalDone
<1>14. CASE HistoryCommits(t)
  <2>1. Working(t) /\ task[t].order \in Orders
    BY <1>14, Waiting DEF HistoryCommits, Points
  <2>2. task' \in [Tasks -> Busy \cup {Idle}]
    BY <1>14, <2>1, GotoType DEF HistoryCommits, Points
  <2>3. past' \in [Orders -> [booked: Nat, recorded: Nat, lost: BOOLEAN,
                               wiped: BOOLEAN, cut: BOOLEAN, kept: 0..MaxRestarts + 1]]
    <3>1. past' = [past EXCEPT ![task[t].order].recorded = @ + 1]
      BY <1>14 DEF HistoryCommits
    <3>2. past \in [Orders -> [booked: Nat, recorded: Nat, lost: BOOLEAN,
                              wiped: BOOLEAN, cut: BOOLEAN, kept: 0..MaxRestarts + 1]]
      BY DEF TypeOK
    <3>3. past[task[t].order].recorded + 1 \in Nat
      BY <2>1, <3>2
    <3> QED
      BY <2>1, <3>1, <3>2, <3>3
  <2> QED
    BY <1>14, <2>2, <2>3 DEF HistoryCommits, TypeOK, db, env
<1>15. CASE HistoryFails(t)
  BY <1>15, Waiting, EndType DEF TypeOK, HistoryFails, Points, Causes, States, db, env
<1>16. CASE FinishDone(t)
  BY <1>16, Waiting, EndType, TellType DEF TypeOK, FinishDone, Points, Causes, States, db, env
<1> QED
  BY <1>1, <1>2, <1>3, <1>4, <1>5, <1>6, <1>7, <1>8, <1>9, <1>10, <1>11, <1>12,
     <1>13, <1>14, <1>15, <1>16
  DEF Proceed

LEMMA BeginType ==
  ASSUME TypeOK, NEW t \in Tasks, NEW o \in Orders, Begin(t, o)
  PROVE  TypeOK'
<1>1. CASE WebhookArrives(t, o)
  <2>1. calls[o].webhook + 1 \in 0..MaxDeliveries
    BY <1>1 DEF WebhookArrives, TypeOK
  <2>2. task' \in [Tasks -> Busy \cup {Idle}]
    BY <1>1, <2>1, StartType DEF WebhookArrives, Points, Causes
  <2> QED
    BY <1>1, <2>1, <2>2 DEF WebhookArrives, TypeOK, db
<1>2. CASE AcceptOrder(t, o)
  <2>1. orderCache[o] \in 0..MaxDeliveries /\ calls[o].accept + 1 \in 0..MaxAccepts
    BY <1>2 DEF AcceptOrder, TypeOK
  <2>2. task' \in [Tasks -> Busy \cup {Idle}]
    BY <1>2, <2>1, StartType DEF AcceptOrder, Points, Causes
  <2> QED
    BY <1>2, <2>1, <2>2 DEF AcceptOrder, TypeOK, db
<1>3. CASE RefuseOrder(t, o)
  <2>1. orderCache[o] \in 0..MaxDeliveries /\ calls[o].remove + 1 \in 0..MaxRemovals
    BY <1>3 DEF RefuseOrder, TypeOK
  <2>2. task' \in [Tasks -> Busy \cup {Idle}]
    BY <1>3, <2>1, StartType DEF RefuseOrder, Points, Causes
  <2> QED
    BY <1>3, <2>1, <2>2 DEF RefuseOrder, TypeOK, db
<1>4. CASE FinishOrder(t, o)
  <2>1. orderCache[o] \in 0..MaxDeliveries /\ calls[o].remove + 1 \in 0..MaxRemovals
    BY <1>4 DEF FinishOrder, TypeOK
  <2>2. task' \in [Tasks -> Busy \cup {Idle}]
    BY <1>4, <2>1, StartType DEF FinishOrder, Points, Causes
  <2> QED
    BY <1>4, <2>1, <2>2 DEF FinishOrder, TypeOK, db
<1> QED
  BY <1>1, <1>2, <1>3, <1>4 DEF Begin

LEMMA ProcessType ==
  ASSUME TypeOK, Process
  PROVE  TypeOK'
<1>1. CASE Kill
  BY <1>1, CrashType DEF TypeOK, Kill, db, env
<1>2. CASE Restart
  BY <1>2, CrashType DEF TypeOK, Restart, db, env
<1>3. CASE StartupDeletes
  BY <1>3, CrashType DEF TypeOK, StartupDeletes, db, env
<1>4. CASE StartupFails
  BY <1>4, CrashType DEF TypeOK, StartupFails, db, env
<1>5. CASE RejectionUnhandled
  BY <1>5, CrashType DEF TypeOK, RejectionUnhandled, db, env
<1> QED
  BY <1>1, <1>2, <1>3, <1>4, <1>5 DEF Process

LEMMA NextType == TypeOK /\ [Next]_vars => TypeOK'
<1> SUFFICES ASSUME TypeOK, [Next]_vars PROVE TypeOK'
  OBVIOUS
<1>1. CASE Next
  BY <1>1, ProceedType, BeginType, ProcessType DEF Next
<1>2. CASE UNCHANGED vars
  BY <1>2 DEF TypeOK, vars, db, env
<1> QED
  BY <1>1, <1>2

\* Every variable keeps its type, whatever the bounds.
THEOREM TypeCorrect == Spec => []TypeOK
  BY InitType, NextType, PTL DEF Spec

-----------------------------------------------------------------------------
(* The tables order and sales.                                              *)

\* What a task reads or writes of an order when it waits at a point.
LEMMA TaskFacts ==
  ASSUME TypeOK, NEW t \in Tasks, NEW p \in Points, At(t, p)
  PROVE  /\ task[t].order \in Orders
         /\ task[t].sale \in 0..MaxDeliveries
         /\ task[t].why \in Causes
         /\ Working(t)
  BY Waiting DEF Busy

LEMMA CrashPast ==
  ASSUME TypeOK, Crash, NEW o \in Orders
  PROVE  /\ past'[o].wiped = past[o].wiped
         /\ past'[o].booked = past[o].booked
         /\ past'[o].recorded = past[o].recorded
  BY DEF TypeOK, Crash

\* Whether or not the cached order is deleted, the rest of the past is kept.
LEMMA RemovalPast ==
  ASSUME TypeOK, NEW t \in Tasks, RemovalDone(t), NEW o \in Orders
  PROVE  /\ past'[o].booked = past[o].booked
         /\ past'[o].recorded = past[o].recorded
         /\ past'[o].lost = past[o].lost
         /\ past'[o].wiped = past[o].wiped
         /\ past'[o].cut = past[o].cut
<1>1. task[t].order \in Orders
  BY Waiting DEF RemovalDone, Points
<1>2. CASE past' = past
  BY <1>2
<1>3. CASE past' = [past EXCEPT ![task[t].order].kept = Run]
  BY <1>1, <1>3 DEF TypeOK
<1> QED
  BY <1>2, <1>3 DEF RemovalDone

\* Steps that leave the two tables alone, and forget no start of the server.
LEMMA TablesKept ==
  ASSUME TypeOK, SalesMatchOrders, UNCHANGED <<orders, sales>>,
         \A o \in Orders : past'[o].wiped = past[o].wiped
  PROVE  SalesMatchOrders'
  BY DEF SalesMatchOrders, TypeOK

LEMMA CreateKeepsTables ==
  ASSUME TypeOK, SalesMatchOrders, NEW t \in Tasks, CreateOrderCommits(t)
  PROVE  SalesMatchOrders'
<1> DEFINE o == task[t].order
           s == task[t].sale
<1>1. o \in Orders /\ s \in SaleIds
  BY TaskFacts DEF CreateOrderCommits, Points, SaleIds
<1>2. /\ o \notin orders /\ orders' = orders \cup {o}
      /\ sales' = sales \cup {<<o, s>>}
  BY DEF CreateOrderCommits
<1>3. \A q \in Orders : past'[q].wiped = past[q].wiped
  BY <1>1 DEF CreateOrderCommits, TypeOK
<1>4. \A x \in sales : x \in Orders \X SaleIds
  BY DEF TypeOK
<1>5. \A x \in sales : ~past[x[1]].wiped => x[1] # o
  BY <1>2 DEF SalesMatchOrders
<1> HIDE DEF o, s
<1>6. \A q \in orders' : \E n \in SaleIds : <<q, n>> \in sales'
  BY <1>1, <1>2 DEF SalesMatchOrders
<1>7. \A x \in sales' : ~past'[x[1]].wiped => x[1] \in orders'
  BY <1>1, <1>2, <1>3, <1>4 DEF SalesMatchOrders
<1>8. \A x, y \in sales' : x[1] = y[1] /\ ~past'[x[1]].wiped => x = y
  BY <1>1, <1>2, <1>3, <1>4, <1>5 DEF SalesMatchOrders
<1> QED
  BY <1>6, <1>7, <1>8 DEF SalesMatchOrders

LEMMA DeleteKeepsTables ==
  ASSUME TypeOK, SalesMatchOrders, NEW t \in Tasks, DeleteOrderCommits(t)
  PROVE  SalesMatchOrders'
<1> DEFINE o == task[t].order
           s == task[t].sale
<1>1. /\ o \in orders /\ orders' = orders \ {o}
      /\ <<o, s>> \in sales /\ sales' = sales \ {<<o, s>>}
      /\ past' = past
  BY DEF DeleteOrderCommits
<1>2. \A x \in sales : x = <<x[1], x[2]>>
  BY DEF TypeOK
<1> HIDE DEF o, s
<1>3. \A q \in orders' : \E n \in SaleIds : <<q, n>> \in sales'
  BY <1>1 DEF SalesMatchOrders
<1>4. \A x \in sales' : ~past'[x[1]].wiped => x[1] \in orders'
  BY <1>1, <1>2 DEF SalesMatchOrders
<1>5. \A x, y \in sales' : x[1] = y[1] /\ ~past'[x[1]].wiped => x = y
  BY <1>1 DEF SalesMatchOrders
<1> QED
  BY <1>3, <1>4, <1>5 DEF SalesMatchOrders

LEMMA StartupKeepsTables ==
  ASSUME TypeOK, SalesMatchOrders, StartupDeletes
  PROVE  SalesMatchOrders'
<1>1. orders' = {} /\ sales' = sales
  BY DEF StartupDeletes
<1>2. \A o \in Orders : past'[o].wiped = (past[o].wiped \/ o \in orders)
  BY DEF StartupDeletes, TypeOK
<1>3. \A x \in sales : x[1] \in Orders
  BY DEF TypeOK
<1>4. \A x \in sales : past'[x[1]].wiped
  BY <1>2, <1>3 DEF SalesMatchOrders
<1> QED
  BY <1>1, <1>4 DEF SalesMatchOrders

LEMMA ProceedTables ==
  ASSUME TypeOK, SalesMatchOrders, NEW t \in Tasks, Proceed(t)
  PROVE  SalesMatchOrders'
<1>1. CASE LookupFails(t)
  BY <1>1, TablesKept DEF LookupFails, db
<1>2. CASE LookupMismatch(t)
  BY <1>2, TablesKept DEF LookupMismatch, db
<1>3. CASE LookupDone(t)
  BY <1>3, TablesKept DEF LookupDone, db
<1>4. CASE RejectOrder(t)
  BY <1>4, TablesKept DEF RejectOrder, db
<1>5. CASE AbandonOrder(t)
  BY <1>5, TablesKept DEF AbandonOrder, db
<1>6. CASE CacheOrder(t)
  BY <1>6, TablesKept DEF CacheOrder, db
<1>7. CASE SendOrder(t)
  BY <1>7, TablesKept DEF SendOrder, db
<1>8. CASE CreateOrderCommits(t)
  BY <1>8, CreateKeepsTables
<1>9. CASE AcceptFails(t)
  BY <1>9, TablesKept DEF AcceptFails, db
<1>10. CASE AcceptDone(t)
  BY <1>10, TablesKept DEF AcceptDone, db
<1>11. CASE DeleteOrderCommits(t)
  BY <1>11, DeleteKeepsTables
<1>12. CASE RemovalFails(t)
  BY <1>12, TablesKept, CrashPast DEF RemovalFails, db
<1>13. CASE RemovalDone(t)
  BY <1>13, TablesKept, RemovalPast DEF RemovalDone, db
<1>14. CASE HistoryCommits(t)
  BY <1>14, TablesKept, TaskFacts DEF HistoryCommits, Points, TypeOK, db
<1>15. CASE HistoryFails(t)
  BY <1>15, TablesKept, TaskFacts DEF HistoryFails, Points, TypeOK, db
<1>16. CASE FinishDone(t)
  BY <1>16, TablesKept DEF FinishDone, db
<1> QED
  BY <1>1, <1>2, <1>3, <1>4, <1>5, <1>6, <1>7, <1>8, <1>9, <1>10, <1>11, <1>12,
     <1>13, <1>14, <1>15, <1>16
  DEF Proceed

LEMMA NextTables == TypeOK /\ SalesMatchOrders /\ [Next]_vars => SalesMatchOrders'
<1> SUFFICES ASSUME TypeOK, SalesMatchOrders, [Next]_vars PROVE SalesMatchOrders'
  OBVIOUS
<1>1. ASSUME NEW t \in Tasks, NEW o \in Orders, Begin(t, o) PROVE SalesMatchOrders'
  BY <1>1, TablesKept DEF Begin, WebhookArrives, AcceptOrder, RefuseOrder, FinishOrder, db
<1>2. CASE Kill \/ StartupFails \/ RejectionUnhandled
  BY <1>2, TablesKept, CrashPast DEF Kill, StartupFails, RejectionUnhandled, db
<1>3. CASE Restart
  BY <1>3, TablesKept DEF Restart, db
<1>4. CASE StartupDeletes
  BY <1>4, StartupKeepsTables
<1>5. CASE UNCHANGED vars
  BY <1>5, TablesKept DEF vars, db
<1> QED
  BY <1>1, <1>2, <1>3, <1>4, <1>5, ProceedTables DEF Next, Process

LEMMA InitTables == Init => SalesMatchOrders
  BY DEF Init, SalesMatchOrders

\* An accepted order has exactly one sale and a sale has its order, until a
\* start of the server deletes order rows: for any number of racing messages.
THEOREM TablesAgree == Spec => []SalesMatchOrders
  BY InitTables, NextTables, TypeCorrect, PTL DEF Spec

-----------------------------------------------------------------------------
(* What the helpers of a step do to the slots.                              *)

LEMMA GotoTask ==
  ASSUME TypeOK, NEW t \in Tasks, NEW p \in Points, Working(t), Goto(t, p)
  PROVE  /\ \A u \in Tasks \ {t} : task'[u] = task[u]
         /\ task'[t].at = p
         /\ task'[t].order = task[t].order
         /\ task'[t].sale = task[t].sale
         /\ task'[t].why = task[t].why
  BY DEF TypeOK, Goto, Busy, Working

LEMMA EndTask ==
  ASSUME TypeOK, NEW t \in Tasks, End(t)
  PROVE  /\ \A u \in Tasks \ {t} : task'[u] = task[u]
         /\ task'[t] = Idle
  BY DEF TypeOK, End

LEMMA RemoveTask ==
  ASSUME TypeOK, NEW t \in Tasks, NEW o \in Orders, NEW w \in Causes, Remove(t, o, w)
  PROVE  /\ \A u \in Tasks \ {t} : task'[u] = task[u]
         /\ task'[t].at = "remove"
         /\ task'[t].order = o
         /\ task'[t].sale = orderCache[o]
         /\ task'[t].why = w
  BY DEF TypeOK, Remove

LEMMA StartTask ==
  ASSUME TypeOK, NEW t \in Tasks, NEW o \in Orders, NEW p, NEW s, NEW w, Start(t, p, o, s, w)
  PROVE  /\ \A u \in Tasks \ {t} : task'[u] = task[u]
         /\ task'[t].at = p
         /\ task'[t].order = o
         /\ task'[t].sale = s
         /\ task'[t].why = w
  BY DEF TypeOK, Start

LEMMA CrashTask ==
  ASSUME TypeOK, Crash
  PROVE  \A u \in Tasks : task'[u] = Idle
  BY DEF TypeOK, Crash

-----------------------------------------------------------------------------
(* Sales numbers.                                                           *)

LEMMA DeliveredKept ==
  ASSUME TypeOK, TypeOK', SalesWereDelivered, calls' = calls,
         \A o \in Orders : orderCache'[o] <= calls[o].webhook,
         \A x \in sales' : x[2] <= calls[x[1]].webhook,
         \A u \in Tasks : \/ task'[u] = task[u]
                          \/ task'[u] = Idle
                          \/ /\ task'[u].sale <= calls[task'[u].order].webhook
                             /\ task'[u].at \in {"lookup", "store"} => task'[u].sale # 0
  PROVE  SalesWereDelivered'
  BY DEF SalesWereDelivered, At, Working, Idle

LEMMA GotoDelivered ==
  ASSUME TypeOK, TypeOK', SalesWereDelivered, UNCHANGED calls,
         \A o \in Orders : orderCache'[o] <= calls[o].webhook,
         \A x \in sales' : x[2] <= calls[x[1]].webhook,
         NEW t \in Tasks, NEW p \in Points, Working(t), Goto(t, p),
         p \in {"lookup", "store"} => task[t].sale # 0
  PROVE  SalesWereDelivered'
<1>1. task[t].sale <= calls[task[t].order].webhook
  BY DEF SalesWereDelivered
<1>2. /\ \A u \in Tasks \ {t} : task'[u] = task[u]
      /\ task'[t].at = p
      /\ task'[t].order = task[t].order
      /\ task'[t].sale = task[t].sale
  BY GotoTask
<1> QED
  BY <1>1, <1>2, DeliveredKept

LEMMA EndDelivered ==
  ASSUME TypeOK, TypeOK', SalesWereDelivered, UNCHANGED calls,
         \A o \in Orders : orderCache'[o] <= calls[o].webhook,
         \A x \in sales' : x[2] <= calls[x[1]].webhook,
         NEW t \in Tasks, End(t)
  PROVE  SalesWereDelivered'
  BY DeliveredKept, EndTask

LEMMA RemoveDelivered ==
  ASSUME TypeOK, TypeOK', SalesWereDelivered, UNCHANGED calls,
         \A o \in Orders : orderCache'[o] <= calls[o].webhook,
         \A x \in sales' : x[2] <= calls[x[1]].webhook,
         NEW t \in Tasks, NEW o \in Orders, NEW w \in Causes, Remove(t, o, w)
  PROVE  SalesWereDelivered'
<1>1. orderCache[o] <= calls[o].webhook
  BY DEF SalesWereDelivered
<1>2. /\ \A u \in Tasks \ {t} : task'[u] = task[u]
      /\ task'[t].at = "remove"
      /\ task'[t].order = o
      /\ task'[t].sale = orderCache[o]
  BY RemoveTask
<1> QED
  BY <1>1, <1>2, DeliveredKept

LEMMA ProceedDelivered ==
  ASSUME TypeOK, TypeOK', SalesWereDelivered, NEW t \in Tasks, Proceed(t)
  PROVE  SalesWereDelivered'
<1>1. /\ \A o \in Orders : orderCache[o] <= calls[o].webhook
      /\ \A x \in sales : x[2] <= calls[x[1]].webhook
      /\ Working(t) => task[t].sale <= calls[task[t].order].webhook
  BY DEF SalesWereDelivered
<1>2. CASE LookupFails(t)
  BY <1>1, <1>2, TaskFacts, EndDelivered DEF LookupFails, Points, Causes, db, env
<1>3. CASE LookupMismatch(t)
  BY <1>1, <1>3, TaskFacts, RemoveDelivered DEF LookupMismatch, Points, Causes, db, env
<1>4. CASE LookupDone(t)
  BY <1>1, <1>4, TaskFacts, GotoDelivered DEF LookupDone, Points, Causes, db, env, SalesWereDelivered
<1>5. CASE RejectOrder(t)
  BY <1>1, <1>5, TaskFacts, RemoveDelivered DEF RejectOrder, Points, Causes, db, env
<1>6. CASE AbandonOrder(t)
  BY <1>1, <1>6, TaskFacts, RemoveDelivered DEF AbandonOrder, Points, Causes, db, env
<1>7. CASE CacheOrder(t)
  BY <1>1, <1>7, TaskFacts, GotoDelivered DEF CacheOrder, Points, Causes, db, env, TypeOK
<1>8. CASE SendOrder(t)
  BY <1>1, <1>8, TaskFacts, EndDelivered DEF SendOrder, Points, Causes, db, env
<1>9. CASE CreateOrderCommits(t)
  BY <1>1, <1>9, TaskFacts, GotoDelivered DEF CreateOrderCommits, Points, Causes, db, env, TypeOK
<1>10. CASE AcceptFails(t)
  BY <1>1, <1>10, TaskFacts, RemoveDelivered DEF AcceptFails, Points, Causes, db, env
<1>11. CASE AcceptDone(t)
  BY <1>1, <1>11, TaskFacts, EndDelivered DEF AcceptDone, Points, Causes, db, env
<1>12. CASE DeleteOrderCommits(t)
  BY <1>1, <1>12, TaskFacts, GotoDelivered DEF DeleteOrderCommits, Points, Causes, db, env
<1>13. CASE RemovalFails(t)
  BY <1>1, <1>13, TaskFacts, EndDelivered, CrashTask, DeliveredKept DEF RemovalFails, Points, Causes, db, env
<1>14. CASE RemovalDone(t)
  <2>1. \A o \in Orders : calls[o].webhook \in Nat
    BY DEF TypeOK
  <2>2. orderCache \in [Orders -> 0..MaxDeliveries]
    BY DEF TypeOK
  <2>3. \A o \in Orders : orderCache'[o] = orderCache[o] \/ orderCache'[o] = 0
    BY <1>14, <2>2 DEF RemovalDone
  <2>4. \A o \in Orders : orderCache'[o] <= calls'[o].webhook
    BY <1>1, <1>14, <2>1, <2>3 DEF RemovalDone, env
  <2> QED
    BY <1>1, <1>14, <2>4, TaskFacts, EndDelivered, GotoDelivered
    DEF RemovalDone, Points, Causes, db, env
<1>15. CASE HistoryCommits(t)
  BY <1>1, <1>15, TaskFacts, GotoDelivered DEF HistoryCommits, Points, Causes, db, env
<1>16. CASE HistoryFails(t)
  BY <1>1, <1>16, TaskFacts, EndDelivered DEF HistoryFails, Points, Causes, db, env
<1>17. CASE FinishDone(t)
  BY <1>1, <1>17, TaskFacts, EndDelivered DEF FinishDone, Points, Causes, db, env
<1> QED
  BY <1>2, <1>3, <1>4, <1>5, <1>6, <1>7, <1>8, <1>9, <1>10, <1>11, <1>12,
     <1>13, <1>14, <1>15, <1>16, <1>17
  DEF Proceed

LEMMA BeginDelivered ==
  ASSUME TypeOK, TypeOK', SalesWereDelivered, NEW t \in Tasks, NEW o \in Orders, Begin(t, o)
  PROVE  SalesWereDelivered'
<1>1. /\ \A q \in Orders : calls'[q].webhook >= calls[q].webhook
      /\ \A q \in Orders : calls[q].webhook \in Nat /\ calls'[q].webhook \in Nat
      /\ UNCHANGED <<orderCache, sales>>
  <2>1. CASE WebhookArrives(t, o)
    BY <2>1 DEF WebhookArrives, db, TypeOK
  <2>2. CASE AcceptOrder(t, o)
    BY <2>2 DEF AcceptOrder, db, TypeOK
  <2>3. CASE RefuseOrder(t, o)
    BY <2>3 DEF RefuseOrder, db, TypeOK
  <2>4. CASE FinishOrder(t, o)
    BY <2>4 DEF FinishOrder, db, TypeOK
  <2> QED
    BY <2>1, <2>2, <2>3, <2>4 DEF Begin
<1>2. /\ \A u \in Tasks \ {t} : task'[u] = task[u]
      /\ task'[t].order = o
      /\ task'[t].sale <= calls'[o].webhook
      /\ task'[t].at \in {"lookup", "store"} => task'[t].sale # 0
  <2>1. CASE WebhookArrives(t, o)
    BY <2>1, StartTask DEF WebhookArrives, TypeOK
  <2>2. CASE AcceptOrder(t, o) \/ RefuseOrder(t, o) \/ FinishOrder(t, o)
    BY <2>2, <1>1, StartTask DEF AcceptOrder, RefuseOrder, FinishOrder, TypeOK, SalesWereDelivered
  <2> QED
    BY <2>1, <2>2 DEF Begin
<1>3. \A q \in Orders : orderCache'[q] <= calls'[q].webhook
  BY <1>1 DEF SalesWereDelivered, TypeOK
<1>4. \A x \in sales' : x[2] <= calls'[x[1]].webhook
  BY <1>1 DEF SalesWereDelivered, TypeOK, SaleIds
<1>5. ASSUME NEW u \in Tasks
      PROVE  /\ Working(u)' => task'[u].sale <= calls'[task'[u].order].webhook
             /\ At(u, "lookup")' \/ At(u, "store")' => task'[u].sale # 0
  <2>1. CASE u = t
    BY <1>2, <2>1 DEF At
  <2>2. CASE u # t /\ Working(u)
    BY <1>1, <1>2, <2>2 DEF SalesWereDelivered, At, Working, TypeOK, Busy
  <2>3. CASE u # t /\ ~Working(u)
    BY <1>2, <2>3 DEF Working, At, Idle
  <2> QED
    BY <2>1, <2>2, <2>3
<1> QED
  BY <1>3, <1>4, <1>5 DEF SalesWereDelivered

LEMMA NextDelivered ==
  TypeOK /\ TypeOK' /\ SalesWereDelivered /\ [Next]_vars => SalesWereDelivered'
<1> SUFFICES ASSUME TypeOK, TypeOK', SalesWereDelivered, [Next]_vars
             PROVE  SalesWereDelivered'
  OBVIOUS
<1>1. /\ \A o \in Orders : orderCache[o] <= calls[o].webhook
      /\ \A x \in sales : x[2] <= calls[x[1]].webhook
  BY DEF SalesWereDelivered
<1>2. CASE Kill \/ StartupFails \/ RejectionUnhandled
  BY <1>1, <1>2, DeliveredKept, CrashTask DEF Kill, StartupFails, RejectionUnhandled, db, env
<1>3. CASE Restart \/ StartupDeletes \/ UNCHANGED vars
  BY <1>1, <1>3, DeliveredKept DEF Restart, StartupDeletes, vars, db, env
<1> QED
  BY <1>2, <1>3, ProceedDelivered, BeginDelivered DEF Next, Process

LEMMA InitDelivered == Init => SalesWereDelivered
  BY DEF Init, SalesWereDelivered, Working, At, Idle
-----------------------------------------------------------------------------
(* One accept message.                                                      *)

\* A step that starts no accept, deletes no row and no cached order, and
\* books nothing.
Quiet ==
    /\ \A o \in Orders : /\ calls'[o].accept = calls[o].accept
                         /\ past'[o].booked = past[o].booked
                         /\ orderCache[o] # 0 => orderCache'[o] # 0
    /\ orders' \subseteq orders
    /\ \A u \in Tasks : task'[u].at \in {"accept", "removed"} => task'[u] = task[u]

LEMMA QuietKeeps ==
  ASSUME TypeOK, OneAcceptInFlight, Quiet
  PROVE  OneAcceptInFlight'
<1> SUFFICES ASSUME NEW o \in Orders, AcceptedAtMostOnce(o)'
             PROVE  OneAcceptFor(o)'
  BY DEF OneAcceptInFlight
<1>1. OneAcceptFor(o)
  BY DEF Quiet, OneAcceptInFlight, AcceptedAtMostOnce
<1>2. /\ calls'[o].accept = calls[o].accept
      /\ past'[o].booked = past[o].booked
      /\ orderCache[o] # 0 => orderCache'[o] # 0
      /\ o \in orders' => o \in orders
  BY DEF Quiet
<1>3. ASSUME NEW u \in Tasks
      PROVE  /\ At(u, "accept")' => task'[u] = task[u] /\ At(u, "accept")
             /\ At(u, "removed")' => task'[u] = task[u] /\ At(u, "removed")
  BY DEF Quiet, At
<1> QED
  BY <1>1, <1>2, <1>3 DEF OneAcceptFor

LEMMA GotoQuiet ==
  ASSUME TypeOK, NEW t \in Tasks, NEW p \in Points, Working(t), Goto(t, p),
         p \notin {"accept", "removed"}
  PROVE  \A u \in Tasks : task'[u].at \in {"accept", "removed"} => task'[u] = task[u]
  BY GotoTask

LEMMA EndQuiet ==
  ASSUME TypeOK, NEW t \in Tasks, End(t)
  PROVE  \A u \in Tasks : task'[u].at \in {"accept", "removed"} => task'[u] = task[u]
  BY EndTask DEF Idle

LEMMA RemoveQuiet ==
  ASSUME TypeOK, NEW t \in Tasks, NEW o \in Orders, NEW w \in Causes, Remove(t, o, w)
  PROVE  \A u \in Tasks : task'[u].at \in {"accept", "removed"} => task'[u] = task[u]
  BY RemoveTask

LEMMA CrashQuiet ==
  ASSUME TypeOK, Crash
  PROVE  \A u \in Tasks : task'[u].at \in {"accept", "removed"} => task'[u] = task[u]
  BY CrashTask DEF Idle

LEMMA ProceedQuiet ==
  ASSUME TypeOK, SalesWereDelivered, NEW t \in Tasks, Proceed(t),
         ~CreateOrderCommits(t), ~DeleteOrderCommits(t), ~RemovalDone(t)
  PROVE  Quiet
<1>1. CASE LookupFails(t)
  BY <1>1, TaskFacts, EndQuiet DEF LookupFails, Quiet, Points, Causes, db, env
<1>2. CASE LookupMismatch(t)
  BY <1>2, TaskFacts, RemoveQuiet DEF LookupMismatch, Quiet, Points, Causes, db, env
<1>3. CASE LookupDone(t)
  BY <1>3, TaskFacts, GotoQuiet DEF LookupDone, Quiet, Points, Causes, db, env
<1>4. CASE RejectOrder(t)
  BY <1>4, TaskFacts, RemoveQuiet DEF RejectOrder, Quiet, Points, Causes, db, env
<1>5. CASE AbandonOrder(t)
  BY <1>5, TaskFacts, RemoveQuiet DEF AbandonOrder, Quiet, Points, Causes, db, env
<1>6. CASE CacheOrder(t)
  BY <1>6, TaskFacts, GotoQuiet DEF CacheOrder, Quiet, Points, Causes, db, env, TypeOK, SalesWereDelivered
<1>7. CASE SendOrder(t)
  BY <1>7, TaskFacts, EndQuiet DEF SendOrder, Quiet, Points, Causes, db, env
<1>8. CASE AcceptFails(t)
  BY <1>8, TaskFacts, RemoveQuiet DEF AcceptFails, Quiet, Points, Causes, db, env
<1>9. CASE AcceptDone(t)
  BY <1>9, TaskFacts, EndQuiet DEF AcceptDone, Quiet, Points, Causes, db, env
<1>10. CASE RemovalFails(t)
  BY <1>10, TaskFacts, EndQuiet, CrashQuiet, CrashPast DEF RemovalFails, Quiet, Points, Causes, db, env
<1>11. CASE HistoryCommits(t)
  BY <1>11, TaskFacts, GotoQuiet DEF HistoryCommits, Quiet, Points, Causes, db, env, TypeOK
<1>12. CASE HistoryFails(t)
  BY <1>12, TaskFacts, EndQuiet DEF HistoryFails, Quiet, Points, Causes, db, env, TypeOK
<1>13. CASE FinishDone(t)
  BY <1>13, TaskFacts, EndQuiet DEF FinishDone, Quiet, Points, Causes, db, env
<1> QED
  BY <1>1, <1>2, <1>3, <1>4, <1>5, <1>6, <1>7, <1>8, <1>9, <1>10, <1>11, <1>12, <1>13 DEF Proceed

LEMMA CreateKeepsOne ==
  ASSUME TypeOK, OneAcceptInFlight, NEW t \in Tasks, CreateOrderCommits(t)
  PROVE  OneAcceptInFlight'
<1> DEFINE p == task[t].order
<1>1. /\ p \in Orders /\ p \notin orders /\ orders' = orders \cup {p}
      /\ At(t, "accept") /\ task[t].sale # 0
      /\ UNCHANGED <<orderCache, calls>>
  BY TaskFacts DEF CreateOrderCommits, Points, env
<1>2. /\ past'[p].booked = past[p].booked + 1
      /\ \A o \in Orders \ {p} : past'[o].booked = past[o].booked
      /\ past[p].booked \in Nat
  BY <1>1 DEF CreateOrderCommits, TypeOK
<1>3. /\ \A u \in Tasks \ {t} : task'[u] = task[u]
      /\ task'[t].at = "accepted"
  BY GotoTask, TaskFacts DEF CreateOrderCommits, Points
<1> SUFFICES ASSUME NEW o \in Orders, AcceptedAtMostOnce(o)'
             PROVE  OneAcceptFor(o)'
  BY DEF OneAcceptInFlight
<1>4. OneAcceptFor(o)
  BY <1>1 DEF OneAcceptInFlight, AcceptedAtMostOnce
<1>5. CASE o = p
  <2>1. /\ calls[o].accept > 0
        /\ orderCache[o] # 0
        /\ \A u \in Tasks : At(u, "accept") /\ task[u].order = o => u = t
        /\ \A u \in Tasks : ~(At(u, "removed") /\ task[u].order = o)
    BY <1>1, <1>4, <1>5 DEF OneAcceptFor
  <2>2. past'[o].booked > 0
    BY <1>2, <1>5
  <2>3. \A u \in Tasks : ~(At(u, "accept")' /\ task'[u].order = o)
    BY <1>3, <2>1 DEF At
  <2>4. \A u \in Tasks : ~(At(u, "removed")' /\ task'[u].order = o)
    BY <1>3, <2>1 DEF At
  <2> QED
    BY <1>1, <2>1, <2>2, <2>3, <2>4 DEF OneAcceptFor
<1>6. CASE o # p
  <2>1. \A u \in Tasks : At(u, "accept")' => task'[u] = task[u] /\ At(u, "accept")
    BY <1>3 DEF At
  <2>2. \A u \in Tasks : At(u, "removed")' => task'[u] = task[u] /\ At(u, "removed")
    BY <1>3 DEF At
  <2>3. /\ past'[o].booked = past[o].booked
        /\ o \in orders' <=> o \in orders
    BY <1>1, <1>2, <1>6
  <2> QED
    BY <1>1, <1>4, <2>1, <2>2, <2>3 DEF OneAcceptFor
<1> QED
  BY <1>5, <1>6

LEMMA DeleteKeepsOne ==
  ASSUME TypeOK, OneAcceptInFlight, NEW t \in Tasks, DeleteOrderCommits(t)
  PROVE  OneAcceptInFlight'
<1> DEFINE p == task[t].order
<1>1. /\ p \in Orders /\ p \in orders /\ orders' = orders \ {p}
      /\ UNCHANGED <<orderCache, calls, past>>
  BY TaskFacts DEF DeleteOrderCommits, Points, env
<1>2. /\ \A u \in Tasks \ {t} : task'[u] = task[u]
      /\ task'[t].at = "removed"
      /\ task'[t].order = p
  BY GotoTask, TaskFacts DEF DeleteOrderCommits, Points
<1> SUFFICES ASSUME NEW o \in Orders, AcceptedAtMostOnce(o)'
             PROVE  OneAcceptFor(o)'
  BY DEF OneAcceptInFlight
<1>3. OneAcceptFor(o)
  BY <1>1 DEF OneAcceptInFlight, AcceptedAtMostOnce
<1>4. \A u \in Tasks : At(u, "accept")' => task'[u] = task[u] /\ At(u, "accept")
  BY <1>2 DEF At
<1>5. ASSUME NEW u \in Tasks, At(u, "removed")', task'[u].order = o
      PROVE  past'[o].booked > 0 /\ o \notin orders'
  <2>1. CASE u = t
    BY <1>1, <1>2, <1>3, <1>5, <2>1 DEF OneAcceptFor
  <2>2. CASE u # t
    BY <1>1, <1>2, <1>3, <1>5, <2>2 DEF OneAcceptFor, At
  <2> QED
    BY <2>1, <2>2
<1> QED
  BY <1>1, <1>3, <1>4, <1>5 DEF OneAcceptFor

LEMMA RemovalKeepsOne ==
  ASSUME TypeOK, OneAcceptInFlight, NEW t \in Tasks, RemovalDone(t)
  PROVE  OneAcceptInFlight'
<1> DEFINE p == task[t].order
<1>1. /\ p \in Orders /\ At(t, "removed")
      /\ \A o \in Orders \ {p} : orderCache'[o] = orderCache[o]
      /\ UNCHANGED <<orders, calls>>
      /\ \A o \in Orders : past'[o].booked = past[o].booked
  BY TaskFacts, RemovalPast DEF RemovalDone, Points, env, db, TypeOK
<1>2. \A u \in Tasks : task'[u].at \in {"accept", "removed"} => task'[u] = task[u]
  BY GotoQuiet, EndQuiet, TaskFacts DEF RemovalDone, Points
<1>3. ASSUME NEW u \in Tasks
      PROVE  /\ At(u, "accept")' => task'[u] = task[u] /\ At(u, "accept")
             /\ At(u, "removed")' => task'[u] = task[u] /\ At(u, "removed")
  BY <1>2 DEF At
<1> SUFFICES ASSUME NEW o \in Orders, AcceptedAtMostOnce(o)'
             PROVE  OneAcceptFor(o)'
  BY DEF OneAcceptInFlight
<1>4. OneAcceptFor(o)
  BY <1>1 DEF OneAcceptInFlight, AcceptedAtMostOnce
<1>5. CASE o = p
  <2>1. past[o].booked > 0 /\ o \notin orders
    BY <1>1, <1>4, <1>5 DEF OneAcceptFor
  <2>2. past[o].booked # 0
    BY <2>1, <1>1, <1>5 DEF TypeOK
  <2> QED
    BY <1>1, <1>3, <1>4, <2>1, <2>2 DEF OneAcceptFor
<1>6. CASE o # p
  BY <1>1, <1>3, <1>4, <1>6 DEF OneAcceptFor
<1> QED
  BY <1>5, <1>6

LEMMA AcceptKeepsOne ==
  ASSUME TypeOK, OneAcceptInFlight, NEW t \in Tasks, NEW p \in Orders, AcceptOrder(t, p)
  PROVE  OneAcceptInFlight'
<1>1. /\ \A u \in Tasks \ {t} : task'[u] = task[u]
      /\ task'[t].at = "accept"
      /\ task'[t].order = p
      /\ task'[t].sale = orderCache[p]
  BY StartTask DEF AcceptOrder
<1>2. /\ calls[p].accept \in Nat /\ calls'[p].accept = calls[p].accept + 1
      /\ \A o \in Orders \ {p} : calls'[o].accept = calls[o].accept
      /\ UNCHANGED <<orderCache, orders, past>>
  BY DEF AcceptOrder, TypeOK, db
<1> SUFFICES ASSUME NEW o \in Orders, AcceptedAtMostOnce(o)'
             PROVE  OneAcceptFor(o)'
  BY DEF OneAcceptInFlight
<1>3. OneAcceptFor(o)
  <2>1. AcceptedAtMostOnce(o)
    BY <1>2 DEF AcceptedAtMostOnce
  <2> QED
    BY <2>1 DEF OneAcceptInFlight
<1>4. ASSUME NEW u \in Tasks, u # t
      PROVE  /\ At(u, "accept")' => task'[u] = task[u] /\ At(u, "accept")
             /\ At(u, "removed")' => task'[u] = task[u] /\ At(u, "removed")
  BY <1>1, <1>4 DEF At
<1>5. CASE o = p
  <2>1. calls[o].accept = 0 /\ calls'[o].accept = 1
    BY <1>2, <1>5 DEF AcceptedAtMostOnce
  <2>2. past[o].booked = 0
    BY <1>3, <2>1 DEF OneAcceptFor, TypeOK
  <2>3. \A u \in Tasks : ~(At(u, "accept") /\ task[u].order = o)
    BY <1>3, <2>1 DEF OneAcceptFor
  <2>4. \A u \in Tasks : At(u, "accept")' /\ task'[u].order = o => u = t
    BY <1>4, <2>3
  <2>5. \A u \in Tasks : ~(At(u, "removed")' /\ task'[u].order = o)
    BY <1>1, <1>3, <1>4, <2>2 DEF OneAcceptFor, At
  <2>6. o \notin orders
    BY <1>3, <2>2 DEF OneAcceptFor
  <2> QED
    BY <1>1, <1>2, <1>5, <2>1, <2>2, <2>4, <2>5, <2>6 DEF OneAcceptFor
<1>6. CASE o # p
  <2>1. ~(At(t, "accept")' /\ task'[t].order = o) /\ ~At(t, "removed")'
    BY <1>1, <1>6 DEF At
  <2> QED
    BY <1>2, <1>3, <1>4, <1>6, <2>1 DEF OneAcceptFor
<1> QED
  BY <1>5, <1>6

LEMMA NextOneAccept ==
  TypeOK /\ SalesWereDelivered /\ OneAcceptInFlight /\ [Next]_vars => OneAcceptInFlight'
<1> SUFFICES ASSUME TypeOK, SalesWereDelivered, OneAcceptInFlight, [Next]_vars
             PROVE  OneAcceptInFlight'
  OBVIOUS
<1>1. ASSUME NEW t \in Tasks, Proceed(t) PROVE OneAcceptInFlight'
  BY <1>1, ProceedQuiet, QuietKeeps, CreateKeepsOne, DeleteKeepsOne, RemovalKeepsOne
<1>2. ASSUME NEW t \in Tasks, NEW o \in Orders, WebhookArrives(t, o)
      PROVE  OneAcceptInFlight'
  <2>1. \A u \in Tasks : task'[u].at \in {"accept", "removed"} => task'[u] = task[u]
    BY <1>2, StartTask DEF WebhookArrives
  <2> QED
    BY <1>2, <2>1, QuietKeeps DEF Quiet, WebhookArrives, TypeOK, db
<1>3. ASSUME NEW t \in Tasks, NEW o \in Orders, RefuseOrder(t, o) \/ FinishOrder(t, o)
      PROVE  OneAcceptInFlight'
  <2>1. \A u \in Tasks : task'[u].at \in {"accept", "removed"} => task'[u] = task[u]
    BY <1>3, StartTask DEF RefuseOrder, FinishOrder
  <2>2. calls' = [calls EXCEPT ![o].remove = @ + 1]
    BY <1>3 DEF RefuseOrder, FinishOrder
  <2>3. \A q \in Orders : calls'[q].accept = calls[q].accept
    BY <2>2 DEF TypeOK
  <2> QED
    BY <1>3, <2>1, <2>3, QuietKeeps DEF Quiet, RefuseOrder, FinishOrder, db
<1>4. CASE Kill \/ StartupFails \/ RejectionUnhandled
  BY <1>4, QuietKeeps, CrashQuiet, CrashPast DEF Quiet, Kill, StartupFails, RejectionUnhandled, db, env
<1>5. CASE Restart \/ UNCHANGED vars
  BY <1>5, QuietKeeps DEF Quiet, Restart, vars, db, env
<1>6. CASE StartupDeletes
  BY <1>6, QuietKeeps DEF Quiet, StartupDeletes, TypeOK, env
<1> QED
  BY <1>1, <1>2, <1>3, <1>4, <1>5, <1>6, AcceptKeepsOne DEF Next, Begin, Process

LEMMA InitOneAccept == Init => OneAcceptInFlight
  BY DEF Init, OneAcceptInFlight, OneAcceptFor, AcceptedAtMostOnce, At, Idle

-----------------------------------------------------------------------------
(* The inductive invariant and what follows from it.                        *)

LEMMA InductiveInvariant == Spec => []Inductive
<1>1. Init => Inductive
  BY InitType, InitTables, InitDelivered, InitOneAccept DEF Inductive
<1>2. Inductive /\ [Next]_vars => Inductive'
  BY NextType, NextTables, NextDelivered, NextOneAccept DEF Inductive
<1> QED
  BY <1>1, <1>2, PTL DEF Spec

LEMMA InductiveSettleable == Inductive => AcceptedOrderIsSettleable
<1> SUFFICES ASSUME Inductive, NEW o \in orders, Ordinary(o)
             PROVE  orderCache[o] # 0 /\ <<o, orderCache[o]>> \in sales
  BY DEF AcceptedOrderIsSettleable
<1>1. o \in Orders /\ calls[o].webhook \in Nat /\ orderCache[o] \in Nat
  BY DEF Inductive, TypeOK
<1>2. orderCache[o] # 0
  BY <1>1 DEF Inductive, OneAcceptInFlight, OneAcceptFor, AcceptedAtMostOnce, Ordinary
<1>3. orderCache[o] = 1
  BY <1>1, <1>2 DEF Inductive, SalesWereDelivered, Ordinary
<1>4. PICK s \in SaleIds : <<o, s>> \in sales
  BY DEF Inductive, SalesMatchOrders
<1>5. s <= calls[o].webhook
  BY <1>4 DEF Inductive, SalesWereDelivered
<1>6. s = 1
  BY <1>1, <1>5 DEF SaleIds, Ordinary
<1> QED
  BY <1>2, <1>3, <1>4, <1>6

\* An order on the books of an ordinary order can always be settled: the
\* cache still holds it, under the sales_uid its sale was booked with.
THEOREM OrdersStaySettleable == Spec => []AcceptedOrderIsSettleable
  BY InductiveInvariant, InductiveSettleable, PTL

-----------------------------------------------------------------------------
(* With one accept message per order, the desk implements OrderBook.        *)

Stages == [o \in Orders |-> Stage(o)]

LEMMA StageKept ==
  ASSUME UNCHANGED <<orders, point>>, \A o \in Orders : past'[o].booked = past[o].booked
  PROVE  UNCHANGED <<Stages, point>>
  BY DEF Stages, Stage

LEMMA AtMostOnce ==
  ASSUME Inductive, MaxAccepts <= 1, NEW o \in Orders
  PROVE  OneAcceptFor(o)
<1>1. calls[o].accept \in 0..MaxAccepts
  BY DEF Inductive, TypeOK
<1>2. AcceptedAtMostOnce(o)
  BY <1>1 DEF AcceptedAtMostOnce
<1> QED
  BY <1>2 DEF Inductive, OneAcceptInFlight

LEMMA CreateOpens ==
  ASSUME Inductive, MaxAccepts <= 1, NEW t \in Tasks, CreateOrderCommits(t)
  PROVE  Book!Open(task[t].order)
<1> DEFINE p == task[t].order
<1>1. /\ p \in Orders /\ p \notin orders /\ orders' = orders \cup {p}
      /\ At(t, "accept") /\ point' = point + Price[p]
  BY TaskFacts DEF CreateOrderCommits, Points, Inductive
<1>2. \A o \in Orders \ {p} : past'[o].booked = past[o].booked
  BY <1>1 DEF CreateOrderCommits, Inductive, TypeOK
<1>3. past[p].booked = 0
  BY <1>1, AtMostOnce DEF OneAcceptFor
<1>4. Stages[p] = "new"
  BY <1>1, <1>3 DEF Stages, Stage
<1>5. \A o \in Orders : Stage(o)' = IF o = p THEN "open" ELSE Stage(o)
  BY <1>1, <1>2 DEF Stage
<1>6. Stages' = [Stages EXCEPT ![p] = "open"]
  BY <1>5 DEF Stages
<1> QED
  BY <1>1, <1>4, <1>6 DEF Book!Open, Stages

LEMMA DeleteCloses ==
  ASSUME Inductive, MaxAccepts <= 1, NEW t \in Tasks, DeleteOrderCommits(t)
  PROVE  Book!Close(task[t].order)
<1> DEFINE p == task[t].order
<1>1. /\ p \in Orders /\ p \in orders /\ orders' = orders \ {p}
      /\ past' = past /\ point' = point - Price[p]
  BY TaskFacts DEF DeleteOrderCommits, Points, Inductive
<1>2. past[p].booked # 0
  BY <1>1, AtMostOnce DEF OneAcceptFor
<1>3. Stages[p] = "open"
  BY <1>1 DEF Stages, Stage
<1>4. Stages' = [Stages EXCEPT ![p] = "closed"]
  BY <1>1, <1>2 DEF Stages, Stage
<1> QED
  BY <1>1, <1>3, <1>4 DEF Book!Close, Stages

LEMMA StartupStartsOver ==
  ASSUME Inductive, MaxAccepts <= 1, StartupDeletes
  PROVE  Book!StartOver
<1>1. /\ orders' = {} /\ point' = point
      /\ \A o \in Orders : past'[o].booked = past[o].booked
  BY DEF StartupDeletes, Inductive, TypeOK
<1>2. \A o \in orders : o \in Orders /\ past[o].booked # 0
  BY AtMostOnce DEF OneAcceptFor, Inductive, TypeOK
<1>3. Stages' = [o \in Orders |-> IF Stages[o] = "open" THEN "closed" ELSE Stages[o]]
  BY <1>1, <1>2 DEF Stages, Stage
<1> QED
  BY <1>1, <1>3 DEF Book!StartOver, Stages

LEMMA NextIsBookStep ==
  ASSUME Inductive, MaxAccepts <= 1, [Next]_vars
  PROVE  [Book!Next]_<<Stages, point>>
<1> USE DEF Inductive
<1>1. ASSUME NEW t \in Tasks, Proceed(t) PROVE [Book!Next]_<<Stages, point>>
  <2>1. CASE CreateOrderCommits(t)
    BY <2>1, CreateOpens, TaskFacts DEF Book!Next, CreateOrderCommits, Points
  <2>2. CASE DeleteOrderCommits(t)
    BY <2>2, DeleteCloses, TaskFacts DEF Book!Next, DeleteOrderCommits, Points
  <2>3. CASE RemovalDone(t)
    BY <2>3, StageKept, RemovalPast DEF RemovalDone, db
  <2>4. CASE ~CreateOrderCommits(t) /\ ~DeleteOrderCommits(t) /\ ~RemovalDone(t)
    <3>1. Quiet
      BY <1>1, <2>4, ProceedQuiet
    <3>2. UNCHANGED <<orders, point>>
      BY <1>1, <2>4 DEF Proceed, LookupFails, LookupMismatch, LookupDone, RejectOrder,
         AbandonOrder, CacheOrder, SendOrder, AcceptFails, AcceptDone, RemovalFails,
         HistoryCommits, HistoryFails, FinishDone, db
    <3> QED
      BY <3>1, <3>2, StageKept DEF Quiet
  <2> QED
    BY <2>1, <2>2, <2>3, <2>4
<1>2. ASSUME NEW t \in Tasks, NEW o \in Orders, Begin(t, o)
      PROVE  [Book!Next]_<<Stages, point>>
  BY <1>2, StageKept DEF Begin, WebhookArrives, AcceptOrder, RefuseOrder, FinishOrder, db
<1>3. CASE Kill \/ StartupFails \/ RejectionUnhandled
  BY <1>3, StageKept, CrashPast DEF Kill, StartupFails, RejectionUnhandled, db
<1>4. CASE Restart \/ UNCHANGED vars
  BY <1>4, StageKept DEF Restart, vars, db
<1>5. CASE StartupDeletes
  BY <1>5, StartupStartsOver DEF Book!Next
<1> QED
  BY <1>1, <1>2, <1>3, <1>4, <1>5 DEF Next, Process

LEMMA InitIsBookInit == Init => Book!Init
  BY DEF Init, Book!Init, Stage

\* When a merchant accepts an order at most once, its way through the tables
\* order and storewallet is the one OrderBook promises: once in, once out,
\* the wallet moved with it, whatever else is repeated, races or crashes.
THEOREM DeskImplementsBook ==
  ASSUME MaxAccepts <= 1
  PROVE  Spec => ImplementsOrderBook
<1>1. Inductive /\ [Next]_vars => [Book!Next]_<<Stages, point>>
  BY NextIsBookStep
<1> QED
  BY <1>1, InitIsBookInit, InductiveInvariant, PTL
  DEF Spec, ImplementsOrderBook, Book!Spec, Stages

-----------------------------------------------------------------------------
(* What is in the history.                                                  *)

\* The removals of an order past their commit that may still be recorded: each
\* has taken back an acceptance of its own.
Settling(o) == {t \in Tasks : task[t].at \in {"removed", "settle"} /\ task[t].order = o}

BackedFor(o) ==
    /\ IsFiniteSet(Settling(o))
    /\ past[o].recorded + (IF o \in orders THEN 1 ELSE 0) + Cardinality(Settling(o))
         <= past[o].booked

Backed == \A o \in Orders : BackedFor(o)

LEMMA SettlingFewer ==
  ASSUME NEW o \in Orders, BackedFor(o), Settling(o)' \subseteq Settling(o),
         past'[o].recorded = past[o].recorded, past'[o].booked = past[o].booked,
         o \in orders' => o \in orders, TypeOK
  PROVE  BackedFor(o)'
<1>1. /\ IsFiniteSet(Settling(o))
      /\ past[o].recorded + (IF o \in orders THEN 1 ELSE 0) + Cardinality(Settling(o))
           <= past[o].booked
  BY DEF BackedFor
<1>2. /\ IsFiniteSet(Settling(o)') /\ Cardinality(Settling(o)') <= Cardinality(Settling(o))
      /\ Cardinality(Settling(o)') \in Nat /\ Cardinality(Settling(o)) \in Nat
  BY <1>1, FS_Subset, FS_CardinalityType
<1>3. past[o].recorded \in Nat /\ past[o].booked \in Nat
  BY DEF TypeOK
<1> QED
  BY <1>1, <1>2, <1>3 DEF BackedFor

\* A task that moves on to no removal past its commit.
LEMMA MovedOn ==
  ASSUME NEW t \in Tasks, \A u \in Tasks \ {t} : task'[u] = task[u],
         \/ task'[t].at \notin {"removed", "settle"}
         \/ task[t].at \in {"removed", "settle"} /\ task'[t].order = task[t].order
  PROVE  \A o \in Orders : Settling(o)' \subseteq Settling(o)
  BY DEF Settling

LEMMA BackedKept ==
  ASSUME TypeOK, Backed, UNCHANGED orders,
         \A o \in Orders : /\ Settling(o)' \subseteq Settling(o)
                           /\ past'[o].recorded = past[o].recorded
                           /\ past'[o].booked = past[o].booked
  PROVE  Backed'
  BY SettlingFewer DEF Backed

LEMMA CrashBacked ==
  ASSUME TypeOK, Backed, Crash, UNCHANGED orders
  PROVE  Backed'
<1>1. \A o \in Orders : Settling(o)' \subseteq Settling(o)
  BY CrashTask DEF Settling, Idle
<1> QED
  BY <1>1, CrashPast, BackedKept

LEMMA CreateBacked ==
  ASSUME TypeOK, Backed, NEW t \in Tasks, CreateOrderCommits(t)
  PROVE  Backed'
<1> DEFINE p == task[t].order
<1>1. /\ p \in Orders /\ p \notin orders /\ orders' = orders \cup {p}
      /\ past' = [past EXCEPT ![p].booked = @ + 1]
  BY TaskFacts DEF CreateOrderCommits, Points
<1>2. \A o \in Orders : Settling(o)' \subseteq Settling(o)
  BY GotoTask, TaskFacts, MovedOn DEF CreateOrderCommits, Points
<1>3. \A o \in Orders : /\ past'[o].booked = past[o].booked + (IF o = p THEN 1 ELSE 0)
                        /\ past'[o].recorded = past[o].recorded
                        /\ past[o].recorded \in Nat /\ past[o].booked \in Nat
  BY <1>1 DEF TypeOK
<1> SUFFICES ASSUME NEW o \in Orders PROVE BackedFor(o)'
  BY DEF Backed
<1>4. CASE o = p
  <2>1. /\ IsFiniteSet(Settling(o))
        /\ past[o].recorded + Cardinality(Settling(o)) <= past[o].booked
    BY <1>1, <1>3, <1>4, FS_CardinalityType DEF Backed, BackedFor
  <2>2. /\ IsFiniteSet(Settling(o)') /\ Cardinality(Settling(o)') <= Cardinality(Settling(o))
        /\ Cardinality(Settling(o)') \in Nat /\ Cardinality(Settling(o)) \in Nat
    BY <1>2, <2>1, FS_Subset, FS_CardinalityType
  <2> QED
    BY <1>1, <1>3, <1>4, <2>1, <2>2 DEF BackedFor
<1>5. CASE o # p
  BY <1>1, <1>2, <1>3, <1>5, SettlingFewer DEF Backed
<1> QED
  BY <1>4, <1>5

LEMMA DeleteBacked ==
  ASSUME TypeOK, Backed, NEW t \in Tasks, DeleteOrderCommits(t)
  PROVE  Backed'
<1> DEFINE p == task[t].order
<1>1. p \in Orders /\ p \in orders /\ orders' = orders \ {p} /\ past' = past /\ At(t, "remove")
  BY TaskFacts DEF DeleteOrderCommits, Points
<1>2. /\ \A u \in Tasks \ {t} : task'[u] = task[u]
      /\ task'[t].at = "removed" /\ task'[t].order = p
  BY GotoTask, TaskFacts DEF DeleteOrderCommits, Points
<1> SUFFICES ASSUME NEW o \in Orders PROVE BackedFor(o)'
  BY DEF Backed
<1>3. CASE o = p
  <2>1. t \notin Settling(o) /\ Settling(o)' = Settling(o) \cup {t}
    BY <1>1, <1>2, <1>3 DEF Settling, At
  <2>2. /\ IsFiniteSet(Settling(o))
        /\ past[o].recorded + 1 + Cardinality(Settling(o)) <= past[o].booked
    BY <1>1, <1>3 DEF Backed, BackedFor
  <2>3. /\ IsFiniteSet(Settling(o)') /\ Cardinality(Settling(o)') = Cardinality(Settling(o)) + 1
        /\ Cardinality(Settling(o)) \in Nat
    BY <2>1, <2>2, FS_AddElement, FS_CardinalityType
  <2>4. past[o].recorded \in Nat /\ past[o].booked \in Nat
    BY DEF TypeOK
  <2> QED
    BY <1>1, <1>3, <2>2, <2>3, <2>4 DEF BackedFor
<1>4. CASE o # p
  <2>1. Settling(o)' \subseteq Settling(o)
    BY <1>2, <1>4 DEF Settling
  <2> QED
    BY <1>1, <2>1, SettlingFewer DEF Backed
<1> QED
  BY <1>3, <1>4

LEMMA HistoryBackedStep ==
  ASSUME TypeOK, Backed, NEW t \in Tasks, HistoryCommits(t)
  PROVE  Backed'
<1> DEFINE p == task[t].order
<1>1. /\ p \in Orders /\ At(t, "settle") /\ UNCHANGED orders
      /\ past' = [past EXCEPT ![p].recorded = @ + 1]
  BY TaskFacts DEF HistoryCommits, Points, db
<1>2. /\ \A u \in Tasks \ {t} : task'[u] = task[u]
      /\ task'[t].at = "finished"
  BY GotoTask, TaskFacts DEF HistoryCommits, Points
<1>3. \A o \in Orders : /\ past'[o].booked = past[o].booked
                        /\ past'[o].recorded = past[o].recorded + (IF o = p THEN 1 ELSE 0)
                        /\ past[o].recorded \in Nat /\ past[o].booked \in Nat
  BY <1>1 DEF TypeOK
<1> SUFFICES ASSUME NEW o \in Orders PROVE BackedFor(o)'
  BY DEF Backed
<1>4. CASE o = p
  <2>1. t \in Settling(o) /\ Settling(o)' = Settling(o) \ {t}
    BY <1>1, <1>2, <1>4 DEF Settling, At
  <2>2. /\ IsFiniteSet(Settling(o))
        /\ past[o].recorded + (IF o \in orders THEN 1 ELSE 0) + Cardinality(Settling(o))
             <= past[o].booked
    BY DEF Backed, BackedFor
  <2>3. /\ IsFiniteSet(Settling(o)') /\ Cardinality(Settling(o)') = Cardinality(Settling(o)) - 1
        /\ Cardinality(Settling(o)) \in Nat
    BY <2>1, <2>2, FS_RemoveElement, FS_CardinalityType
  <2> QED
    BY <1>1, <1>3, <1>4, <2>2, <2>3 DEF BackedFor
<1>5. CASE o # p
  <2>1. Settling(o)' \subseteq Settling(o)
    BY <1>2, MovedOn
  <2> QED
    BY <1>1, <1>3, <1>5, <2>1, SettlingFewer DEF Backed
<1> QED
  BY <1>4, <1>5

\* A step of a handler moves its own task only, to another point of the same
\* order or to its end; or it ends the process.
LEMMA ProceedTask ==
  ASSUME TypeOK, NEW t \in Tasks, Proceed(t)
  PROVE  \/ RemovalFails(t) /\ Crash
         \/ /\ \A u \in Tasks \ {t} : task'[u] = task[u]
            /\ task'[t] = Idle \/ task'[t].order = task[t].order
<1>1. CASE LookupFails(t) \/ SendOrder(t) \/ AcceptDone(t) \/ HistoryFails(t) \/ FinishDone(t)
  BY <1>1, EndTask DEF LookupFails, SendOrder, AcceptDone, HistoryFails, FinishDone
<1>2. CASE LookupMismatch(t) \/ RejectOrder(t) \/ AbandonOrder(t) \/ AcceptFails(t)
  BY <1>2, RemoveTask, TaskFacts
  DEF LookupMismatch, RejectOrder, AbandonOrder, AcceptFails, Points, Causes
<1>3. CASE LookupDone(t) \/ CacheOrder(t) \/ CreateOrderCommits(t) \/ DeleteOrderCommits(t)
           \/ HistoryCommits(t)
  BY <1>3, GotoTask, TaskFacts
  DEF LookupDone, CacheOrder, CreateOrderCommits, DeleteOrderCommits, HistoryCommits, Points
<1>4. CASE RemovalFails(t)
  BY <1>4, EndTask DEF RemovalFails
<1>5. CASE RemovalDone(t)
  BY <1>5, EndTask, GotoTask, TaskFacts DEF RemovalDone, Points
<1> QED
  BY <1>1, <1>2, <1>3, <1>4, <1>5 DEF Proceed

LEMMA ProceedBacked ==
  ASSUME TypeOK, Backed, NEW t \in Tasks, Proceed(t)
  PROVE  Backed'
<1>1. CASE LookupFails(t) \/ SendOrder(t) \/ AcceptDone(t) \/ FinishDone(t)
  BY <1>1, EndTask, MovedOn, BackedKept
  DEF LookupFails, SendOrder, AcceptDone, FinishDone, Idle, db
<1>2. CASE LookupMismatch(t) \/ RejectOrder(t) \/ AbandonOrder(t) \/ AcceptFails(t)
  <2>1. /\ \A u \in Tasks \ {t} : task'[u] = task[u]
        /\ task'[t].at = "remove"
    BY <1>2, RemoveTask, TaskFacts
    DEF LookupMismatch, RejectOrder, AbandonOrder, AcceptFails, Points, Causes
  <2> QED
    BY <1>2, <2>1, MovedOn, BackedKept
    DEF LookupMismatch, RejectOrder, AbandonOrder, AcceptFails, db
<1>3. CASE LookupDone(t) \/ CacheOrder(t)
  <2>1. /\ \A u \in Tasks \ {t} : task'[u] = task[u]
        /\ task'[t].at \in {"store", "cached"}
    BY <1>3, GotoTask, TaskFacts DEF LookupDone, CacheOrder, Points
  <2> QED
    BY <1>3, <2>1, MovedOn, BackedKept DEF LookupDone, CacheOrder, db
<1>4. CASE RemovalFails(t)
  <2>1. CASE Crash
    BY <1>4, <2>1, CrashBacked DEF RemovalFails, db
  <2>2. CASE End(t) /\ UNCHANGED past
    BY <1>4, <2>2, EndTask, MovedOn, BackedKept DEF RemovalFails, db, Idle
  <2> QED
    BY <1>4, <2>1, <2>2 DEF RemovalFails
<1>5. CASE RemovalDone(t)
  <2>1. /\ At(t, "removed") /\ UNCHANGED orders
        /\ \A o \in Orders : /\ past'[o].recorded = past[o].recorded
                              /\ past'[o].booked = past[o].booked
    BY <1>5, RemovalPast DEF RemovalDone, db
  <2>2. /\ \A u \in Tasks \ {t} : task'[u] = task[u]
        /\ task'[t] = Idle \/ task'[t].order = task[t].order
    BY <1>5, EndTask, GotoTask, TaskFacts DEF RemovalDone, Points
  <2> QED
    BY <2>1, <2>2, MovedOn, BackedKept DEF At, Idle
<1>6. CASE HistoryFails(t)
  <2>1. \A o \in Orders : /\ past'[o].recorded = past[o].recorded
                          /\ past'[o].booked = past[o].booked
    BY <1>6 DEF HistoryFails, TypeOK
  <2> QED
    BY <1>6, <2>1, EndTask, MovedOn, BackedKept DEF HistoryFails, Idle, db
<1> QED
  BY <1>1, <1>2, <1>3, <1>4, <1>5, <1>6, CreateBacked, DeleteBacked, HistoryBackedStep DEF Proceed

LEMMA BeginBacked ==
  ASSUME TypeOK, Backed, NEW t \in Tasks, NEW p \in Orders, Begin(t, p)
  PROVE  Backed'
<1>1. /\ \A u \in Tasks \ {t} : task'[u] = task[u]
      /\ task'[t].at \in {"lookup", "accept", "remove"}
  BY StartTask DEF Begin, WebhookArrives, AcceptOrder, RefuseOrder, FinishOrder
<1>2. UNCHANGED <<orders, past>>
  BY DEF Begin, WebhookArrives, AcceptOrder, RefuseOrder, FinishOrder, db
<1> QED
  BY <1>1, <1>2, MovedOn, BackedKept

LEMMA ProcessBacked ==
  ASSUME TypeOK, Backed, Process
  PROVE  Backed'
<1>1. CASE Kill \/ StartupFails \/ RejectionUnhandled
  BY <1>1, CrashBacked DEF Kill, StartupFails, RejectionUnhandled, db
<1>2. CASE Restart
  BY <1>2, BackedKept DEF Restart, Settling, db
<1>3. CASE StartupDeletes
  <2>1. orders' = {} /\ \A o \in Orders : Settling(o)' = Settling(o)
    BY <1>3 DEF StartupDeletes, Settling
  <2>2. \A o \in Orders : /\ past'[o].recorded = past[o].recorded
                          /\ past'[o].booked = past[o].booked
    BY <1>3 DEF StartupDeletes, TypeOK
  <2> QED
    BY <2>1, <2>2, SettlingFewer DEF Backed
<1> QED
  BY <1>1, <1>2, <1>3 DEF Process

LEMMA NextBacked == TypeOK /\ Backed /\ [Next]_vars => Backed'
<1> SUFFICES ASSUME TypeOK, Backed, [Next]_vars PROVE Backed'
  OBVIOUS
<1>1. CASE UNCHANGED vars
  BY <1>1, BackedKept DEF vars, db, Settling
<1> QED
  BY <1>1, ProceedBacked, BeginBacked, ProcessBacked DEF Next

LEMMA InitBacked == Init => Backed
<1> SUFFICES ASSUME Init, NEW o \in Orders PROVE BackedFor(o)
  BY DEF Backed
<1>1. Settling(o) = {}
  BY DEF Init, Settling, Idle
<1> QED
  BY <1>1, FS_EmptySet DEF Init, BackedFor

LEMMA BackedGives == TypeOK /\ Backed => HistoryBacked
<1> SUFFICES ASSUME TypeOK, Backed, NEW o \in Orders
             PROVE  past[o].recorded + (IF o \in orders THEN 1 ELSE 0) <= past[o].booked
  BY DEF HistoryBacked
<1>1. BackedFor(o) /\ past[o].recorded \in Nat /\ past[o].booked \in Nat
  BY DEF Backed, TypeOK
<1> QED
  BY <1>1, FS_CardinalityType DEF BackedFor

\* However finishes and refusals of an order race, or are cut short: what is in
\* the buyers' histories or still on the books was accepted as often.
THEOREM HistoriesAreBacked == Spec => []HistoryBacked
  BY InitBacked, NextBacked, BackedGives, TypeCorrect, PTL DEF Spec

-----------------------------------------------------------------------------
(* Where a removal comes from.                                              *)

\* The webhook's task, or the background removal it left behind.
Paying(t, o) ==
    \/ task[t].at \in {"lookup", "store", "cached"} /\ task[t].order = o
    \/ At(t, "remove") /\ task[t].order = o /\ task[t].why = "back"

Undoing(t, o) == At(t, "remove") /\ task[t].order = o /\ task[t].why = "undo"

\* With one webhook, the order is not at the merchant's app as long as the
\* webhook's task, or the removal it left behind, is under way; and nobody
\* accepts an order that never got there.
OneWebhookFor(o) ==
    /\ o \in inbox => calls[o].webhook > 0
    /\ calls[o].accept > 0 => o \in inbox
    /\ calls[o].webhook <= 1 =>
         \A t \in Tasks : Paying(t, o) =>
            /\ calls[o].webhook > 0
            /\ o \notin inbox
            /\ \A u \in Tasks : Paying(u, o) => u = t

\* With one accept message, an order is booked once at most, and never when
\* the accept's own removal is under way.
OneBookingFor(o) ==
    AcceptedAtMostOnce(o) =>
        /\ past[o].booked <= 1
        /\ \A t \in Tasks : Undoing(t, o) =>
              /\ calls[o].accept > 0
              /\ past[o].booked = 0
              /\ \A u \in Tasks : ~(At(u, "accept") /\ task[u].order = o)

RemovalsHaveCauses ==
    \A t \in Tasks : At(t, "remove") => task[t].why \in {"undo", "refuse", "finish", "back"}

CausesKnown ==
    /\ RemovalsHaveCauses
    /\ \A o \in Orders : OneWebhookFor(o) /\ OneBookingFor(o)

\* A step of no webhook, no accept and no refusal: no new payment task or
\* accept, and none of their removals.
LEMMA CausesKept ==
  ASSUME TypeOK, CausesKnown, RemovalsHaveCauses',
         NEW o \in Orders,
         \A u \in Tasks : /\ Paying(u, o)' => Paying(u, o)
                          /\ Undoing(u, o)' => Undoing(u, o)
                          /\ At(u, "accept")' /\ task'[u].order = o
                               => At(u, "accept") /\ task[u].order = o,
         o \in inbox' <=> o \in inbox, calls'[o].webhook = calls[o].webhook,
         calls'[o].accept = calls[o].accept, past'[o].booked = past[o].booked
  PROVE  OneWebhookFor(o)' /\ OneBookingFor(o)'
<1>1. OneWebhookFor(o) /\ OneBookingFor(o)
  BY DEF CausesKnown
<1>2. OneWebhookFor(o)'
  BY <1>1 DEF OneWebhookFor
<1>3. OneBookingFor(o)'
  BY <1>1 DEF OneBookingFor, AcceptedAtMostOnce
<1> QED
  BY <1>2, <1>3

\* The same, of a step that moves one task.
LEMMA OneMoves ==
  ASSUME NEW o \in Orders, NEW t \in Tasks, \A u \in Tasks \ {t} : task'[u] = task[u],
         Paying(t, o)' => Paying(t, o), Undoing(t, o)' => Undoing(t, o),
         task'[t].at # "accept"
  PROVE  \A u \in Tasks : /\ Paying(u, o)' => Paying(u, o)
                          /\ Undoing(u, o)' => Undoing(u, o)
                          /\ At(u, "accept")' /\ task'[u].order = o
                               => At(u, "accept") /\ task[u].order = o
  BY DEF Paying, Undoing, At

LEMMA CausesOfRemovals ==
  ASSUME TypeOK, RemovalsHaveCauses, [Next]_vars
  PROVE  RemovalsHaveCauses'
<1>1. ASSUME NEW t \in Tasks, \A u \in Tasks \ {t} : task'[u] = task[u],
             task'[t].at = "remove" => task'[t].why \in {"undo", "refuse", "finish", "back"}
      PROVE  RemovalsHaveCauses'
  BY <1>1 DEF RemovalsHaveCauses, At
<1>2. Crash => RemovalsHaveCauses'
  BY CrashTask DEF RemovalsHaveCauses, At, Idle
<1>3. UNCHANGED task => RemovalsHaveCauses'
  BY DEF RemovalsHaveCauses, At
<1>4. ASSUME NEW t \in Tasks, Proceed(t) PROVE RemovalsHaveCauses'
  <2>1. CASE LookupFails(t) \/ SendOrder(t) \/ AcceptDone(t) \/ HistoryFails(t) \/ FinishDone(t)
    BY <1>1, <2>1, EndTask DEF LookupFails, SendOrder, AcceptDone, HistoryFails, FinishDone, Idle
  <2>2. CASE LookupMismatch(t) \/ RejectOrder(t) \/ AbandonOrder(t) \/ AcceptFails(t)
    <3>1. /\ \A u \in Tasks \ {t} : task'[u] = task[u]
          /\ task'[t].why \in {"undo", "back"}
      BY <2>2, RemoveTask, TaskFacts
      DEF LookupMismatch, RejectOrder, AbandonOrder, AcceptFails, Points, Causes
    <3> QED
      BY <1>1, <3>1
  <2>3. CASE LookupDone(t) \/ CacheOrder(t) \/ CreateOrderCommits(t) \/ DeleteOrderCommits(t)
             \/ HistoryCommits(t)
    <3>1. /\ \A u \in Tasks \ {t} : task'[u] = task[u]
          /\ task'[t].at # "remove"
      BY <2>3, GotoTask, TaskFacts
      DEF LookupDone, CacheOrder, CreateOrderCommits, DeleteOrderCommits, HistoryCommits, Points
    <3> QED
      BY <1>1, <3>1
  <2>4. CASE RemovalFails(t)
    BY <1>1, <1>2, <2>4, EndTask DEF RemovalFails, Idle
  <2>5. CASE RemovalDone(t)
    <3>1. /\ \A u \in Tasks \ {t} : task'[u] = task[u]
          /\ task'[t].at # "remove"
      BY <2>5, EndTask, GotoTask, TaskFacts DEF RemovalDone, Points, Idle
    <3> QED
      BY <1>1, <3>1
  <2> QED
    BY <1>4, <2>1, <2>2, <2>3, <2>4, <2>5 DEF Proceed
<1>5. ASSUME NEW t \in Tasks, NEW o \in Orders, Begin(t, o) PROVE RemovalsHaveCauses'
  <2>1. /\ \A u \in Tasks \ {t} : task'[u] = task[u]
        /\ task'[t].at = "remove" => task'[t].why \in {"refuse", "finish"}
    BY <1>5, StartTask DEF Begin, WebhookArrives, AcceptOrder, RefuseOrder, FinishOrder
  <2> QED
    BY <1>1, <2>1
<1>6. Process => RemovalsHaveCauses'
  BY <1>2, <1>3 DEF Process, Kill, Restart, StartupDeletes, StartupFails, RejectionUnhandled
<1>7. UNCHANGED vars => RemovalsHaveCauses'
  BY <1>3 DEF vars
<1> QED
  BY <1>4, <1>5, <1>6, <1>7 DEF Next

LEMMA ProceedCauses ==
  ASSUME TypeOK, OneAcceptInFlight, CausesKnown, RemovalsHaveCauses',
         NEW t \in Tasks, Proceed(t), NEW o \in Orders
  PROVE  OneWebhookFor(o)' /\ OneBookingFor(o)'
<1>0. OneWebhookFor(o) /\ OneBookingFor(o)
  BY DEF CausesKnown
<1>1. CASE LookupFails(t) \/ AcceptDone(t) \/ FinishDone(t) \/ HistoryFails(t)
  <2>1. (\A u \in Tasks \ {t} : task'[u] = task[u]) /\ task'[t] = Idle
    BY <1>1, EndTask DEF LookupFails, AcceptDone, FinishDone, HistoryFails
  <2>2. UNCHANGED <<inbox, calls>> /\ past'[o].booked = past[o].booked
    BY <1>1 DEF LookupFails, AcceptDone, FinishDone, HistoryFails, env, TypeOK
  <2> QED
    BY <2>1, <2>2, OneMoves, CausesKept DEF Paying, Undoing, At, Idle
<1>2. CASE LookupMismatch(t) \/ RejectOrder(t) \/ AbandonOrder(t)
  <2>1. /\ \A u \in Tasks \ {t} : task'[u] = task[u]
        /\ task'[t].at = "remove" /\ task'[t].order = task[t].order /\ task'[t].why = "back"
    BY <1>2, RemoveTask, TaskFacts DEF LookupMismatch, RejectOrder, AbandonOrder, Points, Causes
  <2>2. task[t].at \in {"lookup", "store", "cached"}
    BY <1>2 DEF LookupMismatch, RejectOrder, AbandonOrder, At
  <2>3. UNCHANGED <<inbox, calls, past>>
    BY <1>2 DEF LookupMismatch, RejectOrder, AbandonOrder, env
  <2>4. (Paying(t, o)' => Paying(t, o)) /\ ~Undoing(t, o)'
    BY <2>1, <2>2 DEF Paying, Undoing, At
  <2> QED
    BY <2>1, <2>3, <2>4, OneMoves, CausesKept
<1>3. CASE LookupDone(t) \/ CacheOrder(t)
  <2>1. /\ \A u \in Tasks \ {t} : task'[u] = task[u]
        /\ task'[t].at \in {"store", "cached"} /\ task'[t].order = task[t].order
    BY <1>3, GotoTask, TaskFacts DEF LookupDone, CacheOrder, Points
  <2>2. task[t].at \in {"lookup", "store"} /\ UNCHANGED <<inbox, calls, past>>
    BY <1>3 DEF LookupDone, CacheOrder, At, env
  <2>3. (Paying(t, o)' => Paying(t, o)) /\ ~Undoing(t, o)'
    BY <2>1, <2>2 DEF Paying, Undoing, At
  <2> QED
    BY <2>1, <2>2, <2>3, OneMoves, CausesKept
<1>4. CASE SendOrder(t)
  <2>1. /\ (\A u \in Tasks \ {t} : task'[u] = task[u]) /\ task'[t] = Idle
        /\ At(t, "cached") /\ UNCHANGED <<calls, past>>
        /\ inbox' = inbox \/ inbox' = inbox \cup {task[t].order}
    BY <1>4, EndTask DEF SendOrder
  <2>2. \A u \in Tasks : /\ Paying(u, o)' => u # t /\ Paying(u, o)
                         /\ Undoing(u, o)' => Undoing(u, o)
                         /\ At(u, "accept")' /\ task'[u].order = o
                              => At(u, "accept") /\ task[u].order = o
    BY <2>1 DEF Paying, Undoing, At, Idle
  <2>3. CASE o = task[t].order
    <3>1. Paying(t, o)
      BY <2>1, <2>3 DEF Paying, At
    <3>2. calls[o].webhook > 0
      BY <1>0, <3>1 DEF OneWebhookFor, TypeOK
    <3>3. calls[o].webhook <= 1 => \A u \in Tasks : ~Paying(u, o)'
      BY <1>0, <2>2, <3>1 DEF OneWebhookFor
    <3>4. OneWebhookFor(o)'
      BY <1>0, <2>1, <3>2, <3>3 DEF OneWebhookFor
    <3>5. OneBookingFor(o)'
      BY <1>0, <2>1, <2>2 DEF OneBookingFor, AcceptedAtMostOnce
    <3> QED
      BY <3>4, <3>5
  <2>4. CASE o # task[t].order
    BY <2>1, <2>2, <2>4, CausesKept
  <2> QED
    BY <2>3, <2>4
<1>5. CASE CreateOrderCommits(t)
  <2>1. /\ \A u \in Tasks \ {t} : task'[u] = task[u]
        /\ task'[t].at = "accepted" /\ At(t, "accept") /\ UNCHANGED <<inbox, calls>>
        /\ task[t].order \in Orders
    BY <1>5, GotoTask, TaskFacts DEF CreateOrderCommits, Points, env
  <2>2. \A u \in Tasks : /\ Paying(u, o)' => Paying(u, o)
                         /\ Undoing(u, o)' => Undoing(u, o)
                         /\ At(u, "accept")' /\ task'[u].order = o
                              => At(u, "accept") /\ task[u].order = o
    BY <2>1, OneMoves DEF Paying, Undoing, At
  <2>3. CASE o = task[t].order
    <3>1. past'[o].booked = past[o].booked + 1
      BY <1>5, <2>3 DEF CreateOrderCommits, TypeOK
    <3>2. AcceptedAtMostOnce(o) => past[o].booked = 0
      BY <2>1, <2>3 DEF OneAcceptInFlight, OneAcceptFor
    <3>3. AcceptedAtMostOnce(o) => \A u \in Tasks : ~Undoing(u, o)'
      BY <1>0, <2>1, <2>2, <2>3 DEF OneBookingFor
    <3>4. OneBookingFor(o)'
      BY <2>1, <3>1, <3>2, <3>3 DEF OneBookingFor, AcceptedAtMostOnce
    <3>5. OneWebhookFor(o)'
      BY <1>0, <2>1, <2>2 DEF OneWebhookFor
    <3> QED
      BY <3>4, <3>5
  <2>4. CASE o # task[t].order
    <3>1. past'[o].booked = past[o].booked
      BY <1>5, <2>1, <2>4 DEF CreateOrderCommits, TypeOK
    <3> QED
      BY <2>1, <2>2, <3>1, CausesKept
  <2> QED
    BY <2>3, <2>4
<1>6. CASE AcceptFails(t)
  <2>1. /\ \A u \in Tasks \ {t} : task'[u] = task[u]
        /\ task'[t].at = "remove" /\ task'[t].order = task[t].order /\ task'[t].why = "undo"
        /\ At(t, "accept") /\ UNCHANGED <<inbox, calls, past>> /\ task[t].order \in Orders
    BY <1>6, RemoveTask, TaskFacts DEF AcceptFails, Points, Causes, env
  <2>2. CASE o = task[t].order
    <3>1. \A u \in Tasks : Paying(u, o)' => Paying(u, o)
      BY <2>1 DEF Paying, At
    <3>2. AcceptedAtMostOnce(o) =>
             /\ past[o].booked = 0 /\ calls[o].accept > 0
             /\ \A u \in Tasks : At(u, "accept") /\ task[u].order = o => u = t
      BY <2>1, <2>2 DEF OneAcceptInFlight, OneAcceptFor
    <3>3. AcceptedAtMostOnce(o) =>
             \A u \in Tasks : ~(At(u, "accept")' /\ task'[u].order = o)
      BY <2>1, <3>2 DEF At
    <3>4. OneBookingFor(o)'
      BY <2>1, <3>2, <3>3 DEF OneBookingFor, AcceptedAtMostOnce
    <3>5. OneWebhookFor(o)'
      BY <1>0, <2>1, <3>1 DEF OneWebhookFor
    <3> QED
      BY <3>4, <3>5
  <2>3. CASE o # task[t].order
    BY <2>1, <2>3, OneMoves, CausesKept DEF Paying, Undoing, At
  <2> QED
    BY <2>2, <2>3
<1>7. CASE DeleteOrderCommits(t) \/ RemovalDone(t) \/ HistoryCommits(t)
  <2>1. /\ \A u \in Tasks \ {t} : task'[u] = task[u]
        /\ task'[t].at \in {"removed", "settle", "finished", "idle"}
    BY <1>7, GotoTask, EndTask, TaskFacts DEF DeleteOrderCommits, RemovalDone, HistoryCommits,
                                           Points, Idle
  <2>2. past'[o].booked = past[o].booked
    <3>1. CASE HistoryCommits(t)
      BY <3>1, TaskFacts DEF HistoryCommits, Points, TypeOK
    <3>2. CASE UNCHANGED past
      BY <3>2
    <3>3. CASE RemovalDone(t)
      BY <3>3, RemovalPast
    <3> QED
      BY <1>7, <3>1, <3>2, <3>3 DEF DeleteOrderCommits
  <2>3. UNCHANGED <<inbox, calls>>
    BY <1>7 DEF DeleteOrderCommits, RemovalDone, HistoryCommits, env
  <2> QED
    BY <2>1, <2>2, <2>3, OneMoves, CausesKept DEF Paying, Undoing, At
<1>8. CASE RemovalFails(t)
  <2>1. \A u \in Tasks : task'[u] = task[u] \/ task'[u] = Idle
    BY <1>8, EndTask, CrashTask DEF RemovalFails
  <2>2. UNCHANGED <<inbox, calls>> /\ past'[o].booked = past[o].booked
    BY <1>8, CrashPast DEF RemovalFails, env
  <2>3. \A u \in Tasks : /\ Paying(u, o)' => Paying(u, o)
                         /\ Undoing(u, o)' => Undoing(u, o)
                         /\ At(u, "accept")' /\ task'[u].order = o
                              => At(u, "accept") /\ task[u].order = o
    BY <2>1 DEF Paying, Undoing, At, Idle
  <2> QED
    BY <2>2, <2>3, CausesKept
<1> QED
  BY <1>1, <1>2, <1>3, <1>4, <1>5, <1>6, <1>7, <1>8 DEF Proceed

LEMMA BeginCauses ==
  ASSUME TypeOK, OneAcceptInFlight, CausesKnown, RemovalsHaveCauses',
         NEW t \in Tasks, NEW p \in Orders, Begin(t, p), NEW o \in Orders
  PROVE  OneWebhookFor(o)' /\ OneBookingFor(o)'
<1>0. OneWebhookFor(o) /\ OneBookingFor(o)
  BY DEF CausesKnown
<1>1. CASE WebhookArrives(t, p)
  <2>1. /\ \A u \in Tasks \ {t} : task'[u] = task[u]
        /\ task'[t].at = "lookup" /\ task'[t].order = p /\ UNCHANGED <<inbox, past>>
    BY <1>1, StartTask DEF WebhookArrives
  <2>2. /\ calls'[o].accept = calls[o].accept
        /\ calls'[o].webhook = calls[o].webhook + (IF o = p THEN 1 ELSE 0)
        /\ calls[o].webhook \in Nat
    BY <1>1 DEF WebhookArrives, TypeOK
  <2>3. \A u \in Tasks : /\ Paying(u, o)' => Paying(u, o) \/ (u = t /\ o = p)
                         /\ Undoing(u, o)' => Undoing(u, o)
                         /\ At(u, "accept")' /\ task'[u].order = o
                              => At(u, "accept") /\ task[u].order = o
    BY <2>1 DEF Paying, Undoing, At
  <2>4. CASE o = p
    <3>1. calls'[o].webhook > 0
      BY <2>2, <2>4
    <3>2. calls'[o].webhook <= 1 => /\ o \notin inbox
                                    /\ \A u \in Tasks : ~Paying(u, o)
      BY <1>0, <2>2, <2>4 DEF OneWebhookFor
    <3>3. OneWebhookFor(o)'
      BY <1>0, <2>1, <2>2, <2>3, <3>1, <3>2 DEF OneWebhookFor
    <3>4. OneBookingFor(o)'
      BY <1>0, <2>1, <2>2, <2>3 DEF OneBookingFor, AcceptedAtMostOnce
    <3> QED
      BY <3>3, <3>4
  <2>5. CASE o # p
    BY <2>1, <2>2, <2>3, <2>5, CausesKept
  <2> QED
    BY <2>4, <2>5
<1>2. CASE AcceptOrder(t, p)
  <2>1. /\ \A u \in Tasks \ {t} : task'[u] = task[u]
        /\ task'[t].at = "accept" /\ task'[t].order = p /\ UNCHANGED <<inbox, past>>
        /\ p \in inbox
    BY <1>2, StartTask DEF AcceptOrder
  <2>2. /\ calls'[o].webhook = calls[o].webhook
        /\ calls'[o].accept = calls[o].accept + (IF o = p THEN 1 ELSE 0)
        /\ calls[o].accept \in Nat
    BY <1>2 DEF AcceptOrder, TypeOK
  <2>3. \A u \in Tasks : /\ Paying(u, o)' => Paying(u, o)
                         /\ Undoing(u, o)' => Undoing(u, o)
    BY <2>1 DEF Paying, Undoing, At
  <2>4. CASE o = p
    <3>1. OneWebhookFor(o)'
      BY <1>0, <2>1, <2>2, <2>3, <2>4 DEF OneWebhookFor
    <3>2. AcceptedAtMostOnce(o)' => calls[o].accept = 0
      BY <2>2, <2>4 DEF AcceptedAtMostOnce
    <3>3. AcceptedAtMostOnce(o)' => \A u \in Tasks : ~Undoing(u, o)'
      BY <1>0, <2>3, <3>2 DEF OneBookingFor, AcceptedAtMostOnce
    <3>4. OneBookingFor(o)'
      BY <1>0, <2>1, <3>2, <3>3 DEF OneBookingFor, AcceptedAtMostOnce
    <3> QED
      BY <3>1, <3>4
  <2>5. CASE o # p
    <3>1. \A u \in Tasks : At(u, "accept")' /\ task'[u].order = o
                              => At(u, "accept") /\ task[u].order = o
      BY <2>1, <2>5 DEF At
    <3> QED
      BY <2>1, <2>2, <2>3, <2>5, <3>1, CausesKept
  <2> QED
    BY <2>4, <2>5
<1>3. CASE RefuseOrder(t, p) \/ FinishOrder(t, p)
  <2>1. /\ \A u \in Tasks \ {t} : task'[u] = task[u]
        /\ task'[t].at = "remove" /\ task'[t].why \in {"refuse", "finish"}
        /\ UNCHANGED <<inbox, past>>
    BY <1>3, StartTask DEF RefuseOrder, FinishOrder
  <2>2. calls' = [calls EXCEPT ![p].remove = @ + 1]
    BY <1>3 DEF RefuseOrder, FinishOrder
  <2>3. calls'[o].webhook = calls[o].webhook /\ calls'[o].accept = calls[o].accept
    BY <2>2 DEF TypeOK
  <2> QED
    BY <2>1, <2>3, OneMoves, CausesKept DEF Paying, Undoing, At
<1> QED
  BY <1>1, <1>2, <1>3 DEF Begin

LEMMA NextCauses ==
  TypeOK /\ OneAcceptInFlight /\ CausesKnown /\ [Next]_vars => CausesKnown'
<1> SUFFICES ASSUME TypeOK, OneAcceptInFlight, CausesKnown, [Next]_vars PROVE CausesKnown'
  OBVIOUS
<1>1. RemovalsHaveCauses'
  BY CausesOfRemovals DEF CausesKnown
<1>2. ASSUME NEW o \in Orders, Process \/ UNCHANGED vars
      PROVE  OneWebhookFor(o)' /\ OneBookingFor(o)'
  <2>1. \A u \in Tasks : task'[u] = task[u] \/ task'[u] = Idle
    BY <1>2, CrashTask DEF Process, Kill, Restart, StartupDeletes, StartupFails, RejectionUnhandled, vars
  <2>2. UNCHANGED <<inbox, calls>> /\ past'[o].booked = past[o].booked
    BY <1>2, CrashPast DEF Process, Kill, Restart, StartupDeletes, StartupFails, RejectionUnhandled, vars, env, TypeOK
  <2>3. \A u \in Tasks : /\ Paying(u, o)' => Paying(u, o)
                         /\ Undoing(u, o)' => Undoing(u, o)
                         /\ At(u, "accept")' /\ task'[u].order = o
                              => At(u, "accept") /\ task[u].order = o
    BY <2>1 DEF Paying, Undoing, At, Idle
  <2> QED
    BY <1>1, <2>2, <2>3, CausesKept
<1>3. \A o \in Orders : OneWebhookFor(o)' /\ OneBookingFor(o)'
  BY <1>1, <1>2, ProceedCauses, BeginCauses DEF Next
<1> QED
  BY <1>1, <1>3 DEF CausesKnown

LEMMA InitCauses == Init => CausesKnown
  BY DEF Init, CausesKnown, RemovalsHaveCauses, OneWebhookFor, OneBookingFor, Paying, Undoing,
         At, Idle

-----------------------------------------------------------------------------
(* Orders that are gone.                                                    *)

\* What the buyer of an order that is gone was told, or is about to be.
Answering(t, o) ==
    \/ At(t, "removed") /\ task[t].order = o /\ task[t].why \in {"refuse", "finish"}
    \/ At(t, "settle") /\ task[t].order = o
    \/ At(t, "finished") /\ task[t].order = o /\ past[o].recorded > 0

AnsweredFor(o) ==
    \/ "refuse" \in told[o]
    \/ "finish" \in told[o] /\ past[o].recorded > 0
    \/ past[o].lost

AnswerIsDueFor(o) ==
    (Ordinary(o) /\ ~past[o].cut /\ past[o].booked > 0 /\ o \notin orders)
      => AnsweredFor(o) \/ \E t \in Tasks : Answering(t, o)

AnswerIsDue == \A o \in Orders : AnswerIsDueFor(o)

\* A step that forgets nothing, and by which a task that owes the buyer an
\* answer still owes it, or has given it.
LEMMA AnswerKept ==
  ASSUME NEW o \in Orders, AnswerIsDueFor(o),
         Ordinary(o)' => Ordinary(o), past[o].cut => past'[o].cut,
         past'[o].booked = past[o].booked, o \in orders => o \in orders',
         AnsweredFor(o) => AnsweredFor(o)',
         \A u \in Tasks : Answering(u, o) => Answering(u, o)' \/ AnsweredFor(o)'
  PROVE  AnswerIsDueFor(o)'
  BY DEF AnswerIsDueFor

LEMMA RecordedIsNat ==
  ASSUME TypeOK
  PROVE  \A o \in Orders : past[o].recorded \in Nat
  BY DEF TypeOK

\* Nothing is forgotten when a buyer is told something and `past` only grows.
LEMMA AnsweredKept ==
  ASSUME NEW o \in Orders, TypeOK, TypeOK', told[o] \subseteq told'[o],
         past[o].lost => past'[o].lost, past'[o].recorded >= past[o].recorded
  PROVE  AnsweredFor(o) => AnsweredFor(o)'
  BY DEF AnsweredFor, TypeOK

LEMMA TellMore ==
  ASSUME TypeOK, NEW p \in Orders, NEW s \in States, Tell(p, s)
  PROVE  /\ \A o \in Orders : told[o] \subseteq told'[o]
         /\ s \in told'[p]
  BY DEF TypeOK, Tell

\* The handlers that neither remove an order nor record it.
LEMMA OtherAnswers ==
  ASSUME TypeOK, TypeOK', AnswerIsDue, NEW o \in Orders, NEW t \in Tasks,
         \A u \in Tasks \ {t} : task'[u] = task[u],
         task[t].at \notin {"removed", "settle", "finished"},
         UNCHANGED <<orders, calls, past>>, told[o] \subseteq told'[o]
  PROVE  AnswerIsDueFor(o)'
<1>1. \A u \in Tasks : Answering(u, o) => Answering(u, o)'
  BY DEF Answering, At
<1>2. AnsweredFor(o) => AnsweredFor(o)'
  BY AnsweredKept, RecordedIsNat
<1> QED
  BY <1>1, <1>2, AnswerKept DEF AnswerIsDue, Ordinary

LEMMA CreateAnswers ==
  ASSUME TypeOK, TypeOK', AnswerIsDue, NEW o \in Orders, NEW t \in Tasks, CreateOrderCommits(t)
  PROVE  AnswerIsDueFor(o)'
<1>1. /\ \A u \in Tasks \ {t} : task'[u] = task[u]
      /\ At(t, "accept") /\ task[t].order \in Orders
      /\ orders' = orders \cup {task[t].order} /\ UNCHANGED <<calls, told>>
  BY GotoTask, TaskFacts DEF CreateOrderCommits, Points, env
<1>2. CASE o = task[t].order
  BY <1>1, <1>2 DEF AnswerIsDueFor
<1>3. CASE o # task[t].order
  <2>1. past'[o] = past[o]
    BY <1>1, <1>3 DEF CreateOrderCommits, TypeOK
  <2>2. \A u \in Tasks : Answering(u, o) => Answering(u, o)'
    BY <1>1, <2>1 DEF Answering, At
  <2>3. AnsweredFor(o) => AnsweredFor(o)'
    BY <1>1, <2>1, AnsweredKept, RecordedIsNat
  <2> QED
    BY <1>1, <2>1, <2>2, <2>3, AnswerKept DEF AnswerIsDue, Ordinary
<1> QED
  BY <1>2, <1>3

\* An order that was booked by its one accept, of one webhook, is removed on
\* behalf of the merchant only.
LEMMA DeleteAnswers ==
  ASSUME TypeOK, TypeOK', OneAcceptInFlight, CausesKnown, AnswerIsDue,
         NEW o \in Orders, NEW t \in Tasks, DeleteOrderCommits(t)
  PROVE  AnswerIsDueFor(o)'
<1>1. /\ \A u \in Tasks \ {t} : task'[u] = task[u]
      /\ task'[t].at = "removed" /\ task'[t].order = task[t].order /\ task'[t].why = task[t].why
      /\ At(t, "remove") /\ task[t].order \in Orders
      /\ orders' = orders \ {task[t].order} /\ UNCHANGED <<calls, told, past>>
  BY GotoTask, TaskFacts DEF DeleteOrderCommits, Points, env
<1>2. CASE o = task[t].order
  <2> SUFFICES ASSUME Ordinary(o), past[o].booked > 0
               PROVE  Answering(t, o)'
    BY <1>1 DEF AnswerIsDueFor, Ordinary
  <2>1. task[t].why \in {"undo", "refuse", "finish", "back"}
    BY <1>1 DEF CausesKnown, RemovalsHaveCauses
  <2>2. OneAcceptFor(o) /\ AcceptedAtMostOnce(o) /\ OneWebhookFor(o) /\ OneBookingFor(o)
    BY DEF OneAcceptInFlight, AcceptedAtMostOnce, Ordinary, CausesKnown
  <2>3. task[t].why # "undo"
    BY <1>1, <1>2, <2>2 DEF OneBookingFor, Undoing
  <2>4. o \in inbox
    BY <2>2 DEF OneAcceptFor, OneWebhookFor
  <2>5. task[t].why # "back"
    BY <1>1, <1>2, <2>2, <2>4 DEF OneWebhookFor, Paying, Ordinary
  <2> QED
    BY <1>1, <1>2, <2>1, <2>3, <2>5 DEF Answering, At
<1>3. CASE o # task[t].order
  <2>1. \A u \in Tasks : Answering(u, o) => Answering(u, o)'
    BY <1>1, <1>3 DEF Answering, At
  <2>2. AnsweredFor(o) => AnsweredFor(o)'
    BY <1>1, AnsweredKept, RecordedIsNat
  <2> QED
    BY <1>1, <1>3, <2>1, <2>2, AnswerKept DEF AnswerIsDue, Ordinary
<1> QED
  BY <1>2, <1>3

LEMMA RemovalAnswers ==
  ASSUME TypeOK, TypeOK', AnswerIsDue, NEW o \in Orders, NEW t \in Tasks, RemovalDone(t)
  PROVE  AnswerIsDueFor(o)'
<1>1. /\ \A u \in Tasks \ {t} : task'[u] = task[u]
      /\ task[t].why = "finish" => task'[t].at = "settle" /\ task'[t].order = task[t].order
      /\ At(t, "removed") /\ task[t].order \in Orders
      /\ UNCHANGED <<orders, calls>>
      /\ past'[o].booked = past[o].booked /\ past'[o].recorded = past[o].recorded
      /\ past'[o].lost = past[o].lost /\ past'[o].wiped = past[o].wiped
      /\ past'[o].cut = past[o].cut
  BY GotoTask, EndTask, TaskFacts, RemovalPast DEF RemovalDone, Points, env, db
<1>2. /\ told[o] \subseteq told'[o]
      /\ task[t].why = "refuse" => "refuse" \in told'[task[t].order]
  BY <1>1, TellMore DEF RemovalDone, States
<1>3. \A u \in Tasks : Answering(u, o) => Answering(u, o)' \/ AnsweredFor(o)'
  BY <1>1, <1>2 DEF Answering, AnsweredFor, At
<1>4. AnsweredFor(o) => AnsweredFor(o)'
  BY <1>1, <1>2, AnsweredKept, RecordedIsNat
<1> QED
  BY <1>1, <1>3, <1>4, AnswerKept DEF AnswerIsDue, Ordinary

LEMMA HistoryAnswers ==
  ASSUME TypeOK, TypeOK', AnswerIsDue, NEW o \in Orders, NEW t \in Tasks,
         HistoryCommits(t) \/ HistoryFails(t)
  PROVE  AnswerIsDueFor(o)'
<1>1. /\ \A u \in Tasks \ {t} : task'[u] = task[u]
      /\ At(t, "settle") /\ task[t].order \in Orders
      /\ UNCHANGED <<orders, calls, told>>
  BY GotoTask, EndTask, TaskFacts DEF HistoryCommits, HistoryFails, Points, env, db
<1>2. /\ past'[o].booked = past[o].booked /\ past'[o].cut = past[o].cut
      /\ past'[o].wiped = past[o].wiped /\ (past[o].lost => past'[o].lost)
      /\ past'[o].recorded >= past[o].recorded
  <2>1. CASE HistoryCommits(t)
    BY <1>1, <2>1 DEF HistoryCommits, TypeOK
  <2>2. CASE HistoryFails(t)
    BY <1>1, <2>2 DEF HistoryFails, TypeOK
  <2> QED
    BY <2>1, <2>2
<1>3. Answering(t, o) => Answering(t, o)' \/ AnsweredFor(o)'
  <2>1. CASE HistoryCommits(t)
    <3>1. task'[t].at = "finished" /\ task'[t].order = task[t].order
      BY <2>1, GotoTask, TaskFacts DEF HistoryCommits, Points
    <3>2. o = task[t].order => past'[o].recorded > 0
      BY <1>1, <2>1 DEF HistoryCommits, TypeOK
    <3> QED
      BY <1>1, <3>1, <3>2 DEF Answering, At
  <2>2. CASE HistoryFails(t)
    <3>1. o = task[t].order => past'[o].lost
      BY <1>1, <2>2 DEF HistoryFails, TypeOK
    <3> QED
      BY <1>1, <3>1 DEF Answering, AnsweredFor, At
  <2> QED
    BY <2>1, <2>2
<1>4. \A u \in Tasks \ {t} : Answering(u, o) => Answering(u, o)'
  BY <1>1, <1>2 DEF Answering, At, TypeOK
<1>5. AnsweredFor(o) => AnsweredFor(o)'
  BY <1>1, <1>2, AnsweredKept, RecordedIsNat
<1> QED
  BY <1>1, <1>2, <1>3, <1>4, <1>5, AnswerKept DEF AnswerIsDue, Ordinary

LEMMA FinishAnswers ==
  ASSUME TypeOK, TypeOK', AnswerIsDue, NEW o \in Orders, NEW t \in Tasks, FinishDone(t)
  PROVE  AnswerIsDueFor(o)'
<1>1. /\ \A u \in Tasks \ {t} : task'[u] = task[u]
      /\ At(t, "finished") /\ task[t].order \in Orders
      /\ UNCHANGED <<orders, calls, past>>
  BY EndTask, TaskFacts DEF FinishDone, Points, env, db
<1>2. told[o] \subseteq told'[o] /\ "finish" \in told'[task[t].order]
  BY <1>1, TellMore DEF FinishDone, States
<1>3. \A u \in Tasks : Answering(u, o) => Answering(u, o)' \/ AnsweredFor(o)'
  BY <1>1, <1>2 DEF Answering, AnsweredFor, At
<1>4. AnsweredFor(o) => AnsweredFor(o)'
  BY <1>1, <1>2, AnsweredKept, RecordedIsNat
<1> QED
  BY <1>1, <1>3, <1>4, AnswerKept DEF AnswerIsDue, Ordinary

\* A crash cuts every task, and marks its order.
LEMMA CrashAnswers ==
  ASSUME TypeOK, TypeOK', AnswerIsDue, NEW o \in Orders, Crash, UNCHANGED <<orders, calls, told>>
  PROVE  AnswerIsDueFor(o)'
<1>1. /\ past'[o].booked = past[o].booked /\ past'[o].wiped = past[o].wiped
      /\ past'[o].lost = past[o].lost /\ past'[o].recorded = past[o].recorded
      /\ past'[o].cut = (past[o].cut \/ \E t \in Tasks : Working(t) /\ task[t].order = o)
  BY DEF Crash, TypeOK
<1>2. \A u \in Tasks : Answering(u, o) => past'[o].cut
  <2>1. \A u \in Tasks : Answering(u, o) => Working(u) /\ task[u].order = o
    BY DEF Answering, Working, At, Idle
  <2>2. ASSUME NEW u \in Tasks, Working(u), task[u].order = o PROVE past'[o].cut
    BY <1>1, <2>2
  <2> QED
    BY <2>1, <2>2
<1>3. AnsweredFor(o) => AnsweredFor(o)'
  BY <1>1, AnsweredKept, RecordedIsNat
<1> QED
  BY <1>1, <1>2, <1>3 DEF AnswerIsDue, AnswerIsDueFor, Ordinary

LEMMA ProceedAnswers ==
  ASSUME TypeOK, TypeOK', OneAcceptInFlight, CausesKnown, AnswerIsDue,
         NEW o \in Orders, NEW t \in Tasks, Proceed(t)
  PROVE  AnswerIsDueFor(o)'
<1>1. CASE LookupFails(t) \/ LookupMismatch(t) \/ LookupDone(t) \/ RejectOrder(t)
           \/ AbandonOrder(t) \/ CacheOrder(t) \/ SendOrder(t) \/ AcceptFails(t) \/ AcceptDone(t)
  <2>1. task[t].at \in {"lookup", "store", "cached", "accept", "accepted"}
    BY <1>1 DEF LookupFails, LookupMismatch, LookupDone, RejectOrder, AbandonOrder, CacheOrder,
                SendOrder, AcceptFails, AcceptDone, At
  <2>2. ~RemovalFails(t)
    BY <2>1 DEF RemovalFails, At
  <2>3. \A u \in Tasks \ {t} : task'[u] = task[u]
    BY <2>2, ProceedTask
  <2>4. UNCHANGED <<orders, calls, past>>
    BY <1>1 DEF LookupFails, LookupMismatch, LookupDone, RejectOrder, AbandonOrder, CacheOrder,
                SendOrder, AcceptFails, AcceptDone, db, env
  <2>5. told[o] \subseteq told'[o]
    <3>1. UNCHANGED told \/ \E s \in States : Tell(task[t].order, s)
      BY <1>1 DEF LookupFails, LookupMismatch, LookupDone, RejectOrder, AbandonOrder, CacheOrder,
                  SendOrder, AcceptFails, AcceptDone, States
    <3>2. task[t].order \in Orders
      BY <2>1, TaskFacts DEF At, Points
    <3> QED
      BY <3>1, <3>2, TellMore
  <2> QED
    BY <2>1, <2>3, <2>4, <2>5, OtherAnswers
<1>2. CASE RemovalFails(t)
  <2>1. CASE Crash
    BY <1>2, <2>1, CrashAnswers DEF RemovalFails, db, env
  <2>2. CASE End(t) /\ UNCHANGED past
    BY <1>2, <2>2, EndTask, OtherAnswers DEF RemovalFails, db, env, At
  <2> QED
    BY <1>2, <2>1, <2>2 DEF RemovalFails
<1> QED
  BY <1>1, <1>2, CreateAnswers, DeleteAnswers, RemovalAnswers, HistoryAnswers, FinishAnswers
  DEF Proceed

LEMMA BeginAnswers ==
  ASSUME TypeOK, TypeOK', AnswerIsDue, NEW o \in Orders, NEW t \in Tasks, NEW p \in Orders,
         Begin(t, p)
  PROVE  AnswerIsDueFor(o)'
<1>1. /\ \A u \in Tasks \ {t} : task'[u] = task[u]
      /\ task[t] = Idle
  BY StartTask DEF Begin, WebhookArrives, AcceptOrder, RefuseOrder, FinishOrder, Start, Working
<1>2. UNCHANGED <<orders, past, told>>
  BY DEF Begin, WebhookArrives, AcceptOrder, RefuseOrder, FinishOrder, db
<1>3. Ordinary(o)' => Ordinary(o)
  <2>1. calls'[o].webhook >= calls[o].webhook /\ calls'[o].accept >= calls[o].accept
    <3>1. CASE calls' = [calls EXCEPT ![p].webhook = @ + 1]
      BY <3>1 DEF TypeOK
    <3>2. CASE calls' = [calls EXCEPT ![p].accept = @ + 1]
      BY <3>2 DEF TypeOK
    <3>3. CASE calls' = [calls EXCEPT ![p].remove = @ + 1]
      BY <3>3 DEF TypeOK
    <3> QED
      BY <3>1, <3>2, <3>3 DEF Begin, WebhookArrives, AcceptOrder, RefuseOrder, FinishOrder
  <2> QED
    BY <1>2, <2>1 DEF Ordinary, TypeOK
<1>4. \A u \in Tasks : Answering(u, o) => Answering(u, o)'
  BY <1>1, <1>2 DEF Answering, At, Idle
<1>5. AnsweredFor(o) => AnsweredFor(o)'
  BY <1>2 DEF AnsweredFor
<1> QED
  BY <1>2, <1>3, <1>4, <1>5, AnswerKept DEF AnswerIsDue

LEMMA ProcessAnswers ==
  ASSUME TypeOK, TypeOK', AnswerIsDue, NEW o \in Orders, Process \/ UNCHANGED vars
  PROVE  AnswerIsDueFor(o)'
<1>1. CASE Kill \/ StartupFails \/ RejectionUnhandled
  BY <1>1, CrashAnswers DEF Kill, StartupFails, RejectionUnhandled, db, env
<1>2. CASE Restart \/ UNCHANGED vars
  <2>1. UNCHANGED <<orders, past, told, calls, task>>
    BY <1>2 DEF Restart, vars, db, env
  <2> QED
    BY <2>1 DEF AnswerIsDue, AnswerIsDueFor, Ordinary, AnsweredFor, Answering, At
<1>3. CASE StartupDeletes
  <2>1. orders' = {} /\ UNCHANGED <<told, calls, task>>
    BY <1>3 DEF StartupDeletes, env
  <2>2. /\ past'[o].booked = past[o].booked /\ past'[o].recorded = past[o].recorded
        /\ past'[o].lost = past[o].lost /\ past'[o].cut = past[o].cut
        /\ past'[o].wiped = (past[o].wiped \/ o \in orders)
    BY <1>3 DEF StartupDeletes, TypeOK
  <2> QED
    BY <2>1, <2>2 DEF AnswerIsDue, AnswerIsDueFor, Ordinary, AnsweredFor, Answering, At
<1> QED
  BY <1>1, <1>2, <1>3 DEF Process

LEMMA NextAnswers ==
  TypeOK /\ TypeOK' /\ OneAcceptInFlight /\ CausesKnown /\ AnswerIsDue /\ [Next]_vars
    => AnswerIsDue'
<1> SUFFICES ASSUME TypeOK, TypeOK', OneAcceptInFlight, CausesKnown, AnswerIsDue, [Next]_vars
             PROVE  AnswerIsDue'
  OBVIOUS
<1>1. \A o \in Orders : AnswerIsDueFor(o)'
  BY ProceedAnswers, BeginAnswers, ProcessAnswers DEF Next
<1> QED
  BY <1>1 DEF AnswerIsDue

LEMMA InitAnswers == Init => AnswerIsDue
  BY DEF Init, AnswerIsDue, AnswerIsDueFor

\* Recorded once at most: what is in the history was booked, and was booked once.
LEMMA AnswersGive == TypeOK /\ Backed /\ CausesKnown /\ AnswerIsDue => VanishedOrderIsExplained
<1> SUFFICES ASSUME TypeOK, Backed, CausesKnown, AnswerIsDue, NEW o \in Orders,
                    Ordinary(o), ~past[o].cut, past[o].booked > 0, o \notin orders, ~InFlight(o)
             PROVE  \/ "refuse" \in told[o]
                    \/ "finish" \in told[o] /\ past[o].recorded = 1
                    \/ past[o].lost
  BY DEF VanishedOrderIsExplained
<1>1. \A t \in Tasks : ~Answering(t, o)
  BY DEF InFlight, Answering, Working, At, Idle
<1>2. AnsweredFor(o)
  BY <1>1 DEF AnswerIsDue, AnswerIsDueFor
<1>3. past[o].booked <= 1
  BY DEF CausesKnown, OneBookingFor, AcceptedAtMostOnce, Ordinary
<1>4. past[o].recorded \in Nat /\ past[o].booked \in Nat
  BY DEF TypeOK
<1>5. past[o].recorded <= past[o].booked
  BY <1>4, BackedGives DEF HistoryBacked
<1> QED
  BY <1>2, <1>3, <1>4, <1>5 DEF AnsweredFor

LEMMA DeskInvariant == Spec => [](Inductive /\ Backed /\ CausesKnown /\ AnswerIsDue)
<1>1. Inductive => TypeOK /\ OneAcceptInFlight
  BY DEF Inductive
<1>2. Inductive /\ Backed /\ CausesKnown /\ AnswerIsDue /\ Inductive' /\ [Next]_vars
        => Backed' /\ CausesKnown' /\ AnswerIsDue'
  <2>1. Inductive' => TypeOK'
    BY DEF Inductive
  <2> QED
    BY <1>1, <2>1, NextBacked, NextCauses, NextAnswers
<1> QED
  BY <1>2, InitBacked, InitCauses, InitAnswers, InductiveInvariant, PTL DEF Spec

\* An accepted order does not disappear quietly: with one webhook and one
\* accept, and neither a crash nor a start of the server in its way, the buyer
\* of an order that is gone was told it was refused, or finished with the order
\* in the history, or the finish failed after the removal.
THEOREM VanishedOrdersAreExplained == Spec => []VanishedOrderIsExplained
<1>1. Inductive /\ Backed /\ CausesKnown /\ AnswerIsDue => VanishedOrderIsExplained
  BY AnswersGive DEF Inductive
<1> QED
  BY <1>1, DeskInvariant, PTL

-----------------------------------------------------------------------------
(* Sums.  What WalletIsSumOfSales adds up is a fold over the table sales;   *)
(* what it does when a row comes or goes is proved from the least number    *)
(* of a set of numbers.                                                     *)

LEMMA LeastNumber ==
  ASSUME NEW T \in SUBSET Nat, T # {}
  PROVE  \E m \in T : \A n \in T : m <= n
<1> DEFINE R == OpToRel(<, Nat)
<1>1. IsWellFoundedOn(R, Nat)
  BY NatLessThanWellFounded
<1>2. ASSUME NEW m \in Nat, NEW n \in Nat, n < m PROVE <<n, m>> \in R
  BY <1>2 DEF OpToRel
<1> HIDE DEF R
<1>3. \E m \in T : \A n \in T : ~(<<n, m>> \in R)
  BY <1>1, WFMin
<1>4. PICK m \in T : \A n \in T : ~(<<n, m>> \in R)
  BY <1>3
<1>5. \A n \in T : ~(n < m)
  BY <1>2, <1>4
<1> QED
  BY <1>5

\* The subsets of a finite set, and what is left of one without an element.
LEMMA SmallerSets ==
  ASSUME NEW S, IsFiniteSet(S), NEW s \in SUBSET S
  PROVE  /\ IsFiniteSet(s) /\ Cardinality(s) \in Nat
         /\ Cardinality(s) = 0 <=> s = {}
         /\ \A x \in s : Cardinality(s \ {x}) = Cardinality(s) - 1
<1>1. IsFiniteSet(s)
  BY FS_Subset
<1> QED
  BY <1>1, FS_CardinalityType, FS_EmptySet, FS_RemoveElement

\* Of some of the subsets of a finite set, one has no smaller one among them.
LEMMA SmallestSet ==
  ASSUME NEW S, IsFiniteSet(S), NEW B \in SUBSET SUBSET S, B # {}
  PROVE  \E s \in B : \A x \in s : s \ {x} \notin B
<1> DEFINE T == {Cardinality(s) : s \in B}
<1>1. T \in SUBSET Nat /\ T # {}
  BY SmallerSets
<1>2. PICK m \in T : \A n \in T : m <= n
  BY <1>1, LeastNumber
<1>3. PICK s \in B : m = Cardinality(s)
  BY <1>2
<1>4. ASSUME NEW x \in s PROVE s \ {x} \notin B
  <2>1. Cardinality(s \ {x}) = m - 1 /\ m \in Nat
    BY <1>3, SmallerSets
  <2> QED
    BY <1>2, <2>1
<1> QED
  BY <1>4

Worth(x) == Price[x[1]]
Pick(s)  == CHOOSE x \in s : TRUE

\* The sum of a set by what the fold, here `g`, makes of the smaller sets.
Adds(g, s) == IF s = {} THEN 0 ELSE Worth(Pick(s)) + g[s \ {Pick(s)}]
Adder(S)   == CHOOSE g : g = [s \in SUBSET S |-> Adds(g, s)]

LEMMA AdderExists ==
  ASSUME NEW S, IsFiniteSet(S)
  PROVE  \E g : g = [s \in SUBSET S |-> Adds(g, s)]
<1> DEFINE Has(n) == \E g : \A s \in SUBSET S : Cardinality(s) <= n => g[s] = Adds(g, s)
           T == {n \in Nat : ~Has(n)}
<1>1. \A s \in SUBSET S : s # {} => Pick(s) \in s /\ s \ {Pick(s)} \in SUBSET S
  BY DEF Pick
<1>2. T = {}
  <2> SUFFICES ASSUME T # {} PROVE FALSE
    OBVIOUS
  <2>1. PICK m \in T : \A n \in T : m <= n
    BY LeastNumber
  <2>2. CASE m = 0
    <3> DEFINE g == [s \in SUBSET S |-> 0]
    <3>1. \A s \in SUBSET S : Cardinality(s) <= 0 => g[s] = Adds(g, s)
      BY SmallerSets DEF Adds
    <3> QED
      BY <2>1, <2>2, <3>1
  <2>3. CASE m # 0
    <3>1. m - 1 \in Nat /\ m - 1 \notin T
      BY <2>1, <2>3
    <3>2. PICK g : \A s \in SUBSET S : Cardinality(s) <= m - 1 => g[s] = Adds(g, s)
      BY <3>1
    <3> DEFINE h == [s \in SUBSET S |-> IF Cardinality(s) < m THEN g[s] ELSE Adds(g, s)]
    <3>3. ASSUME NEW s \in SUBSET S, Cardinality(s) <= m PROVE h[s] = Adds(h, s)
      <4>1. h[s] = Adds(g, s)
        BY <2>1, <3>2, SmallerSets
      <4>2. CASE s = {}
        BY <4>1, <4>2 DEF Adds
      <4>3. CASE s # {}
        <5>1. Pick(s) \in s /\ s \ {Pick(s)} \in SUBSET S
          BY <1>1, <4>3
        <5>2. Cardinality(s \ {Pick(s)}) < m
          BY <2>1, <3>3, <5>1, SmallerSets
        <5>3. h[s \ {Pick(s)}] = g[s \ {Pick(s)}]
          BY <5>1, <5>2
        <5> HIDE DEF h
        <5> QED
          BY <4>1, <5>3 DEF Adds
      <4> QED
        BY <4>2, <4>3
    <3> HIDE DEF h
    <3>4. Has(m)
      BY <3>3
    <3> QED
      BY <2>1, <3>4
  <2> QED
    BY <2>2, <2>3
<1>3. Has(Cardinality(S))
  BY <1>2, SmallerSets
<1>4. PICK g : \A s \in SUBSET S : Cardinality(s) <= Cardinality(S) => g[s] = Adds(g, s)
  BY <1>3
<1>5. \A s \in SUBSET S : g[s] = Adds(g, s)
  BY <1>4, FS_Subset
<1> DEFINE h == [s \in SUBSET S |-> g[s]]
<1>6. ASSUME NEW s \in SUBSET S PROVE g[s] = Adds(h, s)
  BY <1>1, <1>5 DEF Adds
<1>7. h = [s \in SUBSET S |-> Adds(h, s)]
  BY <1>6
<1> HIDE DEF h
<1> QED
  BY <1>7

LEMMA AdderValue ==
  ASSUME NEW S, IsFiniteSet(S), NEW s \in SUBSET S
  PROVE  Adder(S)[s] = Adds(Adder(S), s)
<1>1. Adder(S) = [r \in SUBSET S |-> Adds(Adder(S), r)]
  BY AdderExists DEF Adder
<1> QED
  BY <1>1

Sold == Orders \X SaleIds

LEMMA AdderIsInt ==
  ASSUME NEW S \in SUBSET Sold, IsFiniteSet(S), NEW s \in SUBSET S
  PROVE  Adder(S)[s] \in Int
<1> DEFINE B == {r \in SUBSET S : Adder(S)[r] \notin Int}
<1> SUFFICES ASSUME B # {} PROVE FALSE
  OBVIOUS
<1>1. PICK r \in B : \A x \in r : r \ {x} \notin B
  BY SmallestSet
<1>2. Adder(S)[r] = Adds(Adder(S), r)
  BY AdderValue
<1>3. r # {}
  BY <1>1, <1>2 DEF Adds
<1>4. Pick(r) \in r
  BY <1>3 DEF Pick
<1>5. Adder(S)[r \ {Pick(r)}] \in Int
  BY <1>1, <1>4
<1>6. Worth(Pick(r)) \in Int
  BY <1>1, <1>4, PriceAssumption DEF Worth, Sold
<1> QED
  BY <1>1, <1>2, <1>3, <1>5, <1>6 DEF Adds

\* The fold over a larger set makes the same of a set.
LEMMA AdderIsSame ==
  ASSUME NEW U, IsFiniteSet(U), NEW S \in SUBSET U
  PROVE  Adder(S)[S] = Adder(U)[S]
<1> DEFINE B == {r \in SUBSET S : Adder(S)[r] # Adder(U)[r]}
<1> SUFFICES ASSUME B # {} PROVE FALSE
  OBVIOUS
<1>1. IsFiniteSet(S)
  BY FS_Subset
<1>2. PICK r \in B : \A x \in r : r \ {x} \notin B
  BY <1>1, SmallestSet
<1>3. Adder(S)[r] = Adds(Adder(S), r) /\ Adder(U)[r] = Adds(Adder(U), r)
  BY <1>1, AdderValue
<1>4. r # {} => Pick(r) \in r
  BY DEF Pick
<1>5. r # {} => Adder(S)[r \ {Pick(r)}] = Adder(U)[r \ {Pick(r)}]
  BY <1>2, <1>4
<1> QED
  BY <1>2, <1>3, <1>5 DEF Adds

\* Whichever element the fold takes first: one more adds what it is worth.
LEMMA AdderAdds ==
  ASSUME NEW S \in SUBSET Sold, IsFiniteSet(S), NEW s \in SUBSET S, NEW x \in S \ s
  PROVE  Adder(S)[s \cup {x}] = Adder(S)[s] + Worth(x)
<1> DEFINE F == Adder(S)
           B == {r \in SUBSET S : \E y \in S \ r : F[r \cup {y}] # F[r] + Worth(y)}
<1> SUFFICES ASSUME B # {} PROVE FALSE
  OBVIOUS
<1>1. PICK r \in B : \A y \in r : r \ {y} \notin B
  BY SmallestSet
<1>2. PICK y \in S \ r : F[r \cup {y}] # F[r] + Worth(y)
  BY <1>1
<1> DEFINE u == r \cup {y}
           z == Pick(u)
<1>3. u \in SUBSET S /\ u # {} /\ z \in u
  BY <1>1, <1>2 DEF Pick
<1>4. F[u] = Worth(z) + F[u \ {z}]
  BY <1>3, AdderValue DEF Adds
<1>5. \A v \in S : Worth(v) \in Int
  BY PriceAssumption DEF Worth, Sold
<1>6. \A v \in SUBSET S : F[v] \in Int
  BY AdderIsInt
<1> HIDE DEF F, z
<1>7. CASE z = y
  <2>1. u \ {y} = r
    BY <1>2
  <2>2. F[u] = Worth(y) + F[r]
    BY <1>4, <1>7, <2>1
  <2>3. F[r] \in Int /\ Worth(y) \in Int
    BY <1>1, <1>2, <1>5, <1>6
  <2>4. F[u] = F[r] + Worth(y)
    BY <2>2, <2>3
  <2> QED
    BY <1>2, <2>4
<1>8. CASE z # y
  <2> DEFINE q == r \ {z}
  <2>1. z \in r /\ q \in SUBSET S /\ q \notin B
    BY <1>1, <1>3, <1>8
  <2>2. \A v \in S \ q : F[q \cup {v}] = F[q] + Worth(v)
    BY <2>1
  <2>3. u \ {z} = q \cup {y} /\ r = q \cup {z} /\ y \in S \ q /\ z \in S \ q
    BY <1>1, <1>2, <1>8, <2>1
  <2>4. F[u \ {z}] = F[q] + Worth(y) /\ F[r] = F[q] + Worth(z)
    BY <2>2, <2>3
  <2>5. F[q] \in Int /\ Worth(y) \in Int /\ Worth(z) \in Int
    BY <1>5, <1>6, <2>1, <2>3
  <2> QED
    BY <1>2, <1>4, <2>4, <2>5
<1> QED
  BY <1>7, <1>8

Total(S) == MapThenSumSet(LAMBDA x : Price[x[1]], S)

LEMMA TotalIsFold ==
  ASSUME NEW S
  PROVE  Total(S) = Adder(S)[S]
  BY DEF Total, MapThenSumSet, MapThenFoldSet, Adder, Adds, Pick, Worth

LEMMA TotalOfNothing == Total({}) = 0
  BY TotalIsFold, AdderValue, FS_EmptySet DEF Adds

\* The sum over the rows and one more.
LEMMA TotalAdds ==
  ASSUME NEW S \in SUBSET Sold, IsFiniteSet(S), NEW x \in Sold \ S
  PROVE  Total(S) \in Int /\ Total(S \cup {x}) = Total(S) + Worth(x)
<1> DEFINE U == S \cup {x}
<1>1. U \in SUBSET Sold /\ IsFiniteSet(U)
  BY FS_AddElement
<1>2. Adder(S)[S] = Adder(U)[S]
  BY <1>1, AdderIsSame
<1>3. Adder(U)[S \cup {x}] = Adder(U)[S] + Worth(x)
  BY <1>1, AdderAdds
<1>4. Adder(S)[S] \in Int
  BY AdderIsInt
<1> QED
  BY <1>2, <1>3, <1>4, TotalIsFold
-----------------------------------------------------------------------------
(* The wallet.                                                              *)

WalletSound == IsFiniteSet(sales) /\ point = Total(sales)

LEMMA InitWallet == Init => WalletSound
<1> SUFFICES ASSUME Init PROVE WalletSound
  OBVIOUS
<1>1. sales = {} /\ point = 0
  BY DEF Init
<1>2. IsFiniteSet({})
  BY FS_EmptySet
<1> QED
  BY <1>1, <1>2, TotalOfNothing DEF WalletSound

LEMMA WalletUntouched ==
  ASSUME WalletSound, UNCHANGED <<sales, point>>
  PROVE  WalletSound'
  BY DEF WalletSound

\* The accept's transaction: the row it inserts was not there, because the
\* table's key would have made the insert fail.
LEMMA CreateWallet ==
  ASSUME TypeOK, WalletSound, NEW t \in Tasks, CreateOrderCommits(t)
  PROVE  WalletSound'
<1>1. PICK o \in Orders : o = task[t].order
  BY TaskFacts DEF CreateOrderCommits, Points
<1>2. PICK s \in SaleIds : s = task[t].sale
  BY TaskFacts DEF CreateOrderCommits, Points, SaleIds
<1> DEFINE x == <<o, s>>
<1>3. x \notin sales /\ sales' = sales \cup {x} /\ point' = point + Price[o]
  BY <1>1, <1>2 DEF CreateOrderCommits
<1>4. x \in Sold \ sales /\ sales \in SUBSET Sold /\ IsFiniteSet(sales)
  BY <1>3 DEF WalletSound, TypeOK, Sold
<1>5. point = Total(sales)
  BY DEF WalletSound
<1>6. PICK S : S = sales
  OBVIOUS
<1>7. IsFiniteSet(S \cup {x})
  BY <1>4, <1>6, FS_AddElement
<1>8. Total(S \cup {x}) = Total(S) + Price[o]
  BY <1>4, <1>6, TotalAdds DEF Worth
<1>9. point' = Total(sales')
  BY <1>3, <1>5, <1>6, <1>8
<1>10. IsFiniteSet(sales')
  BY <1>3, <1>6, <1>7
<1> QED
  BY <1>9, <1>10 DEF WalletSound

\* The removal's transaction: the row it deletes was there, because a delete
\* of a row that is not there fails.
LEMMA DeleteWallet ==
  ASSUME TypeOK, WalletSound, NEW t \in Tasks, DeleteOrderCommits(t)
  PROVE  WalletSound'
<1>1. PICK o \in Orders : o = task[t].order
  BY TaskFacts DEF DeleteOrderCommits, Points
<1>2. PICK s : s = task[t].sale
  OBVIOUS
<1> DEFINE x == <<o, s>>
<1>3. x \in sales /\ sales' = sales \ {x} /\ point' = point - Price[o]
  BY <1>1, <1>2 DEF DeleteOrderCommits
<1>4. PICK S : S = sales \ {x}
  OBVIOUS
<1>5. sales \in SUBSET Sold /\ IsFiniteSet(sales) /\ point = Total(sales)
  BY DEF WalletSound, TypeOK, Sold
<1>6. S \in SUBSET Sold /\ x \in Sold \ S /\ sales = S \cup {x}
  BY <1>3, <1>4, <1>5
<1>7. IsFiniteSet(S)
  BY <1>4, <1>5, FS_Subset
<1>8. Total(S) \in Int /\ Total(S \cup {x}) = Total(S) + Price[o]
  BY <1>6, <1>7, TotalAdds DEF Worth
<1>9. Price[o] \in Nat
  OBVIOUS
<1>10. point = Total(S) + Price[o]
  BY <1>5, <1>6, <1>8
<1>11. point' = Total(S) /\ sales' = S
  BY <1>3, <1>4, <1>8, <1>9, <1>10
<1>12. point' = Total(sales') /\ IsFiniteSet(sales')
  BY <1>7, <1>11
<1> QED
  BY <1>12 DEF WalletSound

LEMMA NextWallet == TypeOK /\ WalletSound /\ [Next]_vars => WalletSound'
<1> SUFFICES ASSUME TypeOK, WalletSound, [Next]_vars PROVE WalletSound'
  OBVIOUS
<1>1. ASSUME NEW t \in Tasks, Proceed(t), ~CreateOrderCommits(t), ~DeleteOrderCommits(t)
      PROVE  UNCHANGED <<sales, point>>
  BY <1>1 DEF Proceed, LookupFails, LookupMismatch, LookupDone, RejectOrder, AbandonOrder,
              CacheOrder, SendOrder, AcceptFails, AcceptDone, RemovalFails, RemovalDone,
              HistoryCommits, HistoryFails, FinishDone, db
<1>2. ASSUME NEW t \in Tasks, NEW o \in Orders, Begin(t, o) PROVE UNCHANGED <<sales, point>>
  BY <1>2 DEF Begin, WebhookArrives, AcceptOrder, RefuseOrder, FinishOrder, db
<1>3. CASE Process \/ UNCHANGED vars
  BY <1>3, WalletUntouched
  DEF Process, Kill, Restart, StartupDeletes, StartupFails, RejectionUnhandled, vars, db
<1>4. ASSUME NEW t \in Tasks, Proceed(t) PROVE WalletSound'
  BY <1>1, <1>4, WalletUntouched, CreateWallet, DeleteWallet
<1>5. ASSUME NEW t \in Tasks, NEW o \in Orders, Begin(t, o) PROVE WalletSound'
  BY <1>2, <1>5, WalletUntouched
<1> QED
  BY <1>3, <1>4, <1>5 DEF Next

\* The wallet's point column, which separate transactions increment and
\* decrement, is the sum of the sales on record, through every race and crash.
THEOREM WalletsAreSumsOfSales == Spec => []WalletIsSumOfSales
<1>1. WalletSound => WalletIsSumOfSales
  BY DEF WalletSound, WalletIsSumOfSales, Total
<1> QED
  BY <1>1, InitWallet, NextWallet, TypeCorrect, PTL DEF Spec
=============================================================================
