----------------------------- MODULE StoreRegistry -----------------------------
(***************************************************************************)
(* The "stores" array in Redis: which stores there are, which are open and *)
(* on which socket their merchant's app listens (SocketEventHandler,       *)
(* SocketGateWay, MerchantService, StoreService._initialized).             *)
(*                                                                         *)
(* Every writer reads the whole array, waits for the reply and writes the  *)
(* whole array back, without a lock: a write that lands between takes its  *)
(* change with it.  Redis answers one connection in order, so a read takes *)
(* the array as it is when it is issued, and a write, which no caller      *)
(* waits for, takes effect when it is issued.                              *)
(***************************************************************************)
EXTENDS Naturals, FiniteSets

CONSTANTS
    Stores,       \* stores that exist or may be registered, with their merchants
    Sockets,      \* socket ids, each for one connection
    Tasks,        \* slots for the handlers in flight
    Absent,       \* the array has no entry for the store
    Closed,       \* its entry has isOpen false and no socketId
    MaxLogins,    \* bound: login messages
    MaxRestarts   \* bound: restarts of the process

ASSUME MarkAssumption == Absent # Closed /\ {Absent, Closed} \cap Sockets = {}
ASSUME BoundAssumption == MaxLogins \in Nat /\ MaxRestarts \in Nat

VARIABLES
    stores,    \* Redis: entry of every store; a socket id when it is open
    rows,      \* Postgres: the registered stores
    conn,      \* connection of every socket id: "new", "on", "off"
    task,      \* what every slot is doing
    boot,      \* StoreService._initialized, and whether the process is up
    latest,    \* history: the socket last told "connect" for a store
    logins,    \* history: the stores a socket was told "connect" for
    missed,    \* history: sockets whose disconnect could not read the array
    stale,     \* history: a write used an array, or a socket, changed since
    used,      \* history: the stores ever registered
    sent,      \* history: login messages
    restarts

view == <<latest, logins, missed>>
vars == <<stores, rows, conn, task, boot, view, stale, used, sent, restarts>>

-----------------------------------------------------------------------------
Entries == {Absent, Closed} \cup Sockets
Arrays  == [Stores -> Entries]
Idle    == [at |-> "idle"]

\* handleConnectEvent looks the merchant up, then `connect` waits for the
\* array; `disconnect` waits for it; registMerchant has created the rows, then
\* waits for the array.
Busy ==
    [at: {"lookup"}, socket: Sockets, store: Stores]
      \cup [at: {"connect"}, socket: Sockets, store: Stores, caches: Arrays]
      \cup [at: {"disconnect"}, socket: Sockets, caches: Arrays]
      \cup [at: {"created"}, store: Stores]
      \cup [at: {"append"}, store: Stores, caches: Arrays]

\* _initialized: reading the rows, about to write them, done; or no process.
\* `seen` is the array as it was when the process started.
Boots ==
    [at: {"down", "done"}]
      \cup [at: {"loading"}, seen: Arrays]
      \cup [at: {"loaded"}, rows: SUBSET Stores, seen: Arrays]

Free(t)   == task[t] = Idle
Put(t, r) == task' = [task EXCEPT ![t] = r]
At(t, p)  == task[t].at = p
Up        == boot.at # "down"

\* disconnect issues its read.
Leaving(s) == [at |-> "disconnect", socket |-> s, caches |-> stores]

\* A write of a whole array, computed from an array read before.
Write(after, before) ==
    /\ stores' = after
    /\ stale' = (stale \/ before # stores)

Init ==
    /\ stores = [m \in Stores |-> Absent]
    /\ rows \in SUBSET Stores
    /\ used = rows
    /\ conn = [s \in Sockets |-> "new"]
    /\ task = [t \in Tasks |-> Idle]
    /\ boot = [at |-> "loading", seen |-> stores]
    /\ latest = [m \in Stores |-> Absent]
    /\ logins = [s \in Sockets |-> {}]
    /\ missed = {}
    /\ stale = FALSE
    /\ sent = 0
    /\ restarts = 0

-----------------------------------------------------------------------------
(* Sockets: handleConnection, handleConnectEvent, handleDisconnect.        *)

Connect(s) ==
    /\ Up
    /\ conn[s] = "new"
    /\ conn' = [conn EXCEPT ![s] = "on"]
    /\ UNCHANGED <<stores, rows, task, boot, view, stale, used, sent, restarts>>

\* A login message for a store's merchant.
Login(t, s, m) ==
    /\ Up
    /\ conn[s] = "on"
    /\ Free(t)
    /\ sent < MaxLogins
    /\ sent' = sent + 1
    /\ Put(t, [at |-> "lookup", socket |-> s, store |-> m])
    /\ UNCHANGED <<stores, rows, conn, boot, view, stale, used, restarts>>

\* The merchant exists and the password fits; `connect` reads the array.
LoginVerified(t) ==
    /\ At(t, "lookup")
    /\ task[t].store \in rows
    /\ Put(t, [at |-> "connect", socket |-> task[t].socket,
               store |-> task[t].store, caches |-> stores])
    /\ UNCHANGED <<stores, rows, conn, boot, view, stale, used, sent, restarts>>

\* No such merchant, another password, or the database fails: the handler's
\* catch disconnects the client.
LoginRefused(t) ==
    /\ At(t, "lookup")
    /\ Put(t, Leaving(task[t].socket))
    /\ UNCHANGED <<stores, rows, conn, boot, view, stale, used, sent, restarts>>

\* Mutations: `connect` is passed the store id for the socket id; its map has
\* no test for the store.
OpenedSwapped(a, m, s)    == [a EXCEPT ![m] = m]
OpenedEverywhere(a, m, s) == [n \in Stores |-> IF a[n] = Absent THEN Absent ELSE s]

\* The array with the store open on the socket.
Opened(a, m, s) == [a EXCEPT ![m] = s]

\* The array has the store: it is opened on the client's socket, connected
\* or not by now, and the client is told "connect".
OpenStore(t) ==
    LET m == task[t].store
        s == task[t].socket IN
    /\ At(t, "connect")
    /\ task[t].caches[m] # Absent
    /\ stores' = Opened(task[t].caches, m, s)
    /\ stale' = (stale \/ task[t].caches # stores \/ conn[s] = "off")
    /\ latest' = [latest EXCEPT ![m] = s]
    /\ logins' = [logins EXCEPT ![s] = @ \cup {m}]
    /\ Put(t, Idle)
    /\ UNCHANGED <<rows, conn, boot, missed, used, sent, restarts>>

\* The array has no such store, or cannot be read: the catch disconnects.
StoreNotCached(t) ==
    /\ At(t, "connect")
    /\ Put(t, Leaving(task[t].socket))
    /\ UNCHANGED <<stores, rows, conn, boot, view, stale, used, sent, restarts>>

\* The connection ends; handleDisconnect reads the array.
Drop(t, s) ==
    /\ Up
    /\ conn[s] = "on"
    /\ Free(t)
    /\ conn' = [conn EXCEPT ![s] = "off"]
    /\ Put(t, Leaving(s))
    /\ UNCHANGED <<stores, rows, boot, view, stale, used, sent, restarts>>

\* Mutations: the stores the client logged in for are closed, on whichever
\* socket they are open by now; nothing is closed.
ShutByLogin(a, s) == [m \in Stores |-> IF m \in logins[s] THEN Closed ELSE a[m]]
ShutNothing(a, s) == a

\* The array with the stores that are open on the socket closed.
Shut(a, s) == [m \in Stores |-> IF a[m] = s THEN Closed ELSE a[m]]

\* disconnect closes every store that is open on this socket, and hangs up: a
\* client that was still connected causes handleDisconnect in its turn.
CloseStores(t) ==
    LET s     == task[t].socket
        after == Shut(task[t].caches, s) IN
    /\ At(t, "disconnect")
    /\ Write(after, task[t].caches)
    /\ conn' = [conn EXCEPT ![s] = "off"]
    /\ Put(t, IF conn[s] = "on" THEN [at |-> "disconnect", socket |-> s, caches |-> after]
                               ELSE Idle)
    /\ UNCHANGED <<rows, boot, view, used, sent, restarts>>

\* The array cannot be read: nothing is written and nobody hangs up.
\* handleDisconnect logs the failure; in the handler's catch it is Nest's, and
\* the client stays connected.
DisconnectFails(t) ==
    LET s == task[t].socket IN
    /\ At(t, "disconnect")
    /\ missed' = IF conn[s] = "off" /\ \E m \in Stores : stores[m] = s
                   THEN missed \cup {s} ELSE missed
    /\ Put(t, Idle)
    /\ UNCHANGED <<stores, rows, conn, boot, latest, logins, stale, used, sent, restarts>>

-----------------------------------------------------------------------------
(* Merchants: registMerchant with _upsertCache, deleteMerchant.            *)

\* The rows of merchant, store and wallet are created.
Register(t, m) ==
    /\ Up
    /\ Free(t)
    /\ m \notin used
    /\ rows' = rows \cup {m}
    /\ used' = used \cup {m}
    /\ Put(t, [at |-> "created", store |-> m])
    /\ UNCHANGED <<stores, conn, boot, view, stale, sent, restarts>>

UpsertReads(t) ==
    /\ At(t, "created")
    /\ Put(t, [at |-> "append", store |-> task[t].store, caches |-> stores])
    /\ UNCHANGED <<stores, rows, conn, boot, view, stale, used, sent, restarts>>

\* A closed entry is appended.  The array may have one already, from a start
\* of the server; find and map then treat the first and the second alike.
UpsertWrites(t) ==
    LET m == task[t].store IN
    /\ At(t, "append")
    /\ Write([task[t].caches EXCEPT ![m] = IF @ = Absent THEN Closed ELSE @], task[t].caches)
    /\ Put(t, Idle)
    /\ UNCHANGED <<rows, conn, boot, view, used, sent, restarts>>

\* Only the rows are deleted.
DeleteMerchant(m) ==
    /\ Up
    /\ m \in rows
    /\ rows' = rows \ {m}
    /\ UNCHANGED <<stores, conn, task, boot, view, stale, used, sent, restarts>>

-----------------------------------------------------------------------------
(* The process: StoreService._initialized, crashes.                        *)

InitReads ==
    /\ boot.at = "loading"
    /\ boot' = [at |-> "loaded", rows |-> rows, seen |-> boot.seen]
    /\ UNCHANGED <<stores, rows, conn, task, view, stale, used, sent, restarts>>

\* Mutation: the array is only reset, not filled from the database.
LoadedFromCache(ms) == [m \in Stores |-> IF boot.seen[m] = Absent THEN Absent ELSE Closed]

\* The array of the stores that the database has.
Loaded(ms) == [m \in Stores |-> IF m \in ms THEN Closed ELSE Absent]

\* Every store of the database is written as closed, over whatever is there.
InitWrites ==
    /\ boot.at = "loaded"
    /\ Write(Loaded(boot.rows), boot.seen)
    /\ boot' = [at |-> "done"]
    /\ UNCHANGED <<rows, conn, task, view, used, sent, restarts>>

\* The process dies with its tasks and connections; the array stays in Redis.
\* It also dies of a read or write of the array that fails and that nobody
\* waits for: those of _upsertCache and _initialized, and every write.
Crash ==
    /\ Up
    /\ restarts < MaxRestarts
    /\ boot' = [at |-> "down"]
    /\ task' = [t \in Tasks |-> Idle]
    /\ conn' = [s \in Sockets |-> IF conn[s] = "on" THEN "off" ELSE conn[s]]
    /\ UNCHANGED <<stores, rows, view, stale, used, sent, restarts>>

Restart ==
    /\ ~Up
    /\ restarts < MaxRestarts
    /\ boot' = [at |-> "loading", seen |-> stores]
    /\ restarts' = restarts + 1
    /\ UNCHANGED <<stores, rows, conn, task, view, stale, used, sent>>

-----------------------------------------------------------------------------
Proceed(t) ==
    \/ LoginVerified(t) \/ LoginRefused(t) \/ OpenStore(t) \/ StoreNotCached(t)
    \/ CloseStores(t) \/ DisconnectFails(t) \/ UpsertReads(t) \/ UpsertWrites(t)

Boot == InitReads \/ InitWrites

Next ==
    \/ \E t \in Tasks :
         \/ Proceed(t)
         \/ \E s \in Sockets : Drop(t, s) \/ \E m \in Stores : Login(t, s, m)
         \/ \E m \in Stores : Register(t, m)
    \/ \E s \in Sockets : Connect(s)
    \/ \E m \in Stores : DeleteMerchant(m)
    \/ Boot \/ Crash \/ Restart

Spec == Init /\ [][Next]_vars

\* The awaits of a running process are answered.  Nothing makes a client
\* connect, log in or leave, or a process start.
Fairness == WF_vars(Boot) /\ \A t \in Tasks : WF_vars(Proceed(t))

FairSpec == Spec /\ Fairness

-----------------------------------------------------------------------------
(* Properties.                                                             *)

TypeOK ==
    /\ stores \in Arrays
    /\ rows \subseteq Stores
    /\ conn \in [Sockets -> {"new", "on", "off"}]
    /\ task \in [Tasks -> Busy \cup {Idle}]
    /\ boot \in Boots
    /\ latest \in [Stores -> Sockets \cup {Absent}]
    /\ logins \in [Sockets -> SUBSET Stores]
    /\ missed \subseteq Sockets
    /\ stale \in BOOLEAN
    /\ used \subseteq Stores
    /\ sent \in 0..MaxLogins
    /\ restarts \in 0..MaxRestarts

\* disconnect is under way for a socket, or a store's entry is on its way.
Departing(s) == \E t \in Tasks : At(t, "disconnect") /\ task[t].socket = s
Arriving(m)  == \E t \in Tasks : task[t].at \in {"created", "append"} /\ task[t].store = m

\* Orders go to the right merchant: whatever writes are lost, the socket of a
\* store's entry is one that logged in for this store.
SocketLoggedInForStore ==
    \A m \in Stores : stores[m] \in Sockets => m \in logins[stores[m]]

\* A merchant that is logged in gets orders: the connection that was told
\* "connect" last keeps its store open, also when an earlier connection of the
\* same merchant, or another merchant's, ends.
LoggedInStoreIsOpen ==
    (~stale /\ boot.at = "done") =>
        \A m \in Stores : latest[m] \in Sockets /\ conn[latest[m]] = "on" => stores[m] = latest[m]

\* A registered store is listed: buyers see it and its merchant can log in.
RegisteredStoreIsListed ==
    (~stale /\ boot.at = "done") =>
        \A m \in rows : stores[m] # Absent \/ Arriving(m)

\* A connection that ended is forgotten: its stores are closed, unless its
\* disconnect could not read the array, which nothing makes good, a write was
\* computed from a stale read, or the process is down.
DeadSocketIsForgotten ==
    \A s \in Sockets :
        conn[s] = "off" ~>
            (\A m \in Stores : stores[m] # s) \/ s \in missed \/ stale \/ ~Up
=============================================================================
