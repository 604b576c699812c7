-------------------------- MODULE StoreRegistryProofs --------------------------
(* Theorems about StoreRegistry for every set of stores, sockets and tasks. *)
EXTENDS StoreRegistry, TLAPS

USE MarkAssumption, BoundAssumption
USE DEF Opened, Shut, Loaded

-----------------------------------------------------------------------------
(* Type correctness.                                                        *)

\* What a waiting task carries.
LEMMA TaskFacts ==
  ASSUME TypeOK, NEW t \in Tasks
  PROVE  /\ task[t] \in Busy \cup {Idle}
         /\ At(t, "lookup") => task[t].socket \in Sockets /\ task[t].store \in Stores
         /\ At(t, "connect") => /\ task[t].socket \in Sockets /\ task[t].store \in Stores
                                /\ task[t].caches \in Arrays
         /\ At(t, "disconnect") => task[t].socket \in Sockets /\ task[t].caches \in Arrays
         /\ At(t, "created") => task[t].store \in Stores
         /\ At(t, "append") => task[t].store \in Stores /\ task[t].caches \in Arrays
<1>1. task[t] \in Busy \cup {Idle}
  BY DEF TypeOK
<1> QED
  BY <1>1 DEF At, Idle, Busy

LEMMA PutType ==
  ASSUME TypeOK, NEW t \in Tasks, NEW r \in Busy \cup {Idle}, Put(t, r)
  PROVE  task' \in [Tasks -> Busy \cup {Idle}]
  BY DEF TypeOK, Put

LEMMA LeavingBusy ==
  ASSUME NEW s \in Sockets, stores \in Arrays
  PROVE  Leaving(s) \in Busy
  BY DEF Leaving, Busy

LEMMA InitType == Init => TypeOK
<1> SUFFICES ASSUME Init PROVE TypeOK
  OBVIOUS
<1>1. stores \in Arrays
  BY DEF Init, Arrays, Entries
<1>2. boot \in Boots
  BY <1>1 DEF Init, Boots
<1>3. task \in [Tasks -> Busy \cup {Idle}] /\ conn \in [Sockets -> {"new", "on", "off"}]
  BY DEF Init
<1>4. /\ latest \in [Stores -> Sockets \cup {Absent}] /\ logins \in [Sockets -> SUBSET Stores]
      /\ missed \subseteq Sockets
  BY DEF Init
<1>5. rows \subseteq Stores /\ used \subseteq Stores /\ stale \in BOOLEAN
  BY DEF Init
<1>6. sent \in 0..MaxLogins /\ restarts \in 0..MaxRestarts
  BY DEF Init
<1> QED
  BY <1>1, <1>2, <1>3, <1>4, <1>5, <1>6 DEF TypeOK

LEMMA ProceedType ==
  ASSUME TypeOK, NEW t \in Tasks, Proceed(t)
  PROVE  TypeOK'
<1>1. CASE LoginVerified(t)
  <2>1. [at |-> "connect", socket |-> task[t].socket, store |-> task[t].store,
         caches |-> stores] \in Busy
    BY <1>1, TaskFacts DEF LoginVerified, Busy, TypeOK
  <2> QED
    BY <1>1, <2>1, PutType DEF LoginVerified, TypeOK, view
<1>2. CASE LoginRefused(t)
  BY <1>2, TaskFacts, LeavingBusy, PutType DEF LoginRefused, TypeOK, view
<1>3. CASE OpenStore(t)
  <2>1. task' \in [Tasks -> Busy \cup {Idle}]
    BY <1>3, PutType DEF OpenStore
  <2>2. stores' \in Arrays
    BY <1>3, TaskFacts DEF OpenStore, Arrays, Entries
  <2>3. stale' \in BOOLEAN
    BY <1>3 DEF OpenStore
  <2> QED
    BY <1>3, <2>1, <2>2, <2>3, TaskFacts DEF OpenStore, TypeOK
<1>4. CASE StoreNotCached(t)
  BY <1>4, TaskFacts, LeavingBusy, PutType DEF StoreNotCached, TypeOK, view
<1>5. CASE CloseStores(t)
  <2> DEFINE s == task[t].socket
             after == [m \in Stores |-> IF task[t].caches[m] = s THEN Closed ELSE task[t].caches[m]]
  <2>1. after \in Arrays /\ s \in Sockets
    BY <1>5, TaskFacts DEF CloseStores, Arrays, Entries
  <2>2. [at |-> "disconnect", socket |-> s, caches |-> after] \in Busy
    BY <2>1 DEF Busy
  <2>3. task' \in [Tasks -> Busy \cup {Idle}]
    BY <1>5, <2>2, PutType DEF CloseStores
  <2>4. stores' \in Arrays /\ stale' \in BOOLEAN
    BY <1>5, <2>1 DEF CloseStores, Write
  <2> QED
    BY <1>5, <2>1, <2>3, <2>4 DEF CloseStores, TypeOK, view
<1>6. CASE UpsertReads(t)
  <2>1. [at |-> "append", store |-> task[t].store, caches |-> stores] \in Busy
    BY <1>6, TaskFacts DEF UpsertReads, Busy, TypeOK
  <2> QED
    BY <1>6, <2>1, PutType DEF UpsertReads, TypeOK, view
<1>7. CASE UpsertWrites(t)
  <2>1. stores' \in Arrays /\ stale' \in BOOLEAN
    BY <1>7, TaskFacts DEF UpsertWrites, Write, Arrays, Entries
  <2> QED
    BY <1>7, <2>1, PutType DEF UpsertWrites, TypeOK, view
<1>8. CASE DisconnectFails(t)
  <2>1. task' \in [Tasks -> Busy \cup {Idle}]
    BY <1>8, PutType DEF DisconnectFails
  <2>2. missed' \subseteq Sockets
    BY <1>8, TaskFacts DEF DisconnectFails, TypeOK
  <2> QED
    BY <1>8, <2>1, <2>2 DEF DisconnectFails, TypeOK
<1> QED
  BY <1>1, <1>2, <1>3, <1>4, <1>5, <1>6, <1>7, <1>8 DEF Proceed

LEMMA NextType == TypeOK /\ [Next]_vars => TypeOK'
<1> SUFFICES ASSUME TypeOK, [Next]_vars PROVE TypeOK'
  OBVIOUS
<1>1. ASSUME NEW t \in Tasks, NEW s \in Sockets, Drop(t, s) PROVE TypeOK'
  BY <1>1, LeavingBusy, PutType DEF Drop, TypeOK, view
<1>2. ASSUME NEW t \in Tasks, NEW s \in Sockets, NEW m \in Stores, Login(t, s, m) PROVE TypeOK'
  <2>1. [at |-> "lookup", socket |-> s, store |-> m] \in Busy
    BY DEF Busy
  <2> QED
    BY <1>2, <2>1, PutType DEF Login, TypeOK, view
<1>3. ASSUME NEW t \in Tasks, NEW m \in Stores, Register(t, m) PROVE TypeOK'
  <2>1. [at |-> "created", store |-> m] \in Busy
    BY DEF Busy
  <2> QED
    BY <1>3, <2>1, PutType DEF Register, TypeOK, view
<1>4. ASSUME NEW s \in Sockets, Connect(s) PROVE TypeOK'
  BY <1>4 DEF Connect, TypeOK, view
<1>5. ASSUME NEW m \in Stores, DeleteMerchant(m) PROVE TypeOK'
  BY <1>5 DEF DeleteMerchant, TypeOK, view
<1>6. CASE InitReads
  BY <1>6 DEF InitReads, TypeOK, view, Boots
<1>7. CASE InitWrites
  BY <1>7 DEF InitWrites, Write, TypeOK, view, Boots, Arrays, Entries
<1>8. CASE Crash
  BY <1>8 DEF Crash, TypeOK, view, Boots
<1>9. CASE Restart
  <2>1. boot' \in Boots
    BY <1>9 DEF Restart, TypeOK, Boots
  <2> QED
    BY <1>9, <2>1 DEF Restart, TypeOK, view
<1>10. CASE UNCHANGED vars
  BY <1>10 DEF vars, view, TypeOK
<1> QED
  BY <1>1, <1>2, <1>3, <1>4, <1>5, <1>6, <1>7, <1>8, <1>9, <1>10, ProceedType
  DEF Next, Boot

\* Every variable keeps its type.
THEOREM TypeCorrect == Spec => []TypeOK
  BY InitType, NextType, PTL DEF Spec

-----------------------------------------------------------------------------
(* Sockets of entries.                                                      *)

\* The array, and every copy of it a handler is working on, names for a store
\* only sockets that logged in for the store.
Rightful(a)    == \A m \in Stores : a[m] \in Sockets => m \in logins[a[m]]
CopiesRightful == \A t \in Tasks : task[t].at \in {"connect", "disconnect", "append"}
                                      => Rightful(task[t].caches)
SocketsRightful == SocketLoggedInForStore /\ CopiesRightful

\* A step that tells nobody "connect" and whose new copies are rightful.
LEMMA RightfulKept ==
  ASSUME TypeOK, CopiesRightful, UNCHANGED logins, Rightful(stores'),
         \A t \in Tasks : \/ task'[t] = task[t]
                          \/ task'[t].at \in {"idle", "lookup", "created"}
                          \/ Rightful(task'[t].caches)
  PROVE  SocketsRightful'
<1>1. \A a : Rightful(a) => \A m \in Stores : a[m] \in Sockets => m \in logins'[a[m]]
  BY DEF Rightful
<1>2. SocketLoggedInForStore'
  BY DEF Rightful, SocketLoggedInForStore
<1>3. ASSUME NEW t \in Tasks, task'[t].at \in {"connect", "disconnect", "append"}
      PROVE  Rightful(task'[t].caches)
  BY <1>3 DEF CopiesRightful
<1>4. CopiesRightful'
  BY <1>3 DEF CopiesRightful, Rightful
<1> QED
  BY <1>2, <1>4 DEF SocketsRightful

\* Handing an entry-wise closed, or closed and extended, copy on is rightful.
LEMMA ClosingRightful ==
  ASSUME NEW a \in Arrays, NEW b \in Arrays, Rightful(a),
         \A m \in Stores : b[m] = a[m] \/ b[m] \in {Absent, Closed}
  PROVE  Rightful(b)
  BY DEF Rightful

LEMMA OpenKeepsRightful ==
  ASSUME TypeOK, SocketsRightful, NEW t \in Tasks, OpenStore(t)
  PROVE  SocketsRightful'
<1> DEFINE m == task[t].store
           s == task[t].socket
           a == task[t].caches
<1>1. m \in Stores /\ s \in Sockets /\ a \in Arrays /\ Rightful(a)
  BY TaskFacts DEF OpenStore, SocketsRightful, CopiesRightful, At
<1>2. stores' = [a EXCEPT ![m] = s] /\ logins' = [logins EXCEPT ![s] = @ \cup {m}]
  BY DEF OpenStore
<1>3. logins \in [Sockets -> SUBSET Stores]
  BY DEF TypeOK
<1>4. m \in logins'[s] /\ \A r \in Sockets : logins[r] \subseteq logins'[r]
  BY <1>1, <1>2, <1>3
<1>5. \A u \in Tasks : task'[u] = task[u] \/ task'[u].at = "idle"
  BY DEF OpenStore, Put, TypeOK, Idle
<1> HIDE DEF m, s, a
<1>6. SocketLoggedInForStore'
  BY <1>1, <1>2, <1>4 DEF Rightful, SocketLoggedInForStore, Arrays
<1>7. CopiesRightful'
  BY <1>4, <1>5 DEF CopiesRightful, SocketsRightful, Rightful
<1> QED
  BY <1>6, <1>7 DEF SocketsRightful

LEMMA ProceedRightful ==
  ASSUME TypeOK, SocketsRightful, NEW t \in Tasks, Proceed(t)
  PROVE  SocketsRightful'
<1>1. Rightful(stores) /\ CopiesRightful
  BY DEF SocketsRightful, SocketLoggedInForStore, Rightful
<1>2. CASE LoginVerified(t)
  BY <1>1, <1>2, RightfulKept DEF LoginVerified, Put, TypeOK, view
<1>3. CASE LoginRefused(t) \/ StoreNotCached(t)
  BY <1>1, <1>3, RightfulKept DEF LoginRefused, StoreNotCached, Put, Leaving, TypeOK, view
<1>4. CASE OpenStore(t)
  BY <1>4, OpenKeepsRightful
<1>5. CASE CloseStores(t)
  <2> DEFINE s == task[t].socket
             a == task[t].caches
             after == [m \in Stores |-> IF a[m] = s THEN Closed ELSE a[m]]
  <2>1. a \in Arrays /\ after \in Arrays /\ Rightful(a)
    BY <1>1, <1>5, TaskFacts DEF CloseStores, CopiesRightful, At, Arrays, Entries
  <2>2. Rightful(after)
    BY <2>1, ClosingRightful
  <2>3. stores' = after /\ UNCHANGED logins
    BY <1>5 DEF CloseStores, Write, view
  <2>4. \A u \in Tasks : \/ task'[u] = task[u]
                         \/ task'[u].at = "idle"
                         \/ task'[u].caches = after
    BY <1>5 DEF CloseStores, Put, TypeOK, Idle
  <2> QED
    BY <1>1, <2>2, <2>3, <2>4, RightfulKept
<1>6. CASE UpsertReads(t)
  BY <1>1, <1>6, RightfulKept DEF UpsertReads, Put, TypeOK, view
<1>7. CASE UpsertWrites(t)
  <2> DEFINE a == task[t].caches
             m == task[t].store
             after == [a EXCEPT ![m] = IF @ = Absent THEN Closed ELSE @]
  <2>1. a \in Arrays /\ after \in Arrays /\ m \in Stores /\ Rightful(a)
    BY <1>1, <1>7, TaskFacts DEF UpsertWrites, CopiesRightful, At, Arrays, Entries
  <2>2. Rightful(after)
    BY <2>1, ClosingRightful DEF Arrays
  <2>3. stores' = after /\ UNCHANGED logins
    BY <1>7 DEF UpsertWrites, Write, view
  <2>4. \A u \in Tasks : task'[u] = task[u] \/ task'[u].at = "idle"
    BY <1>7 DEF UpsertWrites, Put, TypeOK, Idle
  <2> QED
    BY <1>1, <2>2, <2>3, <2>4, RightfulKept
<1>8. CASE DisconnectFails(t)
  BY <1>1, <1>8, RightfulKept DEF DisconnectFails, Put, TypeOK, Idle
<1> QED
  BY <1>2, <1>3, <1>4, <1>5, <1>6, <1>7, <1>8 DEF Proceed

LEMMA NextRightful == TypeOK /\ SocketsRightful /\ [Next]_vars => SocketsRightful'
<1> SUFFICES ASSUME TypeOK, SocketsRightful, [Next]_vars PROVE SocketsRightful'
  OBVIOUS
<1>1. Rightful(stores) /\ CopiesRightful
  BY DEF SocketsRightful, SocketLoggedInForStore, Rightful
<1>2. ASSUME NEW t \in Tasks, NEW s \in Sockets, Drop(t, s) PROVE SocketsRightful'
  BY <1>1, <1>2, RightfulKept DEF Drop, Put, Leaving, TypeOK, view
<1>3. ASSUME NEW t \in Tasks, NEW s \in Sockets, NEW m \in Stores, Login(t, s, m)
      PROVE  SocketsRightful'
  BY <1>1, <1>3, RightfulKept DEF Login, Put, TypeOK, view
<1>4. ASSUME NEW t \in Tasks, NEW m \in Stores, Register(t, m) PROVE SocketsRightful'
  BY <1>1, <1>4, RightfulKept DEF Register, Put, TypeOK, view
<1>5. CASE InitWrites
  <2>1. Rightful(stores')
    BY <1>5 DEF InitWrites, Write, Rightful
  <2> QED
    BY <1>1, <1>5, <2>1, RightfulKept DEF InitWrites, view
<1>6. CASE Crash
  BY <1>1, <1>6, RightfulKept DEF Crash, view, Idle
<1>7. CASE \/ \E s \in Sockets : Connect(s)
           \/ \E m \in Stores : DeleteMerchant(m)
           \/ InitReads \/ Restart \/ UNCHANGED vars
  BY <1>1, <1>7, RightfulKept DEF Connect, DeleteMerchant, InitReads, Restart, vars, view
<1> QED
  BY <1>2, <1>3, <1>4, <1>5, <1>6, <1>7, ProceedRightful DEF Next, Boot

\* Whatever writes are lost: an order is only ever sent to a socket on which
\* the store's own merchant was told "connect".
THEOREM SocketsAreRightful == Spec => []SocketLoggedInForStore
<1>1. Init => SocketsRightful
  BY DEF Init, SocketsRightful, SocketLoggedInForStore, CopiesRightful, Idle
<1>2. SocketsRightful => SocketLoggedInForStore
  BY DEF SocketsRightful
<1> QED
  BY <1>1, <1>2, NextRightful, TypeCorrect, PTL DEF Spec

-----------------------------------------------------------------------------
(* As long as no write was stale.                                           *)

\* A socket named by an entry, or by a login, once connected.
SocketsKnown ==
    /\ \A m \in Stores : /\ stores[m] \in Sockets => conn[stores[m]] # "new"
                         /\ latest[m] \in Sockets => conn[latest[m]] # "new"
    /\ \A t \in Tasks : At(t, "lookup") \/ At(t, "connect") => conn[task[t].socket] # "new"

\* No connection outlives its process: the sockets in the array that a start
\* of the server finds are those of ended connections.
SeenIsOver ==
    /\ ~Up => \A s \in Sockets : conn[s] # "on"
    /\ boot.at \in {"loading", "loaded"} =>
         \A m \in Stores : boot.seen[m] \in Sockets => conn[boot.seen[m]] = "off"

\* LoggedInStoreIsOpen, also while the server is starting.
LatestIsOpen ==
    \A m \in Stores : latest[m] \in Sockets /\ conn[latest[m]] = "on" => stores[m] = latest[m]

\* A store is open on a socket that is connected, or just being closed, or
\* whose disconnect could not read the array.
OpenIsConnected ==
    boot.at = "done" =>
        \A m \in Stores : stores[m] \in Sockets =>
            conn[stores[m]] = "on" \/ Departing(stores[m]) \/ stores[m] \in missed

\* Only a store that was registered has an entry, or is about to get one.
EntriesWereRegistered ==
    /\ rows \subseteq used
    /\ \A m \in Stores : stores[m] # Absent => m \in used
    /\ \A t \in Tasks : At(t, "created") \/ At(t, "append") => task[t].store \in used
    /\ boot.at \in {"loading", "loaded"} => \A m \in Stores : boot.seen[m] # Absent => m \in used
    /\ boot.at = "loaded" => boot.rows \subseteq used

\* A registered store is listed; while the server is starting this holds for
\* the stores registered since it read the rows, which had no entry before.
Listed(m) == stores[m] # Absent \/ Arriving(m)

NewStoresListed ==
    /\ boot.at = "done" => \A m \in rows : Listed(m)
    /\ boot.at = "loaded" => \A m \in rows \ boot.rows : Listed(m) /\ boot.seen[m] = Absent

Sound ==
    /\ SocketsKnown
    /\ SeenIsOver
    /\ LatestIsOpen
    /\ OpenIsConnected
    /\ EntriesWereRegistered
    /\ NewStoresListed

SoundUnlessStale == ~stale => Sound

\* What a write that was not stale started from.
LEMMA FreshWrite ==
  ASSUME NEW after, NEW before, Write(after, before), ~stale'
  PROVE  stores' = after /\ before = stores
  BY DEF Write

\* Handlers that leave, and entries on their way, are those of the tasks.
LEMMA TasksKept ==
  ASSUME TypeOK, NEW t \in Tasks, NEW r, Put(t, r)
  PROVE  /\ task'[t] = r
         /\ \A u \in Tasks : u # t => task'[u] = task[u]
         /\ \A s \in Sockets : Departing(s) /\ ~(At(t, "disconnect") /\ task[t].socket = s)
                                 => Departing(s)'
         /\ \A s \in Sockets : Departing(s)' => Departing(s) \/ (r.at = "disconnect" /\ r.socket = s)
         /\ \A m \in Stores : Arriving(m) /\ ~(task[t].at \in {"created", "append"} /\ task[t].store = m)
                                 => Arriving(m)'
<1>1. task'[t] = r /\ \A u \in Tasks : u # t => task'[u] = task[u]
  BY DEF Put, TypeOK
<1>2. ASSUME NEW s \in Sockets, Departing(s), ~(At(t, "disconnect") /\ task[t].socket = s)
      PROVE  Departing(s)'
  BY <1>1, <1>2 DEF Departing, At
<1>3. ASSUME NEW s \in Sockets, Departing(s)', ~(r.at = "disconnect" /\ r.socket = s)
      PROVE  Departing(s)
  BY <1>1, <1>3 DEF Departing, At
<1>4. ASSUME NEW m \in Stores, Arriving(m),
             ~(task[t].at \in {"created", "append"} /\ task[t].store = m)
      PROVE  Arriving(m)'
  BY <1>1, <1>4 DEF Arriving
<1> QED
  BY <1>1, <1>2, <1>3, <1>4

\* The steps that only move a task on.
LEMMA TaskStepSound ==
  ASSUME TypeOK, Sound, NEW t \in Tasks, NEW r, Put(t, r),
         UNCHANGED <<stores, rows, conn, boot, view, used>>,
         r.at \in {"lookup", "connect"} => conn[r.socket] # "new",
         r.at \in {"created", "append"} => r.store \in used,
         At(t, "disconnect") => r.at = "disconnect" /\ r.socket = task[t].socket,
         task[t].at \in {"created", "append"}
           => r.at \in {"created", "append"} /\ r.store = task[t].store
  PROVE  Sound'
<1>1. /\ \A s \in Sockets : Departing(s) => Departing(s)'
      /\ \A m \in Stores : Arriving(m) => Arriving(m)'
  BY TasksKept DEF Departing, Arriving, At
<1>2. SocketsKnown'
  BY TasksKept DEF Sound, SocketsKnown, At, view
<1>3. SeenIsOver'
  BY DEF Sound, SeenIsOver, Up
<1>4. LatestIsOpen'
  BY <1>1 DEF Sound, LatestIsOpen, view
<1>5. OpenIsConnected'
  BY <1>1 DEF Sound, OpenIsConnected, view
<1>6. EntriesWereRegistered'
  BY TasksKept DEF Sound, EntriesWereRegistered, At
<1>7. NewStoresListed'
  <2>1. \A m \in Stores : Listed(m) => Listed(m)'
    BY <1>1 DEF Listed
  <2> QED
    BY <2>1 DEF Sound, NewStoresListed, TypeOK
<1> QED
  BY <1>2, <1>3, <1>4, <1>5, <1>6, <1>7 DEF Sound

LEMMA OpenSound ==
  ASSUME TypeOK, Sound, ~stale', NEW t \in Tasks, OpenStore(t)
  PROVE  Sound'
<1> DEFINE m == task[t].store
           s == task[t].socket
<1>1. m \in Stores /\ s \in Sockets
  BY TaskFacts DEF OpenStore
<1>2. stores' = [stores EXCEPT ![m] = s] /\ stores[m] # Absent /\ conn[s] # "off"
  BY DEF OpenStore
<1>3. latest' = [latest EXCEPT ![m] = s] /\ UNCHANGED <<rows, conn, boot, missed, used>> /\ Put(t, Idle)
  BY DEF OpenStore
<1>4. /\ \A n \in Stores : stores'[n] = IF n = m THEN s ELSE stores[n]
      /\ \A n \in Stores : latest'[n] = IF n = m THEN s ELSE latest[n]
  BY <1>1, <1>2, <1>3 DEF TypeOK, Arrays
<1>5. conn[s] = "on"
  <2>1. conn[s] # "new"
    BY DEF Sound, SocketsKnown, OpenStore
  <2> QED
    BY <1>1, <1>2, <2>1 DEF TypeOK
<1>6. \A r \in Sockets : Departing(r) <=> Departing(r)'
  BY <1>3, TasksKept DEF Idle, OpenStore, At
<1>7. \A n \in Stores : Arriving(n) => Arriving(n)'
  BY <1>3, TasksKept DEF OpenStore, At
<1>8. SocketsKnown'
  BY <1>1, <1>3, <1>4, <1>5, TasksKept DEF Sound, SocketsKnown, At, Idle
<1>9. SeenIsOver'
  BY <1>3 DEF Sound, SeenIsOver, Up
<1>10. LatestIsOpen'
  BY <1>3, <1>4, <1>6 DEF Sound, LatestIsOpen
<1>11. OpenIsConnected'
  BY <1>3, <1>4, <1>5, <1>6 DEF Sound, OpenIsConnected
<1>12. EntriesWereRegistered'
  BY <1>1, <1>2, <1>3, <1>4, TasksKept DEF Sound, EntriesWereRegistered, At, Idle
<1>13. NewStoresListed'
  <2>1. \A n \in Stores : Listed(n) => Listed(n)'
    BY <1>1, <1>4, <1>7 DEF Listed
  <2> QED
    BY <1>3, <2>1 DEF Sound, NewStoresListed, TypeOK
<1> QED
  BY <1>8, <1>9, <1>10, <1>11, <1>12, <1>13 DEF Sound

LEMMA CloseSound ==
  ASSUME TypeOK, Sound, ~stale', NEW t \in Tasks, CloseStores(t)
  PROVE  Sound'
<1> DEFINE s == task[t].socket
<1>1. s \in Sockets
  BY TaskFacts DEF CloseStores
<1>2. \A n \in Stores : stores'[n] = IF stores[n] = s THEN Closed ELSE stores[n]
  BY FreshWrite DEF CloseStores
<1>3. /\ conn' = [conn EXCEPT ![s] = "off"]
      /\ UNCHANGED <<rows, boot, latest, missed, used>>
  BY DEF CloseStores, view
<1>4. \A r \in Sockets : conn'[r] = IF r = s THEN "off" ELSE conn[r]
  BY <1>1, <1>3 DEF TypeOK
<1>5. PICK r : Put(t, r) /\ (r = Idle \/ (r.at = "disconnect" /\ r.socket = s))
  BY DEF CloseStores
<1>6. \A q \in Sockets : q # s => (Departing(q) <=> Departing(q)')
  BY <1>5, TasksKept DEF Idle
<1>7. \A n \in Stores : Arriving(n) => Arriving(n)'
  BY <1>5, TasksKept DEF CloseStores, At
<1>8. task'[t].at \in {"idle", "disconnect"} /\ \A u \in Tasks : u # t => task'[u] = task[u]
  BY <1>5, TasksKept DEF Idle
<1>9. SocketsKnown'
  <2>1. ASSUME NEW n \in Stores
        PROVE  /\ stores'[n] \in Sockets => conn'[stores'[n]] # "new"
               /\ latest'[n] \in Sockets => conn'[latest'[n]] # "new"
    BY <1>2, <1>3, <1>4 DEF Sound, SocketsKnown
  <2>2. ASSUME NEW u \in Tasks, task'[u].at \in {"lookup", "connect"}
        PROVE  conn'[task'[u].socket] # "new"
    <3>1. task'[u] = task[u] /\ task[u].socket \in Sockets
      BY <1>8, <2>2, TaskFacts DEF At
    <3> QED
      BY <1>4, <2>2, <3>1 DEF Sound, SocketsKnown, At
  <2> QED
    BY <2>1, <2>2 DEF SocketsKnown, At
<1>10. SeenIsOver'
  <2>1. ~Up' => \A q \in Sockets : conn'[q] # "on"
    BY <1>3, <1>4 DEF Sound, SeenIsOver, Up
  <2>2. boot.at \in {"loading", "loaded"} =>
          \A n \in Stores : boot.seen[n] \in Sockets => conn'[boot.seen[n]] = "off"
    BY <1>4 DEF Sound, SeenIsOver
  <2> QED
    BY <1>3, <2>1, <2>2 DEF SeenIsOver
<1>11. LatestIsOpen'
  BY <1>2, <1>3, <1>4, <1>6 DEF Sound, LatestIsOpen
<1>12. OpenIsConnected'
  BY <1>2, <1>3, <1>4, <1>6 DEF Sound, OpenIsConnected
<1>13. EntriesWereRegistered'
  BY <1>1, <1>2, <1>3, <1>8 DEF Sound, EntriesWereRegistered, At
<1>14. NewStoresListed'
  <2>1. \A n \in Stores : Listed(n) => Listed(n)'
    BY <1>2, <1>7 DEF Listed
  <2> QED
    BY <1>3, <2>1 DEF Sound, NewStoresListed, TypeOK
<1> QED
  BY <1>9, <1>10, <1>11, <1>12, <1>13, <1>14 DEF Sound

LEMMA DisconnectFailsSound ==
  ASSUME TypeOK, Sound, NEW t \in Tasks, DisconnectFails(t)
  PROVE  Sound'
<1> DEFINE s == task[t].socket
<1>1. /\ s \in Sockets /\ At(t, "disconnect") /\ Put(t, Idle)
      /\ UNCHANGED <<stores, rows, conn, boot, latest, used>>
  BY TaskFacts DEF DisconnectFails
<1>2. /\ missed \subseteq missed'
      /\ conn[s] = "off" /\ (\E m \in Stores : stores[m] = s) => s \in missed'
  BY DEF DisconnectFails
<1>3. \A r \in Sockets : r # s /\ Departing(r) => Departing(r)'
  BY <1>1, TasksKept
<1>4. \A n \in Stores : Arriving(n) => Arriving(n)'
  BY <1>1, TasksKept DEF At
<1>5. SocketsKnown'
  BY <1>1, TasksKept DEF Sound, SocketsKnown, At, Idle
<1>6. SeenIsOver' /\ LatestIsOpen'
  BY <1>1 DEF Sound, SeenIsOver, LatestIsOpen, Up
<1>7. OpenIsConnected'
  <2> SUFFICES ASSUME boot.at = "done", NEW m \in Stores, stores[m] \in Sockets
               PROVE  conn[stores[m]] = "on" \/ Departing(stores[m])' \/ stores[m] \in missed'
    BY <1>1 DEF OpenIsConnected
  <2>1. CASE stores[m] # s
    <3>1. PICK r \in Sockets : r = stores[m]
      OBVIOUS
    <3>2. conn[r] = "on" \/ Departing(r) \/ r \in missed
      BY <3>1 DEF Sound, OpenIsConnected
    <3>3. conn[r] = "on" \/ Departing(r)' \/ r \in missed'
      BY <1>2, <1>3, <2>1, <3>1, <3>2
    <3>4. Departing(r)' <=> Departing(stores[m])'
      BY <1>1, <3>1 DEF Departing
    <3> QED
      BY <3>1, <3>3, <3>4
  <2>2. CASE stores[m] = s
    <3>1. conn[s] # "new"
      BY <2>2 DEF Sound, SocketsKnown
    <3> QED
      BY <1>1, <1>2, <2>2, <3>1 DEF TypeOK
  <2> QED
    BY <2>1, <2>2
<1>8. EntriesWereRegistered'
  BY <1>1, TasksKept DEF Sound, EntriesWereRegistered, At, Idle
<1>9. NewStoresListed'
  <2>1. \A n \in Stores : Listed(n) => Listed(n)'
    BY <1>1, <1>4 DEF Listed
  <2> QED
    BY <1>1, <2>1 DEF Sound, NewStoresListed, TypeOK
<1> QED
  BY <1>5, <1>6, <1>7, <1>8, <1>9 DEF Sound

LEMMA UpsertSound ==
  ASSUME TypeOK, Sound, ~stale', NEW t \in Tasks, UpsertWrites(t)
  PROVE  Sound'
<1> DEFINE m == task[t].store
<1>1. m \in Stores /\ m \in used
  BY TaskFacts DEF UpsertWrites, Sound, EntriesWereRegistered
<1>2. stores' = [stores EXCEPT ![m] = IF @ = Absent THEN Closed ELSE @]
  BY FreshWrite DEF UpsertWrites
<1>3. \A n \in Stores : stores'[n] = IF n = m /\ stores[n] = Absent THEN Closed ELSE stores[n]
  BY <1>2 DEF TypeOK, Arrays
<1>4. UNCHANGED <<rows, conn, boot, latest, missed, used>> /\ Put(t, Idle)
  BY DEF UpsertWrites, view
<1>5. \A q \in Sockets : Departing(q) <=> Departing(q)'
  BY <1>4, TasksKept DEF UpsertWrites, At, Idle
<1>6. \A n \in Stores : n # m /\ Arriving(n) => Arriving(n)'
  BY <1>4, TasksKept
<1>7. SocketsKnown'
  BY <1>3, <1>4, TasksKept DEF Sound, SocketsKnown, At, Idle
<1>8. SeenIsOver'
  BY <1>4 DEF Sound, SeenIsOver, Up
<1>9. LatestIsOpen'
  BY <1>3, <1>4, <1>5 DEF Sound, LatestIsOpen
<1>10. OpenIsConnected'
  BY <1>3, <1>4, <1>5 DEF Sound, OpenIsConnected
<1>11. EntriesWereRegistered'
  BY <1>1, <1>3, <1>4, TasksKept DEF Sound, EntriesWereRegistered, At, Idle
<1>12. NewStoresListed'
  <2>1. \A n \in Stores : Listed(n) => Listed(n)'
    BY <1>1, <1>3, <1>6 DEF Listed
  <2> QED
    BY <1>4, <2>1 DEF Sound, NewStoresListed, TypeOK
<1> QED
  BY <1>7, <1>8, <1>9, <1>10, <1>11, <1>12 DEF Sound

LEMMA ProceedSound ==
  ASSUME TypeOK, Sound, ~stale', NEW t \in Tasks, Proceed(t)
  PROVE  Sound'
<1>1. CASE LoginVerified(t)
  BY <1>1, TaskStepSound DEF LoginVerified, At, Sound, SocketsKnown
<1>2. CASE LoginRefused(t) \/ StoreNotCached(t)
  BY <1>2, TaskStepSound DEF LoginRefused, StoreNotCached, Leaving, At
<1>3. CASE UpsertReads(t)
  BY <1>3, TaskStepSound DEF UpsertReads, At, Sound, EntriesWereRegistered
<1> QED
  BY <1>1, <1>2, <1>3, OpenSound, CloseSound, DisconnectFailsSound, UpsertSound DEF Proceed

LEMMA ConnectSound ==
  ASSUME TypeOK, Sound, NEW s \in Sockets, Connect(s)
  PROVE  Sound'
<1>1. conn[s] = "new" /\ Up /\ \A r \in Sockets : conn'[r] = IF r = s THEN "on" ELSE conn[r]
  BY DEF Connect, TypeOK
<1>2. UNCHANGED <<stores, rows, task, boot, latest, missed, used>>
  BY DEF Connect, view
<1>3. SocketsKnown'
  <2>1. \A t \in Tasks : At(t, "lookup") \/ At(t, "connect") => task[t].socket \in Sockets
    BY TaskFacts
  <2> QED
    BY <1>1, <1>2, <2>1 DEF Sound, SocketsKnown, At
<1>4. SeenIsOver'
  BY <1>1, <1>2 DEF Sound, SeenIsOver, Up
<1>5. LatestIsOpen'
  BY <1>1, <1>2 DEF Sound, LatestIsOpen, SocketsKnown, Departing, At
<1>6. OpenIsConnected'
  BY <1>1, <1>2 DEF Sound, OpenIsConnected, Departing, At
<1>7. EntriesWereRegistered' /\ NewStoresListed'
  BY <1>2 DEF Sound, EntriesWereRegistered, NewStoresListed, Listed, Arriving, At
<1> QED
  BY <1>3, <1>4, <1>5, <1>6, <1>7 DEF Sound

LEMMA DropSound ==
  ASSUME TypeOK, Sound, NEW t \in Tasks, NEW s \in Sockets, Drop(t, s)
  PROVE  Sound'
<1>1. Put(t, Leaving(s)) /\ task[t] = Idle /\ UNCHANGED <<stores, rows, boot, latest, missed, used>>
  BY DEF Drop, view, Free
<1>2. \A r \in Sockets : conn'[r] = IF r = s THEN "off" ELSE conn[r]
  BY DEF Drop, TypeOK
<1>3. /\ task'[t].at = "disconnect" /\ task'[t].socket = s
      /\ \A u \in Tasks : u # t => task'[u] = task[u]
  BY <1>1, TasksKept DEF Leaving
<1>4. Departing(s)' /\ \A r \in Sockets : r # s => (Departing(r) <=> Departing(r)')
  <2>1. Departing(s)'
    BY <1>3 DEF Departing, At
  <2> QED
    BY <1>1, <2>1, TasksKept DEF Leaving, Idle, At
<1>5. \A n \in Stores : Arriving(n) => Arriving(n)'
  BY <1>1, TasksKept DEF Idle
<1>6. SocketsKnown'
  <2>1. ASSUME NEW u \in Tasks, task'[u].at \in {"lookup", "connect"}
        PROVE  conn'[task'[u].socket] # "new"
    <3>1. task'[u] = task[u] /\ task[u].socket \in Sockets
      BY <1>3, <2>1, TaskFacts DEF At
    <3> QED
      BY <1>2, <2>1, <3>1 DEF Sound, SocketsKnown, At
  <2> QED
    BY <1>1, <1>2, <2>1 DEF Sound, SocketsKnown, At
<1>7. SeenIsOver'
  BY <1>1, <1>2 DEF Sound, SeenIsOver, Up
<1>8. LatestIsOpen'
  BY <1>1, <1>2, <1>4 DEF Sound, LatestIsOpen
<1>9. OpenIsConnected'
  BY <1>1, <1>2, <1>4 DEF Sound, OpenIsConnected
<1>10. EntriesWereRegistered'
  BY <1>1, <1>3 DEF Sound, EntriesWereRegistered, At
<1>11. NewStoresListed'
  <2>1. \A n \in Stores : Listed(n) => Listed(n)'
    BY <1>1, <1>5 DEF Listed
  <2> QED
    BY <1>1, <2>1 DEF Sound, NewStoresListed, TypeOK
<1> QED
  BY <1>6, <1>7, <1>8, <1>9, <1>10, <1>11 DEF Sound

LEMMA RegisterSound ==
  ASSUME TypeOK, Sound, NEW t \in Tasks, NEW m \in Stores, Register(t, m)
  PROVE  Sound'
<1>1. /\ Put(t, [at |-> "created", store |-> m]) /\ task[t] = Idle /\ m \notin used
      /\ rows' = rows \cup {m} /\ used' = used \cup {m}
      /\ UNCHANGED <<stores, conn, boot, latest, missed>>
  BY DEF Register, view, Free
<1>2. /\ task'[t] = [at |-> "created", store |-> m]
      /\ \A u \in Tasks : u # t => task'[u] = task[u]
  BY <1>1, TasksKept
<1>3. \A r \in Sockets : Departing(r) <=> Departing(r)'
  BY <1>1, TasksKept DEF Idle, At
<1>4. Arriving(m)' /\ \A n \in Stores : Arriving(n) => Arriving(n)'
  <2>1. Arriving(m)'
    BY <1>2 DEF Arriving
  <2> QED
    BY <1>1, <2>1, TasksKept DEF Idle
<1>5. SocketsKnown'
  BY <1>1, <1>2 DEF Sound, SocketsKnown, At
<1>6. SeenIsOver'
  BY <1>1 DEF Sound, SeenIsOver, Up
<1>7. LatestIsOpen' /\ OpenIsConnected'
  BY <1>1, <1>3 DEF Sound, LatestIsOpen, OpenIsConnected
<1>8. EntriesWereRegistered'
  BY <1>1, <1>2 DEF Sound, EntriesWereRegistered, At
<1>9. NewStoresListed'
  <2>1. \A n \in Stores : Listed(n) => Listed(n)'
    BY <1>1, <1>4 DEF Listed
  <2>2. Listed(m)'
    BY <1>4 DEF Listed
  <2>3. boot.at \in {"loading", "loaded"} => boot.seen[m] = Absent
    BY <1>1 DEF Sound, EntriesWereRegistered
  <2> QED
    BY <1>1, <2>1, <2>2, <2>3 DEF Sound, NewStoresListed, TypeOK
<1> QED
  BY <1>5, <1>6, <1>7, <1>8, <1>9 DEF Sound

\* The start of the server overwrites the array of its predecessor, of whose
\* connections none is left.
LEMMA InitWritesSound ==
  ASSUME TypeOK, Sound, ~stale', InitWrites
  PROVE  Sound'
<1>1. /\ boot.seen = stores /\ boot.at = "loaded" /\ boot' = [at |-> "done"]
      /\ \A m \in Stores : stores'[m] = IF m \in boot.rows THEN Closed ELSE Absent
      /\ UNCHANGED <<rows, conn, task, latest, missed, used>>
  BY FreshWrite DEF InitWrites, view
<1>2. SocketsKnown'
  BY <1>1 DEF Sound, SocketsKnown, At
<1>3. SeenIsOver'
  BY <1>1 DEF SeenIsOver, Up
<1>4. LatestIsOpen'
  BY <1>1 DEF Sound, LatestIsOpen, SeenIsOver, Departing, At
<1>5. OpenIsConnected'
  BY <1>1 DEF OpenIsConnected
<1>6. EntriesWereRegistered'
  BY <1>1 DEF Sound, EntriesWereRegistered, At
<1>7. NewStoresListed'
  <2> SUFFICES ASSUME NEW m \in rows, m \notin boot.rows PROVE Arriving(m)
    BY <1>1 DEF NewStoresListed, Listed, Arriving, TypeOK
  <2> QED
    BY <1>1 DEF Sound, NewStoresListed, Listed
<1> QED
  BY <1>2, <1>3, <1>4, <1>5, <1>6, <1>7 DEF Sound

LEMMA ProcessSound ==
  ASSUME TypeOK, Sound, InitReads \/ Crash \/ Restart
  PROVE  Sound'
<1>1. CASE InitReads
  <2>1. /\ boot.at = "loading" /\ boot'.at = "loaded" /\ boot'.seen = boot.seen /\ boot'.rows = rows
        /\ UNCHANGED <<stores, rows, conn, task, latest, missed, used>>
    BY <1>1 DEF InitReads, view
  <2>2. SocketsKnown' /\ SeenIsOver' /\ LatestIsOpen'
    BY <2>1 DEF Sound, SocketsKnown, SeenIsOver, LatestIsOpen, Departing, At, Up
  <2>3. OpenIsConnected' /\ EntriesWereRegistered' /\ NewStoresListed'
    BY <2>1 DEF Sound, OpenIsConnected, EntriesWereRegistered, NewStoresListed, At
  <2> QED
    BY <2>2, <2>3 DEF Sound
<1>2. CASE Crash
  <2>1. /\ boot'.at = "down" /\ \A t \in Tasks : task'[t] = Idle
        /\ \A s \in Sockets : conn'[s] = IF conn[s] = "on" THEN "off" ELSE conn[s]
        /\ UNCHANGED <<stores, rows, latest, missed, used>>
    BY <1>2 DEF Crash, view
  <2>2. SocketsKnown' /\ SeenIsOver' /\ LatestIsOpen'
    BY <2>1 DEF Sound, SocketsKnown, SeenIsOver, LatestIsOpen, At, Idle, Up
  <2>3. OpenIsConnected' /\ EntriesWereRegistered' /\ NewStoresListed'
    BY <2>1 DEF Sound, OpenIsConnected, EntriesWereRegistered, NewStoresListed, At, Idle
  <2> QED
    BY <2>2, <2>3 DEF Sound
<1>3. CASE Restart
  <2>1. /\ ~Up /\ boot'.at = "loading" /\ boot'.seen = stores
        /\ UNCHANGED <<stores, rows, conn, task, latest, missed, used>>
    BY <1>3 DEF Restart, view
  <2>2. SocketsKnown' /\ LatestIsOpen'
    BY <2>1 DEF Sound, SocketsKnown, LatestIsOpen, Departing, At
  <2>3. SeenIsOver'
    BY <2>1 DEF Sound, SeenIsOver, SocketsKnown, Up, TypeOK
  <2>4. OpenIsConnected' /\ EntriesWereRegistered' /\ NewStoresListed'
    BY <2>1 DEF Sound, OpenIsConnected, EntriesWereRegistered, NewStoresListed, At
  <2> QED
    BY <2>2, <2>3, <2>4 DEF Sound
<1> QED
  BY <1>1, <1>2, <1>3

\* A stale write is not forgotten.
LEMMA StaleStays ==
  ASSUME TypeOK, [Next]_vars, stale
  PROVE  stale'
<1>1. ASSUME NEW t \in Tasks, Proceed(t) PROVE stale'
  BY <1>1 DEF Proceed, LoginVerified, LoginRefused, OpenStore, StoreNotCached, CloseStores,
              DisconnectFails, UpsertReads, UpsertWrites, Write
<1>2. ASSUME NEW t \in Tasks
      PROVE  /\ \A s \in Sockets : Drop(t, s) => stale'
             /\ \A s \in Sockets : \A m \in Stores : Login(t, s, m) => stale'
             /\ \A m \in Stores : Register(t, m) => stale'
  BY DEF Drop, Login, Register
<1>3. \A s \in Sockets : Connect(s) => stale'
  BY DEF Connect
<1>4. \A m \in Stores : DeleteMerchant(m) => stale'
  BY DEF DeleteMerchant
<1>5. Boot \/ Crash \/ Restart => stale'
  BY DEF Boot, InitReads, InitWrites, Crash, Restart, Write
<1> QED
  BY <1>1, <1>2, <1>3, <1>4, <1>5 DEF Next, vars

LEMMA NextSound == TypeOK /\ SoundUnlessStale /\ [Next]_vars => SoundUnlessStale'
<1> SUFFICES ASSUME TypeOK, SoundUnlessStale, [Next]_vars, ~stale' PROVE Sound'
  BY DEF SoundUnlessStale
<1>1. Sound
  BY StaleStays DEF SoundUnlessStale
<1>2. ASSUME NEW t \in Tasks, NEW s \in Sockets, NEW m \in Stores, Login(t, s, m) PROVE Sound'
  <2>1. Put(t, [at |-> "lookup", socket |-> s, store |-> m]) /\ task[t] = Idle /\ conn[s] = "on"
    BY <1>2 DEF Login, Free
  <2>2. UNCHANGED <<stores, rows, conn, boot, view, used>>
    BY <1>2 DEF Login
  <2> QED
    BY <1>1, <2>1, <2>2, TaskStepSound DEF At, Idle
<1>3. ASSUME NEW m \in Stores, DeleteMerchant(m) PROVE Sound'
  <2>1. rows' \subseteq rows /\ UNCHANGED <<stores, conn, task, boot, latest, missed, used>>
    BY <1>3 DEF DeleteMerchant, view
  <2>2. SocketsKnown' /\ SeenIsOver' /\ LatestIsOpen' /\ OpenIsConnected'
    BY <1>1, <2>1 DEF Sound, SocketsKnown, SeenIsOver, LatestIsOpen, OpenIsConnected,
                      Departing, At, Up
  <2>3. EntriesWereRegistered' /\ NewStoresListed'
    BY <1>1, <2>1 DEF Sound, EntriesWereRegistered, NewStoresListed, Listed, Arriving, At
  <2> QED
    BY <2>2, <2>3 DEF Sound
<1>4. CASE UNCHANGED vars
  <2>1. UNCHANGED <<stores, rows, conn, task, boot, latest, missed, used>>
    BY <1>4 DEF vars, view
  <2>2. SocketsKnown' /\ SeenIsOver' /\ LatestIsOpen' /\ OpenIsConnected'
    BY <1>1, <2>1 DEF Sound, SocketsKnown, SeenIsOver, LatestIsOpen, OpenIsConnected,
                      Departing, At, Up
  <2>3. EntriesWereRegistered' /\ NewStoresListed'
    BY <1>1, <2>1 DEF Sound, EntriesWereRegistered, NewStoresListed, Listed, Arriving, At
  <2> QED
    BY <2>2, <2>3 DEF Sound
<1> QED
  BY <1>1, <1>2, <1>3, <1>4, ProceedSound, ConnectSound, DropSound, RegisterSound,
     InitWritesSound, ProcessSound DEF Next, Boot

LEMMA InitSound == Init => SoundUnlessStale
<1> SUFFICES ASSUME Init PROVE Sound
  BY DEF SoundUnlessStale
<1>1. SocketsKnown /\ SeenIsOver /\ LatestIsOpen
  BY DEF Init, SocketsKnown, SeenIsOver, LatestIsOpen, At, Idle, Up
<1>2. OpenIsConnected /\ EntriesWereRegistered /\ NewStoresListed
  BY DEF Init, OpenIsConnected, EntriesWereRegistered, NewStoresListed, At, Idle
<1> QED
  BY <1>1, <1>2 DEF Sound

LEMMA SoundGives == SoundUnlessStale => LoggedInStoreIsOpen /\ RegisteredStoreIsListed
  BY DEF SoundUnlessStale, Sound, LatestIsOpen, NewStoresListed, Listed,
         LoggedInStoreIsOpen, RegisteredStoreIsListed

\* As long as no write was computed from an array that had changed since, and
\* the server has started: a merchant whose connection is up has its store open
\* on the connection that logged in last, whatever other connections end.
THEOREM LoggedInStoresAreOpen == Spec => []LoggedInStoreIsOpen
  BY InitSound, NextSound, SoundGives, TypeCorrect, PTL DEF Spec

\* As long as no write was stale, and the server has started: every registered
\* store has an entry, or the registration is about to write it; also a store
\* that is registered while the server starts and writes the array.
THEOREM RegisteredStoresAreListed == Spec => []RegisteredStoreIsListed
  BY InitSound, NextSound, SoundGives, TypeCorrect, PTL DEF Spec
=============================================================================
