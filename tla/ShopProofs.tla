------------------------------ MODULE ShopProofs ------------------------------
(* Proofs about Shop, for any number of stores, sockets, handlers and       *)
(* orders under way.                                                        *)
EXTENDS Shop, StoreRegistryProofs

\* The inductive part about the orders: the entry an order carries, and the
\* socket it was sent to, are of a merchant of its store.
ErrandsType == errand \in [Errands -> Paths \cup {Idle}]

ErrandsRightful ==
    \A e \in Errands :
        errand[e] # Idle /\ errand[e].entry \in Sockets
          => errand[e].store \in logins[errand[e].entry]

ShopInductive == TypeOK /\ SocketsRightful /\ ErrandsType /\ ErrandsRightful

-----------------------------------------------------------------------------
LEMMA ErrandFacts ==
  ASSUME ErrandsType, NEW e \in Errands
  PROVE  /\ errand[e] \in Paths \cup {Idle}
         /\ OrderAt(e, "idle") <=> errand[e] = Idle
         /\ OrderAt(e, "chosen") \/ OrderAt(e, "sent") => errand[e].entry \in Sockets
         /\ errand[e] # Idle => /\ errand[e].store \in Stores
                                /\ errand[e].entry \in Entries
                                /\ errand[e].live \in BOOLEAN
                                /\ errand[e].excused \in BOOLEAN
  BY DEF ErrandsType, Paths, Idle, OrderAt, Entries

\* A step of the registry takes no login back.
LEMMA LoginsGrow ==
  ASSUME TypeOK, Next, NEW s \in Sockets
  PROVE  logins[s] \subseteq logins'[s]
<1>1. ASSUME NEW t \in Tasks, OpenStore(t) PROVE logins[s] \subseteq logins'[s]
  BY <1>1, TaskFacts DEF OpenStore, TypeOK
<1>2. CASE UNCHANGED logins
  BY <1>2
<1>3. ASSUME NEW t \in Tasks, Proceed(t) PROVE OpenStore(t) \/ UNCHANGED logins
  BY <1>3 DEF Proceed, LoginVerified, LoginRefused, StoreNotCached, CloseStores,
              DisconnectFails, UpsertReads, UpsertWrites, view
<1>4. ASSUME NEW t \in Tasks
      PROVE  /\ \A r \in Sockets : Drop(t, r) => UNCHANGED logins
             /\ \A r \in Sockets : \A m \in Stores : Login(t, r, m) => UNCHANGED logins
             /\ \A m \in Stores : Register(t, m) => UNCHANGED logins
  BY DEF Drop, Login, Register, view
<1>5. Boot \/ Crash \/ Restart => UNCHANGED logins
  BY DEF Boot, InitReads, InitWrites, Crash, Restart, view
<1>6. /\ \A r \in Sockets : Connect(r) => UNCHANGED logins
      /\ \A m \in Stores : DeleteMerchant(m) => UNCHANGED logins
  BY DEF Connect, DeleteMerchant, view
<1> QED
  BY <1>1, <1>2, <1>3, <1>4, <1>5, <1>6 DEF Next

\* What an order carries stays rightful when it is not touched.
LEMMA ErrandsKept ==
  ASSUME ShopInductive, Registry
  PROVE  ErrandsType' /\ ErrandsRightful'
<1>1. Next
  BY DEF Registry
<1>2. \A e \in Errands : errand'[e] = errand[e] \/ errand'[e] = Idle
  BY DEF Registry, ShopInductive, ErrandsType
<1>3. ErrandsType'
  <2>1. errand' \in [Errands -> Paths \cup {Idle}]
    BY DEF Registry, ShopInductive, ErrandsType
  <2> QED
    BY <2>1 DEF ErrandsType
<1>4. ErrandsRightful'
  <2> SUFFICES ASSUME NEW e \in Errands, errand[e]' # Idle, errand[e].entry' \in Sockets
               PROVE  errand[e].store' \in logins'[errand[e].entry']
    BY DEF ErrandsRightful, Idle
  <2>1. errand'[e] = errand[e]
    BY <1>2
  <2>2. errand[e].store \in logins[errand[e].entry]
    BY <2>1 DEF ShopInductive, ErrandsRightful
  <2> QED
    BY <1>1, <2>1, <2>2, LoginsGrow DEF ShopInductive
<1> QED
  BY <1>3, <1>4

LEMMA OrderKeeps ==
  ASSUME ShopInductive, NEW e \in Errands, Order(e)
  PROVE  ErrandsType' /\ ErrandsRightful'
<1> DEFINE Fits(r) == /\ r \in Paths \cup {Idle}
                      /\ r # Idle /\ r.entry \in Sockets => r.store \in logins[r.entry]
<1>1. ASSUME NEW r, Fits(r), PutErrand(e, r), UNCHANGED vars
      PROVE  ErrandsType' /\ ErrandsRightful'
  BY <1>1 DEF ShopInductive, ErrandsType, ErrandsRightful, PutErrand, vars, view, Idle
<1>2. Fits(Idle)
  OBVIOUS
<1>3. ASSUME NEW m \in Stores, OrderArrives(e, m) PROVE ErrandsType' /\ ErrandsRightful'
  <2> DEFINE r == [at |-> "read", store |-> m, entry |-> stores[m],
                   live |-> stores[m] \in Sockets /\ conn[stores[m]] = "on",
                   excused |-> \/ stale \/ boot.at # "done"
                               \/ Departing(stores[m]) \/ stores[m] \in missed]
  <2>1. stores[m] \in Entries
    BY DEF ShopInductive, TypeOK, Arrays
  <2>2. stores[m] \in Sockets => m \in logins[stores[m]]
    BY DEF ShopInductive, SocketsRightful, SocketLoggedInForStore
  <2>3. r \in Paths
    <3>1. stale \in BOOLEAN
      BY DEF ShopInductive, TypeOK
    <3>2. r.live \in BOOLEAN /\ r.excused \in BOOLEAN
      BY <3>1
    <3> QED
      BY <2>1, <3>2 DEF Paths
  <2>4. Fits(r)
    BY <2>2, <2>3
  <2>5. PutErrand(e, r) /\ UNCHANGED vars
    BY <1>3 DEF OrderArrives, EntryOf
  <2> QED
    BY <1>1, <2>4, <2>5
<1>4. CASE TurnAway(e) \/ GiveUp(e)
  BY <1>1, <1>2, <1>4 DEF TurnAway, GiveUp
<1>5. CASE Choose(e)
  <2>1. errand[e] \in Paths /\ errand[e] # Idle /\ OrderAt(e, "read")
    BY <1>5, ErrandFacts DEF Choose, ShopInductive, OrderAt, Idle
  <2>2. [errand[e] EXCEPT !.at = "chosen"] \in Paths
    BY <1>5, <2>1 DEF Choose, IsOpen, Paths, OrderAt
  <2>3. Fits([errand[e] EXCEPT !.at = "chosen"])
    BY <2>1, <2>2 DEF ShopInductive, ErrandsRightful, Paths
  <2> QED
    BY <1>1, <1>5, <2>3 DEF Choose
<1>6. CASE SendOrder(e)
  <2> DEFINE r == [at |-> "sent", store |-> errand[e].store, entry |-> errand[e].entry,
                   live |-> errand[e].live, excused |-> errand[e].excused,
                   got |-> Reaches(errand[e].entry)]
  <2>1. errand[e] # Idle /\ errand[e].entry \in Sockets
    BY <1>6, ErrandFacts DEF SendOrder, ShopInductive, OrderAt, Idle
  <2>2. r \in Paths
    BY <2>1, ErrandFacts DEF ShopInductive, Paths, Reaches
  <2>3. Fits(r)
    BY <2>1, <2>2 DEF ShopInductive, ErrandsRightful
  <2> QED
    BY <1>1, <1>6, <2>3 DEF SendOrder
<1> QED
  BY <1>3, <1>4, <1>5, <1>6 DEF Order

LEMMA InitInductive == ShopInit => ShopInductive
<1> SUFFICES ASSUME ShopInit PROVE ShopInductive
  OBVIOUS
<1>1. TypeOK
  BY InitType DEF ShopInit
<1>2. SocketsRightful
  BY MarkAssumption DEF ShopInit, Init, SocketsRightful, SocketLoggedInForStore,
                        CopiesRightful, Idle
<1>3. ErrandsType /\ ErrandsRightful
  BY DEF ShopInit, ErrandsType, ErrandsRightful
<1> QED
  BY <1>1, <1>2, <1>3 DEF ShopInductive

LEMMA StepInductive == ShopInductive /\ [ShopNext]_shopVars => ShopInductive'
<1> SUFFICES ASSUME ShopInductive, [ShopNext]_shopVars PROVE ShopInductive'
  OBVIOUS
<1>1. [Next]_vars
  BY DEF ShopNext, Registry, Order, OrderArrives, TurnAway, Choose, GiveUp, SendOrder, shopVars
<1>2. TypeOK' /\ SocketsRightful'
  BY <1>1, NextType, NextRightful DEF ShopInductive
<1>3. ErrandsType' /\ ErrandsRightful'
  <2>1. CASE UNCHANGED shopVars
    BY <2>1 DEF ShopInductive, ErrandsType, ErrandsRightful, shopVars, vars, view, Idle
  <2> QED
    BY <2>1, ErrandsKept, OrderKeeps DEF ShopNext
<1> QED
  BY <1>2, <1>3 DEF ShopInductive

THEOREM ShopIsInductive == ShopSpec => []ShopInductive
  BY InitInductive, StepInductive, PTL DEF ShopSpec

\* The orders' variables keep their types, next to those of the registry.
THEOREM ShopTypeCorrect == ShopSpec => []ShopTypeOK
<1>1. ShopInductive => ShopTypeOK
  BY DEF ShopInductive, ErrandsType, ShopTypeOK
<1> QED
  BY <1>1, ShopIsInductive, PTL

\* With orders under way, too, an entry's socket logged in for its store.
THEOREM ShopSocketsAreRightful == ShopSpec => []SocketLoggedInForStore
<1>1. ShopInductive => SocketLoggedInForStore
  BY DEF ShopInductive, SocketsRightful
<1> QED
  BY <1>1, ShopIsInductive, PTL

\* Whatever is written to the array between the read and the emit, and whatever
\* was lost before: an order is emitted to a merchant of its own store.
THEOREM OrdersGoToTheirMerchants == ShopSpec => []OrderGoesToItsMerchant
<1>1. ShopInductive => OrderGoesToItsMerchant
  <2> SUFFICES ASSUME ShopInductive, NEW e \in Errands, OrderAt(e, "sent")
               PROVE  errand[e].store \in logins[errand[e].entry]
    BY DEF OrderGoesToItsMerchant
  <2>1. errand[e] # Idle /\ errand[e].entry \in Sockets
    BY ErrandFacts DEF ShopInductive, OrderAt, Idle
  <2> QED
    BY <2>1 DEF ShopInductive, ErrandsRightful
<1> QED
  BY <1>1, ShopIsInductive, PTL

-----------------------------------------------------------------------------
(* Lost orders.                                                             *)

\* The registry is sound next to the orders, so a socket that an order finds in
\* the array is connected, or the array is known to lag behind.
ErrandsExplained ==
    \A e \in Errands :
        errand[e] # Idle /\ errand[e].entry \in Sockets
          => errand[e].live \/ errand[e].excused

ShopSound == SoundUnlessStale /\ ErrandsExplained

LEMMA ExplainedAtArrival ==
  ASSUME ShopInductive, SoundUnlessStale, NEW e \in Errands, NEW m \in Stores, OrderArrives(e, m)
  PROVE  errand'[e].entry \in Sockets => errand'[e].live \/ errand'[e].excused
<1> DEFINE s == stores[m]
<1>1. /\ errand'[e].entry = s
      /\ errand'[e].live = (s \in Sockets /\ conn[s] = "on")
      /\ errand'[e].excused = (stale \/ boot.at # "done" \/ Departing(s) \/ s \in missed)
  BY DEF OrderArrives, EntryOf, PutErrand, ShopInductive, ErrandsType
<1>2. SUFFICES ASSUME s \in Sockets, ~stale, boot.at = "done", ~Departing(s), s \notin missed
               PROVE  conn[s] = "on"
  BY <1>1, <1>2
<1> QED
  BY <1>2 DEF SoundUnlessStale, Sound, OpenIsConnected

LEMMA OrderKeepsExplained ==
  ASSUME ShopInductive, ShopSound, NEW e \in Errands, Order(e)
  PROVE  ErrandsExplained'
<1>1. \A f \in Errands : f # e => errand'[f] = errand[f]
  BY DEF Order, OrderArrives, TurnAway, Choose, GiveUp, SendOrder, PutErrand,
         ShopInductive, ErrandsType
<1>2. errand'[e] = Idle \/ (errand'[e].entry \in Sockets => errand'[e].live \/ errand'[e].excused)
  <2>1. CASE \E m \in Stores : OrderArrives(e, m)
    BY <2>1, ExplainedAtArrival DEF ShopSound
  <2>2. CASE TurnAway(e) \/ GiveUp(e)
    BY <2>2 DEF TurnAway, GiveUp, PutErrand, ShopInductive, ErrandsType
  <2>3. CASE Choose(e)
    <3>1. errand[e] \in Paths /\ errand[e] # Idle
      BY <2>3, ErrandFacts DEF Choose, ShopInductive, OrderAt, Idle
    <3>2. /\ errand'[e].entry = errand[e].entry /\ errand'[e].live = errand[e].live
          /\ errand'[e].excused = errand[e].excused
      BY <2>3, <3>1 DEF Choose, PutErrand, ShopInductive, ErrandsType, Paths
    <3> QED
      BY <3>1, <3>2 DEF ShopSound, ErrandsExplained
  <2>4. CASE SendOrder(e)
    <3>1. errand[e] # Idle
      BY <2>4, ErrandFacts DEF SendOrder, ShopInductive, OrderAt, Idle
    <3>2. /\ errand'[e].entry = errand[e].entry /\ errand'[e].live = errand[e].live
          /\ errand'[e].excused = errand[e].excused
      BY <2>4 DEF SendOrder, PutErrand, ShopInductive, ErrandsType
    <3> QED
      BY <3>1, <3>2 DEF ShopSound, ErrandsExplained
  <2> QED
    BY <2>1, <2>2, <2>3, <2>4 DEF Order
<1>3. ASSUME NEW f \in Errands, errand'[f] # Idle, errand'[f].entry \in Sockets
      PROVE  errand'[f].live \/ errand'[f].excused
  BY <1>1, <1>2, <1>3 DEF ShopSound, ErrandsExplained
<1> QED
  BY <1>3 DEF ErrandsExplained, Idle

LEMMA StepShopSound == ShopInductive /\ ShopSound /\ [ShopNext]_shopVars => ShopSound'
<1> SUFFICES ASSUME ShopInductive, ShopSound, [ShopNext]_shopVars PROVE ShopSound'
  OBVIOUS
<1>1. [Next]_vars
  BY DEF ShopNext, Registry, Order, OrderArrives, TurnAway, Choose, GiveUp, SendOrder, shopVars
<1>2. SoundUnlessStale'
  BY <1>1, NextSound DEF ShopInductive, ShopSound
<1>3. ASSUME \A e \in Errands : errand'[e] = errand[e] \/ errand'[e] = Idle
      PROVE  ErrandsExplained'
  BY <1>3 DEF ShopSound, ErrandsExplained, Idle
<1>4. Registry \/ UNCHANGED shopVars => ErrandsExplained'
  BY <1>3 DEF Registry, shopVars, ShopInductive, ErrandsType
<1> QED
  BY <1>2, <1>4, OrderKeepsExplained DEF ShopNext, ShopSound

THEOREM ShopIsSound == ShopSpec => []ShopSound
<1>1. ShopInit => ShopSound
  BY InitSound DEF ShopInit, ShopSound, ErrandsExplained
<1> QED
  BY <1>1, StepShopSound, ShopIsInductive, PTL DEF ShopSpec

\* With orders under way, too: the connection that logged in last keeps its
\* store open.
THEOREM ShopLoggedInStoresAreOpen == ShopSpec => []LoggedInStoreIsOpen
<1>1. ShopSound => LoggedInStoreIsOpen
  BY SoundGives DEF ShopSound
<1> QED
  BY <1>1, ShopIsSound, PTL

\* With orders under way, too: a registered store is listed.
THEOREM ShopRegisteredStoresAreListed == ShopSpec => []RegisteredStoreIsListed
<1>1. ShopSound => RegisteredStoreIsListed
  BY SoundGives DEF ShopSound
<1> QED
  BY <1>1, ShopIsSound, PTL

\* An order is emitted to nobody only when the merchant's connection ended
\* after the entry was read, or the array lagged behind at that time.
THEOREM LostOrdersAreExplained == ShopSpec => []LostOrderIsExplained
<1>1. ShopInductive /\ ShopSound => LostOrderIsExplained
  <2> SUFFICES ASSUME ShopInductive, ShopSound, NEW e \in Errands, OrderAt(e, "sent")
               PROVE  errand[e].live \/ errand[e].excused
    BY DEF LostOrderIsExplained
  <2>1. errand[e] # Idle /\ errand[e].entry \in Sockets
    BY ErrandFacts DEF ShopInductive, OrderAt, Idle
  <2> QED
    BY <2>1 DEF ShopSound, ErrandsExplained
<1> QED
  BY <1>1, ShopIsInductive, ShopIsSound, PTL
=============================================================================
