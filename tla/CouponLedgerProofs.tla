--------------------------- MODULE CouponLedgerProofs ---------------------------
(* Theorems about CouponLedger for every set of users, codes and tasks.     *)
EXTENDS CouponLedger, TLAPS

USE StarAssumption, BoundAssumption
USE DEF Pushed, Paid, Deletable, Remaining, Spend, spends

-----------------------------------------------------------------------------
(* Type correctness.                                                        *)

\* What a request carries.
LEMMA TaskFacts ==
  ASSUME TypeOK, NEW t \in Tasks
  PROVE  /\ task[t] \in Busy \cup {Idle}
         /\ task[t].at # "idle" => /\ task[t].user \in Users
                                   /\ task[t].code \in Codes
                                   /\ task[t].why \in Whys
         /\ At(t, "retiring") => task[t].list \in SUBSET Codes
<1>1. task[t] \in Busy \cup {Idle}
  BY DEF TypeOK
<1> QED
  BY <1>1 DEF At, Idle, Busy

LEMMA GotoType ==
  ASSUME TypeOK, NEW t \in Tasks, task[t].at # "idle",
         NEW p \in {"check", "grant", "pay", "retire", "wrap"}, Goto(t, p)
  PROVE  task' \in [Tasks -> Busy \cup {Idle}]
<1>1. [at |-> p, user |-> task[t].user, code |-> task[t].code, why |-> task[t].why] \in Busy
  BY TaskFacts DEF Busy
<1> QED
  BY <1>1 DEF TypeOK, Goto

LEMMA EndType ==
  ASSUME TypeOK, NEW t \in Tasks, End(t)
  PROVE  task' \in [Tasks -> Busy \cup {Idle}]
  BY DEF TypeOK, End

LEMMA StartType ==
  ASSUME TypeOK, NEW t \in Tasks, NEW u \in Users, NEW c \in Codes, NEW w \in Whys,
         NEW p \in {"check", "retire", "wrap"}, Start(t, p, u, c, w)
  PROVE  /\ task' \in [Tasks -> Busy \cup {Idle}]
         /\ crowded' \subseteq Users
         /\ asked' \in 0..MaxRequests
<1>1. [at |-> p, user |-> u, code |-> c, why |-> w] \in Busy
  BY DEF Busy
<1>2. task' \in [Tasks -> Busy \cup {Idle}]
  BY <1>1 DEF TypeOK, Start
<1> QED
  BY <1>2 DEF TypeOK, Start

LEMMA SpendType ==
  ASSUME TypeOK, NEW c \in Codes, NEW u \in Users, Spend(c, u)
  PROVE  spent' \in [Codes -> [Users -> Nat]]
<1>1. spent[c] \in [Users -> Nat] /\ spent[c][u] + 1 \in Nat
  BY DEF TypeOK
<1>2. [spent[c] EXCEPT ![u] = @ + 1] \in [Users -> Nat]
  BY <1>1
<1>3. spent' = [spent EXCEPT ![c] = [spent[c] EXCEPT ![u] = @ + 1]]
  OBVIOUS
<1> QED
  BY <1>2, <1>3 DEF TypeOK

LEMMA InitType == Init => TypeOK
  BY DEF Init, TypeOK, Lists, Boots

LEMMA ProceedType ==
  ASSUME TypeOK, NEW t \in Tasks, Proceed(t)
  PROVE  TypeOK'
<1>1. CASE WrapGift(t)
  BY <1>1, TaskFacts, EndType DEF WrapGift, At, TypeOK, Lists, bounds
<1>2. CASE WrapFails(t) \/ CheckFails(t) \/ RetireFails(t)
  BY <1>2, EndType
  DEF WrapFails, CheckFails, RetireFails, TypeOK, lists, past, bounds
<1>3. CASE CheckDone(t)
  <2>1. CASE Goto(t, "grant")
    BY <1>3, <2>1, GotoType DEF CheckDone, At, TypeOK, lists, past, bounds
  <2>2. CASE Goto(t, "retire")
    BY <1>3, <2>2, GotoType DEF CheckDone, At, TypeOK, lists, past, bounds
  <2> QED
    BY <1>3, <2>1, <2>2 DEF CheckDone
<1>4. CASE GrantCoupon(t)
  BY <1>4, TaskFacts, EndType DEF GrantCoupon, At, TypeOK, Lists, bounds
<1>5. CASE StampsSuffice(t) \/ GrantFails(t)
  BY <1>5, GotoType DEF StampsSuffice, GrantFails, At, TypeOK, lists, past, bounds
<1>6. CASE GrantStampCoupon(t)
  BY <1>6, TaskFacts, EndType DEF GrantStampCoupon, At, TypeOK, Lists, bounds
<1>7. CASE RetireReads(t)
  <2>1. [at |-> "retiring", user |-> task[t].user, code |-> task[t].code,
         why |-> task[t].why, list |-> held[task[t].user]] \in Busy
    BY <1>7, TaskFacts DEF RetireReads, At, Busy, TypeOK, Lists
  <2> QED
    BY <1>7, <2>1 DEF RetireReads, TypeOK, lists, past, bounds
<1>8. CASE RetireCommits(t)
  <2>1. task[t].code \in Codes /\ task[t].user \in Users /\ task[t].list \in SUBSET Codes
    BY <1>8, TaskFacts DEF RetireCommits, At
  <2>2. spent' \in [Codes -> [Users -> Nat]] /\ task' \in [Tasks -> Busy \cup {Idle}]
    BY <1>8, <2>1, SpendType, EndType DEF RetireCommits
  <2> QED
    BY <1>8, <2>1, <2>2 DEF RetireCommits, TypeOK, Lists, bounds
<1>9. CASE RetireUnlisted(t)
  <2>1. task[t].code \in Codes /\ task[t].user \in Users
    BY <1>9, TaskFacts DEF RetireUnlisted, At
  <2>2. spent' \in [Codes -> [Users -> Nat]] /\ task' \in [Tasks -> Busy \cup {Idle}]
    BY <1>9, <2>1, SpendType, EndType DEF RetireUnlisted
  <2> QED
    BY <1>9, <2>1, <2>2 DEF RetireUnlisted, TypeOK, lists, bounds
<1> QED
  BY <1>1, <1>2, <1>3, <1>4, <1>5, <1>6, <1>7, <1>8, <1>9 DEF Proceed

LEMMA BeginType ==
  ASSUME TypeOK, NEW t \in Tasks, NEW u \in Users, NEW c \in Codes, Begin(t, u, c)
  PROVE  TypeOK'
<1>1. CASE PublishStampCoupon(t, u, c)
  BY <1>1, StartType DEF PublishStampCoupon, CreateCoupon, TypeOK, lists, Whys
<1>2. CASE PublishGiftCoupon(t, u, c)
  BY <1>2, StartType DEF PublishGiftCoupon, CreateCoupon, TypeOK, lists, Whys
<1>3. ASSUME NEW p \in {"check", "retire"}, NEW w \in Whys, NameCode(t, u, c, p, w)
      PROVE  TypeOK'
  BY <1>3, StartType DEF NameCode, TypeOK, lists
<1>4. CASE RegisterCoupon(t, u, c) \/ UseCoupon(t, u, c) \/ WithdrawCoupon(t, u, c)
  BY <1>3, <1>4 DEF RegisterCoupon, UseCoupon, WithdrawCoupon, Whys
<1> QED
  BY <1>1, <1>2, <1>4 DEF Begin

LEMMA ProcessType ==
  ASSUME TypeOK, Process
  PROVE  TypeOK'
<1>1. CASE PurgeExpired
  <2>1. boot' \in Boots
    BY <1>1 DEF PurgeExpired, Up, TypeOK, Boots
  <2> QED
    BY <1>1, <2>1 DEF PurgeExpired, TypeOK, lists, past, bounds
<1>2. CASE LoadReads
  <2> DEFINE due == {u \in Users : (held[u] \cup (gifts[u] \ used)) \cap expired # {}}
  <2>1. boot.purged \in BOOLEAN
    BY <1>2 DEF LoadReads, TypeOK, Boots
  <2>2. /\ due \in SUBSET Users
        /\ [u \in Users |-> held[u] \ expired] \in Lists
        /\ UNION {gifts[u] : u \in due} \in SUBSET Codes
    BY DEF TypeOK, Lists
  <2>3. boot' \in Boots
    BY <1>2, <2>1, <2>2 DEF LoadReads, Boots
  <2> QED
    BY <1>2, <2>3 DEF LoadReads, TypeOK, lists, past, bounds
<1>3. CASE LoadWrites
  <2>1. boot.purged \in BOOLEAN /\ boot.lists \in Lists /\ boot.marks \in SUBSET Codes
    BY <1>3 DEF LoadWrites, TypeOK, Boots
  <2>2. boot' \in Boots /\ held' \in Lists /\ used' \subseteq Codes
    BY <1>3, <2>1 DEF LoadWrites, TypeOK, Boots, Lists
  <2> QED
    BY <1>3, <2>2 DEF LoadWrites, TypeOK, past, bounds
<1>4. CASE Crash
  <2>1. boot' \in Boots /\ task' \in [Tasks -> Busy \cup {Idle}]
    BY <1>4 DEF Crash, Boots
  <2> QED
    BY <1>4, <2>1 DEF Crash, TypeOK, lists, past, bounds
<1>5. CASE Restart
  <2>1. boot' \in Boots
    BY <1>5 DEF Restart, Boots
  <2>2. restarts' \in 0..MaxRestarts
    BY <1>5 DEF Restart, TypeOK
  <2> QED
    BY <1>5, <2>1, <2>2 DEF Restart, TypeOK, lists, past
<1> QED
  BY <1>1, <1>2, <1>3, <1>4, <1>5 DEF Process

LEMMA NextType == TypeOK /\ [Next]_vars => TypeOK'
<1> SUFFICES ASSUME TypeOK, [Next]_vars PROVE TypeOK'
  OBVIOUS
<1>1. ASSUME NEW c \in Codes, PublishCoupon(c) PROVE TypeOK'
  BY <1>1 DEF PublishCoupon, CreateCoupon, TypeOK, lists, bounds
<1>2. ASSUME NEW c \in Codes, Expire(c) PROVE TypeOK'
  BY <1>2 DEF Expire, TypeOK, lists, past, bounds
<1>3. ASSUME NEW u \in Users, EarnStar(u) PROVE TypeOK'
  BY <1>3 DEF EarnStar, TypeOK, lists, bounds
<1>4. CASE UNCHANGED vars
  BY <1>4 DEF vars, lists, past, bounds, TypeOK
<1> QED
  BY <1>1, <1>2, <1>3, <1>4, ProceedType, BeginType, ProcessType DEF Next

\* Every variable keeps its type.
THEOREM TypeCorrect == Spec => []TypeOK
  BY InitType, NextType, PTL DEF Spec

-----------------------------------------------------------------------------
(* Codes.                                                                   *)

\* A request that deletes a row holds it alone; a code's row was published
\* once, and a code that was spent has none.
LockHeld == \A t \in Tasks : At(t, "retiring") => task[t].code \in coupons
OneLock  == \A t, v \in Tasks :
              At(t, "retiring") /\ At(v, "retiring") /\ task[t].code = task[v].code => t = v
Drawn    == /\ coupons \subseteq published
            /\ \A c \in Codes, u \in Users : spent[c][u] > 0 => c \in published
CodesSafe == LockHeld /\ OneLock /\ Drawn /\ SpentOnce

\* A step that spends nothing, deletes no locked row, adds only new ones and
\* lets nobody begin to delete.
LEMMA CodesKept ==
  ASSUME TypeOK, CodesSafe, UNCHANGED spent,
         \A t \in Tasks : task'[t] = task[t] \/ task'[t].at # "retiring",
         \A c \in coupons : c \in coupons' \/ ~Locked(c),
         \A c \in coupons' : c \in coupons \/ c \notin published,
         coupons' \subseteq published', published \subseteq published'
  PROVE  CodesSafe'
<1>1. LockHeld'
  BY DEF CodesSafe, LockHeld, Locked, At
<1>2. OneLock'
  BY DEF CodesSafe, OneLock, At
<1>3. Drawn'
  BY DEF CodesSafe, Drawn
<1>4. SpentOnce'
  BY DEF CodesSafe, Drawn, SpentOnce
<1> QED
  BY <1>1, <1>2, <1>3, <1>4 DEF CodesSafe

\* A step that spends a code with a row, which nobody else has locked.
LEMMA CodesSpent ==
  ASSUME TypeOK, CodesSafe, NEW t \in Tasks, NEW c \in coupons, NEW u \in Users, Spend(c, u),
         coupons' = coupons \ {c}, UNCHANGED published, End(t),
         \A v \in Tasks \ {t} : At(v, "retiring") => task[v].code # c
  PROVE  CodesSafe'
<1>1. c \in Codes /\ \A v \in Users : spent[c][v] = 0
  BY DEF TypeOK, CodesSafe, SpentOnce
<1>2. \A d \in Codes, v \in Users :
         spent'[d][v] = IF d = c /\ v = u THEN spent[d][v] + 1 ELSE spent[d][v]
  BY <1>1 DEF TypeOK
<1>3. \A v \in Tasks : task'[v] = IF v = t THEN Idle ELSE task[v]
  BY DEF End, TypeOK
<1>4. LockHeld'
  BY <1>3 DEF CodesSafe, LockHeld, At, Idle
<1>5. OneLock'
  BY <1>3 DEF CodesSafe, OneLock, At, Idle
<1>6. Drawn'
  BY <1>1, <1>2 DEF CodesSafe, Drawn, TypeOK
<1>7. SpentOnce'
  BY <1>1, <1>2 DEF CodesSafe, SpentOnce, TypeOK
<1> QED
  BY <1>4, <1>5, <1>6, <1>7 DEF CodesSafe

LEMMA ProceedCodes ==
  ASSUME TypeOK, CodesSafe, NEW t \in Tasks, Proceed(t)
  PROVE  CodesSafe'
<1>1. coupons \subseteq published
  BY DEF CodesSafe, Drawn
<1>2. CASE \/ WrapGift(t) \/ WrapFails(t) \/ CheckFails(t) \/ RetireFails(t)
           \/ GrantCoupon(t) \/ GrantStampCoupon(t)
  <2>1. UNCHANGED <<coupons, published, spent>> /\ End(t)
    BY <1>2 DEF WrapGift, WrapFails, CheckFails, RetireFails, GrantCoupon,
                GrantStampCoupon, past
  <2>2. \A v \in Tasks : task'[v] = task[v] \/ task'[v].at # "retiring"
    BY <2>1 DEF End, Idle, TypeOK
  <2> QED
    BY <1>1, <2>1, <2>2, CodesKept
<1>3. CASE CheckDone(t) \/ StampsSuffice(t) \/ GrantFails(t)
  <2>1. UNCHANGED <<coupons, published, spent>>
    BY <1>3 DEF CheckDone, StampsSuffice, GrantFails, past
  <2>2. \A v \in Tasks : task'[v] = task[v] \/ task'[v].at # "retiring"
    BY <1>3 DEF CheckDone, StampsSuffice, GrantFails, Goto, TypeOK
  <2> QED
    BY <1>1, <2>1, <2>2, CodesKept
<1>4. CASE RetireReads(t)
  <2> DEFINE c == task[t].code
  <2>1. c \in coupons /\ ~Locked(c) /\ UNCHANGED <<coupons, published, spent>>
    BY <1>4 DEF RetireReads, past
  <2>2. \A v \in Tasks : v # t => task'[v] = task[v]
    BY <1>4 DEF RetireReads, TypeOK
  <2>3. task'[t].code = c
    BY <1>4 DEF RetireReads, TypeOK
  <2>4. LockHeld' /\ OneLock'
    BY <2>1, <2>2, <2>3 DEF CodesSafe, LockHeld, OneLock, Locked, At
  <2>5. Drawn' /\ SpentOnce'
    BY <2>1 DEF CodesSafe, Drawn, SpentOnce
  <2> QED
    BY <2>4, <2>5 DEF CodesSafe
<1>5. CASE RetireCommits(t) \/ RetireUnlisted(t)
  <2> DEFINE c == task[t].code
  <2>1. c \in coupons /\ task[t].user \in Users
    BY <1>5, TaskFacts DEF RetireCommits, RetireUnlisted, CodesSafe, LockHeld, At
  <2>2. \A v \in Tasks \ {t} : At(v, "retiring") => task[v].code # c
    BY <1>5 DEF RetireCommits, RetireUnlisted, CodesSafe, OneLock
  <2> QED
    BY <1>5, <2>1, <2>2, CodesSpent DEF RetireCommits, RetireUnlisted
<1> QED
  BY <1>2, <1>3, <1>4, <1>5 DEF Proceed

LEMMA NextCodes == TypeOK /\ CodesSafe /\ [Next]_vars => CodesSafe'
<1> SUFFICES ASSUME TypeOK, CodesSafe, [Next]_vars PROVE CodesSafe'
  OBVIOUS
<1>1. coupons \subseteq published
  BY DEF CodesSafe, Drawn
<1>2. ASSUME NEW t \in Tasks, NEW u \in Users, NEW c \in Codes, Begin(t, u, c)
      PROVE  CodesSafe'
  <2>1. UNCHANGED spent /\ \/ UNCHANGED <<coupons, published>>
                           \/ CreateCoupon(c)
    BY <1>2 DEF Begin, PublishStampCoupon, PublishGiftCoupon, RegisterCoupon, UseCoupon,
                WithdrawCoupon, NameCode, past
  <2>2. \A v \in Tasks : task'[v] = task[v] \/ task'[v].at # "retiring"
    BY <1>2 DEF Begin, PublishStampCoupon, PublishGiftCoupon, RegisterCoupon, UseCoupon,
                WithdrawCoupon, NameCode, Start, TypeOK
  <2> QED
    BY <1>1, <2>1, <2>2, CodesKept DEF CreateCoupon
<1>3. ASSUME NEW c \in Codes, PublishCoupon(c) PROVE CodesSafe'
  BY <1>1, <1>3, CodesKept DEF PublishCoupon, CreateCoupon
<1>4. CASE PurgeExpired
  BY <1>1, <1>4, CodesKept DEF PurgeExpired, past
<1>5. CASE Crash
  BY <1>1, <1>5, CodesKept DEF Crash, past, Idle
<1>6. CASE \/ \E c \in Codes : Expire(c)
           \/ \E u \in Users : EarnStar(u)
           \/ LoadReads \/ LoadWrites \/ Restart \/ UNCHANGED vars
  <2>1. UNCHANGED <<coupons, published, spent, task>>
    BY <1>6 DEF Expire, EarnStar, LoadReads, LoadWrites, Restart, vars, past
  <2> QED
    BY <1>1, <2>1, CodesKept
<1> QED
  BY <1>2, <1>3, <1>4, <1>5, <1>6, ProceedCodes DEF Next, Process

\* A code is good for one thing, whoever gives it however often at once: its
\* row is deleted for one request at most, and does not come back.
THEOREM CodesAreSpentOnce == Spec => []SpentOnce
<1>1. Init => CodesSafe
  BY DEF Init, CodesSafe, LockHeld, OneLock, Drawn, SpentOnce, At, Idle
<1>2. CodesSafe => SpentOnce
  BY DEF CodesSafe
<1> QED
  BY <1>1, <1>2, NextCodes, TypeCorrect, PTL DEF Spec

-----------------------------------------------------------------------------
(* Stamps.                                                                  *)

\* A user who never overlapped has one request in flight at most, and the
\* stars that it read to be enough are still there.
OneRequest ==
  \A t, v \in Tasks : (/\ task[t] # Idle /\ task[v] # Idle
                       /\ task[t].user = task[v].user /\ task[t].user \notin crowded) => t = v
PayCovered ==
  \A t \in Tasks : At(t, "pay") /\ task[t].user \notin crowded => stars[task[t].user] >= StampPrice
StampsSafe == OneRequest /\ PayCovered /\ StampsPaidFor

\* A step that moves no stars, and whose requests end, stay or go on without
\* having read the stars.
LEMMA StampsKept ==
  ASSUME TypeOK, StampsSafe, UNCHANGED <<stars, earned, bought>>, UNCHANGED crowded,
         \A t \in Tasks : \/ task'[t] \in {task[t], Idle}
                          \/ /\ task[t] # Idle
                             /\ task'[t].user = task[t].user
                             /\ task'[t].at # "pay"
  PROVE  StampsSafe'
<1>1. OneRequest'
  BY DEF StampsSafe, OneRequest
<1>2. PayCovered'
  BY DEF StampsSafe, PayCovered, At, Idle
<1>3. StampsPaidFor'
  BY DEF StampsSafe, StampsPaidFor
<1> QED
  BY <1>1, <1>2, <1>3 DEF StampsSafe

LEMMA StartStamps ==
  ASSUME TypeOK, StampsSafe, NEW t \in Tasks, NEW u \in Users, NEW c \in Codes, NEW w \in Whys,
         NEW p \in {"check", "retire", "wrap"}, Start(t, p, u, c, w),
         UNCHANGED <<stars, earned, bought>>
  PROVE  StampsSafe'
<1>1. /\ \A v \in Tasks \ {t} : task'[v] = task[v]
      /\ task'[t].user = u /\ task'[t].at = p
  BY DEF Start, TypeOK
<1>2. crowded \subseteq crowded' /\ (Overlaps(t, u) => u \in crowded')
  BY DEF Start
<1>3. OneRequest'
  BY <1>1, <1>2 DEF StampsSafe, OneRequest, Overlaps
<1>4. PayCovered'
  BY <1>1, <1>2 DEF StampsSafe, PayCovered, At
<1>5. StampsPaidFor'
  BY <1>2 DEF StampsSafe, StampsPaidFor
<1> QED
  BY <1>3, <1>4, <1>5 DEF StampsSafe

\* The price of the coupon was there to be paid.
LEMMA PayStamps ==
  ASSUME TypeOK, StampsSafe, NEW t \in Tasks, GrantStampCoupon(t)
  PROVE  StampsSafe'
<1> DEFINE u == task[t].user
<1>1. u \in Users /\ task[t] # Idle
  BY TaskFacts DEF GrantStampCoupon, At, Idle
<1>2. /\ stars' = [stars EXCEPT ![u] = 0] /\ bought' = [bought EXCEPT ![u] = @ + 1]
      /\ UNCHANGED <<earned, crowded>>
      /\ \A v \in Tasks : task'[v] = IF v = t THEN Idle ELSE task[v]
  BY DEF GrantStampCoupon, End, TypeOK
<1>3. OneRequest'
  BY <1>2 DEF StampsSafe, OneRequest
<1>4. PayCovered'
  <2> SUFFICES ASSUME NEW v \in Tasks, At(v, "pay")', task'[v].user \notin crowded'
               PROVE  stars'[task'[v].user] >= StampPrice
    BY DEF PayCovered
  <2>1. v # t /\ task'[v] = task[v] /\ At(v, "pay")
    BY <1>2 DEF At, Idle
  <2>2. task[v] # Idle /\ task[v].user # u
    BY <1>1, <1>2, <2>1 DEF StampsSafe, OneRequest, At, Idle
  <2> QED
    BY <1>2, <2>1, <2>2, TaskFacts DEF StampsSafe, PayCovered, At, TypeOK
<1>5. StampsPaidFor'
  <2> SUFFICES ASSUME NEW v \in Users \ crowded
               PROVE  StampPrice * bought'[v] + stars'[v] <= earned'[v]
    BY <1>2 DEF StampsPaidFor
  <2>1. StampPrice * bought[v] + stars[v] <= earned[v]
    BY DEF StampsSafe, StampsPaidFor
  <2>2. bought[v] \in Nat /\ stars[v] \in Nat /\ earned[v] \in Nat
    BY DEF TypeOK
  <2>3. CASE v # u
    BY <1>1, <1>2, <2>1, <2>3 DEF TypeOK
  <2>4. CASE v = u
    <3>1. stars[v] >= StampPrice
      BY <2>4 DEF StampsSafe, PayCovered, GrantStampCoupon
    <3>2. bought'[v] = bought[v] + 1 /\ stars'[v] = 0 /\ earned'[v] = earned[v]
      BY <1>1, <1>2, <2>4 DEF TypeOK
    <3>3. StampPrice * (bought[v] + 1) = StampPrice * bought[v] + StampPrice
      BY <2>2
    <3>4. StampPrice * bought[v] \in Nat
      BY <2>2
    <3> QED
      BY <2>1, <2>2, <3>1, <3>2, <3>3, <3>4
  <2> QED
    BY <2>3, <2>4
<1> QED
  BY <1>3, <1>4, <1>5 DEF StampsSafe

LEMMA EarnStamps ==
  ASSUME TypeOK, StampsSafe, NEW u \in Users, EarnStar(u)
  PROVE  StampsSafe'
<1>1. /\ stars' = [stars EXCEPT ![u] = @ + 1] /\ earned' = [earned EXCEPT ![u] = @ + 1]
      /\ UNCHANGED <<bought, crowded, task>>
  BY DEF EarnStar
<1>2. OneRequest'
  BY <1>1 DEF StampsSafe, OneRequest
<1>3. PayCovered'
  BY <1>1, TaskFacts DEF StampsSafe, PayCovered, At, TypeOK
<1>4. StampsPaidFor'
  <2> SUFFICES ASSUME NEW v \in Users \ crowded
               PROVE  StampPrice * bought'[v] + stars'[v] <= earned'[v]
    BY <1>1 DEF StampsPaidFor
  <2>1. StampPrice * bought[v] + stars[v] <= earned[v] /\ StampPrice * bought[v] \in Nat
    BY DEF StampsSafe, StampsPaidFor, TypeOK
  <2> QED
    BY <1>1, <2>1 DEF TypeOK
<1> QED
  BY <1>2, <1>3, <1>4 DEF StampsSafe

LEMMA NextStamps == TypeOK /\ StampsSafe /\ [Next]_vars => StampsSafe'
<1> SUFFICES ASSUME TypeOK, StampsSafe, [Next]_vars PROVE StampsSafe'
  OBVIOUS
<1>1. ASSUME NEW t \in Tasks, \/ WrapGift(t) \/ WrapFails(t) \/ CheckFails(t) \/ RetireFails(t)
                              \/ GrantCoupon(t) \/ RetireCommits(t) \/ RetireUnlisted(t)
      PROVE  StampsSafe'
  <2>1. UNCHANGED <<stars, earned, bought, crowded>> /\ End(t)
    BY <1>1 DEF WrapGift, WrapFails, CheckFails, RetireFails, GrantCoupon,
                RetireCommits, RetireUnlisted, past
  <2>2. \A v \in Tasks : task'[v] \in {task[v], Idle}
    BY <2>1 DEF End, TypeOK
  <2> QED
    BY <2>1, <2>2, StampsKept
<1>2. ASSUME NEW t \in Tasks, CheckDone(t) \/ GrantFails(t) \/ RetireReads(t)
      PROVE  StampsSafe'
  <2>1. UNCHANGED <<stars, earned, bought, crowded>> /\ task[t] # Idle
    BY <1>2 DEF CheckDone, GrantFails, RetireReads, past, At, Idle
  <2>2. \A v \in Tasks \ {t} : task'[v] = task[v]
    BY <1>2 DEF CheckDone, GrantFails, RetireReads, Goto, TypeOK
  <2>3. task'[t].user = task[t].user /\ task'[t].at # "pay"
    BY <1>2 DEF CheckDone, GrantFails, RetireReads, Goto, TypeOK
  <2> QED
    BY <2>1, <2>2, <2>3, StampsKept
<1>3. ASSUME NEW t \in Tasks, StampsSuffice(t) PROVE StampsSafe'
  <2>1. /\ UNCHANGED <<stars, earned, bought, crowded>> /\ task[t] # Idle
        /\ stars[task[t].user] >= StampPrice
    BY <1>3 DEF StampsSuffice, past, At, Idle
  <2>2. \A v \in Tasks \ {t} : task'[v] = task[v]
    BY <1>3 DEF StampsSuffice, Goto, TypeOK
  <2>3. task'[t].user = task[t].user
    BY <1>3 DEF StampsSuffice, Goto, TypeOK
  <2>4. OneRequest'
    BY <2>1, <2>2, <2>3 DEF StampsSafe, OneRequest
  <2>5. PayCovered'
    BY <2>1, <2>2, <2>3 DEF StampsSafe, PayCovered, At
  <2>6. StampsPaidFor'
    BY <2>1 DEF StampsSafe, StampsPaidFor
  <2> QED
    BY <2>4, <2>5, <2>6 DEF StampsSafe
<1>4. ASSUME NEW t \in Tasks, NEW u \in Users, NEW c \in Codes, Begin(t, u, c)
      PROVE  StampsSafe'
  <2>1. UNCHANGED <<stars, earned, bought>>
    BY <1>4 DEF Begin, PublishStampCoupon, PublishGiftCoupon, RegisterCoupon, UseCoupon,
                WithdrawCoupon, NameCode, past
  <2>2. \E p \in {"check", "retire", "wrap"}, w \in Whys : Start(t, p, u, c, w)
    BY <1>4 DEF Begin, PublishStampCoupon, PublishGiftCoupon, RegisterCoupon, UseCoupon,
                WithdrawCoupon, NameCode, Whys
  <2> QED
    BY <2>1, <2>2, StartStamps
<1>5. ASSUME NEW u \in Users, EarnStar(u) PROVE StampsSafe'
  BY <1>5, EarnStamps
<1>6. CASE Crash
  BY <1>6, StampsKept DEF Crash, past
<1>7. CASE \/ \E c \in Codes : PublishCoupon(c) \/ Expire(c)
           \/ PurgeExpired \/ LoadReads \/ LoadWrites \/ Restart \/ UNCHANGED vars
  <2>1. UNCHANGED <<stars, earned, bought, crowded, task>>
    BY <1>7 DEF PublishCoupon, Expire, PurgeExpired, LoadReads, LoadWrites, Restart, vars, past
  <2> QED
    BY <2>1, StampsKept
<1> QED
  BY <1>1, <1>2, <1>3, <1>4, <1>5, <1>6, <1>7, PayStamps DEF Next, Proceed, Process

LEMMA InitStamps == Init => StampsSafe
<1> SUFFICES ASSUME Init PROVE StampsSafe
  OBVIOUS
<1>1. OneRequest /\ PayCovered
  BY DEF Init, OneRequest, PayCovered, At, Idle
<1>2. \A u \in Users : bought[u] = 0 /\ stars[u] \in Nat /\ earned[u] = stars[u]
  BY DEF Init
<1>3. ASSUME NEW u \in Users \ crowded
      PROVE  StampPrice * bought[u] + stars[u] <= earned[u]
  <2>1. bought[u] = 0 /\ stars[u] \in Nat /\ earned[u] = stars[u]
    BY <1>2
  <2>2. StampPrice * bought[u] = 0
    BY <2>1, StarAssumption
  <2> QED
    BY <2>1, <2>2
<1>4. StampsPaidFor
  BY <1>3 DEF StampsPaidFor
<1> QED
  BY <1>1, <1>4 DEF StampsSafe

\* Stamps cannot be spent twice by a user whose requests come one at a time.
THEOREM StampsArePaidFor == Spec => []StampsPaidFor
<1>1. StampsSafe => StampsPaidFor
  BY DEF StampsSafe
<1> QED
  BY <1>1, InitStamps, NextStamps, TypeCorrect, PTL DEF Spec

-----------------------------------------------------------------------------
(* Where a request has its code from.                                       *)

\* The points of a request, by what it is about.
Stages ==
    [register |-> {"check", "grant", "retire", "retiring"},
     use      |-> {"check", "retire", "retiring"},
     withdraw |-> {"retire", "retiring"},
     stamp    |-> {"check", "grant", "pay", "retire", "retiring"},
     gift     |-> {"wrap"}]

\* A request that names a code was given it by its user, who was told it; the
\* code of a stamp coupon in the making, or of a gift, was drawn for it alone,
\* and nobody was told the one of the stamp coupon.
Origin(t) == task[t] # Idle =>
    LET c == task[t].code IN
    /\ task[t].at \in Stages[task[t].why]
    /\ task[t].why \in {"register", "use", "withdraw"} => c \in known /\ task[t].user \in named[c]
    /\ task[t].why = "stamp" => c \in published /\ c \notin known
    /\ task[t].why = "gift" => c \in published

DrawnForOne ==
    \A s, t \in Tasks :
        (/\ task[s] # Idle /\ task[s].why = "stamp"
         /\ task[t] # Idle /\ task[t].why \in {"stamp", "gift"}
         /\ task[s].code = task[t].code) => s = t

OriginsKnown ==
    /\ known \subseteq published
    /\ \A u \in Users : granted[u] \subseteq known
    /\ \A t \in Tasks : Origin(t)
    /\ DrawnForOne

\* A request that goes on, with what it is about.
Onward(t) ==
    /\ task[t] # Idle /\ task'[t] # Idle
    /\ task'[t].user = task[t].user
    /\ task'[t].code = task[t].code
    /\ task'[t].why = task[t].why
    /\ task'[t].at \in Stages[task[t].why]

\* The code of a stamp coupon in the making is nobody's.
Hidden(t) == task[t] # Idle /\ task[t].why = "stamp" => task[t].code \notin known

\* Requests end, stay or go on, and nobody is told the code of a stamp coupon.
LEMMA OriginsKept ==
  ASSUME TypeOK, OriginsKnown,
         published \subseteq published', known \subseteq known', known' \subseteq published',
         \A u \in Users : granted'[u] \subseteq known',
         \A c \in Codes : named[c] \subseteq named'[c],
         \A t \in Tasks : task'[t] \in {task[t], Idle} \/ Onward(t),
         \A t \in Tasks : Hidden(t)'
  PROVE  OriginsKnown'
<1>1. ASSUME NEW t \in Tasks, task'[t] # Idle
      PROVE  /\ task[t] # Idle /\ task'[t].user = task[t].user
             /\ task'[t].code = task[t].code /\ task'[t].why = task[t].why
             /\ task'[t].at \in Stages[task[t].why]
             /\ Origin(t) /\ task[t].code \in Codes
  <2>1. task[t] # Idle /\ Origin(t)
    BY <1>1 DEF Onward, OriginsKnown
  <2>2. task[t].at # "idle"
    BY <2>1 DEF TypeOK, Busy, Idle
  <2>3. task[t].code \in Codes
    BY <2>2, TaskFacts
  <2>4. task[t].at \in Stages[task[t].why]
    BY <2>1 DEF Origin
  <2> QED
    BY <1>1, <2>1, <2>3, <2>4 DEF Onward
<1>2. ASSUME NEW t \in Tasks, task'[t] # Idle PROVE Origin(t)'
  <2> DEFINE c == task[t].code
  <2>1. /\ task[t] # Idle /\ task'[t].user = task[t].user
        /\ task'[t].code = c /\ task'[t].why = task[t].why
        /\ task'[t].at \in Stages[task'[t].why]
        /\ Origin(t) /\ c \in Codes
    BY <1>1, <1>2
  <2>3. task'[t].why \in {"register", "use", "withdraw"} =>
           c \in known' /\ task'[t].user \in named'[c]
    BY <2>1 DEF Origin
  <2>4. task'[t].why = "stamp" => c \in published' /\ c \notin known'
    BY <1>2, <2>1 DEF Origin, Hidden
  <2>5. task'[t].why = "gift" => c \in published'
    BY <2>1 DEF Origin
  <2> QED
    BY <2>1, <2>3, <2>4, <2>5 DEF Origin
<1>3. DrawnForOne'
  <2> SUFFICES ASSUME NEW s \in Tasks, NEW t \in Tasks,
                      task'[s] # Idle, task'[s].why = "stamp",
                      task'[t] # Idle, task'[t].why \in {"stamp", "gift"},
                      task'[s].code = task'[t].code
               PROVE  s = t
    BY DEF DrawnForOne
  <2>1. task[s] # Idle /\ task[s].why = "stamp" /\ task[s].code = task'[s].code
    BY <1>1
  <2>2. task[t] # Idle /\ task[t].why \in {"stamp", "gift"} /\ task[t].code = task'[t].code
    BY <1>1
  <2> QED
    BY <2>1, <2>2 DEF OriginsKnown, DrawnForOne
<1>4. \A t \in Tasks : Origin(t)'
  BY <1>2 DEF Origin
<1> QED
  BY <1>3, <1>4 DEF OriginsKnown

\* The same where nothing is published, granted, given or told.
LEMMA OriginsStay ==
  ASSUME TypeOK, OriginsKnown,
         UNCHANGED <<published, known, granted, named>>,
         \A t \in Tasks : task'[t] \in {task[t], Idle} \/ Onward(t)
  PROVE  OriginsKnown'
<1>1. ASSUME NEW t \in Tasks, task'[t] # Idle, task'[t].why = "stamp"
      PROVE  Hidden(t)'
  <2>1. task[t] # Idle /\ task[t].why = "stamp" /\ task[t].code = task'[t].code
    BY <1>1 DEF Onward
  <2>2. task[t].code \notin known
    BY <2>1 DEF OriginsKnown, Origin
  <2> QED
    BY <2>1, <2>2 DEF Hidden
<1>2. /\ known \subseteq published
      /\ \A u \in Users : granted[u] \subseteq known
  BY DEF OriginsKnown
<1> QED
  <2>1. \A t \in Tasks : Hidden(t)'
    BY <1>1 DEF Hidden
  <2> QED
    BY <1>2, <2>1, OriginsKept

LEMMA ProceedOrigins ==
  ASSUME TypeOK, OriginsKnown, NEW t \in Tasks, Proceed(t)
  PROVE  OriginsKnown'
<1>1. task[t] # Idle /\ task[t].at # "idle"
  BY DEF Proceed, WrapGift, WrapFails, CheckDone, CheckFails, GrantCoupon, StampsSuffice,
         GrantStampCoupon, GrantFails, RetireReads, RetireCommits, RetireFails, RetireUnlisted,
         At, Idle
<1>2. task[t].user \in Users /\ task[t].code \in Codes /\ task[t].why \in Whys
  BY <1>1, TaskFacts
<1>3. Origin(t)
  BY DEF OriginsKnown
<1>4. task[t].at \in Stages[task[t].why]
  BY <1>1, <1>3 DEF Origin
<1>5. ASSUME NEW s \in Tasks, task[s] # Idle, task[s].why = "stamp"
      PROVE  /\ task[s].code \notin known
             /\ task[t].why \in {"stamp", "gift"} /\ task[s].code = task[t].code => s = t
  BY <1>1, <1>5 DEF OriginsKnown, Origin, DrawnForOne
<1>6. CASE \/ WrapFails(t) \/ CheckFails(t) \/ RetireCommits(t) \/ RetireUnlisted(t)
           \/ RetireFails(t)
  <2>1. UNCHANGED <<published, known, granted, named>> /\ End(t)
    BY <1>6 DEF WrapFails, CheckFails, RetireCommits, RetireFails, RetireUnlisted,
                past, lists
  <2>2. \A s \in Tasks : task'[s] \in {task[s], Idle}
    BY <2>1 DEF End, TypeOK
  <2> QED
    BY <2>1, <2>2, OriginsStay
<1>7. CASE CheckDone(t) \/ StampsSuffice(t) \/ GrantFails(t)
  <2>1. UNCHANGED <<published, known, granted, named>>
    BY <1>7 DEF CheckDone, StampsSuffice, GrantFails, past, lists
  <2>2. \A s \in Tasks \ {t} : task'[s] = task[s]
    BY <1>7 DEF CheckDone, StampsSuffice, GrantFails, Goto, TypeOK
  <2>3. ASSUME NEW p \in {"grant", "pay", "retire"}, Goto(t, p), p \in Stages[task[t].why]
        PROVE  Onward(t)
    BY <1>1, <2>3 DEF Goto, Onward, TypeOK, Idle
  <2>4. ASSUME CheckDone(t) PROVE Onward(t)
    <3>1. task[t].at = "check"
      BY <2>4 DEF CheckDone, At
    <3>2. CASE task[t].why \in {"register", "stamp"}
      <4>1. Goto(t, "grant")
        BY <2>4, <3>2 DEF CheckDone
      <4>2. "grant" \in Stages[task[t].why]
        BY <3>2 DEF Stages
      <4> QED
        BY <2>3, <4>1, <4>2
    <3>3. CASE task[t].why = "use"
      <4>1. Goto(t, "retire")
        BY <2>4, <3>3 DEF CheckDone
      <4>2. "retire" \in Stages[task[t].why]
        BY <3>3 DEF Stages
      <4> QED
        BY <2>3, <4>1, <4>2
    <3>4. task[t].why \notin {"withdraw", "gift"}
      BY <1>4, <3>1 DEF Stages
    <3> QED
      BY <1>2, <3>2, <3>3, <3>4 DEF Whys
  <2>5. ASSUME StampsSuffice(t) PROVE Onward(t)
    <3>1. task[t].at = "grant" /\ task[t].why = "stamp" /\ Goto(t, "pay")
      BY <2>5 DEF StampsSuffice, At
    <3>2. "pay" \in Stages[task[t].why]
      BY <3>1 DEF Stages
    <3> QED
      BY <2>3, <3>1, <3>2
  <2>6. ASSUME GrantFails(t) PROVE Onward(t)
    <3>1. task[t].at \in {"grant", "pay"} /\ Goto(t, "retire")
      BY <2>6 DEF GrantFails, At
    <3>2. task[t].why \in {"register", "stamp"}
      BY <1>2, <1>4, <3>1 DEF Stages, Whys
    <3>3. "retire" \in Stages[task[t].why]
      BY <3>2 DEF Stages
    <3> QED
      BY <2>3, <3>1, <3>3
  <2>7. Onward(t)
    BY <1>7, <2>4, <2>5, <2>6
  <2> QED
    BY <2>1, <2>2, <2>7, OriginsStay
<1>8. CASE RetireReads(t)
  <2>1. UNCHANGED <<published, known, granted, named>>
    BY <1>8 DEF RetireReads, past, lists
  <2>2. \A s \in Tasks \ {t} : task'[s] = task[s]
    BY <1>8 DEF RetireReads, TypeOK
  <2>3. /\ task'[t].at = "retiring" /\ task'[t].user = task[t].user
        /\ task'[t].code = task[t].code /\ task'[t].why = task[t].why /\ task[t].at = "retire"
    BY <1>8 DEF RetireReads, TypeOK, At
  <2>4. "retiring" \in Stages[task[t].why]
    BY <1>2, <1>4, <2>3 DEF Stages, Whys
  <2>5. Onward(t)
    BY <1>1, <2>3, <2>4 DEF Onward, Idle
  <2> QED
    BY <2>1, <2>2, <2>5, OriginsStay
<1>9. CASE GrantCoupon(t)
  <2> DEFINE c == task[t].code
  <2>1. /\ UNCHANGED <<published, known, named>> /\ End(t)
        /\ granted' = [granted EXCEPT ![task[t].user] = @ \cup {c}]
        /\ task[t].why = "register"
    BY <1>9 DEF GrantCoupon
  <2>2. c \in known
    BY <1>1, <1>3, <2>1 DEF Origin
  <2>3. \A s \in Tasks : task'[s] \in {task[s], Idle}
    BY <2>1 DEF End, TypeOK
  <2>4. \A u \in Users : granted'[u] \subseteq known'
    BY <1>2, <2>1, <2>2 DEF OriginsKnown, TypeOK, Lists
  <2>5. \A s \in Tasks : Hidden(s)'
    <3> SUFFICES ASSUME NEW s \in Tasks, task'[s] # Idle, task'[s].why = "stamp"
                 PROVE  task'[s].code \notin known'
      BY DEF Hidden
    <3>1. task'[s] = task[s]
      BY <2>3
    <3> QED
      BY <1>5, <2>1, <3>1
  <2>6. known \subseteq published
    BY DEF OriginsKnown
  <2> QED
    BY <2>1, <2>3, <2>4, <2>5, <2>6, OriginsKept
<1>10. CASE GrantStampCoupon(t)
  <2> DEFINE c == task[t].code
  <2>1. /\ UNCHANGED <<published, named>> /\ End(t) /\ known' = known \cup {c}
        /\ granted' = [granted EXCEPT ![task[t].user] = @ \cup {c}]
        /\ At(t, "pay")
    BY <1>10 DEF GrantStampCoupon
  <2>2. task[t].why = "stamp" /\ c \in published
    <3>1. task[t].why = "stamp"
      BY <1>2, <1>4, <2>1 DEF At, Stages, Whys
    <3> QED
      BY <1>1, <1>3, <3>1 DEF Origin
  <2>3. \A s \in Tasks : task'[s] = IF s = t THEN Idle ELSE task[s]
    BY <2>1 DEF End, TypeOK
  <2>4. \A u \in Users : granted'[u] \subseteq known'
    BY <1>2, <2>1 DEF OriginsKnown, TypeOK, Lists
  <2>5. \A s \in Tasks : Hidden(s)'
    <3> SUFFICES ASSUME NEW s \in Tasks, task'[s] # Idle, task'[s].why = "stamp"
                 PROVE  task'[s].code \notin known'
      BY DEF Hidden
    <3>1. task'[s] = task[s] /\ s # t
      BY <2>3
    <3>2. task[s].code \notin known /\ task[s].code # c
      BY <1>5, <2>2, <3>1
    <3> QED
      BY <2>1, <3>1, <3>2
  <2>6. known' \subseteq published'
    BY <2>1, <2>2 DEF OriginsKnown
  <2>7. \A s \in Tasks : task'[s] \in {task[s], Idle}
    BY <2>3
  <2> QED
    BY <2>1, <2>4, <2>5, <2>6, <2>7, OriginsKept
<1>11. CASE WrapGift(t)
  <2> DEFINE c == task[t].code
  <2>1. /\ UNCHANGED <<published, granted, named>> /\ End(t) /\ known' = known \cup {c}
        /\ At(t, "wrap")
    BY <1>11 DEF WrapGift
  <2>2. task[t].why = "gift" /\ c \in published
    <3>1. task[t].why = "gift"
      BY <1>2, <1>4, <2>1 DEF At, Stages, Whys
    <3> QED
      BY <1>1, <1>3, <3>1 DEF Origin
  <2>3. \A s \in Tasks : task'[s] = IF s = t THEN Idle ELSE task[s]
    BY <2>1 DEF End, TypeOK
  <2>4. \A s \in Tasks : Hidden(s)'
    <3> SUFFICES ASSUME NEW s \in Tasks, task'[s] # Idle, task'[s].why = "stamp"
                 PROVE  task'[s].code \notin known'
      BY DEF Hidden
    <3>1. task'[s] = task[s] /\ s # t
      BY <2>3
    <3>2. task[s].code \notin known /\ task[s].code # c
      BY <1>5, <2>2, <3>1
    <3> QED
      BY <2>1, <3>1, <3>2
  <2>5. known' \subseteq published'
    BY <2>1, <2>2 DEF OriginsKnown
  <2>6. \A s \in Tasks : task'[s] \in {task[s], Idle}
    BY <2>3
  <2>7. \A v \in Users : granted'[v] \subseteq known'
    BY <2>1 DEF OriginsKnown
  <2> QED
    BY <2>1, <2>4, <2>5, <2>6, <2>7, OriginsKept
<1> QED
  BY <1>6, <1>7, <1>8, <1>9, <1>10, <1>11 DEF Proceed

\* A request begins: with a code it was told, or drew.
LEMMA BeginOrigins ==
  ASSUME TypeOK, OriginsKnown, NEW t \in Tasks, NEW u \in Users, NEW c \in Codes, Begin(t, u, c)
  PROVE  OriginsKnown'
<1>1. UNCHANGED <<known, granted>> /\ task[t] = Idle
  BY DEF Begin, PublishStampCoupon, PublishGiftCoupon, RegisterCoupon, UseCoupon,
         WithdrawCoupon, NameCode, past, lists, Start
<1>2. /\ published \subseteq published'
      /\ \A d \in Codes : named[d] \subseteq named'[d]
  BY DEF Begin, PublishStampCoupon, PublishGiftCoupon, RegisterCoupon, UseCoupon,
         WithdrawCoupon, NameCode, past, lists, CreateCoupon, TypeOK
<1>3. \A s \in Tasks \ {t} : task'[s] = task[s]
  BY DEF Begin, PublishStampCoupon, PublishGiftCoupon, RegisterCoupon, UseCoupon,
         WithdrawCoupon, NameCode, Start, TypeOK
<1>4. ASSUME NEW s \in Tasks \ {t} PROVE Origin(s)'
  <2>1. CASE task[s] = Idle
    BY <1>3, <2>1 DEF Origin
  <2>2. CASE task[s] # Idle
    <3>1. task[s].at # "idle" /\ Origin(s)
      BY <2>2 DEF OriginsKnown, TypeOK, Busy, Idle
    <3>2. task[s].code \in Codes
      BY <3>1, TaskFacts
    <3>3. task'[s] = task[s]
      BY <1>3
    <3> QED
      BY <1>1, <1>2, <2>2, <3>1, <3>2, <3>3 DEF Origin
  <2> QED
    BY <2>1, <2>2
<1>5. \A s \in Tasks : task[s] # Idle /\ task[s].why \in {"stamp", "gift"} =>
         task[s].code \in published
  BY DEF OriginsKnown, Origin
<1>6. known' \subseteq published' /\ \A v \in Users : granted'[v] \subseteq known'
  BY <1>1, <1>2 DEF OriginsKnown
<1>7. CASE PublishStampCoupon(t, u, c)
  <2>1. c \notin published /\ c \in published'
    BY <1>7 DEF PublishStampCoupon, CreateCoupon
  <2>2. task'[t].at = "check" /\ task'[t].code = c /\ task'[t].why = "stamp"
    BY <1>7 DEF PublishStampCoupon, Start, TypeOK
  <2>3. c \notin known'
    BY <1>1, <2>1 DEF OriginsKnown
  <2>4. Origin(t)'
    BY <2>1, <2>2, <2>3 DEF Origin, Stages
  <2>5. DrawnForOne'
    BY <1>3, <1>5, <2>1, <2>2 DEF OriginsKnown, DrawnForOne
  <2> QED
    BY <1>4, <1>6, <2>4, <2>5 DEF OriginsKnown
<1>8. CASE PublishGiftCoupon(t, u, c)
  <2>1. c \notin published /\ c \in published'
    BY <1>8 DEF PublishGiftCoupon, CreateCoupon
  <2>2. task'[t].at = "wrap" /\ task'[t].code = c /\ task'[t].why = "gift"
    BY <1>8 DEF PublishGiftCoupon, Start, TypeOK
  <2>3. Origin(t)'
    BY <2>1, <2>2 DEF Origin, Stages, At
  <2>4. DrawnForOne'
    BY <1>3, <1>5, <2>1, <2>2 DEF OriginsKnown, DrawnForOne
  <2> QED
    BY <1>4, <1>6, <2>3, <2>4 DEF OriginsKnown
<1>9. ASSUME NEW p, NEW w \in {"register", "use", "withdraw"}, p \in Stages[w],
             NameCode(t, u, c, p, w)
      PROVE  OriginsKnown'
  <2>1. c \in known' /\ u \in named'[c]
    BY <1>9 DEF NameCode, TypeOK
  <2>2. task'[t].at = p /\ task'[t].code = c /\ task'[t].why = w /\ task'[t].user = u
    BY <1>9 DEF NameCode, Start, TypeOK
  <2>3. Origin(t)'
    BY <1>9, <2>1, <2>2 DEF Origin
  <2>4. DrawnForOne'
    BY <1>3, <2>2 DEF OriginsKnown, DrawnForOne
  <2> QED
    BY <1>4, <1>6, <2>3, <2>4 DEF OriginsKnown
<1>10. CASE RegisterCoupon(t, u, c) \/ UseCoupon(t, u, c) \/ WithdrawCoupon(t, u, c)
  BY <1>9, <1>10 DEF RegisterCoupon, UseCoupon, WithdrawCoupon, Stages
<1> QED
  BY <1>7, <1>8, <1>10 DEF Begin

LEMMA NextOrigins == TypeOK /\ OriginsKnown /\ [Next]_vars => OriginsKnown'
<1> SUFFICES ASSUME TypeOK, OriginsKnown, [Next]_vars PROVE OriginsKnown'
  OBVIOUS
<1>1. ASSUME NEW c \in Codes, PublishCoupon(c) PROVE OriginsKnown'
  <2>1. /\ c \notin published /\ published' = published \cup {c} /\ known' = known \cup {c}
        /\ UNCHANGED <<granted, named, task>>
    BY <1>1 DEF PublishCoupon, CreateCoupon, lists
  <2>2. \A t \in Tasks : Hidden(t)'
    <3> SUFFICES ASSUME NEW t \in Tasks, task'[t] # Idle, task'[t].why = "stamp"
                 PROVE  task'[t].code \notin known'
      BY DEF Hidden
    <3>1. task[t].code \in published /\ task[t].code \notin known
      BY <2>1 DEF OriginsKnown, Origin
    <3> QED
      BY <2>1, <3>1
  <2>3. known' \subseteq published' /\ \A u \in Users : granted'[u] \subseteq known'
    BY <2>1 DEF OriginsKnown
  <2> QED
    BY <2>1, <2>2, <2>3, OriginsKept
<1>2. CASE Crash
  BY <1>2, OriginsStay DEF Crash, past, lists
<1>3. CASE \/ \E c \in Codes : Expire(c)
           \/ \E u \in Users : EarnStar(u)
           \/ PurgeExpired \/ LoadReads \/ LoadWrites \/ Restart \/ UNCHANGED vars
  <2>1. UNCHANGED <<published, known, granted, named, task>>
    BY <1>3 DEF Expire, EarnStar, PurgeExpired, LoadReads, LoadWrites, Restart, vars, past, lists
  <2> QED
    BY <2>1, OriginsStay
<1>4. ASSUME NEW t \in Tasks, \/ Proceed(t) \/ \E u \in Users, c \in Codes : Begin(t, u, c)
      PROVE  OriginsKnown'
  BY <1>4, ProceedOrigins, BeginOrigins
<1> QED
  BY <1>1, <1>2, <1>3, <1>4 DEF Next, Process

LEMMA InitOrigins == Init => OriginsKnown
  BY DEF Init, OriginsKnown, Origin, DrawnForOne, Idle

-----------------------------------------------------------------------------
(* The box of a user whose requests come one at a time.                     *)

\* Somebody else may have done something with the code.
Shared(u, c) == c \in expired \cup unlisted \/ ~(named[c] \subseteq {u})

\* The request of such a user came after the start; it writes the list as it
\* is, and what it is about to grant can be used.
RequestCurrent(t) == (task[t] # Idle /\ task[t].user \notin crowded) =>
    /\ boot.at = "done"
    /\ At(t, "retiring") => task[t].list = held[task[t].user]
    /\ At(t, "grant") \/ At(t, "pay") =>
          task[t].code \in coupons \/ Shared(task[t].user, task[t].code)

\* What the start is about to write leaves out expired codes only.
StartCurrent == boot.at = "writing" =>
    \A u \in Users \ crowded : \A c \in Codes :
        /\ c \in boot.lists[u] => c \in held[u]
        /\ c \in held[u] => c \in boot.lists[u] \/ c \in expired

\* The box has an entry for a code granted to the user as long as it has a row.
BoxTrue(u, c) == c \in granted[u] /\ ~Shared(u, c) => (c \in held[u] <=> c \in coupons)

BoxesCurrent ==
    /\ \A t \in Tasks : RequestCurrent(t)
    /\ StartCurrent
    /\ \A u \in Users \ crowded, c \in Codes : BoxTrue(u, c)

\* What is shared stays so.
Growing ==
    /\ expired \subseteq expired' /\ unlisted \subseteq unlisted' /\ crowded \subseteq crowded'
    /\ \A c \in Codes : named[c] \subseteq named'[c]

LEMMA SharedStays ==
  ASSUME Growing, NEW u \in Users, NEW c \in Codes, Shared(u, c)
  PROVE  Shared(u, c)'
  BY DEF Growing, Shared

LEMMA RequestStays ==
  ASSUME TypeOK, Growing, NEW t \in Tasks, RequestCurrent(t), task'[t] = task[t],
         boot.at = "done" => boot'.at = "done",
         \A u \in Users, c \in Codes :
            (task[t] # Idle /\ u \notin crowded /\ task[t].user = u /\ task[t].code = c) =>
               /\ held'[u] = held[u]
               /\ c \in coupons => c \in coupons' \/ Shared(u, c)'
  PROVE  RequestCurrent(t)'
<1> SUFFICES ASSUME task[t] # Idle, task[t].user \notin crowded'
             PROVE  RequestCurrent(t)'
  BY DEF RequestCurrent
<1>1. task[t].at # "idle"
  BY DEF TypeOK, Busy, Idle
<1>2. PICK u \in Users : task[t].user = u
  BY <1>1, TaskFacts
<1>3. PICK c \in Codes : task[t].code = c
  BY <1>1, TaskFacts
<1>4. u \notin crowded
  BY <1>2 DEF Growing
<1>5. held'[u] = held[u] /\ (c \in coupons => c \in coupons' \/ Shared(u, c)')
  BY <1>2, <1>3, <1>4
<1>6. /\ boot'.at = "done"
      /\ At(t, "retiring") => task[t].list = held[u]
      /\ At(t, "grant") \/ At(t, "pay") => c \in coupons \/ Shared(u, c)
  BY <1>2, <1>3, <1>4 DEF RequestCurrent
<1>7. At(t, "grant") \/ At(t, "pay") => c \in coupons' \/ Shared(u, c)'
  BY <1>5, <1>6, SharedStays
<1> QED
  BY <1>2, <1>3, <1>5, <1>6, <1>7 DEF RequestCurrent, At, Shared

LEMMA BoxStays ==
  ASSUME Growing, NEW u \in Users, NEW c \in Codes, BoxTrue(u, c),
         c \in held'[u] <=> c \in held[u], c \in granted'[u] => c \in granted[u],
         (c \in coupons' <=> c \in coupons) \/ c \notin granted[u] \/ Shared(u, c)'
  PROVE  BoxTrue(u, c)'
<1>1. ~Shared(u, c)' => ~Shared(u, c)
  BY SharedStays
<1> QED
  BY <1>1 DEF BoxTrue

\* A step that grants nothing, writes no list, and deletes rows of shared
\* codes only.
LEMMA BoxesStay ==
  ASSUME TypeOK, OriginsKnown, BoxesCurrent, Growing, UNCHANGED <<held, granted>>,
         StartCurrent',
         \A t \in Tasks : \/ task'[t] = task[t] /\ (boot.at = "done" => boot'.at = "done")
                          \/ RequestCurrent(t)',
         \A c \in coupons' : c \in coupons \/ c \notin published,
         \A c \in coupons : c \in coupons' \/ \A u \in Users : Shared(u, c)'
  PROVE  BoxesCurrent'
<1>1. ASSUME NEW t \in Tasks PROVE RequestCurrent(t)'
  <2> SUFFICES ASSUME task'[t] = task[t], boot.at = "done" => boot'.at = "done"
               PROVE  RequestCurrent(t)'
    OBVIOUS
  <2>1. RequestCurrent(t)
    BY DEF BoxesCurrent
  <2> QED
    BY <2>1, RequestStays
<1>2. ASSUME NEW u \in Users \ crowded', NEW c \in Codes PROVE BoxTrue(u, c)'
  <2>1. u \notin crowded /\ BoxTrue(u, c)
    BY DEF Growing, BoxesCurrent
  <2>2. c \in coupons' /\ c \notin coupons => c \notin granted[u]
    BY DEF OriginsKnown
  <2> QED
    BY <2>1, <2>2, BoxStays
<1> QED
  BY <1>1, <1>2 DEF BoxesCurrent

\* What the start is about to write stays right while no list is written.
LEMMA StartStays ==
  ASSUME Growing, StartCurrent, UNCHANGED held,
         boot'.at = "writing" => boot.at = "writing" /\ boot'.lists = boot.lists
  PROVE  StartCurrent'
  BY DEF Growing, StartCurrent

\* The user's coupon is pushed to the list and granted.
LEMMA GrantBoxes ==
  ASSUME TypeOK, OneRequest, OriginsKnown, BoxesCurrent,
         NEW t \in Tasks, At(t, "grant") \/ At(t, "pay"), End(t),
         NEW u \in Users, NEW d \in Codes, task[t].user = u, task[t].code = d,
         held' = [held EXCEPT ![u] = @ \cup {d}],
         granted' = [granted EXCEPT ![u] = @ \cup {d}],
         UNCHANGED <<coupons, expired, unlisted, named, crowded, boot>>
  PROVE  BoxesCurrent'
<1>1. task[t] # Idle /\ RequestCurrent(t)
  BY DEF At, Idle, BoxesCurrent
<1>2. Growing
  BY DEF Growing
<1>3. \A s \in Tasks : task'[s] = IF s = t THEN Idle ELSE task[s]
  BY DEF End, TypeOK
<1>4. \A v \in Users : /\ held'[v] = IF v = u THEN held[v] \cup {d} ELSE held[v]
                       /\ granted'[v] = IF v = u THEN granted[v] \cup {d} ELSE granted[v]
  BY DEF TypeOK, Lists
<1>5. u \notin crowded => boot.at = "done" /\ (d \in coupons \/ Shared(u, d))
  BY <1>1 DEF RequestCurrent
<1>6. ASSUME NEW s \in Tasks PROVE RequestCurrent(s)'
  <2>1. CASE s = t
    BY <1>3, <2>1 DEF RequestCurrent
  <2>2. CASE s # t
    <3>1. task'[s] = task[s] /\ RequestCurrent(s)
      BY <1>3, <2>2 DEF BoxesCurrent
    <3>2. \A v \in Users : task[s] # Idle /\ v \notin crowded /\ task[s].user = v => v # u
      BY <1>1, <2>2 DEF OneRequest
    <3>3. \A v \in Users : v # u => held'[v] = held[v]
      BY <1>4
    <3> QED
      BY <1>2, <3>1, <3>2, <3>3, RequestStays
  <2> QED
    BY <2>1, <2>2
<1>7. StartCurrent'
  <2> SUFFICES ASSUME boot.at = "writing", NEW v \in Users \ crowded, NEW c \in Codes
               PROVE  /\ c \in boot.lists[v] => c \in held'[v]
                      /\ c \in held'[v] => c \in boot.lists[v] \/ c \in expired
    BY DEF StartCurrent
  <2>1. v # u
    BY <1>5
  <2> QED
    BY <1>4, <2>1 DEF BoxesCurrent, StartCurrent
<1>8. ASSUME NEW v \in Users \ crowded', NEW c \in Codes PROVE BoxTrue(v, c)'
  <2>1. BoxTrue(v, c)
    BY DEF BoxesCurrent
  <2>2. CASE v = u /\ c = d
    <3>1. c \in held'[v]
      BY <1>4, <2>2
    <3>2. c \in coupons' \/ Shared(v, c)'
      BY <1>2, <1>5, <2>2, SharedStays
    <3> QED
      BY <3>1, <3>2 DEF BoxTrue
  <2>3. CASE ~(v = u /\ c = d)
    <3>1. (c \in held'[v] <=> c \in held[v]) /\ (c \in granted'[v] => c \in granted[v])
      BY <1>4, <2>3
    <3> QED
      BY <1>2, <2>1, <3>1, BoxStays
  <2> QED
    BY <2>2, <2>3
<1> QED
  BY <1>6, <1>7, <1>8 DEF BoxesCurrent

\* The row is deleted and the list written, as it was read, without it.
LEMMA RetireBoxes ==
  ASSUME TypeOK, OneRequest, OriginsKnown, BoxesCurrent, NEW t \in Tasks, RetireCommits(t)
  PROVE  BoxesCurrent'
<1>1. /\ task[t] # Idle /\ task[t].at = "retiring" /\ task[t].why \in Whys
      /\ RequestCurrent(t) /\ Origin(t)
  BY TaskFacts DEF RetireCommits, At, Idle, BoxesCurrent, OriginsKnown
<1>2. PICK u \in Users : task[t].user = u
  BY <1>1, TaskFacts
<1>3. PICK d \in Codes : task[t].code = d
  BY <1>1, TaskFacts
<1>4. /\ coupons' = coupons \ {d} /\ held' = [held EXCEPT ![u] = task[t].list \ {d}]
      /\ UNCHANGED <<expired, unlisted, named, granted, crowded, boot>> /\ End(t)
  BY <1>2, <1>3 DEF RetireCommits
<1>5. Growing
  BY <1>4 DEF Growing
<1>6. \A s \in Tasks : task'[s] = IF s = t THEN Idle ELSE task[s]
  BY <1>4 DEF End, TypeOK
<1>7. \A v \in Users : held'[v] = IF v = u THEN task[t].list \ {d} ELSE held[v]
  BY <1>4 DEF TypeOK, Lists
<1>8. u \notin crowded => boot.at = "done" /\ task[t].list = held[u]
  BY <1>1, <1>2 DEF RequestCurrent, At
<1>9. \/ task[t].why = "stamp" /\ d \notin known
      \/ task[t].why # "stamp" /\ d \in known /\ u \in named[d]
  BY <1>1, <1>2, <1>3 DEF Origin, Stages, Whys
<1>10. ASSUME NEW s \in Tasks PROVE RequestCurrent(s)'
  <2>1. CASE s = t
    BY <1>6, <2>1 DEF RequestCurrent
  <2>2. CASE s # t
    <3>1. task'[s] = task[s] /\ RequestCurrent(s)
      BY <1>6, <2>2 DEF BoxesCurrent
    <3>2. CASE task[s] = Idle \/ task[s].user \in crowded
      BY <1>4, <3>1, <3>2 DEF RequestCurrent
    <3>4. CASE /\ task[s] # Idle /\ task[s].user \notin crowded
               /\ ~(At(s, "grant") \/ At(s, "pay"))
      <4>1. task[s].user \in Users /\ task[s].user # u
        BY <1>1, <1>2, <2>2, <3>4, TaskFacts DEF OneRequest, TypeOK, Busy, Idle
      <4>2. held'[task[s].user] = held[task[s].user]
        BY <1>7, <4>1
      <4>3. ~At(s, "grant")' /\ ~At(s, "pay")' /\ (At(s, "retiring")' => At(s, "retiring"))
        BY <3>1, <3>4 DEF At
      <4>4. boot.at = "done" /\ (At(s, "retiring") => task[s].list = held[task[s].user])
        BY <3>1, <3>4 DEF RequestCurrent
      <4> QED
        BY <1>4, <3>1, <4>2, <4>3, <4>4 DEF RequestCurrent
    <3>3. CASE task[s] # Idle /\ task[s].user \notin crowded /\ (At(s, "grant") \/ At(s, "pay"))
      <4>1. task[s].at # "idle" /\ task[s].at \in {"grant", "pay"} /\ Origin(s)
        BY <3>3 DEF At, OriginsKnown
      <4>2. task[s].why \in Whys /\ task[s].at \in Stages[task[s].why]
        BY <3>3, <4>1, TaskFacts DEF Origin
      <4>3. task[s].why \in {"register", "stamp"}
        BY <4>1, <4>2 DEF Stages, Whys
      <4>4. ASSUME NEW v \in Users, NEW c \in Codes, task[s].user = v, task[s].code = c
            PROVE  /\ held'[v] = held[v]
                   /\ c \in coupons => c \in coupons' \/ Shared(v, c)'
        <5>1. v # u
          BY <1>1, <1>2, <2>2, <3>3, <4>4 DEF OneRequest
        <5>2. CASE c # d
          BY <1>4, <1>7, <5>1, <5>2
        <5>3. CASE c = d
          <6>1. CASE task[s].why = "register"
            <7>1. d \in known
              BY <3>3, <4>1, <4>4, <5>3, <6>1 DEF Origin
            <7>2. u \in named[d]
              BY <1>9, <7>1
            <7>3. Shared(v, c)'
              BY <1>4, <5>1, <5>3, <7>2 DEF Shared
            <7> QED
              BY <1>7, <5>1, <7>3
          <6>2. CASE task[s].why = "stamp"
            <7>1. d \notin known
              BY <3>3, <4>1, <4>4, <5>3, <6>2 DEF Origin
            <7>2. task[t].why = "stamp"
              BY <1>9, <7>1
            <7>3. s = t
              BY <1>1, <1>3, <3>3, <4>4, <5>3, <6>2, <7>2 DEF OriginsKnown, DrawnForOne
            <7> QED
              BY <2>2, <7>3
          <6> QED
            BY <4>3, <6>1, <6>2
        <5> QED
          BY <5>2, <5>3
      <4> QED
        BY <1>4, <1>5, <3>1, <4>4, RequestStays
    <3> QED
      BY <3>2, <3>3, <3>4
  <2> QED
    BY <2>1, <2>2
<1>11. StartCurrent'
  <2> SUFFICES ASSUME boot.at = "writing", NEW v \in Users \ crowded, NEW c \in Codes
               PROVE  /\ c \in boot.lists[v] => c \in held'[v]
                      /\ c \in held'[v] => c \in boot.lists[v] \/ c \in expired
    BY <1>4 DEF StartCurrent
  <2>1. v # u
    BY <1>8
  <2> QED
    BY <1>7, <2>1 DEF BoxesCurrent, StartCurrent
<1>12. ASSUME NEW v \in Users \ crowded', NEW c \in Codes PROVE BoxTrue(v, c)'
  <2>1. BoxTrue(v, c) /\ v \notin crowded
    BY <1>4 DEF BoxesCurrent
  <2>2. CASE c # d
    <3>1. c \in held'[v] <=> c \in held[v]
      BY <1>7, <1>8, <2>1, <2>2
    <3> QED
      BY <1>4, <1>5, <2>1, <2>2, <3>1, BoxStays
  <2>3. CASE c = d /\ v = u
    BY <1>4, <1>7, <2>3 DEF BoxTrue
  <2>4. CASE c = d /\ v # u
    <3>1. c \notin granted[v] \/ Shared(v, c)'
      BY <1>4, <1>9, <2>4 DEF OriginsKnown, Shared
    <3>2. held'[v] = held[v] /\ granted'[v] = granted[v]
      BY <1>4, <1>7, <2>4
    <3> QED
      BY <1>5, <2>1, <3>1, <3>2, BoxStays
  <2> QED
    BY <2>2, <2>3, <2>4
<1> QED
  BY <1>10, <1>11, <1>12 DEF BoxesCurrent

LEMMA ProceedBoxes ==
  ASSUME TypeOK, OneRequest, OriginsKnown, BoxesCurrent, NEW t \in Tasks, Proceed(t)
  PROVE  BoxesCurrent'
<1>1. task[t] # Idle /\ task[t].at # "idle"
  BY DEF Proceed, WrapGift, WrapFails, CheckDone, CheckFails, GrantCoupon, StampsSuffice,
         GrantStampCoupon, GrantFails, RetireReads, RetireCommits, RetireFails, RetireUnlisted,
         At, Idle
<1>2. task[t].user \in Users /\ task[t].code \in Codes /\ task[t].why \in Whys
  BY <1>1, TaskFacts
<1>3. Origin(t) /\ RequestCurrent(t) /\ StartCurrent
  BY DEF OriginsKnown, BoxesCurrent
<1>4. CASE \/ WrapGift(t) \/ WrapFails(t) \/ CheckFails(t) \/ RetireFails(t)
  <2>1. UNCHANGED <<coupons, held, unlisted, granted, named, expired, crowded, boot>> /\ End(t)
    BY <1>4 DEF WrapGift, WrapFails, CheckFails, RetireFails, past, lists
  <2>2. Growing
    BY <2>1 DEF Growing
  <2>3. \A s \in Tasks : task'[s] \in {task[s], Idle}
    BY <2>1 DEF End, TypeOK
  <2>4. \A s \in Tasks : task'[s] = task[s] \/ RequestCurrent(s)'
    BY <2>3 DEF RequestCurrent
  <2>5. StartCurrent'
    BY <1>3, <2>1, <2>2, StartStays
  <2> QED
    BY <2>1, <2>2, <2>4, <2>5, BoxesStay
<1>5. CASE CheckDone(t) \/ StampsSuffice(t) \/ GrantFails(t) \/ RetireReads(t)
  <2>1. UNCHANGED <<coupons, held, unlisted, granted, named, expired, crowded, boot>>
    BY <1>5 DEF CheckDone, StampsSuffice, GrantFails, RetireReads, past, lists
  <2>2. Growing
    BY <2>1 DEF Growing
  <2>3. \A s \in Tasks \ {t} : task'[s] = task[s]
    BY <1>5 DEF CheckDone, StampsSuffice, GrantFails, RetireReads, Goto, TypeOK
  <2>4. task'[t].user = task[t].user /\ task'[t].code = task[t].code
    BY <1>5 DEF CheckDone, StampsSuffice, GrantFails, RetireReads, Goto, TypeOK
  <2>5. task[t].user \notin crowded => boot.at = "done"
    BY <1>1, <1>3 DEF RequestCurrent
  <2>6. task'[t].at = "retiring" => task'[t].list = held[task[t].user]
    BY <1>5 DEF CheckDone, StampsSuffice, GrantFails, RetireReads, Goto, TypeOK
  <2>7. CASE CheckDone(t) \/ GrantFails(t) \/ RetireReads(t)
    <3>1. task'[t].at \in {"grant", "pay"} => task[t].code \in coupons
      BY <2>7 DEF CheckDone, GrantFails, RetireReads, Goto, TypeOK
    <3>2. RequestCurrent(t)'
      BY <2>1, <2>4, <2>5, <2>6, <3>1 DEF RequestCurrent, At
    <3>3. StartCurrent'
      BY <1>3, <2>1, <2>2, StartStays
    <3> QED
      BY <2>1, <2>2, <2>3, <3>2, <3>3, BoxesStay
  <2>8. CASE StampsSuffice(t)
    <3>1. At(t, "grant")
      BY <2>8 DEF StampsSuffice
    <3>2. task[t].user \notin crowded =>
             task[t].code \in coupons \/ Shared(task[t].user, task[t].code)
      BY <1>1, <1>3, <3>1 DEF RequestCurrent
    <3>3. RequestCurrent(t)'
      BY <2>1, <2>4, <2>5, <2>6, <3>2 DEF RequestCurrent, At, Shared
    <3>4. StartCurrent'
      BY <1>3, <2>1, <2>2, StartStays
    <3> QED
      BY <2>1, <2>2, <2>3, <3>3, <3>4, BoxesStay
  <2> QED
    BY <1>5, <2>7, <2>8
<1>6. CASE GrantCoupon(t)
  BY <1>2, <1>6, GrantBoxes DEF GrantCoupon
<1>7. CASE GrantStampCoupon(t)
  BY <1>2, <1>7, GrantBoxes DEF GrantStampCoupon
<1>8. CASE RetireCommits(t)
  BY <1>8, RetireBoxes
<1>9. CASE RetireUnlisted(t)
  <2> DEFINE d == task[t].code
  <2>1. /\ UNCHANGED <<held, granted, named, expired, crowded, boot>> /\ End(t)
        /\ coupons' = coupons \ {d} /\ unlisted' = unlisted \cup {d}
    BY <1>9 DEF RetireUnlisted, lists
  <2>2. Growing
    BY <2>1 DEF Growing
  <2>3. \A s \in Tasks : task'[s] \in {task[s], Idle}
    BY <2>1 DEF End, TypeOK
  <2>4. \A s \in Tasks : task'[s] = task[s] \/ RequestCurrent(s)'
    BY <2>3 DEF RequestCurrent
  <2>5. StartCurrent'
    BY <1>3, <2>1, <2>2, StartStays
  <2>6. \A c \in coupons : c \in coupons' \/ \A u \in Users : Shared(u, c)'
    BY <2>1 DEF Shared
  <2> QED
    BY <2>1, <2>2, <2>4, <2>5, <2>6, BoxesStay
<1> QED
  BY <1>4, <1>5, <1>6, <1>7, <1>8, <1>9 DEF Proceed

LEMMA BeginBoxes ==
  ASSUME TypeOK, OriginsKnown, BoxesCurrent, NEW t \in Tasks, NEW u \in Users, NEW c \in Codes,
         Begin(t, u, c)
  PROVE  BoxesCurrent'
<1>1. /\ UNCHANGED <<held, unlisted, granted, expired, boot>>
      /\ \A d \in Codes : named[d] \subseteq named'[d]
  BY DEF Begin, PublishStampCoupon, PublishGiftCoupon, RegisterCoupon, UseCoupon,
         WithdrawCoupon, NameCode, CreateCoupon, past, lists, TypeOK
<1>2. UNCHANGED coupons \/ CreateCoupon(c)
  BY DEF Begin, PublishStampCoupon, PublishGiftCoupon, RegisterCoupon, UseCoupon,
         WithdrawCoupon, NameCode
<1>3. PICK p \in {"check", "retire", "wrap"}, w \in Whys : Start(t, p, u, c, w)
  BY DEF Begin, PublishStampCoupon, PublishGiftCoupon, RegisterCoupon, UseCoupon,
         WithdrawCoupon, NameCode, Whys
<1>4. /\ \A s \in Tasks \ {t} : task'[s] = task[s]
      /\ task'[t].at = p /\ task'[t].user = u
      /\ crowded \subseteq crowded' /\ (boot.at # "done" => u \in crowded')
  BY <1>3 DEF Start, TypeOK
<1>5. Growing
  BY <1>1, <1>4 DEF Growing
<1>6. RequestCurrent(t)'
  BY <1>1, <1>4 DEF RequestCurrent, At
<1>7. StartCurrent'
  BY <1>1, <1>5, StartStays DEF BoxesCurrent
<1>8. /\ coupons \subseteq coupons'
      /\ \A d \in coupons' : d \in coupons \/ d \notin published
  BY <1>2 DEF CreateCoupon
<1> QED
  BY <1>1, <1>4, <1>5, <1>6, <1>7, <1>8, BoxesStay

LEMMA ProcessBoxes ==
  ASSUME TypeOK, OriginsKnown, BoxesCurrent, Process
  PROVE  BoxesCurrent'
<1>1. StartCurrent /\ \A t \in Tasks : RequestCurrent(t)
  BY DEF BoxesCurrent
<1>2. CASE PurgeExpired
  <2>1. /\ UNCHANGED <<held, unlisted, granted, named, expired, crowded, task>>
        /\ coupons' = coupons \ expired /\ boot' = [boot EXCEPT !.purged = TRUE]
    BY <1>2 DEF PurgeExpired, past, lists
  <2>2. boot'.at = boot.at /\ (boot.at = "writing" => boot'.lists = boot.lists)
    BY <1>2, <2>1 DEF PurgeExpired, Up, TypeOK, Boots
  <2>3. Growing
    BY <2>1 DEF Growing
  <2>4. StartCurrent'
    BY <1>1, <2>1, <2>2, <2>3, StartStays
  <2>5. \A c \in coupons : c \in coupons' \/ \A u \in Users : Shared(u, c)'
    BY <2>1 DEF Shared
  <2> QED
    BY <2>1, <2>2, <2>3, <2>4, <2>5, BoxesStay
<1>3. CASE LoadReads
  <2>1. /\ UNCHANGED <<coupons, held, unlisted, granted, named, expired, crowded, task>>
        /\ boot.at = "reading"
        /\ boot'.at = "writing" /\ boot'.lists = [u \in Users |-> held[u] \ expired]
    BY <1>3 DEF LoadReads, past, lists
  <2>2. Growing
    BY <2>1 DEF Growing
  <2>3. StartCurrent'
    BY <2>1 DEF StartCurrent
  <2> QED
    BY <2>1, <2>2, <2>3, BoxesStay
<1>4. CASE LoadWrites
  <2>1. /\ UNCHANGED <<coupons, unlisted, granted, named, expired, crowded, task>>
        /\ boot.at = "writing" /\ boot'.at = "done"
        /\ held' = [u \in Users |-> IF u \in boot.due THEN boot.lists[u] ELSE held[u]]
    BY <1>4 DEF LoadWrites, past
  <2>2. Growing
    BY <2>1 DEF Growing
  <2>3. ASSUME NEW t \in Tasks PROVE RequestCurrent(t)'
    BY <1>1, <2>1 DEF RequestCurrent
  <2>4. ASSUME NEW u \in Users \ crowded', NEW c \in Codes PROVE BoxTrue(u, c)'
    <3>1. BoxTrue(u, c)
      BY <2>1 DEF BoxesCurrent
    <3>2. CASE c \in expired
      BY <2>1, <3>2 DEF BoxTrue, Shared
    <3>3. CASE c \notin expired
      <4>1. c \in held'[u] <=> c \in held[u]
        BY <1>1, <2>1, <3>3 DEF StartCurrent
      <4> QED
        BY <2>1, <2>2, <3>1, <4>1, BoxStays
    <3> QED
      BY <3>2, <3>3
  <2>5. StartCurrent'
    BY <2>1 DEF StartCurrent
  <2> QED
    BY <2>3, <2>4, <2>5 DEF BoxesCurrent
<1>5. CASE Crash
  <2>1. /\ UNCHANGED <<coupons, held, unlisted, granted, named, expired, crowded>>
        /\ boot'.at = "down" /\ \A t \in Tasks : task'[t] = Idle
    BY <1>5 DEF Crash, past, lists
  <2>2. Growing
    BY <2>1 DEF Growing
  <2>3. StartCurrent' /\ \A t \in Tasks : RequestCurrent(t)'
    BY <2>1 DEF StartCurrent, RequestCurrent
  <2> QED
    BY <2>1, <2>2, <2>3, BoxesStay
<1>6. CASE Restart
  <2>1. /\ UNCHANGED <<coupons, held, unlisted, granted, named, expired, crowded, task>>
        /\ boot.at = "down" /\ boot'.at = "reading"
    BY <1>6 DEF Restart, Up, past, lists
  <2>2. Growing
    BY <2>1 DEF Growing
  <2>3. StartCurrent'
    BY <2>1 DEF StartCurrent
  <2> QED
    BY <2>1, <2>2, <2>3, BoxesStay
<1> QED
  BY <1>2, <1>3, <1>4, <1>5, <1>6 DEF Process

LEMMA NextBoxes ==
  TypeOK /\ OneRequest /\ OriginsKnown /\ BoxesCurrent /\ [Next]_vars => BoxesCurrent'
<1> SUFFICES ASSUME TypeOK, OneRequest, OriginsKnown, BoxesCurrent, [Next]_vars
             PROVE  BoxesCurrent'
  OBVIOUS
<1>1. CASE \/ \E c \in Codes : PublishCoupon(c) \/ Expire(c)
           \/ \E u \in Users : EarnStar(u)
           \/ UNCHANGED vars
  <2>1. /\ UNCHANGED <<held, unlisted, granted, named, crowded, task, boot>>
        /\ expired \subseteq expired'
        /\ coupons \subseteq coupons' /\ \A c \in coupons' : c \in coupons \/ c \notin published
    BY <1>1 DEF PublishCoupon, CreateCoupon, Expire, EarnStar, vars, past, lists
  <2>2. Growing
    BY <2>1 DEF Growing
  <2>3. StartCurrent'
    BY <2>1, <2>2, StartStays DEF BoxesCurrent
  <2> QED
    BY <2>1, <2>2, <2>3, BoxesStay
<1>2. ASSUME NEW t \in Tasks, \/ Proceed(t) \/ \E u \in Users, c \in Codes : Begin(t, u, c)
      PROVE  BoxesCurrent'
  BY <1>2, ProceedBoxes, BeginBoxes
<1> QED
  BY <1>1, <1>2, ProcessBoxes DEF Next

\* The box of a user whose requests come one at a time tells the truth about
\* every code that is the user's alone, whatever the other users and the start
\* do: no other request deletes its row, and nobody else writes the list.
THEOREM BoxesAreTrue == Spec => []BoxIsTrue
<1>1. Init => BoxesCurrent
  BY DEF Init, BoxesCurrent, RequestCurrent, StartCurrent, BoxTrue, Idle
<1>2. TypeOK /\ BoxesCurrent => BoxIsTrue
  BY DEF BoxesCurrent, BoxTrue, Shared, BoxIsTrue, TypeOK, Lists
<1>3. StampsSafe => OneRequest
  BY DEF StampsSafe
<1> QED
  BY <1>1, <1>2, <1>3, InitStamps, NextStamps, InitOrigins, NextOrigins, NextBoxes, TypeCorrect,
     PTL DEF Spec
=============================================================================
