------------------------------ MODULE CouponLedger ------------------------------
(***************************************************************************)
(* Coupons, stamp coupons and gifts in Postgres: CouponService and         *)
(* CouponRepository, with the clean-up of both tables at the start         *)
(* (CouponService's constructor and UserRepository.loadUsers).             *)
(*                                                                         *)
(* A request is a task of the one event loop; an action is what runs from  *)
(* one await to the next, with the statement or transaction that ends it.  *)
(* Transactions are READ COMMITTED: one whose later write depends on an    *)
(* earlier read is two steps, and between them others may commit.  A row   *)
(* that a transaction deleted is locked until it ends.                     *)
(*                                                                         *)
(* Codes are random and never drawn twice.  The "users" array in Redis,    *)
(* which the same methods update, is left out, and so is the opening of a  *)
(* gift, which nothing calls.                                              *)
(***************************************************************************)
EXTENDS Naturals

CONSTANTS
    Users,          \* email addresses of the registered users
    Codes,          \* coupon codes; a gift is named by the code it wraps
    Tasks,          \* slots for the requests in flight
    StampPrice,     \* stars a stamp coupon costs: 6
    FirstStars,     \* the users' stars to begin with
    MaxStars,       \* bound: stars a user earns
    MaxRequests,    \* bound: requests that need more than one step
    MaxRestarts     \* bound: restarts of the process

ASSUME StarAssumption == StampPrice \in Nat \ {0} /\ FirstStars \in [Users -> Nat]
ASSUME BoundAssumption ==
    /\ MaxStars \in Nat
    /\ \A u \in Users : FirstStars[u] <= MaxStars
    /\ MaxRequests \in Nat
    /\ MaxRestarts \in Nat

VARIABLES
    coupons,    \* rows of table coupon
    held,       \* the coupons list of every user's row
    gifts,      \* rows of table gift, by their user
    used,       \* the gifts that are marked used
    stars,      \* stars of every user's wallet
    expired,    \* codes whose expiration period is over
    task,       \* what every slot is doing
    boot,       \* the clean-up at the start, and whether the process is up
    published,  \* history: codes ever published
    known,      \* history: codes that somebody was told
    granted,    \* history: the coupons registered for a user
    spent,      \* history: how often a user's request deleted a code's row
    unlisted,   \* history: codes whose row was deleted, and the list not written
    named,      \* history: the users whose requests gave a code
    crowded,    \* history: users whose request overlapped another, or the start
    earned,     \* history: stars a user earned
    bought,     \* history: stamp coupons a user got
    asked,
    restarts

lists  == <<held, gifts, used>>
spends == <<spent, unlisted>>
past   == <<published, known, granted, spends, named, earned, bought>>
bounds == <<asked, restarts>>
vars   == <<coupons, lists, stars, expired, task, boot, past, crowded, bounds>>

-----------------------------------------------------------------------------
Whys  == {"register", "stamp", "use", "gift", "withdraw"}
Idle  == [at |-> "idle"]
Busy  == [at: {"check", "grant", "pay", "retire", "wrap"}, user: Users, code: Codes, why: Whys]
           \cup [at: {"retiring"}, user: Users, code: Codes, why: Whys, list: SUBSET Codes]
Lists == [Users -> SUBSET Codes]
Boots == [at: {"down"}]
           \cup [at: {"reading", "done"}, purged: BOOLEAN]
           \cup [at: {"writing"}, purged: BOOLEAN, lists: Lists, due: SUBSET Users,
                 marks: SUBSET Codes]

Up       == boot.at # "down"
At(t, p) == task[t].at = p
End(t)   == task' = [task EXCEPT ![t] = Idle]
Goto(t, p) ==
    task' = [task EXCEPT ![t] = [at |-> p, user |-> task[t].user, code |-> task[t].code,
                                 why |-> task[t].why]]

\* Another request of the user is in flight.
Overlaps(t, u) == \E v \in Tasks \ {t} : task[v] # Idle /\ task[v].user = u

\* A request of the user takes a free slot.
Start(t, p, u, c, w) ==
    /\ Up
    /\ task[t] = Idle
    /\ asked < MaxRequests
    /\ asked' = asked + 1
    /\ task' = [task EXCEPT ![t] = [at |-> p, user |-> u, code |-> c, why |-> w]]
    /\ crowded' = IF Overlaps(t, u) \/ boot.at # "done" THEN crowded \cup {u} ELSE crowded

Init ==
    /\ coupons = {}
    /\ held = [u \in Users |-> {}]
    /\ gifts = [u \in Users |-> {}]
    /\ used = {}
    /\ stars = FirstStars
    /\ expired = {}
    /\ task = [t \in Tasks |-> Idle]
    /\ boot = [at |-> "reading", purged |-> FALSE]
    /\ published = {}
    /\ known = {}
    /\ granted = [u \in Users |-> {}]
    /\ spent = [c \in Codes |-> [u \in Users |-> 0]]
    /\ unlisted = {}
    /\ named = [c \in Codes |-> {}]
    /\ crowded = {}
    /\ earned = FirstStars
    /\ bought = [u \in Users |-> 0]
    /\ asked = 0
    /\ restarts = 0

-----------------------------------------------------------------------------
(* Publishing: publishCoupon, alone, for stamps and for a gift.            *)

\* A row with a new code.
CreateCoupon(c) ==
    /\ c \notin published
    /\ published' = published \cup {c}
    /\ coupons' = coupons \cup {c}

PublishCoupon(c) ==
    /\ Up
    /\ CreateCoupon(c)
    /\ known' = known \cup {c}
    /\ UNCHANGED <<lists, stars, expired, task, boot, granted, spends, named, earned, bought,
                   crowded, bounds>>

\* publishAndRegisterStampCoupon: the code is registered next.
PublishStampCoupon(t, u, c) ==
    /\ Start(t, "check", u, c, "stamp")
    /\ CreateCoupon(c)
    /\ UNCHANGED <<lists, stars, expired, boot, known, granted, spends, named, earned, bought,
                   restarts>>

\* sendGift: the code is wrapped in a gift next.
PublishGiftCoupon(t, u, c) ==
    /\ Start(t, "wrap", u, c, "gift")
    /\ CreateCoupon(c)
    /\ UNCHANGED <<lists, stars, expired, boot, known, granted, spends, named, earned, bought,
                   restarts>>

\* updateGift creates the gift's row, or fails and leaves the coupon alone.
WrapGift(t) ==
    /\ At(t, "wrap")
    /\ gifts' = [gifts EXCEPT ![task[t].user] = @ \cup {task[t].code}]
    /\ known' = known \cup {task[t].code}
    /\ End(t)
    /\ UNCHANGED <<coupons, held, used, stars, expired, boot, published, granted, spends, named,
                   earned, bought, crowded, bounds>>

WrapFails(t) ==
    /\ At(t, "wrap")
    /\ End(t)
    /\ UNCHANGED <<coupons, lists, stars, expired, boot, past, crowded, bounds>>

-----------------------------------------------------------------------------
(* Requests that name a code, and its validation.                          *)

\* The user gives a code that somebody was told: to register it, or to pay an order with.
NameCode(t, u, c, p, w) ==
    /\ c \in known
    /\ Start(t, p, u, c, w)
    /\ named' = [named EXCEPT ![c] = @ \cup {u}]
    /\ UNCHANGED <<coupons, lists, stars, expired, boot, published, known, granted, spends,
                   earned, bought, restarts>>

RegisterCoupon(t, u, c) == NameCode(t, u, c, "check", "register")
UseCoupon(t, u, c)      == NameCode(t, u, c, "check", "use")

\* deleteCoupon, the administrator's recall of a user's coupon, validates nothing.
WithdrawCoupon(t, u, c) == NameCode(t, u, c, "retire", "withdraw")

\* _validate: the code has a row, and is not expired.
CheckDone(t) ==
    /\ At(t, "check")
    /\ task[t].code \in coupons \ expired
    /\ Goto(t, IF task[t].why = "use" THEN "retire" ELSE "grant")
    /\ UNCHANGED <<coupons, lists, stars, expired, boot, past, crowded, bounds>>

\* No row, expired, or the database fails: the request fails.  A code that
\* was to be registered stays.
CheckFails(t) ==
    /\ At(t, "check")
    /\ End(t)
    /\ UNCHANGED <<coupons, lists, stars, expired, boot, past, crowded, bounds>>

-----------------------------------------------------------------------------
(* CouponRepository.registerCoupon.                                        *)

\* Mutation: the list is set, not pushed to.
PushedAlone(u, c) == held' = [held EXCEPT ![u] = {c}]

\* The coupon is pushed to the user's list.
Pushed(u, c) == held' = [held EXCEPT ![u] = @ \cup {c}]

GrantCoupon(t) ==
    LET u == task[t].user
        c == task[t].code IN
    /\ At(t, "grant")
    /\ task[t].why = "register"
    /\ Pushed(u, c)
    /\ granted' = [granted EXCEPT ![u] = @ \cup {c}]
    /\ End(t)
    /\ UNCHANGED <<coupons, gifts, used, stars, expired, boot, published, known, spends, named,
                   earned, bought, crowded, bounds>>

\* The transaction of a stamp coupon reads the stars.
StampsSuffice(t) ==
    /\ At(t, "grant")
    /\ task[t].why = "stamp"
    /\ stars[task[t].user] >= StampPrice
    /\ Goto(t, "pay")
    /\ UNCHANGED <<coupons, lists, stars, expired, boot, past, crowded, bounds>>

\* Mutations: the stars are left; the price is taken from what there is by now.
PaidNothing(u) == UNCHANGED stars
PaidByPrice(u) == stars' = [stars EXCEPT ![u] = @ - StampPrice]

\* The stars are set to zero, however many there are by now.
Paid(u) == stars' = [stars EXCEPT ![u] = 0]

\* It pushes the coupon, takes the stars and commits.
GrantStampCoupon(t) ==
    LET u == task[t].user
        c == task[t].code IN
    /\ At(t, "pay")
    /\ Pushed(u, c)
    /\ Paid(u)
    /\ granted' = [granted EXCEPT ![u] = @ \cup {c}]
    /\ bought' = [bought EXCEPT ![u] = @ + 1]
    /\ known' = known \cup {c}
    /\ End(t)
    /\ UNCHANGED <<coupons, gifts, used, expired, boot, published, spends, named, earned, crowded,
                   bounds>>

\* Too few stars (the transaction returns false), or the database fails: the
\* service's catch deletes the coupon.
GrantFails(t) ==
    /\ At(t, "grant") \/ At(t, "pay")
    /\ Goto(t, "retire")
    /\ UNCHANGED <<coupons, lists, stars, expired, boot, past, crowded, bounds>>

-----------------------------------------------------------------------------
(* CouponRepository.deleteCoupon.                                          *)

\* Mutation: deleteMany, which is content without a row.
DeletableOrNot(c) == TRUE

\* A delete of the code's row goes through.
Deletable(c) == c \in coupons

Locked(c) == \E t \in Tasks : At(t, "retiring") /\ task[t].code = c

\* deleteCoupon deletes the row, and reads the list of the user.
RetireReads(t) ==
    LET c == task[t].code
        u == task[t].user IN
    /\ At(t, "retire")
    /\ ~Locked(c)
    /\ Deletable(c)
    /\ task' = [task EXCEPT ![t] = [at |-> "retiring", user |-> u, code |-> c,
                                    why |-> task[t].why, list |-> held[u]]]
    /\ UNCHANGED <<coupons, lists, stars, expired, boot, past, crowded, bounds>>

\* Mutation: the list is written back as it was read.
RemainingAll(list, c) == list

Remaining(list, c) == list \ {c}

Spend(c, u) == spent' = [spent EXCEPT ![c][u] = @ + 1]

\* It writes the list it read, without the code, and commits.
RetireCommits(t) ==
    LET c == task[t].code
        u == task[t].user IN
    /\ At(t, "retiring")
    /\ coupons' = coupons \ {c}
    /\ held' = [held EXCEPT ![u] = Remaining(task[t].list, c)]
    /\ Spend(c, u)
    /\ End(t)
    /\ UNCHANGED <<gifts, used, stars, expired, boot, published, known, granted, unlisted, named,
                   earned, bought, crowded, bounds>>

\* The list cannot be written, with an error of Prisma's that is swallowed: the
\* row is deleted all the same.
RetireUnlisted(t) ==
    LET c == task[t].code IN
    /\ At(t, "retiring")
    /\ coupons' = coupons \ {c}
    /\ unlisted' = unlisted \cup {c}
    /\ Spend(c, task[t].user)
    /\ End(t)
    /\ UNCHANGED <<lists, stars, expired, boot, published, known, granted, named, earned, bought,
                   crowded, bounds>>

\* There is no row, or the transaction is rolled back: nothing is changed,
\* whether the caller is told so or the error was swallowed.
RetireFails(t) ==
    /\ At(t, "retire") \/ At(t, "retiring")
    /\ End(t)
    /\ UNCHANGED <<coupons, lists, stars, expired, boot, past, crowded, bounds>>

-----------------------------------------------------------------------------
(* Time, finished orders, and the process.                                 *)

Expire(c) ==
    /\ c \in published \ expired
    /\ expired' = expired \cup {c}
    /\ UNCHANGED <<coupons, lists, stars, task, boot, past, crowded, bounds>>

\* addOrderHistory increments the stars.
EarnStar(u) ==
    /\ Up
    /\ earned[u] < MaxStars
    /\ earned' = [earned EXCEPT ![u] = @ + 1]
    /\ stars' = [stars EXCEPT ![u] = @ + 1]
    /\ UNCHANGED <<coupons, lists, expired, task, boot, published, known, granted, spends, named,
                   bought, crowded, bounds>>

\* deleteExpiredCoupon, which waits for the rows that are locked.
PurgeExpired ==
    /\ Up
    /\ ~boot.purged
    /\ ~ \E c \in expired : Locked(c)
    /\ coupons' = coupons \ expired
    /\ boot' = [boot EXCEPT !.purged = TRUE]
    /\ UNCHANGED <<lists, stars, expired, task, past, crowded, bounds>>

\* loadUsers reads every user: one with a coupon, or a gift not yet used, that
\* has expired is due for an update.
LoadReads ==
    /\ boot.at = "reading"
    /\ LET due == {u \in Users : (held[u] \cup (gifts[u] \ used)) \cap expired # {}} IN
       boot' = [at |-> "writing", purged |-> boot.purged, due |-> due,
                lists |-> [u \in Users |-> held[u] \ expired],
                marks |-> UNION {gifts[u] : u \in due}]
    /\ UNCHANGED <<coupons, lists, stars, expired, task, past, crowded, bounds>>

\* It writes the lists it read without the expired coupons, and marks ALL
\* gifts of such a user as used.
LoadWrites ==
    /\ boot.at = "writing"
    /\ held' = [u \in Users |-> IF u \in boot.due THEN boot.lists[u] ELSE held[u]]
    /\ used' = used \cup boot.marks
    /\ boot' = [at |-> "done", purged |-> boot.purged]
    /\ UNCHANGED <<coupons, gifts, stars, expired, task, past, crowded, bounds>>

\* The process dies, at any moment or because a clean-up failed; transactions
\* under way are rolled back.
Crash ==
    /\ Up
    /\ restarts < MaxRestarts
    /\ boot' = [at |-> "down"]
    /\ task' = [t \in Tasks |-> Idle]
    /\ UNCHANGED <<coupons, lists, stars, expired, past, crowded, bounds>>

Restart ==
    /\ ~Up
    /\ restarts < MaxRestarts
    /\ boot' = [at |-> "reading", purged |-> FALSE]
    /\ restarts' = restarts + 1
    /\ UNCHANGED <<coupons, lists, stars, expired, task, past, crowded, asked>>

-----------------------------------------------------------------------------
Proceed(t) ==
    \/ WrapGift(t) \/ WrapFails(t) \/ CheckDone(t) \/ CheckFails(t)
    \/ GrantCoupon(t) \/ StampsSuffice(t) \/ GrantStampCoupon(t) \/ GrantFails(t)
    \/ RetireReads(t) \/ RetireCommits(t) \/ RetireUnlisted(t) \/ RetireFails(t)

Begin(t, u, c) ==
    \/ PublishStampCoupon(t, u, c) \/ PublishGiftCoupon(t, u, c)
    \/ RegisterCoupon(t, u, c) \/ UseCoupon(t, u, c) \/ WithdrawCoupon(t, u, c)

Process == PurgeExpired \/ LoadReads \/ LoadWrites \/ Crash \/ Restart

Next ==
    \/ \E t \in Tasks : Proceed(t) \/ \E u \in Users, c \in Codes : Begin(t, u, c)
    \/ \E c \in Codes : PublishCoupon(c) \/ Expire(c)
    \/ \E u \in Users : EarnStar(u)
    \/ Process

Spec == Init /\ [][Next]_vars

-----------------------------------------------------------------------------
(* Properties.                                                             *)

TypeOK ==
    /\ coupons \subseteq Codes
    /\ held \in Lists
    /\ gifts \in Lists
    /\ used \subseteq Codes
    /\ stars \in [Users -> Nat]
    /\ expired \subseteq Codes
    /\ task \in [Tasks -> Busy \cup {Idle}]
    /\ boot \in Boots
    /\ published \subseteq Codes
    /\ known \subseteq Codes
    /\ granted \in Lists
    /\ spent \in [Codes -> [Users -> Nat]]
    /\ unlisted \subseteq Codes
    /\ named \in [Codes -> SUBSET Users]
    /\ crowded \subseteq Users
    /\ earned \in [Users -> Nat]
    /\ bought \in [Users -> Nat]
    /\ asked \in 0..MaxRequests
    /\ restarts \in 0..MaxRestarts

\* A code is good for one thing: of all the requests that use, recall or fail
\* to register it, at most one deletes its row, and the row does not come back.
SpentOnce ==
    \A c \in Codes, u \in Users : spent[c][u] > 0 =>
        /\ c \notin coupons
        /\ spent[c][u] = 1
        /\ \A v \in Users : spent[c][v] > 0 => v = u

\* A stamp coupon costs its stars, as long as the user's requests come one at
\* a time: what was bought and what is left never exceed what was earned.
StampsPaidFor ==
    \A u \in Users \ crowded : StampPrice * bought[u] + stars[u] <= earned[u]

\* The user's box tells the truth: of a code that nobody else gave, registered
\* by a user whose requests come one at a time, the box has an entry exactly as
\* long as the code can still be used or runs out.  Where the list could not be
\* written, and nobody was told, an entry stays without a coupon.
BoxIsTrue ==
    \A u \in Users \ crowded : \A c \in granted[u] \ (expired \cup unlisted) :
        named[c] \subseteq {u} => (c \in held[u] <=> c \in coupons)

\* coupon.service.ts:99 tells a user who has too few stamps that the coupon is
\* not issued: nobody gets more stamp coupons than their stars pay for.
StampCouponNeedsStamps == \A u \in Users : StampPrice * bought[u] <= earned[u]
=============================================================================
