------------------------------- MODULE UserCache -------------------------------
(***************************************************************************)
(* The "users" array in Redis, a copy of the rows of table user:             *)
(* UserService (_initialized, _findUser, _upsertCache, sign-in by password *)
(* and by refresh token, points) and the two methods of CouponService      *)
(* that patch it; a third one, for gifts that are opened, is never called. *)
(*                                                                         *)
(* Every writer first changes its row, then reads the whole array, and     *)
(* writes the whole array back, and nobody waits for it.  _upsertCache     *)
(* replaces the user's entry with the row that the database returned, the  *)
(* CouponService methods patch the entry they find.  Redis answers one     *)
(* connection in order: a read takes the array as it is when it is issued. *)
(*                                                                         *)
(* Of a user, three things: the tokens (access and refresh token are       *)
(* issued together, and the n-th pair is n), the points and the coupons.   *)
(* Which coupon may be registered or used, and what a start does to        *)
(* expired ones, is the subject of CouponLedger.                           *)
(***************************************************************************)
EXTENDS Integers

CONSTANTS
    Users,          \* email addresses
    Codes,          \* coupon codes
    Tasks,          \* slots for the requests in flight
    None,           \* no row, or no entry in the array
    Gone,           \* the entry's wallet has lost its points
    MaxRequests,    \* bound: requests
    MaxRestarts     \* bound: restarts of the process

ASSUME GoneAssumption  == Gone \notin Int
ASSUME BoundAssumption == MaxRequests \in Nat /\ MaxRestarts \in Nat

Tokens  == Nat
Rows    == [tok: Tokens, point: Int, box: SUBSET Codes]
Entries == [tok: Tokens, point: Int \cup {Gone}, box: SUBSET Codes]
ASSUME NoneAssumption == None \notin Entries

VARIABLES
    rows,       \* Postgres: row of every user
    users,      \* Redis: entry of every user
    task,       \* what every slot is doing
    boot,       \* UserService._initialized, and whether the process is up
    gifted,     \* history: codes wrapped in a gift
    stale,      \* history: users whose entry a writer put back as it was before
    behind,     \* history: users whose entry was written by a password login
    crowded,    \* history: users whose request overlapped another, or the start
    asked,
    restarts

vars == <<rows, users, task, boot, gifted, stale, behind, crowded, asked, restarts>>

-----------------------------------------------------------------------------
Maybe   == Entries \cup {None}
Arrays  == [Users -> Maybe]
Signs   == {"login", "refresh"}
Patches == {"add", "remove"}
Idle    == [at |-> "idle"]

\* A sign-in that has what _findUser read; _upsertCache before and after its
\* read; a CouponService method before and after its read.
Busy ==
    [at: {"found"}, user: Users, why: Signs, entry: Maybe]
      \cup [at: {"upsert"}, user: Users, why: Signs \cup {"row"}, entry: Entries]
      \cup [at: {"upserting"}, user: Users, why: Signs \cup {"row"}, entry: Entries, caches: Arrays]
      \cup [at: {"patch"}, user: Users, why: Patches, code: Codes]
      \cup [at: {"patching"}, user: Users, why: Patches, code: Codes, caches: Arrays]

Boots == [at: {"down", "reading", "done"}] \cup [at: {"writing"}, seen: Arrays]

Up        == boot.at # "down"
At(t, p)  == task[t].at = p
Put(t, r) == task' = [task EXCEPT ![t] = r]

InFlight(u) == \E t \in Tasks : task[t] # Idle /\ task[t].user = u

\* A request about the user takes a free slot and gets to where `r` says.
Start(t, u, r) ==
    /\ Up
    /\ task[t] = Idle
    /\ asked < MaxRequests
    /\ asked' = asked + 1
    /\ crowded' = IF InFlight(u) \/ boot.at # "done" THEN crowded \cup {u} ELSE crowded
    /\ Put(t, r)

NewUser == [tok |-> 0, point |-> 0, box |-> {}]

Init ==
    /\ rows \in [Users -> {None, NewUser}]
    /\ users = [u \in Users |-> None]
    /\ task = [t \in Tasks |-> Idle]
    /\ boot = [at |-> "reading"]
    /\ gifted = {}
    /\ stale = {}
    /\ behind = {}
    /\ crowded = {}
    /\ asked = 0
    /\ restarts = 0

-----------------------------------------------------------------------------
(* Signing in: loginByPass, checkRefresh, _findUser.                       *)

\* Both begin with _findUser, which reads the array.
SignIn(t, u, w) ==
    /\ Start(t, u, [at |-> "found", user |-> u, why |-> w, entry |-> users[u]])
    /\ UNCHANGED <<rows, users, boot, gifted, stale, behind, restarts>>

\* The array has no entry: the row is read.
LookUp(t) ==
    LET u == task[t].user IN
    /\ At(t, "found")
    /\ task[t].entry = None
    /\ rows[u] # None
    /\ Put(t, [task[t] EXCEPT !.entry = rows[u]])
    /\ UNCHANGED <<rows, users, boot, gifted, stale, behind, crowded, asked, restarts>>

\* New tokens are recorded in the row, which is there.
Records(u) == rows' = [rows EXCEPT ![u].tok = @ + 1]

\* Mutations: checkRefresh, too, caches the entry it found; the tokens are
\* published a second time for the array; nothing but the tokens is cached.
ToCacheFound(w, found, row)  == found
ToCacheAgain(w, found, row)  == [row EXCEPT !.tok = @ + 1]
ToCacheTokens(w, found, row) == [tok |-> row.tok]

\* What is cached next: loginByPass caches the entry it found, tokens of an
\* earlier sign-in included, and answers them; checkRefresh caches the row.
ToCache(w, found, row) == IF w = "login" THEN found ELSE row

\* checkRefresh needs a refresh token in the entry it found.
SignedIn(t) ==
    LET u == task[t].user
        w == task[t].why IN
    /\ At(t, "found")
    /\ task[t].entry # None
    /\ w = "refresh" => task[t].entry.tok # 0
    /\ rows[u] # None
    /\ Records(u)
    /\ Put(t, [at |-> "upsert", user |-> u, why |-> w,
               entry |-> ToCache(w, task[t].entry, rows'[u])])
    /\ UNCHANGED <<users, boot, gifted, stale, behind, crowded, asked, restarts>>

\* No such user, no refresh token or an expired one, or the database fails.
SignInFails(t) ==
    /\ At(t, "found")
    /\ Put(t, Idle)
    /\ UNCHANGED <<rows, users, boot, gifted, stale, behind, crowded, asked, restarts>>

-----------------------------------------------------------------------------
(* Changes of the row that _upsertCache follows.                           *)

\* The row becomes `e`, and the database returns it.
Update(t, u, e) ==
    /\ Start(t, u, [at |-> "upsert", user |-> u, why |-> "row", entry |-> e])
    /\ rows' = [rows EXCEPT ![u] = e]
    /\ UNCHANGED <<users, boot, gifted, stale, behind, restarts>>

\* registUser, after the mail address was verified.
Register(t, u) == rows[u] = None /\ Update(t, u, NewUser)

\* decreaseUserPoint, whether or not the user has the points.
SpendPoint(t, u) ==
    rows[u] # None /\ Update(t, u, [rows[u] EXCEPT !.point = @ - 1])

\* addOrderHistory.
EarnPoint(t, u) ==
    rows[u] # None /\ Update(t, u, [rows[u] EXCEPT !.point = @ + 1])

\* _upsertCache issues its read.
UpsertReads(t) ==
    /\ At(t, "upsert")
    /\ Put(t, [at |-> "upserting", user |-> task[t].user, why |-> task[t].why,
               entry |-> task[t].entry, caches |-> users])
    /\ UNCHANGED <<rows, users, boot, gifted, stale, behind, crowded, asked, restarts>>

\* Mutations: an entry that is not there is not added; the old wallet stays.
UpsertedIfThere(a, u, e) == IF a[u] = None THEN a ELSE [a EXCEPT ![u] = e]
UpsertedButWallet(a, u, e) ==
    [a EXCEPT ![u] = IF @ = None THEN e ELSE [e EXCEPT !.point = a[u].point]]

\* The array with the entry replaced or added.
Upserted(a, u, e) == [a EXCEPT ![u] = e]

\* Whoever changed since the array was read is put back as before.
PutBack(a) == {v \in Users : a[v] # users[v]}

\* It writes the array back.  A row that is still current makes the entry good.
UpsertWrites(t) ==
    LET u == task[t].user
        e == task[t].entry IN
    /\ At(t, "upserting")
    /\ users' = Upserted(task[t].caches, u, e)
    /\ stale' = (stale \cup (PutBack(task[t].caches) \ {u})) \ {v \in {u} : e = rows[u]}
    /\ behind' = IF task[t].why = "login" THEN behind \cup {u} ELSE behind \ {u}
    /\ Put(t, Idle)
    /\ UNCHANGED <<rows, boot, gifted, crowded, asked, restarts>>

-----------------------------------------------------------------------------
(* Changes of the row that a patch follows.                                *)

\* registerCoupon pushes a coupon, deleteCoupon takes it from the list.
GrantCoupon(t, u, c) ==
    /\ rows[u] # None
    /\ Start(t, u, [at |-> "patch", user |-> u, why |-> "add", code |-> c])
    /\ rows' = [rows EXCEPT ![u].box = @ \cup {c}]
    /\ UNCHANGED <<users, boot, gifted, stale, behind, restarts>>

RemoveCoupon(t, u, c) ==
    /\ rows[u] # None
    /\ Start(t, u, [at |-> "patch", user |-> u, why |-> "remove", code |-> c])
    /\ rows' = [rows EXCEPT ![u].box = @ \ {c}]
    /\ UNCHANGED <<users, boot, gifted, stale, behind, restarts>>

\* sendGift creates a gift, and puts its coupon in the cached list of coupons
\* of the receiver, whose row has no such coupon.
SendGift(t, u, c) ==
    /\ rows[u] # None
    /\ c \notin gifted
    /\ Start(t, u, [at |-> "patch", user |-> u, why |-> "add", code |-> c])
    /\ gifted' = gifted \cup {c}
    /\ UNCHANGED <<rows, users, boot, stale, behind, restarts>>

\* The method issues its read; without an entry in the reply it does nothing.
PatchReads(t) ==
    /\ At(t, "patch")
    /\ Put(t, IF users[task[t].user] = None
                THEN Idle
                ELSE [at |-> "patching", user |-> task[t].user, why |-> task[t].why,
                      code |-> task[t].code, caches |-> users])
    /\ UNCHANGED <<rows, users, boot, gifted, stale, behind, crowded, asked, restarts>>

\* Mutation: a list of one coupon.
PatchedAlone(e, w, c) ==
    IF w = "add" THEN [e EXCEPT !.box = {c}, !.point = Gone] ELSE [e EXCEPT !.box = @ \ {c}]

\* _updateCouponFromUser adds the coupon and leaves only the stars of the
\* wallet; _removeCouponFromUser takes it.
Patched(e, w, c) ==
    IF w = "add" THEN [e EXCEPT !.box = @ \cup {c}, !.point = Gone] ELSE [e EXCEPT !.box = @ \ {c}]

PatchWrites(t) ==
    /\ At(t, "patching")
    /\ users' = [task[t].caches EXCEPT ![task[t].user] = Patched(@, task[t].why, task[t].code)]
    /\ stale' = stale \cup PutBack(task[t].caches)
    /\ Put(t, Idle)
    /\ UNCHANGED <<rows, boot, gifted, behind, crowded, asked, restarts>>

-----------------------------------------------------------------------------
(* The process: UserService._initialized, crashes.                         *)

InitReads ==
    /\ boot.at = "reading"
    /\ boot' = [at |-> "writing", seen |-> rows]
    /\ UNCHANGED <<rows, users, task, gifted, stale, behind, crowded, asked, restarts>>

\* The rows it read are written over the array.
InitWrites ==
    /\ boot.at = "writing"
    /\ users' = boot.seen
    /\ stale' = {u \in Users : boot.seen[u] # rows[u]}
    /\ behind' = {}
    /\ boot' = [at |-> "done"]
    /\ UNCHANGED <<rows, task, gifted, crowded, asked, restarts>>

\* The process dies, at any moment, or because a rejection that nobody handles
\* ends it: the array cannot be read or written, or the load at start fails.
Crash ==
    /\ Up
    /\ restarts < MaxRestarts
    /\ boot' = [at |-> "down"]
    /\ task' = [t \in Tasks |-> Idle]
    /\ UNCHANGED <<rows, users, gifted, stale, behind, crowded, asked, restarts>>

Restart ==
    /\ ~Up
    /\ restarts < MaxRestarts
    /\ boot' = [at |-> "reading"]
    /\ restarts' = restarts + 1
    /\ UNCHANGED <<rows, users, task, gifted, stale, behind, crowded, asked>>

-----------------------------------------------------------------------------
Proceed(t) ==
    \/ LookUp(t) \/ SignedIn(t) \/ SignInFails(t)
    \/ UpsertReads(t) \/ UpsertWrites(t) \/ PatchReads(t) \/ PatchWrites(t)

Begin(t, u) ==
    \/ SignIn(t, u, "login") \/ SignIn(t, u, "refresh")
    \/ Register(t, u) \/ SpendPoint(t, u) \/ EarnPoint(t, u)
    \/ \E c \in Codes : GrantCoupon(t, u, c) \/ RemoveCoupon(t, u, c) \/ SendGift(t, u, c)

Next ==
    \/ \E t \in Tasks : Proceed(t) \/ \E u \in Users : Begin(t, u)
    \/ InitReads \/ InitWrites \/ Crash \/ Restart

Spec == Init /\ [][Next]_vars

-----------------------------------------------------------------------------
(* Properties.                                                             *)

TypeOK ==
    /\ rows \in [Users -> Rows \cup {None}]
    /\ users \in Arrays
    /\ task \in [Tasks -> Busy \cup {Idle}]
    /\ boot \in Boots
    /\ gifted \subseteq Codes
    /\ stale \subseteq Users
    /\ behind \subseteq Users
    /\ crowded \subseteq Users
    /\ asked \in 0..MaxRequests
    /\ restarts \in 0..MaxRestarts

\* The users about whom the array has no excuse: the server has loaded it, none
\* of their requests is under way or ever overlapped another or the start, and
\* no writer put their entry back as it was before.
Settled == {u \in Users \ (stale \cup crowded) : boot.at = "done" /\ ~InFlight(u)}

\* What the array is for: a registered user is in it, and what a sign-in shows
\* is what the rows hold: the coupon box, codes of gifts aside, and the points,
\* if it shows any.
UserShownIsCurrent ==
    \A u \in Settled : rows[u] # None =>
        /\ users[u] # None
        /\ users[u].box \ gifted = rows[u].box \ gifted
        /\ users[u].point \in {rows[u].point, Gone}

\* The refresh token that checkRefresh will verify is the one on record, unless
\* the last word was a password login's.
CachedSessionIsOnRecord ==
    \A u \in Settled \ behind : users[u] # None => users[u].tok = rows[u].tok

\* Whatever updates are lost, and after any crash: the array never holds tokens
\* of which the row does not know yet, or a user who is not registered.
NeverAheadOfRows ==
    \A u \in Users : users[u] # None => rows[u] # None /\ users[u].tok <= rows[u].tok
=============================================================================
