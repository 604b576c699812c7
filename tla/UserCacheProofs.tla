---------------------------- MODULE UserCacheProofs ----------------------------
(* Theorems about UserCache for every set of users, codes and requests.     *)
EXTENDS UserCache, TLAPS

USE GoneAssumption, NoneAssumption, BoundAssumption

-----------------------------------------------------------------------------
(* Type correctness.                                                        *)

\* What a waiting task carries.
LEMMA TaskFacts ==
  ASSUME TypeOK, NEW t \in Tasks
  PROVE  /\ At(t, "found") => task[t] \in [at: {"found"}, user: Users, why: Signs, entry: Maybe]
         /\ At(t, "upsert") =>
              task[t] \in [at: {"upsert"}, user: Users, why: Signs \cup {"row"}, entry: Entries]
         /\ At(t, "upserting") =>
              task[t] \in [at: {"upserting"}, user: Users, why: Signs \cup {"row"},
                           entry: Entries, caches: Arrays]
         /\ At(t, "patch") =>
              task[t] \in [at: {"patch"}, user: Users, why: Patches, code: Codes]
         /\ At(t, "patching") =>
              task[t] \in [at: {"patching"}, user: Users, why: Patches, code: Codes,
                           caches: Arrays]
<1>1. task[t] \in Busy \cup {Idle}
  BY DEF TypeOK
<1> QED
  BY <1>1 DEF At, Idle, Busy

LEMMA PutType ==
  ASSUME TypeOK, NEW t \in Tasks, NEW r \in Busy \cup {Idle}, Put(t, r)
  PROVE  task' \in [Tasks -> Busy \cup {Idle}]
  BY DEF TypeOK, Put

\* A request begins: the slot, the overlaps and the bound.
LEMMA StartType ==
  ASSUME TypeOK, NEW t \in Tasks, NEW u \in Users, NEW r \in Busy, Start(t, u, r)
  PROVE  /\ task' \in [Tasks -> Busy \cup {Idle}]
         /\ crowded' \subseteq Users
         /\ asked' \in 0..MaxRequests
  BY PutType DEF TypeOK, Start

LEMMA EntryFields ==
  ASSUME NEW e \in Entries
  PROVE  e # None /\ e.tok \in Nat /\ e.box \subseteq Codes
  BY DEF Entries, Tokens

\* A row is an entry with points, and stays a row when a field changes.
LEMMA RowType ==
  ASSUME NEW r \in Rows
  PROVE  /\ r \in Entries /\ r # None /\ r.tok \in Nat
         /\ [r EXCEPT !.tok = r.tok + 1] \in Rows
         /\ [r EXCEPT !.point = r.point + 1] \in Rows
         /\ [r EXCEPT !.point = r.point - 1] \in Rows
         /\ \A b \in SUBSET Codes : [r EXCEPT !.box = b] \in Rows
<1>1. r \in Entries
  BY DEF Rows, Entries
<1>2. r.tok \in Nat /\ r.point \in Int
  BY DEF Rows, Tokens
<1>3. [r EXCEPT !.tok = r.tok + 1] \in Rows
  BY <1>2 DEF Rows, Tokens
<1>4. [r EXCEPT !.point = r.point + 1] \in Rows /\ [r EXCEPT !.point = r.point - 1] \in Rows
  BY <1>2 DEF Rows
<1>5. ASSUME NEW b \in SUBSET Codes
      PROVE  [r EXCEPT !.box = b] \in Rows
  BY DEF Rows
<1> QED
  BY <1>1, <1>2, <1>3, <1>4, <1>5

LEMMA NewUserType == NewUser \in Rows
  BY DEF NewUser, Rows, Tokens

\* The row of a user who has one changes.
LEMMA RowsType ==
  ASSUME TypeOK, NEW u \in Users, NEW r \in Rows, rows' = [rows EXCEPT ![u] = r]
  PROVE  /\ rows' \in [Users -> Rows \cup {None}]
         /\ rows'[u] = r
         /\ \A v \in Users : v # u => rows'[v] = rows[v]
  BY DEF TypeOK

LEMMA PatchedType ==
  ASSUME NEW e \in Entries, NEW w \in Patches, NEW c \in Codes
  PROVE  Patched(e, w, c) \in Entries /\ Patched(e, w, c).tok = e.tok
<1> DEFINE b == e.box \cup {c}
           d == e.box \ {c}
<1>1. b \in SUBSET Codes /\ d \in SUBSET Codes
  BY EntryFields
<1>2. CASE w = "add"
  <2>1. [e EXCEPT !.box = b, !.point = Gone] \in Entries
    BY <1>1 DEF Entries
  <2>2. [e EXCEPT !.box = b, !.point = Gone].tok = e.tok
    BY DEF Entries
  <2> QED
    BY <1>2, <2>1, <2>2 DEF Patched
<1>3. CASE w = "remove"
  <2>1. [e EXCEPT !.box = d] \in Entries /\ [e EXCEPT !.box = d].tok = e.tok
    BY <1>1 DEF Entries
  <2> QED
    BY <1>3, <2>1 DEF Patched
<1> QED
  BY <1>2, <1>3 DEF Patches

\* One entry of an array changes.
LEMMA ArrayType ==
  ASSUME NEW a \in Arrays, NEW u \in Users, NEW e \in Maybe
  PROVE  [a EXCEPT ![u] = e] \in Arrays
  BY DEF Arrays

\* The array that a patch will write back has the user's entry.
PatchedIsThere ==
  \A t \in Tasks : At(t, "patching") => task[t].caches[task[t].user] # None

LEMMA PatchWritesType ==
  ASSUME TypeOK, PatchedIsThere, NEW t \in Tasks, PatchWrites(t)
  PROVE  /\ users' \in Arrays
         /\ task[t].user \in Users
         /\ task[t].caches \in Arrays
         /\ \A v \in Users : \/ users'[v] = task[t].caches[v]
                             \/ /\ users'[v] # None /\ task[t].caches[v] # None
                                /\ users'[v].tok = task[t].caches[v].tok
<1> DEFINE u == task[t].user
           a == task[t].caches
           n == Patched(a[u], task[t].why, task[t].code)
<1>1. u \in Users /\ task[t].why \in Patches /\ task[t].code \in Codes /\ a \in Arrays
  BY TaskFacts DEF PatchWrites
<1>2. a[u] \in Entries /\ a[u] # None
  BY <1>1 DEF PatchWrites, PatchedIsThere, Arrays, Maybe
<1>3. n \in Entries /\ n.tok = a[u].tok /\ n # None
  BY <1>1, <1>2, PatchedType, EntryFields
<1>4. users' = [a EXCEPT ![u] = n]
  BY DEF PatchWrites
<1>5. users' \in Arrays
  BY <1>1, <1>3, <1>4, ArrayType DEF Maybe
<1>6. \A v \in Users : v # u => users'[v] = a[v]
  BY <1>1, <1>4 DEF Arrays
<1>7. users'[u] = n
  BY <1>1, <1>4 DEF Arrays
<1> QED
  BY <1>1, <1>2, <1>3, <1>5, <1>6, <1>7

LEMMA InitType == Init => TypeOK
<1> SUFFICES ASSUME Init PROVE TypeOK
  OBVIOUS
<1>1. rows \in [Users -> Rows \cup {None}] /\ users \in Arrays
  BY NewUserType DEF Init, Arrays, Maybe
<1>2. task \in [Tasks -> Busy \cup {Idle}] /\ boot \in Boots
  BY DEF Init, Boots
<1> QED
  BY <1>1, <1>2 DEF Init, TypeOK

\* A recorded sign-in: the row has new tokens, and the task carries an entry.
LEMMA SignedInType ==
  ASSUME TypeOK, NEW t \in Tasks, SignedIn(t)
  PROVE  /\ rows' \in [Users -> Rows \cup {None}]
         /\ task' \in [Tasks -> Busy \cup {Idle}]
         /\ task[t].user \in Users /\ task[t].why \in Signs /\ task[t].entry \in Entries
         /\ rows[task[t].user] \in Rows
         /\ rows' = [rows EXCEPT ![task[t].user] =
                       [rows[task[t].user] EXCEPT !.tok = rows[task[t].user].tok + 1]]
<1> DEFINE u == task[t].user
           w == task[t].why
           f == task[t].entry
           n == [rows[u] EXCEPT !.tok = rows[u].tok + 1]
<1>1. u \in Users /\ w \in Signs /\ f \in Entries
  BY TaskFacts DEF SignedIn, Maybe
<1>2. rows[u] \in Rows
  BY <1>1 DEF SignedIn, TypeOK
<1>3. rows' = [rows EXCEPT ![u] = n]
  BY DEF SignedIn, Records
<1>4. n \in Rows
  BY <1>2, RowType
<1>5. rows' \in [Users -> Rows \cup {None}] /\ rows'[u] = n
  BY <1>1, <1>3, <1>4, RowsType
<1>6. ToCache(w, f, rows'[u]) \in Entries
  BY <1>1, <1>4, <1>5, RowType DEF ToCache
<1>7. [at |-> "upsert", user |-> u, why |-> w, entry |-> ToCache(w, f, rows'[u])] \in Busy
  BY <1>1, <1>6 DEF Busy
<1>8. task' \in [Tasks -> Busy \cup {Idle}]
  BY <1>7, PutType DEF SignedIn
<1> QED
  BY <1>1, <1>2, <1>3, <1>5, <1>8

LEMMA ProceedType ==
  ASSUME TypeOK, PatchedIsThere, NEW t \in Tasks, Proceed(t)
  PROVE  TypeOK'
<1> DEFINE u == task[t].user
<1>1. CASE LookUp(t)
  <2>1. task[t] \in [at: {"found"}, user: Users, why: Signs, entry: Maybe]
    BY <1>1, TaskFacts DEF LookUp
  <2>2. rows[u] \in Maybe
    BY <2>1, RowType DEF TypeOK, Maybe
  <2>3. [task[t] EXCEPT !.entry = rows[u]] \in Busy
    BY <2>1, <2>2 DEF Busy
  <2> QED
    BY <1>1, <2>3, PutType DEF LookUp, TypeOK
<1>2. CASE SignedIn(t)
  BY <1>2, SignedInType DEF SignedIn, TypeOK
<1>3. CASE SignInFails(t)
  BY <1>3, PutType DEF SignInFails, TypeOK
<1>4. CASE UpsertReads(t)
  <2>1. task[t] \in [at: {"upsert"}, user: Users, why: Signs \cup {"row"}, entry: Entries]
    BY <1>4, TaskFacts DEF UpsertReads
  <2>2. [at |-> "upserting", user |-> u, why |-> task[t].why,
         entry |-> task[t].entry, caches |-> users] \in Busy
    BY <2>1 DEF Busy, TypeOK
  <2> QED
    BY <1>4, <2>2, PutType DEF UpsertReads, TypeOK
<1>5. CASE UpsertWrites(t)
  <2>1. u \in Users /\ task[t].entry \in Maybe /\ task[t].caches \in Arrays
    BY <1>5, TaskFacts DEF UpsertWrites, Maybe
  <2>2. users' \in Arrays
    BY <1>5, <2>1, ArrayType DEF UpsertWrites, Upserted
  <2>3. stale' \subseteq Users /\ behind' \subseteq Users
    BY <1>5, <2>1 DEF UpsertWrites, PutBack, TypeOK
  <2>4. task' \in [Tasks -> Busy \cup {Idle}]
    BY <1>5, PutType DEF UpsertWrites
  <2> QED
    BY <1>5, <2>2, <2>3, <2>4 DEF UpsertWrites, TypeOK
<1>6. CASE PatchReads(t)
  <2>1. task[t] \in [at: {"patch"}, user: Users, why: Patches, code: Codes]
    BY <1>6, TaskFacts DEF PatchReads
  <2>2. [at |-> "patching", user |-> u, why |-> task[t].why, code |-> task[t].code,
         caches |-> users] \in Busy
    BY <2>1 DEF Busy, TypeOK
  <2>3. task' \in [Tasks -> Busy \cup {Idle}]
    BY <1>6, <2>2, PutType DEF PatchReads
  <2> QED
    BY <1>6, <2>3 DEF PatchReads, TypeOK
<1>7. CASE PatchWrites(t)
  <2>1. users' \in Arrays
    BY <1>7, PatchWritesType
  <2>2. stale' \subseteq Users
    BY <1>7 DEF PatchWrites, PutBack, TypeOK
  <2>3. task' \in [Tasks -> Busy \cup {Idle}]
    BY <1>7, PutType DEF PatchWrites
  <2> QED
    BY <1>7, <2>1, <2>2, <2>3 DEF PatchWrites, TypeOK
<1> QED
  BY <1>1, <1>2, <1>3, <1>4, <1>5, <1>6, <1>7 DEF Proceed

\* A request whose row changes to an entry that _upsertCache will cache.
LEMMA UpdateType ==
  ASSUME TypeOK, NEW t \in Tasks, NEW u \in Users, NEW e \in Rows, Update(t, u, e)
  PROVE  TypeOK'
<1>1. [at |-> "upsert", user |-> u, why |-> "row", entry |-> e] \in Busy
  BY RowType DEF Busy
<1>2. /\ task' \in [Tasks -> Busy \cup {Idle}]
      /\ crowded' \subseteq Users
      /\ asked' \in 0..MaxRequests
  BY <1>1, StartType DEF Update
<1>3. rows' \in [Users -> Rows \cup {None}]
  BY RowsType DEF Update
<1> QED
  BY <1>2, <1>3 DEF Update, TypeOK

\* A request whose row changes in its lists, and which then patches the array.
LEMMA PatchBegins ==
  ASSUME TypeOK, NEW t \in Tasks, NEW u \in Users, NEW w \in Patches, NEW c \in Codes,
         NEW r \in Rows, rows' = [rows EXCEPT ![u] = r],
         Start(t, u, [at |-> "patch", user |-> u, why |-> w, code |-> c])
  PROVE  /\ task' \in [Tasks -> Busy \cup {Idle}]
         /\ crowded' \subseteq Users
         /\ asked' \in 0..MaxRequests
         /\ rows' \in [Users -> Rows \cup {None}]
<1>1. [at |-> "patch", user |-> u, why |-> w, code |-> c] \in Busy
  BY DEF Busy
<1> QED
  BY <1>1, StartType, RowsType

\* What the methods of CouponService make of the row.
LEMMA ListsChange ==
  ASSUME TypeOK, NEW t \in Tasks, NEW u \in Users, NEW c \in Codes,
         GrantCoupon(t, u, c) \/ RemoveCoupon(t, u, c) \/ SendGift(t, u, c)
  PROVE  /\ rows[u] \in Rows
         /\ \E r \in Rows : r.tok = rows[u].tok /\ rows' = [rows EXCEPT ![u] = r]
         /\ \E w \in Patches : Start(t, u, [at |-> "patch", user |-> u, why |-> w, code |-> c])
         /\ gifted' \subseteq Codes
         /\ UNCHANGED <<users, boot, stale, behind, restarts>>
<1>0. rows[u] \in Rows
  BY DEF TypeOK, GrantCoupon, RemoveCoupon, SendGift
<1> DEFINE more == rows[u].box \cup {c}
           less == rows[u].box \ {c}
<1>1. more \in SUBSET Codes /\ less \in SUBSET Codes
  BY <1>0 DEF Rows
<1>2. \A b \in SUBSET Codes : [rows[u] EXCEPT !.box = b].tok = rows[u].tok
  BY <1>0 DEF Rows
<1>3. CASE GrantCoupon(t, u, c)
  <2>1. rows' = [rows EXCEPT ![u] = [rows[u] EXCEPT !.box = more]]
    BY <1>3 DEF GrantCoupon
  <2>2. [rows[u] EXCEPT !.box = more] \in Rows
    BY <1>0, <1>1, RowType
  <2> QED
    BY <1>0, <1>1, <1>2, <1>3, <2>1, <2>2 DEF GrantCoupon, TypeOK, Patches
<1>4. CASE RemoveCoupon(t, u, c)
  <2>1. rows' = [rows EXCEPT ![u] = [rows[u] EXCEPT !.box = less]]
    BY <1>4 DEF RemoveCoupon
  <2>2. [rows[u] EXCEPT !.box = less] \in Rows
    BY <1>0, <1>1, RowType
  <2> QED
    BY <1>0, <1>1, <1>2, <1>4, <2>1, <2>2 DEF RemoveCoupon, TypeOK, Patches
<1>5. CASE SendGift(t, u, c)
  <2>1. rows' = [rows EXCEPT ![u] = rows[u]]
    BY <1>5 DEF SendGift, TypeOK
  <2> QED
    BY <1>0, <1>5, <2>1 DEF SendGift, TypeOK, Patches
<1> QED
  BY <1>3, <1>4, <1>5

\* The row becomes one with other points, or there was none.
LEMMA RowUpdates ==
  ASSUME TypeOK, NEW t \in Tasks, NEW u \in Users,
         Register(t, u) \/ SpendPoint(t, u) \/ EarnPoint(t, u)
  PROVE  \E e \in Rows : /\ Update(t, u, e)
                         /\ rows[u] # None => rows[u] \in Rows /\ e.tok = rows[u].tok
<1>1. CASE Register(t, u)
  BY <1>1, NewUserType DEF Register
<1>2. CASE SpendPoint(t, u)
  <2>1. rows[u] \in Rows
    BY <1>2 DEF SpendPoint, TypeOK
  <2>2. [rows[u] EXCEPT !.point = rows[u].point - 1] \in Rows
    BY <2>1, RowType
  <2>3. [rows[u] EXCEPT !.point = rows[u].point - 1].tok = rows[u].tok
    BY <2>1 DEF Rows
  <2>4. Update(t, u, [rows[u] EXCEPT !.point = rows[u].point - 1])
    BY <1>2 DEF SpendPoint
  <2> QED
    BY <2>1, <2>2, <2>3, <2>4
<1>3. CASE EarnPoint(t, u)
  <2>1. rows[u] \in Rows
    BY <1>3 DEF EarnPoint, TypeOK
  <2>2. [rows[u] EXCEPT !.point = rows[u].point + 1] \in Rows
    BY <2>1, RowType
  <2>3. [rows[u] EXCEPT !.point = rows[u].point + 1].tok = rows[u].tok
    BY <2>1 DEF Rows
  <2>4. Update(t, u, [rows[u] EXCEPT !.point = rows[u].point + 1])
    BY <1>3 DEF EarnPoint
  <2> QED
    BY <2>1, <2>2, <2>3, <2>4
<1> QED
  BY <1>1, <1>2, <1>3

LEMMA BeginType ==
  ASSUME TypeOK, NEW t \in Tasks, NEW u \in Users, Begin(t, u)
  PROVE  TypeOK'
<1>1. ASSUME NEW w \in Signs, SignIn(t, u, w)
      PROVE  TypeOK'
  <2>1. [at |-> "found", user |-> u, why |-> w, entry |-> users[u]] \in Busy
    BY DEF Busy, TypeOK, Arrays
  <2>2. /\ task' \in [Tasks -> Busy \cup {Idle}]
        /\ crowded' \subseteq Users
        /\ asked' \in 0..MaxRequests
    BY <1>1, <2>1, StartType DEF SignIn
  <2> QED
    BY <1>1, <2>2 DEF SignIn, TypeOK
<1>2. CASE Register(t, u) \/ SpendPoint(t, u) \/ EarnPoint(t, u)
  BY <1>2, RowUpdates, UpdateType
<1>3. ASSUME NEW c \in Codes,
             GrantCoupon(t, u, c) \/ RemoveCoupon(t, u, c) \/ SendGift(t, u, c)
      PROVE  TypeOK'
  <2>1. PICK r \in Rows : rows' = [rows EXCEPT ![u] = r]
    BY <1>3, ListsChange
  <2>2. PICK w \in Patches : Start(t, u, [at |-> "patch", user |-> u, why |-> w, code |-> c])
    BY <1>3, ListsChange
  <2>3. gifted' \subseteq Codes /\ UNCHANGED <<users, boot, stale, behind, restarts>>
    BY <1>3, ListsChange
  <2>4. /\ task' \in [Tasks -> Busy \cup {Idle}]
        /\ crowded' \subseteq Users
        /\ asked' \in 0..MaxRequests
        /\ rows' \in [Users -> Rows \cup {None}]
    BY <2>1, <2>2, PatchBegins
  <2> QED
    BY <2>3, <2>4 DEF TypeOK
<1> QED
  BY <1>1, <1>2, <1>3 DEF Begin, Signs

\* The load at the start, crashes and restarts.
LEMMA ProcessType ==
  ASSUME TypeOK, InitReads \/ InitWrites \/ Crash \/ Restart
  PROVE  TypeOK'
<1>1. CASE InitReads
  <2>1. rows \in Arrays
    BY RowType DEF TypeOK, Arrays, Maybe
  <2>2. boot' \in Boots
    BY <1>1, <2>1 DEF InitReads, Boots
  <2> QED
    BY <1>1, <2>2 DEF InitReads, TypeOK
<1>2. CASE InitWrites
  <2>1. boot.seen \in Arrays
    BY <1>2 DEF InitWrites, TypeOK, Boots
  <2>2. boot' \in Boots
    BY <1>2 DEF InitWrites, Boots
  <2> QED
    BY <1>2, <2>1, <2>2 DEF InitWrites, TypeOK
<1>3. CASE Crash
  BY <1>3 DEF Crash, TypeOK, Boots
<1>4. CASE Restart
  BY <1>4 DEF Restart, TypeOK, Boots
<1> QED
  BY <1>1, <1>2, <1>3, <1>4

LEMMA PatchedStaysThere ==
  ASSUME TypeOK, PatchedIsThere, Next
  PROVE  PatchedIsThere'
<1> SUFFICES ASSUME NEW s \in Tasks, At(s, "patching")'
             PROVE  (task[s].caches[task[s].user] # None)'
  BY DEF PatchedIsThere
<1>1. CASE task'[s] = task[s]
  BY <1>1 DEF PatchedIsThere, At
<1>2. CASE PatchReads(s)
  BY <1>2 DEF PatchReads, Put, At, TypeOK, Idle
<1>3. ASSUME NEW t \in Tasks, NEW u \in Users, NEW r, Start(t, u, r), r.at # "patching"
      PROVE  task'[s] = task[s]
  BY <1>3 DEF Start, Put, At, TypeOK
<1>4. ASSUME NEW t \in Tasks, NEW u \in Users, Begin(t, u)
      PROVE  task'[s] = task[s]
  BY <1>3, <1>4 DEF Begin, SignIn, Register, SpendPoint, EarnPoint, Update,
                    GrantCoupon, RemoveCoupon, SendGift
<1>5. ASSUME NEW t \in Tasks, Proceed(t)
      PROVE  task'[s] = task[s] \/ PatchReads(s)
  <2>1. CASE t # s
    BY <1>5, <2>1 DEF Proceed, LookUp, SignedIn, SignInFails, UpsertReads, UpsertWrites,
                      PatchReads, PatchWrites, Put, TypeOK
  <2>2. CASE t = s /\ LookUp(t)
    <3>1. task[s] \in [at: {"found"}, user: Users, why: Signs, entry: Maybe]
      BY <2>2, TaskFacts DEF LookUp
    <3> QED
      BY <2>2, <3>1 DEF LookUp, Put, At, TypeOK
  <2>3. CASE t = s /\ ~LookUp(t) /\ ~PatchReads(t)
    BY <1>5, <2>3 DEF Proceed, SignedIn, SignInFails, UpsertReads, UpsertWrites,
                      PatchWrites, Put, At, TypeOK, Idle
  <2> QED
    BY <2>1, <2>2, <2>3
<1>6. CASE InitReads \/ InitWrites \/ Crash \/ Restart
  BY <1>1, <1>6 DEF InitReads, InitWrites, Crash, Restart, At, Idle
<1> QED
  BY <1>1, <1>2, <1>4, <1>5, <1>6 DEF Next

TypeSafe == TypeOK /\ PatchedIsThere

LEMMA TypeStep == TypeSafe /\ [Next]_vars => TypeSafe'
<1> SUFFICES ASSUME TypeSafe, [Next]_vars
             PROVE  TypeSafe'
  OBVIOUS
<1>1. CASE Next
  <2>1. TypeOK'
    BY <1>1, ProceedType, BeginType, ProcessType DEF TypeSafe, Next
  <2>2. PatchedIsThere'
    BY <1>1, PatchedStaysThere DEF TypeSafe
  <2> QED
    BY <2>1, <2>2 DEF TypeSafe
<1>2. CASE UNCHANGED vars
  BY <1>2 DEF TypeSafe, TypeOK, PatchedIsThere, At, vars
<1> QED
  BY <1>1, <1>2

LEMMA TypeAlways == Spec => []TypeSafe
<1>1. Init => TypeSafe
  BY InitType DEF Init, TypeSafe, PatchedIsThere, At, Idle
<1> QED
  BY <1>1, TypeStep, PTL DEF Spec

\* Type correctness, for any users, codes, requests and restarts: what is
\* written back is a whole array again, and every patched entry was in it.
THEOREM TypeCorrect == Spec => []TypeOK
<1>1. TypeSafe => TypeOK
  BY DEF TypeSafe
<1> QED
  BY <1>1, TypeAlways, PTL

-----------------------------------------------------------------------------
(* The array is never ahead of the rows.  Copies of it travel in tasks and  *)
(* in the load at the start, and entries travel to _upsertCache, so the     *)
(* same has to hold of everything that is on its way.                       *)

\* An entry that rows R may have had before.
Behind(R, e, u) == e # None => R[u] # None /\ e.tok <= R[u].tok

ArrayBehind(R) == \A v \in Users : Behind(R, users[v], v)
LoadBehind(R)  == boot.at = "writing" => \A v \in Users : Behind(R, boot.seen[v], v)

\* What a task carries: an entry to be cached, and an array to be written back.
TaskBehind(R, k) ==
    /\ k.at \in {"found", "upsert", "upserting"} => Behind(R, k.entry, k.user)
    /\ k.at \in {"upserting", "patching"} => \A v \in Users : Behind(R, k.caches[v], v)

NothingAhead(R) == ArrayBehind(R) /\ LoadBehind(R) /\ \A t \in Tasks : TaskBehind(R, task[t])

Inductive == TypeSafe /\ NothingAhead(rows)

\* Rows stay, and their tokens are only replaced by later ones.
RowsGrow == \A u \in Users : rows[u] # None => rows'[u] # None /\ rows[u].tok <= rows'[u].tok

\* A row is not ahead of itself.
LEMMA RowBehindItself ==
  ASSUME NEW R, NEW u, R[u] \in Rows
  PROVE  Behind(R, R[u], u)
<1>1. R[u] # None /\ R[u].tok \in Nat
  BY RowType
<1>2. R[u].tok <= R[u].tok
  BY <1>1
<1> QED
  BY <1>1, <1>2 DEF Behind

\* What an entry or array may be, nothing older than the row can spoil.
LEMMA BehindGrows ==
  ASSUME TypeOK, TypeOK', RowsGrow, NEW u \in Users, NEW e \in Maybe, Behind(rows, e, u)
  PROVE  Behind(rows', e, u)
<1> SUFFICES ASSUME e # None
             PROVE  rows'[u] # None /\ e.tok <= rows'[u].tok
  BY DEF Behind
<1>1. rows[u] # None /\ e.tok <= rows[u].tok /\ rows'[u] # None /\ rows[u].tok <= rows'[u].tok
  BY DEF Behind, RowsGrow
<1>2. e.tok \in Nat /\ rows[u].tok \in Nat /\ rows'[u].tok \in Nat
  BY <1>1, EntryFields, RowType DEF Maybe, TypeOK
<1> QED
  BY <1>1, <1>2

LEMMA NothingAheadGrows ==
  ASSUME TypeOK, TypeOK', RowsGrow, NothingAhead(rows)
  PROVE  NothingAhead(rows')
<1>1. ArrayBehind(rows')
  BY BehindGrows DEF NothingAhead, ArrayBehind, TypeOK, Arrays
<1>2. ASSUME NEW t \in Tasks
      PROVE  TaskBehind(rows', task[t])
  <2>1. TaskBehind(rows, task[t])
    BY DEF NothingAhead
  <2>2. ASSUME task[t].at \in {"found", "upsert", "upserting"}
        PROVE  Behind(rows', task[t].entry, task[t].user)
    <3>1. task[t].user \in Users /\ task[t].entry \in Maybe
      BY <2>2, TaskFacts DEF At, Maybe
    <3> QED
      BY <2>1, <2>2, <3>1, BehindGrows DEF TaskBehind
  <2>3. ASSUME task[t].at \in {"upserting", "patching"}, NEW v \in Users
        PROVE  Behind(rows', task[t].caches[v], v)
    <3>1. task[t].caches[v] \in Maybe
      BY <2>3, TaskFacts DEF At, Arrays
    <3> QED
      BY <2>1, <2>3, <3>1, BehindGrows DEF TaskBehind
  <2> QED
    BY <2>2, <2>3 DEF TaskBehind
<1>3. LoadBehind(rows')
  BY BehindGrows DEF NothingAhead, LoadBehind, TypeOK, Boots, Arrays
<1> QED
  BY <1>1, <1>2, <1>3 DEF NothingAhead

\* No step takes a row away or gives it older tokens.
LEMMA RowsOnlyGrow ==
  ASSUME TypeOK, Next
  PROVE  RowsGrow
<1>0. \A v \in Users : rows[v] # None => rows[v].tok \in Nat
  BY RowType DEF TypeOK
<1>1. ASSUME NEW u \in Users, NEW r \in Rows, rows' = [rows EXCEPT ![u] = r],
             rows[u] # None => rows[u].tok <= r.tok
      PROVE  RowsGrow
  <2>1. rows'[u] = r /\ r # None /\ \A v \in Users : v # u => rows'[v] = rows[v]
    BY <1>1, RowsType, RowType
  <2> SUFFICES ASSUME NEW v \in Users, rows[v] # None
               PROVE  rows'[v] # None /\ rows[v].tok <= rows'[v].tok
    BY DEF RowsGrow
  <2>2. CASE v = u
    BY <1>1, <2>1, <2>2
  <2>3. CASE v # u
    BY <1>0, <2>1, <2>3
  <2> QED
    BY <2>2, <2>3
<1>2. ASSUME rows' = rows
      PROVE  RowsGrow
  BY <1>0, <1>2 DEF RowsGrow
<1>3. ASSUME NEW t \in Tasks, SignedIn(t)
      PROVE  RowsGrow
  <2> DEFINE u == task[t].user
             n == [rows[u] EXCEPT !.tok = rows[u].tok + 1]
  <2>1. u \in Users /\ rows[u] \in Rows /\ rows' = [rows EXCEPT ![u] = n]
    BY <1>3, SignedInType
  <2>2. n \in Rows /\ rows[u].tok \in Nat
    BY <2>1, RowType
  <2>3. n.tok = rows[u].tok + 1
    BY <2>1 DEF Rows
  <2>4. rows[u].tok <= n.tok
    BY <2>2, <2>3
  <2> HIDE DEF n
  <2> QED
    BY <1>1, <2>1, <2>2, <2>4
<1>4. ASSUME NEW t \in Tasks, Proceed(t), ~SignedIn(t)
      PROVE  rows' = rows
  BY <1>4 DEF Proceed, LookUp, SignInFails, UpsertReads, UpsertWrites, PatchReads, PatchWrites
<1>5. ASSUME NEW t \in Tasks, NEW u \in Users,
             Register(t, u) \/ SpendPoint(t, u) \/ EarnPoint(t, u)
      PROVE  RowsGrow
  <2>1. PICK e \in Rows : Update(t, u, e) /\ (rows[u] # None => e.tok = rows[u].tok)
    BY <1>5, RowUpdates
  <2>2. rows' = [rows EXCEPT ![u] = e] /\ (rows[u] # None => rows[u].tok <= e.tok)
    BY <2>1, <1>0 DEF Update
  <2> QED
    BY <1>1, <2>2
<1>6. ASSUME NEW t \in Tasks, NEW u \in Users, NEW c \in Codes,
             GrantCoupon(t, u, c) \/ RemoveCoupon(t, u, c) \/ SendGift(t, u, c)
      PROVE  RowsGrow
  <2>1. PICK r \in Rows : r.tok = rows[u].tok /\ rows' = [rows EXCEPT ![u] = r]
    BY <1>6, ListsChange
  <2>2. rows[u] # None => rows[u].tok <= r.tok
    BY <2>1, <1>0
  <2> QED
    BY <1>1, <2>1, <2>2
<1>7. ASSUME NEW t \in Tasks, NEW u \in Users, Begin(t, u)
      PROVE  RowsGrow
  <2>1. ASSUME NEW w \in Signs, SignIn(t, u, w)
        PROVE  rows' = rows
    BY <2>1 DEF SignIn
  <2> QED
    BY <1>2, <1>5, <1>6, <1>7, <2>1 DEF Begin, Signs
<1>8. ASSUME InitReads \/ InitWrites \/ Crash \/ Restart
      PROVE  rows' = rows
  BY <1>8 DEF InitReads, InitWrites, Crash, Restart
<1> QED
  BY <1>2, <1>3, <1>4, <1>7, <1>8 DEF Next

\* One slot is filled, or freed.
LEMMA PutBehind ==
  ASSUME TypeOK, NEW t \in Tasks, NEW r, Put(t, r), TaskBehind(rows', r),
         \A s \in Tasks : TaskBehind(rows', task[s])
  PROVE  \A s \in Tasks : TaskBehind(rows', task'[s])
<1>1. \A s \in Tasks : task'[s] = r \/ task'[s] = task[s]
  BY DEF Put, TypeOK
<1> QED
  BY <1>1

LEMMA IdleBehind == TaskBehind(rows', Idle)
  BY DEF TaskBehind, Idle

\* The proofs below compare with the new rows what is there before the step:
\* by NothingAheadGrows that is behind them, too.
LEMMA ProceedBehind ==
  ASSUME TypeSafe, TypeOK', NothingAhead(rows'), NEW t \in Tasks, Proceed(t)
  PROVE  NothingAhead(rows)'
<1> DEFINE u == task[t].user
           e == task[t].entry
           a == task[t].caches
<1> USE DEF TypeSafe
<1>1. TaskBehind(rows', task[t]) /\ ArrayBehind(rows') /\ LoadBehind(rows')
  BY DEF NothingAhead
<1>2. ASSUME NEW r, Put(t, r), TaskBehind(rows', r), users' = users, boot' = boot
      PROVE  NothingAhead(rows)'
  <2>1. \A s \in Tasks : TaskBehind(rows', task'[s])
    BY <1>2, PutBehind DEF NothingAhead
  <2> QED
    BY <1>1, <1>2, <2>1 DEF NothingAhead, ArrayBehind, LoadBehind, TaskBehind
<1>3. ASSUME Put(t, Idle), \A v \in Users : Behind(rows', users'[v], v), boot' = boot
      PROVE  NothingAhead(rows)'
  <2>1. \A s \in Tasks : TaskBehind(rows', task'[s])
    BY <1>3, PutBehind, IdleBehind DEF NothingAhead
  <2> QED
    BY <1>1, <1>3, <2>1 DEF NothingAhead, ArrayBehind, LoadBehind, TaskBehind
<1>4. CASE LookUp(t)
  <2> DEFINE r == [task[t] EXCEPT !.entry = rows[u]]
  <2>1. task[t] \in [at: {"found"}, user: Users, why: Signs, entry: Maybe]
    BY <1>4, TaskFacts DEF LookUp
  <2>2. r.at = "found" /\ r.entry = rows[u] /\ r.user = u /\ u \in Users
    BY <2>1
  <2>3. rows' = rows /\ rows[u] \in Rows
    BY <1>4, <2>1 DEF LookUp, TypeOK
  <2>4. TaskBehind(rows', r)
    <3>1. Behind(rows', rows[u], u)
      BY <2>3, RowBehindItself
    <3> QED
      BY <2>2, <3>1 DEF TaskBehind
  <2> QED
    BY <1>2, <1>4, <2>4 DEF LookUp
<1>5. CASE SignedIn(t)
  <2> DEFINE n == [rows[u] EXCEPT !.tok = rows[u].tok + 1]
             x == ToCache(task[t].why, e, rows'[u])
             r == [at |-> "upsert", user |-> u, why |-> task[t].why, entry |-> x]
  <2>1. u \in Users /\ rows[u] \in Rows /\ rows' = [rows EXCEPT ![u] = n]
    BY <1>5, SignedInType
  <2>2. rows'[u] \in Rows
    BY <2>1, RowType, RowsType
  <2>3. Behind(rows', rows'[u], u)
    BY <2>2, RowBehindItself
  <2>4. Behind(rows', e, u)
    BY <1>1, <1>5 DEF SignedIn, At, TaskBehind
  <2>5. TaskBehind(rows', r)
    BY <2>3, <2>4 DEF TaskBehind, ToCache
  <2> QED
    BY <1>2, <1>5, <2>5 DEF SignedIn
<1>6. CASE SignInFails(t)
  BY <1>2, <1>6, IdleBehind DEF SignInFails
<1>7. CASE UpsertReads(t)
  <2> DEFINE r == [at |-> "upserting", user |-> u, why |-> task[t].why, entry |-> e,
                   caches |-> users]
  <2>1. TaskBehind(rows', r)
    BY <1>1, <1>7 DEF UpsertReads, At, TaskBehind, ArrayBehind
  <2> QED
    BY <1>2, <1>7, <2>1 DEF UpsertReads
<1>8. CASE UpsertWrites(t)
  <2>1. u \in Users /\ a \in Arrays
    BY <1>8, TaskFacts DEF UpsertWrites
  <2>2. users' = [a EXCEPT ![u] = e]
    BY <1>8 DEF UpsertWrites, Upserted
  <2>3. Behind(rows', e, u) /\ \A v \in Users : Behind(rows', a[v], v)
    BY <1>1, <1>8 DEF UpsertWrites, At, TaskBehind
  <2>4. \A v \in Users : users'[v] = IF v = u THEN e ELSE a[v]
    BY <2>1, <2>2 DEF Arrays
  <2>5. \A v \in Users : Behind(rows', users'[v], v)
    BY <2>3, <2>4
  <2> QED
    BY <1>3, <1>8, <2>5 DEF UpsertWrites
<1>9. CASE PatchReads(t)
  <2> DEFINE r == [at |-> "patching", user |-> u, why |-> task[t].why, code |-> task[t].code,
                   caches |-> users]
  <2>1. TaskBehind(rows', r)
    BY <1>1 DEF TaskBehind, ArrayBehind
  <2>2. Put(t, Idle) \/ Put(t, r)
    BY <1>9 DEF PatchReads
  <2> QED
    BY <1>2, <1>9, <2>1, <2>2, IdleBehind DEF PatchReads
<1>10. CASE PatchWrites(t)
  <2>1. \A v \in Users : Behind(rows', a[v], v)
    BY <1>1, <1>10 DEF PatchWrites, At, TaskBehind
  <2>2. \A v \in Users : \/ users'[v] = a[v]
                         \/ users'[v] # None /\ a[v] # None /\ users'[v].tok = a[v].tok
    BY <1>10, PatchWritesType
  <2>3. \A v \in Users : Behind(rows', users'[v], v)
    BY <2>1, <2>2 DEF Behind
  <2> QED
    BY <1>3, <1>10, <2>3 DEF PatchWrites
<1> QED
  BY <1>4, <1>5, <1>6, <1>7, <1>8, <1>9, <1>10 DEF Proceed

LEMMA BeginBehind ==
  ASSUME TypeSafe, TypeOK', NothingAhead(rows'), NEW t \in Tasks, NEW u \in Users, Begin(t, u)
  PROVE  NothingAhead(rows)'
<1> USE DEF TypeSafe
<1>1. ArrayBehind(rows') /\ LoadBehind(rows')
  BY DEF NothingAhead
<1>2. ASSUME NEW r, Start(t, u, r), TaskBehind(rows', r), users' = users, boot' = boot
      PROVE  NothingAhead(rows)'
  <2>1. \A s \in Tasks : TaskBehind(rows', task'[s])
    BY <1>2, PutBehind DEF NothingAhead, Start
  <2> QED
    BY <1>1, <1>2, <2>1 DEF NothingAhead, ArrayBehind, LoadBehind, TaskBehind
<1>3. ASSUME NEW w \in Signs, SignIn(t, u, w)
      PROVE  NothingAhead(rows)'
  <2>1. TaskBehind(rows', [at |-> "found", user |-> u, why |-> w, entry |-> users[u]])
    BY <1>1 DEF TaskBehind, ArrayBehind
  <2> QED
    BY <1>2, <1>3, <2>1 DEF SignIn
<1>4. CASE Register(t, u) \/ SpendPoint(t, u) \/ EarnPoint(t, u)
  <2>1. PICK e \in Rows : Update(t, u, e)
    BY <1>4, RowUpdates
  <2>2. rows'[u] = e
    BY <2>1, RowsType DEF Update
  <2>3. TaskBehind(rows', [at |-> "upsert", user |-> u, why |-> "row", entry |-> e])
    <3>1. Behind(rows', e, u)
      BY <2>2, RowBehindItself
    <3> QED
      BY <3>1 DEF TaskBehind
  <2> QED
    BY <1>2, <2>1, <2>3 DEF Update
<1>5. ASSUME NEW c \in Codes,
             GrantCoupon(t, u, c) \/ RemoveCoupon(t, u, c) \/ SendGift(t, u, c)
      PROVE  NothingAhead(rows)'
  <2>1. PICK w \in Patches : Start(t, u, [at |-> "patch", user |-> u, why |-> w, code |-> c])
    BY <1>5, ListsChange
  <2>2. TaskBehind(rows', [at |-> "patch", user |-> u, why |-> w, code |-> c])
    BY DEF TaskBehind
  <2>3. users' = users /\ boot' = boot
    BY <1>5, ListsChange
  <2> QED
    BY <1>2, <2>1, <2>2, <2>3
<1> QED
  BY <1>3, <1>4, <1>5 DEF Begin, Signs

LEMMA ProcessBehind ==
  ASSUME TypeSafe, NothingAhead(rows'), InitReads \/ InitWrites \/ Crash \/ Restart
  PROVE  NothingAhead(rows)'
<1>1. CASE InitReads
  <2>1. boot'.at = "writing" /\ boot'.seen = rows /\ rows' = rows /\ users' = users /\ task' = task
    BY <1>1 DEF InitReads
  <2>2. \A v \in Users : Behind(rows', rows[v], v)
    <3> SUFFICES ASSUME NEW v \in Users PROVE Behind(rows', rows[v], v)
      OBVIOUS
    <3>1. rows'[v] = rows[v] /\ rows[v] \in Rows \cup {None}
      BY <2>1 DEF TypeSafe, TypeOK
    <3>2. CASE rows[v] \in Rows
      BY <3>1, <3>2, RowBehindItself
    <3>3. CASE rows[v] = None
      BY <3>3 DEF Behind
    <3> QED
      BY <3>1, <3>2, <3>3
  <2> QED
    BY <2>1, <2>2 DEF NothingAhead, ArrayBehind, LoadBehind, TaskBehind
<1>2. CASE InitWrites
  BY <1>2 DEF InitWrites, NothingAhead, ArrayBehind, LoadBehind, TaskBehind
<1>3. CASE Crash
  BY <1>3, IdleBehind DEF Crash, NothingAhead, ArrayBehind, LoadBehind, TaskBehind
<1>4. CASE Restart
  BY <1>4 DEF Restart, NothingAhead, ArrayBehind, LoadBehind, TaskBehind
<1> QED
  BY <1>1, <1>2, <1>3, <1>4

LEMMA InductiveStep == Inductive /\ [Next]_vars => Inductive'
<1> SUFFICES ASSUME Inductive, [Next]_vars
             PROVE  Inductive'
  OBVIOUS
<1>1. TypeSafe'
  BY TypeStep DEF Inductive
<1>2. CASE Next
  <2>1. TypeOK /\ TypeOK' /\ TypeSafe
    BY <1>1 DEF Inductive, TypeSafe
  <2>2. RowsGrow
    BY <1>2, <2>1, RowsOnlyGrow
  <2>3. NothingAhead(rows')
    BY <2>1, <2>2, NothingAheadGrows DEF Inductive
  <2>4. NothingAhead(rows)'
    BY <1>2, <2>1, <2>3, ProceedBehind, BeginBehind, ProcessBehind DEF Next
  <2> QED
    BY <1>1, <2>4 DEF Inductive
<1>3. CASE UNCHANGED vars
  <2>1. NothingAhead(rows)'
    BY <1>3 DEF vars, Inductive, NothingAhead, ArrayBehind, LoadBehind, TaskBehind, Behind
  <2> QED
    BY <1>1, <2>1 DEF Inductive
<1> QED
  BY <1>2, <1>3

\* Whatever updates are lost, and after any crash: the array never holds tokens
\* that the user's row does not know yet, nor a user without a row, for any
\* number of users, requests in flight and restarts.
THEOREM CacheNeverAhead == Spec => []NeverAheadOfRows
<1>1. Init => Inductive
  <2> SUFFICES ASSUME Init PROVE Inductive
    OBVIOUS
  <2>1. TypeSafe
    BY InitType DEF Init, TypeSafe, PatchedIsThere, At, Idle
  <2>2. NothingAhead(rows)
    BY DEF Init, NothingAhead, ArrayBehind, LoadBehind, TaskBehind, Behind, Idle
  <2> QED
    BY <2>1, <2>2 DEF Inductive
<1>2. Inductive => NeverAheadOfRows
  BY DEF Inductive, NothingAhead, ArrayBehind, Behind, NeverAheadOfRows
<1> QED
  BY <1>1, <1>2, InductiveStep, PTL DEF Spec

-----------------------------------------------------------------------------
(* What the array shows of a user whose requests come one at a time.        *)

\* The request of such a user has no other beside it, and came after the start.
Alone(t) == (task[t] # Idle /\ task[t].user \notin crowded) =>
    /\ boot.at = "done"
    /\ \A s \in Tasks : task[s] # Idle /\ task[s].user = task[t].user => s = t

\* Entry `e` shows what there is to see of row `r`, `g` being the codes of gifts.
Shows(r, g, e) ==
    /\ r # None /\ e # None
    /\ e.box \ g = r.box \ g
    /\ e.point \in {r.point, Gone}

\* The user's entry shows the row, and has its tokens.
Fresh(u) ==
    /\ rows[u] # None => Shows(rows[u], gifted, users[u])
    /\ u \notin behind /\ users[u] # None => users[u].tok = rows[u].tok

\* A sign-in found the entry; what follows a change of the row caches the row,
\* a password login what it found; a patch makes of the entry what shows the row.
Carries(t) == (task[t] # Idle /\ task[t].user \notin crowded) =>
    LET k == task[t]
        u == task[t].user IN
    /\ k.at = "found" /\ u \notin stale => k.entry = users[u] /\ Fresh(u)
    /\ k.at \in {"upsert", "upserting"} /\ k.why # "login" => k.entry = rows[u]
    /\ k.at \in {"upsert", "upserting"} /\ k.why = "login" /\ u \notin stale =>
          Shows(rows[u], gifted, k.entry)
    /\ k.at \in {"patch", "patching"} /\ u \notin stale =>
          /\ users[u] # None
          /\ Shows(rows[u], gifted, Patched(users[u], k.why, k.code))
          /\ u \notin behind => users[u].tok = rows[u].tok

EntriesFresh ==
    /\ \A t \in Tasks : Alone(t) /\ Carries(t)
    /\ \A u \in Settled : Fresh(u)

\* What a patch makes of an entry, field by field.
LEMMA PatchedFields ==
  ASSUME NEW e \in Entries, NEW c \in Codes
  PROVE  /\ Patched(e, "add", c).box = e.box \cup {c}
         /\ Patched(e, "add", c).point = Gone
         /\ Patched(e, "remove", c).box = e.box \ {c}
         /\ Patched(e, "remove", c).point = e.point
<1>1. Patched(e, "add", c) = [e EXCEPT !.box = e.box \cup {c}, !.point = Gone]
  BY DEF Patched
<1>2. Patched(e, "remove", c) = [e EXCEPT !.box = e.box \ {c}]
  BY DEF Patched
<1>3. /\ [e EXCEPT !.box = e.box \cup {c}, !.point = Gone].box = e.box \cup {c}
      /\ [e EXCEPT !.box = e.box \cup {c}, !.point = Gone].point = Gone
  BY DEF Entries
<1>4. /\ [e EXCEPT !.box = e.box \ {c}].box = e.box \ {c}
      /\ [e EXCEPT !.box = e.box \ {c}].point = e.point
  BY DEF Entries
<1> QED
  BY <1>1, <1>2, <1>3, <1>4

\* A row whose box changes, field by field.
LEMMA RowFields ==
  ASSUME NEW r \in Rows, NEW b \in SUBSET Codes
  PROVE  /\ [r EXCEPT !.box = b] \in Rows /\ [r EXCEPT !.box = b].tok = r.tok
         /\ [r EXCEPT !.box = b].box = b /\ [r EXCEPT !.box = b].point = r.point
<1>1. [r EXCEPT !.box = b] \in Rows
  BY RowType
<1> QED
  BY <1>1 DEF Rows

\* Each of the methods patches the entry into one that shows the new row,
\* if the entry showed the old one.
LEMMA PatchShows ==
  ASSUME TypeOK, NEW t \in Tasks, NEW u \in Users, NEW c \in Codes,
         GrantCoupon(t, u, c) \/ RemoveCoupon(t, u, c) \/ SendGift(t, u, c)
  PROVE  \E n \in Rows, w \in Patches :
           /\ Start(t, u, [at |-> "patch", user |-> u, why |-> w, code |-> c])
           /\ rows[u] # None /\ rows' = [rows EXCEPT ![u] = n] /\ n.tok = rows[u].tok
           /\ gifted \subseteq gifted' /\ UNCHANGED <<users, boot, stale, behind>>
           /\ Shows(rows[u], gifted, users[u]) => Shows(n, gifted', Patched(users[u], w, c))
<1> DEFINE r == rows[u]
           e == users[u]
           more == r.box \cup {c}
           less == r.box \ {c}
<1>1. r \in Rows
  BY DEF TypeOK, GrantCoupon, RemoveCoupon, SendGift
<1>2. more \in SUBSET Codes /\ less \in SUBSET Codes
  BY <1>1 DEF Rows
<1>3. e # None => e \in Entries
  BY DEF TypeOK, Arrays, Maybe
<1>4. \A w \in Patches : e \in Entries => Patched(e, w, c) # None
  BY PatchedType, EntryFields
<1>5. r # None
  BY <1>1, RowType
<1> HIDE DEF r, e
<1>6. CASE GrantCoupon(t, u, c)
  <2> DEFINE n == [r EXCEPT !.box = more]
  <2>1. /\ Start(t, u, [at |-> "patch", user |-> u, why |-> "add", code |-> c])
        /\ rows' = [rows EXCEPT ![u] = n]
        /\ UNCHANGED <<gifted, users, boot, stale, behind>>
    BY <1>6 DEF GrantCoupon, r
  <2>2. /\ n \in Rows /\ n.tok = r.tok /\ n.box = more /\ n # None
        /\ n.point = r.point
    BY <1>1, <1>2, RowFields, RowType
  <2> HIDE DEF n
  <2>3. ASSUME Shows(r, gifted, e) PROVE Shows(n, gifted, Patched(e, "add", c))
    <3>1. e \in Entries /\ Patched(e, "add", c) # None
      BY <1>3, <1>4, <2>3 DEF Shows, Patches
    <3>2. /\ Patched(e, "add", c).box = e.box \cup {c}
          /\ Patched(e, "add", c).point = Gone
      BY <3>1, PatchedFields
    <3> QED
      BY <2>2, <2>3, <3>1, <3>2 DEF Shows
  <2>4. "add" \in Patches
    BY DEF Patches
  <2> QED
    BY <1>5, <2>1, <2>2, <2>3, <2>4 DEF r, e
<1>7. CASE RemoveCoupon(t, u, c)
  <2> DEFINE n == [r EXCEPT !.box = less]
  <2>1. /\ Start(t, u, [at |-> "patch", user |-> u, why |-> "remove", code |-> c])
        /\ rows' = [rows EXCEPT ![u] = n]
        /\ UNCHANGED <<gifted, users, boot, stale, behind>>
    BY <1>7 DEF RemoveCoupon, r
  <2>2. /\ n \in Rows /\ n.tok = r.tok /\ n.box = less /\ n # None
        /\ n.point = r.point
    BY <1>1, <1>2, RowFields, RowType
  <2> HIDE DEF n
  <2>3. ASSUME Shows(r, gifted, e) PROVE Shows(n, gifted, Patched(e, "remove", c))
    <3>1. e \in Entries /\ Patched(e, "remove", c) # None
      BY <1>3, <1>4, <2>3 DEF Shows, Patches
    <3>2. /\ Patched(e, "remove", c).box = e.box \ {c}
          /\ Patched(e, "remove", c).point = e.point
      BY <3>1, PatchedFields
    <3> QED
      BY <2>2, <2>3, <3>1, <3>2 DEF Shows
  <2>4. "remove" \in Patches
    BY DEF Patches
  <2> QED
    BY <1>5, <2>1, <2>2, <2>3, <2>4 DEF r, e
<1>8. CASE SendGift(t, u, c)
  <2>1. /\ Start(t, u, [at |-> "patch", user |-> u, why |-> "add", code |-> c])
        /\ UNCHANGED <<rows, users, boot, stale, behind>> /\ gifted' = gifted \cup {c}
    BY <1>8 DEF SendGift
  <2>2. rows' = [rows EXCEPT ![u] = r]
    BY <2>1 DEF TypeOK, r
  <2>3. ASSUME Shows(r, gifted, e) PROVE Shows(r, gifted', Patched(e, "add", c))
    <3>1. e \in Entries /\ Patched(e, "add", c) # None
      BY <1>3, <1>4, <2>3 DEF Shows, Patches
    <3>2. Patched(e, "add", c).box = e.box \cup {c} /\ Patched(e, "add", c).point = Gone
      BY <3>1, PatchedFields
    <3> QED
      BY <2>1, <2>3, <3>1, <3>2 DEF Shows
  <2>4. "add" \in Patches /\ gifted \subseteq gifted'
    BY <2>1 DEF Patches
  <2> QED
    BY <1>1, <1>5, <2>1, <2>2, <2>3, <2>4 DEF r, e
<1> QED
  BY <1>6, <1>7, <1>8

\* A step that leaves the row of a user alone, and either the entry, too, or
\* puts it back as it was before.
Undisturbed(u) ==
    /\ rows'[u] = rows[u]
    /\ u \notin stale' => u \notin stale /\ users'[u] = users[u] /\ (u \in behind => u \in behind')

\* More gifts hide more of both boxes; a row shows itself.
LEMMA ShowsMore ==
  ASSUME NEW r, NEW e, NEW g, NEW h, g \subseteq h, Shows(r, g, e)
  PROVE  Shows(r, h, e)
  BY DEF Shows

LEMMA ShowsItself ==
  ASSUME NEW r \in Rows, NEW g
  PROVE  Shows(r, g, r)
  BY RowType DEF Shows

LEMMA FreshStays ==
  ASSUME NEW u \in Users, Undisturbed(u), gifted \subseteq gifted', u \notin stale', Fresh(u)
  PROVE  Fresh(u)'
<1>1. rows'[u] = rows[u] /\ users'[u] = users[u] /\ (u \notin behind' => u \notin behind)
  BY DEF Undisturbed
<1>2. rows[u] # None => Shows(rows[u], gifted', users[u])
  BY ShowsMore DEF Fresh
<1> QED
  BY <1>1, <1>2 DEF Fresh

\* A busy slot is one that has a user.
LEMMA BusyFacts ==
  ASSUME TypeOK, NEW t \in Tasks, task[t] # Idle
  PROVE  task[t].user \in Users /\ task[t].at # "idle"
  BY DEF TypeOK, Busy, Idle

LEMMA CarriesStays ==
  ASSUME TypeOK, NEW t \in Tasks, task'[t] = task[t], Carries(t), crowded \subseteq crowded',
         gifted \subseteq gifted',
         task[t] # Idle => Undisturbed(task[t].user)
  PROVE  Carries(t)'
<1> SUFFICES ASSUME task[t] # Idle, task[t].user \notin crowded'
             PROVE  Carries(t)'
  BY DEF Carries
<1>1. PICK u \in Users : task[t].user = u
  BY BusyFacts
<1>2. /\ u \notin crowded /\ rows'[u] = rows[u]
      /\ u \notin stale' => /\ u \notin stale /\ users'[u] = users[u]
                            /\ u \notin behind' => u \notin behind
  BY <1>1 DEF Undisturbed
<1>3. task[t].at = "found" /\ u \notin stale' => task[t].entry = users'[u] /\ Fresh(u)'
  BY <1>1, <1>2, FreshStays DEF Carries
<1>4. task[t].at \in {"upsert", "upserting"} /\ task[t].why # "login" => task[t].entry = rows'[u]
  BY <1>1, <1>2 DEF Carries
<1>5. task[t].at \in {"upsert", "upserting"} /\ task[t].why = "login" /\ u \notin stale' =>
         Shows(rows'[u], gifted', task[t].entry)
  BY <1>1, <1>2, ShowsMore DEF Carries
<1>6. task[t].at \in {"patch", "patching"} /\ u \notin stale' =>
         /\ users'[u] # None
         /\ Shows(rows'[u], gifted', Patched(users'[u], task[t].why, task[t].code))
         /\ u \notin behind' => users'[u].tok = rows'[u].tok
  BY <1>1, <1>2, ShowsMore DEF Carries
<1> QED
  BY <1>1, <1>3, <1>4, <1>5, <1>6 DEF Carries, Fresh

\* A step of one request, or with which one begins.
LEMMA RequestMoves ==
  ASSUME TypeOK, EntriesFresh, NEW t \in Tasks, NEW u \in Users,
         gifted \subseteq gifted', crowded \subseteq crowded', UNCHANGED boot,
         \A s \in Tasks \ {t} : task'[s] = task[s],
         task[t] # Idle => task[t].user = u,
         task'[t] # Idle => task'[t].user = u,
         task[t] = Idle /\ (InFlight(u) \/ boot.at # "done") => u \in crowded',
         \A v \in Users \ {u} : Undisturbed(v),
         Carries(t)', u \in Settled' => Fresh(u)'
  PROVE  EntriesFresh'
<1>1. \A s \in Tasks : Alone(s) /\ Carries(s)
  BY DEF EntriesFresh
<1>2. ASSUME NEW s \in Tasks \ {t}, task[s] # Idle, task[s].user = u
      PROVE  u \in crowded'
  <2>1. CASE task[t] = Idle
    BY <1>2, <2>1 DEF InFlight
  <2>2. CASE task[t] # Idle
    BY <1>1, <1>2, <2>2 DEF Alone
  <2> QED
    BY <2>1, <2>2
<1>3. ASSUME NEW s \in Tasks PROVE Alone(s)'
  <2> SUFFICES ASSUME task'[s] # Idle, task'[s].user \notin crowded'
               PROVE  /\ boot.at = "done"
                      /\ \A r \in Tasks : task'[r] # Idle /\ task'[r].user = task'[s].user => r = s
    BY DEF Alone
  <2>1. CASE s = t
    <3>1. u \notin crowded' /\ u \notin crowded
      BY <2>1
    <3>2. boot.at = "done"
      BY <1>1, <3>1 DEF Alone
    <3>3. \A r \in Tasks \ {t} : task'[r] # Idle => task'[r].user # u
      BY <1>2, <3>1
    <3> QED
      BY <2>1, <3>2, <3>3
  <2>2. CASE s # t
    <3>1. task'[s] = task[s] /\ task[s].user \notin crowded /\ task[s].user # u
      BY <1>2, <2>2
    <3>2. boot.at = "done"
      BY <1>1, <3>1 DEF Alone
    <3>3. \A r \in Tasks : task[r] # Idle /\ task[r].user = task[s].user => r = s
      BY <1>1, <3>1 DEF Alone
    <3> QED
      BY <3>1, <3>2, <3>3
  <2> QED
    BY <2>1, <2>2
<1>4. ASSUME NEW s \in Tasks PROVE Carries(s)'
  <2>1. CASE s = t
    BY <2>1
  <2>2. CASE s # t /\ task[s] # Idle /\ task[s].user = u
    <3>1. task'[s] = task[s] /\ u \in crowded'
      BY <1>2, <2>2
    <3> QED
      BY <2>2, <3>1 DEF Carries
  <2>3. CASE s # t /\ (task[s] = Idle \/ task[s].user # u)
    <3>1. task'[s] = task[s]
      BY <2>3
    <3>2. task[s] # Idle => Undisturbed(task[s].user)
      BY <2>3, BusyFacts
    <3> QED
      BY <1>1, <3>1, <3>2, CarriesStays
  <2> QED
    BY <2>1, <2>2, <2>3
<1>5. ASSUME NEW v \in Settled' PROVE Fresh(v)'
  <2>1. /\ v \in Users /\ v \notin stale' /\ v \notin crowded' /\ boot.at = "done"
        /\ \A s \in Tasks : task'[s] # Idle => task'[s].user # v
    BY DEF Settled, InFlight
  <2>2. CASE v = u
    BY <2>2
  <2>3. CASE v # u
    <3>1. Undisturbed(v)
      BY <2>1, <2>3
    <3>2. v \notin stale
      BY <2>1, <3>1 DEF Undisturbed
    <3>3. \A s \in Tasks : task[s] # Idle => task[s].user # v
      BY <2>1, <2>3
    <3>4. v \in Settled
      BY <2>1, <3>2, <3>3 DEF Settled, InFlight
    <3>5. Fresh(v)
      BY <3>4 DEF EntriesFresh
    <3> QED
      BY <2>1, <3>1, <3>5, FreshStays
  <2> QED
    BY <2>2, <2>3
<1> QED
  BY <1>3, <1>4, <1>5 DEF EntriesFresh

\* A request begins with one of these.
LEMMA StartFacts ==
  ASSUME TypeOK, NEW t \in Tasks, NEW u \in Users, NEW r, r.user = u, Start(t, u, r)
  PROVE  /\ task[t] = Idle /\ task'[t] = r /\ \A s \in Tasks \ {t} : task'[s] = task[s]
         /\ crowded \subseteq crowded'
         /\ InFlight(u) \/ boot.at # "done" => u \in crowded'
  BY DEF Start, Put, TypeOK

\* A user with a request under way is not settled.
LEMMA BusyIsUnsettled ==
  ASSUME NEW t \in Tasks, NEW u \in Users, task'[t] # Idle, task'[t].user = u
  PROVE  u \notin Settled'
  BY DEF Settled, InFlight

LEMMA BeginFresh ==
  ASSUME TypeSafe, EntriesFresh, NEW t \in Tasks, NEW u \in Users, Begin(t, u)
  PROVE  EntriesFresh'
<1> USE DEF TypeSafe
<1>1. ASSUME u \notin crowded, ~InFlight(u), boot.at = "done", u \notin stale
      PROVE  Fresh(u)
  BY <1>1 DEF EntriesFresh, Settled
<1>2. ASSUME NEW w \in Signs, SignIn(t, u, w) PROVE EntriesFresh'
  <2> DEFINE r == [at |-> "found", user |-> u, why |-> w, entry |-> users[u]]
  <2>1. /\ task[t] = Idle /\ task'[t] = r /\ \A s \in Tasks \ {t} : task'[s] = task[s]
        /\ crowded \subseteq crowded'
        /\ InFlight(u) \/ boot.at # "done" => u \in crowded'
    <3>1. Start(t, u, r) /\ r.user = u
      BY <1>2 DEF SignIn
    <3> HIDE DEF r
    <3> QED
      BY <3>1, StartFacts
  <2>2. UNCHANGED <<rows, users, boot, gifted, stale, behind>>
    BY <1>2 DEF SignIn
  <2>3. u \notin crowded' /\ u \notin stale => Fresh(u)
    BY <1>1, <2>1
  <2>4. Carries(t)'
    BY <2>1, <2>2, <2>3 DEF Carries, Fresh
  <2>5. u \notin Settled'
    BY <2>1, BusyIsUnsettled DEF Idle
  <2>6. \A v \in Users : Undisturbed(v)
    BY <2>2 DEF Undisturbed
  <2>7. task'[t].user = u
    BY <2>1
  <2> QED
    BY <2>1, <2>2, <2>4, <2>5, <2>6, <2>7, RequestMoves
<1>3. CASE Register(t, u) \/ SpendPoint(t, u) \/ EarnPoint(t, u)
  <2>1. PICK e \in Rows : Update(t, u, e)
    BY <1>3, RowUpdates
  <2> DEFINE r == [at |-> "upsert", user |-> u, why |-> "row", entry |-> e]
  <2>2. /\ task[t] = Idle /\ task'[t] = r /\ \A s \in Tasks \ {t} : task'[s] = task[s]
        /\ crowded \subseteq crowded'
        /\ InFlight(u) \/ boot.at # "done" => u \in crowded'
    <3>1. Start(t, u, r) /\ r.user = u
      BY <2>1 DEF Update
    <3> HIDE DEF r
    <3> QED
      BY <3>1, StartFacts
  <2>3. /\ UNCHANGED <<users, boot, gifted, stale, behind>>
        /\ rows'[u] = e /\ \A v \in Users \ {u} : rows'[v] = rows[v]
    BY <2>1, RowsType DEF Update
  <2>4. Carries(t)'
    BY <2>2, <2>3 DEF Carries
  <2>5. u \notin Settled'
    BY <2>2, BusyIsUnsettled DEF Idle
  <2>6. \A v \in Users \ {u} : Undisturbed(v)
    BY <2>3 DEF Undisturbed
  <2>7. task'[t].user = u
    BY <2>2
  <2> QED
    BY <2>2, <2>3, <2>4, <2>5, <2>6, <2>7, RequestMoves
<1>4. ASSUME NEW c \in Codes, NEW w \in Patches, NEW n \in Rows,
             Start(t, u, [at |-> "patch", user |-> u, why |-> w, code |-> c]),
             rows[u] # None, rows' = [rows EXCEPT ![u] = n], n.tok = rows[u].tok,
             gifted \subseteq gifted', UNCHANGED <<users, boot, stale, behind>>,
             Shows(rows[u], gifted, users[u]) => Shows(n, gifted', Patched(users[u], w, c))
      PROVE  EntriesFresh'
  <2> DEFINE r == [at |-> "patch", user |-> u, why |-> w, code |-> c]
  <2>1. /\ task[t] = Idle /\ task'[t] = r /\ \A s \in Tasks \ {t} : task'[s] = task[s]
        /\ crowded \subseteq crowded'
        /\ InFlight(u) \/ boot.at # "done" => u \in crowded'
    <3>1. Start(t, u, r) /\ r.user = u
      BY <1>4
    <3> HIDE DEF r
    <3> QED
      BY <3>1, StartFacts
  <2>2. rows'[u] = n /\ \A v \in Users \ {u} : rows'[v] = rows[v]
    BY <1>4, RowsType
  <2>3. u \notin crowded' /\ u \notin stale =>
           /\ users[u] # None /\ Shows(n, gifted', Patched(users[u], w, c))
           /\ u \notin behind => users[u].tok = n.tok
    BY <1>1, <1>4, <2>1 DEF Fresh, Shows
  <2>4. Carries(t)'
    BY <1>4, <2>1, <2>2, <2>3 DEF Carries
  <2>5. u \notin Settled'
    BY <2>1, BusyIsUnsettled DEF Idle
  <2>6. \A v \in Users \ {u} : Undisturbed(v)
    BY <1>4, <2>2 DEF Undisturbed
  <2>7. task'[t].user = u
    BY <2>1
  <2> QED
    BY <1>4, <2>1, <2>4, <2>5, <2>6, <2>7, RequestMoves
<1>5. ASSUME NEW c \in Codes,
             GrantCoupon(t, u, c) \/ RemoveCoupon(t, u, c) \/ SendGift(t, u, c)
      PROVE  EntriesFresh'
  <2>1. \E n \in Rows, w \in Patches :
           /\ Start(t, u, [at |-> "patch", user |-> u, why |-> w, code |-> c])
           /\ rows[u] # None /\ rows' = [rows EXCEPT ![u] = n] /\ n.tok = rows[u].tok
           /\ gifted \subseteq gifted' /\ UNCHANGED <<users, boot, stale, behind>>
           /\ Shows(rows[u], gifted, users[u]) => Shows(n, gifted', Patched(users[u], w, c))
    BY <1>5, PatchShows
  <2> QED
    BY <1>4, <2>1
<1> QED
  BY <1>2, <1>3, <1>5 DEF Begin, Signs

\* The user's request is done, and the entry is as good as it was.
LEMMA RequestEnds ==
  ASSUME TypeOK, EntriesFresh, NEW t \in Tasks, NEW u \in Users, task[t] # Idle, task[t].user = u,
         Put(t, Idle), UNCHANGED <<rows, boot, gifted, crowded>>,
         \A v \in Users \ {u} : Undisturbed(v),
         u \notin crowded /\ u \notin stale' => Fresh(u)'
  PROVE  EntriesFresh'
<1>1. task'[t] = Idle /\ \A s \in Tasks \ {t} : task'[s] = task[s]
  BY DEF Put, TypeOK
<1>2. Carries(t)'
  BY <1>1 DEF Carries
<1>3. u \in Settled' => Fresh(u)'
  BY DEF Settled
<1> QED
  BY <1>1, <1>2, <1>3, RequestMoves

\* It goes on.
LEMMA RequestGoesOn ==
  ASSUME TypeOK, EntriesFresh, NEW t \in Tasks, NEW u \in Users, task[t] # Idle, task[t].user = u,
         NEW r, Put(t, r), r # Idle, r.user = u, UNCHANGED <<boot, gifted, crowded>>,
         \A v \in Users \ {u} : Undisturbed(v), Carries(t)'
  PROVE  EntriesFresh'
<1>1. task'[t] = r /\ \A s \in Tasks \ {t} : task'[s] = task[s]
  BY DEF Put, TypeOK
<1>2. u \notin Settled'
  BY <1>1, BusyIsUnsettled
<1> QED
  BY <1>1, <1>2, RequestMoves

LEMMA SignInFresh ==
  ASSUME TypeSafe, EntriesFresh, NEW t \in Tasks, LookUp(t) \/ SignedIn(t) \/ SignInFails(t)
  PROVE  EntriesFresh'
<1> USE DEF TypeSafe
<1>1. /\ task[t] # Idle /\ At(t, "found") /\ Carries(t)
      /\ task[t] \in [at: {"found"}, user: Users, why: Signs, entry: Maybe]
  BY TaskFacts DEF LookUp, SignedIn, SignInFails, At, Idle, EntriesFresh
<1>2. PICK u \in Users : task[t].user = u
  BY <1>1
<1>3. u \notin crowded /\ u \notin stale => task[t].entry = users[u] /\ Fresh(u)
  BY <1>1, <1>2 DEF Carries, At
<1>4. CASE LookUp(t)
  <2> DEFINE r == [task[t] EXCEPT !.entry = rows[u]]
  <2>1. /\ UNCHANGED <<rows, users, boot, gifted, stale, behind, crowded>> /\ Put(t, r)
        /\ task[t].entry = None /\ rows[u] # None
    BY <1>2, <1>4 DEF LookUp
  <2>2. r.at = "found" /\ r.user = u
    BY <1>1, <1>2
  <2>3. u \in crowded \/ u \in stale
    BY <1>3, <2>1 DEF Fresh, Shows
  <2>4. task'[t] = r
    BY <2>1 DEF Put, TypeOK
  <2> HIDE DEF r
  <2>5. Carries(t)'
    BY <2>1, <2>2, <2>3, <2>4 DEF Carries
  <2>6. \A v \in Users : Undisturbed(v)
    BY <2>1 DEF Undisturbed
  <2>7. r # Idle
    BY <2>2 DEF Idle
  <2> QED
    BY <1>1, <1>2, <2>1, <2>2, <2>5, <2>6, <2>7, RequestGoesOn
<1>5. CASE SignedIn(t)
  <2> DEFINE n == [rows[u] EXCEPT !.tok = rows[u].tok + 1]
             x == ToCache(task[t].why, task[t].entry, rows'[u])
             r == [at |-> "upsert", user |-> u, why |-> task[t].why, entry |-> x]
  <2>1. /\ UNCHANGED <<users, boot, gifted, stale, behind, crowded>> /\ Put(t, r)
        /\ rows[u] \in Rows /\ rows' = [rows EXCEPT ![u] = n]
    BY <1>2, <1>5, SignedInType DEF SignedIn
  <2>2. n \in Rows /\ n.box = rows[u].box /\ n.point = rows[u].point
    <3>1. n \in Rows
      BY <2>1, RowType
    <3> QED
      BY <2>1, <3>1 DEF Rows
  <2>3. rows'[u] = n /\ \A v \in Users \ {u} : rows'[v] = rows[v]
    BY <2>1, <2>2, RowsType
  <2>4. task'[t] = r
    BY <2>1 DEF Put, TypeOK
  <2>5. n # None
    BY <2>2, RowType
  <2> HIDE DEF n
  <2>6. task[t].why # "login" => x = n
    BY <2>3 DEF ToCache
  <2>7. u \notin crowded /\ u \notin stale /\ task[t].why = "login" => Shows(n, gifted, x)
    <3> SUFFICES ASSUME u \notin crowded, u \notin stale, task[t].why = "login"
                 PROVE  Shows(n, gifted, x)
      OBVIOUS
    <3>1. x = users[u] /\ Fresh(u)
      BY <1>3 DEF ToCache
    <3>2. Shows(rows[u], gifted, users[u])
      BY <2>1, <3>1, RowType DEF Fresh
    <3> QED
      BY <2>2, <2>5, <3>1, <3>2 DEF Shows
  <2> HIDE DEF x
  <2>8. Carries(t)'
    BY <2>1, <2>3, <2>4, <2>6, <2>7 DEF Carries
  <2>9. \A v \in Users \ {u} : Undisturbed(v)
    BY <2>1, <2>3 DEF Undisturbed
  <2>10. r # Idle /\ r.user = u
    BY DEF Idle
  <2> HIDE DEF r
  <2> QED
    BY <1>1, <1>2, <2>1, <2>8, <2>9, <2>10, RequestGoesOn
<1>6. CASE SignInFails(t)
  <2>1. UNCHANGED <<rows, users, boot, gifted, stale, behind, crowded>> /\ Put(t, Idle)
    BY <1>6 DEF SignInFails
  <2>2. \A v \in Users : Undisturbed(v)
    BY <2>1 DEF Undisturbed
  <2>3. u \notin crowded /\ u \notin stale' => Fresh(u)'
    BY <1>3, <2>1 DEF Fresh
  <2> QED
    BY <1>1, <1>2, <2>1, <2>2, <2>3, RequestEnds
<1> QED
  BY <1>4, <1>5, <1>6

\* Who is not put back as before has in the array that was read what is there.
LEMMA NotPutBack ==
  ASSUME NEW a, NEW v \in Users, v \notin PutBack(a)
  PROVE  a[v] = users[v]
  BY DEF PutBack

LEMMA UpsertFresh ==
  ASSUME TypeSafe, EntriesFresh, NEW t \in Tasks, UpsertReads(t) \/ UpsertWrites(t)
  PROVE  EntriesFresh'
<1> USE DEF TypeSafe
<1> DEFINE w == task[t].why
           e == task[t].entry
<1>1. /\ task[t] # Idle /\ task[t].at \in {"upsert", "upserting"} /\ Carries(t)
      /\ task[t].user \in Users /\ e \in Entries
  BY TaskFacts DEF UpsertReads, UpsertWrites, At, Idle, EntriesFresh
<1>2. PICK u \in Users : task[t].user = u
  BY <1>1
<1>3. u \notin crowded => /\ w # "login" => e = rows[u]
                          /\ w = "login" /\ u \notin stale => Shows(rows[u], gifted, e)
  BY <1>1, <1>2 DEF Carries
<1>4. CASE UpsertReads(t)
  <2> DEFINE r == [at |-> "upserting", user |-> u, why |-> w, entry |-> e, caches |-> users]
  <2>1. UNCHANGED <<rows, users, boot, gifted, stale, behind, crowded>> /\ Put(t, r)
    BY <1>2, <1>4 DEF UpsertReads
  <2>2. task'[t] = r
    BY <2>1 DEF Put, TypeOK
  <2>3. Carries(t)'
    BY <1>3, <2>1, <2>2 DEF Carries
  <2>4. \A v \in Users : Undisturbed(v)
    BY <2>1 DEF Undisturbed
  <2>5. r # Idle /\ r.user = u
    BY DEF Idle
  <2> HIDE DEF r
  <2> QED
    BY <1>1, <1>2, <2>1, <2>3, <2>4, <2>5, RequestGoesOn
<1>5. CASE UpsertWrites(t)
  <2> DEFINE a == task[t].caches
  <2>1. /\ UNCHANGED <<rows, boot, gifted, crowded>> /\ Put(t, Idle)
        /\ users' = [a EXCEPT ![u] = e]
        /\ stale' = (stale \cup (PutBack(a) \ {u})) \ {v \in {u} : e = rows[u]}
        /\ behind' = IF w = "login" THEN behind \cup {u} ELSE behind \ {u}
    BY <1>2, <1>5 DEF UpsertWrites, Upserted
  <2>2. a \in Arrays
    BY <1>5, TaskFacts DEF UpsertWrites
  <2>3. \A v \in Users : users'[v] = IF v = u THEN e ELSE a[v]
    BY <2>1, <2>2 DEF Arrays
  <2>4. ASSUME NEW v \in Users \ {u} PROVE Undisturbed(v)
    <3>1. v \notin stale' => v \notin stale /\ v \notin PutBack(a)
      BY <2>1
    <3>2. v \in behind => v \in behind'
      BY <2>1
    <3> QED
      BY <2>1, <2>3, <3>1, <3>2, NotPutBack DEF Undisturbed
  <2>5. ASSUME u \notin crowded, u \notin stale' PROVE Fresh(u)'
    <3>1. users'[u] = e /\ e # None
      BY <1>1, <2>3, EntryFields
    <3>2. e = rows[u] => rows[u] \in Rows
      BY <3>1 DEF TypeOK
    <3>3. e = rows[u] => Shows(rows[u], gifted, e)
      BY <3>2, ShowsItself
    <3>4. e = rows[u] \/ u \notin stale
      BY <2>1, <2>5
    <3>5. Shows(rows[u], gifted, e)
      BY <1>3, <2>5, <3>3, <3>4
    <3>6. u \notin behind' => e = rows[u]
      BY <1>3, <2>1, <2>5
    <3> QED
      BY <2>1, <3>1, <3>5, <3>6 DEF Fresh
  <2> QED
    BY <1>1, <1>2, <2>1, <2>4, <2>5, RequestEnds
<1> QED
  BY <1>4, <1>5

LEMMA PatchFresh ==
  ASSUME TypeSafe, EntriesFresh, NEW t \in Tasks, PatchReads(t) \/ PatchWrites(t)
  PROVE  EntriesFresh'
<1> USE DEF TypeSafe
<1> DEFINE w == task[t].why
           c == task[t].code
<1>1. /\ task[t] # Idle /\ task[t].at \in {"patch", "patching"} /\ Carries(t)
      /\ task[t].user \in Users /\ w \in Patches /\ c \in Codes
  BY TaskFacts DEF PatchReads, PatchWrites, At, Idle, EntriesFresh
<1>2. PICK u \in Users : task[t].user = u
  BY <1>1
<1>3. u \notin crowded /\ u \notin stale =>
         /\ users[u] # None
         /\ Shows(rows[u], gifted, Patched(users[u], w, c))
         /\ u \notin behind => users[u].tok = rows[u].tok
  BY <1>1, <1>2 DEF Carries
<1>4. CASE PatchReads(t)
  <2> DEFINE r == [at |-> "patching", user |-> u, why |-> w, code |-> c, caches |-> users]
  <2>1. /\ UNCHANGED <<rows, users, boot, gifted, stale, behind, crowded>>
        /\ IF users[u] = None THEN Put(t, Idle) ELSE Put(t, r)
    BY <1>2, <1>4 DEF PatchReads
  <2>2. \A v \in Users : Undisturbed(v)
    BY <2>1 DEF Undisturbed
  <2>3. CASE users[u] = None
    <3>1. u \in crowded \/ u \in stale
      BY <1>3, <2>3
    <3> QED
      BY <1>1, <1>2, <2>1, <2>2, <2>3, <3>1, RequestEnds
  <2>4. CASE users[u] # None
    <3>1. Put(t, r) /\ task'[t] = r
      BY <2>1, <2>4 DEF Put, TypeOK
    <3>2. Carries(t)'
      BY <1>3, <2>1, <3>1 DEF Carries
    <3>3. r # Idle /\ r.user = u
      BY DEF Idle
    <3> HIDE DEF r
    <3> QED
      BY <1>1, <1>2, <2>1, <2>2, <3>1, <3>2, <3>3, RequestGoesOn
  <2> QED
    BY <2>3, <2>4
<1>5. CASE PatchWrites(t)
  <2> DEFINE a == task[t].caches
  <2>1. /\ UNCHANGED <<rows, boot, gifted, behind, crowded>> /\ Put(t, Idle)
        /\ users' = [a EXCEPT ![u] = Patched(a[u], w, c)]
        /\ stale' = stale \cup PutBack(a)
    BY <1>2, <1>5 DEF PatchWrites
  <2>2. a \in Arrays
    BY <1>5, TaskFacts DEF PatchWrites
  <2>3. \A v \in Users : users'[v] = IF v = u THEN Patched(a[u], w, c) ELSE a[v]
    BY <2>1, <2>2 DEF Arrays
  <2>4. ASSUME NEW v \in Users \ {u} PROVE Undisturbed(v)
    BY <2>1, <2>3, NotPutBack DEF Undisturbed
  <2>5. ASSUME u \notin crowded, u \notin stale' PROVE Fresh(u)'
    <3>1. u \notin stale /\ a[u] = users[u]
      BY <2>1, <2>5, NotPutBack
    <3>2. users[u] \in Entries
      BY <1>3, <2>5, <3>1 DEF TypeOK, Arrays, Maybe
    <3>3. users'[u] = Patched(users[u], w, c) /\ users'[u].tok = users[u].tok
      BY <1>1, <2>3, <3>1, <3>2, PatchedType
    <3> QED
      BY <1>3, <2>1, <2>5, <3>1, <3>3 DEF Fresh
  <2> QED
    BY <1>1, <1>2, <2>1, <2>4, <2>5, RequestEnds
<1> QED
  BY <1>4, <1>5

LEMMA ProcessFresh ==
  ASSUME TypeSafe, EntriesFresh, InitReads \/ InitWrites \/ Crash \/ Restart
  PROVE  EntriesFresh'
<1> USE DEF TypeSafe
<1>1. \A t \in Tasks : Alone(t) /\ Carries(t)
  BY DEF EntriesFresh
<1>2. CASE InitReads \/ Restart
  <2>1. /\ UNCHANGED <<rows, users, task, gifted, stale, behind, crowded>>
        /\ boot.at # "done" /\ boot'.at # "done"
    BY <1>2 DEF InitReads, Restart, Up
  <2>2. ASSUME NEW t \in Tasks PROVE Alone(t)' /\ Carries(t)'
    BY <1>1, <2>1 DEF Alone, Carries
  <2>3. Settled' = {}
    BY <2>1 DEF Settled
  <2> QED
    BY <2>2, <2>3 DEF EntriesFresh
<1>3. CASE InitWrites
  <2>1. /\ UNCHANGED <<rows, task, gifted, crowded>>
        /\ boot.at # "done" /\ boot'.at = "done" /\ users' = boot.seen
        /\ stale' = {u \in Users : boot.seen[u] # rows[u]}
    BY <1>3 DEF InitWrites
  <2>2. ASSUME NEW t \in Tasks PROVE Alone(t)' /\ Carries(t)'
    BY <1>1, <2>1 DEF Alone, Carries
  <2>3. ASSUME NEW u \in Settled' PROVE Fresh(u)'
    <3>1. u \in Users /\ users'[u] = rows[u]
      BY <2>1 DEF Settled
    <3>2. rows[u] # None => rows[u] \in Rows
      BY <3>1 DEF TypeOK
    <3>3. rows[u] # None => Shows(rows[u], gifted, rows[u])
      BY <3>2, ShowsItself
    <3> QED
      BY <2>1, <3>1, <3>3 DEF Fresh
  <2> QED
    BY <2>2, <2>3 DEF EntriesFresh
<1>4. CASE Crash
  <2>1. boot'.at # "done" /\ \A t \in Tasks : task'[t] = Idle
    BY <1>4 DEF Crash
  <2>2. \A t \in Tasks : Alone(t)' /\ Carries(t)'
    BY <2>1 DEF Alone, Carries
  <2>3. Settled' = {}
    BY <2>1 DEF Settled
  <2> QED
    BY <2>2, <2>3 DEF EntriesFresh
<1> QED
  BY <1>2, <1>3, <1>4

LEMMA NextFresh == TypeSafe /\ EntriesFresh /\ [Next]_vars => EntriesFresh'
<1> SUFFICES ASSUME TypeSafe, EntriesFresh, [Next]_vars PROVE EntriesFresh'
  OBVIOUS
<1>1. ASSUME NEW t \in Tasks, Proceed(t) \/ \E u \in Users : Begin(t, u)
      PROVE  EntriesFresh'
  BY <1>1, BeginFresh, SignInFresh, UpsertFresh, PatchFresh DEF Proceed
<1>2. CASE InitReads \/ InitWrites \/ Crash \/ Restart
  BY <1>2, ProcessFresh
<1>3. CASE UNCHANGED vars
  <2>1. UNCHANGED <<rows, users, task, boot, gifted, stale, behind, crowded>>
    BY <1>3 DEF vars
  <2>2. \A t \in Tasks : Alone(t)' /\ Carries(t)'
    BY <2>1 DEF EntriesFresh, Alone, Carries, Fresh
  <2>3. \A u \in Settled' : Fresh(u)'
    BY <2>1 DEF EntriesFresh, Settled, InFlight, Fresh
  <2> QED
    BY <2>2, <2>3 DEF EntriesFresh
<1> QED
  BY <1>1, <1>2, <1>3 DEF Next

LEMMA FreshInvariant == Spec => [](TypeSafe /\ EntriesFresh)
<1>1. Init => TypeSafe
  BY InitType DEF Init, TypeSafe, PatchedIsThere, At, Idle
<1>2. Init => EntriesFresh
  BY DEF Init, EntriesFresh, Alone, Carries, Settled
<1>3. TypeSafe /\ [Next]_vars => TypeSafe'
  BY TypeStep
<1> QED
  BY <1>1, <1>2, <1>3, NextFresh, PTL DEF Spec

\* What a sign-in shows of a user whose requests come one at a time is what the
\* rows hold, unless another writer put the entry back as it was before: one
\* request's read of the array, change of the row and write of the array leave
\* nothing behind, whatever the other users' requests and a restart do.
THEOREM ShownUsersAreCurrent == Spec => []UserShownIsCurrent
<1>1. EntriesFresh => UserShownIsCurrent
  BY DEF EntriesFresh, Fresh, Shows, UserShownIsCurrent
<1> QED
  BY <1>1, FreshInvariant, PTL

\* And the tokens that the array has for such a user are the ones on record,
\* unless the last word was a password login's.
THEOREM CachedSessionsAreOnRecord == Spec => []CachedSessionIsOnRecord
<1>1. EntriesFresh => CachedSessionIsOnRecord
  BY DEF EntriesFresh, Fresh, Settled, CachedSessionIsOnRecord
<1> QED
  BY <1>1, FreshInvariant, PTL
=============================================================================
