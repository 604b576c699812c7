----------------------------- MODULE Registration -----------------------------
(***************************************************************************)
(* Signing up by mail (UserService.publishCode, verifyCode, registUser with *)
(* EmailService and UserRepository.create).                                *)
(*                                                                         *)
(* Redis holds the application twice: first under the code that is mailed, *)
(* then, once the code was typed in, under the address; each has a time to *)
(* live.  The clean-up deletes and the second write are not awaited.  A    *)
(* call to Redis takes effect when it is issued, because one connection    *)
(* answers in order; its reply is used after the await.                    *)
(*                                                                         *)
(* Every publishCode draws a code, a salt and a hash, so the code names    *)
(* the application.  Codes are modelled as never drawn twice.  The entry   *)
(* that a new account gets in the "users" array is the subject of          *)
(* UserCache.                                                              *)
(***************************************************************************)
EXTENDS Naturals

CONSTANTS
    Users,          \* email addresses
    Codes,          \* codes; generateRandStr draws a new one each time
    Tasks,          \* slots for the requests in flight
    None,           \* no code; nobody
    MaxRequests,    \* bound: calls of verifyCode and registUser
    MaxRestarts     \* bound: restarts of the process

ASSUME NoneAssumption  == None \notin Users \cup Codes
ASSUME BoundAssumption == MaxRequests \in Nat /\ MaxRestarts \in Nat

VARIABLES
    owner,      \* whose application a code stands for; None when not drawn yet
    cached,     \* Redis: the codes under which an application is kept
    pending,    \* Redis: the application kept under an address
    rows,       \* Postgres: the application the user's row was made from
    mailed,     \* the codes whose mail arrived
    task,       \* what every slot is doing
    up,         \* the process runs
    verified,   \* history: the codes verifyCode accepted
    twice,      \* history: the codes it accepted a second time
    last,       \* history: the code it accepted last before the user's row
    crowded,    \* history: users with overlapping calls, or calls cut short
    asked,
    restarts

redis   == <<cached, pending>>
history == <<verified, twice, last>>
vars    == <<owner, redis, rows, mailed, task, up, history, crowded, asked, restarts>>

-----------------------------------------------------------------------------
MaybeCode == Codes \cup {None}
Idle      == [at |-> "idle"]

\* publishCode waits for Redis, then for the mail server; verifyCode has what
\* it read under the code, registUser what it read under the address; the row
\* is there and its caller does not know yet.
Busy ==
    [at: {"store", "mail"}, user: Users, code: Codes]
      \cup [at: {"verify"}, user: Users, code: Codes, found: BOOLEAN]
      \cup [at: {"regist"}, user: Users, code: MaybeCode]
      \cup [at: {"created"}, user: Users, code: Codes]

At(t, p)  == task[t].at = p
Put(t, r) == task' = [task EXCEPT ![t] = r]
End(t)    == Put(t, Idle)

\* verifyCode or registUser is under way for the user.
Calling(u) ==
    \E t \in Tasks : task[t].at \in {"verify", "regist", "created"} /\ task[t].user = u

\* A request takes a free slot of the running process.
Start(t, r) == up /\ task[t] = Idle /\ Put(t, r)

\* A call about the user is counted, and so is an overlap.
Call(u) ==
    /\ asked < MaxRequests
    /\ asked' = asked + 1
    /\ crowded' = IF Calling(u) THEN crowded \cup {u} ELSE crowded

\* The process dies with its tasks; Redis and Postgres remain.
Dies ==
    /\ up' = FALSE
    /\ task' = [t \in Tasks |-> Idle]
    /\ crowded' = crowded \cup {u \in Users : Calling(u)}

Init ==
    /\ owner = [c \in Codes |-> None]
    /\ cached = {}
    /\ pending = [u \in Users |-> None]
    /\ rows = [u \in Users |-> None]
    /\ mailed = {}
    /\ task = [t \in Tasks |-> Idle]
    /\ up = TRUE
    /\ verified = {}
    /\ twice = {}
    /\ last = [u \in Users |-> None]
    /\ crowded = {}
    /\ asked = 0
    /\ restarts = 0

-----------------------------------------------------------------------------
(* publishCode.                                                            *)

\* A code is drawn and the application put in Redis under it.
PublishCode(t, u, c) ==
    /\ owner[c] = None
    /\ Start(t, [at |-> "store", user |-> u, code |-> c])
    /\ owner' = [owner EXCEPT ![c] = u]
    /\ cached' = cached \cup {c}
    /\ UNCHANGED <<pending, rows, mailed, up, history, crowded, asked, restarts>>

\* Redis answers, and sendMail hands the mail to the mail server.
CodeStored(t) ==
    /\ At(t, "store")
    /\ Put(t, [task[t] EXCEPT !.at = "mail"])
    /\ UNCHANGED <<owner, redis, rows, mailed, up, history, crowded, asked, restarts>>

\* The mail arrives, before or after the mail server's answer does.
MailArrives(t) ==
    /\ At(t, "mail")
    /\ mailed' = mailed \cup {task[t].code}
    /\ UNCHANGED <<owner, redis, rows, task, up, history, crowded, asked, restarts>>

MailSent(t) ==
    /\ At(t, "mail")
    /\ task[t].code \in mailed
    /\ End(t)
    /\ UNCHANGED <<owner, redis, rows, mailed, up, history, crowded, asked, restarts>>

\* Redis or the mail server fails (the mail may have arrived all the same):
\* the code is deleted, which nobody waits for, and the call throws.
PublishFails(t) ==
    /\ At(t, "store") \/ At(t, "mail")
    /\ cached' = cached \ {task[t].code}
    /\ End(t)
    /\ UNCHANGED <<owner, pending, rows, mailed, up, history, crowded, asked, restarts>>

-----------------------------------------------------------------------------
(* verifyCode.                                                             *)

\* Somebody who got the mail types the code in; its key is read.
VerifyCode(t, c) ==
    /\ c \in mailed
    /\ Start(t, [at |-> "verify", user |-> owner[c], code |-> c, found |-> c \in cached])
    /\ Call(owner[c])
    /\ UNCHANGED <<owner, redis, rows, mailed, up, history, restarts>>

\* Nothing is kept under the code: NotFoundData.
CodeNotFound(t) ==
    /\ At(t, "verify")
    /\ ~task[t].found
    /\ End(t)
    /\ UNCHANGED <<owner, redis, rows, mailed, up, history, crowded, asked, restarts>>

\* The answer is true.
Accepts(u, c) ==
    /\ verified' = verified \cup {c}
    /\ twice' = IF c \in verified THEN twice \cup {c} ELSE twice
    /\ last' = IF rows[u] = None THEN [last EXCEPT ![u] = c] ELSE last

\* Mutations: the code is kept; what is pending for the address is kept.
ConfirmKeepsCode(u, c) ==
    cached' = cached /\ pending' = [pending EXCEPT ![u] = c]
ConfirmKeepsPending(u, c) ==
    cached' = cached \ {c} /\ pending' = [pending EXCEPT ![u] = IF @ = None THEN c ELSE @]

\* The application moves from the code to the address.
Confirm(u, c) ==
    cached' = cached \ {c} /\ pending' = [pending EXCEPT ![u] = c]

\* The two writes are issued, over whatever is pending for the address.
CodeFound(t) ==
    LET u == task[t].user
        c == task[t].code IN
    /\ At(t, "verify")
    /\ task[t].found
    /\ Confirm(u, c)
    /\ Accepts(u, c)
    /\ End(t)
    /\ UNCHANGED <<owner, rows, mailed, up, crowded, asked, restarts>>

\* One of the writes fails, or both: nobody handles the rejection, the answer
\* is true and the process ends.
ConfirmFails(t) ==
    LET u == task[t].user
        c == task[t].code IN
    /\ At(t, "verify")
    /\ task[t].found
    /\ \/ cached' = cached \ {c} /\ UNCHANGED pending
       \/ pending' = [pending EXCEPT ![u] = c] /\ UNCHANGED cached
       \/ UNCHANGED redis
    /\ Accepts(u, c)
    /\ Dies
    /\ UNCHANGED <<owner, rows, mailed, asked, restarts>>

-----------------------------------------------------------------------------
(* registUser.                                                             *)

\* The address's key is read.
RegistUser(t, u) ==
    /\ Start(t, [at |-> "regist", user |-> u, code |-> pending[u]])
    /\ Call(u)
    /\ UNCHANGED <<owner, redis, rows, mailed, up, history, restarts>>

\* Mutation: an application that is not verified yet will do.
CanCreateFromCode(t) ==
    rows[task[t].user] = None /\ \E c \in cached : owner[c] = task[t].user

\* Mutation: the row of an address that has one is written over.
CanCreateAgain(t) == task[t].code # None

\* There is an application, and user.create finds no row with the address.
CanCreate(t) == task[t].code # None /\ rows[task[t].user] = None

CreateUser(t) ==
    /\ At(t, "regist")
    /\ CanCreate(t)
    /\ rows' = [rows EXCEPT ![task[t].user] = task[t].code]
    /\ Put(t, [task[t] EXCEPT !.at = "created"])
    /\ UNCHANGED <<owner, redis, mailed, up, history, crowded, asked, restarts>>

\* No application (NotFoundData), a row with the address, or the database
\* fails; what is pending stays.
RegistFails(t) ==
    /\ At(t, "regist")
    /\ End(t)
    /\ UNCHANGED <<owner, redis, rows, mailed, up, history, crowded, asked, restarts>>

\* Mutation: the application is left to expire.
ForgetNothing(u) == UNCHANGED pending

\* redis.delete of the address, which nobody waits for: whatever is pending.
Forget(u) == pending' = [pending EXCEPT ![u] = None]

RegistDone(t) ==
    /\ At(t, "created")
    /\ Forget(task[t].user)
    /\ End(t)
    /\ UNCHANGED <<owner, cached, rows, mailed, up, history, crowded, asked, restarts>>

-----------------------------------------------------------------------------
(* Redis and the process.                                                  *)

\* The time to live of a key runs out (EMAIL_TTL, ten minutes).
CodeExpires(c) ==
    /\ c \in cached
    /\ cached' = cached \ {c}
    /\ UNCHANGED <<owner, pending, rows, mailed, task, up, history, crowded, asked, restarts>>

PendingExpires(u) ==
    /\ pending[u] # None
    /\ pending' = [pending EXCEPT ![u] = None]
    /\ UNCHANGED <<owner, cached, rows, mailed, task, up, history, crowded, asked, restarts>>

\* The process dies at any moment, also because one of the deletes that nobody
\* waits for fails.
Crash ==
    /\ up
    /\ restarts < MaxRestarts
    /\ Dies
    /\ UNCHANGED <<owner, redis, rows, mailed, history, asked, restarts>>

Restart ==
    /\ ~up
    /\ restarts < MaxRestarts
    /\ up' = TRUE
    /\ restarts' = restarts + 1
    /\ UNCHANGED <<owner, redis, rows, mailed, task, history, crowded, asked>>

-----------------------------------------------------------------------------
Proceed(t) ==
    \/ CodeStored(t) \/ MailArrives(t) \/ MailSent(t) \/ PublishFails(t)
    \/ CodeNotFound(t) \/ CodeFound(t) \/ ConfirmFails(t)
    \/ CreateUser(t) \/ RegistFails(t) \/ RegistDone(t)

Next ==
    \/ \E t \in Tasks :
         \/ Proceed(t)
         \/ \E c \in Codes : VerifyCode(t, c) \/ \E u \in Users : PublishCode(t, u, c)
         \/ \E u \in Users : RegistUser(t, u)
    \/ \E c \in Codes : CodeExpires(c)
    \/ \E u \in Users : PendingExpires(u)
    \/ Crash \/ Restart

Spec == Init /\ [][Next]_vars

-----------------------------------------------------------------------------
(* Properties.                                                             *)

TypeOK ==
    /\ owner \in [Codes -> Users \cup {None}]
    /\ cached \subseteq Codes
    /\ pending \in [Users -> MaybeCode]
    /\ rows \in [Users -> MaybeCode]
    /\ mailed \subseteq Codes
    /\ task \in [Tasks -> Busy \cup {Idle}]
    /\ up \in BOOLEAN
    /\ verified \subseteq Codes
    /\ twice \subseteq Codes
    /\ last \in [Users -> MaybeCode]
    /\ crowded \subseteq Users
    /\ asked \in 0..MaxRequests
    /\ restarts \in 0..MaxRestarts

\* Whoever applied several times gets the password of the code that was typed
\* in last before the account was made, whichever codes were mailed, expired
\* or typed in before: unless two of the user's calls overlapped or were cut
\* short.
AccountIsLastVerified ==
    \A u \in Users \ crowded : rows[u] # None => rows[u] = last[u]

\* An application serves once, as long as no two calls about its user overlapped
\* and none was cut short: its code is not accepted again, and an account that
\* was made from it leaves nothing behind to register with, not under the code
\* and not under the address.
ApplicationServesOnce ==
    \A u \in Users \ crowded :
        /\ \A c \in twice : owner[c] # u
        /\ (rows[u] # None /\ ~Calling(u)) => rows[u] \notin cached /\ pending[u] # rows[u]

\* The inductive invariant of the proofs: what is pending for an address, or
\* on its way into a row, was mailed to this address and typed in.
Confirmed(u, c) == c \in verified /\ owner[c] = u

ApplicationsWereConfirmed ==
    /\ mailed \subseteq {c \in Codes : owner[c] # None}
    /\ verified \subseteq mailed
    /\ \A u \in Users : pending[u] # None => Confirmed(u, pending[u])
    /\ \A t \in Tasks :
         /\ task[t].at \in {"store", "mail", "verify"} => owner[task[t].code] = task[t].user
         /\ At(t, "verify") => task[t].code \in mailed
         /\ At(t, "regist") /\ task[t].code # None => Confirmed(task[t].user, task[t].code)

Inductive == TypeOK /\ ApplicationsWereConfirmed

\* Registration implements Signup: one account per address, made from an
\* application whose code was mailed to the address and typed in, whatever
\* expires, overlaps, fails or crashes.
Promise == INSTANCE Signup WITH
    recipient <- [c \in Codes |-> IF c \in mailed THEN owner[c] ELSE None],
    confirmed <- verified,
    account <- rows

ImplementsSignup == Promise!Spec
=============================================================================
