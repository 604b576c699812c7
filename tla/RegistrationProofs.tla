--------------------------- MODULE RegistrationProofs ---------------------------
(***************************************************************************)
(* Theorems about Registration, for every set of addresses, codes and      *)
(* slots and every bound.                                                  *)
(***************************************************************************)
EXTENDS Registration, TLAPS

LEMMA InitTypeOK == Init => TypeOK
  BY BoundAssumption DEF Init, TypeOK, MaybeCode, Idle

LEMMA StepTypeOK == ASSUME Inductive, [Next]_vars PROVE TypeOK'
<1> USE BoundAssumption
        DEF Inductive, TypeOK, MaybeCode, Idle, Busy, At, Put, End, history, redis
<1>1. CASE UNCHANGED vars
  BY <1>1 DEF vars
<1>2. ASSUME NEW t \in Tasks, Proceed(t) PROVE TypeOK'
  <2>1. CASE CodeStored(t)
    BY <2>1 DEF CodeStored
  <2>2. CASE MailArrives(t)
    BY <2>2 DEF MailArrives
  <2>3. CASE MailSent(t)
    BY <2>3 DEF MailSent
  <2>4. CASE PublishFails(t)
    BY <2>4 DEF PublishFails
  <2>5. CASE CodeNotFound(t)
    BY <2>5 DEF CodeNotFound
  <2>6. CASE CodeFound(t)
    BY <2>6 DEF CodeFound, Confirm, Accepts
  <2>7. CASE ConfirmFails(t)
    <3>1. task[t].user \in Users /\ task[t].code \in Codes
      BY <2>7 DEF ConfirmFails
    <3>2. cached' \subseteq Codes /\ pending' \in [Users -> MaybeCode]
      BY <2>7, <3>1 DEF ConfirmFails
    <3>3. verified' \subseteq Codes /\ twice' \subseteq Codes /\ last' \in [Users -> MaybeCode]
      BY <2>7, <3>1 DEF ConfirmFails, Accepts
    <3>4. up' \in BOOLEAN /\ task' \in [Tasks -> Busy \cup {Idle}] /\ crowded' \subseteq Users
      BY <2>7 DEF ConfirmFails, Dies
    <3> QED
      BY <2>7, <3>2, <3>3, <3>4 DEF ConfirmFails
  <2>8. CASE CreateUser(t)
    BY <2>8 DEF CreateUser, CanCreate
  <2>9. CASE RegistFails(t)
    BY <2>9 DEF RegistFails
  <2>10. CASE RegistDone(t)
    BY <2>10 DEF RegistDone, Forget
  <2> QED
    BY <1>2, <2>1, <2>2, <2>3, <2>4, <2>5, <2>6, <2>7, <2>8, <2>9, <2>10 DEF Proceed
<1>3. ASSUME NEW t \in Tasks, NEW c \in Codes, VerifyCode(t, c) PROVE TypeOK'
  <2>1. owner[c] \in Users
    BY <1>3 DEF VerifyCode, ApplicationsWereConfirmed
  <2> QED
    BY <1>3, <2>1 DEF VerifyCode, Start, Call
<1>4. ASSUME NEW t \in Tasks, NEW c \in Codes, NEW u \in Users, PublishCode(t, u, c) PROVE TypeOK'
  BY <1>4 DEF PublishCode, Start
<1>5. ASSUME NEW t \in Tasks, NEW u \in Users, RegistUser(t, u) PROVE TypeOK'
  BY <1>5 DEF RegistUser, Start, Call
<1>6. ASSUME NEW c \in Codes, CodeExpires(c) PROVE TypeOK'
  BY <1>6 DEF CodeExpires
<1>7. ASSUME NEW u \in Users, PendingExpires(u) PROVE TypeOK'
  BY <1>7 DEF PendingExpires
<1>8. CASE Crash
  BY <1>8 DEF Crash, Dies
<1>9. CASE Restart
  BY <1>9 DEF Restart
<1> QED
  BY <1>1, <1>2, <1>3, <1>4, <1>5, <1>6, <1>7, <1>8, <1>9 DEF Next

-----------------------------------------------------------------------------
LEMMA InitConfirmed == Init => ApplicationsWereConfirmed
  BY DEF Init, ApplicationsWereConfirmed, Idle, At

\* A step moves an application only from a mailed code to the address of its
\* owner, and from there into the row.
LEMMA StepConfirmed == ASSUME Inductive, [Next]_vars PROVE ApplicationsWereConfirmed'
<1> USE NoneAssumption
        DEF Inductive, ApplicationsWereConfirmed, Confirmed, TypeOK, MaybeCode, Idle, Busy,
            At, Put, End, history, redis
<1>1. CASE UNCHANGED vars
  BY <1>1 DEF vars
<1>2. ASSUME NEW t \in Tasks, Proceed(t) PROVE ApplicationsWereConfirmed'
  <2>1. CASE CodeStored(t)
    BY <2>1 DEF CodeStored
  <2>2. CASE MailArrives(t)
    BY <2>2 DEF MailArrives
  <2>3. CASE MailSent(t)
    BY <2>3 DEF MailSent
  <2>4. CASE PublishFails(t)
    BY <2>4 DEF PublishFails
  <2>5. CASE CodeNotFound(t)
    BY <2>5 DEF CodeNotFound
  <2>6. CASE CodeFound(t)
    BY <2>6 DEF CodeFound, Confirm, Accepts
  <2>7. CASE ConfirmFails(t)
    BY <2>7 DEF ConfirmFails, Accepts, Dies
  <2>8. CASE CreateUser(t)
    BY <2>8 DEF CreateUser, CanCreate
  <2>9. CASE RegistFails(t)
    BY <2>9 DEF RegistFails
  <2>10. CASE RegistDone(t)
    BY <2>10 DEF RegistDone, Forget
  <2> QED
    BY <1>2, <2>1, <2>2, <2>3, <2>4, <2>5, <2>6, <2>7, <2>8, <2>9, <2>10 DEF Proceed
<1>3. ASSUME NEW t \in Tasks, NEW c \in Codes, VerifyCode(t, c) PROVE ApplicationsWereConfirmed'
  BY <1>3 DEF VerifyCode, Start, Call
<1>4. ASSUME NEW t \in Tasks, NEW c \in Codes, NEW u \in Users, PublishCode(t, u, c)
      PROVE ApplicationsWereConfirmed'
  BY <1>4 DEF PublishCode, Start
<1>5. ASSUME NEW t \in Tasks, NEW u \in Users, RegistUser(t, u) PROVE ApplicationsWereConfirmed'
  BY <1>5 DEF RegistUser, Start, Call
<1>6. ASSUME NEW c \in Codes, CodeExpires(c) PROVE ApplicationsWereConfirmed'
  BY <1>6 DEF CodeExpires
<1>7. ASSUME NEW u \in Users, PendingExpires(u) PROVE ApplicationsWereConfirmed'
  BY <1>7 DEF PendingExpires
<1>8. CASE Crash
  BY <1>8 DEF Crash, Dies
<1>9. CASE Restart
  BY <1>9 DEF Restart
<1> QED
  BY <1>1, <1>2, <1>3, <1>4, <1>5, <1>6, <1>7, <1>8, <1>9 DEF Next

\* The inductive invariant.
THEOREM InductiveInvariant == Spec => []Inductive
<1>1. Init => Inductive
  BY InitTypeOK, InitConfirmed DEF Inductive
<1>2. Inductive /\ [Next]_vars => Inductive'
  BY StepTypeOK, StepConfirmed DEF Inductive
<1> QED
  BY <1>1, <1>2, PTL DEF Spec

\* Every variable keeps its type.
THEOREM TypeCorrect == Spec => []TypeOK
<1>1. Inductive => TypeOK
  BY DEF Inductive
<1> QED
  BY <1>1, InductiveInvariant, PTL

-----------------------------------------------------------------------------
(* The refinement.                                                          *)

LEMMA InitRefines == Init => Promise!Init
  BY DEF Init, Promise!Init

\* The code mailed at a step, if any, is the only one whose recipient changes.
LEMMA StepRefines ==
  ASSUME Inductive, [Next]_vars
  PROVE  [Promise!Next]_(Promise!vars)
<1> DEFINE to == [c \in Codes |-> IF c \in mailed THEN owner[c] ELSE None]
<1> USE NoneAssumption
        DEF Inductive, ApplicationsWereConfirmed, Confirmed, TypeOK, MaybeCode, Idle, Busy,
            At, Put, End, history, redis
<1> SUFFICES ASSUME ~ (UNCHANGED Promise!vars) PROVE Promise!Next
  OBVIOUS
<1>0. ~ (UNCHANGED <<owner, mailed, verified, rows>>)
  BY DEF Promise!vars
<1>1. ASSUME NEW t \in Tasks, Proceed(t) PROVE Promise!Next
  <2>1. CASE MailArrives(t)
    <3>1. PICK c \in Codes : c = task[t].code /\ c \notin mailed
      BY <1>0, <2>1 DEF MailArrives
    <3>2. PICK u \in Users : u = owner[c]
      BY <2>1, <3>1 DEF MailArrives
    <3>3. to' = [to EXCEPT ![c] = u]
      BY <2>1, <3>1, <3>2 DEF MailArrives
    <3>4. Promise!Mail(c, u)
      BY <2>1, <3>1, <3>2, <3>3 DEF MailArrives, Promise!Mail
    <3> QED
      BY <3>4 DEF Promise!Next
  <2>2. CASE CodeFound(t) \/ ConfirmFails(t)
    <3>1. task[t].code \in mailed
      BY <2>2 DEF CodeFound, ConfirmFails
    <3>2. Promise!Confirm(task[t].code)
      BY <2>2, <3>1 DEF CodeFound, ConfirmFails, Accepts, Promise!Confirm
    <3> QED
      BY <3>1, <3>2 DEF Promise!Next
  <2>3. CASE CreateUser(t)
    <3>1. /\ task[t].user \in Users /\ task[t].code \in Codes
          /\ Confirmed(task[t].user, task[t].code)
      BY <2>3 DEF CreateUser, CanCreate
    <3>2. Promise!Open(task[t].user, task[t].code)
      BY <2>3, <3>1 DEF CreateUser, CanCreate, Promise!Open
    <3> QED
      BY <3>1, <3>2 DEF Promise!Next
  <2> QED
    BY <1>0, <1>1, <2>1, <2>2, <2>3
    DEF Proceed, CodeStored, MailSent, PublishFails, CodeNotFound, RegistFails, RegistDone
<1>2. ASSUME NEW t \in Tasks, NEW c \in Codes, NEW u \in Users, PublishCode(t, u, c)
      PROVE UNCHANGED Promise!vars
  <2>1. c \notin mailed /\ mailed' = mailed
    BY <1>2 DEF PublishCode
  <2>2. to' = to
    BY <1>2, <2>1 DEF PublishCode
  <2> QED
    BY <1>2, <2>2 DEF PublishCode, Promise!vars
<1> QED
  BY <1>0, <1>1, <1>2
  DEF Next, vars, VerifyCode, RegistUser, CodeExpires, PendingExpires, Crash, Restart

\* Registration implements Signup.
THEOREM RefinesSignup == Spec => ImplementsSignup
<1>1. Inductive /\ [Next]_vars => [Promise!Next]_(Promise!vars)
  BY StepRefines
<1> QED
  BY <1>1, InitRefines, InductiveInvariant, PTL DEF Spec, ImplementsSignup, Promise!Spec

-----------------------------------------------------------------------------
(***************************************************************************)
(* The last code, and codes that served.  As long as no two calls about a  *)
(* user overlapped and none was cut short, there is one call at most, and  *)
(* what the call read is still so when it is used.                         *)
(***************************************************************************)
CallOf(t, u) == task[t].at \in {"verify", "regist", "created"} /\ task[t].user = u

Alone(u) == \A s, t \in Tasks : CallOf(s, u) /\ CallOf(t, u) => s = t

\* Before there is an account, what is pending for the address, or was read
\* there, is what was typed in last.
LastIsPending(u) ==
    /\ rows[u] # None => rows[u] = last[u] /\ Confirmed(u, rows[u])
    /\ rows[u] = None /\ pending[u] # None => pending[u] = last[u]
    /\ \A t \in Tasks : At(t, "regist") /\ CallOf(t, u) /\ task[t].code # None /\ rows[u] = None
                          => task[t].code = last[u]

\* A code that was accepted is gone, and nobody is about to accept it again; the
\* application an account was made from is gone too, or about to be deleted.
ServedIsGone(u) ==
    /\ \A c \in Codes : owner[c] = u => c \notin twice /\ ~(c \in verified /\ c \in cached)
    /\ \A t \in Tasks : At(t, "verify") /\ CallOf(t, u) /\ task[t].found
                          => task[t].code \notin verified
    /\ rows[u] # None /\ pending[u] = rows[u]
         => \E t \in Tasks : At(t, "created") /\ CallOf(t, u)

Orderly(u) == Alone(u) /\ LastIsPending(u) /\ ServedIsGone(u)

TwiceIsVerified == twice \subseteq verified

OrderlyUnlessCrowded == TwiceIsVerified /\ \A u \in Users \ crowded : Orderly(u)

\* What a step does to a user it is not about: what is pending may expire.
LeftAlone(u) ==
    /\ rows'[u] = rows[u] /\ last'[u] = last[u]
    /\ pending'[u] = pending[u] \/ pending'[u] = None
    /\ \A t \in Tasks : CallOf(t, u)' => CallOf(t, u) /\ task'[t] = task[t]
    /\ \A t \in Tasks : At(t, "created") /\ CallOf(t, u)
                          => task'[t] = task[t] \/ pending'[u] = None
    /\ verified \subseteq verified'
    /\ \A c \in Codes : owner[c] = u =>
         /\ owner'[c] = u
         /\ c \in verified' => c \in verified
         /\ c \in cached' => c \in cached
         /\ c \in twice' => c \in twice
    /\ \A c \in Codes : owner'[c] = u /\ owner[c] # u => c \notin verified' \cup twice'

LEMMA LeftAloneIsOrderly ==
  ASSUME Inductive, NEW u \in Users, Orderly(u), LeftAlone(u)
  PROVE  Orderly(u)'
<1>1. Alone(u)'
  BY DEF Alone, Orderly, LeftAlone
<1>2. LastIsPending(u)'
  <2>1. rows'[u] # None => rows'[u] = last'[u] /\ Confirmed(u, rows[u])'
    BY DEF LeftAlone, Orderly, LastIsPending, Confirmed, Inductive, TypeOK, MaybeCode
  <2>2. rows'[u] = None /\ pending'[u] # None => pending'[u] = last'[u]
    BY DEF LeftAlone, Orderly, LastIsPending
  <2>3. ASSUME NEW t \in Tasks, At(t, "regist")', CallOf(t, u)', task'[t].code # None,
               rows'[u] = None
        PROVE  task'[t].code = last'[u]
    <3>1. CallOf(t, u) /\ task'[t] = task[t]
      BY <2>3 DEF LeftAlone
    <3>2. At(t, "regist") /\ task[t].code # None /\ rows[u] = None /\ last'[u] = last[u]
      BY <2>3, <3>1 DEF LeftAlone, At
    <3> QED
      BY <3>1, <3>2 DEF Orderly, LastIsPending
  <2> QED
    BY <2>1, <2>2, <2>3 DEF LastIsPending
<1>3. ServedIsGone(u)'
  <2>1. ASSUME NEW c \in Codes, owner'[c] = u
        PROVE  c \notin twice' /\ ~(c \in verified' /\ c \in cached')
    <3>1. CASE owner[c] = u
      BY <3>1 DEF LeftAlone, Orderly, ServedIsGone
    <3>2. CASE owner[c] # u
      BY <2>1, <3>2 DEF LeftAlone
    <3> QED
      BY <3>1, <3>2
  <2>2. ASSUME NEW t \in Tasks, At(t, "verify")', CallOf(t, u)', task'[t].found
        PROVE  task'[t].code \notin verified'
    <3>1. CallOf(t, u) /\ task'[t] = task[t]
      BY <2>2 DEF LeftAlone
    <3>2. At(t, "verify") /\ task[t].found
      BY <2>2, <3>1 DEF At
    <3>3. task[t].code \notin verified
      BY <3>1, <3>2 DEF Orderly, ServedIsGone
    <3>4. owner[task[t].code] = u /\ task[t].code \in Codes
      BY <3>1, <3>2 DEF Inductive, ApplicationsWereConfirmed, TypeOK, CallOf, At
    <3> QED
      BY <3>1, <3>3, <3>4 DEF LeftAlone
  <2>3. ASSUME rows'[u] # None, pending'[u] = rows'[u]
        PROVE  \E t \in Tasks : At(t, "created")' /\ CallOf(t, u)'
    <3>1. rows[u] # None /\ pending[u] = rows[u]
      BY <2>3 DEF LeftAlone
    <3>2. PICK t \in Tasks : At(t, "created") /\ CallOf(t, u)
      BY <3>1 DEF Orderly, ServedIsGone
    <3>3. task'[t] = task[t]
      BY <2>3, <3>2 DEF LeftAlone
    <3> QED
      BY <3>2, <3>3 DEF At, CallOf
  <2> QED
    BY <2>1, <2>2, <2>3 DEF ServedIsGone
<1> QED
  BY <1>1, <1>2, <1>3 DEF Orderly

\* A call about the user begins: the only one, or the user is crowded.
LEMMA BeginsAlone ==
  ASSUME NEW t \in Tasks, NEW u \in Users, Call(u), u \notin crowded',
         \A s \in Tasks \ {t} : task'[s] = task[s], task[t] = Idle
  PROVE  /\ u \notin crowded
         /\ \A s \in Tasks : CallOf(s, u)' => s = t
<1>1. ~Calling(u) /\ u \notin crowded
  BY DEF Call
<1>2. \A s \in Tasks : ~CallOf(s, u)
  BY <1>1 DEF Calling, CallOf
<1> QED
  BY <1>1, <1>2 DEF CallOf

LEMMA VerifyOrderly ==
  ASSUME Inductive, OrderlyUnlessCrowded, NEW t \in Tasks, NEW d \in Codes, VerifyCode(t, d),
         NEW u \in Users, u \notin crowded'
  PROVE  Orderly(u)'
<1>1. /\ task[t] = Idle
      /\ task'[t] = [at |-> "verify", user |-> owner[d], code |-> d, found |-> d \in cached]
      /\ \A s \in Tasks \ {t} : task'[s] = task[s]
      /\ UNCHANGED <<owner, cached, pending, rows, verified, twice, last>>
  BY DEF VerifyCode, Start, Put, redis, history, Inductive, TypeOK
<1>2. owner[d] \in Users /\ Call(owner[d])
  BY DEF VerifyCode, Inductive, ApplicationsWereConfirmed, TypeOK
<1>3. u \notin crowded /\ Orderly(u)
  BY <1>2 DEF Call, OrderlyUnlessCrowded
<1>4. CASE u = owner[d]
  <2>1. \A s \in Tasks : CallOf(s, u)' => s = t
    BY <1>1, <1>2, <1>4, BeginsAlone
  <2>2. Alone(u)'
    BY <2>1 DEF Alone
  <2>3. LastIsPending(u)'
    <3>1. ~At(t, "regist")'
      BY <1>1 DEF At
    <3>2. \A s \in Tasks : ~(At(s, "regist")' /\ CallOf(s, u)')
      BY <2>1, <3>1
    <3> QED
      BY <1>1, <1>3, <3>2 DEF Orderly, LastIsPending, Confirmed
  <2>4. ServedIsGone(u)'
    <3>1. task'[t].found => task'[t].code \notin verified'
      <4>1. task'[t].found = (d \in cached) /\ task'[t].code = d
        BY <1>1
      <4>2. ~(d \in verified /\ d \in cached)
        BY <1>3, <1>4 DEF Orderly, ServedIsGone
      <4> QED
        BY <1>1, <4>1, <4>2
    <3>2. \A s \in Tasks : At(s, "created") /\ CallOf(s, u) => s # t /\ task'[s] = task[s]
      BY <1>1 DEF At, Idle
    <3>3. (\E s \in Tasks : At(s, "created") /\ CallOf(s, u))
            => \E s \in Tasks : At(s, "created")' /\ CallOf(s, u)'
      BY <3>2 DEF At, CallOf
    <3> QED
      BY <1>1, <1>3, <2>1, <3>1, <3>3 DEF Orderly, ServedIsGone
  <2> QED
    BY <2>2, <2>3, <2>4 DEF Orderly
<1>5. CASE u # owner[d]
  <2>1. \A s \in Tasks : CallOf(s, u)' => CallOf(s, u) /\ task'[s] = task[s]
    BY <1>1, <1>5 DEF CallOf
  <2>2. \A s \in Tasks : At(s, "created") => task'[s] = task[s]
    BY <1>1 DEF At, Idle
  <2>3. LeftAlone(u)
    BY <1>1, <2>1, <2>2 DEF LeftAlone
  <2> QED
    BY <1>3, <2>3, LeftAloneIsOrderly
<1> QED
  BY <1>4, <1>5

LEMMA RegistOrderly ==
  ASSUME Inductive, OrderlyUnlessCrowded, NEW t \in Tasks, NEW v \in Users, RegistUser(t, v),
         NEW u \in Users, u \notin crowded'
  PROVE  Orderly(u)'
<1>1. /\ task[t] = Idle
      /\ task'[t] = [at |-> "regist", user |-> v, code |-> pending[v]]
      /\ \A s \in Tasks \ {t} : task'[s] = task[s]
      /\ UNCHANGED <<owner, cached, pending, rows, verified, twice, last>>
  BY DEF RegistUser, Start, Put, redis, history, Inductive, TypeOK
<1>2. Call(v)
  BY DEF RegistUser
<1>3. u \notin crowded /\ Orderly(u)
  BY <1>2 DEF Call, OrderlyUnlessCrowded
<1>4. CASE u = v
  <2>1. \A s \in Tasks : CallOf(s, u)' => s = t
    BY <1>1, <1>2, <1>4, BeginsAlone
  <2>2. Alone(u)'
    BY <2>1 DEF Alone
  <2>3. LastIsPending(u)'
    BY <1>1, <1>3, <1>4, <2>1 DEF Orderly, LastIsPending, Confirmed
  <2>4. ServedIsGone(u)'
    <3>1. ~At(t, "verify")'
      BY <1>1 DEF At
    <3>2. \A s \in Tasks : At(s, "created") /\ CallOf(s, u) => s # t /\ task'[s] = task[s]
      BY <1>1 DEF At, Idle
    <3>3. (\E s \in Tasks : At(s, "created") /\ CallOf(s, u))
            => \E s \in Tasks : At(s, "created")' /\ CallOf(s, u)'
      BY <3>2 DEF At, CallOf
    <3> QED
      BY <1>1, <1>3, <2>1, <3>1, <3>3 DEF Orderly, ServedIsGone
  <2> QED
    BY <2>2, <2>3, <2>4 DEF Orderly
<1>5. CASE u # v
  <2>1. \A s \in Tasks : CallOf(s, u)' => CallOf(s, u) /\ task'[s] = task[s]
    BY <1>1, <1>5 DEF CallOf
  <2>2. \A s \in Tasks : At(s, "created") => task'[s] = task[s]
    BY <1>1 DEF At, Idle
  <2>3. LeftAlone(u)
    BY <1>1, <2>1, <2>2 DEF LeftAlone
  <2> QED
    BY <1>3, <2>3, LeftAloneIsOrderly
<1> QED
  BY <1>4, <1>5

\* The code is accepted: it was not accepted before, it is gone, and it is what
\* was typed in last.
LEMMA AcceptOrderly ==
  ASSUME Inductive, OrderlyUnlessCrowded, NEW t \in Tasks, CodeFound(t),
         NEW u \in Users, u \notin crowded'
  PROVE  Orderly(u)'
<1> DEFINE v == task[t].user
           d == task[t].code
<1>1. /\ task[t].at = "verify" /\ task[t].found /\ v \in Users /\ d \in Codes /\ owner[d] = v
      /\ task'[t] = Idle /\ \A s \in Tasks \ {t} : task'[s] = task[s]
  BY DEF CodeFound, At, End, Put, Inductive, ApplicationsWereConfirmed, TypeOK, Busy, Idle
<1>2. /\ cached' = cached \ {d} /\ verified' = verified \cup {d}
      /\ UNCHANGED <<owner, rows>>
      /\ pending'[v] = d /\ \A w \in Users \ {v} : pending'[w] = pending[w]
      /\ \A w \in Users \ {v} : last'[w] = last[w]
      /\ last'[v] = IF rows[v] = None THEN d ELSE last[v]
      /\ twice' = IF d \in verified THEN twice \cup {d} ELSE twice
  BY <1>1 DEF CodeFound, Confirm, Accepts, Inductive, TypeOK
<1>3. u \notin crowded /\ Orderly(u)
  BY DEF CodeFound, OrderlyUnlessCrowded
<1>4. \A s \in Tasks : CallOf(s, u)' => s # t /\ CallOf(s, u) /\ task'[s] = task[s]
  BY <1>1 DEF CallOf, Idle
<1> HIDE DEF v, d
<1>5. CASE u = v
  <2>1. \A s \in Tasks : ~CallOf(s, u)'
    <3>1. CallOf(t, u)
      BY <1>1, <1>5 DEF CallOf, v
    <3> QED
      BY <1>3, <1>4, <3>1 DEF Orderly, Alone
  <2>2. d \notin verified
    BY <1>1, <1>3, <1>5 DEF Orderly, ServedIsGone, At, CallOf, v, d
  <2>3. Alone(u)'
    BY <2>1 DEF Alone
  <2>4. LastIsPending(u)'
    <3>1. rows[u] # None => rows[u] = last[u] /\ Confirmed(u, rows[u])
      BY <1>3 DEF Orderly, LastIsPending
    <3>2. rows'[u] # None => rows'[u] = last'[u] /\ Confirmed(u, rows[u])'
      BY <1>2, <1>5, <3>1 DEF Confirmed
    <3> QED
      BY <1>2, <1>5, <2>1, <3>2 DEF LastIsPending
  <2>5. ServedIsGone(u)'
    <3>1. rows[u] # None => rows[u] \in verified
      BY <1>3 DEF Orderly, LastIsPending, Confirmed
    <3>2. ~(rows'[u] # None /\ pending'[u] = rows'[u])
      BY <1>2, <1>5, <2>2, <3>1
    <3>3. \A c \in Codes : owner[c] = u => c \notin twice /\ ~(c \in verified /\ c \in cached)
      BY <1>3 DEF Orderly, ServedIsGone
    <3>4. \A c \in Codes : owner'[c] = u => c \notin twice' /\ ~(c \in verified' /\ c \in cached')
      BY <1>2, <2>2, <3>3
    <3> QED
      BY <2>1, <3>2, <3>4 DEF ServedIsGone
  <2> QED
    BY <2>3, <2>4, <2>5 DEF Orderly
<1>6. CASE u # v
  <2>1. \A s \in Tasks : At(s, "created") => task'[s] = task[s]
    BY <1>1 DEF At
  <2>2. LeftAlone(u)
    BY <1>1, <1>2, <1>4, <1>6, <2>1 DEF LeftAlone
  <2> QED
    BY <1>3, <2>2, LeftAloneIsOrderly
<1> QED
  BY <1>5, <1>6

\* The row is made from what was typed in last.
LEMMA CreateOrderly ==
  ASSUME Inductive, OrderlyUnlessCrowded, NEW t \in Tasks, CreateUser(t),
         NEW u \in Users, u \notin crowded'
  PROVE  Orderly(u)'
<1> DEFINE v == task[t].user
           d == task[t].code
<1>1. /\ task[t].at = "regist" /\ v \in Users /\ d \in Codes /\ d # None /\ rows[v] = None
      /\ Confirmed(v, d)
      /\ task'[t].at = "created" /\ task'[t].user = v
      /\ \A s \in Tasks \ {t} : task'[s] = task[s]
  BY NoneAssumption DEF CreateUser, CanCreate, At, Put, Inductive, ApplicationsWereConfirmed, TypeOK,
     Busy, Idle, MaybeCode
<1>2. /\ UNCHANGED <<owner, cached, pending, verified, twice, last>>
      /\ rows'[v] = d /\ \A w \in Users \ {v} : rows'[w] = rows[w]
  BY <1>1 DEF CreateUser, redis, history, Inductive, TypeOK
<1>3. u \notin crowded /\ Orderly(u)
  BY DEF CreateUser, OrderlyUnlessCrowded
<1> HIDE DEF v, d
<1>4. CASE u = v
  <2>1. CallOf(t, u) /\ At(t, "regist") /\ (At(t, "created") /\ CallOf(t, u))'
    BY <1>1, <1>4 DEF CallOf, At, v
  <2>2. d = last[u]
    BY <1>1, <1>3, <1>4, <2>1 DEF Orderly, LastIsPending, d
  <2>3. \A s \in Tasks : CallOf(s, u)' => s = t
    BY <1>1, <1>3, <2>1 DEF Orderly, Alone, CallOf
  <2>4. Alone(u)'
    BY <2>3 DEF Alone
  <2>5. LastIsPending(u)'
    <3>1. Confirmed(u, rows[u])'
      BY <1>1, <1>2, <1>4 DEF Confirmed
    <3>2. rows'[u] # None /\ rows'[u] = last'[u]
      BY <1>1, <1>2, <1>4, <2>2
    <3> QED
      BY <3>1, <3>2 DEF LastIsPending
  <2>6. ServedIsGone(u)'
    <3>1. \A s \in Tasks : ~(At(s, "verify")' /\ CallOf(s, u)')
      BY <2>1, <2>3 DEF At
    <3>2. \A c \in Codes : owner'[c] = u => c \notin twice' /\ ~(c \in verified' /\ c \in cached')
      BY <1>2, <1>3 DEF Orderly, ServedIsGone
    <3> QED
      BY <2>1, <3>1, <3>2 DEF ServedIsGone
  <2> QED
    BY <2>4, <2>5, <2>6 DEF Orderly
<1>5. CASE u # v
  <2>1. \A s \in Tasks : CallOf(s, u)' => CallOf(s, u) /\ task'[s] = task[s]
    BY <1>1, <1>5 DEF CallOf
  <2>2. \A s \in Tasks : At(s, "created") => task'[s] = task[s]
    BY <1>1 DEF At
  <2>3. LeftAlone(u)
    BY <1>2, <1>5, <2>1, <2>2 DEF LeftAlone
  <2> QED
    BY <1>3, <2>3, LeftAloneIsOrderly
<1> QED
  BY <1>4, <1>5

\* The process dies: the users of its calls are crowded, the others left alone.
LEMMA DeathOrderly ==
  ASSUME Inductive, OrderlyUnlessCrowded, Crash \/ \E t \in Tasks : ConfirmFails(t),
         NEW u \in Users, u \notin crowded'
  PROVE  Orderly(u)'
<1>1. /\ \A s \in Tasks : task'[s] = Idle
      /\ crowded' = crowded \cup {w \in Users : Calling(w)}
  BY DEF Crash, ConfirmFails, Dies
<1>2. u \notin crowded /\ Orderly(u)
  BY <1>1 DEF OrderlyUnlessCrowded
<1>3. \A s \in Tasks : ~CallOf(s, u) /\ ~CallOf(s, u)'
  BY <1>1 DEF Calling, CallOf, Idle
<1>4. CASE Crash
  <2>1. UNCHANGED <<owner, cached, pending, rows, verified, twice, last>>
    BY <1>4 DEF Crash, redis, history
  <2> QED
    BY <1>2, <1>3, <2>1, LeftAloneIsOrderly DEF LeftAlone
<1>5. ASSUME NEW t \in Tasks, ConfirmFails(t) PROVE Orderly(u)'
  <2> DEFINE v == task[t].user
             d == task[t].code
  <2>1. v \in Users /\ d \in Codes /\ owner[d] = v /\ CallOf(t, v)
    BY <1>5 DEF ConfirmFails, At, CallOf, Inductive, ApplicationsWereConfirmed, TypeOK, Busy, Idle
  <2>2. u # v
    BY <1>3, <2>1
  <2>3. /\ rows' = rows /\ owner' = owner /\ cached' \subseteq cached
        /\ verified' = verified \cup {d} /\ twice' \subseteq twice \cup {d}
    BY <1>5 DEF ConfirmFails, Accepts, redis
  <2>4. pending'[u] = pending[u]
    BY <1>5, <2>2 DEF ConfirmFails, redis, Inductive, TypeOK
  <2>5. last'[u] = last[u]
    BY <1>5, <2>2 DEF ConfirmFails, Accepts, Inductive, TypeOK
  <2> HIDE DEF v, d
  <2> QED
    BY <1>2, <1>3, <2>1, <2>2, <2>3, <2>4, <2>5, LeftAloneIsOrderly DEF LeftAlone
<1> QED
  BY <1>4, <1>5

\* The steps that are not about an application that was typed in.
LEMMA OtherOrderly ==
  ASSUME Inductive, OrderlyUnlessCrowded, NEW u \in Users, u \notin crowded',
         \/ \E t \in Tasks :
              \/ CodeStored(t) \/ MailArrives(t) \/ MailSent(t) \/ PublishFails(t)
              \/ CodeNotFound(t) \/ RegistFails(t) \/ RegistDone(t)
              \/ \E c \in Codes, v \in Users : PublishCode(t, v, c)
         \/ \E c \in Codes : CodeExpires(c)
         \/ \E v \in Users : PendingExpires(v)
         \/ Restart \/ UNCHANGED vars
  PROVE  Orderly(u)'
<1>1. u \notin crowded /\ UNCHANGED <<rows, verified, twice, last>>
  BY DEF CodeStored, MailArrives, MailSent, PublishFails, CodeNotFound, RegistFails, RegistDone,
         PublishCode, CodeExpires, PendingExpires, Restart, vars, history
<1>2. Orderly(u)
  BY <1>1 DEF OrderlyUnlessCrowded
<1>3. ASSUME UNCHANGED owner, cached' \subseteq cached,
             pending'[u] = pending[u] \/ pending'[u] = None,
             \A s \in Tasks : CallOf(s, u)' => CallOf(s, u) /\ task'[s] = task[s],
             \A s \in Tasks : At(s, "created") /\ CallOf(s, u)
                                => task'[s] = task[s] \/ pending'[u] = None
      PROVE  Orderly(u)'
  BY <1>1, <1>2, <1>3, LeftAloneIsOrderly DEF LeftAlone
<1>4. ASSUME NEW t \in Tasks, CodeStored(t) \/ MailSent(t) \/ PublishFails(t) \/ CodeNotFound(t)
                              \/ RegistFails(t)
      PROVE  Orderly(u)'
  <2>1. UNCHANGED <<owner, pending>> /\ cached' \subseteq cached
    BY <1>4 DEF CodeStored, MailSent, PublishFails, CodeNotFound, RegistFails, redis
  <2>2. /\ task[t].at # "created" /\ task'[t].at \in {"mail", "idle"}
        /\ \A s \in Tasks \ {t} : task'[s] = task[s]
    <3>1. CASE CodeStored(t)
      BY <3>1 DEF CodeStored, At, Put, Inductive, TypeOK, Busy, Idle
    <3>2. CASE MailSent(t) \/ PublishFails(t) \/ CodeNotFound(t) \/ RegistFails(t)
      BY <3>2 DEF MailSent, PublishFails, CodeNotFound, RegistFails, End, Put, At, Idle,
                  Inductive, TypeOK
    <3> QED
      BY <1>4, <3>1, <3>2
  <2>3. \A s \in Tasks : CallOf(s, u)' => CallOf(s, u) /\ task'[s] = task[s]
    BY <2>2 DEF CallOf
  <2>4. \A s \in Tasks : At(s, "created") => task'[s] = task[s]
    BY <2>2 DEF At
  <2> QED
    BY <1>3, <2>1, <2>3, <2>4
<1>5. ASSUME NEW t \in Tasks, MailArrives(t) PROVE Orderly(u)'
  BY <1>3, <1>5 DEF MailArrives, redis, CallOf
<1>6. ASSUME NEW t \in Tasks, RegistDone(t) PROVE Orderly(u)'
  <2>1. /\ task[t].at = "created" /\ task[t].user \in Users
        /\ task'[t] = Idle /\ \A s \in Tasks \ {t} : task'[s] = task[s]
        /\ UNCHANGED <<owner, cached>>
    BY <1>6 DEF RegistDone, At, End, Put, Inductive, TypeOK, Busy, Idle
  <2>2. \A w \in Users : pending'[w] = IF w = task[t].user THEN None ELSE pending[w]
    BY <1>6 DEF RegistDone, Forget, Inductive, TypeOK
  <2>3. \A s \in Tasks : CallOf(s, u)' => CallOf(s, u) /\ task'[s] = task[s]
    BY <2>1 DEF CallOf, Idle
  <2>4. \A s \in Tasks : CallOf(s, u) => task'[s] = task[s] \/ pending'[u] = None
    BY <2>1, <2>2 DEF CallOf
  <2> QED
    BY <1>3, <2>1, <2>2, <2>3, <2>4
<1>7. ASSUME NEW t \in Tasks, NEW c \in Codes, NEW v \in Users, PublishCode(t, v, c)
      PROVE  Orderly(u)'
  <2>1. /\ owner[c] = None /\ task[t] = Idle /\ task'[t].at = "store"
        /\ \A s \in Tasks \ {t} : task'[s] = task[s]
        /\ \A d \in Codes \ {c} : owner'[d] = owner[d]
        /\ cached' = cached \cup {c} /\ pending' = pending
    BY <1>7 DEF PublishCode, Start, Put, Inductive, TypeOK
  <2>2. c \notin verified /\ c \notin twice
    BY <2>1 DEF Inductive, ApplicationsWereConfirmed, OrderlyUnlessCrowded, TwiceIsVerified
  <2>3. u # None
    BY NoneAssumption
  <2>4. \A s \in Tasks : CallOf(s, u)' => CallOf(s, u) /\ task'[s] = task[s]
    BY <2>1 DEF CallOf
  <2>5. \A s \in Tasks : At(s, "created") => task'[s] = task[s]
    BY <2>1 DEF At, Idle
  <2> QED
    BY <1>1, <1>2, <2>1, <2>2, <2>3, <2>4, <2>5, LeftAloneIsOrderly DEF LeftAlone
<1>8. CASE \E c \in Codes : CodeExpires(c)
  BY <1>3, <1>8 DEF CodeExpires, CallOf
<1>9. CASE \E v \in Users : PendingExpires(v)
  BY <1>3, <1>9 DEF PendingExpires, CallOf, Inductive, TypeOK
<1>10. CASE Restart \/ UNCHANGED vars
  BY <1>3, <1>10 DEF Restart, vars, redis, CallOf
<1> QED
  BY <1>4, <1>5, <1>6, <1>7, <1>8, <1>9, <1>10

LEMMA StepOrderly ==
  ASSUME Inductive, OrderlyUnlessCrowded, [Next]_vars
  PROVE  OrderlyUnlessCrowded'
<1>1. TwiceIsVerified'
  <2>1. ASSUME NEW t \in Tasks, CodeFound(t) \/ ConfirmFails(t) PROVE TwiceIsVerified'
    BY <2>1 DEF CodeFound, ConfirmFails, Accepts, TwiceIsVerified, OrderlyUnlessCrowded
  <2>2. CASE UNCHANGED history
    BY <2>2 DEF history, TwiceIsVerified, OrderlyUnlessCrowded
  <2> QED
    BY <2>1, <2>2 DEF Next, Proceed, CodeStored, MailArrives, MailSent, PublishFails, CodeNotFound,
       CreateUser, RegistFails, RegistDone, VerifyCode, PublishCode, RegistUser, CodeExpires,
       PendingExpires, Crash, Restart, vars
<1>2. \A u \in Users \ crowded' : Orderly(u)'
  <2> SUFFICES ASSUME NEW u \in Users, u \notin crowded' PROVE Orderly(u)'
    OBVIOUS
  <2>1. ASSUME NEW t \in Tasks, Proceed(t) PROVE Orderly(u)'
    BY <2>1, AcceptOrderly, CreateOrderly, DeathOrderly, OtherOrderly DEF Proceed
  <2>2. ASSUME NEW t \in Tasks, NEW c \in Codes, VerifyCode(t, c) PROVE Orderly(u)'
    BY <2>2, VerifyOrderly
  <2>3. ASSUME NEW t \in Tasks, NEW v \in Users, RegistUser(t, v) PROVE Orderly(u)'
    BY <2>3, RegistOrderly
  <2>4. ASSUME NEW t \in Tasks, NEW c \in Codes, NEW v \in Users, PublishCode(t, v, c)
        PROVE  Orderly(u)'
    BY <2>4, OtherOrderly
  <2>5. CASE (\E c \in Codes : CodeExpires(c)) \/ (\E v \in Users : PendingExpires(v))
             \/ Restart \/ UNCHANGED vars
    BY <2>5, OtherOrderly
  <2>6. CASE Crash
    BY <2>6, DeathOrderly
  <2>7. Next \/ UNCHANGED vars
    OBVIOUS
  <2> QED
    BY <2>1, <2>2, <2>3, <2>4, <2>5, <2>6, <2>7 DEF Next
<1> QED
  BY <1>1, <1>2 DEF OrderlyUnlessCrowded

LEMMA InitOrderly == Init => OrderlyUnlessCrowded
  BY DEF Init, OrderlyUnlessCrowded, TwiceIsVerified, Orderly, Alone, LastIsPending, ServedIsGone,
         CallOf, At, Idle

LEMMA OrderlyInvariant == Spec => [](Inductive /\ OrderlyUnlessCrowded)
<1>1. Inductive /\ OrderlyUnlessCrowded /\ [Next]_vars => OrderlyUnlessCrowded'
  BY StepOrderly
<1> QED
  BY <1>1, InitOrderly, InductiveInvariant, PTL DEF Spec

\* Whoever applied several times gets the password of the code that was typed in
\* last before the account was made.
THEOREM AccountsAreLastVerified == Spec => []AccountIsLastVerified
<1>1. OrderlyUnlessCrowded => AccountIsLastVerified
  BY DEF OrderlyUnlessCrowded, Orderly, LastIsPending, AccountIsLastVerified
<1> QED
  BY <1>1, OrderlyInvariant, PTL

\* A code is accepted once, and the account that was made from it leaves nothing
\* behind to register with.
THEOREM ApplicationsServeOnce == Spec => []ApplicationServesOnce
<1>1. Inductive /\ OrderlyUnlessCrowded => ApplicationServesOnce
  <2> SUFFICES ASSUME Inductive, OrderlyUnlessCrowded, NEW u \in Users, u \notin crowded
               PROVE  /\ \A c \in twice : owner[c] # u
                      /\ (rows[u] # None /\ ~Calling(u))
                           => rows[u] \notin cached /\ pending[u] # rows[u]
    BY DEF ApplicationServesOnce
  <2>1. LastIsPending(u) /\ ServedIsGone(u) /\ twice \subseteq Codes /\ rows[u] \in MaybeCode
    BY DEF OrderlyUnlessCrowded, Orderly, Inductive, TypeOK
  <2>2. \A c \in twice : owner[c] # u
    BY <2>1 DEF ServedIsGone
  <2>3. ASSUME rows[u] # None, ~Calling(u)
        PROVE  rows[u] \notin cached /\ pending[u] # rows[u]
    <3>1. rows[u] \in Codes /\ Confirmed(u, rows[u])
      BY <2>1, <2>3 DEF LastIsPending, MaybeCode
    <3>2. \A t \in Tasks : ~CallOf(t, u)
      BY <2>3 DEF Calling, CallOf
    <3> QED
      BY <2>1, <2>3, <3>1, <3>2 DEF ServedIsGone, Confirmed
  <2> QED
    BY <2>2, <2>3
<1> QED
  BY <1>1, OrderlyInvariant, PTL
=============================================================================
