------------------------------- MODULE NotifyHub -------------------------------
(***************************************************************************)
(* SSEService and SSEController: one event stream per user, over which     *)
(* order states and gifts are announced.  The service is synchronous, so   *)
(* every call is one step.  A stream lives in the framework; the service   *)
(* only keeps the list of the users that are listening, and a stream       *)
(* passes a notice on when its user is in that list.                       *)
(***************************************************************************)
CONSTANTS
    Users,      \* email addresses
    Streams     \* HTTP requests to sse/listen, each used once

VARIABLES
    notifiers,  \* users in the notifiers array
    stream,     \* what became of a request
    user,       \* who made it; a request not made yet has anybody's
    missed,     \* history: streams that did not pass on a notice for their user
    refused     \* history: users whose request was turned down as a duplicate

vars == <<notifiers, stream, user, missed, refused>>

Init ==
    /\ notifiers = {}
    /\ stream = [s \in Streams |-> "unused"]
    /\ user \in [Streams -> Users]
    /\ missed = {}
    /\ refused = {}

\* Mutation: the request is put in the list instead of its user.
ListenByRequest(s) ==
    /\ stream[s] = "unused"
    /\ user[s] \notin notifiers
    /\ notifiers' = notifiers \cup {s}
    /\ stream' = [stream EXCEPT ![s] = "live"]
    /\ UNCHANGED <<user, missed, refused>>

\* listenSSE accepts the user; the controller has registered disconnectSSE for
\* the end of the request before.
Listen(s) ==
    /\ stream[s] = "unused"
    /\ user[s] \notin notifiers
    /\ notifiers' = notifiers \cup {user[s]}
    /\ stream' = [stream EXCEPT ![s] = "live"]
    /\ UNCHANGED <<user, missed, refused>>

\* listenSSE throws Conflict: the controller returns the error as the answer,
\* and disconnectSSE stays registered for the end of this request.
ListenConflicts(s) ==
    /\ stream[s] = "unused"
    /\ user[s] \in notifiers
    /\ stream' = [stream EXCEPT ![s] = "answered"]
    /\ refused' = refused \cup {user[s]}
    /\ UNCHANGED <<notifiers, user, missed>>

\* Mutation: the end of a request leaves the list alone.
CloseKeepsNotifier(s) ==
    /\ stream[s] \in {"live", "answered"}
    /\ stream' = [stream EXCEPT ![s] = "closed"]
    /\ UNCHANGED <<notifiers, user, missed, refused>>

\* Mutation: the filter of disconnectSSE is the wrong way round.
CloseKeepsOnly(s) ==
    /\ stream[s] \in {"live", "answered"}
    /\ notifiers' = notifiers \cap {user[s]}
    /\ stream' = [stream EXCEPT ![s] = "closed"]
    /\ UNCHANGED <<user, missed, refused>>

\* The request is over (answered, or left by the client): disconnectSSE
\* removes whatever entry the user has.
Close(s) ==
    /\ stream[s] \in {"live", "answered"}
    /\ notifiers' = notifiers \ {user[s]}
    /\ stream' = [stream EXCEPT ![s] = "closed"]
    /\ UNCHANGED <<user, missed, refused>>

\* pushMessage of a notice for one user: every live stream filters it with
\* notifyFactory and checkReceiver.
PassesOn(s, u) == stream[s] = "live" /\ user[s] = u /\ u \in notifiers

Push(u) ==
    /\ missed' = missed \cup {s \in Streams : stream[s] = "live" /\ user[s] = u /\ ~PassesOn(s, u)}
    /\ UNCHANGED <<notifiers, stream, user, refused>>

Next ==
    \/ \E s \in Streams : Listen(s) \/ ListenConflicts(s) \/ Close(s)
    \/ \E u \in Users : Push(u)

Spec == Init /\ [][Next]_vars

-----------------------------------------------------------------------------
(* Properties.                                                             *)

Live(u) == {s \in Streams : stream[s] = "live" /\ user[s] = u}

TypeOK ==
    /\ notifiers \subseteq Users
    /\ stream \in [Streams -> {"unused", "live", "answered", "closed"}]
    /\ user \in [Streams -> Users]
    /\ missed \subseteq Streams
    /\ refused \subseteq Users

\* Nobody is locked out: a user in the notifiers list has a live stream, so a
\* Conflict is only answered to somebody who is listening, and after the end
\* of the stream the user can listen again.
NobodyLockedOut == \A u \in notifiers : Live(u) # {}

\* A user none of whose requests was a duplicate has one live stream at most,
\* it is in the list, and it passed on every notice pushed for the user.
UndisturbedUserIsNotified ==
    \A u \in Users \ refused :
        /\ \A s, t \in Live(u) : s = t
        /\ Live(u) # {} => u \in notifiers
        /\ \A s \in Streams : user[s] = u => s \notin missed

\* response.type.ts:34 says of Conflict that the duplicate request is the one
\* that is cancelled.  The stream that was there first then goes on: a live
\* stream never misses a notice for its user.
DuplicateIsTheOneCancelled == missed = {}
=============================================================================
