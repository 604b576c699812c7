-------------------------------- MODULE Signup --------------------------------
(***************************************************************************)
(* What signing up by mail promises, whatever is cached, lost or expires:  *)
(* an address gets one account, and the password and nickname of the       *)
(* account are those of an application whose code was mailed to this very  *)
(* address and typed in.  An application is named by its code.             *)
(***************************************************************************)
CONSTANTS
    Users,      \* email addresses
    Codes,      \* codes, one for every application
    None        \* nobody; no account

VARIABLES
    recipient,  \* to whom a code was mailed
    confirmed,  \* the codes typed in
    account     \* the application an account was made from

vars == <<recipient, confirmed, account>>

Init ==
    /\ recipient = [c \in Codes |-> None]
    /\ confirmed = {}
    /\ account = [u \in Users |-> None]

Mail(c, u) ==
    /\ recipient[c] = None
    /\ recipient' = [recipient EXCEPT ![c] = u]
    /\ UNCHANGED <<confirmed, account>>

Confirm(c) ==
    /\ recipient[c] # None
    /\ confirmed' = confirmed \cup {c}
    /\ UNCHANGED <<recipient, account>>

Open(u, c) ==
    /\ account[u] = None
    /\ c \in confirmed
    /\ recipient[c] = u
    /\ account' = [account EXCEPT ![u] = c]
    /\ UNCHANGED <<recipient, confirmed>>

Next ==
    \E c \in Codes : Confirm(c) \/ \E u \in Users : Mail(c, u) \/ Open(u, c)

Spec == Init /\ [][Next]_vars
=============================================================================
