--------------------------------- MODULE Front ---------------------------------
(***************************************************************************)
(* What every HTTP request passes through, the event streams of NotifyHub  *)
(* included: the guard, the controller with its catch, LoggingInterceptor. *)
(*                                                                         *)
(* The interceptor appends a line to the log for every value a handler     *)
(* emits: an answer, an error the controller caught and returned, and each *)
(* notice a stream passes on.  FileSystem.append hands mkdir and           *)
(* appendFile to the thread pool, where they run in any order, and throws  *)
(* from their callbacks, which nobody can catch: Node ends the process.    *)
(*                                                                         *)
(* The errors are objects of one catalogue.  A place that fails sets the   *)
(* substatus of the object it throws; it is serialised some turns of the   *)
(* event loop later, and it is never cleared.                              *)
(***************************************************************************)
EXTENDS NotifyHub, Naturals, FiniteSets

CONSTANTS
    Requests,   \* slots for the requests under way
    Failures,   \* what handlers fail with: pairs of an error and a substatus
    Accepted,   \* the error the interceptor answers, as such a pair
    Plain,      \* no substatus
    MaxJobs,    \* bound: appends under way
    MaxStarts   \* bound: restarts of the process

ASSUME FailureAssumption ==
    /\ Accepted \in Failures
    /\ \A f \in Failures : f = <<f[1], f[2]>>
ASSUME FrontAssumption == MaxJobs \in Nat /\ MaxStarts \in Nat

VARIABLES
    server,     \* whether the process runs
    folder,     \* whether the folder of the log exists
    found,      \* history: whether it did when the process started
    jobs,       \* what the thread pool has to do
    thrown,     \* whether a callback is about to throw
    substatus,  \* of every error of the catalogue
    req,        \* what every slot is doing
    starts

hubVars   == <<notifiers, stream, user, missed, refused>>
logVars   == <<folder, jobs, thrown>>
frontVars == <<hubVars, server, found, logVars, substatus, req, starts>>

Kinds == {f[1] : f \in Failures}
Marks == {f[2] : f \in Failures} \cup {Plain}

\* A request that failed knows its failure; `overtaken` says that another one
\* has set a substatus of the same error since.
Busy ==
    [at: {"guard", "handler"}]
      \cup [at: {"failed"}, why: Failures, logged: BOOLEAN, overtaken: BOOLEAN]
Free == [at |-> "free"]

At(r, p)     == req[r].at = p
Put(r, what) == req' = [req EXCEPT ![r] = what]

FrontInit ==
    /\ Init
    /\ server = TRUE
    /\ folder \in BOOLEAN
    /\ found = folder
    /\ jobs = [mkdir |-> 0, append |-> 0]
    /\ thrown = FALSE
    /\ substatus = [k \in Kinds |-> Plain]
    /\ req = [r \in Requests |-> Free]
    /\ starts = 0

-----------------------------------------------------------------------------
(* FileSystem.append.                                                      *)

\* Mutation: whether the folder is there is not looked at.
FoldersToMakeAlways(n) == n

\* hasFolder: every one of n appends that finds no folder asks for one.
FoldersToMake(n) == IF folder THEN 0 ELSE n

\* The n lines are handed to the thread pool in one turn, whether or not the
\* folder is there yet.
Append(n) ==
    /\ jobs.append + n <= MaxJobs
    /\ jobs.mkdir + FoldersToMake(n) <= MaxJobs
    /\ jobs' = [mkdir |-> jobs.mkdir + FoldersToMake(n), append |-> jobs.append + n]
    /\ UNCHANGED <<folder, thrown>>

\* mkdir is done, or fails because another one was faster.
FolderMade ==
    /\ jobs.mkdir > 0
    /\ jobs' = [jobs EXCEPT !.mkdir = @ - 1]
    /\ folder' = TRUE
    /\ thrown' = (thrown \/ folder)
    /\ UNCHANGED <<hubVars, server, found, substatus, req, starts>>

\* appendFile writes the line, or fails because there is no folder.
LineWritten ==
    /\ jobs.append > 0
    /\ jobs' = [jobs EXCEPT !.append = @ - 1]
    /\ thrown' = (thrown \/ ~folder)
    /\ UNCHANGED <<hubVars, server, found, folder, substatus, req, starts>>

-----------------------------------------------------------------------------
(* The process.                                                            *)

\* Mutation: the list of listeners outlives the process, as in a shared cache.
ListOutlives ==
    /\ stream' = [s \in Streams |-> IF stream[s] = "unused" THEN "unused" ELSE "closed"]
    /\ UNCHANGED <<notifiers, user, missed, refused>>

\* The connections, and the list of listeners, are gone with the process.
HubEnds ==
    /\ notifiers' = {}
    /\ stream' = [s \in Streams |-> IF stream[s] = "unused" THEN "unused" ELSE "closed"]
    /\ missed' = {}
    /\ refused' = {}
    /\ UNCHANGED user

\* A mkdir that was handed to the thread pool may still be carried out.
Crash ==
    /\ server' = FALSE
    /\ HubEnds
    /\ \/ UNCHANGED folder
       \/ jobs.mkdir > 0 /\ folder' = TRUE
    /\ jobs' = [mkdir |-> 0, append |-> 0]
    /\ thrown' = FALSE
    /\ req' = [r \in Requests |-> Free]
    /\ substatus' = [k \in Kinds |-> Plain]
    /\ UNCHANGED <<found, starts>>

\* _handleException throws from a callback.
LoggingThrows == thrown /\ Crash

Kill == server /\ Crash

Restart ==
    /\ ~server
    /\ starts < MaxStarts
    /\ server' = TRUE
    /\ found' = folder
    /\ starts' = starts + 1
    /\ UNCHANGED <<hubVars, logVars, substatus, req>>

-----------------------------------------------------------------------------
(* A request.                                                              *)

Arrive(r) ==
    /\ server
    /\ At(r, "free")
    /\ Put(r, [at |-> "guard"])
    /\ UNCHANGED <<hubVars, server, found, logVars, substatus, starts>>

\* The guard lets the request through.
Admit(r) ==
    /\ At(r, "guard")
    /\ Put(r, [at |-> "handler"])
    /\ UNCHANGED <<hubVars, server, found, logVars, substatus, starts>>

\* The request is served; its answer is logged.
Succeed(r) ==
    /\ At(r, "handler")
    /\ Append(1)
    /\ Put(r, Free)
    /\ UNCHANGED <<hubVars, server, found, substatus, starts>>

\* Mutation: a substatus that is there already is left alone.
SetSubstatusOnce(f) ==
    substatus' = [substatus EXCEPT ![f[1]] = IF @ = Plain THEN f[2] ELSE @]

\* The catalogue's object is given the substatus, if the place sets one.
SetSubstatus(f) ==
    substatus' = IF f[2] = Plain THEN substatus ELSE [substatus EXCEPT ![f[1]] = f[2]]

\* What a failure elsewhere does to a request that failed before.
Overtake(q, f) ==
    IF At(q, "failed") /\ req[q].why[1] = f[1] /\ f[2] # Plain
      THEN [req[q] EXCEPT !.overtaken = TRUE] ELSE req[q]

FailWith(r, f, isLogged) ==
    /\ SetSubstatus(f)
    /\ req' = [[q \in Requests |-> Overtake(q, f)] EXCEPT ![r] =
                 [at |-> "failed", why |-> f, logged |-> isLogged, overtaken |-> FALSE]]

\* The guard turns the request down with the error as the body: the
\* interceptor does not see it.
GuardRefuses(r, f) ==
    /\ At(r, "guard")
    /\ FailWith(r, f, TRUE)
    /\ UNCHANGED <<hubVars, server, found, logVars, starts>>

\* The handler throws one of the catalogue's errors: the controller's catch
\* returns it.
Fail(r, f) ==
    /\ At(r, "handler")
    /\ FailWith(r, f, FALSE)
    /\ UNCHANGED <<hubVars, server, found, logVars, starts>>

\* The body or the answer has not the type of the route: catchError of the
\* interceptor logs that and answers Accepted.
CatchError(r) ==
    /\ At(r, "handler")
    /\ Append(1)
    /\ FailWith(r, Accepted, TRUE)
    /\ UNCHANGED <<hubVars, server, found, starts>>

\* What the request is told: the error is serialised as it is by now.
Said(r) == substatus[req[r].why[1]]

Answer(r) ==
    /\ At(r, "failed")
    /\ IF req[r].logged THEN UNCHANGED logVars ELSE Append(1)
    /\ Put(r, Free)
    /\ UNCHANGED <<hubVars, server, found, substatus, starts>>

\* A socket message, or a handler nobody waits for, fails with f.
FailElsewhere(f) ==
    /\ server
    /\ SetSubstatus(f)
    /\ req' = [q \in Requests |-> Overtake(q, f)]
    /\ UNCHANGED <<hubVars, server, found, logVars, starts>>

-----------------------------------------------------------------------------
(* The streams.                                                            *)

StreamOpens(s)  == Listen(s) /\ UNCHANGED logVars
StreamTurned(s) == ListenConflicts(s) /\ Append(1)
StreamCloses(s) == Close(s) /\ UNCHANGED logVars

\* Every stream that passes the notice on logs it.
Notice(u) == Push(u) /\ Append(Cardinality({s \in Streams : PassesOn(s, u)}))

AtStream ==
    /\ server
    /\ \/ \E s \in Streams : StreamOpens(s) \/ StreamTurned(s) \/ StreamCloses(s)
       \/ \E u \in Users : Notice(u)
    /\ UNCHANGED <<server, found, substatus, req, starts>>

AtRequest(r) ==
    \/ Arrive(r) \/ Admit(r) \/ Succeed(r) \/ CatchError(r) \/ Answer(r)
    \/ \E f \in Failures : GuardRefuses(r, f) \/ Fail(r, f)

FrontNext ==
    \/ AtStream
    \/ \E r \in Requests : AtRequest(r)
    \/ \E f \in Failures : FailElsewhere(f)
    \/ FolderMade \/ LineWritten
    \/ LoggingThrows \/ Kill \/ Restart

FrontSpec == FrontInit /\ [][FrontNext]_frontVars

-----------------------------------------------------------------------------
(* Properties.                                                             *)

FrontTypeOK ==
    /\ TypeOK
    /\ server \in BOOLEAN
    /\ folder \in BOOLEAN
    /\ found \in BOOLEAN
    /\ jobs \in [mkdir: 0..MaxJobs, append: 0..MaxJobs]
    /\ thrown \in BOOLEAN
    /\ substatus \in [Kinds -> Marks]
    /\ req \in [Requests -> Busy \cup {Free}]
    /\ starts \in 0..MaxStarts

\* A process that found the folder of the log when it started does not die of
\* logging: however many appends are under way at once, none of them asks for
\* the folder, and none of them fails.
SteadyLog == found => ~thrown /\ jobs.mkdir = 0 /\ folder

\* Whenever a failed request is answered, it is told the substatus its own
\* failure set, unless another failure set one of the same object in between:
\* what earlier failures left on the object does not show.
OwnSubstatusIsAnswered ==
    \A r \in Requests :
        (At(r, "failed") /\ req[r].why[2] # Plain /\ ~req[r].overtaken)
          => Said(r) = req[r].why[2]

\* filesystem/index.ts:44 says of append that it makes the folder if there is
\* none.  The first line is then written, whoever else logs at that moment.
AppendMakesTheFolder == ~thrown
=============================================================================
