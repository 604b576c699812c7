------------------------------ MODULE FrontProofs ------------------------------
(***************************************************************************)
(* Theorems about NotifyHub for every set of users and streams, and about  *)
(* Front for every set of requests and errors too.                         *)
(***************************************************************************)
EXTENDS Front, FiniteSetTheorems, TLAPS

-----------------------------------------------------------------------------
(* The hub on its own.                                                      *)

LEMMA InitType == Init => TypeOK
  BY DEF Init, TypeOK

LEMMA NextType == TypeOK /\ [Next]_vars => TypeOK'
  BY DEF TypeOK, Next, Listen, ListenConflicts, Close, Push, vars

\* Every variable keeps its type.
THEOREM TypeCorrect == Spec => []TypeOK
  BY InitType, NextType, PTL DEF Spec

-----------------------------------------------------------------------------
(* A user in the list has the live stream that was accepted last.           *)

LEMMA ListenKeepsOpen ==
  ASSUME TypeOK, NobodyLockedOut, NEW s \in Streams, Listen(s)
  PROVE  NobodyLockedOut'
<1> SUFFICES ASSUME NEW u \in notifiers' PROVE \E r \in Streams : r \in Live(u)'
  BY DEF NobodyLockedOut
<1>1. CASE u = user[s]
  BY <1>1 DEF Listen, Live, TypeOK
<1>2. CASE u # user[s]
  <2>1. PICK r \in Streams : stream[r] = "live" /\ user[r] = u
    BY <1>2 DEF Listen, NobodyLockedOut, Live
  <2> QED
    BY <2>1 DEF Listen, Live, TypeOK
<1> QED
  BY <1>1, <1>2

LEMMA OthersKeepOpen ==
  ASSUME TypeOK, NobodyLockedOut, NEW s \in Streams, ListenConflicts(s) \/ Close(s)
  PROVE  NobodyLockedOut'
<1> SUFFICES ASSUME NEW u \in notifiers' PROVE \E r \in Streams : r \in Live(u)'
  BY DEF NobodyLockedOut
<1>1. PICK r \in Streams : stream[r] = "live" /\ user[r] = u
  BY DEF ListenConflicts, Close, NobodyLockedOut, Live
<1>2. r # s
  BY <1>1 DEF ListenConflicts, Close
<1> QED
  BY <1>1, <1>2 DEF ListenConflicts, Close, Live, TypeOK

LEMMA NextOpen == TypeOK /\ NobodyLockedOut /\ [Next]_vars => NobodyLockedOut'
<1> SUFFICES ASSUME TypeOK, NobodyLockedOut, [Next]_vars PROVE NobodyLockedOut'
  OBVIOUS
<1>1. CASE (\E u \in Users : Push(u)) \/ UNCHANGED vars
  BY <1>1 DEF Push, vars, NobodyLockedOut, Live
<1> QED
  BY <1>1, ListenKeepsOpen, OthersKeepOpen DEF Next

\* Nobody is locked out: Conflict is only answered to a user with a live stream.
THEOREM NobodyIsLockedOut == Spec => []NobodyLockedOut
<1>1. Init => NobodyLockedOut
  BY DEF Init, NobodyLockedOut
<1> QED
  BY <1>1, NextOpen, TypeCorrect, PTL DEF Spec

-----------------------------------------------------------------------------
(* Users without a duplicate request.                                       *)

\* Only a duplicate is answered, so no request of an undisturbed user ends
\* but a live one.
AnsweredIsRefused ==
  \A s \in Streams : stream[s] = "answered" => user[s] \in refused

Undisturbed == UndisturbedUserIsNotified /\ AnsweredIsRefused

LEMMA NextUndisturbed == TypeOK /\ Undisturbed /\ [Next]_vars => Undisturbed'
<1> SUFFICES ASSUME TypeOK, Undisturbed, [Next]_vars PROVE Undisturbed'
  OBVIOUS
<1> USE DEF TypeOK, Undisturbed, UndisturbedUserIsNotified, AnsweredIsRefused, Live
<1>1. ASSUME NEW s \in Streams, Listen(s) PROVE Undisturbed'
  BY <1>1 DEF Listen
<1>2. ASSUME NEW s \in Streams, ListenConflicts(s) PROVE Undisturbed'
  BY <1>2 DEF ListenConflicts
<1>3. ASSUME NEW s \in Streams, Close(s) PROVE Undisturbed'
  BY <1>3 DEF Close
<1>4. ASSUME NEW u \in Users, Push(u) PROVE Undisturbed'
  BY <1>4 DEF Push, PassesOn
<1>5. CASE UNCHANGED vars
  BY <1>5 DEF vars
<1> QED
  BY <1>1, <1>2, <1>3, <1>4, <1>5 DEF Next

\* Without a duplicate request a user has one stream, and it misses nothing.
THEOREM UndisturbedUsersAreNotified == Spec => []UndisturbedUserIsNotified
<1>1. Init => Undisturbed
  BY DEF Init, Undisturbed, UndisturbedUserIsNotified, AnsweredIsRefused, Live
<1>2. Undisturbed => UndisturbedUserIsNotified
  BY DEF Undisturbed
<1> QED
  BY <1>1, <1>2, NextUndisturbed, TypeCorrect, PTL DEF Spec

-----------------------------------------------------------------------------
(* The hub behind the front.                                                *)

HubSound == NobodyLockedOut /\ Undisturbed

LEMMA HubEndsType ==
  ASSUME TypeOK, HubEnds
  PROVE  TypeOK'
  BY DEF TypeOK, HubEnds

LEMMA HubEndsSound ==
  ASSUME TypeOK, HubEnds
  PROVE  HubSound'
<1>1. \A s \in Streams : stream'[s] \notin {"live", "answered"}
  BY DEF HubEnds, TypeOK
<1>2. notifiers' = {} /\ missed' = {}
  BY DEF HubEnds
<1> QED
  BY <1>1, <1>2 DEF HubSound, NobodyLockedOut, Undisturbed, UndisturbedUserIsNotified,
                    AnsweredIsRefused, Live

\* Every step of the front is one of the hub, none for the hub, or the end of
\* the process.
LEMMA FrontStepAtHub ==
  ASSUME [FrontNext]_frontVars
  PROVE  [Next]_vars \/ Crash
<1>1. AtStream => Next
  BY DEF AtStream, StreamOpens, StreamTurned, StreamCloses, Notice, Next
<1>2. ASSUME NEW r \in Requests, AtRequest(r) PROVE UNCHANGED hubVars
  BY <1>2 DEF AtRequest, Arrive, Admit, Succeed, CatchError, Answer, GuardRefuses, Fail
<1>3. FolderMade \/ LineWritten \/ Restart \/ (\E f \in Failures : FailElsewhere(f))
        \/ UNCHANGED frontVars => UNCHANGED hubVars
  BY DEF FolderMade, LineWritten, Restart, FailElsewhere, frontVars
<1>4. UNCHANGED hubVars => UNCHANGED vars
  BY DEF hubVars, vars
<1> QED
  BY <1>1, <1>2, <1>3, <1>4 DEF FrontNext, LoggingThrows, Kill

LEMMA FrontStepHub ==
  ASSUME TypeOK, HubSound, [FrontNext]_frontVars
  PROVE  TypeOK' /\ HubSound'
<1>1. CASE [Next]_vars
  BY <1>1, NextType, NextOpen, NextUndisturbed DEF HubSound
<1>2. CASE Crash
  BY <1>2, HubEndsType, HubEndsSound DEF Crash
<1> QED
  BY <1>1, <1>2, FrontStepAtHub

-----------------------------------------------------------------------------
(* Types.                                                                   *)

\* However many streams there may ever be, finitely many are live: each was
\* opened by a step of its own.
LiveStreams  == {s \in Streams : stream[s] = "live"}
LiveIsFinite == IsFiniteSet(LiveStreams)

LEMMA LiveStaysFinite ==
  ASSUME TypeOK, LiveIsFinite, [FrontNext]_frontVars
  PROVE  LiveIsFinite'
<1>1. ASSUME NEW s \in Streams, Listen(s) PROVE LiveIsFinite'
  <2>1. LiveStreams' \subseteq LiveStreams \cup {s}
    BY <1>1 DEF Listen, LiveStreams, TypeOK
  <2> QED
    BY <2>1, FS_AddElement, FS_Subset DEF LiveIsFinite
<1>2. CASE LiveStreams' \subseteq LiveStreams
  BY <1>2, FS_Subset DEF LiveIsFinite
<1>3. ASSUME NEW s \in Streams, ListenConflicts(s) \/ Close(s)
      PROVE  LiveStreams' \subseteq LiveStreams
  BY <1>3 DEF ListenConflicts, Close, LiveStreams, TypeOK
<1>4. (\E u \in Users : Push(u)) \/ UNCHANGED vars => LiveStreams' \subseteq LiveStreams
  BY DEF Push, vars, LiveStreams
<1>5. Crash => LiveStreams' \subseteq LiveStreams
  BY DEF Crash, HubEnds, LiveStreams, TypeOK
<1> QED
  BY <1>1, <1>2, <1>3, <1>4, <1>5, FrontStepAtHub DEF Next

LEMMA ManyPassOn ==
  ASSUME LiveIsFinite, NEW u \in Users
  PROVE  Cardinality({s \in Streams : PassesOn(s, u)}) \in Nat
<1>1. {s \in Streams : PassesOn(s, u)} \subseteq LiveStreams
  BY DEF PassesOn, LiveStreams
<1> QED
  BY <1>1, FS_Subset, FS_CardinalityType DEF LiveIsFinite

JobsType == jobs \in [mkdir: 0..MaxJobs, append: 0..MaxJobs]

LEMMA AppendType ==
  ASSUME JobsType, NEW n \in Nat, Append(n)
  PROVE  JobsType' /\ jobs'.mkdir = jobs.mkdir + (IF folder THEN 0 ELSE n)
  BY FrontAssumption DEF JobsType, Append, FoldersToMake

ReqType == req \in [Requests -> Busy \cup {Free}]

LEMMA PutType ==
  ASSUME ReqType, NEW r \in Requests, NEW x \in Busy \cup {Free}, Put(r, x)
  PROVE  ReqType'
  BY DEF ReqType, Put

LEMMA ReqFacts ==
  ASSUME ReqType, NEW r \in Requests, At(r, "failed")
  PROVE  req[r] \in [at: {"failed"}, why: Failures, logged: BOOLEAN, overtaken: BOOLEAN]
  BY DEF ReqType, Busy, Free, At

LEMMA OvertakeType ==
  ASSUME ReqType, NEW q \in Requests, NEW f \in Failures
  PROVE  Overtake(q, f) \in Busy \cup {Free}
<1>1. CASE At(q, "failed")
  <2>1. req[q] \in [at: {"failed"}, why: Failures, logged: BOOLEAN, overtaken: BOOLEAN]
    BY <1>1, ReqFacts
  <2>2. [req[q] EXCEPT !.overtaken = TRUE]
          \in [at: {"failed"}, why: Failures, logged: BOOLEAN, overtaken: BOOLEAN]
    BY <2>1
  <2> QED
    BY <2>1, <2>2 DEF Overtake, Busy
<1>2. CASE ~At(q, "failed")
  BY <1>2 DEF Overtake, ReqType
<1> QED
  BY <1>1, <1>2

LEMMA SetSubstatusType ==
  ASSUME substatus \in [Kinds -> Marks], NEW f \in Failures, SetSubstatus(f)
  PROVE  substatus' \in [Kinds -> Marks]
<1>1. f[2] \in Marks
  BY DEF Marks
<1> QED
  BY <1>1 DEF SetSubstatus

LEMMA FailWithType ==
  ASSUME ReqType, NEW r \in Requests, NEW f \in Failures, NEW b \in BOOLEAN, FailWith(r, f, b)
  PROVE  ReqType'
<1> DEFINE x == [at |-> "failed", why |-> f, logged |-> b, overtaken |-> FALSE]
<1>1. x \in Busy \cup {Free}
  BY DEF Busy
<1>2. [q \in Requests |-> Overtake(q, f)] \in [Requests -> Busy \cup {Free}]
  BY OvertakeType
<1>3. req' = [[q \in Requests |-> Overtake(q, f)] EXCEPT ![r] = x]
  BY DEF FailWith
<1> HIDE DEF x
<1> QED
  BY <1>1, <1>2, <1>3 DEF ReqType

LEMMA RequestType ==
  ASSUME FrontTypeOK, NEW r \in Requests, AtRequest(r)
  PROVE  JobsType' /\ ReqType' /\ substatus' \in [Kinds -> Marks]
<1>1. JobsType /\ ReqType /\ substatus \in [Kinds -> Marks]
  BY DEF FrontTypeOK, JobsType, ReqType
<1>2. Free \in Busy \cup {Free} /\ \A p \in {"guard", "handler"} : [at |-> p] \in Busy \cup {Free}
  BY DEF Busy
<1>3. CASE Arrive(r) \/ Admit(r)
  BY <1>1, <1>2, <1>3, PutType DEF Arrive, Admit, logVars, JobsType
<1>4. CASE Succeed(r)
  BY <1>1, <1>2, <1>4, PutType, AppendType DEF Succeed
<1>5. CASE CatchError(r)
  BY <1>1, <1>5, FailWithType, AppendType, SetSubstatusType, FailureAssumption
  DEF CatchError, FailWith
<1>6. CASE Answer(r)
  <2>1. JobsType'
    BY <1>1, <1>6, AppendType DEF Answer, logVars, JobsType
  <2> QED
    BY <1>1, <1>2, <1>6, <2>1, PutType DEF Answer
<1>7. ASSUME NEW f \in Failures, GuardRefuses(r, f) \/ Fail(r, f)
      PROVE  JobsType' /\ ReqType' /\ substatus' \in [Kinds -> Marks]
  <2>1. JobsType'
    BY <1>1, <1>7 DEF GuardRefuses, Fail, logVars, JobsType
  <2>2. FailWith(r, f, TRUE) \/ FailWith(r, f, FALSE)
    BY <1>7 DEF GuardRefuses, Fail
  <2> QED
    BY <1>1, <2>1, <2>2, FailWithType, SetSubstatusType DEF FailWith
<1> QED
  BY <1>3, <1>4, <1>5, <1>6, <1>7 DEF AtRequest

LEMMA FrontStepType ==
  ASSUME FrontTypeOK, LiveIsFinite, HubSound, [FrontNext]_frontVars
  PROVE  FrontTypeOK'
<1>1. TypeOK' /\ JobsType /\ ReqType /\ substatus \in [Kinds -> Marks]
  BY FrontStepHub DEF FrontTypeOK, JobsType, ReqType
<1>2. CASE AtStream
  <2>1. UNCHANGED <<server, found, substatus, req, starts>>
    BY <1>2 DEF AtStream
  <2>2. UNCHANGED logVars \/ \E n \in Nat : Append(n)
    BY <1>2, ManyPassOn DEF AtStream, StreamOpens, StreamTurned, StreamCloses, Notice
  <2>3. JobsType' /\ folder' = folder /\ thrown' = thrown
    BY <1>1, <2>2, AppendType DEF logVars, JobsType, Append
  <2> QED
    BY <1>1, <2>1, <2>3 DEF FrontTypeOK, JobsType
<1>3. ASSUME NEW r \in Requests, AtRequest(r) PROVE FrontTypeOK'
  <2>1. UNCHANGED <<server, found, folder, thrown, starts>>
    BY <1>3 DEF AtRequest, Arrive, Admit, Succeed, CatchError, Answer, GuardRefuses, Fail,
                logVars, Append
  <2> QED
    BY <1>1, <1>3, <2>1, RequestType DEF FrontTypeOK, JobsType, ReqType
<1>4. ASSUME NEW f \in Failures, FailElsewhere(f) PROVE FrontTypeOK'
  <2>1. req' \in [Requests -> Busy \cup {Free}]
    BY <1>1, <1>4, OvertakeType DEF FailElsewhere
  <2>2. substatus' \in [Kinds -> Marks]
    BY <1>1, <1>4, SetSubstatusType DEF FailElsewhere
  <2> QED
    BY <1>1, <1>4, <2>1, <2>2 DEF FailElsewhere, FrontTypeOK, logVars
<1>5. CASE FolderMade \/ LineWritten
  <2>1. jobs' \in [mkdir: 0..MaxJobs, append: 0..MaxJobs]
    <3>1. CASE FolderMade
      BY <1>1, <3>1, FrontAssumption DEF FolderMade, JobsType
    <3>2. CASE LineWritten
      BY <1>1, <3>2, FrontAssumption DEF LineWritten, JobsType
    <3> QED
      BY <1>5, <3>1, <3>2
  <2>2. folder' \in BOOLEAN
    BY <1>5 DEF FolderMade, LineWritten, FrontTypeOK
  <2>3. thrown' \in BOOLEAN
    BY <1>5 DEF FolderMade, LineWritten
  <2>4. UNCHANGED <<server, found, substatus, req, starts>>
    BY <1>5 DEF FolderMade, LineWritten
  <2> QED
    BY <1>1, <2>1, <2>2, <2>3, <2>4 DEF FrontTypeOK
<1>6. CASE Crash
  <2>1. jobs' \in [mkdir: 0..MaxJobs, append: 0..MaxJobs]
    BY <1>6, FrontAssumption DEF Crash
  <2>2. req' \in [Requests -> Busy \cup {Free}] /\ substatus' \in [Kinds -> Marks]
    BY <1>6 DEF Crash, Marks
  <2>3. folder' \in BOOLEAN /\ server' \in BOOLEAN /\ thrown' \in BOOLEAN
    BY <1>6 DEF Crash, FrontTypeOK
  <2> QED
    BY <1>1, <1>6, <2>1, <2>2, <2>3 DEF Crash, FrontTypeOK
<1>7. CASE Restart
  <2>1. starts' \in 0..MaxStarts
    BY <1>7, FrontAssumption DEF Restart, FrontTypeOK
  <2> QED
    BY <1>1, <1>7, <2>1 DEF Restart, FrontTypeOK, logVars
<1>8. CASE UNCHANGED frontVars
  BY <1>1, <1>8 DEF frontVars, FrontTypeOK, logVars
<1> QED
  BY <1>2, <1>3, <1>4, <1>5, <1>6, <1>7, <1>8 DEF FrontNext, LoggingThrows, Kill

-----------------------------------------------------------------------------
(* The log.                                                                 *)

\* Nothing is under way while the process is down, so whatever a process finds
\* when it starts stays as it found it.
NothingWhileDown ==
    ~server => ~thrown /\ jobs.mkdir = 0 /\ jobs.append = 0 /\ \A r \in Requests : At(r, "free")

LogSound == SteadyLog /\ NothingWhileDown

LEMMA FrontStepLog ==
  ASSUME FrontTypeOK, LiveIsFinite, LogSound, [FrontNext]_frontVars
  PROVE  LogSound'
<1>0. JobsType
  BY DEF FrontTypeOK, JobsType
<1>1. ASSUME NEW n \in Nat, Append(n), server, UNCHANGED <<server, found>> PROVE LogSound'
  BY <1>0, <1>1, AppendType DEF Append, LogSound, SteadyLog, NothingWhileDown
<1>2. ASSUME UNCHANGED logVars, server, UNCHANGED <<server, found>> PROVE LogSound'
  BY <1>2 DEF logVars, LogSound, SteadyLog, NothingWhileDown
<1>3. CASE AtStream
  <2>1. UNCHANGED logVars \/ \E n \in Nat : Append(n)
    BY <1>3, ManyPassOn DEF AtStream, StreamOpens, StreamTurned, StreamCloses, Notice
  <2> QED
    BY <1>1, <1>2, <1>3, <2>1 DEF AtStream
<1>4. ASSUME NEW r \in Requests, AtRequest(r) PROVE LogSound'
  <2>1. server
    BY <1>4 DEF AtRequest, Arrive, Admit, Succeed, CatchError, Answer, GuardRefuses, Fail,
                LogSound, NothingWhileDown, At
  <2>2. UNCHANGED <<server, found>>
    BY <1>4 DEF AtRequest, Arrive, Admit, Succeed, CatchError, Answer, GuardRefuses, Fail
  <2>3. UNCHANGED logVars \/ Append(1)
    BY <1>4 DEF AtRequest, Arrive, Admit, Succeed, CatchError, Answer, GuardRefuses, Fail
  <2> QED
    BY <1>1, <1>2, <2>1, <2>2, <2>3
<1>5. CASE \E f \in Failures : FailElsewhere(f)
  BY <1>2, <1>5 DEF FailElsewhere
<1>6. CASE FolderMade
  <2>1. ~found /\ server
    BY <1>0, <1>6 DEF FolderMade, LogSound, SteadyLog, NothingWhileDown, JobsType
  <2> QED
    BY <1>6, <2>1 DEF FolderMade, LogSound, SteadyLog, NothingWhileDown
<1>7. CASE LineWritten
  <2>1. jobs'.mkdir = jobs.mkdir
    BY <1>0, <1>7 DEF LineWritten, JobsType
  <2>2. found => folder /\ ~thrown
    BY DEF LogSound, SteadyLog
  <2>3. SteadyLog'
    BY <1>7, <2>1, <2>2 DEF LineWritten, LogSound, SteadyLog
  <2>4. server /\ server' = server
    BY <1>0, <1>7 DEF LineWritten, LogSound, NothingWhileDown, JobsType
  <2>5. NothingWhileDown'
    BY <2>4 DEF NothingWhileDown
  <2> QED
    BY <2>3, <2>5 DEF LogSound
<1>8. CASE Crash
  <2>1. jobs'.mkdir = 0 /\ jobs'.append = 0 /\ ~thrown' /\ \A r \in Requests : At(r, "free")'
    BY <1>8 DEF Crash, At, Free
  <2>2. found' = found /\ (folder => folder')
    BY <1>8 DEF Crash
  <2> QED
    BY <2>1, <2>2 DEF LogSound, SteadyLog, NothingWhileDown
<1>9. CASE Restart
  BY <1>9 DEF Restart, logVars, LogSound, SteadyLog, NothingWhileDown
<1>10. CASE UNCHANGED frontVars
  BY <1>10 DEF frontVars, logVars, LogSound, SteadyLog, NothingWhileDown, At
<1> QED
  BY <1>3, <1>4, <1>5, <1>6, <1>7, <1>8, <1>9, <1>10 DEF FrontNext, LoggingThrows, Kill

-----------------------------------------------------------------------------
(* The errors of the catalogue.                                             *)

\* A failure of the same object overtakes the requests that failed before it,
\* or leaves the substatus alone.
LEMMA OvertakenOrKept ==
  ASSUME FrontTypeOK, OwnSubstatusIsAnswered, NEW f \in Failures, SetSubstatus(f),
         NEW q \in Requests, req'[q] = Overtake(q, f), At(q, "failed")',
         req'[q].why[2] # Plain, ~req'[q].overtaken
  PROVE  substatus'[req'[q].why[1]] = req'[q].why[2]
<1>1. At(q, "failed")
  BY DEF At, Overtake
<1>2. req[q] \in [at: {"failed"}, why: Failures, logged: BOOLEAN, overtaken: BOOLEAN]
  BY <1>1, ReqFacts DEF FrontTypeOK, ReqType
<1>3. ~(req[q].why[1] = f[1] /\ f[2] # Plain) /\ req'[q] = req[q]
  BY <1>1, <1>2 DEF Overtake
<1>4. substatus[req[q].why[1]] = req[q].why[2]
  BY <1>1, <1>3 DEF OwnSubstatusIsAnswered, Said
<1>5. req[q].why[1] \in Kinds
  BY <1>2 DEF Kinds
<1>6. substatus'[req[q].why[1]] = substatus[req[q].why[1]]
  BY <1>3, <1>5 DEF SetSubstatus, FrontTypeOK
<1> QED
  BY <1>3, <1>4, <1>6

LEMMA FailWithAnswers ==
  ASSUME FrontTypeOK, OwnSubstatusIsAnswered, NEW r \in Requests, NEW f \in Failures,
         NEW b \in BOOLEAN, FailWith(r, f, b)
  PROVE  OwnSubstatusIsAnswered'
<1> SUFFICES ASSUME NEW q \in Requests, At(q, "failed")', req'[q].why[2] # Plain,
                    ~req'[q].overtaken
             PROVE  substatus'[req'[q].why[1]] = req'[q].why[2]
  BY DEF OwnSubstatusIsAnswered, Said
<1>1. CASE q = r
  <2>1. req'[q] = [at |-> "failed", why |-> f, logged |-> b, overtaken |-> FALSE]
    BY <1>1 DEF FailWith
  <2>2. f[1] \in Kinds /\ f[2] # Plain /\ req'[q].why = f
    BY <2>1 DEF Kinds
  <2>3. substatus'[f[1]] = f[2]
    BY <2>2 DEF FailWith, SetSubstatus, FrontTypeOK
  <2> QED
    BY <2>2, <2>3
<1>2. CASE q # r
  <2>1. req'[q] = Overtake(q, f)
    BY <1>2 DEF FailWith
  <2> QED
    BY <2>1, OvertakenOrKept DEF FailWith
<1> QED
  BY <1>1, <1>2

LEMMA FrontStepAnswers ==
  ASSUME FrontTypeOK, OwnSubstatusIsAnswered, [FrontNext]_frontVars
  PROVE  OwnSubstatusIsAnswered'
<1>1. ASSUME UNCHANGED substatus, \A q \in Requests : At(q, "failed")' => req'[q] = req[q]
      PROVE  OwnSubstatusIsAnswered'
  BY <1>1 DEF OwnSubstatusIsAnswered, Said, At
<1>2. CASE AtStream \/ FolderMade \/ LineWritten \/ Restart \/ UNCHANGED frontVars
  BY <1>1, <1>2 DEF AtStream, FolderMade, LineWritten, Restart, frontVars
<1>3. ASSUME NEW r \in Requests, AtRequest(r) PROVE OwnSubstatusIsAnswered'
  <2>1. CASE Arrive(r) \/ Admit(r) \/ Succeed(r) \/ Answer(r)
    <3>1. UNCHANGED substatus
      BY <2>1 DEF Arrive, Admit, Succeed, Answer
    <3>2. \E x : x.at # "failed" /\ Put(r, x)
      BY <2>1 DEF Arrive, Admit, Succeed, Answer, Free
    <3>3. \A q \in Requests : At(q, "failed")' => req'[q] = req[q]
      BY <3>2 DEF Put, At, FrontTypeOK
    <3> QED
      BY <1>1, <3>1, <3>3
  <2>2. CASE CatchError(r)
    BY <2>2, FailWithAnswers, FailureAssumption DEF CatchError
  <2>3. CASE \E f \in Failures : GuardRefuses(r, f) \/ Fail(r, f)
    BY <2>3, FailWithAnswers DEF GuardRefuses, Fail
  <2> QED
    BY <1>3, <2>1, <2>2, <2>3 DEF AtRequest
<1>4. ASSUME NEW f \in Failures, FailElsewhere(f) PROVE OwnSubstatusIsAnswered'
  BY <1>4, OvertakenOrKept DEF FailElsewhere, OwnSubstatusIsAnswered, Said
<1>5. CASE Crash
  BY <1>5 DEF Crash, OwnSubstatusIsAnswered, At, Free
<1> QED
  BY <1>2, <1>3, <1>4, <1>5 DEF FrontNext, LoggingThrows, Kill

-----------------------------------------------------------------------------
(* The theorems.                                                            *)

FrontInductive == FrontTypeOK /\ LiveIsFinite /\ HubSound /\ LogSound /\ OwnSubstatusIsAnswered

LEMMA FrontInitInductive == FrontInit => FrontInductive
<1> SUFFICES ASSUME FrontInit PROVE FrontInductive
  OBVIOUS
<1>1. TypeOK
  BY InitType DEF FrontInit
<1>2. FrontTypeOK
  <2>1. /\ jobs \in [mkdir: 0..MaxJobs, append: 0..MaxJobs]
        /\ starts \in 0..MaxStarts
    BY FrontAssumption DEF FrontInit
  <2>2. substatus \in [Kinds -> Marks] /\ req \in [Requests -> Busy \cup {Free}]
    BY DEF FrontInit, Marks
  <2>3. server \in BOOLEAN /\ folder \in BOOLEAN /\ found \in BOOLEAN /\ thrown \in BOOLEAN
    BY DEF FrontInit
  <2> QED
    BY <1>1, <2>1, <2>2, <2>3 DEF FrontTypeOK
<1>3. \A s \in Streams : stream[s] = "unused"
  BY DEF FrontInit, Init
<1>4. LiveIsFinite
  <2>1. LiveStreams = {}
    BY <1>3 DEF LiveStreams
  <2> QED
    BY <2>1, FS_EmptySet DEF LiveIsFinite
<1>5. HubSound
  BY <1>3 DEF FrontInit, Init, HubSound, NobodyLockedOut, Undisturbed, UndisturbedUserIsNotified,
              AnsweredIsRefused, Live
<1>6. LogSound /\ OwnSubstatusIsAnswered
  BY DEF FrontInit, LogSound, SteadyLog, NothingWhileDown, OwnSubstatusIsAnswered, At, Free
<1> QED
  BY <1>2, <1>4, <1>5, <1>6 DEF FrontInductive

LEMMA FrontIsInductive == FrontSpec => []FrontInductive
<1>1. FrontInductive /\ [FrontNext]_frontVars => FrontInductive'
  <2>1. FrontInductive => TypeOK
    BY DEF FrontInductive, FrontTypeOK
  <2> QED
    BY <2>1, FrontStepType, LiveStaysFinite, FrontStepHub, FrontStepLog, FrontStepAnswers
    DEF FrontInductive
<1> QED
  BY <1>1, FrontInitInductive, PTL DEF FrontSpec

\* Every variable of the front keeps its type; the appends under way stay within
\* their bound, although a notice is logged by every stream that passes it on.
THEOREM FrontTypeCorrect == FrontSpec => []FrontTypeOK
<1>1. FrontInductive => FrontTypeOK
  BY DEF FrontInductive
<1> QED
  BY <1>1, FrontIsInductive, PTL

\* A process that found the folder of the log when it started does not die of
\* logging, however many appends are under way at once.
THEOREM LogIsSteady == FrontSpec => []SteadyLog
<1>1. FrontInductive => SteadyLog
  BY DEF FrontInductive, LogSound
<1> QED
  BY <1>1, FrontIsInductive, PTL

\* A failed request is told the substatus its own failure set, unless another
\* failure set one of the same object in between.
THEOREM OwnSubstatusesAreAnswered == FrontSpec => []OwnSubstatusIsAnswered
<1>1. FrontInductive => OwnSubstatusIsAnswered
  BY DEF FrontInductive
<1> QED
  BY <1>1, FrontIsInductive, PTL

\* Behind the front, with a process that dies and starts over, nobody is locked
\* out either: the list ends with the process, as the streams do.
THEOREM FrontLocksNobodyOut == FrontSpec => []NobodyLockedOut
<1>1. FrontInductive => NobodyLockedOut
  BY DEF FrontInductive, HubSound
<1> QED
  BY <1>1, FrontIsInductive, PTL

\* And a user without a duplicate request misses no notice.
THEOREM FrontNotifiesTheUndisturbed == FrontSpec => []UndisturbedUserIsNotified
<1>1. FrontInductive => UndisturbedUserIsNotified
  BY DEF FrontInductive, HubSound, Undisturbed
<1> QED
  BY <1>1, FrontIsInductive, PTL
=============================================================================
