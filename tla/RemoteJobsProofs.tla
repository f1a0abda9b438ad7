-------------------------- MODULE RemoteJobsProofs --------------------------
(***************************************************************************)
(* Theorems about the desktop's side of remote work (RemoteJobs).          *)
(*                                                                         *)
(* The first part, ShapeInv, holds whatever the constants are: what each   *)
(* activity has asked the host is what the place it waits at says.  The    *)
(* second part, OwnerInv, is about a desktop without the recovery          *)
(* supervisor: the pipeline alone writes the identity.  With the           *)
(* supervisor JobsOwned is false (MCRemoteJobsStale.cfg).                  *)
(***************************************************************************)
EXTENDS RemoteJobs, TLAPS

USE NamesAssumption, LateAssumption, FlagsAssumption, NilAssumption

-----------------------------------------------------------------------------
(* What a turn of the loop does                                            *)

\* The run goes on: a cancel, an upload or a poll of the job in hand is sent.
GoesOn(i, row, s) ==
  /\ pipe' \in {"cancel", "put", "poll"}
  /\ req' = [req EXCEPT !["pipeline"] = Ask(IF pipe' = "poll" THEN "get" ELSE pipe', i.id)]
  /\ mine' = i /\ ident' = row /\ seen' = s
  /\ pipe' = "poll" => s \in Host!Running
  /\ result' = result /\ flagged' = flagged
  /\ overdue' \subseteq overdue

\* It ends with the host's result saved, or without one.
EndsWith(i, row, s) ==
  /\ Finish
  /\ \/ /\ s = "completed" /\ ~flagged
        /\ result' = i.id /\ ident' = [i EXCEPT !.observed = "completed"]
     \/ result' = result /\ ident' = row

\* Whatever the pipeline makes of a status, it goes on with the job or ends with it.
LEMMA TurnCases ==
  ASSUME NEW i, NEW row, NEW s, FirstTurn(i, row, s) \/ Turn(i, row, s)
  PROVE  GoesOn(i, row, s) \/ EndsWith(i, row, s)
<1>1. CASE Turn(i, row, s)
  BY <1>1 DEF Turn, GoesOn, EndsWith, To, Send, CancelsFirst
<1>2. CASE FirstTurn(i, row, s) /\ ~Turn(i, row, s)
  BY <1>2 DEF FirstTurn, GoesOn, To, Send
<1> QED
  BY <1>1, <1>2

\* A status the host gave, for the job the pipeline asked about.
Told(i, s) ==
  LET r == req["pipeline"] IN
  \/ /\ r.answer \notin {"none", "error", "ok"} /\ s = r.answer
     /\ i.id = IF pipe = "post" THEN r.job ELSE mine.id
  \/ pipe = "poll" /\ r.answer = "error" /\ s = seen /\ i.id = mine.id

\* The four ways into the loop, as one step.
Turns ==
  /\ pipe \in {"get", "post", "put", "observe", "poll"}
  /\ \E i \in Identities, row \in Identities \cup {Nil}, s \in Host!Statuses \cup {"none"} :
       /\ i.id \in Jobs /\ i.key = mine.key /\ Told(i, s)
       /\ row \in {i, ident} /\ (mine = ident => row = i)
       /\ i.observed = mine.observed
       /\ GoesOn(i, row, s) \/ EndsWith(i, row, s)
  /\ UNCHANGED <<hostVars, queued, obs, late>>

\* A restart of a job the host confirms ended, under a new key.
Replaces ==
  /\ pipe = "get"
  /\ req["pipeline"].answer \in {"failed", "cancelled", "interrupted"}
  /\ \E k \in Spare :
       /\ mine' = NewIdentity(k) /\ ident' = NewIdentity(k)
       /\ pipe' = "post" /\ req' = [req EXCEPT !["pipeline"] = Ask("post", k)]
  /\ UNCHANGED <<hostVars, queued, obs, late, result, seen, flagged, overdue>>

\* What the pipeline makes of any answer is a turn with the job it has, or a replacement.
LEMMA Turning ==
  ASSUME ShapeInv, GotJob \/ GotNewJob \/ Uploaded \/ Polled
  PROVE  Turns \/ Replaces
<1> DEFINE r == req["pipeline"]
<1> USE DEF Reads, Answered, Answer
<1>1. /\ mine \in Identities \cup {Nil} /\ ident \in Identities \cup {Nil}
      /\ seen \in Host!Statuses \cup {"none"}
      /\ r.answer \in Host!Statuses \cup {"none", "ok", "error"}
  BY DEF ShapeInv, TypeOK, Actors
<1>2. pipe \in {"get", "post", "put", "observe", "poll"} => mine \in Identities /\ r.answer # "ok"
  BY DEF ShapeInv, PipeInv, AnswerInv, Actors
<1>3. pipe \in {"get", "put", "observe", "poll"} => mine.id \in Jobs
  BY DEF ShapeInv, PipeInv
<1>4. pipe = "post" /\ r.answer \notin {"none", "error"} => r.job \in Jobs
  BY DEF ShapeInv, PipeInv, AnswerInv, Actors
<1>5. CASE GotJob
  <2>1. CASE mine.restart /\ Replaceable(r.answer)
    <3>1. PICK k \in Spare :
            /\ mine' = NewIdentity(k) /\ ident' = mine' /\ pipe = "get"
            /\ pipe' = "post" /\ req' = [req EXCEPT !["pipeline"] = Ask("post", mine'.key)]
            /\ UNCHANGED <<hostVars, queued, obs, late, result, seen, flagged, overdue>>
      BY <1>5, <2>1 DEF GotJob, To, Send
    <3>2. NewIdentity(k).key = k
      BY DEF NewIdentity
    <3> QED
      BY <2>1, <3>1, <3>2 DEF Replaces, Replaceable
  <2>2. CASE ~(mine.restart /\ Replaceable(r.answer))
    <3>1. PICK i : i = [mine EXCEPT !.restart = FALSE]
      OBVIOUS
    <3>2. PICK row : row = IF mine.restart THEN i ELSE ident
      OBVIOUS
    <3>3. PICK s : s = r.answer
      OBVIOUS
    <3>4. FirstTurn(i, row, s) /\ UNCHANGED <<hostVars, queued, obs, late>>
      BY <1>5, <2>2, <3>1, <3>2, <3>3 DEF GotJob
    <3>5. GoesOn(i, row, s) \/ EndsWith(i, row, s)
      BY <3>4, TurnCases
    <3>6. pipe = "get" /\ r.answer \notin {"none", "error", "ok"}
      BY <1>5, <1>2 DEF GotJob
    <3>7. i \in Identities /\ i.id = mine.id /\ i.key = mine.key /\ i.observed = mine.observed
      BY <1>2, <3>1, <3>6 DEF Identities
    <3>8. mine = ident => row = i
      BY <1>2, <3>1, <3>2, <3>6 DEF Identities
    <3>9. Told(i, s) /\ s \in Host!Statuses \cup {"none"}
      BY <1>1, <3>3, <3>6, <3>7 DEF Told
    <3>10. row \in {i, ident} /\ row \in Identities \cup {Nil} /\ i.id \in Jobs
      BY <1>1, <1>3, <3>2, <3>6, <3>7
    <3> QED
      BY <3>4, <3>5, <3>6, <3>7, <3>8, <3>9, <3>10 DEF Turns
  <2> QED
    BY <2>1, <2>2
<1>6. CASE GotNewJob
  <2>1. PICK i : i = [mine EXCEPT !.id = r.job]
    OBVIOUS
  <2>2. PICK s : s = r.answer
    OBVIOUS
  <2>3. FirstTurn(i, i, s) /\ UNCHANGED <<hostVars, queued, obs, late>>
    BY <1>6, <2>1, <2>2 DEF GotNewJob
  <2>4. GoesOn(i, i, s) \/ EndsWith(i, i, s)
    BY <2>3, TurnCases
  <2>5. pipe = "post" /\ r.answer \notin {"none", "error", "ok"}
    BY <1>6, <1>2 DEF GotNewJob
  <2>6. i \in Identities /\ i.id = r.job /\ i.id \in Jobs /\ i.key = mine.key
        /\ i.observed = mine.observed
    BY <1>2, <1>4, <2>1, <2>5 DEF Identities
  <2>7. Told(i, s) /\ s \in Host!Statuses \cup {"none"}
    BY <1>1, <2>2, <2>5, <2>6 DEF Told
  <2> QED
    BY <2>3, <2>4, <2>5, <2>6, <2>7 DEF Turns
<1>7. CASE Uploaded \/ Polled
  <2>1. PICK i : i = mine
    OBVIOUS
  <2>2. PICK row : row = ident
    OBVIOUS
  <2>3. PICK s : s = IF pipe # "put" /\ r.answer = "error" THEN seen ELSE r.answer
    OBVIOUS
  <2>4. pipe \in {"put", "observe", "poll"} /\ r.answer # "none"
        /\ (r.answer = "error" => pipe = "poll")
    BY <1>7 DEF Uploaded, Polled
  <2>5. Turn(i, row, s) /\ UNCHANGED <<hostVars, queued, obs, late>>
    BY <1>7, <2>1, <2>2, <2>3 DEF Uploaded, Polled
  <2>6. GoesOn(i, row, s) \/ EndsWith(i, row, s)
    BY <2>5, TurnCases
  <2>7. Told(i, s) /\ s \in Host!Statuses \cup {"none"}
    BY <1>1, <1>2, <2>1, <2>3, <2>4 DEF Told
  <2>8. i \in Identities /\ i.id \in Jobs /\ row \in Identities \cup {Nil}
    BY <1>1, <1>2, <1>3, <2>1, <2>2, <2>4
  <2> QED
    BY <2>1, <2>2, <2>4, <2>5, <2>6, <2>7, <2>8 DEF Turns
<1> QED
  BY <1>5, <1>6, <1>7

-----------------------------------------------------------------------------
(* The shape of the state                                                  *)

\* What a request carries says who it is for.
LEMMA AskedFor ==
  ASSUME ShapeInv
  PROVE  /\ \A a \in Actors :
              /\ req[a].op = "post" => req[a].arg \in Keys
              /\ req[a].op \in {"get", "put", "cancel"} => req[a].arg \in Jobs
         /\ req["observer"].op \notin {"capabilities", "post", "put"}
         /\ req["pipeline"].op \in {"capabilities", "post", "put", "cancel"} =>
              pipe = req["pipeline"].op
<1>1. /\ pipe \in PipePoints /\ obs.at \in ObsPoints
  BY DEF ShapeInv, TypeOK
<1>2. mine \in Identities => mine.key \in Keys
  BY DEF Identities
<1>3. /\ req["observer"].op \notin {"capabilities", "post", "put"}
      /\ req["observer"].op \in {"get", "cancel"} => req["observer"].arg \in Jobs
  BY <1>1 DEF ShapeInv, ObsInv, ObsPoints, NoRequest
<1>4. req["pipeline"].op \in {"capabilities", "post", "put", "cancel"} => pipe = req["pipeline"].op
  BY <1>1 DEF ShapeInv, PipeInv, PipePoints, NoRequest
<1>5. /\ req["pipeline"].op = "post" => req["pipeline"].arg \in Keys
      /\ req["pipeline"].op \in {"get", "put", "cancel"} => req["pipeline"].arg \in Jobs
  BY <1>1, <1>2 DEF ShapeInv, PipeInv, PipePoints, NoRequest
<1> QED
  BY <1>3, <1>4, <1>5 DEF Actors

\* A step of the host keeps the types of what it shows.
HostTyped == st \in [Jobs -> Host!Statuses] /\ jobKey \in [Jobs -> Keys \cup {NoKey}]

\* A request the host handles keeps them.
LEMMA HandlesTyped ==
  ASSUME HostTyped, NEW op, NEW arg, NEW j \in Jobs, NEW s, op = "post" => arg \in Keys,
         Handles(op, arg, j, s)
  PROVE  HostTyped'
BY DEF HostTyped, Handles, hostVars, Host!Accept, Host!StartUpload, Host!CancelWaiting, Host!To,
       Host!Statuses, Host!Live, Host!Running, Host!Ended

\* So does what the host does by itself.
LEMMA WorksTyped ==
  ASSUME HostTyped, NEW j \in Jobs, HostWorks(j) \/ HostForgets(j)
  PROVE  HostTyped'
<1>1. ASSUME NEW s \in Host!Statuses, Host!To(j, s)
      PROVE  HostTyped'
  BY <1>1 DEF HostTyped, Host!To
<1>2. \A s \in Host!Statuses : Host!AfterRestart(s) \subseteq Host!Statuses
  BY DEF Host!AfterRestart, Host!Statuses, Host!Live, Host!Running, Host!Ended
<1>3. {"running", "completed", "failed", "cancelled", "interrupted", "cleanup-failed", "gone"}
        \subseteq Host!Statuses
  BY DEF Host!Statuses, Host!Live, Host!Running, Host!Ended
<1>4. CASE Known(j) /\ \E s \in Host!AfterRestart(st[j]) : s # st[j] /\ Host!To(j, s)
  <2>1. st[j] \in Host!Statuses
    BY DEF HostTyped
  <2> QED
    BY <1>1, <1>2, <1>4, <2>1
<1>5. CASE HostWorks(j) /\ ~(Known(j) /\ \E s \in Host!AfterRestart(st[j]) : s # st[j] /\ Host!To(j, s))
  BY <1>1, <1>3, <1>5 DEF HostWorks, Host!StartRun, Host!Complete, Host!Fail, Host!Withdraw,
     Host!KeepInput, Host!RetryDelete
<1>6. CASE HostForgets(j)
  BY <1>1, <1>3, <1>6 DEF HostForgets, Host!Forget
<1> QED
  BY <1>4, <1>5, <1>6

\* Asking, hearing and forgetting keep the type of the requests.
RequestType == [op : Ops \cup {"none"}, arg : Keys \cup Jobs \cup {Nil, NoJob},
                answer : Host!Statuses \cup {"none", "ok", "error"}, job : Jobs \cup {NoJob}]

\* A request is typed when it is made.
LEMMA AskTyped ==
  /\ NoRequest \in RequestType
  /\ \A op \in Ops, arg \in Keys \cup Jobs \cup {Nil, NoJob} : Ask(op, arg) \in RequestType
BY DEF NoRequest, Ask, RequestType

\* So are the requests after one was made, dropped or answered.
LEMMA RequestTyped ==
  ASSUME TypeOK, NEW a \in Actors
  PROVE  /\ \A op \in Ops, arg \in Keys \cup Jobs \cup {Nil, NoJob} :
              [req EXCEPT ![a] = Ask(op, arg)] \in [Actors -> RequestType]
         /\ [req EXCEPT ![a] = NoRequest] \in [Actors -> RequestType]
         /\ \A s \in Host!Statuses \cup {"none", "ok", "error"}, j \in Jobs \cup {NoJob} :
              [req EXCEPT ![a].answer = s, ![a].job = j] \in [Actors -> RequestType]
<1> DEFINE reqs == [Actors -> RequestType]
<1>1. req \in reqs
  BY DEF TypeOK, RequestType
<1>2. \A q \in RequestType : [req EXCEPT ![a] = q] \in reqs
  BY <1>1
<1>5. ASSUME NEW s \in Host!Statuses \cup {"none", "ok", "error"}, NEW j \in Jobs \cup {NoJob}
      PROVE  [req EXCEPT ![a].answer = s, ![a].job = j] \in reqs
  <2>1. PICK q : q = [req[a] EXCEPT !.answer = s, !.job = j]
    OBVIOUS
  <2>2. req[a] \in RequestType
    BY <1>1
  <2>3. q \in RequestType
    BY <2>1, <2>2 DEF RequestType
  <2>4. [req EXCEPT ![a].answer = s, ![a].job = j] = [req EXCEPT ![a] = q]
    BY <1>1, <2>1
  <2> QED
    BY <1>2, <2>3, <2>4
<1> QED
  BY <1>2, <1>5, AskTyped

\* So do the steps of the observer with its own record.
ObserverType == [at : ObsPoints, saved : Identities \cup {Nil}, cancel : BOOLEAN,
                 stop : BOOLEAN, registered : BOOLEAN]

\* Every change the observer makes to its record is typed.
LEMMA ObserverTyped ==
  ASSUME TypeOK
  PROVE  /\ NoObserver \in ObserverType
         /\ [obs EXCEPT !.cancel = TRUE] \in ObserverType
         /\ [obs EXCEPT !.stop = TRUE] \in ObserverType
         /\ \A p \in ObsPoints :
              /\ [obs EXCEPT !.at = p] \in ObserverType
              /\ [[obs EXCEPT !.registered = FALSE] EXCEPT !.at = p] \in ObserverType
              /\ [[obs EXCEPT !.registered = TRUE] EXCEPT !.at = p] \in ObserverType
         /\ \A i \in Identities : [NoObserver EXCEPT !.at = "get", !.saved = i] \in ObserverType
<1>1. obs \in ObserverType
  BY DEF TypeOK, ObserverType
<1>2. NoObserver \in ObserverType
  BY DEF NoObserver, ObserverType, ObsPoints
<1>3. \A i \in Identities : [NoObserver EXCEPT !.at = "get", !.saved = i] \in ObserverType
  BY DEF NoObserver, ObserverType, ObsPoints
<1>4. ASSUME NEW p \in ObsPoints
      PROVE  /\ [obs EXCEPT !.at = p] \in ObserverType
             /\ [[obs EXCEPT !.registered = FALSE] EXCEPT !.at = p] \in ObserverType
             /\ [[obs EXCEPT !.registered = TRUE] EXCEPT !.at = p] \in ObserverType
  BY <1>1 DEF ObserverType
<1>5. [obs EXCEPT !.cancel = TRUE] \in ObserverType /\ [obs EXCEPT !.stop = TRUE] \in ObserverType
  BY <1>1 DEF ObserverType
<1> QED
  BY <1>2, <1>3, <1>4, <1>5

\* What lingers of the requests given up on is typed.
LateType == [op : {"post", "put", "cancel"}, arg : Keys \cup Jobs]

\* The requests of actors that end, or may have been heard, are among them.
LEMMA LingerTyped ==
  ASSUME ShapeInv, NEW as \in SUBSET Actors, Linger(Mutating(as))
  PROVE  late' \subseteq LateType /\ LateInv'
<1>1. \A m \in Mutating(as) : m \in LateType /\ (m.op = "post" => m.arg \in Keys)
  <2>1. ASSUME NEW m \in Mutating(as)
        PROVE  m \in LateType /\ (m.op = "post" => m.arg \in Keys)
    <3>1. PICK a \in as : /\ req[a].op \in {"post", "put", "cancel"}
                          /\ m = [op |-> req[a].op, arg |-> req[a].arg]
      BY DEF Mutating
    <3> QED
      BY <3>1, AskedFor DEF LateType
  <2> QED
    BY <2>1
<1>2. late' \subseteq late \cup Mutating(as)
  BY DEF Linger
<1>3. late \subseteq LateType /\ LateInv
  BY DEF ShapeInv, TypeOK, LateType
<1> QED
  BY <1>1, <1>2, <1>3 DEF LateInv

\* The part of TypeOK that is about neither the host nor the requests.
DataTyped ==
  /\ ident \in Identities \cup {Nil} /\ result \in Jobs \cup {NoJob}
  /\ queued \in BOOLEAN /\ flagged \in BOOLEAN
  /\ pipe \in PipePoints /\ mine \in Identities \cup {Nil}
  /\ seen \in Host!Statuses \cup {"none"}
  /\ overdue \subseteq Actors

\* Identities are made and changed within their type.
LEMMA IdentityTyped ==
  /\ \A k \in Keys : NewIdentity(k) \in Identities
  /\ \A i \in Identities :
       /\ i.id \in Jobs \cup {NoJob} /\ i.key \in Keys
       /\ [i EXCEPT !.restart = TRUE] \in Identities
       /\ \A s \in Host!Statuses \cup {"none"} : [i EXCEPT !.observed = s] \in Identities
BY DEF NewIdentity, Identities

\* The host keeps its types.
LEMMA HostTypesKept == ShapeInv /\ [Next]_vars => HostTyped'
<1> SUFFICES ASSUME ShapeInv, [Next]_vars PROVE HostTyped'
  OBVIOUS
<1> USE DEF ShapeInv, TypeOK, HostTyped, hostVars
<1>1. ASSUME StartPipeline PROVE HostTyped'
  BY <1>1 DEF StartPipeline
<1>2. ASSUME Load PROVE HostTyped'
  BY <1>2 DEF Load, Finish, Quiet, ForgetCancel, To, Send, Ask
<1>3. ASSUME Throws PROVE HostTyped'
  BY <1>3 DEF Throws, Finish, Quiet, ForgetCancel, Answered
<1>4. ASSUME HasCapabilities PROVE HostTyped'
  BY <1>4 DEF HasCapabilities, Reads, Answered, To, Send, Ask
<1>5. ASSUME Turns PROVE HostTyped'
  BY <1>5 DEF Turns, GoesOn, EndsWith, Finish, Quiet, ForgetCancel, Ask
<1>6. ASSUME Replaces PROVE HostTyped'
  BY <1>6 DEF Replaces, Ask, NewIdentity
<1>7. ASSUME UploadFails PROVE HostTyped'
  BY <1>7 DEF UploadFails, Finish, Quiet, ForgetCancel, Answer, To, Send, Ask
<1>8. ASSUME CancelAccepted PROVE HostTyped'
  BY <1>8 DEF CancelAccepted, Reads, Answered, To, Send, Ask
<1>9. ASSUME CancelObserved PROVE HostTyped'
  BY <1>9 DEF CancelObserved, Reads, Answered, Finish, Quiet, ForgetCancel, To, Send, Ask
<1>10. ASSUME Attach PROVE HostTyped'
  BY <1>10 DEF Attach, Send, Ask, NoObserver
<1>11. ASSUME ObserverWakes PROVE HostTyped'
  BY <1>11 DEF ObserverWakes, Detach, Observe, Quiet, NoObserver, Send, Ask
<1>12. ASSUME ObserverCancels PROVE HostTyped'
  BY <1>12 DEF ObserverCancels, Detach, Observe, Quiet, NoObserver, Send, Ask, Answered
<1>13. ASSUME ObserverReadFails PROVE HostTyped'
  BY <1>13 DEF ObserverReadFails, Detach, Sleep, Quiet, NoObserver, Answered
<1>14. ASSUME ObserverReads PROVE HostTyped'
  BY <1>14 DEF ObserverReads, Detach, Sleep, Quiet, NoObserver, Answered, Answer
<1>15. ASSUME NEW a \in Actors, HostHandles(a) PROVE HostTyped'
  <2>1. PICK i, s, op, arg :
          i \in Jobs /\ Handles(op, arg, i, s) /\ op = req[a].op /\ arg = req[a].arg
    BY <1>15 DEF HostHandles
  <2>2. op = "post" => arg \in Keys
    BY <2>1, AskedFor
  <2> QED
    BY <2>1, <2>2, HandlesTyped DEF ShapeInv, TypeOK, HostTyped
<1>16. ASSUME NEW a \in Actors, HostAnswers(a) PROVE HostTyped'
  BY <1>16 DEF HostAnswers, Reply
<1>17. ASSUME NEW a \in Actors, RequestFails(a) PROVE HostTyped'
  BY <1>17 DEF RequestFails, Reply, Linger, Mutating, Answered
<1>18. ASSUME NEW a \in Actors, DeadlinePasses(a) PROVE HostTyped'
  BY <1>18 DEF DeadlinePasses
<1>19. ASSUME NEW r \in late, HostHandlesLate(r) PROVE HostTyped'
  <2>1. PICK i, s, op, arg :
          i \in Jobs /\ Handles(op, arg, i, s) /\ op = r.op /\ arg = r.arg
    BY <1>19 DEF HostHandlesLate
  <2>2. op = "post" => arg \in Keys
    BY <2>1, <1>19 DEF HostHandlesLate, ShapeInv, LateInv
  <2> QED
    BY <2>1, <2>2, HandlesTyped DEF ShapeInv, TypeOK, HostTyped
<1>20. ASSUME NEW r \in late, LateIsLost(r) PROVE HostTyped'
  BY <1>20 DEF LateIsLost
<1>21. ASSUME NEW j \in Jobs, HostWorks(j) PROVE HostTyped'
  BY <1>21, WorksTyped DEF ShapeInv, TypeOK, HostTyped
<1>22. ASSUME NEW j \in Jobs, HostForgets(j) PROVE HostTyped'
  BY <1>22, WorksTyped DEF ShapeInv, TypeOK, HostTyped
<1>23. ASSUME Enqueue PROVE HostTyped'
  BY <1>23 DEF Enqueue
<1>24. ASSUME Retry PROVE HostTyped'
  BY <1>24 DEF Retry
<1>25. ASSUME Reprocess PROVE HostTyped'
  BY <1>25 DEF Reprocess
<1>26. ASSUME UserCancels PROVE HostTyped'
  BY <1>26 DEF UserCancels
<1>27. ASSUME StopProcessor PROVE HostTyped'
  BY <1>27 DEF StopProcessor
<1>28. ASSUME Crash PROVE HostTyped'
  BY <1>28 DEF Crash, NoObserver, Linger, Mutating, Answered
<1>29. CASE UNCHANGED vars
  BY <1>29 DEF vars
<1> QED
  BY <1>1, <1>2, <1>3, <1>4, <1>5, <1>6, <1>7, <1>8, <1>9, <1>10, <1>11, <1>12, <1>13, <1>14, <1>15, <1>16, <1>17, <1>18, <1>19, <1>20, <1>21, <1>22, <1>23, <1>24, <1>25, <1>26, <1>27, <1>28, <1>29, Turning DEF Next, PipelineStep, ObserverStep, User, Transport
\* The desktop keeps the types of its own data.
LEMMA DataStep == ShapeInv /\ [Next]_vars => DataTyped'
<1> SUFFICES ASSUME ShapeInv, [Next]_vars PROVE DataTyped'
  OBVIOUS
<1> USE DEF ShapeInv, TypeOK, DataTyped, pipeVars, Actors, PipePoints
<1>0. {"completed", "failed"} \subseteq Host!Statuses
  BY DEF Host!Statuses, Host!Ended
<1>1. ASSUME StartPipeline PROVE DataTyped'
  BY <1>1, IdentityTyped DEF StartPipeline
<1>2. ASSUME Load PROVE DataTyped'
  <2>1. CASE flagged \/ result # NoJob
    BY <1>2, <2>1 DEF Load, Finish, Quiet, ForgetCancel
  <2>2. CASE ~(flagged \/ result # NoJob)
    <3>1. mine' \in Identities
      <4>1. CASE ident = Nil
        <5>1. PICK k \in Spare : mine' = NewIdentity(k)
          BY <1>2, <2>2, <4>1 DEF Load
        <5> QED
          BY <5>1, IdentityTyped DEF Spare
      <4>2. CASE ident # Nil
        BY <1>2, <2>2, <4>2 DEF Load
      <4> QED
        BY <4>1, <4>2
    <3> QED
      BY <1>2, <2>2, <3>1 DEF Load, To
  <2> QED
    BY <2>1, <2>2
<1>3. ASSUME Throws PROVE DataTyped'
  BY <1>3, IdentityTyped DEF Throws, Finish, Quiet, ForgetCancel, Answered
<1>4. ASSUME HasCapabilities PROVE DataTyped'
  BY <1>4, IdentityTyped DEF HasCapabilities, Reads, Answered, To, Send, Ask
<1>5. ASSUME Turns PROVE DataTyped'
  <2>1. PICK i \in Identities, row \in Identities \cup {Nil}, s \in Host!Statuses \cup {"none"} :
          i.id \in Jobs /\ (GoesOn(i, row, s) \/ EndsWith(i, row, s))
    BY <1>5 DEF Turns
  <2>2. UNCHANGED queued
    BY <1>5 DEF Turns
  <2>3. CASE GoesOn(i, row, s)
    BY <2>1, <2>2, <2>3 DEF GoesOn
  <2>4. CASE EndsWith(i, row, s)
    <3>1. [i EXCEPT !.observed = "completed"] \in Identities
      BY <1>0, IdentityTyped
    <3> QED
      BY <2>1, <2>2, <2>4, <3>1 DEF EndsWith, Finish, Quiet, ForgetCancel
  <2> QED
    BY <2>1, <2>3, <2>4
<1>6. ASSUME Replaces PROVE DataTyped'
  BY <1>6, IdentityTyped DEF Replaces, Ask, Spare
<1>7. ASSUME UploadFails PROVE DataTyped'
  BY <1>7, IdentityTyped DEF UploadFails, Finish, Quiet, ForgetCancel, Answer, To, Send, Ask
<1>8. ASSUME CancelAccepted PROVE DataTyped'
  BY <1>8, IdentityTyped DEF CancelAccepted, Reads, Answered, To, Send, Ask
<1>9. ASSUME CancelObserved PROVE DataTyped'
  BY <1>9, IdentityTyped DEF CancelObserved, Reads, Answered, Finish, Quiet, ForgetCancel, To, Send, Ask
<1>10. ASSUME Attach PROVE DataTyped'
  BY <1>10, IdentityTyped DEF Attach, Send, Ask, NoObserver
<1>11. ASSUME ObserverWakes PROVE DataTyped'
  BY <1>11, IdentityTyped DEF ObserverWakes, Detach, Observe, Quiet, NoObserver, Send, Ask
<1>12. ASSUME ObserverCancels PROVE DataTyped'
  BY <1>12, IdentityTyped DEF ObserverCancels, Detach, Observe, Quiet, NoObserver, Send, Ask, Answered
<1>13. ASSUME ObserverReadFails PROVE DataTyped'
  BY <1>13, IdentityTyped DEF ObserverReadFails, Detach, Sleep, Quiet, NoObserver, Answered
<1>14. ASSUME ObserverReads PROVE DataTyped'
  <2>1. PICK i : i = obs.saved
    OBVIOUS
  <2>2. PICK s : s = req["observer"].answer
    OBVIOUS
  <2>3. i \in Identities /\ i.id \in Jobs /\ s \in Host!Statuses
    BY <1>14, <2>1, <2>2 DEF ObserverReads, Answered, Answer, ObsInv, AnswerInv
  <2>4. /\ result' \in {result, i.id}
        /\ ident' \in {ident, [i EXCEPT !.observed = s]}
        /\ queued' \in {queued, TRUE}
        /\ overdue' \subseteq overdue
        /\ UNCHANGED <<flagged, pipe, mine, seen>>
    BY <1>14, <2>1, <2>2 DEF ObserverReads, Answer, Detach, Sleep
  <2>5. [i EXCEPT !.observed = s] \in Identities
    BY <2>3, IdentityTyped
  <2> QED
    BY <2>3, <2>4, <2>5
<1>15. ASSUME NEW a \in Actors, HostHandles(a) PROVE DataTyped'
  BY <1>15, IdentityTyped DEF HostHandles, Reply
<1>16. ASSUME NEW a \in Actors, HostAnswers(a) PROVE DataTyped'
  BY <1>16, IdentityTyped DEF HostAnswers, Reply
<1>17. ASSUME NEW a \in Actors, RequestFails(a) PROVE DataTyped'
  BY <1>17, IdentityTyped DEF RequestFails, Reply, Linger, Mutating, Answered
<1>18. ASSUME NEW a \in Actors, DeadlinePasses(a) PROVE DataTyped'
  BY <1>18, IdentityTyped DEF DeadlinePasses
<1>19. ASSUME NEW r \in late, HostHandlesLate(r) PROVE DataTyped'
  BY <1>19, IdentityTyped DEF HostHandlesLate
<1>20. ASSUME NEW r \in late, LateIsLost(r) PROVE DataTyped'
  BY <1>20, IdentityTyped DEF LateIsLost
<1>21. ASSUME NEW j \in Jobs, HostWorks(j) PROVE DataTyped'
  BY <1>21, IdentityTyped DEF HostWorks
<1>22. ASSUME NEW j \in Jobs, HostForgets(j) PROVE DataTyped'
  BY <1>22, IdentityTyped DEF HostForgets
<1>23. ASSUME Enqueue PROVE DataTyped'
  BY <1>23, IdentityTyped DEF Enqueue
<1>24. ASSUME Retry PROVE DataTyped'
  <2>1. ident \in Identities => [ident EXCEPT !.restart = TRUE] \in Identities
    BY IdentityTyped
  <2> QED
    BY <1>24, <2>1 DEF Retry
<1>25. ASSUME Reprocess PROVE DataTyped'
  BY <1>25, IdentityTyped DEF Reprocess
<1>26. ASSUME UserCancels PROVE DataTyped'
  BY <1>26, IdentityTyped DEF UserCancels
<1>27. ASSUME StopProcessor PROVE DataTyped'
  BY <1>27, IdentityTyped DEF StopProcessor
<1>28. ASSUME Crash PROVE DataTyped'
  BY <1>28, IdentityTyped DEF Crash, NoObserver, Linger, Mutating, Answered
<1>29. CASE UNCHANGED vars
  BY <1>29, IdentityTyped DEF vars
<1> QED
  BY <1>1, <1>2, <1>3, <1>4, <1>5, <1>6, <1>7, <1>8, <1>9, <1>10, <1>11, <1>12, <1>13, <1>14, <1>15, <1>16, <1>17, <1>18, <1>19, <1>20, <1>21, <1>22, <1>23, <1>24, <1>25, <1>26, <1>27, <1>28, <1>29, Turning DEF Next, PipelineStep, ObserverStep, User, Transport
\* The observer keeps the type of its record.
LEMMA ObserverStepTyped == ShapeInv /\ [Next]_vars => (obs \in ObserverType)'
<1> SUFFICES ASSUME ShapeInv, [Next]_vars PROVE (obs \in ObserverType)'
  OBVIOUS
<1>0. TypeOK /\ obs \in ObserverType /\ ident \in Identities \cup {Nil}
  BY DEF ShapeInv, TypeOK, ObserverType
<1>00. {"none", "get", "cancel", "sleep"} = ObsPoints
  BY DEF ObsPoints
<1>1. ASSUME StartPipeline PROVE (obs \in ObserverType)'
  BY <1>1, <1>0, <1>00, ObserverTyped DEF StartPipeline
<1>2. ASSUME Load PROVE (obs \in ObserverType)'
  BY <1>2, <1>0, <1>00, ObserverTyped DEF Load, Finish, Quiet, ForgetCancel, To, Send, Ask
<1>3. ASSUME Throws PROVE (obs \in ObserverType)'
  BY <1>3, <1>0, <1>00, ObserverTyped DEF Throws, Finish, Quiet, ForgetCancel, Answered
<1>4. ASSUME HasCapabilities PROVE (obs \in ObserverType)'
  BY <1>4, <1>0, <1>00, ObserverTyped DEF HasCapabilities, Reads, Answered, To, Send, Ask
<1>5. ASSUME Turns PROVE (obs \in ObserverType)'
  BY <1>5, <1>0, <1>00, ObserverTyped DEF Turns, GoesOn, EndsWith, Finish, Quiet, ForgetCancel, Ask
<1>6. ASSUME Replaces PROVE (obs \in ObserverType)'
  BY <1>6, <1>0, <1>00, ObserverTyped DEF Replaces, Ask, NewIdentity
<1>7. ASSUME UploadFails PROVE (obs \in ObserverType)'
  BY <1>7, <1>0, <1>00, ObserverTyped DEF UploadFails, Finish, Quiet, ForgetCancel, Answer, To, Send, Ask
<1>8. ASSUME CancelAccepted PROVE (obs \in ObserverType)'
  BY <1>8, <1>0, <1>00, ObserverTyped DEF CancelAccepted, Reads, Answered, To, Send, Ask
<1>9. ASSUME CancelObserved PROVE (obs \in ObserverType)'
  BY <1>9, <1>0, <1>00, ObserverTyped DEF CancelObserved, Reads, Answered, Finish, Quiet, ForgetCancel, To, Send, Ask
<1>10. ASSUME Attach PROVE (obs \in ObserverType)'
  BY <1>10, <1>0, <1>00, ObserverTyped DEF Attach, Send, Ask
<1>11. ASSUME ObserverWakes PROVE (obs \in ObserverType)'
  BY <1>11, <1>0, <1>00, ObserverTyped DEF ObserverWakes, Detach, Observe, Quiet, Send, Ask
<1>12. ASSUME ObserverCancels PROVE (obs \in ObserverType)'
  BY <1>12, <1>0, <1>00, ObserverTyped DEF ObserverCancels, Detach, Observe, Quiet, Send, Ask, Answered
<1>13. ASSUME ObserverReadFails PROVE (obs \in ObserverType)'
  BY <1>13, <1>0, <1>00, ObserverTyped DEF ObserverReadFails, Detach, Sleep, Quiet, Answered
<1>14. ASSUME ObserverReads PROVE (obs \in ObserverType)'
  BY <1>14, <1>0, <1>00, ObserverTyped DEF ObserverReads, Detach, Sleep, Quiet, Answered, Answer
<1>15. ASSUME NEW a \in Actors, HostHandles(a) PROVE (obs \in ObserverType)'
  BY <1>15, <1>0, <1>00, ObserverTyped DEF HostHandles, Reply
<1>16. ASSUME NEW a \in Actors, HostAnswers(a) PROVE (obs \in ObserverType)'
  BY <1>16, <1>0, <1>00, ObserverTyped DEF HostAnswers, Reply
<1>17. ASSUME NEW a \in Actors, RequestFails(a) PROVE (obs \in ObserverType)'
  BY <1>17, <1>0, <1>00, ObserverTyped DEF RequestFails, Reply, Linger, Mutating, Answered
<1>18. ASSUME NEW a \in Actors, DeadlinePasses(a) PROVE (obs \in ObserverType)'
  BY <1>18, <1>0, <1>00, ObserverTyped DEF DeadlinePasses
<1>19. ASSUME NEW r \in late, HostHandlesLate(r) PROVE (obs \in ObserverType)'
  BY <1>19, <1>0, <1>00, ObserverTyped DEF HostHandlesLate
<1>20. ASSUME NEW r \in late, LateIsLost(r) PROVE (obs \in ObserverType)'
  BY <1>20, <1>0, <1>00, ObserverTyped DEF LateIsLost
<1>21. ASSUME NEW j \in Jobs, HostWorks(j) PROVE (obs \in ObserverType)'
  BY <1>21, <1>0, <1>00, ObserverTyped DEF HostWorks
<1>22. ASSUME NEW j \in Jobs, HostForgets(j) PROVE (obs \in ObserverType)'
  BY <1>22, <1>0, <1>00, ObserverTyped DEF HostForgets
<1>23. ASSUME Enqueue PROVE (obs \in ObserverType)'
  BY <1>23, <1>0, <1>00, ObserverTyped DEF Enqueue
<1>24. ASSUME Retry PROVE (obs \in ObserverType)'
  BY <1>24, <1>0, <1>00, ObserverTyped DEF Retry
<1>25. ASSUME Reprocess PROVE (obs \in ObserverType)'
  BY <1>25, <1>0, <1>00, ObserverTyped DEF Reprocess
<1>26. ASSUME UserCancels PROVE (obs \in ObserverType)'
  BY <1>26, <1>0, <1>00, ObserverTyped DEF UserCancels
<1>27. ASSUME StopProcessor PROVE (obs \in ObserverType)'
  BY <1>27, <1>0, <1>00, ObserverTyped DEF StopProcessor
<1>28. ASSUME Crash PROVE (obs \in ObserverType)'
  BY <1>28, <1>0, <1>00, ObserverTyped DEF Crash, Linger, Mutating, Answered
<1>29. CASE UNCHANGED vars
  BY <1>29, <1>0, <1>00, ObserverTyped DEF vars
<1> QED
  BY <1>1, <1>2, <1>3, <1>4, <1>5, <1>6, <1>7, <1>8, <1>9, <1>10, <1>11, <1>12, <1>13, <1>14, <1>15, <1>16, <1>17, <1>18, <1>19, <1>20, <1>21, <1>22, <1>23, <1>24, <1>25, <1>26, <1>27, <1>28, <1>29, Turning DEF Next, PipelineStep, ObserverStep, User, Transport
\* Requests stay typed.
LEMMA RequestStep == ShapeInv /\ [Next]_vars => (req \in [Actors -> RequestType])'
<1> SUFFICES ASSUME ShapeInv, [Next]_vars PROVE (req \in [Actors -> RequestType])'
  OBVIOUS
<1>0. TypeOK /\ req \in [Actors -> RequestType]
  BY DEF ShapeInv, TypeOK, RequestType
<1>00. {"capabilities", "get", "post", "put", "cancel"} = Ops /\ Actors = {"pipeline", "observer"}
  BY DEF Ops, Actors
<1>01. /\ pipe \notin {"idle", "hash"} => mine.key \in Keys /\ mine.id \in Jobs \cup {NoJob}
       /\ obs.at # "none" => obs.saved.id \in Jobs \cup {NoJob}
       /\ ident # Nil => ident.id \in Jobs \cup {NoJob}
  BY IdentityTyped DEF ShapeInv, TypeOK, PipeInv, ObsInv
<1>1. ASSUME StartPipeline PROVE (req \in [Actors -> RequestType])'
  BY <1>1, <1>0, <1>00, <1>01, RequestTyped DEF StartPipeline
<1>2. ASSUME Load PROVE (req \in [Actors -> RequestType])'
  <2>1. PICK q \in {NoRequest, Ask("capabilities", Nil)} : req' = [req EXCEPT !["pipeline"] = q]
    BY <1>2 DEF Load, To, Send, Finish, Quiet
  <2>2. q \in RequestType
    BY <2>1, <1>00, AskTyped
  <2> QED
    BY <2>1, <2>2, <1>0, <1>00
<1>3. ASSUME Throws PROVE (req \in [Actors -> RequestType])'
  BY <1>3, <1>0, <1>00, <1>01, RequestTyped DEF Throws, Finish, Quiet, ForgetCancel
<1>4. ASSUME HasCapabilities PROVE (req \in [Actors -> RequestType])'
  <2>1. PICK q \in {NoRequest, Ask("get", mine.id), Ask("post", mine.key), Ask("cancel", mine.id)} :
          req' = [req EXCEPT !["pipeline"] = q]
    BY <1>4 DEF HasCapabilities, To, Send
  <2>2. q \in RequestType
    BY <2>1, <1>00, <1>01, AskTyped, <1>4 DEF HasCapabilities, Reads
  <2> QED
    BY <2>1, <2>2, <1>0, <1>00
<1>5. ASSUME Turns PROVE (req \in [Actors -> RequestType])'
  <2>1. PICK i \in Identities, row \in Identities \cup {Nil}, s \in Host!Statuses \cup {"none"} :
          i.id \in Jobs /\ (GoesOn(i, row, s) \/ EndsWith(i, row, s))
    BY <1>5 DEF Turns
  <2>2. PICK q \in {NoRequest, Ask("get", i.id), Ask("put", i.id), Ask("cancel", i.id)} :
          req' = [req EXCEPT !["pipeline"] = q]
    BY <2>1 DEF GoesOn, EndsWith, Finish, Quiet
  <2>3. q \in RequestType
    BY <2>1, <2>2, <1>00, AskTyped
  <2> QED
    BY <2>2, <2>3, <1>0, <1>00
<1>6. ASSUME Replaces PROVE (req \in [Actors -> RequestType])'
  <2>1. PICK k \in Keys : req' = [req EXCEPT !["pipeline"] = Ask("post", k)]
    BY <1>6 DEF Replaces, Spare
  <2>2. Ask("post", k) \in RequestType
    BY <2>1, <1>00, AskTyped
  <2> QED
    BY <2>1, <2>2, <1>0, <1>00
<1>7. ASSUME UploadFails PROVE (req \in [Actors -> RequestType])'
  <2>1. PICK q \in {NoRequest, Ask("get", mine.id), Ask("post", mine.key), Ask("cancel", mine.id)} :
          req' = [req EXCEPT !["pipeline"] = q]
    BY <1>7 DEF UploadFails, To, Send, Finish, Quiet
  <2>2. q \in RequestType
    BY <2>1, <1>00, <1>01, AskTyped, <1>7 DEF UploadFails
  <2> QED
    BY <2>1, <2>2, <1>0, <1>00
<1>8. ASSUME CancelAccepted PROVE (req \in [Actors -> RequestType])'
  BY <1>8, <1>0, <1>00, <1>01, RequestTyped DEF CancelAccepted, Reads, To, Send
<1>9. ASSUME CancelObserved PROVE (req \in [Actors -> RequestType])'
  <2>1. PICK q \in {NoRequest, Ask("get", mine.id), Ask("post", mine.key), Ask("cancel", mine.id)} :
          req' = [req EXCEPT !["pipeline"] = q]
    BY <1>9 DEF CancelObserved, To, Send, Finish, Quiet
  <2>2. q \in RequestType
    BY <2>1, <1>00, <1>01, AskTyped, <1>9 DEF CancelObserved, Reads
  <2> QED
    BY <2>1, <2>2, <1>0, <1>00
<1>10. ASSUME Attach PROVE (req \in [Actors -> RequestType])'
  BY <1>10, <1>0, <1>00, <1>01, RequestTyped DEF Attach, Send
<1>11. ASSUME ObserverWakes PROVE (req \in [Actors -> RequestType])'
  <2>1. PICK q \in {NoRequest, Ask("get", obs.saved.id), Ask("cancel", obs.saved.id)} :
          req' = [req EXCEPT !["observer"] = q]
    BY <1>11 DEF ObserverWakes, Observe, Send, Detach, Quiet
  <2>2. q \in RequestType
    BY <1>11, <2>1, <1>00, <1>01, AskTyped DEF ObserverWakes
  <2> QED
    BY <2>1, <2>2, <1>0, <1>00
<1>12. ASSUME ObserverCancels PROVE (req \in [Actors -> RequestType])'
  <2>1. PICK q \in {NoRequest, Ask("get", obs.saved.id), Ask("cancel", obs.saved.id)} :
          req' = [req EXCEPT !["observer"] = q]
    BY <1>12 DEF ObserverCancels, Observe, Send, Detach, Quiet
  <2>2. q \in RequestType
    BY <1>12, <2>1, <1>00, <1>01, AskTyped DEF ObserverCancels
  <2> QED
    BY <2>1, <2>2, <1>0, <1>00
<1>13. ASSUME ObserverReadFails PROVE (req \in [Actors -> RequestType])'
  BY <1>13, <1>0, <1>00, <1>01, RequestTyped DEF ObserverReadFails, Detach, Sleep, Quiet
<1>14. ASSUME ObserverReads PROVE (req \in [Actors -> RequestType])'
  BY <1>14, <1>0, <1>00, <1>01, RequestTyped DEF ObserverReads, Detach, Sleep, Quiet, Answer
<1>15. ASSUME NEW a \in Actors, HostHandles(a) PROVE (req \in [Actors -> RequestType])'
  <2>1. PICK j \in Jobs, s \in Host!Statuses \cup {"none"} : Reply(a, j, s)
    BY <1>15 DEF HostHandles
  <2> QED
    BY <2>1, <1>0, RequestTyped DEF Reply
<1>16. ASSUME NEW a \in Actors, HostAnswers(a) PROVE (req \in [Actors -> RequestType])'
  <2>1. req[a].op = "get" => st[req[a].arg] \in Host!Statuses /\ req[a].arg \in Jobs
    BY AskedFor DEF ShapeInv, TypeOK
  <2>2. req[a].op = "put" => req[a].arg \in Jobs
    BY AskedFor
  <2>3. "running" \in Host!Statuses
    BY DEF Host!Statuses, Host!Live, Host!Running
  <2>4. PICK j \in Jobs \cup {NoJob}, s \in Host!Statuses \cup {"none", "ok", "error"} :
          req' = [req EXCEPT ![a].answer = s, ![a].job = j]
    BY <1>16, <2>1, <2>2, <2>3 DEF HostAnswers, Reply
  <2> QED
    BY <2>4, <1>0, RequestTyped
<1>17. ASSUME NEW a \in Actors, RequestFails(a) PROVE (req \in [Actors -> RequestType])'
  BY <1>17, <1>0, <1>00, <1>01, RequestTyped DEF RequestFails, Reply
<1>18. ASSUME NEW a \in Actors, DeadlinePasses(a) PROVE (req \in [Actors -> RequestType])'
  BY <1>18, <1>0, <1>00, <1>01, RequestTyped DEF DeadlinePasses
<1>19. ASSUME NEW r \in late, HostHandlesLate(r) PROVE (req \in [Actors -> RequestType])'
  BY <1>19, <1>0, <1>00, <1>01, RequestTyped DEF HostHandlesLate
<1>20. ASSUME NEW r \in late, LateIsLost(r) PROVE (req \in [Actors -> RequestType])'
  BY <1>20, <1>0, <1>00, <1>01, RequestTyped DEF LateIsLost
<1>21. ASSUME NEW j \in Jobs, HostWorks(j) PROVE (req \in [Actors -> RequestType])'
  BY <1>21, <1>0, <1>00, <1>01, RequestTyped DEF HostWorks
<1>22. ASSUME NEW j \in Jobs, HostForgets(j) PROVE (req \in [Actors -> RequestType])'
  BY <1>22, <1>0, <1>00, <1>01, RequestTyped DEF HostForgets
<1>23. ASSUME Enqueue PROVE (req \in [Actors -> RequestType])'
  BY <1>23, <1>0, <1>00, <1>01, RequestTyped DEF Enqueue
<1>24. ASSUME Retry PROVE (req \in [Actors -> RequestType])'
  BY <1>24, <1>0, <1>00, <1>01, RequestTyped DEF Retry
<1>25. ASSUME Reprocess PROVE (req \in [Actors -> RequestType])'
  BY <1>25, <1>0, <1>00, <1>01, RequestTyped DEF Reprocess
<1>26. ASSUME UserCancels PROVE (req \in [Actors -> RequestType])'
  BY <1>26, <1>0, <1>00, <1>01, RequestTyped DEF UserCancels
<1>27. ASSUME StopProcessor PROVE (req \in [Actors -> RequestType])'
  BY <1>27, <1>0, <1>00, <1>01, RequestTyped DEF StopProcessor
<1>28. ASSUME Crash PROVE (req \in [Actors -> RequestType])'
  BY <1>28, AskTyped DEF Crash
<1>29. CASE UNCHANGED vars
  BY <1>29, <1>0, <1>00, <1>01, RequestTyped DEF vars
<1> QED
  BY <1>1, <1>2, <1>3, <1>4, <1>5, <1>6, <1>7, <1>8, <1>9, <1>10, <1>11, <1>12, <1>13, <1>14, <1>15, <1>16, <1>17, <1>18, <1>19, <1>20, <1>21, <1>22, <1>23, <1>24, <1>25, <1>26, <1>27, <1>28, <1>29, Turning DEF Next, PipelineStep, ObserverStep, User, Transport
\* What lingers stays typed.
LEMMA LateStep == ShapeInv /\ [Next]_vars => (late \subseteq LateType /\ LateInv)'
<1> SUFFICES ASSUME ShapeInv, [Next]_vars PROVE (late \subseteq LateType /\ LateInv)'
  OBVIOUS
<1> USE DEF LateInv
<1>0. late \subseteq LateType /\ LateInv
  BY DEF ShapeInv, TypeOK, LateType
<1>1. ASSUME StartPipeline PROVE (late \subseteq LateType /\ LateInv)'
  BY <1>1, <1>0, LingerTyped DEF StartPipeline
<1>2. ASSUME Load PROVE (late \subseteq LateType /\ LateInv)'
  BY <1>2, <1>0, LingerTyped DEF Load
<1>3. ASSUME Throws PROVE (late \subseteq LateType /\ LateInv)'
  BY <1>3, <1>0, LingerTyped DEF Throws
<1>4. ASSUME HasCapabilities PROVE (late \subseteq LateType /\ LateInv)'
  BY <1>4, <1>0, LingerTyped DEF HasCapabilities
<1>5. ASSUME Turns PROVE (late \subseteq LateType /\ LateInv)'
  BY <1>5, <1>0, LingerTyped DEF Turns
<1>6. ASSUME Replaces PROVE (late \subseteq LateType /\ LateInv)'
  BY <1>6, <1>0, LingerTyped DEF Replaces
<1>7. ASSUME UploadFails PROVE (late \subseteq LateType /\ LateInv)'
  BY <1>7, <1>0, LingerTyped DEF UploadFails, Answer
<1>8. ASSUME CancelAccepted PROVE (late \subseteq LateType /\ LateInv)'
  BY <1>8, <1>0, LingerTyped DEF CancelAccepted
<1>9. ASSUME CancelObserved PROVE (late \subseteq LateType /\ LateInv)'
  BY <1>9, <1>0, LingerTyped DEF CancelObserved
<1>10. ASSUME Attach PROVE (late \subseteq LateType /\ LateInv)'
  BY <1>10, <1>0, LingerTyped DEF Attach
<1>11. ASSUME ObserverWakes PROVE (late \subseteq LateType /\ LateInv)'
  BY <1>11, <1>0, LingerTyped DEF ObserverWakes
<1>12. ASSUME ObserverCancels PROVE (late \subseteq LateType /\ LateInv)'
  BY <1>12, <1>0, LingerTyped DEF ObserverCancels
<1>13. ASSUME ObserverReadFails PROVE (late \subseteq LateType /\ LateInv)'
  BY <1>13, <1>0, LingerTyped DEF ObserverReadFails
<1>14. ASSUME ObserverReads PROVE (late \subseteq LateType /\ LateInv)'
  BY <1>14, <1>0, LingerTyped DEF ObserverReads, Answer
<1>15. ASSUME NEW a \in Actors, HostHandles(a) PROVE (late \subseteq LateType /\ LateInv)'
  BY <1>15, <1>0, LingerTyped DEF HostHandles, Reply
<1>16. ASSUME NEW a \in Actors, HostAnswers(a) PROVE (late \subseteq LateType /\ LateInv)'
  BY <1>16, <1>0, LingerTyped DEF HostAnswers, Reply
<1>17. ASSUME NEW a \in Actors, RequestFails(a) PROVE (late \subseteq LateType /\ LateInv)'
  BY <1>17, <1>0, LingerTyped DEF RequestFails, Reply
<1>18. ASSUME NEW a \in Actors, DeadlinePasses(a) PROVE (late \subseteq LateType /\ LateInv)'
  BY <1>18, <1>0, LingerTyped DEF DeadlinePasses
<1>19. ASSUME NEW r \in late, HostHandlesLate(r) PROVE (late \subseteq LateType /\ LateInv)'
  BY <1>19, <1>0, LingerTyped DEF HostHandlesLate
<1>20. ASSUME NEW r \in late, LateIsLost(r) PROVE (late \subseteq LateType /\ LateInv)'
  BY <1>20, <1>0, LingerTyped DEF LateIsLost
<1>21. ASSUME NEW j \in Jobs, HostWorks(j) PROVE (late \subseteq LateType /\ LateInv)'
  BY <1>21, <1>0, LingerTyped DEF HostWorks
<1>22. ASSUME NEW j \in Jobs, HostForgets(j) PROVE (late \subseteq LateType /\ LateInv)'
  BY <1>22, <1>0, LingerTyped DEF HostForgets
<1>23. ASSUME Enqueue PROVE (late \subseteq LateType /\ LateInv)'
  BY <1>23, <1>0, LingerTyped DEF Enqueue
<1>24. ASSUME Retry PROVE (late \subseteq LateType /\ LateInv)'
  BY <1>24, <1>0, LingerTyped DEF Retry
<1>25. ASSUME Reprocess PROVE (late \subseteq LateType /\ LateInv)'
  BY <1>25, <1>0, LingerTyped DEF Reprocess
<1>26. ASSUME UserCancels PROVE (late \subseteq LateType /\ LateInv)'
  BY <1>26, <1>0, LingerTyped DEF UserCancels
<1>27. ASSUME StopProcessor PROVE (late \subseteq LateType /\ LateInv)'
  BY <1>27, <1>0, LingerTyped DEF StopProcessor
<1>28. ASSUME Crash PROVE (late \subseteq LateType /\ LateInv)'
  BY <1>28, <1>0, LingerTyped DEF Crash
<1>29. CASE UNCHANGED vars
  BY <1>29, <1>0, LingerTyped DEF vars
<1> QED
  BY <1>1, <1>2, <1>3, <1>4, <1>5, <1>6, <1>7, <1>8, <1>9, <1>10, <1>11, <1>12, <1>13, <1>14, <1>15, <1>16, <1>17, <1>18, <1>19, <1>20, <1>21, <1>22, <1>23, <1>24, <1>25, <1>26, <1>27, <1>28, <1>29, Turning DEF Next, PipelineStep, ObserverStep, User, Transport
\* The pipeline asks about its own identity.
LEMMA PipeStep == ShapeInv /\ [Next]_vars => PipeInv'
<1> SUFFICES ASSUME ShapeInv, [Next]_vars PROVE PipeInv'
  OBVIOUS
<1> USE DEF PipeInv, PipePoints, NoRequest, pipeVars
<1>0. /\ TypeOK /\ PipeInv /\ ObsInv /\ AnswerInv
      /\ req \in [Actors -> RequestType] /\ Actors = {"pipeline", "observer"}
      /\ DataTyped' /\ (req \in [Actors -> RequestType])'
  BY DataStep, RequestStep DEF ShapeInv, TypeOK, RequestType, Actors
<1>00. pipe \in PipePoints /\ obs.at \in ObsPoints
  BY <1>0 DEF TypeOK
<1>1. ASSUME StartPipeline PROVE PipeInv'
  BY <1>1, <1>0, <1>00 DEF StartPipeline
<1>2. ASSUME Load PROVE PipeInv'
  <2>1. CASE flagged \/ result # NoJob
    BY <1>2, <2>1, <1>0, <1>00 DEF Load, Finish, Quiet, ForgetCancel
  <2>2. CASE ~(flagged \/ result # NoJob)
    <3>1. mine' \in Identities
      <4>1. CASE ident = Nil
        <5>1. PICK k \in Spare : mine' = NewIdentity(k)
          BY <1>2, <2>2, <4>1 DEF Load
        <5> QED
          BY <5>1, IdentityTyped DEF Spare
      <4>2. CASE ident # Nil
        BY <1>2, <2>2, <4>2, <1>0 DEF Load, TypeOK
      <4> QED
        BY <4>1, <4>2
    <3>2. pipe' = "capabilities" /\ req'["pipeline"].op = "capabilities"
      BY <1>2, <2>2, <1>0 DEF Load, To, Send, Ask
    <3> QED
      BY <3>1, <3>2
  <2> QED
    BY <2>1, <2>2
<1>3. ASSUME Throws PROVE PipeInv'
  BY <1>3, <1>0, <1>00 DEF Throws, Finish, Quiet, ForgetCancel
<1>4. ASSUME HasCapabilities PROVE PipeInv'
  <2>1. mine \in Identities /\ mine.id \in Jobs \cup {NoJob}
    BY <1>4, <1>0, IdentityTyped DEF HasCapabilities, Reads
  <2> QED
    BY <1>4, <2>1, <1>0 DEF HasCapabilities, To, Send, Ask
<1>5. ASSUME Turns PROVE PipeInv'
  <2>1. PICK i \in Identities, row \in Identities \cup {Nil}, s \in Host!Statuses \cup {"none"} :
          i.id \in Jobs /\ (GoesOn(i, row, s) \/ EndsWith(i, row, s))
    BY <1>5 DEF Turns
  <2>2. UNCHANGED obs
    BY <1>5 DEF Turns
  <2>3. CASE GoesOn(i, row, s)
    BY <2>1, <2>2, <2>3, <1>0 DEF GoesOn, Ask
  <2>4. CASE EndsWith(i, row, s)
    BY <2>2, <2>4, <1>0 DEF EndsWith, Finish, Quiet
  <2> QED
    BY <2>1, <2>3, <2>4
<1>6. ASSUME Replaces PROVE PipeInv'
  <2>1. PICK k \in Keys : /\ mine' = NewIdentity(k) /\ pipe' = "post"
                         /\ req' = [req EXCEPT !["pipeline"] = Ask("post", k)]
    BY <1>6 DEF Replaces, Spare
  <2>2. mine' \in Identities /\ mine'.key = k
    BY <2>1, IdentityTyped DEF NewIdentity
  <2> QED
    BY <2>1, <2>2, <1>0 DEF Ask
<1>7. ASSUME UploadFails PROVE PipeInv'
  BY <1>7, <1>0, <1>00 DEF UploadFails, Finish, Quiet, ForgetCancel, Answer, To, Send, Ask
<1>8. ASSUME CancelAccepted PROVE PipeInv'
  BY <1>8, <1>0, <1>00 DEF CancelAccepted, Reads, To, Send, Ask
<1>9. ASSUME CancelObserved PROVE PipeInv'
  BY <1>9, <1>0, <1>00 DEF CancelObserved, Reads, Finish, Quiet, ForgetCancel, To, Send, Ask
<1>10. ASSUME Attach PROVE PipeInv'
  BY <1>10, <1>0, <1>00 DEF Attach, Send, Ask
<1>11. ASSUME ObserverWakes PROVE PipeInv'
  BY <1>11, <1>0, <1>00 DEF ObserverWakes, Detach, Observe, Quiet, Send, Ask
<1>12. ASSUME ObserverCancels PROVE PipeInv'
  BY <1>12, <1>0, <1>00 DEF ObserverCancels, Detach, Observe, Quiet, Send, Ask
<1>13. ASSUME ObserverReadFails PROVE PipeInv'
  BY <1>13, <1>0, <1>00 DEF ObserverReadFails, Detach, Sleep, Quiet
<1>14. ASSUME ObserverReads PROVE PipeInv'
  BY <1>14, <1>0, <1>00 DEF ObserverReads, Detach, Sleep, Quiet, Answer
<1>15. ASSUME NEW a \in Actors, HostHandles(a) PROVE PipeInv'
  BY <1>15, <1>0, <1>00 DEF HostHandles, Reply
<1>16. ASSUME NEW a \in Actors, HostAnswers(a) PROVE PipeInv'
  <2>1. PICK j, s : req' = [req EXCEPT ![a].answer = s, ![a].job = j]
    BY <1>16 DEF HostAnswers, Reply
  <2>2. req[a].op # "none"
    BY <1>16 DEF HostAnswers
  <2>3. \A b \in Actors : /\ req'[b].op = req[b].op /\ req'[b].arg = req[b].arg
                          /\ req[b].op = "none" => req'[b] = req[b]
    BY <2>1, <2>2, <1>0 DEF RequestType
  <2> QED
    BY <1>16, <2>3, <1>0 DEF HostAnswers, pipeVars
<1>17. ASSUME NEW a \in Actors, RequestFails(a) PROVE PipeInv'
  BY <1>17, <1>0, <1>00 DEF RequestFails, Reply
<1>18. ASSUME NEW a \in Actors, DeadlinePasses(a) PROVE PipeInv'
  BY <1>18, <1>0, <1>00 DEF DeadlinePasses
<1>19. ASSUME NEW r \in late, HostHandlesLate(r) PROVE PipeInv'
  BY <1>19, <1>0, <1>00 DEF HostHandlesLate
<1>20. ASSUME NEW r \in late, LateIsLost(r) PROVE PipeInv'
  BY <1>20, <1>0, <1>00 DEF LateIsLost
<1>21. ASSUME NEW j \in Jobs, HostWorks(j) PROVE PipeInv'
  BY <1>21, <1>0, <1>00 DEF HostWorks
<1>22. ASSUME NEW j \in Jobs, HostForgets(j) PROVE PipeInv'
  BY <1>22, <1>0, <1>00 DEF HostForgets
<1>23. ASSUME Enqueue PROVE PipeInv'
  BY <1>23, <1>0, <1>00 DEF Enqueue
<1>24. ASSUME Retry PROVE PipeInv'
  BY <1>24, <1>0, <1>00 DEF Retry
<1>25. ASSUME Reprocess PROVE PipeInv'
  BY <1>25, <1>0, <1>00 DEF Reprocess
<1>26. ASSUME UserCancels PROVE PipeInv'
  BY <1>26, <1>0, <1>00 DEF UserCancels
<1>27. ASSUME StopProcessor PROVE PipeInv'
  BY <1>27, <1>0, <1>00 DEF StopProcessor
<1>28. ASSUME Crash PROVE PipeInv'
  BY <1>28, <1>0, <1>00 DEF Crash
<1>29. CASE UNCHANGED vars
  BY <1>29, <1>0, <1>00 DEF vars
<1> QED
  BY <1>1, <1>2, <1>3, <1>4, <1>5, <1>6, <1>7, <1>8, <1>9, <1>10, <1>11, <1>12, <1>13, <1>14, <1>15, <1>16, <1>17, <1>18, <1>19, <1>20, <1>21, <1>22, <1>23, <1>24, <1>25, <1>26, <1>27, <1>28, <1>29, Turning DEF Next, PipelineStep, ObserverStep, User, Transport
\* So does the observer.
LEMMA ObserveStep == ShapeInv /\ [Next]_vars => ObsInv'
<1> SUFFICES ASSUME ShapeInv, [Next]_vars PROVE ObsInv'
  OBVIOUS
<1> USE DEF ObsInv, ObsPoints, NoRequest, pipeVars
<1>0. /\ TypeOK /\ PipeInv /\ ObsInv /\ AnswerInv
      /\ req \in [Actors -> RequestType] /\ Actors = {"pipeline", "observer"}
      /\ DataTyped' /\ (req \in [Actors -> RequestType])'
  BY DataStep, RequestStep DEF ShapeInv, TypeOK, RequestType, Actors
<1>00. obs \in ObserverType /\ ident \in Identities \cup {Nil}
       /\ Identities = [key : Keys, id : Jobs \cup {NoJob}, restart : BOOLEAN,
                        observed : Host!Statuses \cup {"none"}]
  BY <1>0 DEF TypeOK, ObserverType, Identities
<1>1. ASSUME StartPipeline PROVE ObsInv'
  BY <1>1, <1>0, <1>00 DEF StartPipeline
<1>2. ASSUME Load PROVE ObsInv'
  BY <1>2, <1>0, <1>00 DEF Load, Finish, Quiet, To, Send, Ask
<1>3. ASSUME Throws PROVE ObsInv'
  BY <1>3, <1>0, <1>00 DEF Throws, Finish, Quiet
<1>4. ASSUME HasCapabilities PROVE ObsInv'
  BY <1>4, <1>0, <1>00 DEF HasCapabilities, Reads, To, Send, Ask
<1>5. ASSUME Turns PROVE ObsInv'
  <2>1. PICK i \in Identities, row \in Identities \cup {Nil}, s \in Host!Statuses \cup {"none"} :
          i.id \in Jobs /\ (GoesOn(i, row, s) \/ EndsWith(i, row, s))
    BY <1>5 DEF Turns
  <2>2. UNCHANGED obs
    BY <1>5 DEF Turns
  <2>3. CASE GoesOn(i, row, s)
    BY <2>1, <2>2, <2>3, <1>0 DEF GoesOn, Ask
  <2>4. CASE EndsWith(i, row, s)
    BY <2>2, <2>4, <1>0 DEF EndsWith, Finish, Quiet
  <2> QED
    BY <2>1, <2>3, <2>4
<1>6. ASSUME Replaces PROVE ObsInv'
  BY <1>6, <1>0, <1>00 DEF Replaces, Ask, NewIdentity
<1>7. ASSUME UploadFails PROVE ObsInv'
  BY <1>7, <1>0, <1>00 DEF UploadFails, Finish, Quiet, Answer, To, Send, Ask
<1>8. ASSUME CancelAccepted PROVE ObsInv'
  BY <1>8, <1>0, <1>00 DEF CancelAccepted, Reads, To, Send, Ask
<1>9. ASSUME CancelObserved PROVE ObsInv'
  BY <1>9, <1>0, <1>00 DEF CancelObserved, Reads, Finish, Quiet, To, Send, Ask
<1>10. ASSUME Attach PROVE ObsInv'
  <2>1. ident \in Identities /\ ident.id \in Jobs
    BY <1>10, <1>00 DEF Attach
  <2> QED
    BY <1>10, <2>1, <1>0 DEF Attach, Send, Ask, NoObserver
<1>11. ASSUME ObserverWakes PROVE ObsInv'
  <2>1. CASE obs' = NoObserver /\ req' = [req EXCEPT !["observer"] = NoRequest]
    BY <2>1, <1>0 DEF NoObserver
  <2>2. CASE \E o \in {obs, [obs EXCEPT !.registered = FALSE], [obs EXCEPT !.registered = TRUE]} :
               /\ obs' = [o EXCEPT !.at = "sleep"]
               /\ req' = [req EXCEPT !["observer"] = NoRequest]
    BY <1>11, <2>2, <1>0, <1>00 DEF ObserverWakes, ObserverType
  <2>3. CASE \E p \in {"get", "cancel"} :
               /\ obs' = [obs EXCEPT !.at = p]
               /\ req' = [req EXCEPT !["observer"] = Ask(p, obs.saved.id)]
    BY <1>11, <2>3, <1>0, <1>00 DEF ObserverWakes, Ask, ObserverType
  <2> QED
    BY <1>11, <2>1, <2>2, <2>3 DEF ObserverWakes, Detach, Sleep, Observe, Send, Quiet
<1>12. ASSUME ObserverCancels PROVE ObsInv'
  <2>1. CASE obs' = NoObserver /\ req' = [req EXCEPT !["observer"] = NoRequest]
    BY <2>1, <1>0 DEF NoObserver
  <2>2. CASE \E o \in {obs, [obs EXCEPT !.registered = FALSE], [obs EXCEPT !.registered = TRUE]} :
               /\ obs' = [o EXCEPT !.at = "sleep"]
               /\ req' = [req EXCEPT !["observer"] = NoRequest]
    BY <1>12, <2>2, <1>0, <1>00 DEF ObserverCancels, ObserverType
  <2>3. CASE \E p \in {"get", "cancel"} :
               /\ obs' = [obs EXCEPT !.at = p]
               /\ req' = [req EXCEPT !["observer"] = Ask(p, obs.saved.id)]
    BY <1>12, <2>3, <1>0, <1>00 DEF ObserverCancels, Ask, ObserverType
  <2> QED
    BY <1>12, <2>1, <2>2, <2>3 DEF ObserverCancels, Detach, Sleep, Observe, Send, Quiet
<1>13. ASSUME ObserverReadFails PROVE ObsInv'
  <2>1. CASE obs' = NoObserver /\ req' = [req EXCEPT !["observer"] = NoRequest]
    BY <2>1, <1>0 DEF NoObserver
  <2>2. CASE \E o \in {obs, [obs EXCEPT !.registered = FALSE], [obs EXCEPT !.registered = TRUE]} :
               /\ obs' = [o EXCEPT !.at = "sleep"]
               /\ req' = [req EXCEPT !["observer"] = NoRequest]
    BY <1>13, <2>2, <1>0, <1>00 DEF ObserverReadFails, ObserverType
  <2>3. CASE \E p \in {"get", "cancel"} :
               /\ obs' = [obs EXCEPT !.at = p]
               /\ req' = [req EXCEPT !["observer"] = Ask(p, obs.saved.id)]
    BY <1>13, <2>3, <1>0, <1>00 DEF ObserverReadFails, Ask, ObserverType
  <2> QED
    BY <1>13, <2>1, <2>2, <2>3 DEF ObserverReadFails, Detach, Sleep, Observe, Send, Quiet
<1>14. ASSUME ObserverReads PROVE ObsInv'
  <2>1. CASE obs' = NoObserver /\ req' = [req EXCEPT !["observer"] = NoRequest]
    BY <2>1, <1>0 DEF NoObserver
  <2>2. CASE \E o \in {obs, [obs EXCEPT !.registered = FALSE], [obs EXCEPT !.registered = TRUE]} :
               /\ obs' = [o EXCEPT !.at = "sleep"]
               /\ req' = [req EXCEPT !["observer"] = NoRequest]
    BY <1>14, <2>2, <1>0, <1>00 DEF ObserverReads, ObserverType
  <2>3. CASE \E p \in {"get", "cancel"} :
               /\ obs' = [obs EXCEPT !.at = p]
               /\ req' = [req EXCEPT !["observer"] = Ask(p, obs.saved.id)]
    BY <1>14, <2>3, <1>0, <1>00 DEF ObserverReads, Ask, ObserverType
  <2> QED
    BY <1>14, <2>1, <2>2, <2>3 DEF ObserverReads, Detach, Sleep, Observe, Send, Quiet
<1>15. ASSUME NEW a \in Actors, HostHandles(a) PROVE ObsInv'
  BY <1>15, <1>0, <1>00 DEF HostHandles, Reply
<1>16. ASSUME NEW a \in Actors, HostAnswers(a) PROVE ObsInv'
  <2>1. PICK j, s : req' = [req EXCEPT ![a].answer = s, ![a].job = j]
    BY <1>16 DEF HostAnswers, Reply
  <2>2. req[a].op # "none"
    BY <1>16 DEF HostAnswers
  <2>3. \A b \in Actors : /\ req'[b].op = req[b].op /\ req'[b].arg = req[b].arg
                          /\ req[b].op = "none" => req'[b] = req[b]
    BY <2>1, <2>2, <1>0 DEF RequestType
  <2> QED
    BY <1>16, <2>3, <1>0 DEF HostAnswers
<1>17. ASSUME NEW a \in Actors, RequestFails(a) PROVE ObsInv'
  BY <1>17, <1>0, <1>00 DEF RequestFails, Reply
<1>18. ASSUME NEW a \in Actors, DeadlinePasses(a) PROVE ObsInv'
  BY <1>18, <1>0, <1>00 DEF DeadlinePasses
<1>19. ASSUME NEW r \in late, HostHandlesLate(r) PROVE ObsInv'
  BY <1>19, <1>0, <1>00 DEF HostHandlesLate
<1>20. ASSUME NEW r \in late, LateIsLost(r) PROVE ObsInv'
  BY <1>20, <1>0, <1>00 DEF LateIsLost
<1>21. ASSUME NEW j \in Jobs, HostWorks(j) PROVE ObsInv'
  BY <1>21, <1>0, <1>00 DEF HostWorks
<1>22. ASSUME NEW j \in Jobs, HostForgets(j) PROVE ObsInv'
  BY <1>22, <1>0, <1>00 DEF HostForgets
<1>23. ASSUME Enqueue PROVE ObsInv'
  BY <1>23, <1>0, <1>00 DEF Enqueue
<1>24. ASSUME Retry PROVE ObsInv'
  BY <1>24, <1>0, <1>00 DEF Retry
<1>25. ASSUME Reprocess PROVE ObsInv'
  BY <1>25, <1>0, <1>00 DEF Reprocess
<1>26. ASSUME UserCancels PROVE ObsInv'
  BY <1>26, <1>0, <1>00 DEF UserCancels, ObserverType
<1>27. ASSUME StopProcessor PROVE ObsInv'
  BY <1>27, <1>0, <1>00 DEF StopProcessor, ObserverType
<1>28. ASSUME Crash PROVE ObsInv'
  BY <1>28, <1>0, <1>00 DEF Crash, NoObserver
<1>29. CASE UNCHANGED vars
  BY <1>29, <1>0, <1>00 DEF vars
<1> QED
  BY <1>1, <1>2, <1>3, <1>4, <1>5, <1>6, <1>7, <1>8, <1>9, <1>10, <1>11, <1>12, <1>13, <1>14, <1>15, <1>16, <1>17, <1>18, <1>19, <1>20, <1>21, <1>22, <1>23, <1>24, <1>25, <1>26, <1>27, <1>28, <1>29, Turning DEF Next, PipelineStep, ObserverStep, User, Transport
\* Answers are answers to what was asked.
LEMMA AnswerStep == ShapeInv /\ [Next]_vars => AnswerInv'
<1> SUFFICES ASSUME ShapeInv, [Next]_vars PROVE AnswerInv'
  OBVIOUS
<1> USE DEF AnswerInv, NoRequest
<1>0. /\ TypeOK /\ PipeInv /\ ObsInv /\ AnswerInv
      /\ req \in [Actors -> RequestType] /\ Actors = {"pipeline", "observer"}
      /\ DataTyped' /\ (req \in [Actors -> RequestType])'
  BY DataStep, RequestStep DEF ShapeInv, TypeOK, RequestType, Actors
<1>00. pipe \in PipePoints /\ obs.at \in ObsPoints
  BY <1>0 DEF TypeOK
<1>1. ASSUME StartPipeline PROVE AnswerInv'
  BY <1>1, <1>0, <1>00 DEF StartPipeline
<1>2. ASSUME Load PROVE AnswerInv'
  BY <1>2, <1>0, <1>00 DEF Load, Finish, Quiet, To, Send, Ask
<1>3. ASSUME Throws PROVE AnswerInv'
  BY <1>3, <1>0, <1>00 DEF Throws, Finish, Quiet
<1>4. ASSUME HasCapabilities PROVE AnswerInv'
  BY <1>4, <1>0, <1>00 DEF HasCapabilities, Reads, To, Send, Ask
<1>5. ASSUME Turns PROVE AnswerInv'
  BY <1>5, <1>0, <1>00 DEF Turns, GoesOn, EndsWith, Finish, Quiet, Ask
<1>6. ASSUME Replaces PROVE AnswerInv'
  BY <1>6, <1>0, <1>00 DEF Replaces, Ask, NewIdentity
<1>7. ASSUME UploadFails PROVE AnswerInv'
  BY <1>7, <1>0, <1>00 DEF UploadFails, Finish, Quiet, Answer, To, Send, Ask
<1>8. ASSUME CancelAccepted PROVE AnswerInv'
  BY <1>8, <1>0, <1>00 DEF CancelAccepted, Reads, To, Send, Ask
<1>9. ASSUME CancelObserved PROVE AnswerInv'
  BY <1>9, <1>0, <1>00 DEF CancelObserved, Reads, Finish, Quiet, To, Send, Ask
<1>10. ASSUME Attach PROVE AnswerInv'
  BY <1>10, <1>0, <1>00 DEF Attach, Send, Ask, NoObserver
<1>11. ASSUME ObserverWakes PROVE AnswerInv'
  BY <1>11, <1>0, <1>00 DEF ObserverWakes, Detach, Observe, Quiet, NoObserver, Send, Ask
<1>12. ASSUME ObserverCancels PROVE AnswerInv'
  BY <1>12, <1>0, <1>00 DEF ObserverCancels, Detach, Observe, Quiet, NoObserver, Send, Ask
<1>13. ASSUME ObserverReadFails PROVE AnswerInv'
  BY <1>13, <1>0, <1>00 DEF ObserverReadFails, Detach, Sleep, Quiet, NoObserver
<1>14. ASSUME ObserverReads PROVE AnswerInv'
  BY <1>14, <1>0, <1>00 DEF ObserverReads, Detach, Sleep, Quiet, NoObserver, Answer
<1>15. ASSUME NEW a \in Actors, HostHandles(a) PROVE AnswerInv'
  <2>1. PICK j \in Jobs, s \in Host!Statuses \cup {"none"} :
          req' = [req EXCEPT ![a].answer = s, ![a].job = j]
    BY <1>15 DEF HostHandles, Reply
  <2>2. req[a].op \notin {"none", "capabilities"}
    BY <1>15 DEF HostHandles, Handles
  <2>3. s # "ok"
    BY <2>1 DEF Host!Statuses, Host!Live, Host!Running, Host!Ended
  <2> QED
    BY <2>1, <2>2, <2>3, <1>0 DEF RequestType
<1>16. ASSUME NEW a \in Actors, HostAnswers(a) PROVE AnswerInv'
  <2>1. ASSUME NEW j, NEW s, req' = [req EXCEPT ![a].answer = s, ![a].job = j],
               req[a].op \notin {"none", "post"}, IF req[a].op = "capabilities" THEN s = "ok" ELSE s # "ok"
        PROVE  AnswerInv'
    BY <2>1, <1>0 DEF RequestType
  <2>2. req[a].op = "get" => st[req[a].arg] \in Host!Statuses
    BY AskedFor, <1>0 DEF TypeOK
  <2>3. "ok" \notin Host!Statuses
    BY DEF Host!Statuses, Host!Live, Host!Running, Host!Ended
  <2>4. CASE req[a].op = "get" /\ Reply(a, req[a].arg, st[req[a].arg])
    <3>1. PICK j : j = req[a].arg
      OBVIOUS
    <3>2. PICK s : s = st[req[a].arg]
      OBVIOUS
    <3> QED
      BY <2>1, <2>2, <2>3, <2>4, <3>1, <3>2 DEF Reply
  <2>5. CASE req[a].op = "put" /\ Reply(a, req[a].arg, "running")
    <3>1. PICK j : j = req[a].arg
      OBVIOUS
    <3>2. req' = [req EXCEPT ![a].answer = "running", ![a].job = j]
      BY <2>5, <3>1 DEF Reply
    <3>3. req[a].op \notin {"none", "post", "capabilities"} /\ "running" # "ok"
      BY <2>5
    <3> QED
      BY <2>1, <3>2, <3>3
  <2>6. CASE req[a].op = "get" /\ Reply(a, NoJob, "error")
    <3>1. req' = [req EXCEPT ![a].answer = "error", ![a].job = NoJob]
      BY <2>6 DEF Reply
    <3>2. req[a].op \notin {"none", "post", "capabilities"} /\ "error" # "ok"
      BY <2>6
    <3> QED
      BY <2>1, <3>1, <3>2
  <2>7. CASE req[a].op = "capabilities" /\ Reply(a, NoJob, "ok")
    BY <2>1, <2>7 DEF Reply
  <2> QED
    BY <1>16, <2>4, <2>5, <2>6, <2>7 DEF HostAnswers, Reply
<1>17. ASSUME NEW a \in Actors, RequestFails(a) PROVE AnswerInv'
  BY <1>17, <1>0, <1>00 DEF RequestFails, Reply
<1>18. ASSUME NEW a \in Actors, DeadlinePasses(a) PROVE AnswerInv'
  BY <1>18, <1>0, <1>00 DEF DeadlinePasses
<1>19. ASSUME NEW r \in late, HostHandlesLate(r) PROVE AnswerInv'
  BY <1>19, <1>0, <1>00 DEF HostHandlesLate
<1>20. ASSUME NEW r \in late, LateIsLost(r) PROVE AnswerInv'
  BY <1>20, <1>0, <1>00 DEF LateIsLost
<1>21. ASSUME NEW j \in Jobs, HostWorks(j) PROVE AnswerInv'
  BY <1>21, <1>0, <1>00 DEF HostWorks
<1>22. ASSUME NEW j \in Jobs, HostForgets(j) PROVE AnswerInv'
  BY <1>22, <1>0, <1>00 DEF HostForgets
<1>23. ASSUME Enqueue PROVE AnswerInv'
  BY <1>23, <1>0, <1>00 DEF Enqueue
<1>24. ASSUME Retry PROVE AnswerInv'
  BY <1>24, <1>0, <1>00 DEF Retry
<1>25. ASSUME Reprocess PROVE AnswerInv'
  BY <1>25, <1>0, <1>00 DEF Reprocess
<1>26. ASSUME UserCancels PROVE AnswerInv'
  BY <1>26, <1>0, <1>00 DEF UserCancels
<1>27. ASSUME StopProcessor PROVE AnswerInv'
  BY <1>27, <1>0, <1>00 DEF StopProcessor
<1>28. ASSUME Crash PROVE AnswerInv'
  BY <1>28, <1>0, <1>00 DEF Crash, NoObserver
<1>29. CASE UNCHANGED vars
  BY <1>29, <1>0, <1>00 DEF vars
<1> QED
  BY <1>1, <1>2, <1>3, <1>4, <1>5, <1>6, <1>7, <1>8, <1>9, <1>10, <1>11, <1>12, <1>13, <1>14, <1>15, <1>16, <1>17, <1>18, <1>19, <1>20, <1>21, <1>22, <1>23, <1>24, <1>25, <1>26, <1>27, <1>28, <1>29, Turning DEF Next, PipelineStep, ObserverStep, User, Transport

\* The shape holds when the desktop and the host are new.
LEMMA InitShape == Init => ShapeInv
<1> SUFFICES ASSUME Init PROVE ShapeInv
  OBVIOUS
<1> USE DEF Init, Actors
<1>1. HostTyped
  BY DEF HostTyped, Host!ServiceInit, Host!Statuses
<1>2. DataTyped
  BY DEF DataTyped, PipePoints
<1>3. obs \in ObserverType
  BY DEF NoObserver, ObserverType, ObsPoints
<1>4. req \in [Actors -> RequestType]
  BY AskTyped
<1>5. TypeOK
  BY <1>1, <1>2, <1>3, <1>4 DEF TypeOK, HostTyped, DataTyped, ObserverType, RequestType
<1>6. PipeInv /\ ObsInv /\ AnswerInv /\ LateInv
  BY DEF PipeInv, ObsInv, AnswerInv, LateInv, NoObserver, NoRequest
<1> QED
  BY <1>5, <1>6 DEF ShapeInv

\* Every step keeps it.
LEMMA StepShape == ShapeInv /\ [Next]_vars => ShapeInv'
<1> SUFFICES ASSUME ShapeInv, [Next]_vars PROVE ShapeInv'
  OBVIOUS
<1>1. HostTyped' /\ DataTyped' /\ (obs \in ObserverType)' /\ (req \in [Actors -> RequestType])'
      /\ (late \subseteq LateType /\ LateInv)'
  BY HostTypesKept, DataStep, ObserverStepTyped, RequestStep, LateStep
<1>2. TypeOK'
  BY <1>1 DEF TypeOK, HostTyped, DataTyped, ObserverType, RequestType, LateType
<1> QED
  BY <1>1, <1>2, PipeStep, ObserveStep, AnswerStep DEF ShapeInv

\* The desktop asks what it has the data to ask, and every answer is to what was asked.
THEOREM ShapeIsKept == Spec => []ShapeInv
BY InitShape, StepShape, PTL DEF Spec

\* The type invariant.
THEOREM RemoteTypeCorrect == Spec => []TypeOK
<1>1. ShapeInv => TypeOK
  BY DEF ShapeInv
<1> QED
  BY <1>1, ShapeIsKept, PTL

-----------------------------------------------------------------------------
(* Without the supervisor: what the host does, as the identity sees it     *)

\* No job is created; the others go on without being revived or forgotten.
Stays ==
  /\ jobKey' = jobKey
  /\ \A i \in Jobs : /\ st'[i] = "unknown" <=> st[i] = "unknown"
                     /\ Known(i) <=> st'[i] \notin {"unknown", "gone"}
                     /\ st'[i] \in Host!Live => st[i] \in Host!Live

\* A job is created, the only one the host has for its key.
Creates(j, k) ==
  /\ st[j] = "unknown"
  /\ st' = [st EXCEPT ![j] = "awaiting-upload"]
  /\ jobKey' = [jobKey EXCEPT ![j] = k]
  /\ \A i \in Jobs : Known(i) => jobKey[i] # k

\* A request is answered for the job it names, or for the one of its key.
LEMMA HandlesEffect ==
  ASSUME HostTyped, NEW op, NEW arg, NEW j \in Jobs, NEW s, Handles(op, arg, j, s)
  PROVE  /\ Stays \/ (op = "post" /\ Creates(j, arg))
         /\ st'[j] \notin {"unknown", "gone"}
         /\ op \in {"post", "put", "cancel"}
         /\ op = "put" => s = "none"
         /\ IF op = "post" THEN jobKey'[j] = arg ELSE j = arg
         /\ s # "none" => s = st'[j]
<1> USE DEF HostTyped, Known, hostVars
<1>1. st[j] \in Host!Statuses /\ "none" \notin Host!Statuses
      /\ {"awaiting-upload", "uploading", "cancelled", "unknown"} \subseteq Host!Statuses
      /\ "cancelled" \notin Host!Live /\ "awaiting-upload" \in Host!Live /\ "uploading" \in Host!Live
  BY DEF Host!Statuses, Host!Live, Host!Running, Host!Ended
<1>2. CASE op = "post" /\ Known(j) /\ jobKey[j] = arg /\ s = st[j] /\ UNCHANGED hostVars
  BY <1>1, <1>2 DEF Stays
<1>3. CASE op = "post" /\ Host!Accept(j, arg)
  BY <1>1, <1>3 DEF Handles, Host!Accept, Creates
<1>4. CASE op = "put"
  BY <1>1, <1>4 DEF Handles, Host!StartUpload, Host!To, Stays
<1>5. CASE op = "cancel" /\ st[j] = "awaiting-upload"
  BY <1>1, <1>5 DEF Handles, Host!CancelWaiting, Host!To, Stays
<1>6. CASE op = "cancel" /\ st[j] # "awaiting-upload"
  BY <1>1, <1>6 DEF Handles, Stays
<1> QED
  BY <1>2, <1>3, <1>4, <1>5, <1>6 DEF Handles

\* What the host does by itself changes no key and revives nothing.
LEMMA WorksEffect ==
  ASSUME HostTyped, NEW j \in Jobs, HostWorks(j)
  PROVE  Stays
<1> USE DEF HostTyped, Known
<1>1. ASSUME NEW s, Host!To(j, s), Known(j), s \notin {"unknown", "gone"},
             s \in Host!Live => st[j] \in Host!Live
      PROVE  Stays
  BY <1>1 DEF Host!To, Stays
<1>2. CASE \E s \in Host!AfterRestart(st[j]) : Known(j) /\ Host!To(j, s)
  <2>1. PICK s \in Host!AfterRestart(st[j]) : Known(j) /\ Host!To(j, s)
    BY <1>2
  <2>2. st[j] \in Host!Statuses
    OBVIOUS
  <2>3. s \in {"completed", "failed", "cancelled", "interrupted"}
    BY <2>1, <2>2 DEF Host!AfterRestart, Host!Statuses, Host!Live, Host!Running, Host!Ended
  <2> QED
    BY <1>1, <2>1, <2>3 DEF Host!Live, Host!Running
<1>3. CASE Host!StartRun(j) \/ Host!Complete(j) \/ Host!KeepInput(j) \/ Host!RetryDelete(j)
  BY <1>1, <1>3 DEF Host!StartRun, Host!Complete, Host!KeepInput, Host!RetryDelete, Host!Live,
     Host!Running
<1>4. CASE \E s \in {"failed", "cancelled"} : Host!Fail(j, s) \/ Host!Withdraw(j, s)
  BY <1>1, <1>4 DEF Host!Fail, Host!Withdraw, Host!Live, Host!Running
<1> QED
  BY <1>2, <1>3, <1>4 DEF HostWorks

\* A key on its way is carried by the request of the pipeline, or by a late one.
Carried(k) ==
  \/ req["pipeline"].op = "post" /\ req["pipeline"].arg = k
  \/ \E r \in late : r.op = "post" /\ r.arg = k

\* Without an observer these are all the posted keys.
LEMMA PostedCarried == NoObserverInv => \A k : k \in Posted <=> Carried(k)
BY DEF NoObserverInv, Posted, Carried, Actors, NoRequest

\* A key becomes a job only for the identity that has none.
LEMMA CreatedForIdent ==
  ASSUME OwnerInv, NEW j \in Jobs, NEW k \in Posted, Creates(j, k)
  PROVE  ident # Nil /\ ident.key = k /\ ident.id = NoJob
BY DEF OwnerInv, PostInv, Creates

\* Every step of the host but forgetting, as the identity sees it.
HostMoves == Stays \/ \E j \in Jobs, k \in Posted \cap Keys : Creates(j, k)

\* What the host handles or does is such a step.
LEMMA HostMovesOf ==
  ASSUME OwnerInv,
         \/ HostHandles("pipeline")
         \/ \E r \in late : HostHandlesLate(r)
         \/ \E j \in Jobs : HostWorks(j)
  PROVE  HostMoves
<1>1. HostTyped /\ ShapeInv /\ NoObserverInv
  BY DEF OwnerInv, ShapeInv, TypeOK, HostTyped
<1>2. ASSUME NEW op, NEW arg, NEW j \in Jobs, NEW s, Handles(op, arg, j, s),
             op = "post" => Carried(arg) /\ arg \in Keys
      PROVE  HostMoves
  BY <1>1, <1>2, HandlesEffect, PostedCarried DEF HostMoves
<1>3. CASE HostHandles("pipeline")
  <2>1. PICK j, s, op, arg :
          j \in Jobs /\ Handles(op, arg, j, s) /\ op = req["pipeline"].op /\ arg = req["pipeline"].arg
    BY <1>3 DEF HostHandles
  <2>2. op = "post" => Carried(arg) /\ arg \in Keys
    BY <2>1, <1>1, AskedFor DEF Carried, Actors
  <2> QED
    BY <1>2, <2>1, <2>2
<1>4. CASE \E r \in late : HostHandlesLate(r)
  <2>1. PICK r \in late : HostHandlesLate(r)
    BY <1>4
  <2>2. PICK j, s, op, arg : j \in Jobs /\ Handles(op, arg, j, s) /\ op = r.op /\ arg = r.arg
    BY <2>1 DEF HostHandlesLate
  <2>3. op = "post" => Carried(arg) /\ arg \in Keys
    BY <2>1, <2>2, <1>1 DEF Carried, ShapeInv, LateInv
  <2> QED
    BY <1>2, <2>2, <2>3
<1>5. CASE \E j \in Jobs : HostWorks(j)
  BY <1>1, <1>5, WorksEffect DEF HostMoves
<1> QED
  BY <1>3, <1>4, <1>5

-----------------------------------------------------------------------------
(* A turn of a pipeline that alone owns the identity                       *)

\* The identity i it leaves behind has the one job of its key.
OwnTurn(i) ==
  /\ ident \in Identities /\ i.key = ident.key /\ i.id \in Jobs /\ result = NoJob
  /\ jobKey[i.id] = i.key /\ st[i.id] # "unknown"
  /\ \A j \in Jobs : Known(j) /\ jobKey[j] = i.key => j = i.id
  /\ ident.id # NoJob \/ Known(i.id)
  /\ i.observed = "completed" => st[i.id] \notin Host!Live
  /\ \/ ident' = i /\ result' = NoJob
     \/ /\ ident' = [i EXCEPT !.observed = "completed"] /\ result' = i.id
        /\ st[i.id] \notin Host!Live /\ pipe' = "idle"
  /\ pipe' # "idle" => mine' = i /\ ident' = i /\ result' = NoJob
  /\ pipe' \in {"idle", "cancel", "put", "poll"}
  /\ pipe' = "poll" => seen' \in Host!Running
  /\ \E q \in {NoRequest, Ask("get", i.id), Ask("put", i.id), Ask("cancel", i.id)} :
       req' = [req EXCEPT !["pipeline"] = q]
  /\ UNCHANGED <<st, jobKey, queued, obs, late>>

\* A turn of the pipeline is one of the identity it saved.
LEMMA TurnsOwned ==
  ASSUME OwnerInv, Turns
  PROVE  \E i \in Identities : OwnTurn(i)
<1> DEFINE r == req["pipeline"]
<1>1. PICK i \in Identities, row \in Identities \cup {Nil}, s \in Host!Statuses \cup {"none"} :
        /\ i.id \in Jobs /\ i.key = mine.key /\ Told(i, s)
        /\ row \in {i, ident} /\ (mine = ident => row = i)
        /\ i.observed = mine.observed
        /\ GoesOn(i, row, s) \/ EndsWith(i, row, s)
  BY DEF Turns
<1>2. /\ pipe \in {"get", "post", "put", "observe", "poll"}
      /\ UNCHANGED <<st, jobKey, queued, obs, late>>
  BY DEF Turns, hostVars
<1>3. /\ mine = ident /\ result = NoJob /\ ident \in Identities /\ row = i
      /\ i.key = ident.key /\ i.observed = ident.observed
  BY <1>1, <1>2 DEF OwnerInv, MineInv, ShapeInv, PipeInv
<1>4. /\ pipe = "post" => r.op = "post" /\ r.arg = ident.key
      /\ pipe # "post" => r.op \in {"get", "put"} /\ r.arg = ident.id /\ ident.id \in Jobs
  BY <1>2, <1>3 DEF OwnerInv, ShapeInv, PipeInv
<1>5. r.answer \notin {"none", "error", "ok"} =>
        /\ i.id = r.job /\ Known(i.id) /\ s = r.answer
        /\ s \notin Host!Live => st[i.id] \notin Host!Live
        /\ pipe = "post" => jobKey[i.id] = i.key
  BY <1>1, <1>2, <1>3, <1>4 DEF OwnerInv, HeardInv, Told
<1>6. r.answer \in {"none", "error", "ok"} => pipe = "poll" /\ s \in Host!Running
  BY <1>1, <1>2 DEF OwnerInv, PollInv, Told
<1>7. pipe # "post" => i.id = ident.id
  BY <1>1, <1>2, <1>3 DEF Told
<1>8. /\ jobKey[i.id] = i.key /\ st[i.id] # "unknown"
      /\ \A j \in Jobs : Known(j) /\ jobKey[j] = i.key => j = i.id
  <2>1. CASE pipe = "post"
    <3>1. Known(i.id) /\ jobKey[i.id] = i.key
      BY <1>5, <1>6, <2>1
    <3> QED
      BY <1>1, <3>1 DEF OwnerInv, DistinctInv, Known
  <2>2. CASE pipe # "post"
    BY <1>3, <1>4, <1>7, <2>2 DEF OwnerInv, IdentInv
  <2> QED
    BY <2>1, <2>2
<1>9. ident.id # NoJob \/ Known(i.id)
  BY <1>4, <1>5, <1>6
<1>10. i.observed = "completed" => st[i.id] \notin Host!Live
  <2> SUFFICES ASSUME i.observed = "completed" PROVE st[i.id] \notin Host!Live
    OBVIOUS
  <2>1. ident.id \in Jobs /\ st[ident.id] \notin Host!Live
    BY <1>3 DEF OwnerInv, CompletedInv
  <2>2. CASE st[i.id] \in Host!Live
    <3>1. ident.id # NoJob /\ Known(i.id)
      BY <2>1, <2>2 DEF Host!Live, Host!Running, Known
    <3>2. i.id = ident.id
      BY <1>1, <1>3, <1>8, <3>1 DEF OwnerInv, IdentInv
    <3> QED
      BY <2>1, <2>2, <3>2
  <2> QED
    BY <2>2
<1>11. CASE GoesOn(i, row, s)
  BY <1>1, <1>2, <1>3, <1>8, <1>9, <1>10, <1>11 DEF GoesOn, OwnTurn
<1>12. CASE EndsWith(i, row, s)
  <2>1. s = "completed" => st[i.id] \notin Host!Live
    BY <1>5, <1>6 DEF Host!Live, Host!Running
  <2>2. /\ pipe' = "idle" /\ req' = [req EXCEPT !["pipeline"] = NoRequest]
        /\ \/ s = "completed" /\ result' = i.id /\ ident' = [i EXCEPT !.observed = "completed"]
           \/ result' = NoJob /\ ident' = i
    BY <1>3, <1>12 DEF EndsWith, Finish, Quiet
  <2> QED
    BY <1>1, <1>2, <1>3, <1>8, <1>9, <1>10, <2>1, <2>2 DEF OwnTurn
<1> QED
  BY <1>1, <1>11, <1>12

-----------------------------------------------------------------------------
(* The kinds of step of a desktop without the supervisor                   *)

\* The identity, the result and the host are left alone; no key is sent but that of
\* a loaded identity that has no job.
Plain ==
  /\ UNCHANGED <<st, jobKey, ident, result, obs>>
  /\ pipe' \notin {"idle", "hash"} => pipe \notin {"idle", "hash"} /\ mine' = mine
  /\ pipe' = "poll" => pipe = "poll" /\ seen' = seen
  /\ req'["observer"] = req["observer"]
  /\ req'["pipeline"] = req["pipeline"] \/ req'["pipeline"].answer \in {"none", "error"}
  /\ \A k : Carried(k)' => Carried(k) \/ (pipe = "capabilities" /\ mine.id = NoJob /\ mine.key = k)

\* The saved identity is loaded, or the first one is saved.
Loads ==
  /\ result = NoJob
  /\ \/ ident # Nil /\ ident' = ident
     \/ ident = Nil /\ \E k \in Spare : ident' = NewIdentity(k)
  /\ mine' = ident' /\ pipe' = "capabilities"
  /\ req' = [req EXCEPT !["pipeline"] = Ask("capabilities", Nil)]
  /\ UNCHANGED <<st, jobKey, result, obs, late>>

\* The host says what has become of the job it is asked about.
Hears ==
  \E j \in Jobs \cup {NoJob} : \E s :
    LET r == req["pipeline"] IN
    /\ req' = [req EXCEPT !["pipeline"].answer = s, !["pipeline"].job = j]
    /\ r.op \in {"get", "post", "put", "cancel"} /\ s \notin {"none", "error"} =>
         /\ j \in Jobs /\ s = st'[j] /\ st'[j] \notin {"unknown", "gone"}
         /\ IF r.op = "post" THEN jobKey'[j] = r.arg ELSE j = r.arg

HostStep ==
  /\ HostMoves
  /\ req' = req \/ Hears
  /\ late' \subseteq late
  /\ UNCHANGED <<ident, result, pipe, mine, seen, obs>>

OwnerStep ==
  \/ Plain \/ Loads \/ (\E i \in Identities : OwnTurn(i)) \/ Replaces
  \/ HostStep \/ (\E j \in Jobs : HostForgets(j))
  \/ Retry \/ Reprocess

\* Every step is one of these.
LEMMA OwnerSteps == OwnerInv /\ Recovery = FALSE /\ [Next]_vars => OwnerStep
<1> SUFFICES ASSUME OwnerInv /\ Recovery = FALSE, [Next]_vars PROVE OwnerStep
  OBVIOUS
<1>0. /\ ShapeInv /\ NoObserverInv /\ Actors = {"pipeline", "observer"}
      /\ req \in [Actors -> RequestType]
  BY DEF OwnerInv, ShapeInv, TypeOK, RequestType, Actors
<1>00. obs.at = "none" /\ req["observer"] = NoRequest /\ req["observer"].op = "none"
  BY <1>0 DEF NoObserverInv, NoObserver, NoRequest
<1>1. ASSUME StartPipeline PROVE OwnerStep
  BY <1>1, <1>0, <1>00 DEF OwnerStep, Plain, Carried, NoRequest, pipeVars, hostVars, StartPipeline
<1>2. ASSUME Load PROVE OwnerStep
  <2>1. CASE flagged \/ result # NoJob
    BY <1>2, <2>1, <1>0, <1>00 DEF OwnerStep, Plain, Carried, NoRequest, hostVars, Load, Finish, Quiet
  <2>2. CASE ~(flagged \/ result # NoJob)
    BY <1>2, <2>2 DEF OwnerStep, Loads, hostVars, Load, To, Send
  <2> QED
    BY <2>1, <2>2
<1>3. ASSUME Throws PROVE OwnerStep
  BY <1>3, <1>0, <1>00 DEF OwnerStep, Plain, Carried, NoRequest, pipeVars, hostVars, Throws, Finish, Quiet, ForgetCancel, Answered
<1>4. ASSUME HasCapabilities PROVE OwnerStep
  BY <1>4, <1>0, <1>00 DEF OwnerStep, Plain, Carried, NoRequest, pipeVars, hostVars, HasCapabilities, Reads, Answered, To, Send, Ask
<1>5. ASSUME Turns PROVE OwnerStep
  BY <1>5, TurnsOwned DEF OwnerStep
<1>6. ASSUME Replaces PROVE OwnerStep
  BY <1>6 DEF OwnerStep
<1>7. ASSUME UploadFails PROVE OwnerStep
  BY <1>7, <1>0, <1>00 DEF OwnerStep, Plain, Carried, NoRequest, pipeVars, hostVars, UploadFails, Finish, Quiet, ForgetCancel, Answer, To, Send, Ask
<1>8. ASSUME CancelAccepted PROVE OwnerStep
  BY <1>8, <1>0, <1>00 DEF OwnerStep, Plain, Carried, NoRequest, pipeVars, hostVars, CancelAccepted, Reads, Answered, To, Send, Ask
<1>9. ASSUME CancelObserved PROVE OwnerStep
  BY <1>9, <1>0, <1>00 DEF OwnerStep, Plain, Carried, NoRequest, pipeVars, hostVars, CancelObserved, Reads, Answered, Finish, Quiet, ForgetCancel, To, Send, Ask
<1>10. ASSUME Attach PROVE OwnerStep
  BY <1>10, <1>00 DEF Attach
<1>11. ASSUME ObserverWakes PROVE OwnerStep
  BY <1>11, <1>00 DEF ObserverWakes
<1>12. ASSUME ObserverCancels PROVE OwnerStep
  BY <1>12, <1>00 DEF ObserverCancels
<1>13. ASSUME ObserverReadFails PROVE OwnerStep
  BY <1>13, <1>00 DEF ObserverReadFails
<1>14. ASSUME ObserverReads PROVE OwnerStep
  BY <1>14, <1>00 DEF ObserverReads
<1>15. ASSUME NEW a \in Actors, HostHandles(a) PROVE OwnerStep
  <2>1. a = "pipeline"
    BY <1>15, <1>0, <1>00 DEF HostHandles
  <2>2. PICK j, s, op, arg :
          /\ j \in Jobs /\ Handles(op, arg, j, s) /\ op = req["pipeline"].op /\ arg = req["pipeline"].arg
          /\ req' = [req EXCEPT !["pipeline"].answer = s, !["pipeline"].job = j]
    BY <1>15, <2>1 DEF HostHandles, Reply
  <2>3. /\ st'[j] \notin {"unknown", "gone"} /\ (s # "none" => s = st'[j])
        /\ IF op = "post" THEN jobKey'[j] = arg ELSE j = arg
    BY <2>2, <1>0, HandlesEffect DEF ShapeInv, TypeOK, HostTyped
  <2>4. Hears
    BY <2>2, <2>3 DEF Hears
  <2>5. HostMoves
    BY <1>15, <2>1, HostMovesOf
  <2> QED
    BY <1>15, <2>4, <2>5 DEF OwnerStep, HostStep, HostHandles, pipeVars
<1>16. ASSUME NEW a \in Actors, HostAnswers(a) PROVE OwnerStep
  <2>1. a = "pipeline"
    BY <1>16, <1>0, <1>00 DEF HostAnswers
  <2>2. PICK op, arg : op = req["pipeline"].op /\ arg = req["pipeline"].arg
    OBVIOUS
  <2>3. st' = st /\ jobKey' = jobKey /\ Stays
    BY <1>16 DEF HostAnswers, hostVars, Stays, Known
  <2>4. op \in {"get", "put"} => arg \in Jobs
    BY <2>2, <1>0, AskedFor
  <2>5. PICK j, s :
          /\ j \in Jobs \cup {NoJob}
          /\ req' = [req EXCEPT !["pipeline"].answer = s, !["pipeline"].job = j]
          /\ \/ op = "capabilities" \/ s = "error"
             \/ op \in {"get", "put"} /\ Known(arg) /\ j = arg /\ s = st[arg]
    <3>1. CASE op = "capabilities"
      BY <1>16, <2>1, <2>2, <3>1 DEF HostAnswers, Reply
    <3>2. CASE op = "get" /\ Known(arg)
      BY <1>16, <2>1, <2>2, <2>4, <3>2 DEF HostAnswers, Reply
    <3>3. CASE op = "get" /\ ~Known(arg)
      BY <1>16, <2>1, <2>2, <3>3 DEF HostAnswers, Reply
    <3>4. CASE op = "put" /\ st[arg] = "running"
      BY <1>16, <2>1, <2>2, <2>4, <3>4 DEF HostAnswers, Reply, Known
    <3> QED
      BY <1>16, <2>1, <2>2, <3>1, <3>2, <3>3, <3>4 DEF HostAnswers
  <2>6. Hears
    BY <2>2, <2>3, <2>4, <2>5 DEF Hears, Known
  <2> QED
    BY <1>16, <2>3, <2>6 DEF OwnerStep, HostStep, HostMoves, HostAnswers, pipeVars
<1>17. ASSUME NEW a \in Actors, RequestFails(a) PROVE OwnerStep
  <2>1. \A k : Carried(k)' => Carried(k)
    <3>1. ASSUME NEW r \in late' PROVE r \in late \/ (r.op = req["pipeline"].op /\ r.arg = req["pipeline"].arg)
                                       \/ r.op = req["observer"].op
      BY <1>17, <1>0, <3>1 DEF RequestFails, Linger, Mutating
    <3> QED
      BY <1>17, <1>0, <1>00, <3>1 DEF RequestFails, RequestType, Carried, Reply, NoRequest
  <2> QED
    BY <1>17, <2>1, <1>0, <1>00 DEF OwnerStep, Plain, hostVars, pipeVars, RequestFails, Reply, NoRequest
<1>18. ASSUME NEW a \in Actors, DeadlinePasses(a) PROVE OwnerStep
  BY <1>18, <1>0, <1>00 DEF OwnerStep, Plain, Carried, NoRequest, pipeVars, hostVars, DeadlinePasses
<1>19. ASSUME NEW r \in late, HostHandlesLate(r) PROVE OwnerStep
  <2>1. HostMoves
    BY <1>19, HostMovesOf
  <2> QED
    BY <1>19, <2>1 DEF OwnerStep, HostStep, HostHandlesLate, pipeVars
<1>20. ASSUME NEW r \in late, LateIsLost(r) PROVE OwnerStep
  BY <1>20, <1>0, <1>00 DEF OwnerStep, Plain, Carried, NoRequest, pipeVars, hostVars, LateIsLost
<1>21. ASSUME NEW j \in Jobs, HostWorks(j) PROVE OwnerStep
  <2>1. HostMoves
    BY <1>21, HostMovesOf
  <2> QED
    BY <1>21, <2>1 DEF OwnerStep, HostStep, HostWorks, pipeVars
<1>22. ASSUME NEW j \in Jobs, HostForgets(j) PROVE OwnerStep
  BY <1>22 DEF OwnerStep
<1>23. ASSUME Enqueue PROVE OwnerStep
  BY <1>23, <1>0, <1>00 DEF OwnerStep, Plain, Carried, NoRequest, pipeVars, hostVars, Enqueue
<1>24. ASSUME Retry PROVE OwnerStep
  BY <1>24 DEF OwnerStep
<1>25. ASSUME Reprocess PROVE OwnerStep
  BY <1>25 DEF OwnerStep
<1>26. ASSUME UserCancels PROVE OwnerStep
  BY <1>26, <1>0, <1>00 DEF OwnerStep, Plain, Carried, NoRequest, pipeVars, hostVars, UserCancels
<1>27. ASSUME StopProcessor PROVE OwnerStep
  BY <1>27, <1>00 DEF StopProcessor
<1>28. ASSUME Crash PROVE OwnerStep
  <2>1. \A k : Carried(k)' => Carried(k)
    <3>1. ASSUME NEW r \in late' PROVE r \in late \/ (r.op = req["pipeline"].op /\ r.arg = req["pipeline"].arg)
                                       \/ r.op = req["observer"].op
      BY <1>28, <1>0, <3>1 DEF Crash, Linger, Mutating
    <3> QED
      BY <1>28, <1>0, <1>00, <3>1 DEF Crash, Carried, Reply, NoRequest
  <2> QED
    BY <1>28, <2>1, <1>0, <1>00 DEF OwnerStep, Plain, hostVars, pipeVars, Crash, NoObserver, NoRequest, NoObserverInv
<1>29. CASE UNCHANGED vars
  BY <1>29, <1>0, <1>00 DEF OwnerStep, Plain, Carried, vars, hostVars, pipeVars
<1> QED
  BY <1>1, <1>2, <1>3, <1>4, <1>5, <1>6, <1>7, <1>8, <1>9, <1>10, <1>11, <1>12, <1>13, <1>14, <1>15, <1>16, <1>17, <1>18, <1>19, <1>20, <1>21, <1>22, <1>23, <1>24, <1>25, <1>26, <1>27, <1>28, <1>29, Turning, <1>0 DEF Next, PipelineStep, ObserverStep, User, Transport
\* No observer comes to be.
LEMMA NoObserverStep ==
  ASSUME OwnerInv, OwnerStep
  PROVE  NoObserverInv'
<1>0. /\ ShapeInv /\ NoObserverInv /\ MineInv /\ DistinctInv /\ IdentInv /\ PostInv /\ HeardInv
      /\ PollInv /\ CompletedInv /\ JobsOwned /\ ResultOfIdentity
  BY DEF OwnerInv
<1>00. /\ HostTyped /\ req \in [Actors -> RequestType] /\ "pipeline" \in Actors
       /\ ident \in Identities \cup {Nil} /\ pipe \in PipePoints
       /\ ident # Nil => ident \in Identities
  BY <1>0 DEF ShapeInv, TypeOK, HostTyped, RequestType, Actors
<1> USE DEF NoObserverInv, NoRequest
<1>1. CASE Plain
  BY <1>1, <1>0, <1>00 DEF Plain
<1>2. CASE Loads
  BY <1>2, <1>0, <1>00 DEF Loads, Ask, NewIdentity
<1>3. ASSUME NEW i \in Identities, OwnTurn(i) PROVE NoObserverInv'
  BY <1>3, <1>0, <1>00 DEF OwnTurn
<1>4. CASE Replaces
  BY <1>4, <1>0, <1>00 DEF Replaces, Ask, NewIdentity, hostVars
<1>5. CASE HostStep
  <2>1. CASE req' = req
    BY <1>5, <2>1, <1>0 DEF HostStep
  <2>2. CASE Hears
    <3>1. PICK j, s : req' = [req EXCEPT !["pipeline"].answer = s, !["pipeline"].job = j]
      BY <2>2 DEF Hears
    <3> QED
      BY <1>5, <3>1, <1>0, <1>00 DEF HostStep, Actors
  <2> QED
    BY <1>5, <2>1, <2>2 DEF HostStep
<1>6. ASSUME NEW j \in Jobs, HostForgets(j) PROVE NoObserverInv'
  BY <1>6, <1>0, <1>00 DEF HostForgets, pipeVars
<1>7. CASE Retry
  BY <1>7, <1>0, <1>00 DEF Retry, PipelineOwns, hostVars
<1>8. CASE Reprocess
  BY <1>8, <1>0, <1>00 DEF Reprocess, PipelineOwns, hostVars
<1> QED
  BY <1>1, <1>2, <1>3, <1>4, <1>5, <1>6, <1>7, <1>8 DEF OwnerStep

\* The pipeline works with the saved identity.
LEMMA MineStep ==
  ASSUME OwnerInv, OwnerStep
  PROVE  MineInv'
<1>0. /\ ShapeInv /\ NoObserverInv /\ MineInv /\ DistinctInv /\ IdentInv /\ PostInv /\ HeardInv
      /\ PollInv /\ CompletedInv /\ JobsOwned /\ ResultOfIdentity
  BY DEF OwnerInv
<1>00. /\ HostTyped /\ req \in [Actors -> RequestType] /\ "pipeline" \in Actors
       /\ ident \in Identities \cup {Nil} /\ pipe \in PipePoints
       /\ ident # Nil => ident \in Identities
  BY <1>0 DEF ShapeInv, TypeOK, HostTyped, RequestType, Actors
<1> USE DEF MineInv
<1>1. CASE Plain
  BY <1>1, <1>0, <1>00 DEF Plain
<1>2. CASE Loads
  BY <1>2, <1>0, <1>00 DEF Loads, Ask, NewIdentity
<1>3. ASSUME NEW i \in Identities, OwnTurn(i) PROVE MineInv'
  BY <1>3, <1>0, <1>00 DEF OwnTurn
<1>4. CASE Replaces
  BY <1>4, <1>0, <1>00 DEF Replaces, Ask, NewIdentity, hostVars
<1>5. CASE HostStep
  BY <1>5, <1>0, <1>00 DEF HostStep
<1>6. ASSUME NEW j \in Jobs, HostForgets(j) PROVE MineInv'
  BY <1>6, <1>0, <1>00 DEF HostForgets, pipeVars
<1>7. CASE Retry
  BY <1>7, <1>0, <1>00 DEF Retry, PipelineOwns, hostVars
<1>8. CASE Reprocess
  BY <1>8, <1>0, <1>00 DEF Reprocess, PipelineOwns, hostVars
<1> QED
  BY <1>1, <1>2, <1>3, <1>4, <1>5, <1>6, <1>7, <1>8 DEF OwnerStep

\* The host has one job per key.
LEMMA DistinctStep ==
  ASSUME OwnerInv, OwnerStep
  PROVE  DistinctInv'
<1>0. /\ ShapeInv /\ NoObserverInv /\ MineInv /\ DistinctInv /\ IdentInv /\ PostInv /\ HeardInv
      /\ PollInv /\ CompletedInv /\ JobsOwned /\ ResultOfIdentity
  BY DEF OwnerInv
<1>00. /\ HostTyped /\ req \in [Actors -> RequestType] /\ "pipeline" \in Actors
       /\ ident \in Identities \cup {Nil} /\ pipe \in PipePoints
       /\ ident # Nil => ident \in Identities
  BY <1>0 DEF ShapeInv, TypeOK, HostTyped, RequestType, Actors
<1> USE DEF DistinctInv, Known
<1>1. CASE Plain
  BY <1>1, <1>0, <1>00 DEF Plain
<1>2. CASE Loads
  BY <1>2, <1>0, <1>00 DEF Loads, Ask, NewIdentity
<1>3. ASSUME NEW i \in Identities, OwnTurn(i) PROVE DistinctInv'
  BY <1>3, <1>0, <1>00 DEF OwnTurn
<1>4. CASE Replaces
  BY <1>4, <1>0, <1>00 DEF Replaces, Ask, NewIdentity, hostVars
<1>5. CASE HostStep
  <2>1. CASE Stays
    BY <2>1, <1>0 DEF Stays
  <2>2. CASE \E j \in Jobs, k \in Posted \cap Keys : Creates(j, k)
    BY <2>2, <1>0, <1>00 DEF Creates, HostTyped
  <2> QED
    BY <1>5, <2>1, <2>2 DEF HostStep, HostMoves
<1>6. ASSUME NEW j \in Jobs, HostForgets(j) PROVE DistinctInv'
  BY <1>6, <1>0, <1>00 DEF HostForgets, Host!Forget, Host!To, HostTyped
<1>7. CASE Retry
  BY <1>7, <1>0, <1>00 DEF Retry, PipelineOwns, hostVars
<1>8. CASE Reprocess
  BY <1>8, <1>0, <1>00 DEF Reprocess, PipelineOwns, hostVars
<1> QED
  BY <1>1, <1>2, <1>3, <1>4, <1>5, <1>6, <1>7, <1>8 DEF OwnerStep

\* The saved identity has the only job of its key.
LEMMA IdentStep ==
  ASSUME OwnerInv, OwnerStep
  PROVE  IdentInv'
<1>0. /\ ShapeInv /\ NoObserverInv /\ MineInv /\ DistinctInv /\ IdentInv /\ PostInv /\ HeardInv
      /\ PollInv /\ CompletedInv /\ JobsOwned /\ ResultOfIdentity
  BY DEF OwnerInv
<1>00. /\ HostTyped /\ req \in [Actors -> RequestType] /\ "pipeline" \in Actors
       /\ ident \in Identities \cup {Nil} /\ pipe \in PipePoints
       /\ ident # Nil => ident \in Identities
  BY <1>0 DEF ShapeInv, TypeOK, HostTyped, RequestType, Actors
<1> USE DEF IdentInv, Known
<1>1. CASE Plain
  BY <1>1, <1>0, <1>00 DEF Plain
<1>2. CASE Loads
  BY <1>2, <1>0, <1>00 DEF Loads, Ask, NewIdentity, Identities
<1>3. ASSUME NEW i \in Identities, OwnTurn(i) PROVE IdentInv'
  BY <1>3, <1>0, <1>00 DEF OwnTurn, Identities
<1>4. CASE Replaces
  BY <1>4, <1>0, <1>00 DEF Replaces, Ask, NewIdentity, hostVars
<1>5. CASE HostStep
  <2>1. CASE Stays
    BY <1>5, <2>1, <1>0, <1>00 DEF HostStep, Stays, Identities
  <2>2. CASE \E j \in Jobs, k \in Posted \cap Keys : Creates(j, k)
    <3>1. PICK j \in Jobs, k \in Posted \cap Keys : Creates(j, k)
      BY <2>2
    <3>2. ident # Nil /\ ident.key = k /\ ident.id = NoJob
      BY <3>1, CreatedForIdent
    <3> QED
      BY <1>5, <3>1, <3>2, <1>0, <1>00 DEF HostStep, Creates, HostTyped, Identities
  <2> QED
    BY <1>5, <2>1, <2>2 DEF HostStep, HostMoves
<1>6. ASSUME NEW j \in Jobs, HostForgets(j) PROVE IdentInv'
  BY <1>6, <1>0, <1>00 DEF HostForgets, Host!Forget, Host!To, HostTyped, Identities
<1>7. CASE Retry
  BY <1>7, <1>0, <1>00 DEF Retry, PipelineOwns, hostVars, Identities
<1>8. CASE Reprocess
  BY <1>8, <1>0, <1>00 DEF Reprocess, PipelineOwns, hostVars
<1> QED
  BY <1>1, <1>2, <1>3, <1>4, <1>5, <1>6, <1>7, <1>8 DEF OwnerStep

\* No job to be done is orphaned.
LEMMA OwnedStep ==
  ASSUME OwnerInv, OwnerStep
  PROVE  JobsOwned'
<1>0. /\ ShapeInv /\ NoObserverInv /\ MineInv /\ DistinctInv /\ IdentInv /\ PostInv /\ HeardInv
      /\ PollInv /\ CompletedInv /\ JobsOwned /\ ResultOfIdentity
  BY DEF OwnerInv
<1>00. /\ HostTyped /\ req \in [Actors -> RequestType] /\ "pipeline" \in Actors
       /\ ident \in Identities \cup {Nil} /\ pipe \in PipePoints
       /\ ident # Nil => ident \in Identities
  BY <1>0 DEF ShapeInv, TypeOK, HostTyped, RequestType, Actors
<1> USE DEF JobsOwned
<1>1. CASE Plain
  BY <1>1, <1>0, <1>00 DEF Plain
<1>2. CASE Loads
  <2>1. CASE ident # Nil /\ ident' = ident
    BY <1>2, <2>1, <1>0 DEF Loads
  <2>2. CASE ident = Nil
    <3>1. \A j \in Jobs : st[j] \notin Host!Live
      BY <2>2, <1>0
    <3> QED
      BY <1>2, <3>1 DEF Loads
  <2> QED
    BY <1>2, <2>1, <2>2 DEF Loads
<1>3. ASSUME NEW i \in Identities, OwnTurn(i) PROVE JobsOwned'
  <2>0. PICK d : d = [i EXCEPT !.observed = "completed"]
    OBVIOUS
  <2>00. "completed" \in Host!Statuses
    BY DEF Host!Statuses, Host!Ended
  <2>01. d \in Identities /\ d # Nil /\ i # Nil /\ d.key = i.key /\ d.id = i.id
    BY <2>0, <2>00, IdentityTyped DEF Identities
  <2>1. ident' # Nil /\ ident'.key = ident.key
    BY <1>3, <2>0, <2>01 DEF OwnTurn
  <2> QED
    BY <1>3, <2>1, <1>0 DEF OwnTurn
<1>4. CASE Replaces
  <2>1. ident \in Identities /\ mine = ident /\ ident.id \in Jobs
    BY <1>4, <1>0, <1>00 DEF Replaces, MineInv, ShapeInv, PipeInv
  <2>2. st[ident.id] \notin Host!Live
    BY <1>4, <2>1, <1>0 DEF Replaces, ShapeInv, PipeInv, HeardInv, Host!Live, Host!Running
  <2>3. \A j \in Jobs : st[j] \notin Host!Live
    BY <2>1, <2>2, <1>0 DEF IdentInv, Known, Host!Live, Host!Running
  <2> QED
    BY <1>4, <2>3 DEF Replaces, hostVars
<1>5. CASE HostStep
  <2>1. CASE Stays
    BY <1>5, <2>1, <1>0, <1>00 DEF HostStep, Stays, Host!Live, Host!Running
  <2>2. CASE \E j \in Jobs, k \in Posted \cap Keys : Creates(j, k)
    <3>1. PICK j \in Jobs, k \in Posted \cap Keys : Creates(j, k)
      BY <2>2
    <3>2. ident # Nil /\ ident.key = k /\ ident.id = NoJob
      BY <3>1, CreatedForIdent
    <3> QED
      BY <1>5, <3>1, <3>2, <1>0, <1>00 DEF HostStep, Creates, HostTyped, Host!Live, Host!Running
  <2> QED
    BY <1>5, <2>1, <2>2 DEF HostStep, HostMoves
<1>6. ASSUME NEW j \in Jobs, HostForgets(j) PROVE JobsOwned'
  BY <1>6, <1>0, <1>00 DEF HostForgets, Host!Forget, Host!To, HostTyped, Host!Live, Host!Running
<1>7. CASE Retry
  <2>1. ident \in Identities => ident' # Nil /\ ident'.key = ident.key
    BY <1>7, <1>00, IdentityTyped DEF Retry, Identities
  <2> QED
    BY <1>7, <2>1, <1>0, <1>00 DEF Retry, hostVars
<1>8. CASE Reprocess
  <2>1. CASE ident # Nil /\ ident.observed = "completed"
    <3>1. ident.id \in Jobs /\ st[ident.id] \notin Host!Live
      BY <2>1, <1>0 DEF CompletedInv
    <3>2. \A j \in Jobs : st[j] \notin Host!Live
      BY <2>1, <3>1, <1>0 DEF IdentInv, Known, Host!Live, Host!Running
    <3> QED
      BY <1>8, <3>2 DEF Reprocess, hostVars
  <2>2. CASE ~(ident # Nil /\ ident.observed = "completed")
    BY <1>8, <2>2, <1>0 DEF Reprocess, hostVars
  <2> QED
    BY <2>1, <2>2
<1> QED
  BY <1>1, <1>2, <1>3, <1>4, <1>5, <1>6, <1>7, <1>8 DEF OwnerStep

\* An identity observed as completed has an ended job.
LEMMA CompletedStep ==
  ASSUME OwnerInv, OwnerStep
  PROVE  CompletedInv'
<1>0. /\ ShapeInv /\ NoObserverInv /\ MineInv /\ DistinctInv /\ IdentInv /\ PostInv /\ HeardInv
      /\ PollInv /\ CompletedInv /\ JobsOwned /\ ResultOfIdentity
  BY DEF OwnerInv
<1>00. /\ HostTyped /\ req \in [Actors -> RequestType] /\ "pipeline" \in Actors
       /\ ident \in Identities \cup {Nil} /\ pipe \in PipePoints
       /\ ident # Nil => ident \in Identities
  BY <1>0 DEF ShapeInv, TypeOK, HostTyped, RequestType, Actors
<1> USE DEF CompletedInv
<1>1. CASE Plain
  BY <1>1, <1>0, <1>00 DEF Plain
<1>2. CASE Loads
  BY <1>2, <1>0, <1>00 DEF Loads, Ask, NewIdentity, Identities
<1>3. ASSUME NEW i \in Identities, OwnTurn(i) PROVE CompletedInv'
  BY <1>3, <1>0, <1>00 DEF OwnTurn, Identities
<1>4. CASE Replaces
  BY <1>4, <1>0, <1>00 DEF Replaces, Ask, NewIdentity, hostVars, Identities
<1>5. CASE HostStep
  <2>1. CASE Stays
    BY <1>5, <2>1, <1>0, <1>00 DEF HostStep, Stays, IdentInv
  <2>2. CASE \E j \in Jobs, k \in Posted \cap Keys : Creates(j, k)
    <3>1. PICK j \in Jobs, k \in Posted \cap Keys : Creates(j, k)
      BY <2>2
    <3>2. ident # Nil /\ ident.key = k /\ ident.id = NoJob
      BY <3>1, CreatedForIdent
    <3> QED
      BY <1>5, <3>1, <3>2, <1>0, <1>00 DEF HostStep, Creates, HostTyped, IdentInv
  <2> QED
    BY <1>5, <2>1, <2>2 DEF HostStep, HostMoves
<1>6. ASSUME NEW j \in Jobs, HostForgets(j) PROVE CompletedInv'
  BY <1>6, <1>0, <1>00 DEF HostForgets, Host!Forget, Host!To, HostTyped, Host!Live, Host!Running
<1>7. CASE Retry
  BY <1>7, <1>0, <1>00 DEF Retry, PipelineOwns, hostVars, Identities
<1>8. CASE Reprocess
  BY <1>8, <1>0, <1>00 DEF Reprocess, PipelineOwns, hostVars
<1> QED
  BY <1>1, <1>2, <1>3, <1>4, <1>5, <1>6, <1>7, <1>8 DEF OwnerStep

\* A poll falls back on a status that keeps it polling.
LEMMA PollStep ==
  ASSUME OwnerInv, OwnerStep
  PROVE  PollInv'
<1>0. /\ ShapeInv /\ NoObserverInv /\ MineInv /\ DistinctInv /\ IdentInv /\ PostInv /\ HeardInv
      /\ PollInv /\ CompletedInv /\ JobsOwned /\ ResultOfIdentity
  BY DEF OwnerInv
<1>00. /\ HostTyped /\ req \in [Actors -> RequestType] /\ "pipeline" \in Actors
       /\ ident \in Identities \cup {Nil} /\ pipe \in PipePoints
       /\ ident # Nil => ident \in Identities
  BY <1>0 DEF ShapeInv, TypeOK, HostTyped, RequestType, Actors
<1> USE DEF PollInv
<1>1. CASE Plain
  BY <1>1, <1>0, <1>00 DEF Plain
<1>2. CASE Loads
  BY <1>2, <1>0, <1>00 DEF Loads, Ask, NewIdentity
<1>3. ASSUME NEW i \in Identities, OwnTurn(i) PROVE PollInv'
  BY <1>3, <1>0, <1>00 DEF OwnTurn
<1>4. CASE Replaces
  BY <1>4, <1>0, <1>00 DEF Replaces, Ask, NewIdentity, hostVars
<1>5. CASE HostStep
  BY <1>5, <1>0, <1>00 DEF HostStep
<1>6. ASSUME NEW j \in Jobs, HostForgets(j) PROVE PollInv'
  BY <1>6, <1>0, <1>00 DEF HostForgets, pipeVars
<1>7. CASE Retry
  BY <1>7, <1>0, <1>00 DEF Retry, PipelineOwns, hostVars
<1>8. CASE Reprocess
  BY <1>8, <1>0, <1>00 DEF Reprocess, PipelineOwns, hostVars
<1> QED
  BY <1>1, <1>2, <1>3, <1>4, <1>5, <1>6, <1>7, <1>8 DEF OwnerStep

\* The saved result is that of the saved identity.
LEMMA ResultStep ==
  ASSUME OwnerInv, OwnerStep
  PROVE  ResultOfIdentity'
<1>0. /\ ShapeInv /\ NoObserverInv /\ MineInv /\ DistinctInv /\ IdentInv /\ PostInv /\ HeardInv
      /\ PollInv /\ CompletedInv /\ JobsOwned /\ ResultOfIdentity
  BY DEF OwnerInv
<1>00. /\ HostTyped /\ req \in [Actors -> RequestType] /\ "pipeline" \in Actors
       /\ ident \in Identities \cup {Nil} /\ pipe \in PipePoints
       /\ ident # Nil => ident \in Identities
  BY <1>0 DEF ShapeInv, TypeOK, HostTyped, RequestType, Actors
<1> USE DEF ResultOfIdentity
<1>1. CASE Plain
  BY <1>1, <1>0, <1>00 DEF Plain
<1>2. CASE Loads
  BY <1>2, <1>0, <1>00 DEF Loads, Ask, NewIdentity
<1>3. ASSUME NEW i \in Identities, OwnTurn(i) PROVE ResultOfIdentity'
  <2>0. PICK d : d = [i EXCEPT !.observed = "completed"]
    OBVIOUS
  <2>00. "completed" \in Host!Statuses
    BY DEF Host!Statuses, Host!Ended
  <2>01. d \in Identities /\ d # Nil /\ i # Nil /\ d.key = i.key /\ d.id = i.id
    BY <2>0, <2>00, IdentityTyped DEF Identities
  <2> QED
    BY <1>3, <2>0, <2>01 DEF OwnTurn
<1>4. CASE Replaces
  BY <1>4, <1>0, <1>00 DEF Replaces, Ask, NewIdentity, hostVars, MineInv
<1>5. CASE HostStep
  BY <1>5, <1>0, <1>00 DEF HostStep
<1>6. ASSUME NEW j \in Jobs, HostForgets(j) PROVE ResultOfIdentity'
  BY <1>6, <1>0, <1>00 DEF HostForgets, pipeVars
<1>7. CASE Retry
  BY <1>7, <1>0, <1>00 DEF Retry, PipelineOwns, hostVars, Identities
<1>8. CASE Reprocess
  BY <1>8, <1>0, <1>00 DEF Reprocess, PipelineOwns, hostVars
<1> QED
  BY <1>1, <1>2, <1>3, <1>4, <1>5, <1>6, <1>7, <1>8 DEF OwnerStep

\* What the pipeline has heard of its job stays true.
LEMMA HeardStep ==
  ASSUME OwnerInv, OwnerStep
  PROVE  HeardInv'
<1>0. /\ ShapeInv /\ NoObserverInv /\ MineInv /\ DistinctInv /\ IdentInv /\ PostInv /\ HeardInv
      /\ PollInv /\ CompletedInv /\ JobsOwned /\ ResultOfIdentity
  BY DEF OwnerInv
<1>00. /\ HostTyped /\ req \in [Actors -> RequestType] /\ "pipeline" \in Actors
       /\ ident \in Identities \cup {Nil} /\ pipe \in PipePoints
       /\ ident # Nil => ident \in Identities
  BY <1>0 DEF ShapeInv, TypeOK, HostTyped, RequestType, Actors
<1> USE DEF HeardInv, Known
<1>1. CASE Plain
  BY <1>1, <1>0, <1>00 DEF Plain
<1>2. CASE Loads
  BY <1>2, <1>0, <1>00 DEF Loads, Ask, NewIdentity
<1>3. ASSUME NEW i \in Identities, OwnTurn(i) PROVE HeardInv'
  <2>1. req'["pipeline"].answer = "none"
    BY <1>3, <1>00 DEF OwnTurn, NoRequest, Ask
  <2> QED
    BY <2>1
<1>4. CASE Replaces
  BY <1>4, <1>0, <1>00 DEF Replaces, Ask, NewIdentity, hostVars
<1>5. CASE HostStep
  <2>1. HostMoves /\ (req' = req \/ Hears)
    BY <1>5 DEF HostStep
  <2>2. \A j \in Jobs : Known(j) =>
          /\ st'[j] \notin {"unknown", "gone"} /\ jobKey'[j] = jobKey[j]
          /\ st[j] \notin Host!Live => st'[j] \notin Host!Live
    BY <2>1, <1>00 DEF HostMoves, Stays, Creates, HostTyped
  <2>3. CASE req' = req
    BY <2>2, <2>3, <1>0
  <2>4. CASE Hears
    <3>1. PICK j, s : LET r == req["pipeline"] IN
            /\ req' = [req EXCEPT !["pipeline"].answer = s, !["pipeline"].job = j]
            /\ r.op \in {"get", "post", "put", "cancel"} /\ s \notin {"none", "error"} =>
                 /\ j \in Jobs /\ s = st'[j] /\ st'[j] \notin {"unknown", "gone"}
                 /\ IF r.op = "post" THEN jobKey'[j] = r.arg ELSE j = r.arg
      BY <2>4 DEF Hears
    <3>2. /\ req'["pipeline"].answer = s /\ req'["pipeline"].job = j
          /\ req'["pipeline"].op = req["pipeline"].op /\ req'["pipeline"].arg = req["pipeline"].arg
      BY <3>1, <1>00 DEF RequestType
    <3> QED
      BY <3>1, <3>2
  <2> QED
    BY <2>1, <2>3, <2>4
<1>6. ASSUME NEW j \in Jobs, HostForgets(j) PROVE HeardInv'
  BY <1>6, <1>0 DEF HostForgets, ShapeInv, PipeInv, NoRequest
<1>7. CASE Retry
  BY <1>7, <1>0, <1>00 DEF Retry, PipelineOwns, hostVars
<1>8. CASE Reprocess
  BY <1>8, <1>0, <1>00 DEF Reprocess, PipelineOwns, hostVars
<1> QED
  BY <1>1, <1>2, <1>3, <1>4, <1>5, <1>6, <1>7, <1>8 DEF OwnerStep

\* A key that has a job, or is the saved one and has none yet.
Covered(k) ==
  \/ ident # Nil /\ ident.key = k /\ ident.id = NoJob
  \/ \E j \in Jobs : Known(j) /\ jobKey[j] = k

\* PostInv said of the keys on their way.
LEMMA PostAsCarried == NoObserverInv => (PostInv <=> \A k : Carried(k) => Covered(k))
BY PostedCarried DEF PostInv, Covered

\* A key on its way is the saved one, or has a job.
LEMMA PostStep ==
  ASSUME OwnerInv, OwnerStep
  PROVE  PostInv'
<1>0. /\ ShapeInv /\ NoObserverInv /\ MineInv /\ DistinctInv /\ IdentInv /\ PostInv /\ HeardInv
      /\ PollInv /\ CompletedInv /\ JobsOwned /\ ResultOfIdentity
  BY DEF OwnerInv
<1>00. /\ HostTyped /\ req \in [Actors -> RequestType] /\ "pipeline" \in Actors
       /\ ident \in Identities \cup {Nil} /\ pipe \in PipePoints
       /\ ident # Nil => ident \in Identities
  BY <1>0 DEF ShapeInv, TypeOK, HostTyped, RequestType, Actors
<1>01. \A k : Carried(k) => Covered(k)
  BY <1>0, PostAsCarried
<1>02. (NoObserverInv => (PostInv <=> \A k : Carried(k) => Covered(k)))'
  BY PostAsCarried, PTL
<1>03. (\A k : Carried(k) => Covered(k))' => PostInv'
  BY <1>02, NoObserverStep
<1> SUFFICES ASSUME NEW k, Carried(k)' PROVE Covered(k)'
  BY <1>03
<1>1. CASE Plain
  <2>1. CASE Carried(k)
    BY <1>1, <2>1, <1>01 DEF Plain, Covered, Known
  <2>2. CASE pipe = "capabilities" /\ mine.id = NoJob /\ mine.key = k
    BY <1>1, <2>2, <1>0, <1>00 DEF Plain, Covered, MineInv, ShapeInv, PipeInv
  <2> QED
    BY <1>1, <2>1, <2>2 DEF Plain
<1>2. CASE Loads
  <2>1. Carried(k)
    BY <1>2, <1>00 DEF Loads, Carried, Ask
  <2>2. Covered(k)
    BY <2>1, <1>01
  <2> QED
    BY <1>2, <2>2 DEF Loads, Covered, Known
<1>3. ASSUME NEW i \in Identities, OwnTurn(i) PROVE Covered(k)'
  <2>1. Carried(k)
    BY <1>3, <1>00 DEF OwnTurn, Carried, Ask, NoRequest
  <2>2. Covered(k)
    BY <2>1, <1>01
  <2> QED
    BY <1>3, <2>2 DEF OwnTurn, Covered, Known, Identities
<1>4. CASE Replaces
  <2>1. PICK n \in Keys : ident' = NewIdentity(n) /\ req' = [req EXCEPT !["pipeline"] = Ask("post", n)]
    BY <1>4 DEF Replaces, Spare
  <2>2. CASE k = n
    BY <2>1, <2>2, IdentityTyped DEF Covered, NewIdentity
  <2>3. CASE k # n
    <3>1. Carried(k)
      BY <1>4, <2>1, <2>3, <1>00 DEF Replaces, Carried, Ask
    <3>2. ident.id # NoJob
      BY <1>4, <1>0 DEF Replaces, MineInv, ShapeInv, PipeInv
    <3> QED
      BY <1>4, <3>1, <3>2, <1>01 DEF Replaces, Covered, Known, hostVars
  <2> QED
    BY <2>2, <2>3
<1>5. CASE HostStep
  <2>1. Carried(k)
    <3>1. /\ req'["pipeline"].op = req["pipeline"].op /\ req'["pipeline"].arg = req["pipeline"].arg
          /\ late' \subseteq late
      <4>1. CASE req' = req
        BY <1>5, <4>1 DEF HostStep
      <4>2. CASE Hears
        <5>1. PICK j, s : req' = [req EXCEPT !["pipeline"].answer = s, !["pipeline"].job = j]
          BY <4>2 DEF Hears
        <5> QED
          BY <1>5, <5>1, <1>00 DEF HostStep, RequestType
      <4> QED
        BY <1>5, <4>1, <4>2 DEF HostStep
    <3> QED
      BY <3>1 DEF Carried
  <2>2. Covered(k)
    BY <2>1, <1>01
  <2>3. CASE Stays
    BY <1>5, <2>2, <2>3 DEF HostStep, Stays, Covered, Known
  <2>4. CASE \E j \in Jobs, n \in Posted \cap Keys : Creates(j, n)
    BY <1>5, <2>2, <2>4, <1>00 DEF HostStep, Creates, Covered, Known, HostTyped
  <2> QED
    BY <1>5, <2>3, <2>4 DEF HostStep, HostMoves
<1>6. ASSUME NEW j \in Jobs, HostForgets(j) PROVE Covered(k)'
  BY <1>6, <1>0 DEF HostForgets, Carried, pipeVars, ShapeInv, PipeInv, NoRequest
<1>7. CASE Retry
  <2>1. Carried(k)
    BY <1>7 DEF Retry, Carried
  <2>2. Covered(k)
    BY <2>1, <1>01
  <2> QED
    BY <1>7, <2>2, <1>00, IdentityTyped DEF Retry, Covered, Known, hostVars, Identities
<1>8. CASE Reprocess
  <2>1. Carried(k)
    BY <1>8 DEF Reprocess, Carried
  <2>2. Covered(k)
    BY <2>1, <1>01
  <2> QED
    BY <1>8, <2>2, <1>0 DEF Reprocess, Covered, Known, CompletedInv, hostVars
<1> QED
  BY <1>1, <1>2, <1>3, <1>4, <1>5, <1>6, <1>7, <1>8 DEF OwnerStep

-----------------------------------------------------------------------------
(* The theorems                                                            *)

\* Without the supervisor the pipeline alone owns the identity.
THEOREM OwnershipIsKept == ASSUME Recovery = FALSE PROVE Spec => []OwnerInv
<1>1. Init => OwnerInv
  <2> SUFFICES ASSUME Init PROVE OwnerInv
    OBVIOUS
  <2>1. ShapeInv
    BY InitShape
  <2>2. \A j \in Jobs : st[j] = "unknown"
    BY DEF Init, Host!ServiceInit
  <2>3. NoObserverInv /\ MineInv /\ DistinctInv /\ IdentInv /\ HeardInv /\ PollInv
        /\ CompletedInv /\ JobsOwned /\ ResultOfIdentity
    BY <2>2 DEF Init, NoObserverInv, MineInv, DistinctInv, IdentInv, HeardInv, PollInv, CompletedInv,
       JobsOwned, ResultOfIdentity, NoRequest, Actors, Known, Host!Live, Host!Running
  <2>4. PostInv
    BY <2>3, PostAsCarried DEF Init, Carried, NoRequest, Actors
  <2> QED
    BY <2>1, <2>3, <2>4 DEF OwnerInv
<1>2. OwnerInv /\ [Next]_vars => OwnerInv'
  <2> SUFFICES ASSUME OwnerInv, [Next]_vars PROVE OwnerInv'
    OBVIOUS
  <2>1. OwnerStep
    BY OwnerSteps
  <2>2. ShapeInv'
    BY StepShape DEF OwnerInv
  <2> QED
    BY <2>1, <2>2, NoObserverStep, MineStep, DistinctStep, IdentStep, PostStep, HeardStep, PollStep,
       CompletedStep, OwnedStep, ResultStep DEF OwnerInv
<1> QED
  BY <1>1, <1>2, PTL DEF Spec

\* No orphan: a job the host still has to do is found again through the saved key.
THEOREM JobsAreOwned == ASSUME Recovery = FALSE PROVE Spec => []JobsOwned
<1>1. OwnerInv => JobsOwned
  BY DEF OwnerInv
<1> QED
  BY <1>1, OwnershipIsKept, PTL

\* Durable intent precedes every POST.
THEOREM IntentComesFirst == ASSUME Recovery = FALSE PROVE Spec => []IntentFirst
<1>1. OwnerInv => IntentFirst
  BY DEF OwnerInv, PostInv, IntentFirst
<1> QED
  BY <1>1, OwnershipIsKept, PTL

\* The saved result is the one of the saved identity.
THEOREM ResultBelongs == ASSUME Recovery = FALSE PROVE Spec => []ResultOfIdentity
<1>1. OwnerInv => ResultOfIdentity
  BY DEF OwnerInv
<1> QED
  BY <1>1, OwnershipIsKept, PTL

\* A saved key gives way to another only when its job has ended at the host.
THEOREM RestartsAreConfirmed == ASSUME Recovery = FALSE PROVE Spec => RestartConfirmed
<1> DEFINE Confirmed == ident # Nil /\ ident' # Nil /\ ident'.key # ident.key
                          => \A j \in Jobs : jobKey[j] = ident.key => st[j] \notin Host!Live
<1>1. OwnerInv /\ [Next]_vars => [Confirmed]_vars
  <2> SUFFICES ASSUME OwnerInv, [Next]_vars PROVE Confirmed
    OBVIOUS
  <2>0. /\ JobsOwned /\ MineInv /\ IdentInv /\ HeardInv /\ ShapeInv
        /\ ident \in Identities \cup {Nil}
    BY DEF OwnerInv, ShapeInv, TypeOK
  <2>1. OwnerStep
    BY OwnerSteps
  <2>2. CASE Replaces
    <3>1. ident \in Identities /\ mine = ident /\ ident.id \in Jobs
      BY <2>0, <2>2 DEF Replaces, MineInv, ShapeInv, PipeInv
    <3>2. st[ident.id] \notin Host!Live
      BY <2>0, <2>2, <3>1 DEF Replaces, ShapeInv, PipeInv, HeardInv, Host!Live, Host!Running
    <3> QED
      BY <2>0, <3>1, <3>2 DEF IdentInv, Known, Host!Live, Host!Running
  <2>3. CASE \E i \in Identities : OwnTurn(i)
    BY <2>3, <2>0 DEF OwnTurn, Identities
  <2>4. CASE Retry
    BY <2>4, <2>0 DEF Retry, Identities
  <2>5. CASE Plain \/ Loads \/ HostStep \/ Reprocess \/ \E j \in Jobs : HostForgets(j)
    BY <2>5, <2>0 DEF Plain, Loads, HostStep, Reprocess, HostForgets
  <2> QED
    BY <2>1, <2>2, <2>3, <2>4, <2>5 DEF OwnerStep
<1> QED
  BY <1>1, OwnershipIsKept, PTL DEF Spec, RestartConfirmed

\* An observer never writes under a pipeline that owns the recording: it looks
\* again after each of its awaits.  Whatever the constants are.
THEOREM ObserverAlwaysYields == Spec => ObserverYields
<1> DEFINE Yields == PipelineOwns /\ (ident' # ident \/ result' # result) => obs' = obs
<1>1. [Next]_vars => [Yields]_vars
  <2> SUFFICES ASSUME [Next]_vars PROVE Yields
    OBVIOUS
  <2>1. CASE PipelineStep
    BY <2>1 DEF PipelineStep, Load, Throws, HasCapabilities, GotJob, GotNewJob, Uploaded, UploadFails,
       Polled, CancelAccepted, CancelObserved
  <2>2. CASE ObserverStep
    BY <2>2 DEF ObserverStep, ObserverWakes, ObserverCancels, ObserverReadFails, ObserverReads,
       MayContinue, PipelineOwns, Detach
  <2>3. CASE StartPipeline \/ Attach \/ Crash \/ UNCHANGED vars
    BY <2>3 DEF StartPipeline, Attach, Crash, vars
  <2>4. CASE User
    BY <2>4 DEF User, Enqueue, Retry, Reprocess, UserCancels, StopProcessor
  <2>5. CASE \E a \in Actors : Transport(a) \/ DeadlinePasses(a)
    BY <2>5 DEF Transport, HostHandles, HostAnswers, RequestFails, DeadlinePasses
  <2>6. CASE \E r \in late : HostHandlesLate(r) \/ LateIsLost(r)
    BY <2>6 DEF HostHandlesLate, LateIsLost
  <2>7. CASE \E j \in Jobs : HostWorks(j) \/ HostForgets(j)
    BY <2>7 DEF HostWorks, HostForgets
  <2> QED
    BY <2>1, <2>2, <2>3, <2>4, <2>5, <2>6, <2>7 DEF Next
<1> QED
  BY <1>1, PTL DEF Spec, ObserverYields

\* A result is never saved over a cancel that came while its answer was on its way:
\* neither by the pipeline nor by an observer.  Whatever the constants are.
THEOREM CancelAlwaysDiscards == Spec => CancelDiscards
<1> DEFINE Discards == result' # result /\ result' # NoJob =>
                         IF PipelineOwns THEN ~flagged ELSE ~obs.cancel
<1>1. ShapeInv /\ [Next]_vars => [Discards]_vars
  <2> SUFFICES ASSUME ShapeInv, [Next]_vars PROVE Discards
    OBVIOUS
  <2>1. CASE GotJob \/ GotNewJob \/ Uploaded \/ Polled
    BY <2>1, Turning DEF Turns, Replaces, GoesOn, EndsWith, PipelineOwns
  <2>2. CASE Load \/ Throws \/ HasCapabilities \/ UploadFails \/ CancelAccepted \/ CancelObserved
    BY <2>2 DEF Load, Throws, HasCapabilities, UploadFails, CancelAccepted, CancelObserved
  <2>3. CASE ObserverStep
    BY <2>3 DEF ObserverStep, ObserverWakes, ObserverCancels, ObserverReadFails, ObserverReads,
       Accepts, MayContinue, PipelineOwns
  <2>4. CASE StartPipeline \/ Attach \/ Crash \/ UNCHANGED vars
    BY <2>4 DEF StartPipeline, Attach, Crash, vars
  <2>5. CASE User
    BY <2>5 DEF User, Enqueue, Retry, Reprocess, UserCancels, StopProcessor
  <2>6. CASE \E a \in Actors : Transport(a) \/ DeadlinePasses(a)
    BY <2>6 DEF Transport, HostHandles, HostAnswers, RequestFails, DeadlinePasses
  <2>7. CASE \E r \in late : HostHandlesLate(r) \/ LateIsLost(r)
    BY <2>7 DEF HostHandlesLate, LateIsLost
  <2>8. CASE \E j \in Jobs : HostWorks(j) \/ HostForgets(j)
    BY <2>8 DEF HostWorks, HostForgets
  <2> QED
    BY <2>1, <2>2, <2>3, <2>4, <2>5, <2>6, <2>7, <2>8 DEF Next, PipelineStep
<1> QED
  BY <1>1, ShapeIsKept, PTL DEF Spec, CancelDiscards
=============================================================================
