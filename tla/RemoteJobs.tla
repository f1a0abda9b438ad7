----------------------------- MODULE RemoteJobs -----------------------------
(***************************************************************************)
(* The desktop's side of remote work: one recording, one request (the      *)
(* `lookup` of remote-worker-jobs.ts), against a model host that keeps the *)
(* promises of JobService.                                                 *)
(*                                                                         *)
(* Two activities of the desktop may follow the same host job: the         *)
(* *pipeline* (runRemoteWorkerJob, inside a queue item of transcription.ts)*)
(* and the *observer* (recoverRemoteJobs, attached by the recovery         *)
(* supervisor).  They share the durable identity and result of the request *)
(* and run between each other's awaits.  An action is what the event loop  *)
(* runs between two awaits; a request is handled by the host and answered  *)
(* in steps of their own, so an answer may be stale when it is read, lost, *)
(* or given up on while the host still handles the request later.          *)
(*                                                                         *)
(* The request is fixed, so the checks that compare hashes, models and     *)
(* hosts pass; a failed check is one more way for an answer to be "error". *)
(***************************************************************************)
EXTENDS Naturals, FiniteSets

CONSTANTS
  Jobs, Keys, NoKey,  \* of JobService; Keys are the client's randomUUID values
  NoJob,              \* an identity whose job is not known yet
  Nil,                \* no identity row
  Recovery,           \* whether the recovery supervisor runs
  Crashes,            \* whether the desktop may crash
  MaxLate,            \* bound: requests given up on that may still arrive
  Cancelling             \* whether the user may cancel

ASSUME NamesAssumption == NoJob \notin Jobs /\ NoKey \notin Keys
ASSUME LateAssumption == MaxLate \in Nat
ASSUME FlagsAssumption == {Recovery, Crashes, Cancelling} \subseteq BOOLEAN

VARIABLES
  st, jobKey,   \* the host, as JobService shows it
  ident,        \* durable: remote_job_checkpoints.identity_json
  result,       \* durable: the job whose result is in remote_job_results
  queued,       \* durable: a pending queue item for the recording
  flagged,      \* the recording is in cancelledRecordings
  pipe,         \* where the pipeline is suspended
  mine,         \* its own copy of the identity
  seen,         \* the last job status it read
  obs,          \* the observer: where it is, what it knows
  req,          \* the outstanding request of each activity
  overdue,      \* activities whose deadline has passed
  late          \* requests given up on that the host may still handle

Host == INSTANCE JobService

hostVars == <<st, jobKey>>
pipeVars == <<queued, flagged, pipe, mine, seen>>
vars == <<hostVars, ident, result, pipeVars, obs, req, overdue, late>>

Actors == {"pipeline", "observer"}
Ended  == {"completed", "failed", "cancelled", "interrupted"}

Identities == [key : Keys, id : Jobs \cup {NoJob}, restart : BOOLEAN,
               observed : Host!Statuses \cup {"none"}]
ASSUME NilAssumption == Nil \notin Identities

NewIdentityUnset(k) == [key |-> k, id |-> Nil, restart |-> FALSE, observed |-> "none"]
NewIdentity(k) == [key |-> k, id |-> NoJob, restart |-> FALSE, observed |-> "none"]

Ops == {"capabilities", "get", "post", "put", "cancel"}
NoRequest == [op |-> "none", arg |-> Nil, answer |-> "none", job |-> NoJob]
Ask(op, arg) == [op |-> op, arg |-> arg, answer |-> "none", job |-> NoJob]

PipePoints == {"idle", "hash", "capabilities", "get", "post", "put", "observe", "poll",
               "cancel", "confirm"}
ObsPoints  == {"none", "get", "cancel", "sleep"}
NoObserver == [at |-> "none", saved |-> Nil, cancel |-> FALSE, stop |-> FALSE,
               registered |-> FALSE]

Init ==
  /\ Host!ServiceInit
  /\ ident = Nil
  /\ result = NoJob
  /\ queued = FALSE
  /\ flagged = FALSE
  /\ pipe = "idle"
  /\ mine = Nil
  /\ seen = "none"
  /\ obs = NoObserver
  /\ req = [a \in Actors |-> NoRequest]
  /\ overdue = {}
  /\ late = {}

-----------------------------------------------------------------------------
(* The network and the host                                                *)

Answered(a) == req[a].op # "none" /\ req[a].answer # "none"
Answer(a)   == req[a].answer

Reply(a, j, s) == req' = [req EXCEPT ![a].answer = s, ![a].job = j]
Send(a, op, arg) == req' = [req EXCEPT ![a] = Ask(op, arg)]
Quiet(a) == req' = [req EXCEPT ![a] = NoRequest]

Known(j) == st[j] \notin {"unknown", "gone"}

\* What the host does with a request that changes it; s is the status it answers.
Handles(op, arg, j, s) ==
  \/ /\ op = "post"
     /\ \/ Known(j) /\ jobKey[j] = arg /\ s = st[j] /\ UNCHANGED hostVars
        \/ /\ \A i \in Jobs : Known(i) => jobKey[i] # arg
           /\ Host!Accept(j, arg)
           /\ s = "awaiting-upload"
  \/ /\ op = "put" /\ j = arg /\ s = "none"
     /\ Host!StartUpload(j)
  \/ /\ op = "cancel" /\ j = arg /\ Known(j)
     /\ IF st[j] = "awaiting-upload" THEN Host!CancelWaiting(j) ELSE UNCHANGED hostVars
     /\ s = st'[j]

HostHandles(a) ==
  /\ req[a].op # "none" /\ req[a].answer = "none"
  /\ \E j \in Jobs, s \in Host!Statuses \cup {"none"} :
       Handles(req[a].op, req[a].arg, j, s) /\ Reply(a, j, s)
  /\ UNCHANGED <<ident, result, pipeVars, obs, overdue, late>>

HostHandlesLate(r) ==
  /\ r \in late
  /\ \E j \in Jobs, s \in Host!Statuses \cup {"none"} : Handles(r.op, r.arg, j, s)
  /\ late' = late \ {r}
  /\ UNCHANGED <<ident, result, pipeVars, obs, req, overdue>>

\* GET, and the answer to PUT once the whole body has been accepted.
HostAnswers(a) ==
  /\ req[a].answer = "none"
  /\ \/ req[a].op = "capabilities" /\ Reply(a, NoJob, "ok")
     \/ req[a].op = "get" /\ Known(req[a].arg) /\ Reply(a, req[a].arg, st[req[a].arg])
     \/ req[a].op = "get" /\ ~Known(req[a].arg) /\ Reply(a, NoJob, "error")  \* 404
     \/ req[a].op = "put" /\ st[req[a].arg] = "running" /\ Reply(a, req[a].arg, "running")
  /\ UNCHANGED <<hostVars, ident, result, pipeVars, obs, overdue, late>>

\* The bound: when MaxLate requests are on their way, later ones are lost for good.
Linger(rs) ==
  late' = IF Cardinality(late \cup rs) <= MaxLate THEN late \cup rs ELSE late
Mutating(as) == {[op |-> req[a].op, arg |-> req[a].arg] :
                   a \in {x \in as : req[x].op \in {"post", "put", "cancel"} /\ ~Answered(x)}}

\* Timeout, refused or broken connection, HTTP error, or an answer that fails
\* verification.  A request that changes the host may still reach it later.
RequestFails(a) ==
  /\ req[a].op # "none" /\ req[a].answer = "none"
  /\ Reply(a, NoJob, "error")
  /\ Linger(Mutating({a}))
  /\ UNCHANGED <<hostVars, ident, result, pipeVars, obs, overdue>>

LateIsLost(r) ==
  /\ r \in late
  /\ late' = late \ {r}
  /\ UNCHANGED <<hostVars, ident, result, pipeVars, obs, req, overdue>>

\* What the host does on its own, restarts included, one job at a time.
HostWorks(j) ==
  /\ \/ Host!StartRun(j)
     \/ Host!Complete(j)
     \/ \E s \in {"failed", "cancelled"} : Host!Fail(j, s) \/ Host!Withdraw(j, s)
     \/ Host!KeepInput(j)
     \/ Host!RetryDelete(j)
     \/ Known(j) /\ \E s \in Host!AfterRestart(st[j]) : s # st[j] /\ Host!To(j, s)
  /\ UNCHANGED <<ident, result, pipeVars, obs, req, overdue, late>>

\* Retention takes a day: nothing about the job is then in flight, and its file is
\* gone with it (the host's own window between the two is WorkerJobs' subject).
HostForgets(j) ==
  /\ pipe = "idle" /\ obs.at = "none" /\ late = {}
  /\ Host!Forget(j)
  /\ UNCHANGED <<ident, result, pipeVars, obs, req, overdue, late>>

-----------------------------------------------------------------------------
(* The pipeline: runRemoteWorkerJob()                                      *)

\* Keys that no identity, job or request has used.
Spare == {k \in Keys :
  /\ ident # Nil => ident.key # k
  /\ obs.saved # Nil => obs.saved.key # k
  /\ \A j \in Jobs : jobKey[j] # k
  /\ [op |-> "post", arg |-> k] \notin late}

\* The states an explicit restart may replace.
ReplaceableUnlessDone(s) == s # "completed"
Replaceable(s) == s \in {"failed", "cancelled", "interrupted"}

\* runQueueItem(): the recording is owned before the first await.  A run that may
\* need a key starts only if one is left (bound of the model).
StartPipeline ==
  /\ pipe = "idle" /\ queued
  /\ (ident = Nil \/ ident.restart) => Spare # {}
  /\ queued' = FALSE
  /\ pipe' = "hash"
  /\ UNCHANGED <<hostVars, ident, result, flagged, mine, seen, obs, req, overdue, late>>

To(p, op, arg) == pipe' = p /\ Send("pipeline", op, arg)

\* The queue item ends, whatever the outcome: ownership and the cancel flag go.
ForgetCancel == flagged' = FALSE
Finish ==
  /\ pipe' = "idle" /\ mine' = Nil /\ seen' = "none"
  /\ overdue' = overdue \ {"pipeline"}
  /\ Quiet("pipeline")
  /\ ForgetCancel

\* The file is hashed; then the identity is loaded, or a new one saved, unless a
\* result is already there.
Load ==
  /\ pipe = "hash"
  /\ IF flagged \/ result # NoJob
       THEN Finish /\ UNCHANGED ident
       ELSE /\ mine' \in IF ident # Nil THEN {ident} ELSE {NewIdentity(k) : k \in Spare}
            /\ ident' = mine'
            /\ To("capabilities", "capabilities", Nil)
            /\ UNCHANGED <<flagged, seen, overdue>>
  /\ UNCHANGED <<hostVars, result, queued, obs, late>>

Reads(p) == pipe = p /\ Answered("pipeline") /\ Answer("pipeline") # "error"

\* An error that ends the run; the identity is retained for a later resume.
Throws ==
  /\ pipe \in {"capabilities", "get", "post", "observe", "cancel", "confirm"}
  /\ Answered("pipeline") /\ Answer("pipeline") = "error"
  /\ Finish
  /\ UNCHANGED <<hostVars, ident, result, queued, obs, late>>

HasCapabilities ==
  /\ Reads("capabilities")
  /\ IF mine.id # NoJob THEN To("get", "get", mine.id) ELSE To("post", "post", mine.key)
  /\ UNCHANGED <<hostVars, ident, result, queued, flagged, mine, seen, obs, overdue, late>>

\* Checked before anything is read from the job.
CancelsFirst == flagged
OutOfTimeNever == FALSE
OutOfTime == "pipeline" \in overdue

\* One turn of the loop: i is the identity in hand, row what the table holds, s
\* the status last read.
Turn(i, row, s) ==
  \/ /\ CancelsFirst
     /\ To("cancel", "cancel", i.id)
     /\ overdue' = overdue \ {"pipeline"}   \* cancelDeadline starts
     /\ mine' = i /\ ident' = row /\ seen' = s
     /\ UNCHANGED <<result, flagged>>
  \/ /\ ~CancelsFirst /\ s = "completed"
     /\ result' = i.id
     /\ ident' = [i EXCEPT !.observed = "completed"]
     /\ Finish
  \/ /\ ~CancelsFirst /\ s # "completed"
     /\ s \notin Host!Running \/ OutOfTime
     /\ Finish
     /\ ident' = row
     /\ UNCHANGED result
  \/ /\ ~CancelsFirst /\ s \in Host!Running /\ ~OutOfTime
     /\ To("poll", "get", i.id)
     /\ mine' = i /\ ident' = row /\ seen' = s
     /\ UNCHANGED <<result, flagged, overdue>>

\* The first sight of the job may upload; no later one does.
FirstTurn(i, row, s) ==
  IF s = "awaiting-upload" /\ ~flagged
    THEN /\ To("put", "put", i.id)
         /\ mine' = i /\ ident' = row /\ seen' = s
         /\ UNCHANGED <<result, flagged, overdue>>
    ELSE Turn(i, row, s)

\* GET of the known job.  Only an explicit restart of a job the host confirms
\* ended replaces it, under a new key that is saved first.
GotJob ==
  /\ Reads("get")
  /\ LET s == Answer("pipeline") IN
     IF mine.restart /\ Replaceable(s)
       THEN /\ \E k \in Spare : mine' = NewIdentity(k)
            /\ ident' = mine'
            /\ To("post", "post", mine'.key)
            /\ UNCHANGED <<result, seen, flagged, overdue>>
       ELSE LET i == [mine EXCEPT !.restart = FALSE] IN
            FirstTurn(i, IF mine.restart THEN i ELSE ident, s)
  /\ UNCHANGED <<hostVars, queued, obs, late>>

\* POST answered: the job is remembered before anything is done with it.
GotNewJob ==
  /\ Reads("post")
  /\ LET i == [mine EXCEPT !.id = req["pipeline"].job] IN
     FirstTurn(i, i, Answer("pipeline"))
  /\ UNCHANGED <<hostVars, queued, obs, late>>

Uploaded ==
  /\ Reads("put")
  /\ Turn(mine, ident, Answer("pipeline"))
  /\ UNCHANGED <<hostVars, queued, obs, late>>

\* The PUT may have committed even if its answer was lost: observe, never upload
\* again blindly.
UploadFails ==
  /\ pipe = "put" /\ Answer("pipeline") = "error"
  /\ \/ /\ flagged
        /\ To("cancel", "cancel", mine.id)
        /\ overdue' = overdue \ {"pipeline"}
        /\ UNCHANGED <<mine, seen, flagged>>
     \/ ~flagged /\ OutOfTime /\ Finish
     \/ /\ ~flagged /\ ~OutOfTime
        /\ To("observe", "get", mine.id)
        /\ UNCHANGED <<mine, seen, flagged, overdue>>
  /\ UNCHANGED <<hostVars, ident, result, queued, obs, late>>

\* A failed poll keeps the last status: only this job is reconnected to.
Polled ==
  /\ pipe \in {"observe", "poll"} /\ Answered("pipeline")
  /\ pipe = "observe" => Answer("pipeline") # "error"
  /\ Turn(mine, ident, IF Answer("pipeline") = "error" THEN seen ELSE Answer("pipeline"))
  /\ UNCHANGED <<hostVars, queued, obs, late>>

CancelAccepted ==
  /\ Reads("cancel")
  /\ To("confirm", "get", mine.id)
  /\ UNCHANGED <<hostVars, ident, result, queued, flagged, mine, seen, obs, overdue, late>>

\* Polled until the host reports an end or ten seconds have passed.
CancelObserved ==
  /\ Reads("confirm")
  /\ IF Answer("pipeline") \in Ended \/ OutOfTime
       THEN Finish
       ELSE /\ To("confirm", "get", mine.id)
            /\ UNCHANGED <<flagged, mine, seen, overdue>>
  /\ UNCHANGED <<hostVars, ident, result, queued, obs, late>>

-----------------------------------------------------------------------------
(* The observer: recoverRemoteJobs()                                       *)

PipelineOwns == pipe # "idle"

\* assertRecoveryOwnership(), with an explicit cancel allowed.
MayContinueUnowned == ~obs.stop
MayContinue == ~PipelineOwns /\ ~obs.stop

Detach ==
  /\ obs' = NoObserver
  /\ overdue' = overdue \ {"observer"}
  /\ Quiet("observer")

Observe(p, op) ==
  /\ obs' = [obs EXCEPT !.at = p]
  /\ Send("observer", op, obs.saved.id)
  /\ UNCHANGED overdue

Sleep(o) ==
  /\ obs' = [o EXCEPT !.at = "sleep"]
  /\ Quiet("observer")
  /\ UNCHANGED overdue

\* A scan attaches to an identity the host has a job for and nobody owns.
Attach ==
  /\ Recovery
  /\ obs.at = "none"
  /\ ident # Nil /\ ident.id # NoJob /\ ident.observed \notin Ended
  /\ ~PipelineOwns
  /\ obs' = [NoObserver EXCEPT !.at = "get", !.saved = ident]
  /\ Send("observer", "get", ident.id)
  /\ UNCHANGED <<hostVars, ident, result, pipeVars, overdue, late>>

ObserverWakes ==
  /\ obs.at = "sleep"
  /\ IF ~MayContinue \/ "observer" \in overdue THEN Detach
     ELSE IF obs.cancel THEN Observe("cancel", "cancel")
     ELSE Observe("get", "get")
  /\ UNCHANGED <<hostVars, ident, result, pipeVars, late>>

ObserverCancels ==
  /\ obs.at = "cancel" /\ Answered("observer")
  /\ IF Answer("observer") = "error" \/ ~MayContinue THEN Detach
     ELSE Observe("get", "get")
  /\ UNCHANGED <<hostVars, ident, result, pipeVars, late>>

\* A broken connection is tried again a few times (how often is left open), an HTTP
\* error ends the observer; a cancel that is outstanding is always tried again.
ObserverReadFails ==
  /\ obs.at = "get" /\ Answered("observer") /\ Answer("observer") = "error"
  /\ \/ ~MayContinue /\ Detach
     \/ MayContinue /\ obs.cancel /\ Sleep(obs)
     \/ MayContinue /\ ~obs.cancel /\ Detach
     \/ MayContinue /\ ~obs.cancel /\ Sleep([obs EXCEPT !.registered = FALSE])
  /\ UNCHANGED <<hostVars, ident, result, pipeVars, late>>

\* What the observer concludes from a status it may act on.
AcceptsLate(s) == s = "completed" \/ ~obs.cancel
Accepts(s) == ~obs.cancel

ObserverReads ==
  /\ obs.at = "get" /\ Answered("observer") /\ Answer("observer") # "error"
  /\ LET s == Answer("observer") IN
     \/ /\ ~MayContinue \/ (~Accepts(s) /\ s = "cancelled")
        /\ Detach
        /\ UNCHANGED <<ident, result, queued>>
     \/ /\ MayContinue /\ ~Accepts(s) /\ s # "cancelled"
        /\ Sleep(obs)
        /\ UNCHANGED <<ident, result, queued>>
     \/ /\ MayContinue /\ Accepts(s) /\ s = "completed"
        /\ result' = obs.saved.id
        /\ ident' = [obs.saved EXCEPT !.observed = "completed"]
        /\ queued' = TRUE                    \* onComplete: the pipeline is resumed
        /\ Detach
     \/ /\ MayContinue /\ Accepts(s) /\ s \notin {"completed", "running"}
        /\ ident' = [obs.saved EXCEPT !.observed = s]
        /\ Detach
        /\ UNCHANGED <<result, queued>>
     \/ /\ MayContinue /\ Accepts(s) /\ s = "running"
        /\ Sleep([obs EXCEPT !.registered = TRUE])
        /\ UNCHANGED <<ident, result, queued>>
  /\ UNCHANGED <<hostVars, flagged, pipe, mine, seen, late>>

-----------------------------------------------------------------------------
(* The user, time and crashes                                              *)

Enqueue ==
  /\ queued' = TRUE
  /\ UNCHANGED <<hostVars, ident, result, flagged, pipe, mine, seen, obs, req, overdue, late>>

\* transcription:retry, refused while a run of the recording is owned.
Retry ==
  /\ ~PipelineOwns /\ ~obs.registered
  /\ queued' = TRUE
  /\ ident' = IF ident # Nil THEN [ident EXCEPT !.restart = TRUE] ELSE Nil
  /\ UNCHANGED <<hostVars, result, flagged, pipe, mine, seen, obs, req, overdue, late>>

\* recordings:reprocessWith: only proven completed remote work is discarded.
Reprocess ==
  /\ ~PipelineOwns /\ ~obs.registered
  /\ queued' = TRUE
  /\ IF ident # Nil /\ ident.observed = "completed"
       THEN ident' = Nil /\ result' = NoJob
       ELSE UNCHANGED <<ident, result>>
  /\ UNCHANGED <<hostVars, flagged, pipe, mine, seen, obs, req, overdue, late>>

\* cancelTranscription(): the observer, the recording if anyone owns it, the queue.
UserCancels ==
  /\ Cancelling
  /\ obs' = IF obs.at # "none" THEN [obs EXCEPT !.cancel = TRUE] ELSE obs
  /\ flagged' = (flagged \/ PipelineOwns \/ obs.registered)
  /\ queued' = FALSE
  /\ UNCHANGED <<hostVars, ident, result, pipe, mine, seen, req, overdue, late>>

\* stopTranscriptionProcessor(); a later start only lets scans attach again.
StopProcessor ==
  /\ obs.at # "none"
  /\ obs' = [obs EXCEPT !.stop = TRUE]
  /\ UNCHANGED <<hostVars, ident, result, pipeVars, req, overdue, late>>

DeadlinePasses(a) ==
  /\ IF a = "pipeline" THEN PipelineOwns ELSE obs.at # "none"
  /\ overdue' = overdue \cup {a}
  /\ UNCHANGED <<hostVars, ident, result, pipeVars, obs, req, late>>

\* Pending queue items survive; the request in flight may still be handled.
Crash ==
  /\ Crashes
  /\ pipe' = "idle" /\ mine' = Nil /\ seen' = "none" /\ flagged' = FALSE
  /\ obs' = NoObserver
  /\ Linger(Mutating(Actors))
  /\ req' = [a \in Actors |-> NoRequest]
  /\ overdue' = {}
  /\ UNCHANGED <<hostVars, ident, result, queued>>

-----------------------------------------------------------------------------

PipelineStep ==
  \/ Load \/ Throws \/ HasCapabilities \/ GotJob \/ GotNewJob \/ Uploaded \/ UploadFails
  \/ Polled \/ CancelAccepted \/ CancelObserved

ObserverStep == ObserverWakes \/ ObserverCancels \/ ObserverReadFails \/ ObserverReads

User == Enqueue \/ Retry \/ Reprocess \/ UserCancels \/ StopProcessor

Transport(a) == HostHandles(a) \/ HostAnswers(a) \/ RequestFails(a)

Next ==
  \/ StartPipeline \/ PipelineStep
  \/ Attach \/ ObserverStep
  \/ \E a \in Actors : Transport(a) \/ DeadlinePasses(a)
  \/ \E r \in late : HostHandlesLate(r) \/ LateIsLost(r)
  \/ \E j \in Jobs : HostWorks(j) \/ HostForgets(j)
  \/ User
  \/ Crash

Spec == Init /\ [][Next]_vars

\* Every request is answered or times out, timers fire, and the event loop runs
\* what is ready.
Fairness ==
  /\ WF_vars(PipelineStep) /\ WF_vars(ObserverStep)
  /\ \A a \in Actors : WF_vars(Transport(a)) /\ WF_vars(DeadlinePasses(a) /\ a \notin overdue)

FairSpec == Spec /\ Fairness

\* A user who keeps retrying, over a network that keeps working.
PatientSpec ==
  /\ FairSpec
  /\ WF_vars(Retry) /\ WF_vars(StartPipeline)
  /\ \A a \in Actors : SF_vars(HostAnswers(a)) /\ SF_vars(HostHandles(a))

-----------------------------------------------------------------------------
(* Properties                                                              *)

\* The shape of the state.
TypeOK ==
  /\ st \in [Jobs -> Host!Statuses] /\ jobKey \in [Jobs -> Keys \cup {NoKey}]
  /\ ident \in Identities \cup {Nil} /\ result \in Jobs \cup {NoJob}
  /\ queued \in BOOLEAN /\ flagged \in BOOLEAN
  /\ pipe \in PipePoints /\ mine \in Identities \cup {Nil}
  /\ seen \in Host!Statuses \cup {"none"}
  /\ obs \in [at : ObsPoints, saved : Identities \cup {Nil}, cancel : BOOLEAN,
              stop : BOOLEAN, registered : BOOLEAN]
  /\ req \in [Actors -> [op : Ops \cup {"none"}, arg : Keys \cup Jobs \cup {Nil, NoJob},
                         answer : Host!Statuses \cup {"none", "ok", "error"},
                         job : Jobs \cup {NoJob}]]
  /\ overdue \subseteq Actors
  /\ late \subseteq [op : {"post", "put", "cancel"}, arg : Keys \cup Jobs]

\* No orphan: a job the host still has to do is one the desktop can find again,
\* through the key it saved, whatever answers were lost and wherever it crashed.
JobsOwned ==
  \A j \in Jobs : st[j] \in Host!Live => ident # Nil /\ ident.key = jobKey[j]

\* Durable intent precedes every network mutation: a POST on its way carries the
\* saved key, or one the host has already turned into a job.
Posted == {r.arg : r \in {x \in late \cup {req[a] : a \in Actors} : x.op = "post"}}
IntentFirst ==
  \A k \in Posted : (ident # Nil /\ ident.key = k) \/ \E j \in Jobs : jobKey[j] = k

\* The saved result is that of the saved identity.
ResultOfIdentity == result # NoJob => ident # Nil /\ ident.id = result

\* A key is only ever given up for another when its job has ended at the host.
RestartConfirmed ==
  [][ident # Nil /\ ident' # Nil /\ ident'.key # ident.key
       => \A j \in Jobs : jobKey[j] = ident.key => st[j] \notin Host!Live]_vars

\* A cancel that came while the answer was on its way discards the result.
CancelDiscards ==
  [][result' # result /\ result' # NoJob =>
       IF PipelineOwns THEN ~flagged ELSE ~obs.cancel]_vars

\* An observer never writes under a pipeline that owns the recording.
ObserverYields ==
  [][PipelineOwns /\ (ident' # ident \/ result' # result) => obs' = obs]_vars

\* A cancel is for the jobs that are running: it never blocks a later request.
CancelNeverBlocksLater == [][pipe = "idle" /\ PipelineOwns' => ~flagged]_vars

\* A queue item ends, whatever the host and the network do.
PipelineEnds == PipelineOwns ~> ~PipelineOwns

\* A rerun asked for a job the host no longer knows, whose result never arrived,
\* replaces it.
Expired == ident # Nil /\ ident.id # NoJob /\ st[ident.id] = "gone" /\ result = NoJob
ExpiredIsRerun == (Expired /\ ident.restart) ~> ~Expired

-----------------------------------------------------------------------------
(* The inductive strengthening the theorems of RemoteJobsProofs rest on    *)

\* A pipeline past its load has an identity, and asks the host about that one.
PipeInv ==
  /\ pipe \in {"idle", "hash"} => mine = Nil /\ req["pipeline"] = NoRequest
  /\ pipe \notin {"idle", "hash"} => mine \in Identities
  /\ pipe \in {"capabilities", "post", "put", "cancel"} => req["pipeline"].op = pipe
  /\ pipe \in {"get", "observe", "poll", "confirm"} => req["pipeline"].op = "get"
  /\ pipe = "post" => req["pipeline"].arg = mine.key
  /\ pipe \in {"get", "put", "observe", "poll", "cancel", "confirm"} =>
       mine.id \in Jobs /\ req["pipeline"].arg = mine.id

\* So does an observer that is attached.
ObsInv ==
  /\ obs.at \in {"none", "sleep"} => req["observer"] = NoRequest
  /\ obs.at \in {"get", "cancel"} =>
       req["observer"].op = obs.at /\ req["observer"].arg = obs.saved.id
  /\ obs.at # "none" => obs.saved \in Identities /\ obs.saved.id \in Jobs

\* Only capabilities are answered "ok"; an answered POST names its job.
AnswerInv ==
  \A a \in Actors :
    /\ req[a].op = "none" => req[a].answer = "none"
    /\ req[a].op = "capabilities" => req[a].answer \in {"none", "ok", "error"}
    /\ req[a].op \notin {"none", "capabilities"} => req[a].answer # "ok"
    /\ req[a].op = "post" /\ req[a].answer \notin {"none", "error"} => req[a].job \in Jobs

\* A POST given up on carries a key.
LateInv == \A r \in late : r.op = "post" => r.arg \in Keys

ShapeInv == TypeOK /\ PipeInv /\ ObsInv /\ AnswerInv /\ LateInv

\* Without a supervisor no observer exists.
NoObserverInv == obs = NoObserver /\ req["observer"] = NoRequest

\* The pipeline's copy of the identity is the saved one, and no result is saved yet.
MineInv == pipe \notin {"idle", "hash"} => mine = ident /\ result = NoJob

\* The host never has two jobs of one key.
DistinctInv ==
  \A i, j \in Jobs : Known(i) /\ Known(j) /\ jobKey[i] = jobKey[j] => i = j

\* The job of the saved identity is the only one the host has for its key.
IdentInv ==
  ident # Nil /\ ident.id # NoJob =>
    /\ jobKey[ident.id] = ident.key /\ st[ident.id] # "unknown"
    /\ \A j \in Jobs : Known(j) /\ jobKey[j] = ident.key => j = ident.id

\* A POST on its way carries the saved key, not yet turned into a job, or one the
\* host has a job for.
PostInv ==
  \A k \in Posted :
    \/ ident # Nil /\ ident.key = k /\ ident.id = NoJob
    \/ \E j \in Jobs : Known(j) /\ jobKey[j] = k

\* What an answer that is being waited for says of its job.
HeardInv ==
  LET r == req["pipeline"] IN
  r.op \in {"get", "post", "put", "cancel"} /\ r.answer \notin {"none", "error"} =>
    /\ r.job \in Jobs /\ Known(r.job)
    /\ IF r.op = "post" THEN jobKey[r.job] = r.arg ELSE r.job = r.arg
    /\ r.answer \notin Host!Live => st[r.job] \notin Host!Live

\* A poll falls back on a status that keeps it polling.
PollInv == pipe = "poll" => seen \in Host!Running

\* An identity observed as completed has its job, which has ended.
CompletedInv ==
  ident # Nil /\ ident.observed = "completed" =>
    ident.id \in Jobs /\ st[ident.id] \notin Host!Live

OwnerInv ==
  /\ ShapeInv
  /\ NoObserverInv
  /\ MineInv
  /\ DistinctInv
  /\ IdentInv
  /\ PostInv
  /\ HeardInv
  /\ PollInv
  /\ CompletedInv
  /\ JobsOwned
  /\ ResultOfIdentity
=============================================================================
