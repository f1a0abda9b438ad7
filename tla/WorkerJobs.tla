----------------------------- MODULE WorkerJobs -----------------------------
(***************************************************************************)
(* The durable job service of the model host (apps/model-host/src/jobs.mjs *)
(* with the lane of state.mjs).  A desktop creates a job under an          *)
(* idempotency key, uploads its audio, and polls it; the host runs at most *)
(* one heavy job at a time and survives crashes through one JSON file per  *)
(* job.                                                                    *)
(*                                                                         *)
(* A job's upload, run and cleanup are one asynchronous activity: pc[j]    *)
(* names the `await` it is suspended at.  One action is what the event     *)
(* loop runs between two suspension points.  Job files are written by a    *)
(* FIFO chain (persist); completing the head write also runs the           *)
(* continuation that awaited it, as the event loop does.                   *)
(*                                                                         *)
(* `Keys` are the (owner, idempotency key) pairs.  Time appears only in    *)
(* ExpireStart, which may fire on any job its TTL could have passed.       *)
(***************************************************************************)
EXTENDS Naturals, Sequences, FiniteSets

CONSTANTS
  Jobs,         \* job identities (randomUUID)
  Keys,         \* (owner, idempotency key) pairs
  NoKey,        \* key of an identity that was never issued
  Capacity,     \* jobs kept in memory before create answers 429 (1000 in the code)
  DeleteMayFail \* whether unlinking an expired job file may fail

ASSUME JobsAssumption == "free" \notin Jobs /\ "other" \notin Jobs
ASSUME KeysAssumption == NoKey \notin Keys
ASSUME CapacityAssumption == Capacity \in Nat \ {0}
ASSUME DeleteAssumption == DeleteMayFail \in BOOLEAN

VARIABLES
  up,        \* the host process is running and initialize() has finished
  host,      \* HostState.state
  lane,      \* HostState.activeJob: "free", a job, or "other" work
  mem,       \* this.jobs: the jobs the host answers for
  key,       \* key[j] of an issued identity, NoKey before
  status,    \* job.status in memory
  aborted,   \* jobs whose AbortController has fired
  pc,        \* where the activity of each job is suspended
  audio,     \* jobs whose <id>.audio file exists
  disk,      \* status in <id>.json, "none" when there is no file
  writes,    \* this.writes: pending file writes, oldest first
  removing,  \* expired jobs whose file is being unlinked
  asking,    \* jobs an idempotent create() found and has yet to answer
  known,     \* identities some client has been given
  runs       \* history: executions started per job, at most 2 counted

jobVars  == <<mem, key, status>>
fileVars == <<audio, disk, writes, removing>>
vars == <<up, host, lane, mem, key, status, aborted, pc, audio, disk, writes,
          removing, asking, known, runs>>

Live     == {"awaiting-upload", "uploading", "running"}
Terminal == {"completed", "failed", "cancelled", "interrupted"}
Statuses == Live \cup Terminal \cup {"cleanup-failed"}

\* Suspension points of upload(), run() and cleanup().
Points == {"idle", "saveUploading", "streaming", "saveRunning", "executing",
           "deleting", "saveCompleted", "dropInput", "saveEnded", "cleanup",
           "saveCleanupFailed"}
\* Points at which the activity awaits its own update().
Saving == {"saveUploading", "saveRunning", "saveCompleted", "saveEnded",
           "saveCleanupFailed"}

Waiters == {"create", "activity", "none"}
Writes  == [job : Jobs, st : Statuses, waiter : Waiters]

Init ==
  /\ up = TRUE
  /\ host = "stopped"
  /\ lane = "free"
  /\ mem = {}
  /\ key = [j \in Jobs |-> NoKey]
  /\ status = [j \in Jobs |-> "awaiting-upload"]
  /\ aborted = {}
  /\ pc = [j \in Jobs |-> "idle"]
  /\ audio = {}
  /\ disk = [j \in Jobs |-> "none"]
  /\ writes = <<>>
  /\ removing = {}
  /\ asking = {}
  /\ known = {}
  /\ runs = [j \in Jobs |-> 0]

-----------------------------------------------------------------------------
(* Helpers                                                                 *)

\* persist(): the content is serialised at the call, the write is chained.
Write(j, s, w) == [job |-> j, st |-> s, waiter |-> w]
PersistUnchained(j, s, w) == writes' = <<Write(j, s, w)>> \o writes
Persist(j, s, w) == writes' = Append(writes, Write(j, s, w))

\* update(): change the job in memory, then persist it.
Update(j, s, w) ==
  /\ status' = [status EXCEPT ![j] = s]
  /\ Persist(j, s, w)

Goto(j, p) == pc' = [pc EXCEPT ![j] = p]

PendingWrite(j) == \E i \in DOMAIN writes : writes[i].job = j

\* this.creating: the first write of j has not settled.
CreatingUntracked(j) == FALSE
Creating(j) == \E i \in DOMAIN writes : writes[i].job = j /\ writes[i].waiter = "create"

\* The lookup of create(): a job counts from the turn that made it.
KeyAnswered(k) == \E i \in mem \cap known : key[i] = k
KeyInUse(k) == \E i \in mem : key[i] = k

CanAdmitAnyLane == host = "ready"
CanAdmit == host = "ready" /\ lane = "free"

\* Only a job that has received nothing accepts a body ...
AcceptsInterrupted(j) == status[j] \in {"awaiting-upload", "interrupted"}
AcceptsInput(j) == status[j] = "awaiting-upload"

\* ... and only such a job is cancelled in the turn of cancel().
CancelsAtOnce(j) == status[j] = "awaiting-upload"

\* The finally of cleanup(): forget the controller, free the lane if it is ours.
ReleaseUnlessAborted(j) ==
  /\ Goto(j, "idle")
  /\ lane' = IF lane = j /\ j \notin aborted THEN "free" ELSE lane
Release(j) ==
  /\ Goto(j, "idle")
  /\ lane' = IF lane = j THEN "free" ELSE lane

\* The status a failed or aborted activity ends in.
EndStatus(j) == IF j \in aborted THEN "cancelled" ELSE "failed"

-----------------------------------------------------------------------------
(* create()                                                                *)

CreateNew(j, k) ==
  /\ up
  /\ key[j] = NoKey
  /\ ~KeyInUse(k)
  /\ Cardinality(mem) < Capacity
  /\ mem' = mem \cup {j}
  /\ key' = [key EXCEPT ![j] = k]
  /\ Update(j, "awaiting-upload", "create")
  /\ UNCHANGED <<up, host, lane, aborted, pc, audio, disk, removing, asking, known, runs>>

\* A second create() with the same key finds the job and awaits its creation.
CreateAgain(j) ==
  /\ up
  /\ j \in mem
  /\ asking' = asking \cup {j}
  /\ UNCHANGED <<up, host, lane, jobVars, aborted, pc, fileVars, known, runs>>

\* It answers once the creation has settled: with the job, or with its error.
AnswerAgain(j) ==
  /\ up
  /\ j \in asking
  /\ ~Creating(j)
  /\ asking' = asking \ {j}
  /\ known' = IF j \in mem THEN known \cup {j} ELSE known
  /\ UNCHANGED <<up, host, lane, jobVars, aborted, pc, fileVars, runs>>

-----------------------------------------------------------------------------
(* upload()                                                                *)

\* Everything up to the first await happens in one turn: the lane is reserved
\* before anything asynchronous.
Upload(j) ==
  /\ up
  /\ j \in mem \cap known
  /\ AcceptsInput(j)
  /\ CanAdmit
  /\ lane' = j
  /\ aborted' = aborted \ {j}
  /\ Update(j, "uploading", "activity")
  /\ Goto(j, "saveUploading")
  /\ UNCHANGED <<up, host, mem, key, audio, disk, removing, asking, known, runs>>

\* The body arrived whole, with the declared size and hash.
StreamDone(j) ==
  /\ up
  /\ pc[j] = "streaming"
  /\ j \notin aborted
  /\ Update(j, "running", "activity")
  /\ Goto(j, "saveRunning")
  /\ UNCHANGED <<up, host, lane, mem, key, aborted, audio, disk, removing, asking, known, runs>>

\* Aborted, disconnected, too long, or a hash mismatch.
StreamFails(j) ==
  /\ up
  /\ pc[j] = "streaming"
  /\ Goto(j, "dropInput")
  /\ UNCHANGED <<up, host, lane, jobVars, aborted, fileVars, asking, known, runs>>

-----------------------------------------------------------------------------
(* run()                                                                   *)

\* execute() resolved.  The first abort check decides where run() goes.
ExecReturns(j) ==
  /\ up
  /\ pc[j] = "executing"
  /\ Goto(j, IF j \in aborted THEN "dropInput" ELSE "deleting")
  /\ UNCHANGED <<up, host, lane, jobVars, aborted, fileVars, asking, known, runs>>

\* options() threw, or execute() rejected: failure, timeout or abort.
ExecFails(j) ==
  /\ up
  /\ pc[j] = "executing"
  /\ Goto(j, "dropInput")
  /\ UNCHANGED <<up, host, lane, jobVars, aborted, fileVars, asking, known, runs>>

\* run() may publish `completed` only when the unlink succeeded and no abort
\* arrived while it was in flight (the second abort check).
PublishesIfAborted(j, deleted) == deleted
Publishes(j, deleted) == deleted /\ j \notin aborted

Delete(j, deleted) ==
  /\ up
  /\ pc[j] = "deleting"
  /\ deleted \/ j \in audio
  /\ audio' = IF deleted THEN audio \ {j} ELSE audio
  /\ IF Publishes(j, deleted)
       THEN Update(j, "completed", "activity") /\ Goto(j, "saveCompleted")
       ELSE Goto(j, "dropInput") /\ UNCHANGED <<status, writes>>
  /\ UNCHANGED <<up, host, lane, mem, key, aborted, disk, removing, asking, known, runs>>

\* The catch of upload() and run(): delete the input, ignore an error, and only
\* then publish the end status.
DropInput(j, deleted) ==
  /\ up
  /\ pc[j] = "dropInput"
  /\ deleted \/ j \in audio
  /\ audio' = IF deleted THEN audio \ {j} ELSE audio
  /\ Update(j, EndStatus(j), "activity")
  /\ Goto(j, "saveEnded")
  /\ UNCHANGED <<up, host, lane, mem, key, aborted, disk, removing, asking, known, runs>>

-----------------------------------------------------------------------------
(* cleanup()                                                               *)

CleanupDone(j) ==
  /\ up
  /\ pc[j] = "cleanup"
  /\ audio' = audio \ {j}
  /\ Release(j)
  /\ UNCHANGED <<up, host, jobVars, aborted, disk, writes, removing, asking, known, runs>>

CleanupFails(j) ==
  /\ up
  /\ pc[j] = "cleanup"
  /\ j \in audio
  /\ Update(j, "cleanup-failed", "activity")
  /\ Goto(j, "saveCleanupFailed")
  /\ UNCHANGED <<up, host, lane, mem, key, aborted, audio, disk, removing, asking, known, runs>>

-----------------------------------------------------------------------------
(* cancel()                                                                *)

Cancel(j) ==
  /\ up
  /\ j \in mem \cap known
  /\ aborted' = IF pc[j] # "idle" THEN aborted \cup {j} ELSE aborted
  /\ IF CancelsAtOnce(j)
       THEN Update(j, "cancelled", "none")
       ELSE UNCHANGED <<status, writes>>
  /\ UNCHANGED <<up, host, lane, mem, key, pc, audio, disk, removing, asking, known, runs>>

-----------------------------------------------------------------------------
(* The write chain                                                         *)

\* Where an activity goes when the update it awaited settles: on, or into a
\* catch or finally block.
OnSaved(p) ==
  CASE p = "saveUploading" -> "streaming"
    [] p = "saveRunning"   -> "executing"
    [] p \in {"saveCompleted", "saveEnded"} -> "cleanup"
    [] p = "saveCleanupFailed" -> "idle"
OnSaveError(p) ==
  CASE p \in {"saveUploading", "saveRunning", "saveCompleted"} -> "dropInput"
    [] p = "saveEnded" -> "cleanup"
    [] p = "saveCleanupFailed" -> "idle"
AfterSaveNoFinally(p, ok) ==
  IF p = "saveEnded" THEN "idle" ELSE IF ok THEN OnSaved(p) ELSE OnSaveError(p)
AfterSave(p, ok) == IF ok THEN OnSaved(p) ELSE OnSaveError(p)

\* The continuation of the activity of j, whose update just settled.
Resume(j, ok) ==
  LET p == AfterSave(pc[j], ok) IN
  /\ IF p = "idle" THEN Release(j) ELSE Goto(j, p) /\ UNCHANGED lane
  /\ audio' = IF p = "streaming" THEN audio \cup {j} ELSE audio
  /\ runs' = IF p = "executing" THEN [runs EXCEPT ![j] = IF @ = 0 THEN 1 ELSE 2] ELSE runs

\* The head write settles; ok says whether the file was replaced.
WriteSettles(ok) ==
  /\ up
  /\ writes # <<>>
  /\ LET w == Head(writes) IN
     /\ disk' = IF ok THEN [disk EXCEPT ![w.job] = w.st] ELSE disk
     /\ mem' = IF w.waiter = "create" /\ ~ok THEN mem \ {w.job} ELSE mem
     /\ known' = IF w.waiter = "create" /\ ok THEN known \cup {w.job} ELSE known
     /\ IF w.waiter = "activity" /\ pc[w.job] \in Saving
          THEN Resume(w.job, ok)
          ELSE UNCHANGED <<lane, pc, audio, runs>>
  /\ writes' = Tail(writes)
  /\ UNCHANGED <<up, host, key, status, aborted, removing, asking>>

-----------------------------------------------------------------------------
(* expire(), run at boot and every minute                                  *)

\* A kept input is deleted at last.
SweepCleanup(j) ==
  /\ up
  /\ j \in mem
  /\ status[j] = "cleanup-failed"
  /\ audio' = audio \ {j}
  /\ Update(j, "failed", "none")
  /\ UNCHANGED <<up, host, lane, mem, key, aborted, pc, disk, removing, asking, known, runs>>

\* TTLs are 10 minutes and 24 hours: no write, activity or pending answer of the
\* job is that old.
ExpireStart(j) ==
  /\ up
  /\ j \in mem
  /\ status[j] \in Terminal \cup {"awaiting-upload"}
  /\ pc[j] = "idle"
  /\ ~PendingWrite(j)
  /\ j \notin asking
  /\ mem' = mem \ {j}
  /\ removing' = removing \cup {j}
  /\ UNCHANGED <<up, host, lane, key, status, aborted, pc, audio, disk, writes, asking, known, runs>>

ExpireDone(j) ==
  /\ up
  /\ j \in removing
  /\ removing' = removing \ {j}
  /\ disk' = [disk EXCEPT ![j] = "none"]
  /\ UNCHANGED <<up, host, lane, jobVars, aborted, pc, audio, writes, asking, known, runs>>

\* The file could not be unlinked: the job is answered for again.
ExpireFails(j) ==
  /\ up
  /\ DeleteMayFail
  /\ j \in removing
  /\ removing' = removing \ {j}
  /\ mem' = mem \cup {j}
  /\ UNCHANGED <<up, host, lane, key, status, aborted, pc, audio, disk, writes, asking, known, runs>>

-----------------------------------------------------------------------------
(* HostState.apply() and the other users of the lane                       *)

\* Leaving `ready` asks the running job to stop and does not wait for it.
Apply(next) ==
  /\ up
  /\ next = "ready" => host # "ready"
  /\ host' = next
  /\ aborted' = IF host = "ready" /\ next # "ready" /\ lane \in Jobs
                  THEN aborted \cup {lane} ELSE aborted
  /\ UNCHANGED <<up, lane, jobVars, pc, fileVars, asking, known, runs>>

\* /jobs/diarize, /v1/decide, embeddings, generation and the realtime gateway
\* reserve the same lane in the turn that checks it, and release it.
OtherStarts ==
  /\ up
  /\ CanAdmit
  /\ lane' = "other"
  /\ UNCHANGED <<up, host, jobVars, aborted, pc, fileVars, asking, known, runs>>

OtherEnds ==
  /\ up
  /\ lane = "other"
  /\ lane' = "free"
  /\ UNCHANGED <<up, host, jobVars, aborted, pc, fileVars, asking, known, runs>>

-----------------------------------------------------------------------------
(* Process death and initialize()                                          *)

Crash ==
  /\ up
  /\ up' = FALSE
  /\ lane' = "free"
  /\ mem' = {}
  /\ aborted' = {}
  /\ pc' = [j \in Jobs |-> "idle"]
  /\ writes' = <<>>
  /\ removing' = {}
  /\ asking' = {}
  /\ UNCHANGED <<host, key, status, audio, disk, known, runs>>

\* What initialize() makes of a file: no run is resumed.
ReopenedAsItWas(s) == s
Reopened(s) == IF s \in Terminal THEN s ELSE "interrupted"

\* Every input is deleted and every file is reopened, then the server listens.
Boot(first) ==
  /\ ~up
  /\ up' = TRUE
  /\ host' = first
  /\ audio' = {}
  /\ mem' = {j \in Jobs : disk[j] # "none"}
  /\ status' = [j \in Jobs |-> IF disk[j] # "none" THEN Reopened(disk[j]) ELSE status[j]]
  /\ disk' = [j \in Jobs |-> IF disk[j] # "none" THEN Reopened(disk[j]) ELSE "none"]
  /\ UNCHANGED <<lane, key, aborted, pc, writes, removing, asking, known, runs>>

\* initialize() threw after the file of j was dealt with: the host does not start.
BootFails(j) ==
  /\ ~up
  /\ \/ audio' = audio \ {j} /\ UNCHANGED disk
     \/ /\ disk[j] # "none"
        /\ disk' = [disk EXCEPT ![j] = Reopened(@)]
        /\ UNCHANGED audio
  /\ UNCHANGED <<up, host, lane, jobVars, aborted, pc, writes, removing, asking, known, runs>>

-----------------------------------------------------------------------------

Activity(j) ==
  \/ StreamDone(j) \/ StreamFails(j)
  \/ ExecReturns(j) \/ ExecFails(j)
  \/ \E deleted \in BOOLEAN : Delete(j, deleted) \/ DropInput(j, deleted)
  \/ CleanupDone(j) \/ CleanupFails(j)

Request(j) ==
  \/ \E k \in Keys : CreateNew(j, k)
  \/ CreateAgain(j) \/ AnswerAgain(j)
  \/ Upload(j)
  \/ Cancel(j)

Sweep(j) == SweepCleanup(j) \/ ExpireStart(j) \/ ExpireDone(j) \/ ExpireFails(j)

Next ==
  \/ \E j \in Jobs : Request(j) \/ Activity(j) \/ Sweep(j) \/ BootFails(j)
  \/ \E ok \in BOOLEAN : WriteSettles(ok)
  \/ \E next \in {"ready", "paused", "stopped"} : Apply(next)
  \/ OtherStarts \/ OtherEnds
  \/ Crash
  \/ \E first \in {"ready", "stopped"} : Boot(first)

Spec == Init /\ [][Next]_vars

\* I/O settles: a write, an unlink, a request body (bounded by the server's
\* request timeout) and a supervised execution (bounded by timeoutMs) all end.
\* Nothing is assumed of clients, of the user, or of crashes.
Fairness ==
  /\ \A j \in Jobs : WF_vars(Activity(j))
  /\ WF_vars(\E ok \in BOOLEAN : WriteSettles(ok))
  /\ \A j \in Jobs : WF_vars(ExpireDone(j) \/ ExpireFails(j))

FairSpec == Spec /\ Fairness

-----------------------------------------------------------------------------
(* Properties                                                              *)

TypeOK ==
  /\ up \in BOOLEAN
  /\ host \in {"stopped", "ready", "paused"}
  /\ lane \in Jobs \cup {"free", "other"}
  /\ mem \subseteq Jobs
  /\ key \in [Jobs -> Keys \cup {NoKey}]
  /\ status \in [Jobs -> Statuses]
  /\ aborted \subseteq Jobs
  /\ pc \in [Jobs -> Points]
  /\ audio \subseteq Jobs
  /\ disk \in [Jobs -> Statuses \cup {"none"}]
  /\ writes \in Seq(Writes)
  /\ removing \subseteq Jobs
  /\ asking \subseteq Jobs
  /\ known \subseteq Jobs
  /\ runs \in [Jobs -> 0..2]

\* One heavy job at a time: whatever upload, run or cleanup is in flight holds
\* the lane, and the lane is held by a job only while its activity is in flight.
LaneExclusive == \A j \in Jobs : pc[j] # "idle" <=> lane = j

\* No restart, retry or re-upload makes the host run one identity twice.
ExecutesOnce == \A j \in Jobs : runs[j] <= 1

\* A terminal status is never shown for a job whose worker may still be running
\* ("must not display Cancelled while that worker is still consuming GPU").
EndedNeverExecutes ==
  \A j \in mem : status[j] \in Terminal =>
    pc[j] \notin {"saveUploading", "streaming", "saveRunning", "executing", "deleting"}

\* An input file always has an owner: an activity that will delete it, or a
\* visible cleanup-failed job that the next sweep retries.
InputOwned ==
  up => \A j \in audio : pc[j] # "idle" \/ (j \in mem /\ status[j] = "cleanup-failed")

\* A client that reads `completed` does not find the audio on the host's disk.
CompletedInputGone == \A j \in mem : status[j] = "completed" => j \notin audio

\* An identity a client was given survives a crash: "Durably write the accepted
\* job before returning its ID", for the idempotent answer too.
AnsweredIsDurable == \A j \in mem \cap known : disk[j] # "none"

\* The chained writes cannot leave a file older than memory: the last pending
\* write of a job is its current status.
LastWriteIsCurrent ==
  \A j \in mem, i \in DOMAIN writes :
    writes[i].job = j /\ (\A n \in DOMAIN writes : n > i => writes[n].job # j)
      => writes[i].st = status[j]

\* Two jobs that may still execute never share an idempotency key.
OneLivePerKey ==
  \A i, j \in mem : i # j /\ key[i] = key[j] =>
    status[i] \notin Live \/ status[j] \notin Live

\* A job that has ended, failed or not, never becomes live again, across crashes
\* too: what a client has seen end cannot execute later.
NoRevival ==
  [][\A j \in Jobs : status[j] \notin Live => status'[j] \notin Live]_vars

\* A cancel or a pause that lands before the result is published wins, even when
\* it lands while the input is being unlinked.
AbortedNeverCompletes ==
  [][\A j \in aborted : status[j] # "completed" => status'[j] # "completed"]_vars

\* The catch of run() and upload(): "a client that reads `cancelled` must not
\* find the audio still on disk".
CancelledInputGone == \A j \in mem : status[j] = "cancelled" => j \notin audio

\* The lane is always given back: no failed write, failed unlink, abort or lost
\* client keeps the host busy.
LaneFreed == \A j \in Jobs : lane = j ~> lane # j

-----------------------------------------------------------------------------
(* The inductive strengthening the theorems of WorkerJobsProofs rest on    *)

\* A stopped process has no activity, no abort and no job in memory.
DownInv == ~up => mem = {} /\ aborted = {} /\ \A j \in Jobs : pc[j] = "idle"

\* An identity never issued has left no trace.
UnissuedInv ==
  \A j \in Jobs : key[j] = NoKey =>
    /\ j \notin mem \cup removing \cup audio
    /\ pc[j] = "idle"
    /\ runs[j] = 0
    /\ disk[j] = "none"
    /\ status[j] = "awaiting-upload"

\* Only issued identities are written.
QueueInv == \A i \in 1..Len(writes) : key[writes[i].job] # NoKey

\* What memory shows while an activity is in flight.
PhaseInv ==
  \A j \in Jobs :
    /\ pc[j] \in {"saveUploading", "streaming"} => status[j] = "uploading"
    /\ pc[j] \in {"saveRunning", "executing", "deleting"} => status[j] = "running"
    /\ pc[j] # "idle" => status[j] # "awaiting-upload"

\* A job that may still start executing has not executed.
RunsInv ==
  \A j \in Jobs :
    /\ runs[j] <= 1
    /\ status[j] = "awaiting-upload" => runs[j] = 0
    /\ pc[j] \in {"saveUploading", "streaming", "saveRunning"} => runs[j] = 0

\* The input of a completed job, and of one that waits for its input, is absent.
InputInv ==
  \A j \in Jobs : status[j] \in {"completed", "awaiting-upload"} => j \notin audio

IInv ==
  /\ TypeOK
  /\ LaneExclusive
  /\ DownInv
  /\ UnissuedInv
  /\ QueueInv
  /\ PhaseInv
  /\ RunsInv
  /\ InputInv
=============================================================================
