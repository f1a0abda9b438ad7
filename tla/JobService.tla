----------------------------- MODULE JobService -----------------------------
(***************************************************************************)
(* What the durable job service of the model host promises a desktop: the  *)
(* part of WorkerJobs a client can observe, with its memory, files and     *)
(* asynchronous steps hidden.  A job accepts one input, runs at most once, *)
(* alone, and once ended never runs again.                                 *)
(***************************************************************************)
CONSTANTS Jobs, Keys, NoKey

VARIABLES
  st,     \* what GET /v1/jobs/<id> answers; "unknown" before, "gone" after
  jobKey  \* the idempotency key a known job was created under

serviceVars == <<st, jobKey>>

Running  == {"uploading", "running"}
Live     == {"awaiting-upload"} \cup Running
Ended    == {"completed", "failed", "cancelled", "interrupted", "cleanup-failed"}
Statuses == {"unknown", "gone"} \cup Live \cup Ended

ServiceInit ==
  /\ st = [j \in Jobs |-> "unknown"]
  /\ jobKey = [j \in Jobs |-> NoKey]

To(j, s) == st' = [st EXCEPT ![j] = s] /\ UNCHANGED jobKey

\* POST /v1/jobs answers with a new job, already durable.
Accept(j, k) ==
  /\ st[j] = "unknown"
  /\ st' = [st EXCEPT ![j] = "awaiting-upload"]
  /\ jobKey' = [jobKey EXCEPT ![j] = k]

\* The one lane: an upload starts only while nothing else runs.
StartUpload(j) ==
  /\ st[j] = "awaiting-upload"
  /\ \A i \in Jobs : st[i] \notin Running
  /\ To(j, "uploading")

StartRun(j) == st[j] = "uploading" /\ To(j, "running")

Complete(j) == st[j] = "running" /\ To(j, "completed")

Fail(j, s) ==
  /\ st[j] \in Running
  /\ s \in {"failed", "cancelled"}
  /\ To(j, s)

CancelWaiting(j) == st[j] = "awaiting-upload" /\ To(j, "cancelled")

\* `completed` whose own write failed is withdrawn.
Withdraw(j, s) ==
  /\ st[j] = "completed"
  /\ s \in {"failed", "cancelled"}
  /\ To(j, s)

\* The input of a failed or cancelled job could not be deleted; a sweep deletes it.
KeepInput(j)   == st[j] \in {"failed", "cancelled"} /\ To(j, "cleanup-failed")
RetryDelete(j) == st[j] = "cleanup-failed" /\ To(j, "failed")

\* Retention: the job is no longer answered for, unless its file stays.
Forget(j) == st[j] \in {"awaiting-upload", "completed", "failed", "cancelled", "interrupted"}
             /\ To(j, "gone")
Recall(j) ==
  /\ st[j] = "gone"
  /\ \E s \in {"awaiting-upload", "completed", "failed", "cancelled", "interrupted"} : To(j, s)

\* What a restart may make of a job.  Nothing live survives it as live, and an
\* end that was not yet durable is lost for an earlier one.
AfterRestart(s) ==
  CASE s \in Live \cup {"interrupted"}                -> {"interrupted"}
    [] s = "completed"                                -> {"completed", "interrupted"}
    [] s \in {"failed", "cancelled", "cleanup-failed"} -> {"failed", "cancelled", "interrupted"}
    [] s = "gone"                                     -> {"gone", "completed", "failed", "cancelled", "interrupted"}
    [] OTHER                                          -> {s}

Restart ==
  /\ st' \in [Jobs -> Statuses]
  /\ \A j \in Jobs : st'[j] \in AfterRestart(st[j])
  /\ UNCHANGED jobKey

ServiceStep(j) ==
  \/ \E k \in Keys : Accept(j, k)
  \/ StartUpload(j) \/ StartRun(j) \/ Complete(j)
  \/ \E s \in {"failed", "cancelled"} : Fail(j, s) \/ Withdraw(j, s)
  \/ CancelWaiting(j)
  \/ KeepInput(j) \/ RetryDelete(j)
  \/ Forget(j) \/ Recall(j)

ServiceNext == (\E j \in Jobs : ServiceStep(j)) \/ Restart

ServiceSpec == ServiceInit /\ [][ServiceNext]_serviceVars
=============================================================================
