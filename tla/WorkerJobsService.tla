-------------------------- MODULE WorkerJobsService --------------------------
(***************************************************************************)
(* WorkerJobs as a desktop sees it: the mapping of its memory and files to *)
(* the abstract JobService it implements, and what holds of the files, the *)
(* write chain and the clients' knowledge for that to be so.               *)
(***************************************************************************)
EXTENDS WorkerJobs

\* What a client can learn of j: the file decides whether it is known at all,
\* memory what is answered, and a stopped host answers as it will after boot.
Seen(j) ==
  IF disk[j] = "none" THEN IF j \in known THEN "gone" ELSE "unknown"
  ELSE IF ~up THEN Reopened(disk[j])
  ELSE IF j \in mem THEN status[j] ELSE "gone"

Service == INSTANCE JobService WITH
  st     <- [j \in Jobs |-> Seen(j)],
  jobKey <- [j \in Jobs |-> IF j \in known THEN key[j] ELSE NoKey]

\* The host implements the service its clients are modelled against.
ImplementsService == Service!ServiceSpec

-----------------------------------------------------------------------------
(* What holds of the files, the write chain and the clients' knowledge     *)

\* A stopped process has no pending write, unlink or answer.
HaltedInv == ~up => writes = <<>> /\ removing = {} /\ asking = {}

\* A job is being created or known to a client.  A known job the host holds has
\* a file; one that is not yet known has done nothing.
KnownInv ==
  \A j \in Jobs :
    /\ j \in mem \ known => Creating(j)
    /\ j \notin known => status[j] = "awaiting-upload" /\ pc[j] = "idle" /\ disk[j] = "none"
    /\ j \in known \cap (mem \cup removing) => disk[j] # "none"
    /\ j \in removing =>
         j \in known \ mem /\ pc[j] = "idle" /\ status[j] \in Terminal \cup {"awaiting-upload"}
    /\ pc[j] # "idle" => j \in mem
    /\ key[j] = NoKey => j \notin known

\* A pending write is of a job in memory: its only creation until it is known,
\* and afterwards at most one that an activity awaits.
PendingInv ==
  /\ \A i \in 1..Len(writes) :
       /\ writes[i].job \in mem
       /\ writes[i].waiter = "create" <=> writes[i].job \notin known
       /\ writes[i].waiter = "activity" => pc[writes[i].job] \in Saving
  /\ \A i, n \in 1..Len(writes) :
       writes[i].job = writes[n].job /\ writes[i].waiter = writes[n].waiter /\ i # n
         => writes[i].waiter = "none"

\* What memory shows while an activity ends, and that only an activity shows a
\* job as uploading or running.
EndPhaseInv ==
  \A j \in Jobs :
    /\ pc[j] = "dropInput"     => status[j] \in {"uploading", "running", "completed"}
    /\ pc[j] = "saveCompleted" => status[j] = "completed"
    /\ pc[j] = "saveEnded"     => status[j] \in {"failed", "cancelled"}
    /\ pc[j] = "cleanup"       => status[j] \in {"completed", "failed", "cancelled"}
    /\ pc[j] = "saveCleanupFailed" =>
         status[j] = "cleanup-failed" \/ (status[j] = "failed" /\ j \notin audio)
    /\ j \in mem /\ status[j] \in {"uploading", "running"} => pc[j] # "idle"

\* The end a file or a pending write states is the one memory shows: `completed`
\* is written only by a run that published it, and is never withdrawn once saved.
Failures == {"failed", "cancelled"}
FileInv ==
  /\ up => \A j \in Jobs :
       /\ disk[j] = "completed" => status[j] = "completed" /\ pc[j] \in {"idle", "cleanup"}
       /\ disk[j] \in Failures => status[j] \in Failures \cup {"cleanup-failed"}
  /\ \A i \in 1..Len(writes) :
       /\ writes[i].st = "completed" => writes[i].waiter = "activity" /\ pc[writes[i].job] = "saveCompleted"
       /\ writes[i].st \in Failures => status[writes[i].job] \in Failures \cup {"cleanup-failed"}

\* The last pending write of any job is its status.
LastWriteInv ==
  \A j \in Jobs, i \in 1..Len(writes) :
    writes[i].job = j /\ (\A n \in 1..Len(writes) : n > i => writes[n].job # j)
      => writes[i].st = status[j]

SInv ==
  /\ IInv
  /\ HaltedInv
  /\ KnownInv
  /\ PendingInv
  /\ EndPhaseInv
  /\ FileInv
  /\ LastWriteInv
=============================================================================
