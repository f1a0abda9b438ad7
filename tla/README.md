# TLA+ models of HiDock Next

HiDock Next is a desktop application (Electron: `apps/electron`) that pulls
recordings off HiDock devices, transcribes and analyses them, and keeps a
library; next to it runs an optional *model host* (`apps/model-host`), a
separate process, often on another machine, that executes heavy speech models
for paired desktops. This directory holds TLA+ models of the parts of the system
whose correctness depends on interleavings, crashes and lost messages, the TLC
configurations that check them, and theorems about them checked by TLAPS.

Paths below are relative to `src/`; `SVC` is
`apps/electron/electron/main/services`.

## Contents

| module | models | checked by | proved in |
|---|---|---|---|
| `WorkerJobs` | durable jobs and the heavy lane of the model host | `MCWorkerJobs` (2 runs) | `WorkerJobsProofs`, `WorkerJobsServiceProofs` |
| `WorkerJobsService` | those jobs as a desktop sees them: the mapping to `JobService` | `MCWorkerJobs` | `WorkerJobsServiceProofs` |
| `JobService` | what a desktop may rely on of that host (abstract) | as a property of `WorkerJobs`, as the host of `RemoteJobs` | its implementation: `WorkerJobsServiceProofs` |
| `RemoteJobs` | the desktop's remote runs and their recovery | `MCRemoteJobs` (3 runs) | `RemoteJobsProofs` |
| `ResumeDownload` | the resumable transfer from the device to the library | `MCResumeDownload` (2 runs) | `ResumeDownloadProofs` |
| `DownloadQueue` | the queue of downloads, its rows, timers and cancels, and the renderer's loop | `MCDownloadQueue` (1 run) | `DownloadQueueProofs` |
| `BrainOwnership` | who serves the agents and who writes the database | `MCBrainOwnership` (1 run) | `BrainOwnershipProofs` |
| `StorageMove` | a change of the recordings folder among its writers | `MCStorageMove` (2 runs) | `StorageMoveProofs` |
| `TranscriptionQueue` | the transcription queue, its two lanes, cancels and repairs | `MCTranscriptionQueue` (1 run) | `TranscriptionQueueProofs` |

`PROJECT.json` lists the components, runs, theorems, findings and hazards, a
mutation of the model that each property detects, and the source lines each
definition models.

To check one run: `tlc -config MCWorkerJobs.cfg MCWorkerJobs`; to check the
proofs: `tlapm WorkerJobsProofs.tla`, and so for `WorkerJobsServiceProofs`,
`RemoteJobsProofs`, `ResumeDownloadProofs`, `DownloadQueueProofs`,
`BrainOwnershipProofs`, `StorageMoveProofs` and `TranscriptionQueueProofs`.

## Inventory

### The model host (`apps/model-host/src`)

**Durable jobs** (`jobs.mjs`, `state.mjs`). State: a map of jobs with their
status, an idempotency key per job, one JSON file and one input file per job, a
chain of pending file writes, an abort controller per running job, and the
lane: the one heavy activity the host runs. Operations: `create`, `upload`,
`run`, `cleanup`, `cancel`, `expire`, `initialize`, `apply` (ready, paused,
stopped). Requests of several desktops interleave at every `await`; any write
or unlink may fail; the process may die anywhere. Correct when: never two heavy
activities; no identity executes twice; what a client was given survives a
crash; an ended job never revives; inputs are deleted, or visibly not; the lane
always comes back.

**Other lane users** (`server.mjs`, `realtime-gateway.mjs`): the synchronous
routes and the realtime session take the same lane under the same admission
test. They interact with jobs only through the lane.

**Pairing, setup, telemetry, runtimes** (`auth.mjs`, `host-setup.mjs`,
`main.mjs`, `telemetry.mjs`, ...): configuration and I/O.

### The desktop's main process (`apps/electron/electron/main`)

**Remote worker client** (`SVC/remote-worker-jobs.ts`,
`remote-job-checkpoints.ts`). State: the durable identity (idempotency key, job
id, last observation) and the durable result of one request, a deadline, the
outstanding HTTP request. Operations: run, restart after a terminal status,
poll, cancel, reset for reprocessing. It calls the model host over a network
that loses, delays and repeats; it is called from a queue item of
`transcription.ts`. Correct when no job is orphaned at the host, a result
belongs to the request it is saved for, and a cancel wins over a late answer.

**Remote recovery** (`remote-job-recovery.ts`, `remote-recovery-supervisor.ts`,
`transcription-activity.ts`). After a restart, an observer per saved identity
follows its job without owning the recording; a pipeline may start, and end,
between any two of its awaits. They share the identity, the result and the set
`cancelledRecordings`.

**Resumable transfer** (`download-resume.ts`, `device-storage.ts`, the leases of
`download-staging.ts`, the publication of `file-storage.ts`). State: per source
identity a `.partial`, a checkpoint, an in-memory lease; the device's listing
and session. Operations: one call `downloadWithResume` per download, then
publication, forgetting and release. Devices disconnect and their files change
during the transfer; the process dies; the disk damages partials. Correct when
only whole files of one generation reach the library, two calls never write one
partial, and committed progress is neither lost nor trusted without evidence.

**Download queue** (`download-service.ts`, `download-transfer-controller.ts`,
driven by the renderer's `useDownloadOrchestrator.ts` through
`ipc/jensen-handlers.ts`). State: an item per file name with a status, the rows
that make it durable, the intents and the active owner of the transport, timers.
Operations: queue, process, complete, fail, stall, cancel (one, all), retry,
reconcile on reconnect, prune. Correct when an item's terminal status is that
of its own transfer, a user's cancel stays cancelled across restarts, and a
finished or failed item never blocks its file.

**Brain ownership and single instance** (`brain-lock.ts`, `brain-app.ts`,
`main/brain-host.ts`, `brain-upgrade.ts`, `upgrade-marker.ts`,
`single-instance.ts`). State: a lock file, the operating system's instance lock,
an upgrade marker, the servers that run. The application and headless processes
elect one server of the assistant API; one process at a time may upgrade the
database. Correct when the application ends up as the only server, two
processes never write the database, and a launch refused during an upgrade is
carried out after it.

**Storage move** (`storage-move.ts`, `storage-move-state.ts`). State: the lock,
the copies made, the stored paths, the configured folder. Operations: move,
cancel, switch. Correct when stored paths and configured folder always agree and
no file is left behind.

**Transcription queue and lanes** (`transcription.ts`,
`transcription-engine-chain.ts`, `local-stage-restart.ts`,
`local-compute-slot.ts`, `stage-checkpoints.ts`, `provider-checkpoints.ts`,
`processing-run-scope.ts`). State: queue rows, a main and a short lane, the
recording each lane works on, cancellation marks, checkpoints, the local
compute slot. Requests come from the user, the assistant API, automatic
downloads and recovered remote jobs, and kick a queue pass that a timer repeats;
both lanes, the repairs of a start and every cancel write the same table.
Correct when nobody takes a row from a live run, no recording shows `processing`
with nothing running, a cancel stops the work it was meant for and no other, and
waiting rows come to run.

**Recording deletion** (`recording-deletion-service.ts`): rows, files and
tombstones of a purge, with a durable list of files still to delete.

**Device operations** (`device-operation-serializer.ts`, `device-pipeline.ts`,
`packages/jensen-protocol`): one command at a time on the USB stream; a linear
connect-scan-download phase machine. **Restore and scratch journals, firmware
installation** (`device-recording-restore*.ts`, `device-scratch-*.ts`,
`firmware-install*.ts`): write-once ownership files around single-use device
operations.

**Brains, boot scheduler, feature lifecycle, database, watcher and imports,
pipeline steps, calendar and connectors, knowledge graph and search, identity
and value services, renderer, provider packages**: sequential orchestration,
queries, heuristics, parsing or user interface.

## Plan

1. `WorkerJobs`, `JobService` – the host. *Done: safety and the refinement
   proved.*
2. `RemoteJobs` over `JobService` – the client and its recovery. *Done: safety
   proved, the end of a queue item model-checked.*
3. `ResumeDownload` – the transfer. *Done, safety proved.*
4. `DownloadQueue` – the transfer appears in it as one that is refused, fails or
   delivers a whole file, what `ResumeDownload` shows of a call. *Done: cancels
   proved final, settling and draining model-checked.*
5. `BrainOwnership` – processes, the lock file, the instance lock. *Done: one
   writer proved, the app's victory and refused launches model-checked.*
6. `StorageMove` – a move or a switch, its writers, the end of the process.
   *Done for the recordings folder: safety proved, resumption model-checked.*
7. `TranscriptionQueue` – the table, two lanes, cancels, restart of a local
   stage, repairs of a start. *Done: safety proved, draining model-checked.*
8. The checkpoints of stages and providers and the local compute slot, which a
   run consults: what a fresh transcription clears and a restart reuses.
9. `RecordingPurge` and the write-once device journals, if their code turns out
   to hold interleavings worth a model.

Runs stay small in number: one configuration for the safety of a module, one
for its liveness or refinement where one instance cannot carry both, one per
disagreement between code and text that matters to a user.

Abstract specifications: `JobService` (done); the transfer as the queue sees it
(part of `DownloadQueue`); one writer of the database (`OneWriter`).

Proofs: every safety and action property of the runs, and the refinement, is
stated by a theorem. Left: what `RemoteJobs` promises with the recovery
supervisor beyond its two action properties, where `JobsOwned` itself does not
hold (Findings). For TLC: that an observer of `RemoteJobs` ends, which its
counter of broken connections makes too large for the present instance.

## WorkerJobs

A job's upload, run and cleanup are one asynchronous activity; `pc[j]` names the
`await` at which it is suspended and one action is what the event loop runs
until the next one. `persist()` serialises a job when it is called and chains
the write, so `writes` is a queue of snapshots; `WriteSettles` completes its head
(or fails it) and continues whoever awaited it.

| state | code |
|---|---|
| `up`, `host`, `lane` | process and `initialize()`; `HostState.state`, `activeJob` |
| `mem`, `key`, `status` | `this.jobs` and each job's key and status |
| `aborted`, `pc` | `AbortController`s; `await` of `upload`, `run`, `cleanup` |
| `audio`, `disk`, `writes`, `removing` | `<id>.audio`, `<id>.json`, `this.writes`, unlinks of `expire()` |
| `asking`, `known`, `runs` | unanswered idempotent creates; what clients were told; a history count |

Actions follow the methods: `CreateNew`, `CreateAgain`, `AnswerAgain` (create);
`Upload`, `StreamDone`, `StreamFails` (upload); `ExecReturns`, `ExecFails`,
`Delete`, `DropInput` (run); `CleanupDone`, `CleanupFails` (cleanup); `Cancel`;
`SweepCleanup`, `ExpireStart`, `ExpireDone`, `ExpireFails` (expire); `Apply`,
`OtherStarts`, `OtherEnds` (lane); `Crash`, `Boot`, `BootFails`.

Runs and bounds:

* `worker_jobs`: two jobs, two keys, `Capacity` 2. Two jobs are enough for two
  activities to compete for the lane, for a write of one to delay a write of the
  other, and for a key to be used twice; a third adds no new pair. `runs` counts
  to 2, one more than allowed. Unlinks of retention always work here, because
  `OneLivePerKey` does not hold otherwise: a waiting job whose file cannot be
  deleted is answered for again (`jobs.mjs:217`) after its key was given to a
  new job.
* `worker_jobs_live`: two jobs under one key, with failing unlinks, under
  fairness. `ImplementsService` is the refinement of `JobService` under the
  mapping in `WorkerJobsService` (the file decides whether a job is known at all,
  memory what is answered, a stopped host answers as it will after its boot);
  `LaneFreed` is the liveness of the lane.

Fairness: weak fairness of each job's activity, of the writes and of the unlinks
of retention. The event loop runs what is ready, file operations settle, a
request body is bounded by the server's request timeout and an execution by its
own (`diarize.mjs:146`); nothing is assumed of clients, of the user, of other
lane users or of restarts.

## JobService

Two variables: the status a `GET` answers and the key of each known job. One
action per thing a client can see happen, including those it would rather not: a
`completed` that is withdrawn because its own write failed, a restart that turns
whatever was live into `interrupted` or falls back to the last durable end, a
forgotten job that comes back after a failed unlink.

## RemoteJobs

One recording and one request (the `lookup` of `remote-worker-jobs.ts`), so
hashes, models and hosts agree. Two activities share the durable identity and
result: the *pipeline* (`runRemoteWorkerJob` in a queue item) and the *observer*
(`recoverRemoteJobs`). `req[a]` is the outstanding request of an activity: the
host handles it and answers it in separate steps, so that an answer may be stale
when read, lost, or given up on while the host handles the request later
(`late`). The host is an instance of `JobService`.

| state | code |
|---|---|
| `st`, `jobKey` | the host |
| `ident`, `result` | `remote_job_checkpoints`, `remote_job_results` |
| `queued`, `flagged` | a pending queue row; membership in `cancelledRecordings` |
| `pipe`, `mine`, `seen` | where `runRemoteWorkerJob` is, its identity, the last status read |
| `obs` | where `recoverRemoteJobs` is, the identity it saved, cancel/stop/registration |
| `req`, `late`, `overdue` | requests in flight, given up on, deadlines passed |

Runs and bounds:

* `remote_jobs`: two jobs, two keys (one restart), one lingering request,
  crashes and cancels, no recovery, under fairness: no job is orphaned, and a
  queue item ends whatever host and network do. Two keys are enough for a restart to meet a
  late request of the first key; a third repeats the same step.
* `remote_recovery`: one job, two keys, with the observer. What is asked here is
  about who writes when both run, for which one job suffices.
* `remote_stale_observer`: Findings.
* Beside the runs, `MCRemoteJobsIdentity.cfg` checks on the instance of
  `remote_jobs` that an intent is durable before its request leaves
  (`IntentFirst`), that a saved result is of the saved identity
  (`ResultOfIdentity`) and that an identity is replaced only after its job was
  seen ended (`RestartConfirmed`). They hold, and are proved for every instance
  without the supervisor.

Bounds named in the module: a pipeline starts only while a key is left if it may
need one; at most `MaxLate` requests linger; the host forgets a job only when
nothing about it is in flight, and its file goes with it; how many broken
connections an observer tolerates is left open.

Fairness: a request is answered or times out (`AbortSignal.timeout`), timers
fire, the event loop runs what is ready. `PatientSpec`, used by
`MCRemoteJobsExpired.cfg` only, adds a user who keeps retrying and a network
that keeps answering.

`JobsOwned` is checked and proved without the supervisor; with it, it is violated
(Findings). `TypeOK`, `CancelDiscards` and `ObserverYields` are proved for both.

## ResumeDownload

Content is a sequence of ranges (1 MiB in the code), each the *generation* of the
device file its bytes came from, or `Torn`; a digest is what it digests. `pc[c]`
names the `await` a call is suspended at; every failure or cancellation there is
`Fail(c)`. The device's listing (`current`) and its content (`catalog`) change
between any two steps; `Reconnect` starts a new session with any content. A crash
is the death of the process: the operating system survives, a rename that
happened is durable, a range being written may be there, absent or torn.

| state | code |
|---|---|
| `catalog`, `current`, `gone` | the files behind `DeviceStorage.snapshot()` |
| `files`, `part`, `meta` | `<digest>.resume.partial` and the checkpoint beside it |
| `active`, `leases` | `activeStagingFiles`, `publicationLeases` |
| `pc`, `src`, `hold`, `fresh`, `stale` | locals of `downloadWithResume` and its caller |
| `library` | what `saveRecording` linked |

Assumption (`EvidenceAssumption`): generations the listing cannot tell apart
differ in the bytes the probes read. The code reads 4 KiB at the start and before
the resume point and calls this bounded evidence (`download-resume.ts:82`;
`docs/devices/stored-audio-firmware-contract.md:70` names what it cannot rule
out). Within a connection an identity that has been left does not
come back; between connections it may.

Runs and bounds:

* `resume_download`: two calls, files of two ranges, three generations, of which
  two look alike in the listing and the third is another file. Two ranges give a
  first, a last and a resume point between them; two calls give a lease conflict.
  Crashes and failing unlinks; no disk damage, so that `CheckpointBacked` is
  about the code.
* `resume_damage`: partials damaged or truncated between calls, without crashes,
  for the two look-alike generations, under fairness: nothing damaged is
  published, no call leaves a partial that refuses the next one, every lease
  comes back.

Fairness: weak fairness of each call: transport operations and file operations
settle or fail. Nothing is assumed of the device, of new calls or of crashes.

## DownloadQueue

Main (`download-service.ts`) keeps a row per file, in memory and in the table;
the renderer's loop (`useDownloadOrchestrator.ts`) takes pending rows one at a
time and starts a transfer in main (`jensen:downloadToLibrary`). A handler of
main runs without interruption up to its first wait, so it is one action up to
there; `cancelDownload` and `cancelAll` wait for the transfer and have a second
action, `CancelDone` and `CancelAllDone`. State updates reach the renderer in
the step that sends them (`Told`); what a message makes the renderer do is a
step of its own.

| state | code |
|---|---|
| `status`, `row` | `state.queue`; table `download_queue` |
| `saved`, `stalled`, `timers`, `paused` | published files; `stallRetried`; the deletion two seconds after a completion; `isPaused` |
| `xfer` | `DownloadTransferController`'s intent and owner, and where `downloadToLibrary` is |
| `cancels`, `sweep` | `cancelDownload` and `cancelAll` waiting for the transfer to settle |
| `loop`, `cur`, `tried`, `signal` | the renderer's loop, its file, `processedThisRun`, its `AbortController` |
| `marker`, `stop`, `mute`, `retry` | `_cancelledDownloads`; `_cancelInProgress`; `_cancelEpoch`; a retry of interrupted files on its way |
| `connected`, `due` | the device as the renderer sees it; the automatic sync of this connection |
| `held` | history: cancelled by the user and not asked for since |

Actions: the loop (`LoopStart`, `LoopNext`, `AbortArrives`, `AutoRetry`,
`Report`); the transfer (`Xfer...`, `Process...`), refused, failing, stalling or
saving; the timers (`StallCheck`, `TimerFires`); the user (`Download`, `Sync`,
`RetryAll`, `Cancel`, `CancelAll`, `SetPaused`, `Dismiss`); `Disconnect`,
`Ready`, `AutoSync`; `Crash`, which restores the rows as
`loadQueueFromDatabase` does.

Run and bounds: `download_queue`, two files: enough for one to be transferred
while the other is pending, cancelled, completed by name or queued behind it; a
third waits as the second does. All the rest of the state is finite as it is.

The constant `Hasty` are the files a user may ask for again (download, retry,
dismiss, sync) while the loop still runs, here one of the two. The safety theorem
holds for any `Hasty`; `PendingDrained` is asked for the others, because an item
tried in this run and requested again during it is not taken by any later session
unless a state update starts one (see `RetriesNextSession` under Findings).

Fairness: a transfer gets the device lane and ends (the driver's watchdog bounds
each read), handlers return, timers fire. Nothing is assumed of the user or of
the cable; `PendingDrained` and `InterruptedRetried` say what happens if from
some point on the device stays and the queue is not paused.

Restrictions: the automatic sync's scan succeeds; what awaits the end of a
transfer in main runs before the renderer's next message (`Settled`); a
reconnection is slower than a read of the queue (`Reconnects`). Not modelled:
replacement downloads, manual-only and purged files, the feature gate, automatic
download switched off or refused for space, passive start of the backend, the
retention of at most ten completed rows.

## BrainOwnership

Headless brains (`brain-host.ts`, `runBrainOnly`) and the application
(`brain-app.ts`) agree through `brain.json`, health probes and the request to
step down. Any two accesses to the file system may have another process's
between them, where the code decides on the first and acts with the second;
`pc[b]` and `call`/`step` name the `await` each process is at.

| state | code |
|---|---|
| `lock` | `brain.json`: nobody, the app, a brain, or `"dead"`, a process that is gone |
| `single` | Electron's single-instance lock |
| `marker`, `behind` | `brain-upgrading.json`; the schema on disk is old |
| `pc`, `seen` | where each headless brain is; the lock each process read before its probe |
| `app`, `call`, `step`, `answers` | the application, its pending `startAppBrain` or watchdog callback, its server |
| `clicked`, `opening` | `appLaunchRefused`; the process spawned by `openApp` |
| `owed` | history: a launch was told that the app opens by itself |

Actions of a brain: `Begin`, `Probe`, `Open`, `TakeLock`, `Mark`, `UpgradeEnds`,
`Grace`, `Elsewhere` (the upgrade of the database), `Serve`, `ProbeAgain`,
`Write`, `Confirm` (the claim), `Watch`, `Idle`, `Leave`, `Unlink`, `Close` (stepping down),
`Crash`. Of the app: `Launch`, `Boot`, `AppProbe`, `AppAsk`, `AppWait`,
`Starts`, `Watchdog`, `Quit`, `AppUnlink`, `AppExit`, `AppCrash`.

Run and bounds: `brain_ownership`, two brains and the app, two faults. A fault
is a slow probe, a refused file access, a lost request, a crash, or another
process's access between two of one turn; two are needed for a brain's late
unlink to delete a lock that was itself contended. A third brain contends with
one of two at a time.

Fairness: timers fire and calls return. Brains are not started, idle ones not
retired, nothing is killed and the app is neither opened nor closed unless
somebody does. `AppAnswers` assumes that the app stays open from some point on.

Restrictions: the five seconds the app waits for a brain to go are longer than
the brain's read and delete of the lock; a brain does not go idle (ten minutes)
while the app serves, whose watchdog (ten seconds) has asked it to go long
before; a refused launch is heard by the holder in the step that refuses it;
the app quits only after it called `startAppBrain`, once per process; an
`instanceId` is reused when nobody remembers it. The requests the server answers are not modelled.

## StorageMove

`moveFolder` (`storage-move.ts`) copies the recordings folder, rewrites the
stored paths and switches the setting while a download, an import, a live
recording, the watcher, the transcription queue and the person go on.
`switchFolder` changes an empty folder. A step is what happens between two
awaits; in particular the rewrite of the paths and the save of the setting are
one turn (`saveConfig` awaits nothing and puts its memory back when it fails).

| state | code |
|---|---|
| `config`, `files`, `rows` | `storage.recordingsPath`; the folders' files; stored paths |
| `move` | where `moveFolder` is, `cancelRequested`, files to copy and copied, what the target held, queues found paused |
| `switch` | where `switchFolder` is |
| `watch`, `noticed` | the watched folder; callbacks waiting for their second to pass |
| `paused`, `busy`, `xfer`, `live` | pauses of the queues; a running transcription; one download; one live stream |
| `late` | history: written after the folder had been listed |

Actions: `MoveStart`, `Drained`, `WaitOver`, `Check`, `Copy`, `Switch`,
`SaveFails`, `Stopped`, `Undone`, `MoveEnds`, `MoveFails` (any failure or the ten
minutes), `CancelMove`; `SwitchList`, `SwitchCheck`, `SwitchSave`, `SwitchFails`,
`SwitchWatch`; the writers `Import`, `Drop`, `XferAsk`, `XferBegin`, `XferStalls`,
`XferSaved`, `XferFails`, `LiveStart`, `LiveEnd`, `Notice`; `TranscriptionStart`,
`TranscriptionEnd`, `Toggle`, `ClearOld`; `Killed` at any await.

Runs and bounds: `storage_move` has two recordings, one to be moved and one to
arrive at any moment, two folders, two changes (a move back, or a move after a
failed one) and one end of the process. `storage_move_late` (Findings) needs one
move and no crash.

Fairness: the move's own steps and the watcher's callbacks. Nothing is assumed
of downloads or transcription: a wait for them ends at ten minutes.

Restrictions: the recordings folder only; the folders of transcripts and captures
share the code. A crash between the rewrite of the paths and the save of the
setting (two synchronous calls), and a copy whose removal fails, are not
modelled. Staging files in the folder can only make the check or a copy fail,
which they may always do. One settings dialog runs one change at a time and
offers a move only when there is a file. Deletion of recordings during a move is
not modelled. A pause the user sets during a move is undone by the `finally`
block, as in the code.

## TranscriptionQueue

The table `transcription_queue` and everybody who writes it. A handler that adds
a row also makes the synchronous part of the queue pass it kicks
(`processQueue` up to its first wait), so `Kick` is a part of `Ask`, `Retry`,
`Resume`, `RestartLeft`, `Start` and `Tick` and never a step of its own. `lane[k]`
is the run of one row: its row and recording, where it is (before
`transcribeOwnedRecording`, in the provider's stages, in the analysis, after it,
returned, between two attempts) and how it ended.

| state | code |
|---|---|
| `row`, `status` | `transcription_queue`; `recordings.transcription_status` |
| `lock` | `transcription_service_lock`; `"dead"`: its holder crashed |
| `lane["main"]`, `lane["short"]` | `isProcessing`, `mainJob`; `shortLane`; the recordings of `transcription-activity.ts` |
| `directed`, `stopAll`, `paused` | `targetedRunActive`, `cancelRequested`, `queuePaused` |
| `marks` | `cancelledRecordings` |
| `restart` | `restarting` of `local-stage-restart.ts` |
| `timer` | `processingInterval` |
| `cut`, `joined` (of a lane) | history: this run was cancelled; the other lane ran its recording beside it |

Actions: `Tick`, `NextRow` (the pass); `Ask`, `Retry`, `Submit` (requests);
`Cancel`, `CancelAll`, `RestartStage`, `RestartLeft`, `RestartGivenUp`; `Pause`,
`Resume`; `Unavailable`, `Begin`, `Stopped`, `Fails`, `NoSpeech`, `Save`, `Analysed`, `Done`,
`Again`, `Settle`, `Throws` (a run and its attempts); `Crash`, `Start`, `Stop`. A
gate (`stillWanted`) is read where a step consults `Marked(k)`; a run may
fail in any stage, also after its text is saved (the voices, `transcription.ts:3706`)
or when the stages have returned (the removal of prepared audio); a failed row is
requeued when its backoff has passed, which may be whenever it is failed.

Run and bounds: `transcription_queue` has a long and a brief recording, so that
the short lane can run beside the main one, and two rows, enough for two
recordings or for two rows of one; a row that is only history may be used again.
Both lanes are on and the brief recording may be restarted. Nothing in the state
counts, so there is no other bound.

Properties: a live run that nobody cancelled keeps its row (`LiveRowsKept`); no
status says `processing` with nothing running (`NoDeadButton`); a mark stops its
own run (`CancelSavesNothing`) and no later one (`LaterRequestKept`), both except
a run whose recording the other lane took, for which see Findings; rows that
wait come to run (`QueueMoves`).

Fairness: providers answer or time out, so every run goes on; the timer ticks;
the boot task that starts the processor runs. Nothing is assumed of the user: the
queue may stay paused and the processor stopped, which `QueueMoves` excepts.

Restrictions: the provider is configured and the feature enabled; a recording
does not become ineligible while it runs; a directed request names one recording
that has neither transcript nor receipt; which waiting row is first is left open,
and so are estimates of the time left. Between the start of the pipeline's run
and the status it writes (`transcription.ts:2976`, `3093`) the model has no step. Not
modelled: `transcribeManually`, which runs without the queue, receipts and
replays of directed requests, retry counts, `transcription:updateQueueItem`.

## Proofs

`WorkerJobsProofs` (for any number of jobs and keys, any capacity, with failing
unlinks): `Spec => []IInv`, and from it `TypeOK`, `LaneExclusive`, `ExecutesOnce`,
and the action properties `NoRevival`
and `AbortedNeverCompletes`; `EndedNeverExecutes` and `CompletedInputGone` are
only proved, no run lists them. `IInv` adds to the typing what a crash leaves
(`DownInv`), that an unissued identity has no trace (`UnissuedInv`) and is never
written (`QueueInv`), the status memory shows at each suspension point
(`PhaseInv`), that a job which may still start has not run (`RunsInv`) and that a
completed or waiting job has no input (`InputInv`). None of the listed properties
is inductive alone: `ExecutesOnce`, for instance, needs to know that a job at
`saveRunning` has not been counted, which needs its status while it streams. The
proof has one lemma per conjunct, each with a step per action.

`WorkerJobsServiceProofs` (the same generality): `Spec => []SInv`, and from it
`AnsweredIsDurable`, `LastWriteIsCurrent`, `InputOwned`, `OneLivePerKey` and the
refinement `Spec => ImplementsService`. `SInv` (in `WorkerJobsService`) is `IInv`
and what it leaves out, the chain of writes and the files:

* `HaltedInv`: a stopped process has nothing pending;
* `KnownInv`: a job is being created or known to a client, a known job the host
  holds has a file, one that is not known has done nothing;
* `PendingInv`: a pending write is of a job in memory, the only one until the job
  is known, and an activity awaits at most one;
* `EndPhaseInv`: what memory shows while an activity ends, and that `uploading`
  and `running` are shown by nobody else;
* `FileInv`: the end that a file or a pending write states is the one memory
  shows, and a saved `completed` is final;
* `LastWriteInv`: the last pending write of a job is its status.

The refinement needs all of them: after a crash a client sees what boot makes of
the *file*, so the step `Crash` is one of the service only because that is among
the outcomes `AfterRestart` allows for the status memory showed (`FileInv`,
`EndPhaseInv`); an unlink of retention that completes makes a job unknown only
because no write of it is still to land (`PendingInv`, `HaltedInv`). `Boot` is a stutter.
Every other step changes what is seen of one job at most; each action is mapped
to a step of the service or a stutter by a step of `ServiceStepSim`.
`OneLivePerKey` is proved under
`DeleteMayFail = FALSE`, which the code does not guarantee: with failing unlinks
it is false (`jobs.mjs:217`, above), and the theorem says that no other
step breaks it.

`RemoteJobsProofs` (any jobs, keys, lingering requests, crashes and cancels):
`ShapeInv`, with the supervisor or without, says that pipeline and observer ask
the host about the job of the identity they hold, and what an answer can be. From
it `TypeOK` and the action property `CancelDiscards`; `ObserverYields` needs no
invariant. `OwnerInv`, without the supervisor (`Recovery = FALSE`), adds that the
pipeline works on the saved identity (`MineInv`), that the host has one job per
key (`DistinctInv`) and that the saved job is it (`IdentInv`), that a key on its
way is the saved one or has a job (`PostInv`), what an answer that has not been
read yet still tells (`HeardInv`: a job heard to have ended has ended) and what
was concluded from it (`PollInv`, `CompletedInv`). From it `JobsOwned`,
`IntentFirst`, `ResultOfIdentity` and the action property `RestartConfirmed`. `JobsOwned` is
not inductive: that a key may be replaced rests on an answer read earlier
(`HeardInv`), and that a late POST makes no stranger's job rests on `PostInv`. The
many handlers reduce to few kinds of step (`OwnerStep`: plain ones, `Loads`, a
turn of the saved identity, `Replaces`, steps of the host, forgetting), and each
conjunct has one lemma over these. The host's steps are those of `JobService`, so
that together with `HostImplementsService` the theorems are about a desktop in
front of the real `jobs.mjs`.

`ResumeDownloadProofs` (any number of calls, generations and ranges):
`Spec => []IInv`, and from it `TypeOK` (only proved), `LibraryWhole`, `OneWriter`,
`EvidenceKept`, `CheckpointBacked` (without disk damage), `ProgressKept` and,
when the process lives and unlinks work (`~Faults`), `NoOrphan`. The
heart of `IInv` is `CallOK`: which lease a call holds, what its partial is
relative to its checkpoint at each point, and `OriginOK`, that while a call of a
live session copies, everything committed is of one generation and, if the
listing is still the one it started from, of the generation the device would
deliver. With `OneHolder` (one lease per source) the steps of one call leave the
facts of the others alone; three framing lemmas (`Frame`, `CallStep`,
`QuietStep`) reduce each action to what it changes for its own call and source.
`NoOrphan` speaks of partials that no call works on; `PartialsCovered` adds what
holds while one does: a partial without a checkpoint is that of a call that is
still `fresh`, which writes the first checkpoint or deletes the partial.

`DownloadQueueProofs` (any set of files, any `Hasty`): `Spec => []IInv`, and from
it `TypeOK` and `CancelHeld`. A cancel cannot be shown final from its own row: a
published file whose row is cancelled would be revived by its completion. `RowOK` therefore relates
memory, table, folder, timers and waiting cancels of one file, and `XferOK`
says that what is being received is not in the folder yet. One lemma per action, each
split into what it does to the rows and to the rest.

`BrainOwnershipProofs` (any number of brains and faults): `IInv` = `TypeOK`,
`Held` (whoever writes, or is about to, holds the instance lock, and the app as
long as it runs) and `ProbesOne` (a probe has somebody to probe); from it
`TypeOK`, `OneWriter` and the action property `QuitIsFinal`.

`StorageMoveProofs` (any recordings, folders, changes and ends of the process):
`IInv` = `TypeOK`, `RowsOK` (a recording listed in time is playable at every
step), `NoticedOK` (what the watcher has yet to look at is in the folder in use,
or late), `MoveOK` (what a move copied and has yet to copy is all it may lose;
the target is what it was plus the copies) and `SwitchOK`; from it `TypeOK`,
`ListedPlayable` and the action property `StoppedIsUndone`. `ListedPlayable`
speaks of moments at rest and is not inductive without what `MoveOK` says of a move under way.

`TranscriptionQueueProofs` (any recordings and rows, one lane or two): `IInv` has
the types, `Table`, `LaneOK`, `MarksLive` and `Shown`. `Table` says of the row of
every live run that no pass can take or requeue it and, if nobody cancelled the
run, that it is `processing` and its own; `LaneOK` that two live runs have two
rows (`Apart`) and that a run alone with its recording was cancelled exactly when
its recording is marked (`CutOK`); `MarksLive` that a mark is of a recording that
runs; `Shown` that `processing` belongs to a run that has yet to settle the
status. None of the properties is inductive alone: a start repair leaves a live
row alone because its recording is active, a lane takes a row that no other run
has because of `Table`, and `LaterRequestKept` needs `MarksLive`, since a new run
inherits whatever mark its recording still has. The lanes change in few ways
(`SameLanes`, `TakeKeeps`, `StepKeeps`, `LeavesKeeps`, `CutKeeps`), and every
handler that kicks the queue reduces to `KickKeeps` after `AddFits`. From it
`TypeOK`, `LiveRowsKept`, `NoDeadButton`, `LaterRequestKept` and the action
property `CancelSavesNothing`; with one lane no run is ever joined
(`LonelyStays`), so `CancelIsFinal` holds there (`OneLaneCancelIsFinal`).

Type correctness of every module is proved. Each inductive invariant was checked
by TLC as an invariant on small instances before it was proved (`SInv` on two
jobs with unlinks that work and that fail, `OwnerInv` on the instance of
`MCRemoteJobsIdentity.cfg`, `ShapeInv` with one job under recovery,
`PartialsCovered` on three generations without crashes).

Assumptions used: the ASSUMEs of the modules, which TLC evaluates in every run,
and the hypotheses `DeleteMayFail = FALSE`, `Recovery = FALSE` and `~Faults` of
the theorems named above, without which they are false.

Model-checked only: liveness (`LaneFreed`, `PipelineEnds`, `LeaseFreed`,
`RowsSettle`, `PendingDrained`, `InterruptedRetried`, `AppAnswers`,
`RivalsSettle`, `RefusedOpens`, `WorkResumes`, `QueueMoves`). Liveness under
fairness and ENABLED are outside the prover's reach.

## Findings

Three hazards of `PROJECT.json` have no property, because what they describe is
what the code does: a job of retention answered for again (`jobs.mjs:217`), a
partial that a crash leaves without a checkpoint (`MCResumeDownloadStale.cfg`)
and a requeued row beside a later request (`MCTranscriptionQueueCancel.cfg`,
`MCTranscriptionQueueRows.cfg`). The properties next to them (`OneLivePerKey`,
`NoOrphan`, `CancelSavesNothing`, `LaterRequestKept`) leave out exactly that case.

Two runs end in a counterexample to what the repository's text says.

* `remote_stale_observer`: an observer's ownership check sees only a pipeline
  that owns the recording at that moment. One that replaced the identity and
  ended during the observer's `await` goes unnoticed, and the observer writes
  the old identity back: the new job is orphaned.
* `storage_move_late`: an import (which never looks at a move) or a download
  (which looks at it only before it waits for the device, while the move waits
  only for rows that say `downloading`) may write a recording after the folder
  was listed. It is not copied, but its row is rewritten to the new folder and
  its file stays in the old one, whose contents the dialog then invites the
  user to delete (`StorageMoveConfirm.tsx:97`). The header of `storage-move.ts`
  (lines 10-12) says that nothing new is written during a move.

Further disagreements are kept as configurations beside the runs; each ends in a
counterexample of the property named (`tlc -config <cfg> <module>`).

| configuration, module | property | what happens |
|---|---|---|
| `MCWorkerJobsCancelled.cfg`, `MCWorkerJobs` | `CancelledInputGone` | A client reads `cancelled` while the audio is still on the host's disk: `run()` ignores a failed unlink before it publishes the status, against the comment at `jobs.mjs:176-178`. |
| `MCRemoteJobsCancel.cfg`, `MCRemoteJobs` | `CancelNeverBlocksLater` | With recovery on: a cancel of a recording only an observer follows stays in `cancelledRecordings`, and the next queue item is stopped as cancelled (`transcription.ts:533`, against the comment at 512-513). Marks left by runs themselves never do (`LaterRequestKept` of `TranscriptionQueue`). |
| `MCRemoteJobsExpired.cfg`, `MCRemoteJobs` | `ExpiredIsRerun` | After retention an explicit rerun asks for the forgotten job again and again (404) and never replaces it; `docs/performance/native-windows-model-host-spec.md:354` asks for a rerun. |
| `MCResumeDownloadStale.cfg`, `MCResumeDownload` | `StalePartialRemoved` | A crash between the creation of a partial and its first checkpoint leaves a file no boot removes and every later call for that source fails on. |
| `MCTranscriptionQueueCancel.cfg`, `MCTranscriptionQueue` | `CancelIsFinal` | With two lanes: a brief recording is cancelled while it runs in the short lane and asked for again; the main lane takes the new row, is refused ("This recording is already processing", `transcription.ts:2975`), and its `finally` clears the mark of the recording. The cancelled run passes its next gate and saves, against `transcription.ts:507-513`. |
| `MCTranscriptionQueueRows.cfg`, `MCTranscriptionQueue` | `OneActiveRow` | A failed row past its backoff is requeued (`transcription.ts:1096`) without looking for the row a later request added: the recording has two active rows, which the comment at `database.ts:8520-8522` says "would duplicate cost". The default of one lane suffices. |
| `MCDownloadQueueAgain.cfg`, `MCDownloadQueue` | `RetriesNextSession` | A file that failed and was asked for again in the same session stays pending until a later state update starts a session, although the comment at `useDownloadOrchestrator.ts:536-537` sends it to the next session. |

Two weaknesses of `storage-move.ts` have no run of their own: `switchFolder` looks
at the folder and saves the setting in different turns
(lines 352-357), so that a recording written between them stays in
the old folder (in the model it is `late`); and a crash between the rewrite of
the paths and the save of the setting (lines 324 and 326), not modelled, leaves
them apart.

## Not modelled, and why

Planned components are marked so above; what each modelled component leaves out
is said in its section. The checkpoints of stages and providers and the local
compute slot are next in the plan. Left aside on purpose: parsing and formatting
(Jensen framing, calendars, transcripts), SQL (transactions are taken as
atomic), numeric similarity and heuristics, the user interface, external
services, authentication and pairing: most of the repository's lines are of
these kinds, and their correctness is not a matter of interleavings. Inside
modelled components: the bytes and hashes of audio (compared only for equality),
quotas and free space, progress reporting, logging, wall-clock times (a deadline
or retention may pass whenever the code allows it).
