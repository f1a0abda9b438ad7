---------------------------- MODULE DownloadQueue ----------------------------
(***************************************************************************)
(* The download queue of the desktop: the rows of DownloadService (main),  *)
(* the one transfer it follows on the USB bus, and the loop of the         *)
(* renderer (useDownloadOrchestrator) that takes pending rows one by one.  *)
(*                                                                         *)
(* Main runs its handlers without interruption between awaits, so a        *)
(* handler is one action up to its first wait: processDownload writes,     *)
(* links and records a file in one turn, whereas cancelDownload and        *)
(* cancelAll wait for the transfer to settle.  Messages of one direction   *)
(* arrive in order: the renderer reacts to a state update in the step that *)
(* sends it (Told), and the rest of a command runs in a later step.        *)
(* Automatic downloads are on, so every pending row is in the loop's scope.*)
(***************************************************************************)
EXTENDS FiniteSets

CONSTANTS
  Files,          \* recordings on the device
  NoFile,         \* null
  Hasty           \* files the user may ask for again before the loop has ended

ASSUME FilesAssumption == NoFile \notin Files /\ "no" \notin Files /\ NoFile # "no" /\ Hasty \subseteq Files

VARIABLES
  status,    \* row of the queue in memory; "cancelled" is by the user, "interrupted" is not
  row,       \* row of table download_queue
  saved,     \* files published in the recordings folder and recorded
  stalled,   \* stallRetried: files that had their one automatic retry
  timers,    \* files whose completed row is deleted two seconds later
  paused,    \* queue-level pause
  xfer,      \* the transfer: where it is and whether it was aborted
  cancels,   \* files whose cancelDownload waits for the transfer to settle
  sweep,     \* cancelAll: "no", or the active file it waits for, or NoFile
  connected, \* the renderer sees the device connected and ready
  due,       \* the automatic sync of this connection has yet to run
  loop,      \* the renderer's loop
  cur,       \* file the loop is downloading
  tried,     \* processedThisRun
  signal,    \* the loop's AbortController is aborted
  marker,    \* _cancelledDownloads
  stop,      \* "asked": _cancelInProgress; "halted": only deviceSyncing is off
  mute,      \* _cancelEpoch is ahead: the next state update is ignored
  retry,     \* an automatic retry-failed is on its way to main
  held       \* ghost: files cancelled by the user and not requested since

rows == <<status, row, saved, stalled, timers, paused>>
calls == <<cancels, sweep, held>>
ui == <<loop, cur, tried, signal, marker, stop, mute, retry>>
device == <<connected, due>>
vars == <<rows, xfer, calls, device, ui>>

Gone == {"failed", "cancelled", "interrupted"}
Terminal == Gone \union {"completed"}
Stored == Terminal \union {"pending", "downloading"}
Stages == {"none", "queued", "off", "bus", "received", "published"}
NoXfer == [at |-> "none", abort |-> FALSE]
\* getActiveTransferFilename: only a transfer that owns the bus is active
OnBus(f) == xfer.at = "bus" /\ cur = f
\* hasTransferIntent
Intent(f) == xfer.at # "none" /\ cur = f

TypeOK ==
  /\ status \in [Files -> Stored \union {"absent", "cancelling"}]
  /\ row \in [Files -> Stored \union {"none"}]
  /\ saved \subseteq Files /\ stalled \subseteq Files /\ timers \subseteq Files
  /\ paused \in BOOLEAN /\ connected \in BOOLEAN /\ due \in BOOLEAN
  /\ xfer \in [at : Stages, abort : BOOLEAN]
  /\ cancels \subseteq Files /\ sweep \in Files \union {NoFile, "no"}
  /\ loop \in {"idle", "start", "next", "wait", "report"}
  /\ cur \in Files \union {NoFile}
  /\ (loop \in {"wait", "report"} => cur \in Files)
  /\ (loop = "wait" <=> xfer.at # "none")
  /\ tried \subseteq Files /\ marker \subseteq Files /\ held \subseteq Files
  /\ signal \in BOOLEAN /\ mute \in BOOLEAN /\ retry \in BOOLEAN
  /\ stop \in {"no", "asked", "halted"}

Init ==
  /\ status = [f \in Files |-> "absent"] /\ row = [f \in Files |-> "none"]
  /\ saved = {} /\ stalled = {} /\ timers = {} /\ paused = FALSE
  /\ xfer = NoXfer /\ cancels = {} /\ sweep = "no" /\ held = {}
  /\ connected = FALSE /\ due = FALSE /\ loop = "idle" /\ cur = NoFile /\ tried = {}
  /\ signal = FALSE /\ marker = {} /\ stop = "no" /\ mute = FALSE /\ retry = FALSE

-----------------------------------------------------------------------------
\* Rows

\* the item and its row of the table together (persistQueueItem)
Put(S, s) ==
  /\ status' = [f \in Files |-> IF f \in S THEN s ELSE status[f]]
  /\ row' = [f \in Files |-> IF f \in S THEN s ELSE row[f]]

\* queue.delete and removeFromDatabase
Remove(S) ==
  /\ status' = [f \in Files |-> IF f \in S THEN "absent" ELSE status[f]]
  /\ row' = [f \in Files |-> IF f \in S THEN "none" ELSE row[f]]

\* retryFailed: what is on disk by now leaves the queue, the rest is pending again
Requeue(S) ==
  /\ status' = [f \in Files |-> IF f \notin S THEN status[f]
                                ELSE IF f \in saved THEN "absent" ELSE "pending"]
  /\ row' = [f \in Files |-> IF f \notin S THEN row[f]
                             ELSE IF f \in saved THEN "none" ELSE "pending"]

\* isCancelledStatus
Cancelled(f) == status[f] \in {"cancelling", "cancelled", "interrupted"}
\* markFailed leaves alone what was settled by somebody else
Over(f) == Cancelled(f) \/ status[f] = "failed"

-----------------------------------------------------------------------------
\* The renderer

\* a session has its AbortController
Running == loop \in {"next", "wait", "report"}

\* variant: no session is started by a state update
ToldQuietly(p) ==
  /\ mute' = FALSE /\ loop' = loop
  /\ signal' = (signal \/ (~mute /\ loop \in {"wait", "report"} /\ status'[cur] \in Gone))

\* onStateUpdate, of an update that says p of the pause
ToldOf(p) ==
  /\ mute' = FALSE
  /\ signal' = (signal \/ (/\ ~mute /\ loop \in {"wait", "report"}
                           /\ status'[cur] \in Gone))
  /\ loop' = IF /\ ~mute /\ loop = "idle" /\ connected /\ ~p
                /\ \E f \in Files : status'[f] = "pending"
             THEN "start" ELSE loop
Told == ToldOf(paused)

\* a state update followed by drainDownloadQueue()
ToldAndDrained ==
  /\ mute' = FALSE
  /\ signal' = (signal \/ (/\ ~mute /\ loop \in {"wait", "report"}
                           /\ status'[cur] \in Gone))
  /\ loop' = IF loop = "idle" /\ connected THEN "start" ELSE loop

\* processDownloadQueue up to the first dequeue; a retry asked for before is there first
LoopStart ==
  /\ loop = "start" /\ ~retry
  /\ IF connected /\ ~paused /\ \E f \in Files : status[f] = "pending"
     THEN /\ loop' = "next" /\ tried' = {} /\ signal' = FALSE
          /\ stop' = IF stop = "halted" THEN "no" ELSE stop
     ELSE loop' = "idle" /\ UNCHANGED <<tried, signal, stop>>
  /\ UNCHANGED <<rows, xfer, calls, device, cur, marker, mute, retry>>

Untried == {f \in Files \ tried : status[f] = "pending"}

\* What awaited the end of a transfer runs in the turn of main that ends it, before
\* the renderer's next message.
Settled == sweep = "no" /\ cancels = {}

\* variant: the end of a session asks for nothing
LoopNextOnly ==
  /\ loop = "next" /\ Settled
  /\ IF stop = "no" /\ connected /\ ~paused /\ Untried # {}
     THEN /\ \E f \in Untried : cur' = f /\ tried' = tried \union {f}
          /\ loop' = "wait" /\ signal' = FALSE /\ stop' = stop
          /\ xfer' = [at |-> "queued", abort |-> FALSE]
     ELSE /\ loop' = "idle" /\ cur' = NoFile /\ stop' = "no"
          /\ tried' = {} /\ signal' = FALSE /\ xfer' = xfer
  /\ UNCHANGED <<rows, calls, device, marker, mute, retry>>

\* one turn of the while loop
LoopNext ==
  /\ loop = "next" /\ Settled
  /\ IF stop = "no" /\ connected /\ ~paused /\ Untried # {}
     THEN /\ \E f \in Untried : cur' = f /\ tried' = tried \union {f}
          /\ loop' = "wait" /\ signal' = FALSE /\ stop' = stop /\ retry' = retry
          /\ xfer' = [at |-> "queued", abort |-> FALSE]
     ELSE /\ loop' = "idle" /\ cur' = NoFile /\ stop' = "no"
          /\ tried' = {} /\ signal' = FALSE /\ xfer' = xfer
          /\ retry' = (retry \/ (/\ stop = "no" /\ connected
                                 /\ \E f \in Files : status[f] = "interrupted"))
  /\ UNCHANGED <<rows, calls, device, marker, mute>>

\* the abort listener of processDownload reaches main: jensen:cancelDownload
AbortArrives ==
  /\ loop = "wait" /\ signal /\ ~xfer.abort
  /\ xfer' = [xfer EXCEPT !.abort = TRUE]
  /\ UNCHANGED <<rows, calls, device, ui>>

\* retry-failed with interruptedOnly arrives at main
AutoRetry ==
  /\ retry /\ retry' = FALSE
  /\ LET S == {f \in Files : status[f] = "interrupted"} IN
       /\ Requeue(S)
       /\ IF S = {} THEN UNCHANGED <<mute, signal, loop>> ELSE Told
  /\ UNCHANGED <<saved, stalled, timers, paused, xfer, calls, device, cur, tried, marker, stop>>

-----------------------------------------------------------------------------
\* The transfer (jensen:downloadToLibrary)

\* downloadToLibrary returns: the intent is gone and the renderer has its answer
Settle(ok) ==
  /\ xfer' = NoXfer
  /\ loop' = IF ok \/ signal \/ cur \in marker THEN "next" ELSE "report"
  /\ marker' = IF ok THEN marker ELSE marker \ {cur}
  /\ UNCHANGED <<calls, device, cur, tried, signal, stop, mute, retry>>

\* beginDownload refuses a row that is gone or cancelled; an aborted transfer never begins
XferRefused ==
  /\ xfer.at = "queued"
  /\ status[cur] = "absent" \/ Cancelled(cur) \/ xfer.abort
  /\ Settle(FALSE) /\ UNCHANGED rows

\* beginDownload
XferBegins ==
  /\ xfer.at = "queued" /\ status[cur] # "absent" /\ ~Cancelled(cur)
  /\ Put({cur}, "downloading")
  /\ xfer' = [xfer EXCEPT !.at = "off"]
  /\ Told
  /\ UNCHANGED <<saved, stalled, timers, paused, calls, device, cur, tried, marker, stop, retry>>

\* the device lane is ours: activate throws when the transfer is aborted
XferOnBus ==
  /\ xfer.at = "off" /\ ~xfer.abort
  /\ xfer' = [xfer EXCEPT !.at = "bus"]
  /\ UNCHANGED <<rows, calls, device, ui>>

\* a range ends and the next one waits for the lane
XferOffBus ==
  /\ xfer.at = "bus"
  /\ xfer' = [xfer EXCEPT !.at = "off"]
  /\ UNCHANGED <<rows, calls, device, ui>>

\* updateProgress: a pending row is downloading again
XferProgress ==
  /\ xfer.at = "bus" /\ status[cur] = "pending"
  /\ Put({cur}, "downloading") /\ Told
  /\ UNCHANGED <<saved, stalled, timers, paused, xfer, calls, device, cur, tried, marker, stop, retry>>

XferReceived ==
  /\ xfer.at = "bus" /\ ~xfer.abort
  /\ xfer' = [xfer EXCEPT !.at = "received"]
  /\ UNCHANGED <<rows, calls, device, ui>>

\* device error, abort, changed source, failed staging
XferFails ==
  /\ xfer.at \in {"off", "bus", "received"}
  /\ Settle(FALSE) /\ UNCHANGED rows

\* noteTransferStall: the driver gave up on a silent device
XferStalls ==
  /\ xfer.at = "bus" /\ status[cur] = "downloading"
  /\ LET known == {f \in stalled : status[f] # "absent"}
         again == cur \in known
     IN /\ Put({cur}, IF again THEN "failed" ELSE "interrupted")
        /\ stalled' = IF again THEN known \ {cur} ELSE known \union {cur}
  /\ Told
  /\ UNCHANGED <<saved, timers, paused, xfer, calls, device, cur, tried, marker, stop, retry>>

\* variant: a cancel that lands during the transfer is not looked at
RefusesAbsent(f) == status[f] = "absent"

\* processDownload looks at the row only for absence and a cancel
Refuses(f) == status[f] = "absent" \/ Cancelled(f)

\* processDownload returns an error without touching the row
ProcessRefuses ==
  /\ xfer.at = "received" /\ Refuses(cur)
  /\ Settle(FALSE) /\ UNCHANGED rows

\* size mismatch or an exception: the row says failed
ProcessFails ==
  /\ xfer.at = "received" /\ ~Refuses(cur)
  /\ Put({cur}, "failed")
  /\ Settle(FALSE)
  /\ UNCHANGED <<saved, stalled, timers, paused>>

\* the file is published and recorded, its row completed, and its deletion scheduled
ProcessSaves ==
  /\ xfer.at = "received" /\ ~Refuses(cur)
  /\ Put({cur}, "completed")
  /\ saved' = saved \union {cur} /\ stalled' = stalled \ {cur}
  /\ timers' = timers \union {cur}
  /\ xfer' = [xfer EXCEPT !.at = "published"]
  /\ Told
  /\ UNCHANGED <<paused, calls, device, cur, tried, marker, stop, retry>>

\* forgetPublishedResume has run, or threw: then a completed download is answered as failed
XferReturns ==
  /\ xfer.at = "published"
  /\ \E ok \in BOOLEAN : Settle(ok)
  /\ UNCHANGED rows

\* markFailed
Report ==
  /\ loop = "report" /\ Settled
  /\ IF Over(cur) \/ status[cur] = "absent" THEN UNCHANGED <<status, row>> ELSE Put({cur}, "failed")
  /\ loop' = "next" /\ marker' = marker \ {cur}
  /\ mute' = IF Over(cur) \/ status[cur] = "absent" THEN mute ELSE FALSE
  /\ UNCHANGED <<saved, stalled, timers, paused, xfer, calls, device, cur, tried, signal, stop, retry>>

-----------------------------------------------------------------------------
\* Timers of main

\* checkForStalledDownloads: no data for a minute while off the bus
StallCheck ==
  \E S \in SUBSET {f \in Files : status[f] = "downloading" /\ ~OnBus(f)} :
    /\ S # {} /\ Put(S, "failed") /\ Told
    /\ UNCHANGED <<saved, stalled, timers, paused, xfer, calls, device, cur, tried, marker, stop, retry>>

\* two seconds after a completion, by name; then pruneCompletedItems drops what ended a day ago
TimerFires(f) ==
  /\ f \in timers /\ timers' = timers \ {f}
  /\ \E old \in SUBSET {g \in Files \ tried : status[g] \in Gone} :
       Remove({f} \union old) /\ held' = held \ old
  /\ Told
  /\ UNCHANGED <<saved, stalled, paused, xfer, cancels, sweep, device, cur, tried, marker, stop, retry>>

-----------------------------------------------------------------------------
\* The user

\* Library > Download: an explicit request lifts a cancel
Download(f) ==
  /\ f \in Hasty \/ loop = "idle" \/ (status[f] = "absent" /\ stop = "no")
  /\ \/ /\ status[f] = "cancelled" /\ Put({f}, "pending")
     \/ status[f] = "absent" /\ f \notin saved /\ Put({f}, "pending")
     \/ /\ status[f] \notin {"absent", "cancelled"} \/ (status[f] = "absent" /\ f \in saved)
        /\ UNCHANGED <<status, row>>
  /\ held' = IF status[f] = "cancelled" THEN held \ {f} ELSE held
  /\ marker' = marker \ {f} /\ ToldAndDrained
  /\ UNCHANGED <<saved, stalled, timers, paused, xfer, cancels, sweep, device, cur, tried, stop, retry>>

\* the files a reconciliation of the device's list adds (startSyncSession)
Wanted == {f \in Files : status[f] = "absent" /\ row[f] \notin {"pending", "downloading"} /\ f \notin saved}

Reconcile ==
  /\ Files \ saved # {}
  /\ Put(Wanted, "pending")
  /\ marker' = marker \intersect saved /\ ToldAndDrained
  /\ stop' = IF stop = "halted" THEN "no" ELSE stop
  /\ UNCHANGED <<saved, stalled, timers, paused, xfer, calls, cur, tried, retry>>

\* Device page > Sync
Sync == connected /\ (Wanted \subseteq Hasty \/ stop = "no") /\ Reconcile /\ UNCHANGED device

\* two seconds after ready, when the list is there: sync, and drain what is queued.
\* The disconnect has ended a transfer that a cancel waited for.
AutoSync ==
  /\ connected /\ stop # "asked" /\ due /\ due' = FALSE /\ UNCHANGED connected
  /\ \/ Reconcile
     \/ /\ Files \subseteq saved
        /\ loop' = IF loop = "idle" /\ \E f \in Files : status[f] = "pending" THEN "start" ELSE loop
        /\ UNCHANGED <<rows, xfer, calls, cur, tried, signal, marker, stop, mute, retry>>

\* Retry: everything failed, interrupted or cancelled
RetryAll ==
  /\ connected
  /\ LET S == {f \in Files : status[f] \in Gone} IN
       /\ S # {} /\ (S \subseteq Hasty \/ loop = "idle") /\ Requeue(S) /\ held' = held \ S
       /\ marker' = marker \ {f \in S : status[f] # "cancelled"}
  /\ paused' = FALSE /\ ToldAndDrained
  /\ UNCHANGED <<saved, stalled, timers, xfer, cancels, sweep, device, cur, tried, stop, retry>>

\* cancelDownload, up to its wait
Cancel(f) ==
  /\ status[f] \in {"pending", "downloading"}
  /\ IF Intent(f)
     THEN /\ status' = [status EXCEPT ![f] = "cancelling"] /\ row' = row
          /\ xfer' = [xfer EXCEPT !.abort = TRUE] /\ cancels' = cancels \union {f}
     ELSE Put({f}, "cancelled") /\ UNCHANGED <<xfer, cancels>>
  /\ held' = held \union {f} /\ marker' = marker \union {f} /\ Told
  /\ UNCHANGED <<saved, stalled, timers, paused, sweep, device, cur, tried, stop, retry>>

\* variant: once the transfer has settled the row is left to it
CancelForgets(f) ==
  /\ f \in cancels /\ ~Intent(f) /\ cancels' = cancels \ {f}
  /\ UNCHANGED <<rows, xfer, sweep, held, device, ui>>

\* the transfer has settled: cancelled, whatever the row says by now
CancelDone(f) ==
  /\ f \in cancels /\ ~Intent(f)
  /\ Put({f}, "cancelled") /\ cancels' = cancels \ {f} /\ Told
  /\ UNCHANGED <<saved, stalled, timers, paused, xfer, sweep, held, device, cur, tried, marker, stop, retry>>

\* cancelDownloads() in the renderer, then cancelAll in main up to its wait, if there
\* is a transfer to wait for
CancelAll ==
  LET S == {f \in Files : status[f] \in {"pending", "downloading"}}
      A == {f \in S : OnBus(f)}
  IN /\ sweep = "no"
     /\ status' = [f \in Files |-> IF f \in A THEN "cancelling"
                                   ELSE IF f \in S THEN "cancelled" ELSE status[f]]
     /\ row' = [f \in Files |-> IF f \in S \ A THEN "cancelled" ELSE row[f]]
     /\ held' = held \union S
     /\ signal' = (signal \/ Running) /\ mute' = FALSE
     /\ IF xfer.at = "none"
        THEN stop' = (IF Running THEN "halted" ELSE "no") /\ marker' = {} /\ UNCHANGED <<xfer, sweep>>
        ELSE /\ stop' = "asked" /\ sweep' = IF A = {} THEN NoFile ELSE cur
             /\ xfer' = [xfer EXCEPT !.abort = TRUE] /\ marker' = marker
     /\ UNCHANGED <<saved, stalled, timers, paused, cancels, device, loop, cur, tried, retry>>

\* cancel-all again while the first one waits: main returns at once.  The renderer
\* ignores the click, but from the next one counts an epoch that no update answers.
CancelAllAgain ==
  /\ sweep # "no" /\ (Hasty = Files \/ stop = "asked")
  /\ stop' = "halted" /\ marker' = {} /\ mute' = (mute \/ stop # "asked")
  /\ signal' = TRUE
  /\ UNCHANGED <<rows, xfer, calls, device, loop, cur, tried, retry>>

CancelAllDone ==
  /\ sweep # "no" /\ xfer.at = "none"
  /\ IF sweep \in Files /\ status[sweep] = "cancelling"
     THEN Put({sweep}, "cancelled") /\ Told ELSE UNCHANGED <<status, row, mute, signal, loop>>
  /\ sweep' = "no" /\ marker' = {}
  /\ stop' = IF stop = "asked" THEN "halted" ELSE stop
  /\ UNCHANGED <<saved, stalled, timers, paused, xfer, cancels, held, device, cur, tried, retry>>

SetPaused ==
  /\ paused' = ~paused /\ UNCHANGED status /\ ToldOf(~paused)
  /\ UNCHANGED <<row, saved, stalled, timers, xfer, calls, device, cur, tried, marker, stop, retry>>

\* dismissTerminal, and clearCompleted for each of its rows
Dismiss(f) ==
  /\ status[f] \in Terminal /\ f \notin tried \ Hasty /\ Remove({f}) /\ held' = held \ {f} /\ Told
  /\ UNCHANGED <<saved, stalled, timers, paused, xfer, cancels, sweep, device, cur, tried, marker, stop, retry>>

-----------------------------------------------------------------------------
\* The device and the process

\* cancelActiveDownloads('interrupted'); the loop's controller is aborted
Disconnect ==
  /\ connected /\ connected' = FALSE /\ due' = FALSE
  /\ Put({f \in Files : status[f] = "downloading"}, "interrupted")
  /\ signal' = (signal \/ Running)
  /\ mute' = IF \E f \in Files : status[f] = "downloading" THEN FALSE ELSE mute
  /\ UNCHANGED <<saved, stalled, timers, paused, xfer, calls, loop, cur, tried, marker, stop, retry>>

\* A reconnection outlasts a read of the queue, and the session of a transfer that the
\* disconnect found before it began.
Reconnects ==
  /\ ~connected /\ loop # "start"
  /\ ~(signal /\ \E f \in tried \ Hasty : status[f] = "pending")

\* step "ready": an idle loop asks for a retry of what was interrupted
Ready ==
  /\ Reconnects /\ connected' = TRUE /\ due' = TRUE
  /\ retry' = (retry \/ (loop = "idle" /\ \E f \in Files : status[f] = "interrupted"))
  /\ UNCHANGED <<rows, xfer, calls, loop, cur, tried, signal, marker, stop, mute>>

\* loadQueueFromDatabase: what is on disk leaves the table, and so do old pending rows
Restored(f, old) ==
  CASE row[f] = "cancelled" -> "cancelled"
    [] row[f] = "failed" /\ f \notin saved -> "failed"
    [] row[f] \in {"pending", "downloading"} /\ f \notin saved \union old -> "pending"
    [] OTHER -> "absent"

\* the process dies and starts again
Crash ==
  /\ \E old \in SUBSET Files :
       /\ status' = [f \in Files |-> Restored(f, old)]
       /\ row' = [f \in Files |-> IF row[f] \in {"none", "completed", "interrupted"} THEN row[f]
                                  ELSE IF Restored(f, old) = "absent" THEN "none" ELSE Restored(f, old)]
  /\ saved' = saved /\ stalled' = {} /\ timers' = {} /\ paused' = FALSE
  /\ xfer' = NoXfer /\ cancels' = {} /\ sweep' = "no" /\ connected' = FALSE /\ due' = FALSE
  /\ held' = {f \in held : status[f] = "cancelled"}
  /\ loop' = "idle" /\ cur' = NoFile /\ tried' = {} /\ signal' = FALSE
  /\ marker' = {} /\ stop' = "no" /\ mute' = FALSE /\ retry' = FALSE

-----------------------------------------------------------------------------
Transfer ==
  \/ XferRefused \/ XferBegins \/ XferOnBus \/ XferOffBus \/ XferProgress \/ XferReceived
  \/ XferFails \/ XferStalls \/ ProcessRefuses \/ ProcessFails \/ ProcessSaves \/ XferReturns
Renderer == LoopStart \/ LoopNext \/ AbortArrives \/ AutoRetry \/ Report
Timers == StallCheck \/ \E f \in Files : TimerFires(f)
Waits == CancelAllDone \/ \E f \in Files : CancelDone(f)
User ==
  \/ Sync \/ RetryAll \/ CancelAll \/ CancelAllAgain \/ SetPaused
  \/ \E f \in Files : Download(f) \/ Cancel(f) \/ Dismiss(f)
Device == Disconnect \/ Ready \/ AutoSync

Next == Transfer \/ Renderer \/ Timers \/ Waits \/ User \/ Device \/ Crash

Spec == Init /\ [][Next]_vars

Stall(f) == StallCheck /\ status[f] = "downloading" /\ status'[f] = "failed"

\* A transfer gets the lane and ends (the driver's watchdog bounds each read), a
\* handler returns, a timer fires.  Nothing is assumed of the user or the cable.
Fairness ==
  /\ WF_vars(XferRefused \/ XferBegins \/ XferReceived \/ XferFails \/ ProcessRefuses \/ ProcessFails
             \/ ProcessSaves \/ XferReturns)
  /\ WF_vars(LoopStart) /\ WF_vars(LoopNext) /\ WF_vars(Report) /\ WF_vars(AutoRetry)
  /\ WF_vars(AutoSync) /\ WF_vars(CancelAllDone)
  /\ \A f \in Files : WF_vars(CancelDone(f)) /\ WF_vars(TimerFires(f)) /\ WF_vars(Stall(f))

FairSpec == Spec /\ Fairness

-----------------------------------------------------------------------------
\* A file the user cancelled stays cancelled, in memory and, once the cancel is
\* answered, in the database: no late answer of its transfer, reconciliation,
\* automatic retry, stall or restart queues or saves it, until the user asks.
CancelHeld ==
  \A f \in held :
    /\ status[f] \in {"cancelling", "cancelled"}
    /\ status[f] = "cancelled" => row[f] = "cancelled"

\* A row that is on the bus or being cancelled does not stay so: transfers that
\* end without a word are found by the stall check, cancels are answered.
RowsSettle ==
  \A f \in Files : status[f] \in {"downloading", "cancelling"}
                     ~> status[f] \notin {"downloading", "cancelling"}

Steady == <>[](connected /\ ~paused)

\* With the device there and no pause, a pending row is taken: what was queued while
\* a session ran, what failed and was asked for again after it, what a disconnect
\* or a pause left.
PendingDrained ==
  Steady => \A f \in Files \ Hasty : status[f] = "pending" ~> status[f] # "pending"

\* The comment on processedThisRun: an item that failed in a run and is pending again
\* retries in the next session.
RetriesNextSession ==
  Steady => \A f \in Files :
    status[f] = "pending" /\ f \in tried /\ stop = "no" ~> status[f] # "pending" \/ stop # "no"

\* With the device there, a transfer it interrupted is queued again, by the ready
\* event or by the end of the session it interrupted, unless all was cancelled.
InterruptedRetried ==
  Steady => \A f \in Files :
    status[f] = "interrupted" /\ (Running \/ ~connected) ~> status[f] # "interrupted" \/ stop # "no"
=============================================================================
