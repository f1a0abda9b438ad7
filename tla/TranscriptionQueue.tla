------------------------- MODULE TranscriptionQueue -------------------------
(***************************************************************************)
(* The transcription queue of the brain (transcription.ts): its table, the *)
(* main lane (a queue pass, or the directed run of one API request), the   *)
(* short lane beside it, the cancellation marks that the gates of a run    *)
(* read, and the repairs of a start after a crash.                         *)
(*                                                                         *)
(* An action runs up to the next await, so a handler that adds a row also  *)
(* makes the synchronous part of the queue pass it kicks.  The provider is *)
(* configured and the feature enabled throughout; which waiting row is     *)
(* first (reorder, explicit request, date) is left open.                   *)
(***************************************************************************)
CONSTANTS
  Recs,        \* recordings
  Brief,       \* recordings short enough to run beside one that is not
  Ids,         \* rows of the queue; an id nothing refers to stands for a new one
  NoRec,       \* null recording
  NoId,        \* null row
  TwoLanes,    \* setting maxConcurrentRecordings = 2
  Restarts     \* recordings the user may restart with a new CPU limit

ASSUME QueueAssumption ==
  /\ NoRec \notin Recs /\ NoId \notin Ids /\ Brief \subseteq Recs /\ Restarts \subseteq Recs
  /\ TwoLanes \in BOOLEAN

VARIABLES
  row,       \* table transcription_queue
  status,    \* recordings.transcription_status
  lock,      \* transcription_service_lock; "dead": its holder crashed
  lane,      \* "main" and "short": the run of one row
  directed,  \* targetedRunActive: the main lane serves one API request
  stopAll,   \* cancelRequested
  paused,    \* queuePaused
  marks,     \* cancelledRecordings
  restart,   \* restarts with a new CPU limit: they wait for the old run to end
  timer      \* the 10 s timer: never started by this process, on, or off

tables == <<row, status>>
flags == <<directed, stopAll, paused, marks>>
vars == <<tables, lock, lane, flags, restart, timer>>

Lanes == {"main", "short"}
RowStates == {"none", "pending", "processing", "failed", "ended"}
\* "settled": none, complete, no_speech or error, and with or without a transcript
Statuses == {"settled", "pending", "processing"}
RunPoints == {"checking", "working", "analysis", "after", "closing", "backoff"}
Outcomes == {"open", "completed", "no_speech", "cancelled", "failed"}

NoRow == [of |-> NoRec, st |-> "none"]
\* cut, joined (ghosts): the run was cancelled; the other lane took its recording
NoRun == [pc |-> "idle", id |-> NoId, of |-> NoRec, was |-> "settled", out |-> "open",
          cut |-> FALSE, joined |-> FALSE]

Other(k) == IF k = "main" THEN "short" ELSE "main"
Live(k) == lane[k].pc \in RunPoints
On(k, r) == Live(k) /\ lane[k].of = r
\* getActiveTranscriptions, and the recordings with an owned pipeline run
Active(r) == \E k \in Lanes : On(k, r)
Owned(r) == \E k \in Lanes : On(k, r) /\ lane[k].pc \in {"working", "analysis", "after"}
Marked(k) == lane[k].of \in marks
Busy == lane["main"].pc # "idle"

Pending(R) == {i \in Ids : R[i].st = "pending"}
\* failed for now: the row is retried while it has tries left (its error allows it)
Retryable(R) == {i \in Ids : R[i].st = "failed"}
\* a deleted row, or one that is only history: nothing reads it
Unused(R) == {i \in Ids : R[i].st = "none" /\ \A k \in Lanes : lane[k].id # i}
Fresh(R) == {i \in Unused(R) : i = CHOOSE j \in Unused(R) : TRUE}
\* UPDATE ... WHERE id = ?: a deleted row stays deleted
Put(i, s) == IF row[i].st = "none" THEN row ELSE [row EXCEPT ![i].st = s]
Retire(i) == [row EXCEPT ![i] = NoRow]

Init ==
  /\ row = [i \in Ids |-> NoRow] /\ status = [r \in Recs |-> "settled"]
  /\ lock = "free" /\ lane = [k \in Lanes |-> NoRun] /\ directed = FALSE
  /\ stopAll = FALSE /\ paused = FALSE /\ marks = {}
  /\ restart = [r \in Recs |-> "none"] /\ timer = "unborn"

-----------------------------------------------------------------------------
(* The queue pass                                                          *)

\* runQueueItem up to its first await, on a row of table R.
Opened(k, i, R) ==
  LET r == R[i].of
      met == \E m \in Lanes : m # k /\ On(m, r)
  IN [m \in Lanes |->
        IF m = k THEN [NoRun EXCEPT !.pc = "checking", !.id = i, !.of = r, !.joined = met]
        ELSE [lane[m] EXCEPT !.joined = @ \/ On(m, r)]]
Taken(i, R) == [R EXCEPT ![i].st = "processing"]

\* Failed rows past their backoff wait again.
Requeued(R, D) ==
  [i \in Ids |-> IF i \in D THEN [R[i] EXCEPT !.st = "pending"] ELSE R[i]]
Waiting(R, S, D) == [r \in Recs |-> IF \E i \in D : R[i].of = r THEN "pending" ELSE S[r]]

\* maybeStartShortLane: beside a long main job, while its voices do not run here.
StartShort(R, S) ==
  /\ TwoLanes /\ lane["short"].pc = "idle" /\ Live("main") /\ lane["main"].of \notin Brief
  /\ ~paused' /\ ~stopAll
  /\ \E i \in Pending(R) : R[i].of \in Brief /\ row' = Taken(i, R) /\ lane' = Opened("short", i, R)
  /\ status' = S /\ UNCHANGED <<directed, stopAll, marks>>

\* Nothing to do: the tables as the caller left them.
Idles(R, S, L) == row' = R /\ status' = S /\ lock' = L /\ UNCHANGED <<lane, directed, marks>>

\* variant: cancelRequested is only ever set
StopKept == UNCHANGED stopAll
\* A pass that saw it resets it.
StopSeen == stopAll' = FALSE

\* processQueue up to its first await, on tables R and S, with lock L: a lock that
\* is not free is left alone, or taken over when it is five minutes old.
Kick(R, S, L) ==
  \/ Busy /\ ~directed /\ StartShort(R, S) /\ lock' = L
  \/ (Busy \/ L # "free") /\ Idles(R, S, L) /\ UNCHANGED stopAll
  \/ /\ ~Busy
     /\ \/ paused' /\ Idles(R, S, "free") /\ UNCHANGED stopAll
        \/ /\ ~paused'
           /\ \E D \in SUBSET Retryable(R) :
                LET Q == Requeued(R, D)
                    P == Waiting(R, S, D)
                IN \/ Pending(Q) = {} /\ Idles(Q, P, "free") /\ UNCHANGED stopAll
                   \/ Pending(Q) # {} /\ stopAll /\ Idles(Q, P, "free") /\ StopSeen
                   \/ /\ ~stopAll
                      /\ \E i \in Pending(Q) : row' = Taken(i, Q) /\ lane' = Opened("main", i, Q)
                      /\ status' = P /\ lock' = "held"
                      /\ UNCHANGED <<directed, stopAll, marks>>

Tick == timer = "on" /\ UNCHANGED <<paused, restart, timer>> /\ Kick(row, status, lock)

\* Between two rows: take another, or leave and give back the lock.
NextRow(k) ==
  /\ k = "main" /\ lane[k].pc = "next"
  /\ LET more == ~directed /\ ~stopAll /\ ~paused /\ Pending(row) # {}
     IN \/ /\ more
           /\ \E i \in Pending(row) : row' = Taken(i, row) /\ lane' = Opened(k, i, row)
           /\ UNCHANGED <<lock, directed, stopAll>>
        \/ /\ ~more
           /\ lane' = [lane EXCEPT ![k] = NoRun] /\ lock' = "free"
           /\ directed' = FALSE /\ StopSeen /\ UNCHANGED row
  /\ UNCHANGED <<status, paused, marks, restart, timer>>

-----------------------------------------------------------------------------
(* Requests                                                                *)

\* addToQueue: the row that waits or runs, or a new one.
Add(r, R, S) ==
  IF \E i \in Ids : R[i].of = r /\ R[i].st \in {"pending", "processing"} THEN {<<R, S>>}
  ELSE {<<[R EXCEPT ![i] = [of |-> r, st |-> "pending"]],
          [S EXCEPT ![r] = "pending"]>> : i \in Fresh(R)}

\* recordings:addToQueue; reprocessWith makes the same step when r is idle.
Ask(r) ==
  /\ UNCHANGED <<paused, restart, timer>>
  /\ \E A \in Add(r, row, status) : Kick(A[1], A[2], lock)

\* transcription:retry, and a recovered remote result that resumes its pipeline.
Retry(r) ==
  /\ ~Owned(r) /\ UNCHANGED <<paused, restart, timer>>
  /\ \E A \in Add(r, row, status) : Kick(A[1], [A[2] EXCEPT ![r] = "pending"], lock)

\* submitTargetedTranscriptions of one recording that has no transcript and no receipt.
Submit(r) ==
  /\ ~paused /\ ~Busy /\ \A k \in Lanes : ~Live(k)
  /\ ~\E i \in Ids : row[i].of = r /\ row[i].st = "processing"
  /\ \E A \in Add(r, row, status) : \E i \in Pending(A[1]) :
       /\ A[1][i].of = r /\ status' = A[2]
       /\ \/ stopAll /\ row' = A[1] /\ lock' = "free" /\ StopSeen /\ UNCHANGED <<lane, directed>>
          \/ /\ ~stopAll /\ row' = Taken(i, A[1]) /\ lane' = Opened("main", i, A[1])
             /\ lock' = "held" /\ directed' = TRUE /\ UNCHANGED stopAll
  /\ UNCHANGED <<paused, marks, restart, timer>>

\* What cancelCurrentTranscription leaves.
Cancelled(r) ==
  /\ marks' = IF Active(r) THEN marks \cup {r} ELSE marks
  /\ row' = [i \in Ids |-> IF row[i].of = r THEN NoRow ELSE row[i]]
  /\ status' = [status EXCEPT ![r] = "settled"]
  /\ lane' = [k \in Lanes |-> [lane[k] EXCEPT !.cut = @ \/ On(k, r)]]
  /\ UNCHANGED <<lock, directed, stopAll, paused, timer>>

Drop(x) == IF x = "waiting" THEN "dropped" ELSE x

\* cancelTranscription
Cancel(r) == Cancelled(r) /\ restart' = [restart EXCEPT ![r] = Drop(@)]

\* cancelAllTranscriptions
CancelAll ==
  /\ restart' = [r \in Recs |-> Drop(restart[r])]
  /\ stopAll' = TRUE /\ marks' = marks \cup {r \in Recs : Active(r)}
  /\ row' = [i \in Ids |-> CASE row[i].st = "pending" -> NoRow
                             [] row[i].st = "processing" -> [row[i] EXCEPT !.st = "ended"]
                             [] OTHER -> row[i]]
  /\ status' = [r \in Recs |->
       IF \E i \in Ids : row[i].of = r /\ row[i].st \in {"pending", "processing"} THEN "settled"
       ELSE status[r]]
  /\ lane' = [k \in Lanes |-> [lane[k] EXCEPT !.cut = @ \/ Live(k)]]
  /\ UNCHANGED <<lock, directed, paused, timer>>

\* restartLocalStage: a cancel that asks again once the old run has left.
RestartStage(r) ==
  /\ r \in Restarts /\ restart[r] = "none" /\ \E k \in Lanes : On(k, r) /\ lane[k].pc = "working"
  /\ Cancelled(r) /\ restart' = [restart EXCEPT ![r] = "waiting"]

RestartLeft(r) ==
  /\ restart[r] = "waiting" /\ ~Active(r)
  /\ restart' = [restart EXCEPT ![r] = "none"] /\ UNCHANGED <<paused, timer>>
  /\ \E A \in Add(r, row, status) : Kick(A[1], [A[2] EXCEPT ![r] = "pending"], lock)

\* After 30 s, or when a later cancel won.
RestartGivenUp(r) ==
  /\ restart[r] = "dropped" \/ (restart[r] = "waiting" /\ Active(r))
  /\ restart' = [restart EXCEPT ![r] = "none"] /\ UNCHANGED <<tables, lock, lane, flags, timer>>

Pause == ~paused /\ paused' = TRUE /\ UNCHANGED <<tables, lock, lane, directed, stopAll, marks, restart, timer>>
Resume == paused /\ paused' = FALSE /\ Kick(row, status, lock) /\ UNCHANGED <<restart, timer>>

-----------------------------------------------------------------------------
(* One run                                                                 *)

Moves(k, to) == lane' = [lane EXCEPT ![k].pc = to, ![k].was = "settled"]
Closes(k, outcome) == lane' = [lane EXCEPT ![k].pc = "closing", ![k].out = outcome, ![k].was = "settled"]
Keeps == UNCHANGED <<lock, flags, restart, timer>>

\* An engine that is not available fails the attempt before it begins.
Unavailable(k) ==
  /\ lane[k].pc = "checking" \/ (lane[k].pc = "backoff" /\ ~Marked(k))
  /\ Closes(k, "failed") /\ UNCHANGED tables /\ Keeps

\* transcribeOwnedRecording begins; gates are read before a repeated attempt only.
Begin(k) ==
  /\ lane[k].pc = "checking" \/ (lane[k].pc = "backoff" /\ ~Marked(k))
  /\ IF Owned(lane[k].of) THEN Closes(k, "failed") /\ UNCHANGED status
     ELSE /\ lane' = [lane EXCEPT ![k].pc = "working", ![k].was = status[lane[k].of]]
          /\ status' = [status EXCEPT ![lane[k].of] = "processing"]
  /\ UNCHANGED row /\ Keeps

\* The provider stage ends at a gate, in an error, without speech, or with text.
Stopped(k) ==
  /\ lane[k].pc = "working" /\ Marked(k)
  /\ status' = [status EXCEPT ![lane[k].of] = lane[k].was] /\ Closes(k, "cancelled")
  /\ UNCHANGED row /\ Keeps

\* A stage throws (the voices after the text is saved), or the removal of prepared
\* audio does when the stages have returned.
Fails(k) ==
  /\ \/ lane[k].pc \in {"working", "analysis", "after"}
     \/ lane[k].pc = "closing" /\ lane[k].out # "failed"
  /\ Closes(k, "failed") /\ UNCHANGED tables /\ Keeps

NoSpeech(k) ==
  /\ lane[k].pc = "working"
  /\ status' = [status EXCEPT ![lane[k].of] = "settled"] /\ Closes(k, "no_speech")
  /\ UNCHANGED row /\ Keeps

Save(k) ==
  /\ lane[k].pc = "working" /\ ~Marked(k) /\ Moves(k, "analysis")
  /\ UNCHANGED tables /\ Keeps

\* Analysis and voices: a summary that fails is left empty, a cancel ends the run.
Analysed(k) ==
  /\ lane[k].pc = "analysis"
  /\ IF Marked(k)
     THEN Closes(k, "cancelled") /\ UNCHANGED status
     ELSE Moves(k, "after") /\ status' = [status EXCEPT ![lane[k].of] = "settled"]
  /\ UNCHANGED row /\ Keeps

Done(k) ==
  /\ lane[k].pc = "after" /\ Closes(k, IF Marked(k) THEN "cancelled" ELSE "completed")
  /\ UNCHANGED tables /\ Keeps

\* Another attempt of the chain.
Again(k) ==
  /\ lane[k].pc = "closing" /\ lane[k].out = "failed"
  /\ lane' = [lane EXCEPT ![k].pc = "backoff", ![k].out = "open"]
  /\ UNCHANGED tables /\ Keeps

\* variant: the mark of a recording stays
UnmarkedNever(k) == marks
\* variant: every mark is cleared
UnmarkedAll(k) == {}
\* The finally of runQueueItem, after the row and the status were written.
Unmarked(k) == marks \ {lane[k].of}

Leaves(k) ==
  /\ lane' = [lane EXCEPT ![k] = IF k = "main" THEN [NoRun EXCEPT !.pc = "next"] ELSE NoRun]
  /\ marks' = Unmarked(k)
  /\ UNCHANGED <<lock, directed, stopAll, paused, restart, timer>>

\* variant: only the row is closed
RestoredNever(k) == status
\* A cancelled run hands the status back.
Restored(k) == IF lane[k].out = "cancelled" THEN [status EXCEPT ![lane[k].of] = "settled"] ELSE status

Settle(k) ==
  /\ lane[k].pc = "closing" /\ lane[k].out # "failed"
  /\ row' = Retire(lane[k].id) /\ status' = Restored(k)
  /\ Leaves(k)

\* The chain threw: a marked run is a cancellation, another one a failure.
Throws(k) ==
  /\ \/ lane[k].pc = "closing" /\ lane[k].out = "failed"
     \/ lane[k].pc = "backoff" /\ Marked(k)
  /\ IF Marked(k)
     THEN row' = Retire(lane[k].id)
     ELSE row' = Retire(lane[k].id) \/ row' = Put(lane[k].id, "failed")
  /\ status' = [status EXCEPT ![lane[k].of] = "settled"]
  /\ Leaves(k)

-----------------------------------------------------------------------------
(* Crash and start                                                         *)

Crash ==
  /\ lane' = [k \in Lanes |-> NoRun] /\ directed' = FALSE /\ stopAll' = FALSE /\ paused' = FALSE
  /\ marks' = {} /\ restart' = [r \in Recs |-> "none"] /\ timer' = "unborn"
  /\ lock' = IF lock = "free" THEN "free" ELSE "dead"
  /\ row' = [i \in Ids |-> IF row[i].st = "ended" THEN NoRow ELSE row[i]]
  /\ UNCHANGED status

\* variant: whatever says 'processing' is taken for a leftover
RepairedAll == [i \in Ids |-> IF row[i].st = "processing" THEN NoRow ELSE row[i]]

\* resetStuckTranscriptions: what no run of this process owns was interrupted.
Repaired == [i \in Ids |->
  IF row[i].st = "processing" /\ ~Active(row[i].of) THEN NoRow ELSE row[i]]
Stuck(r) ==
  /\ ~Active(r)
  /\ \/ status[r] = "processing"
     \/ status[r] = "pending" /\ ~\E i \in Pending(row) : row[i].of = r

\* startTranscriptionProcessor
Start ==
  /\ timer # "on" /\ timer' = "on" /\ UNCHANGED <<paused, restart>>
  /\ Kick(Repaired, [r \in Recs |-> IF Stuck(r) THEN "settled" ELSE status[r]],
          IF ~Busy /\ lane["short"].pc = "idle" THEN "free" ELSE lock)

\* stopTranscriptionProcessor
Stop == timer = "on" /\ timer' = "off" /\ UNCHANGED <<tables, lock, lane, flags, restart>>

-----------------------------------------------------------------------------
RunStep(k) ==
  \/ NextRow(k) \/ Unavailable(k) \/ Begin(k) \/ Stopped(k) \/ Fails(k) \/ NoSpeech(k)
  \/ Save(k) \/ Analysed(k) \/ Done(k) \/ Again(k) \/ Settle(k) \/ Throws(k)

Request(r) ==
  \/ Ask(r) \/ Retry(r) \/ Submit(r) \/ Cancel(r)
  \/ RestartStage(r) \/ RestartLeft(r) \/ RestartGivenUp(r)

Next ==
  \/ \E k \in Lanes : RunStep(k)
  \/ \E r \in Recs : Request(r)
  \/ Tick \/ CancelAll \/ Pause \/ Resume \/ Crash \/ Start \/ Stop

Spec == Init /\ [][Next]_vars

\* Providers answer or time out, the timer ticks, and the app starts the processor.
Fairness ==
  /\ \A k \in Lanes : WF_vars(RunStep(k))
  /\ WF_vars(Tick) /\ WF_vars(timer = "unborn" /\ Start)
FairSpec == Spec /\ Fairness

-----------------------------------------------------------------------------
(* Properties                                                              *)

\* The shape of the state.
TypeOK ==
  /\ row \in [Ids -> [of : Recs \cup {NoRec}, st : RowStates]]
  /\ status \in [Recs -> Statuses]
  /\ lock \in {"free", "held", "dead"}
  /\ lane \in [Lanes -> [pc : RunPoints \cup {"idle", "next"}, id : Ids \cup {NoId},
                         of : Recs \cup {NoRec}, was : Statuses, out : Outcomes, cut : BOOLEAN, joined : BOOLEAN]]
  /\ directed \in BOOLEAN /\ stopAll \in BOOLEAN /\ paused \in BOOLEAN /\ marks \in SUBSET Recs
  /\ restart \in [Recs -> {"none", "waiting", "dropped"}] /\ timer \in {"unborn", "on", "off"}

\* While a run that nobody cancelled is under way its row stays 'processing', so
\* no start repair, queue pass or other lane takes the row from under it.
LiveRowsKept ==
  \A k \in Lanes : Live(k) /\ ~lane[k].cut =>
    row[lane[k].id].st = "processing" /\ row[lane[k].id].of = lane[k].of

\* Once the processor has started, a recording that shows 'processing' has a run:
\* otherwise its Transcribe button would be dead.
NoDeadButton ==
  timer # "unborn" => \A r \in Recs : status[r] = "processing" => Active(r)

\* A run cancelled at a gate was itself cancelled: a mark left by an earlier run
\* of the recording never stops a later request (while the lanes do not share it).
LaterRequestKept ==
  \A k \in Lanes : Live(k) /\ ~lane[k].joined /\ (Marked(k) \/ lane[k].out = "cancelled") => lane[k].cut

Saves(k) == lane[k].pc = "working" /\ lane'[k].pc = "analysis"
\* A run that was cancelled saves no transcript (while the lanes do not share its
\* recording).
CancelSavesNothing == [][\A k \in Lanes : Saves(k) => ~lane[k].cut \/ lane[k].joined]_vars

\* Whatever a crash, a cancel of everything or an earlier pass left behind, while
\* rows wait the main lane comes to run one, unless the user paused the queue or
\* stopped the processor.
QueueMoves ==
  (Pending(row) # {}) ~> (Live("main") \/ Pending(row) = {} \/ paused \/ timer = "off")

\* The comment of cancelledRecordings, without the proviso.
CancelIsFinal == [][\A k \in Lanes : Saves(k) => ~lane[k].cut]_vars
\* The comment of addToQueue: a recording has one active row.
OneActiveRow ==
  \A i, j \in Ids : row[i].of = row[j].of /\ row[i].st \in {"pending", "processing"}
                    /\ row[j].st \in {"pending", "processing"} => i = j
=============================================================================
