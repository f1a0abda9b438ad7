------------------------------ MODULE StorageMove ------------------------------
(***************************************************************************)
(* Changing the recordings folder (storage-move.ts) while the rest of the  *)
(* program lives on: the move copies every file, rewrites the stored paths *)
(* and switches the setting; a download, an import, a live recording and   *)
(* the folder watcher write files or rows at the same time.                *)
(*                                                                         *)
(* Main runs one turn at a time, so a step is what happens between two     *)
(* awaits: the rewrite of the paths and the save of the setting are one    *)
(* turn (saveConfig waits for nothing).  Copies have other names than the  *)
(* staging files of downloads; a staging file in the folder can only make  *)
(* the check or a copy fail, which they may do anyway.                     *)
(***************************************************************************)
EXTENDS Naturals, FiniteSets

CONSTANTS
  Recs,      \* recordings
  Folders,   \* folders the recordings may live in
  None,      \* no folder, no recording
  MaxMoves,  \* bound: moves and switches started
  MaxKills   \* bound: times the process ends

ASSUME FoldersAssumption == Folders # {} /\ None \notin Folders \union Recs
ASSUME BoundsAssumption == MaxMoves \in Nat /\ MaxKills \in Nat

VARIABLES
  config,   \* storage.recordingsPath
  files,    \* folder -> recordings whose file is there
  rows,     \* recording -> folder of its stored path, None without a row
  move,     \* the running move and what it knows
  switch,   \* switchFolder: where it is and the folder asked for
  watch,    \* folder the watcher looks at
  noticed,  \* files the watcher will look at in a second
  paused,   \* queue -> paused
  busy,     \* a transcription runs
  xfer,     \* the download on its way to the library
  live,     \* the stream being recorded and its folder
  late,     \* ghost: recordings written after the folder was listed
  moves,    \* moves and switches started
  kills     \* times the process ended

mover == <<move, switch, moves>>
disk == <<config, files, rows, late>>
queues == <<paused, busy>>
writers == <<xfer, live>>
watcher == <<watch, noticed>>
vars == <<mover, disk, queues, writers, watcher, kills>>

Queues == {"downloads", "transcription"}
NoMove == [at |-> "idle", to |-> None, cancel |-> FALSE, todo |-> {}, copied |-> {},
           was |-> {}, left |-> {}]
NoSwitch == [at |-> "no", to |-> None]
NoXfer == [rec |-> None, at |-> "no", row |-> "none", stage |-> None]
NoStream == [rec |-> None, dir |-> None]

\* storageMoveInProgress
Moving == move.at # "idle"
\* nobody changes the folder, and no listing of it is in use
Settled == ~Moving /\ switch.at = "no"
Listed == move.at \in {"copy", "undo", "init"} \/ switch.at # "no"
\* the row of the recording leads to its file in the folder in use
Playable(r) == rows[r] = config /\ r \in files[config]
Known(r) == rows[r] # None \/ \E f \in Folders : r \in files[f]

TypeOK ==
  /\ config \in Folders /\ files \in [Folders -> SUBSET Recs]
  /\ rows \in [Recs -> Folders \union {None}]
  /\ move \in [at : {"idle", "drain", "wait", "check", "copy", "undo", "init"},
               to : Folders \union {None}, cancel : BOOLEAN, todo : SUBSET Recs,
               copied : SUBSET Recs, was : SUBSET Recs, left : SUBSET Queues]
  /\ (Moving => move.to \in Folders /\ watch = None)
  /\ switch \in [at : {"no", "listed", "checked", "saved"}, to : Folders \union {None}]
  /\ (switch.at # "no" => switch.to \in Folders)
  /\ watch \in Folders \union {None} /\ noticed \subseteq Recs \X Folders
  /\ paused \in [Queues -> BOOLEAN] /\ busy \in BOOLEAN
  /\ xfer \in {NoXfer} \union [rec : Recs, at : {"asked", "running"},
                                row : {"pending", "downloading", "failed"},
                                stage : Folders \union {None}]
  /\ live \in {NoStream} \union [rec : Recs, dir : Folders]
  /\ late \subseteq Recs /\ moves \in 0..MaxMoves /\ kills \in 0..MaxKills

Init ==
  /\ config \in Folders
  /\ files \in {[f \in Folders |-> IF f = config THEN S ELSE {}] : S \in SUBSET Recs}
  /\ rows = [r \in Recs |-> IF r \in files[config] THEN config ELSE None]
  /\ move = NoMove /\ switch = NoSwitch /\ moves = 0 /\ kills = 0
  /\ watch = config /\ noticed = {}
  /\ paused = [q \in Queues |-> FALSE] /\ busy = FALSE
  /\ xfer = NoXfer /\ live = NoStream /\ late = {}

-----------------------------------------------------------------------------
\* The folder watcher

\* startRecordingWatcher: the scan gives a row to every file without one
Scanned(c, fs, rs) == [r \in Recs |-> IF rs[r] = None /\ r \in fs[c] THEN c ELSE rs[r]]

\* processNewRecording, a second after the event; a file with a row keeps it
Notice(r, f) ==
  /\ <<r, f>> \in noticed
  /\ noticed' = noticed \ {<<r, f>>}
  /\ rows' = IF rows[r] = None /\ r \in files[f] THEN [rows EXCEPT ![r] = f] ELSE rows
  /\ UNCHANGED <<mover, config, files, late, queues, writers, watch, kills>>

-----------------------------------------------------------------------------
\* Those who write into the folder

\* a file of r appears in f; the move or the switch may have listed f already
Arrives(r, f) ==
  /\ files' = [files EXCEPT ![f] = @ \union {r}]
  /\ late' = IF Listed \/ f # config THEN late \union {r} ELSE late
  /\ noticed' = IF watch = f THEN noticed \union {<<r, f>>} ELSE noticed

\* importExternalRecording and recordings:addExternal: no look at the move
Import(r) ==
  /\ ~Known(r) /\ xfer.rec # r /\ live.rec # r
  /\ Arrives(r, config)
  /\ rows' = [rows EXCEPT ![r] = config]
  /\ UNCHANGED <<mover, config, queues, writers, watch, kills>>

\* somebody puts an audio file into the folder
Drop(r) ==
  /\ ~Known(r) /\ xfer.rec # r /\ live.rec # r
  /\ Arrives(r, config)
  /\ UNCHANGED <<mover, config, rows, queues, writers, watch, kills>>

\* jensen:downloadToLibrary: the move is looked at before the wait for the device
XferAsk(r) ==
  /\ ~Known(r) /\ xfer = NoXfer /\ live.rec # r
  /\ ~Moving
  /\ xfer' = [rec |-> r, at |-> "asked", row |-> "pending", stage |-> None]
  /\ UNCHANGED <<mover, disk, queues, live, watcher, kills>>

\* the device is free: beginDownload and the staging file
XferBegin ==
  /\ xfer.at = "asked"
  /\ xfer' = [xfer EXCEPT !.at = "running", !.row = "downloading", !.stage = config]
  /\ UNCHANGED <<mover, disk, queues, live, watcher, kills>>

\* checkForStalledDownloads: off the bus and not yet saved
XferStalls ==
  /\ xfer.row = "downloading"
  /\ xfer' = [xfer EXCEPT !.row = "failed"]
  /\ UNCHANGED <<mover, disk, queues, live, watcher, kills>>

\* processDownload; validateStagedRecording refuses a stage of another folder
XferSaved ==
  /\ xfer.at = "running" /\ xfer.stage = config
  /\ Arrives(xfer.rec, config)
  /\ rows' = [rows EXCEPT ![xfer.rec] = config]
  /\ xfer' = NoXfer
  /\ UNCHANGED <<mover, config, queues, live, watch, kills>>

XferFails ==
  /\ xfer.at # "no"
  /\ xfer' = NoXfer
  /\ UNCHANGED <<mover, disk, queues, live, watcher, kills>>

\* RealtimeRecorder: start looks at the move in its own turn
LiveStart(r) ==
  /\ live = NoStream /\ ~Moving
  /\ ~Known(r) /\ xfer.rec # r
  /\ live' = [rec |-> r, dir |-> config]
  /\ UNCHANGED <<mover, disk, queues, xfer, watcher, kills>>

LiveEnd ==
  /\ live # NoStream
  /\ Arrives(live.rec, live.dir)
  /\ live' = NoStream
  /\ UNCHANGED <<mover, config, rows, queues, xfer, watch, kills>>

\* a folder that is not in use may be emptied by the person
ClearOld(f) ==
  /\ f \notin {config, move.to, switch.to} /\ f # live.dir /\ files[f] # {}
  /\ files' = [files EXCEPT ![f] = {}]
  /\ UNCHANGED <<mover, config, rows, late, queues, writers, watcher, kills>>

-----------------------------------------------------------------------------
\* The queues

TranscriptionStart ==
  /\ ~busy /\ ~paused["transcription"]
  /\ busy' = TRUE
  /\ UNCHANGED <<mover, disk, paused, writers, watcher, kills>>

TranscriptionEnd ==
  /\ busy
  /\ busy' = FALSE
  /\ UNCHANGED <<mover, disk, paused, writers, watcher, kills>>

\* the person pauses or resumes a queue
Toggle(q) ==
  /\ paused' = [paused EXCEPT ![q] = ~@]
  /\ UNCHANGED <<mover, disk, busy, writers, watcher, kills>>

-----------------------------------------------------------------------------
\* moveFolder

MoveStart(to) ==
  /\ Settled /\ moves < MaxMoves /\ to # config
  /\ live = NoStream
  /\ move' = [NoMove EXCEPT !.at = "drain", !.to = to, !.was = files[to],
                            !.left = {q \in Queues : paused[q]}]
  /\ moves' = moves + 1
  /\ paused' = [q \in Queues |-> TRUE]
  /\ watch' = None
  /\ UNCHANGED <<switch, disk, busy, writers, noticed, kills>>

\* variant: no drain
DrainedAtOnce ==
  /\ move.at = "drain"
  /\ move' = [move EXCEPT !.at = "wait"]
  /\ UNCHANGED <<switch, moves, disk, queues, writers, watcher, kills>>

\* the drain is longer than the delay of the watcher's callbacks
Drained ==
  /\ move.at = "drain" /\ noticed = {}
  /\ move' = [move EXCEPT !.at = "wait"]
  /\ UNCHANGED <<switch, moves, disk, queues, writers, watcher, kills>>

\* downloadsRunning: rows, not transfers
Occupied == xfer.row = "downloading" \/ busy

\* waitUntilIdle returns
WaitOver ==
  /\ move.at = "wait" /\ (~Occupied \/ move.cancel)
  /\ move' = [move EXCEPT !.at = "check"]
  /\ UNCHANGED <<switch, moves, disk, queues, writers, watcher, kills>>

\* variant: the wait for the queues has no end
MoveFailsLate ==
  /\ \/ move.at = "check"
     \/ move.at = "copy" /\ move.todo # {}
  /\ move' = [move EXCEPT !.at = "undo"]
  /\ UNCHANGED <<switch, moves, disk, queues, writers, watcher, kills>>

\* ten minutes, or the folder is not what the person confirmed, or a copy fails
MoveFails ==
  /\ \/ move.at = "wait" /\ Occupied
     \/ move.at = "check"
     \/ move.at = "copy" /\ move.todo # {}
  /\ move' = [move EXCEPT !.at = "undo"]
  /\ UNCHANGED <<switch, moves, disk, queues, writers, watcher, kills>>

\* planMove has no blocker and finds what was confirmed, which is a file at least
\* (the dialog offers no other move); then the files are listed
Check ==
  /\ move.at = "check" /\ files[move.to] = {} /\ files[config] # {}
  /\ move' = [move EXCEPT !.at = "copy", !.todo = files[config]]
  /\ UNCHANGED <<switch, moves, disk, queues, writers, watcher, kills>>

\* copyVerified
Copy(r) ==
  /\ move.at = "copy" /\ ~move.cancel /\ r \in move.todo
  /\ files' = [files EXCEPT ![move.to] = @ \union {r}]
  /\ move' = [move EXCEPT !.todo = @ \ {r}, !.copied = @ \union {r}]
  /\ UNCHANGED <<switch, moves, config, rows, late, queues, writers, watcher, kills>>

\* the loop ends, and the last chance to stop is taken
Stopped ==
  /\ move.at = "copy" /\ move.cancel
  /\ move' = [move EXCEPT !.at = "undo"]
  /\ UNCHANGED <<switch, moves, disk, queues, writers, watcher, kills>>

\* rewriteStoredPaths
Rewritten(rs, from, to) == [r \in Recs |-> IF rs[r] = from THEN to ELSE rs[r]]

\* variant: the stop is looked at only between files
SwitchUnasked ==
  /\ move.at = "copy" /\ move.todo = {}
  /\ rows' = Rewritten(rows, config, move.to)
  /\ config' = move.to
  /\ move' = [move EXCEPT !.at = "init"]
  /\ UNCHANGED <<switch, moves, files, late, queues, writers, watcher, kills>>

\* the paths, then the setting
Switch ==
  /\ move.at = "copy" /\ ~move.cancel /\ move.todo = {}
  /\ rows' = Rewritten(rows, config, move.to)
  /\ config' = move.to
  /\ move' = [move EXCEPT !.at = "init"]
  /\ UNCHANGED <<switch, moves, files, late, queues, writers, watcher, kills>>

\* updateConfig fails: the paths are put back
SaveFails ==
  /\ move.at = "copy" /\ ~move.cancel /\ move.todo = {}
  /\ rows' = Rewritten(Rewritten(rows, config, move.to), move.to, config)
  /\ move' = [move EXCEPT !.at = "undo"]
  /\ UNCHANGED <<switch, moves, config, files, late, queues, writers, watcher, kills>>

\* the finally block, in one turn
Finally ==
  /\ move' = NoMove
  /\ watch' = config
  /\ rows' = Scanned(config, files', rows)
  /\ paused' = [q \in Queues |-> paused[q] /\ q \in move.left]
  /\ late' = late \ {r \in late : r \in files'[config] /\ rows'[r] = config}
  /\ UNCHANGED <<switch, moves, config, noticed, busy, writers, kills>>

\* nothing was switched: the copies are removed
Undone ==
  /\ move.at = "undo"
  /\ files' = [files EXCEPT ![move.to] = @ \ move.copied]
  /\ Finally

\* initializeFileStorage is done
MoveEnds ==
  /\ move.at = "init"
  /\ files' = files
  /\ Finally

\* cancelMove
CancelMove ==
  /\ Moving /\ ~move.cancel
  /\ move' = [move EXCEPT !.cancel = TRUE]
  /\ UNCHANGED <<switch, moves, disk, queues, writers, watcher, kills>>

-----------------------------------------------------------------------------
\* switchFolder; the dialog of the settings runs one change at a time

\* planMove lists the folder in use: it is empty
SwitchList(to) ==
  /\ Settled /\ moves < MaxMoves /\ to # config
  /\ files[config] = {}
  /\ switch' = [at |-> "listed", to |-> to]
  /\ moves' = moves + 1
  /\ UNCHANGED <<move, disk, queues, writers, watcher, kills>>

\* ... and looks at the target, then at the live recording
SwitchCheck ==
  /\ switch.at = "listed" /\ live = NoStream /\ files[switch.to] = {}
  /\ switch' = [switch EXCEPT !.at = "checked"]
  /\ UNCHANGED <<move, moves, disk, queues, writers, watcher, kills>>

\* the folder is made: updateConfig
SwitchSave ==
  /\ switch.at = "checked"
  /\ config' = switch.to
  /\ switch' = [switch EXCEPT !.at = "saved"]
  /\ UNCHANGED <<move, moves, files, rows, late, queues, writers, watcher, kills>>

\* refused, or the folder or the setting cannot be written
SwitchFails ==
  /\ switch.at \in {"listed", "checked"}
  /\ switch' = NoSwitch
  /\ UNCHANGED <<move, moves, disk, queues, writers, watcher, kills>>

\* initializeFileStorage is done: the watcher starts again
SwitchWatch ==
  /\ switch.at = "saved"
  /\ switch' = NoSwitch
  /\ watch' = config
  /\ rows' = Scanned(config, files, rows)
  /\ UNCHANGED <<move, moves, config, files, late, queues, writers, noticed, kills>>

-----------------------------------------------------------------------------
\* The process ends at any wait of the move and starts again

Killed ==
  /\ kills < MaxKills
  /\ kills' = kills + 1
  /\ move' = NoMove /\ switch' = NoSwitch /\ noticed' = {}
  /\ paused' = [q \in Queues |-> FALSE] /\ busy' = FALSE
  /\ xfer' = NoXfer /\ live' = NoStream
  /\ files' = IF live.dir = config THEN [files EXCEPT ![config] = @ \union {live.rec}]
              ELSE files
  /\ rows' = Scanned(config, files', rows)
  /\ watch' = config
  /\ UNCHANGED <<config, late, moves>>

-----------------------------------------------------------------------------
MoveNext == \/ Drained \/ WaitOver \/ Check \/ Stopped \/ Switch \/ SaveFails
            \/ Undone \/ MoveEnds \/ MoveFails
            \/ \E r \in Recs : Copy(r)
SwitchNext == SwitchCheck \/ SwitchSave \/ SwitchFails \/ SwitchWatch

Next ==
  \/ MoveNext \/ SwitchNext \/ CancelMove \/ Killed
  \/ \E to \in Folders : MoveStart(to) \/ SwitchList(to) \/ ClearOld(to)
  \/ \E r \in Recs : Import(r) \/ Drop(r) \/ XferAsk(r) \/ LiveStart(r)
  \/ \E r \in Recs, f \in Folders : Notice(r, f)
  \/ XferBegin \/ XferStalls \/ XferSaved \/ XferFails \/ LiveEnd
  \/ TranscriptionStart \/ TranscriptionEnd
  \/ \E q \in Queues : Toggle(q)

Spec == Init /\ [][Next]_vars

\* timers fire, calls to the file system return; a wait ends at ten minutes
FairSpec ==
  Spec /\ WF_vars(MoveNext) /\ WF_vars(\E r \in Recs, f \in Folders : Notice(r, f))

-----------------------------------------------------------------------------
\* After every change of folder, whatever failed, was stopped or was killed,
\* a recording that was in the library when the folder was listed is found at
\* the folder in use, where its file is: storage-move.ts:25-26 plays nothing
\* outside it.
ListedPlayable == Settled => \A r \in Recs : rows[r] # None /\ r \notin late => Playable(r)

\* What a finished move promises of the whole library: "Downloads and
\* transcription are paused, and the folder watcher stopped ..., for the whole
\* move, so nothing new is written to the old folder while it is being copied"
\* (storage-move.ts:10-12), so every row leads to a file of the new folder.
MoveKeepsAll ==
  [][(move.at = "init" /\ move'.at = "idle" /\ kills' = kills)
       => \A r \in Recs : rows'[r] # None => rows'[r] = config' /\ r \in files'[config']]_vars

\* A move that was stopped before its switch switches nothing, and a move that
\* ends without a switch leaves the folder it was to fill as it found it,
\* unless the process ended (storage-move.ts:16-17).
StoppedIsUndone ==
  [][/\ (move.cancel => config' = config)
     /\ (Moving /\ move'.at = "idle" /\ kills' = kills /\ config # move.to)
        => files'[move.to] = move.was]_vars

\* Every move ends, and then the queues it paused run again and the watcher
\* looks at the folder in use (the finally block, storage-move.ts:337-344).
WorkResumes ==
  \A q \in Queues : (Moving /\ q \notin move.left)
                      ~> (~Moving /\ ~paused[q] /\ watch = config)
=============================================================================
