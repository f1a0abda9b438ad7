------------------------- MODULE DownloadQueueProofs -------------------------
(***************************************************************************)
(* Theorems about the download queue, for any set of files and for users   *)
(* as hasty as they like: its types, and that a cancel is final until the  *)
(* user asks again.                                                        *)
(***************************************************************************)
EXTENDS DownloadQueue, TLAPS

USE FilesAssumption

-----------------------------------------------------------------------------
(* The inductive invariant                                                 *)

\* The row in memory against its row of the table, the folder and the calls
\* that wait for its transfer.
RowOK(f) ==
  /\ row[f] = "cancelled" <=> status[f] = "cancelled"
  /\ f \in saved => status[f] \in {"absent", "completed", "failed"}
  /\ f \in timers => f \in saved
  /\ f \in cancels => status[f] = "cancelling" /\ sweep # f
  /\ sweep = f => status[f] = "cancelling"
  /\ f \in held => status[f] \in {"cancelling", "cancelled"}

\* What is being received is not there yet.
XferOK == xfer.at \in {"queued", "off", "bus", "received"} => cur \notin saved

IInv ==
  /\ TypeOK
  /\ \A f \in Files : RowOK(f)
  /\ XferOK

\* The statuses a row of the queue and a row of the table can have.
InMemory == Stored \union {"absent", "cancelling"}
InTable == Stored \union {"none"}
\* The two arrays of rows.
RowsType == status \in [Files -> InMemory] /\ row \in [Files -> InTable]
\* The rest of main, and the renderer.
MainType ==
  /\ saved \subseteq Files /\ stalled \subseteq Files /\ timers \subseteq Files
  /\ paused \in BOOLEAN
  /\ cancels \subseteq Files /\ sweep \in Files \union {NoFile, "no"} /\ held \subseteq Files
LoopType ==
  /\ xfer \in [at : Stages, abort : BOOLEAN]
  /\ loop \in {"idle", "start", "next", "wait", "report"}
  /\ cur \in Files \union {NoFile}
  /\ (loop \in {"wait", "report"} => cur \in Files)
  /\ (loop = "wait" <=> xfer.at # "none")
UiType ==
  /\ connected \in BOOLEAN /\ due \in BOOLEAN
  /\ tried \subseteq Files /\ marker \subseteq Files
  /\ signal \in BOOLEAN /\ mute \in BOOLEAN /\ retry \in BOOLEAN
  /\ stop \in {"no", "asked", "halted"}

\* The type invariant is the conjunction of these parts.
LEMMA TypeParts == TypeOK <=> RowsType /\ MainType /\ LoopType /\ UiType
BY DEF TypeOK, RowsType, InMemory, InTable, MainType, LoopType, UiType

\* And so after a step.
LEMMA PartsPrimed ==
  ASSUME RowsType', MainType', LoopType', UiType', \A f \in Files : RowOK(f)', XferOK'
  PROVE  IInv'
BY DEF IInv, TypeOK, RowsType, InMemory, InTable, MainType, LoopType, UiType

-----------------------------------------------------------------------------
(* What the helpers do to the rows and to the loop                         *)

\* persistQueueItem
LEMMA PutFacts ==
  ASSUME RowsType, NEW S \in SUBSET Files, NEW s \in Stored, Put(S, s)
  PROVE  /\ RowsType'
         /\ \A f \in S : status'[f] = s /\ row'[f] = s
         /\ \A f \in Files \ S : status'[f] = status[f] /\ row'[f] = row[f]
BY DEF RowsType, InMemory, InTable, Put

\* queue.delete and removeFromDatabase
LEMMA RemoveFacts ==
  ASSUME RowsType, NEW S \in SUBSET Files, Remove(S)
  PROVE  /\ RowsType'
         /\ \A f \in S : status'[f] = "absent" /\ row'[f] = "none"
         /\ \A f \in Files \ S : status'[f] = status[f] /\ row'[f] = row[f]
BY DEF RowsType, InMemory, InTable, Remove

\* retryFailed
LEMMA RequeueFacts ==
  ASSUME RowsType, NEW S \in SUBSET Files, Requeue(S)
  PROVE  /\ RowsType'
         /\ \A f \in S \intersect saved : status'[f] = "absent" /\ row'[f] = "none"
         /\ \A f \in S \ saved : status'[f] = "pending" /\ row'[f] = "pending"
         /\ \A f \in Files \ S : status'[f] = status[f] /\ row'[f] = row[f]
BY DEF RowsType, InMemory, InTable, Requeue, Stored, Terminal, Gone

\* A state update starts an idle loop at most, and may abort the transfer.
LEMMA ToldFacts ==
  ASSUME TypeOK, NEW p, ToldOf(p) \/ Told \/ ToldAndDrained
  PROVE  /\ mute' \in BOOLEAN /\ signal' \in BOOLEAN
         /\ loop' = loop \/ (loop = "idle" /\ loop' = "start")
<1>1. mute' = FALSE
  BY DEF Told, ToldOf, ToldAndDrained
<1>2. signal' \in BOOLEAN
  BY ZenonT(30) DEF Told, ToldOf, ToldAndDrained, TypeOK
<1>3. loop' = loop \/ (loop = "idle" /\ loop' = "start")
  BY DEF Told, ToldOf, ToldAndDrained
<1> QED
  BY <1>1, <1>2, <1>3

\* The end of a transfer gives the loop its answer.
LEMMA SettleFacts ==
  ASSUME TypeOK, NEW ok, Settle(ok)
  PROVE  /\ xfer' = NoXfer /\ loop' \in {"next", "report"}
         /\ marker' \subseteq marker
         /\ UNCHANGED <<cancels, sweep, held, connected, due, cur, tried, signal, stop, mute, retry>>
BY DEF Settle, calls, device

-----------------------------------------------------------------------------
(* The transfer                                                            *)

\* It ends without a word to the row.
LEMMA SettlesOnly ==
  ASSUME IInv, loop = "wait", NEW ok, Settle(ok), UNCHANGED rows
  PROVE  IInv'
<1>1. RowsType /\ MainType /\ LoopType /\ UiType
  BY TypeParts DEF IInv
<1>2. /\ xfer' = NoXfer /\ loop' \in {"next", "report"} /\ marker' \subseteq marker
      /\ UNCHANGED <<cancels, sweep, held, connected, due, cur, tried, signal, stop, mute, retry>>
  BY SettleFacts DEF IInv
<1>3. UNCHANGED <<status, row, saved, stalled, timers, paused>>
  BY DEF rows
<1>4. RowsType' /\ MainType' /\ UiType'
  BY <1>1, <1>2, <1>3 DEF RowsType, MainType, UiType
<1>5. LoopType'
  BY <1>1, <1>2 DEF LoopType, NoXfer, Stages
<1>6. \A f \in Files : RowOK(f)'
  BY <1>2, <1>3 DEF IInv, RowOK
<1>7. XferOK'
  BY <1>2 DEF XferOK, NoXfer
<1> QED
  BY <1>4, <1>5, <1>6, <1>7, PartsPrimed

\* It moves while nothing else does.
LEMMA MovesOnly ==
  ASSUME IInv, UNCHANGED <<rows, calls, device, ui>>,
         xfer' \in [at : Stages, abort : BOOLEAN], xfer.at # "none", xfer'.at # "none",
         xfer.at # "published" \/ xfer'.at = xfer.at
  PROVE  IInv'
<1>1. RowsType /\ MainType /\ LoopType /\ UiType
  BY TypeParts DEF IInv
<1>2. RowsType' /\ MainType' /\ UiType'
  BY <1>1 DEF RowsType, MainType, UiType, rows, calls, device, ui
<1>3. LoopType'
  BY <1>1 DEF LoopType, ui
<1>4. \A f \in Files : RowOK(f)'
  BY DEF IInv, RowOK, rows, calls
<1>5. XferOK'
  BY <1>1 DEF IInv, XferOK, LoopType, Stages, rows, ui
<1> QED
  BY <1>2, <1>3, <1>4, <1>5, PartsPrimed

\* The statuses a transfer, a stall or a disconnect may write on a row that is not cancelled.
LEMMA RowsWritten ==
  ASSUME IInv, NEW S \in SUBSET Files, NEW s \in Stored \ {"cancelled"}, Put(S, s),
         \A f \in S : ~Cancelled(f) /\ status[f] # "absent",
         (s \in {"completed", "failed"}) \/ (\A f \in S : f \notin saved),
         UNCHANGED <<saved, timers, cancels, sweep, held>>
  PROVE  RowsType' /\ \A f \in Files : RowOK(f)'
<1>1. RowsType
  BY TypeParts DEF IInv
<1>2. /\ RowsType'
      /\ \A f \in S : status'[f] = s /\ row'[f] = s
      /\ \A f \in Files \ S : status'[f] = status[f] /\ row'[f] = row[f]
  BY <1>1, PutFacts
<1>3. ASSUME NEW f \in Files PROVE RowOK(f)'
  <2>1. CASE f \in S
    BY <1>2, <2>1 DEF IInv, RowOK, Cancelled, Stored, Terminal, Gone
  <2>2. CASE f \notin S
    BY <1>2, <2>2 DEF IInv, RowOK
  <2> QED
    BY <2>1, <2>2
<1> QED
  BY <1>2, <1>3

\* A row is written during the transfer, which goes on.
LEMMA WritesOn ==
  ASSUME IInv, NEW S \in SUBSET Files, NEW s \in Stored \ {"cancelled", "completed"}, Put(S, s),
         \A f \in S : ~Cancelled(f) /\ status[f] # "absent" /\ f \notin saved,
         Told, xfer' \in [at : Stages, abort : BOOLEAN],
         (xfer'.at = xfer.at) \/ (xfer.at = "queued" /\ xfer'.at = "off"),
         stalled' \subseteq Files,
         UNCHANGED <<saved, timers, paused, calls, device, cur, tried, marker, stop, retry>>
  PROVE  IInv'
<1>1. RowsType /\ MainType /\ LoopType /\ UiType
  BY TypeParts DEF IInv
<1>2. UNCHANGED <<cancels, sweep, held, connected, due>>
  BY DEF calls, device
<1>3. RowsType' /\ \A f \in Files : RowOK(f)'
  BY <1>2, RowsWritten
<1>4. mute' \in BOOLEAN /\ signal' \in BOOLEAN /\ (loop' = loop \/ (loop = "idle" /\ loop' = "start"))
  BY ToldFacts DEF IInv
<1>5. MainType' /\ UiType'
  BY <1>1, <1>2, <1>4 DEF MainType, UiType
<1>6. LoopType'
  BY <1>1, <1>4 DEF LoopType
<1>7. XferOK'
  BY DEF IInv, XferOK
<1> QED
  BY <1>3, <1>5, <1>6, <1>7, PartsPrimed

\* Each step of the transfer keeps the invariant.
LEMMA TransferStep ==
  ASSUME IInv, Transfer
  PROVE  IInv'
<1> USE DEF IInv
<1>1. /\ RowsType /\ MainType /\ LoopType /\ UiType
      /\ xfer.at # "none" => loop = "wait" /\ cur \in Files
      /\ \A f \in Files : status[f] \in InMemory
  BY TypeParts DEF LoopType, RowsType
<1>2. CASE XferRefused
  BY <1>1, <1>2, SettlesOnly DEF XferRefused
<1>3. CASE XferBegins
  <2>1. /\ {cur} \in SUBSET Files /\ Put({cur}, "downloading") /\ xfer.at = "queued" /\ xfer'.at = "off"
        /\ xfer' \in [at : Stages, abort : BOOLEAN]
        /\ ~Cancelled(cur) /\ status[cur] # "absent" /\ cur \notin saved
        /\ Told /\ UNCHANGED <<saved, stalled, timers, paused, calls, device, cur, tried, marker, stop, retry>>
    BY <1>1, <1>3 DEF XferBegins, XferOK, LoopType, Stages
  <2>2. stalled' \subseteq Files
    BY <1>1, <2>1 DEF MainType
  <2> QED
    BY <2>1, <2>2, WritesOn DEF Stored, Terminal, Gone
<1>4. CASE XferOnBus
  BY <1>1, <1>4, MovesOnly DEF XferOnBus, LoopType, Stages
<1>5. CASE XferOffBus
  BY <1>1, <1>5, MovesOnly DEF XferOffBus, LoopType, Stages
<1>6. CASE XferProgress
  <2>1. /\ {cur} \in SUBSET Files /\ Put({cur}, "downloading") /\ xfer' = xfer
        /\ xfer' \in [at : Stages, abort : BOOLEAN]
        /\ ~Cancelled(cur) /\ status[cur] # "absent" /\ cur \notin saved
        /\ Told /\ UNCHANGED <<saved, stalled, timers, paused, calls, device, cur, tried, marker, stop, retry>>
    BY <1>1, <1>6 DEF XferProgress, XferOK, LoopType, Cancelled
  <2>2. stalled' \subseteq Files
    BY <1>1, <2>1 DEF MainType
  <2> QED
    BY <2>1, <2>2, WritesOn DEF Stored, Terminal, Gone
<1>7. CASE XferReceived
  BY <1>1, <1>7, MovesOnly DEF XferReceived, LoopType, Stages
<1>8. CASE XferFails
  BY <1>1, <1>8, SettlesOnly DEF XferFails
<1>9. CASE XferStalls
  <2>1. PICK s \in {"failed", "interrupted"} : Put({cur}, s)
    BY <1>9 DEF XferStalls
  <2>2. /\ {cur} \in SUBSET Files /\ xfer' = xfer /\ xfer' \in [at : Stages, abort : BOOLEAN]
        /\ ~Cancelled(cur) /\ status[cur] # "absent" /\ cur \notin saved
        /\ Told /\ UNCHANGED <<saved, timers, paused, calls, device, cur, tried, marker, stop, retry>>
    BY <1>1, <1>9 DEF XferStalls, XferOK, LoopType, Cancelled
  <2>3. stalled' \subseteq Files
    BY <1>1, <1>9 DEF XferStalls, MainType
  <2> QED
    BY <2>1, <2>2, <2>3, WritesOn DEF Stored, Terminal, Gone
<1>10. CASE ProcessRefuses
  BY <1>1, <1>10, SettlesOnly DEF ProcessRefuses
<1>11. CASE ProcessFails
  <2>1. /\ {cur} \in SUBSET Files /\ Put({cur}, "failed") /\ Settle(FALSE)
        /\ ~Cancelled(cur) /\ status[cur] # "absent"
        /\ UNCHANGED <<saved, stalled, timers, paused>>
    BY <1>1, <1>11 DEF ProcessFails, Refuses
  <2>2. /\ xfer' = NoXfer /\ loop' \in {"next", "report"} /\ marker' \subseteq marker
        /\ UNCHANGED <<cancels, sweep, held, connected, due, cur, tried, signal, stop, mute, retry>>
    BY <2>1, SettleFacts
  <2>3. RowsType' /\ \A f \in Files : RowOK(f)'
    BY <2>1, <2>2, RowsWritten DEF Stored, Terminal, Gone
  <2>4. MainType' /\ UiType'
    BY <1>1, <2>1, <2>2 DEF MainType, UiType
  <2>5. LoopType' /\ XferOK'
    BY <1>1, <1>11, <2>2 DEF LoopType, XferOK, NoXfer, Stages, ProcessFails
  <2> QED
    BY <2>3, <2>4, <2>5, PartsPrimed
<1>12. CASE ProcessSaves
  <2>1. /\ cur \in Files /\ Put({cur}, "completed")
        /\ ~Cancelled(cur) /\ status[cur] # "absent" /\ loop = "wait"
        /\ saved' = saved \union {cur} /\ stalled' = stalled \ {cur} /\ timers' = timers \union {cur}
        /\ xfer' \in [at : Stages, abort : BOOLEAN] /\ xfer'.at = "published"
        /\ Told /\ UNCHANGED <<paused, cancels, sweep, held, connected, due, cur, tried, marker, stop, retry>>
    BY <1>1, <1>12 DEF ProcessSaves, Refuses, LoopType, Stages, calls, device
  <2>2. /\ RowsType'
        /\ status'[cur] = "completed" /\ row'[cur] = "completed"
        /\ \A f \in Files \ {cur} : status'[f] = status[f] /\ row'[f] = row[f]
    <3>1. {cur} \in SUBSET Files /\ "completed" \in Stored /\ RowsType /\ Put({cur}, "completed")
      BY <1>1, <2>1 DEF Stored, Terminal
    <3>2. /\ RowsType'
          /\ \A f \in {cur} : status'[f] = "completed" /\ row'[f] = "completed"
          /\ \A f \in Files \ {cur} : status'[f] = status[f] /\ row'[f] = row[f]
      BY ONLY <3>1, PutFacts
    <3> QED
      BY <3>2
  <2>3. ASSUME NEW f \in Files PROVE RowOK(f)'
    <3>1. CASE f = cur
      BY <2>1, <2>2, <3>1 DEF RowOK, Cancelled
    <3>2. CASE f # cur
      BY <2>1, <2>2, <3>2 DEF RowOK
    <3> QED
      BY <3>1, <3>2
  <2>4. mute' \in BOOLEAN /\ signal' \in BOOLEAN /\ (loop' = loop \/ (loop = "idle" /\ loop' = "start"))
    BY <2>1, ToldFacts
  <2>5. MainType' /\ UiType'
    BY <1>1, <2>1, <2>4 DEF MainType, UiType
  <2>6. LoopType' /\ XferOK'
    BY <1>1, <2>1, <2>4 DEF LoopType, XferOK
  <2> QED
    BY <2>2, <2>3, <2>5, <2>6, PartsPrimed
<1>13. CASE XferReturns
  <2>1. PICK ok \in BOOLEAN : Settle(ok)
    BY <1>13 DEF XferReturns
  <2> QED
    BY <1>1, <1>13, <2>1, SettlesOnly DEF XferReturns
<1> QED
  BY <1>2, <1>3, <1>4, <1>5, <1>6, <1>7, <1>8, <1>9, <1>10, <1>11, <1>12, <1>13 DEF Transfer

-----------------------------------------------------------------------------
(* The renderer, the timers and the waits                                  *)

\* What was settled without the user, or is asked for again by him, is pending again.
LEMMA RequeueRows ==
  ASSUME IInv, NEW S \in SUBSET Files, \A f \in S : status[f] \in Gone, Requeue(S),
         held' = held \ S, UNCHANGED <<saved, timers, cancels, sweep>>
  PROVE  RowsType' /\ \A f \in Files : RowOK(f)'
<1>1. /\ RowsType'
      /\ \A f \in S \intersect saved : status'[f] = "absent" /\ row'[f] = "none"
      /\ \A f \in S \ saved : status'[f] = "pending" /\ row'[f] = "pending"
      /\ \A f \in Files \ S : status'[f] = status[f] /\ row'[f] = row[f]
  BY TypeParts, RequeueFacts DEF IInv
<1>2. ASSUME NEW f \in Files PROVE RowOK(f)'
  <2>1. CASE f \in S
    BY <1>1, <2>1 DEF IInv, RowOK, Gone
  <2>2. CASE f \notin S
    BY <1>1, <2>2 DEF IInv, RowOK
  <2> QED
    BY <2>1, <2>2
<1> QED
  BY <1>1, <1>2

\* What is asked for explicitly, or not known to the queue at all, is pending.
LEMMA AskedRows ==
  ASSUME IInv, NEW S \in SUBSET Files, \A f \in S : status[f] \in {"absent", "cancelled"} /\ f \notin saved,
         Put(S, "pending"), held' = held \ S, UNCHANGED <<saved, timers, cancels, sweep>>
  PROVE  RowsType' /\ \A f \in Files : RowOK(f)'
<1>1. RowsType /\ "pending" \in Stored
  BY TypeParts DEF IInv, Stored
<1>2. /\ RowsType'
      /\ \A f \in S : status'[f] = "pending" /\ row'[f] = "pending"
      /\ \A f \in Files \ S : status'[f] = status[f] /\ row'[f] = row[f]
  BY <1>1, PutFacts
<1>3. ASSUME NEW f \in Files PROVE RowOK(f)'
  <2>1. CASE f \in S
    BY <1>2, <2>1 DEF IInv, RowOK
  <2>2. CASE f \notin S
    BY <1>2, <2>2 DEF IInv, RowOK
  <2> QED
    BY <2>1, <2>2
<1> QED
  BY <1>2, <1>3

\* A settled row leaves the queue, and with it the memory of its cancel.
LEMMA RemovedRows ==
  ASSUME IInv, NEW S \in SUBSET Files, \A f \in S : status[f] # "cancelling",
         Remove(S), held' = held \ S, timers' \subseteq timers, UNCHANGED <<saved, cancels, sweep>>
  PROVE  RowsType' /\ \A f \in Files : RowOK(f)'
<1>1. /\ RowsType'
      /\ \A f \in S : status'[f] = "absent" /\ row'[f] = "none"
      /\ \A f \in Files \ S : status'[f] = status[f] /\ row'[f] = row[f]
  BY TypeParts, RemoveFacts DEF IInv
<1>2. ASSUME NEW f \in Files PROVE RowOK(f)'
  <2>1. CASE f \in S
    BY <1>1, <2>1 DEF IInv, RowOK
  <2>2. CASE f \notin S
    BY <1>1, <2>2 DEF IInv, RowOK
  <2> QED
    BY <2>1, <2>2
<1> QED
  BY <1>1, <1>2

\* The answer to a cancel: its row is cancelled, in memory and in the table.
LEMMA CancelledRows ==
  ASSUME IInv, NEW f \in Files, status[f] = "cancelling", Put({f}, "cancelled"),
         f \notin cancels', sweep' # f, cancels' \subseteq cancels,
         \A g \in Files : sweep' = g => sweep = g,
         UNCHANGED <<saved, timers, held>>
  PROVE  RowsType' /\ \A g \in Files : RowOK(g)'
<1>1. RowsType /\ "cancelled" \in Stored /\ {f} \in SUBSET Files
  BY TypeParts DEF IInv, Stored, Terminal, Gone
<1>2. /\ RowsType'
      /\ \A g \in {f} : status'[g] = "cancelled" /\ row'[g] = "cancelled"
      /\ \A g \in Files \ {f} : status'[g] = status[g] /\ row'[g] = row[g]
  BY <1>1, PutFacts
<1>3. ASSUME NEW g \in Files PROVE RowOK(g)'
  <2>1. CASE g = f
    BY <1>2, <2>1 DEF IInv, RowOK
  <2>2. CASE g # f
    BY <1>2, <2>2 DEF IInv, RowOK
  <2> QED
    BY <2>1, <2>2
<1> QED
  BY <1>2, <1>3

\* Rows change and the loop is told: the rest of the invariant.
LEMMA RowsAndTold ==
  ASSUME IInv, RowsType', \A f \in Files : RowOK(f)',
         mute' \in BOOLEAN, signal' \in BOOLEAN,
         loop' = loop \/ (loop = "idle" /\ loop' = "start"),
         xfer' \in [at : Stages, abort : BOOLEAN], xfer'.at = xfer.at,
         MainType', connected' \in BOOLEAN, due' \in BOOLEAN, retry' \in BOOLEAN,
         marker' \subseteq Files, stop' \in {"no", "asked", "halted"},
         UNCHANGED <<saved, cur, tried>>
  PROVE  IInv'
<1>1. LoopType /\ UiType
  BY TypeParts DEF IInv
<1>2. LoopType' /\ UiType'
  BY <1>1 DEF LoopType, UiType
<1>3. XferOK'
  BY DEF IInv, XferOK
<1> QED
  BY <1>2, <1>3, PartsPrimed

\* Each step of the renderer keeps the invariant.
LEMMA RendererStep ==
  ASSUME IInv, Renderer
  PROVE  IInv'
<1> USE DEF IInv
<1>1. RowsType /\ MainType /\ LoopType /\ UiType
  BY TypeParts
<1>2. CASE LoopStart
  <2>1. UNCHANGED <<rows, xfer, calls, device, cur, marker, mute, retry>>
    BY <1>2 DEF LoopStart
  <2>2. RowsType' /\ MainType' /\ \A f \in Files : RowOK(f)'
    BY <1>1, <2>1 DEF RowsType, MainType, RowOK, rows, calls
  <2>3. UiType'
    BY <1>1, <1>2 DEF LoopStart, UiType, device
  <2>4. LoopType' /\ XferOK'
    BY <1>1, <1>2 DEF LoopStart, LoopType, XferOK, rows
  <2> QED
    BY <2>2, <2>3, <2>4, PartsPrimed
<1>3. CASE LoopNext
  <2>1. UNCHANGED <<rows, calls, device, marker, mute>>
    BY <1>3 DEF LoopNext
  <2>2. RowsType' /\ MainType' /\ \A f \in Files : RowOK(f)'
    BY <1>1, <2>1 DEF RowsType, MainType, RowOK, rows, calls
  <2>3. CASE stop = "no" /\ connected /\ ~paused /\ Untried # {}
    <3>1. PICK f \in Untried : cur' = f /\ tried' = tried \union {f}
      BY <1>3, <2>3 DEF LoopNext
    <3>2. loop' = "wait" /\ signal' = FALSE /\ stop' = stop /\ retry' = retry
          /\ xfer' = [at |-> "queued", abort |-> FALSE] /\ saved' = saved
      BY <1>3, <2>3 DEF LoopNext, rows
    <3>3. f \in Files /\ f \notin saved
      BY <3>1 DEF Untried, RowOK
    <3>4. LoopType' /\ XferOK'
      BY <3>1, <3>2, <3>3 DEF LoopType, XferOK, Stages
    <3>5. UiType'
      BY <1>1, <2>1, <3>1, <3>2, <3>3 DEF UiType, device
    <3> QED
      BY <2>2, <3>4, <3>5, PartsPrimed
  <2>4. CASE ~(stop = "no" /\ connected /\ ~paused /\ Untried # {})
    <3>1. loop = "next" /\ loop' = "idle" /\ cur' = NoFile /\ stop' = "no" /\ xfer' = xfer
          /\ tried' = {} /\ signal' = FALSE
      BY <1>3, <2>4 DEF LoopNext
    <3>2. retry' \in BOOLEAN
      BY <1>1, <1>3, <2>4, ZenonT(30) DEF LoopNext, UiType
    <3>3. LoopType' /\ XferOK'
      BY <1>1, <3>1 DEF LoopType, XferOK
    <3>4. UiType'
      BY <1>1, <2>1, <3>1, <3>2 DEF UiType, device
    <3> QED
      BY <2>2, <3>3, <3>4, PartsPrimed
  <2> QED
    BY <2>3, <2>4
<1>4. CASE AbortArrives
  BY <1>1, <1>4, MovesOnly DEF AbortArrives, LoopType
<1>5. CASE AutoRetry
  <2> DEFINE S == {f \in Files : status[f] = "interrupted"}
  <2>1. /\ retry' = FALSE /\ Requeue(S)
        /\ (IF S = {} THEN UNCHANGED <<mute, signal, loop>> ELSE Told)
        /\ UNCHANGED <<saved, stalled, timers, paused, xfer, cancels, sweep, held, connected, due, cur, tried,
                       marker, stop>>
    BY <1>5 DEF AutoRetry, calls, device
  <2>2. S \in SUBSET Files /\ (\A f \in S : status[f] \in Gone) /\ held' = held \ S
    BY <1>1, <2>1 DEF Gone, RowOK, MainType
  <2>3. RowsType' /\ \A f \in Files : RowOK(f)'
    <3> HIDE DEF S
    <3> QED
      BY <2>1, <2>2, RequeueRows
  <2>4. mute' \in BOOLEAN /\ signal' \in BOOLEAN /\ (loop' = loop \/ (loop = "idle" /\ loop' = "start"))
    <3> HIDE DEF S
    <3>1. CASE S = {}
      BY <1>1, <2>1, <3>1 DEF UiType
    <3>2. CASE S # {}
      BY <2>1, <3>2, ToldFacts
    <3> QED
      BY <3>1, <3>2
  <2>5. MainType'
    BY <1>1, <2>1 DEF MainType
  <2> QED
    BY <1>1, <2>1, <2>3, <2>4, <2>5, RowsAndTold DEF LoopType, UiType
<1>6. CASE Report
  <2>1. /\ cur \in Files /\ loop = "report" /\ loop' = "next" /\ marker' \subseteq marker
        /\ UNCHANGED <<saved, stalled, timers, paused, xfer, cancels, sweep, held, connected, due, cur, tried,
                       signal, stop, retry>>
    BY <1>1, <1>6 DEF Report, LoopType, calls, device
  <2>2. RowsType' /\ \A f \in Files : RowOK(f)'
    <3>1. CASE Over(cur) \/ status[cur] = "absent"
      BY <1>1, <1>6, <2>1, <3>1 DEF Report, RowsType, RowOK
    <3>2. CASE ~(Over(cur) \/ status[cur] = "absent")
      <4>1. Put({cur}, "failed") /\ ~Cancelled(cur) /\ status[cur] # "absent"
        BY <1>6, <3>2 DEF Report, Over
      <4> QED
        BY <2>1, <4>1, RowsWritten DEF Stored, Terminal, Gone
    <3> QED
      BY <3>1, <3>2
  <2>3. mute' \in BOOLEAN
    BY <1>1, <1>6 DEF Report, UiType
  <2>4. MainType' /\ UiType'
    BY <1>1, <2>1, <2>3 DEF MainType, UiType
  <2>5. LoopType' /\ XferOK'
    BY <1>1, <2>1 DEF LoopType, XferOK
  <2> QED
    BY <2>2, <2>4, <2>5, PartsPrimed
<1> QED
  BY <1>2, <1>3, <1>4, <1>5, <1>6 DEF Renderer

\* Each timer of main keeps the invariant.
LEMMA TimersStep ==
  ASSUME IInv, Timers
  PROVE  IInv'
<1> USE DEF IInv
<1>1. RowsType /\ MainType /\ LoopType /\ UiType
  BY TypeParts
<1>2. CASE StallCheck
  <2>1. PICK S \in SUBSET {f \in Files : status[f] = "downloading" /\ ~OnBus(f)} :
          /\ Put(S, "failed") /\ Told
          /\ UNCHANGED <<saved, stalled, timers, paused, xfer, calls, device, cur, tried, marker, stop, retry>>
    BY <1>2 DEF StallCheck
  <2>2. S \in SUBSET Files /\ \A f \in S : ~Cancelled(f) /\ status[f] # "absent" /\ f \notin saved
    BY <2>1 DEF Cancelled, RowOK
  <2>3. "failed" \in Stored \ {"cancelled", "completed"} /\ xfer' \in [at : Stages, abort : BOOLEAN]
        /\ xfer'.at = xfer.at /\ stalled' \subseteq Files
    BY <1>1, <2>1 DEF Stored, Terminal, Gone, LoopType, MainType
  <2> QED
    BY <2>1, <2>2, <2>3, WritesOn
<1>3. ASSUME NEW f \in Files, TimerFires(f) PROVE IInv'
  <2>1. PICK old \in SUBSET {g \in Files \ tried : status[g] \in Gone} :
          Remove({f} \union old) /\ held' = held \ old
    BY <1>3 DEF TimerFires
  <2>2. /\ f \in timers /\ timers' = timers \ {f} /\ Told
        /\ UNCHANGED <<saved, stalled, paused, xfer, cancels, sweep, connected, due, cur, tried, marker, stop, retry>>
    BY <1>3 DEF TimerFires, device
  <2>3. /\ {f} \union old \in SUBSET Files /\ \A g \in {f} \union old : status[g] # "cancelling"
        /\ held' = held \ ({f} \union old) /\ timers' \subseteq timers
    BY <2>1, <2>2 DEF RowOK, Gone
  <2>4. RowsType' /\ \A g \in Files : RowOK(g)'
    BY <2>1, <2>2, <2>3, RemovedRows
  <2>5. mute' \in BOOLEAN /\ signal' \in BOOLEAN /\ (loop' = loop \/ (loop = "idle" /\ loop' = "start"))
    BY <2>2, ToldFacts
  <2>6. MainType'
    BY <1>1, <2>1, <2>2 DEF MainType
  <2> QED
    BY <1>1, <2>2, <2>4, <2>5, <2>6, RowsAndTold DEF LoopType, UiType
<1> QED
  BY <1>2, <1>3 DEF Timers

\* The ends of the waits keep the invariant.
LEMMA WaitsStep ==
  ASSUME IInv, Waits
  PROVE  IInv'
<1> USE DEF IInv
<1>1. RowsType /\ MainType /\ LoopType /\ UiType
  BY TypeParts
<1>2. CASE CancelAllDone
  <2>1. /\ sweep' = "no" /\ marker' = {} /\ stop' \in {"no", "asked", "halted"}
        /\ UNCHANGED <<saved, stalled, timers, paused, xfer, cancels, held, connected, due, cur, tried, retry>>
    BY <1>1, <1>2 DEF CancelAllDone, device, UiType
  <2>2. MainType'
    BY <1>1, <2>1 DEF MainType
  <2>3. CASE sweep \in Files /\ status[sweep] = "cancelling"
    <3>1. Put({sweep}, "cancelled") /\ Told
      BY <1>2, <2>3 DEF CancelAllDone
    <3>2. sweep \notin cancels' /\ sweep' # sweep /\ cancels' \subseteq cancels
          /\ \A g \in Files : sweep' = g => sweep = g
      BY <2>1, <2>3, FilesAssumption DEF RowOK
    <3>3. RowsType' /\ \A g \in Files : RowOK(g)'
      BY <2>1, <2>3, <3>1, <3>2, CancelledRows
    <3>4. mute' \in BOOLEAN /\ signal' \in BOOLEAN /\ (loop' = loop \/ (loop = "idle" /\ loop' = "start"))
      BY <3>1, ToldFacts
    <3> QED
      BY <1>1, <2>1, <2>2, <3>3, <3>4, RowsAndTold DEF LoopType, UiType
  <2>4. CASE ~(sweep \in Files /\ status[sweep] = "cancelling")
    <3>1. UNCHANGED <<status, row, mute, signal, loop>>
      BY <1>2, <2>4 DEF CancelAllDone
    <3>2. RowsType' /\ \A g \in Files : RowOK(g)'
      BY <1>1, <2>1, <3>1, FilesAssumption DEF RowsType, RowOK
    <3> QED
      BY <1>1, <2>1, <2>2, <3>1, <3>2, RowsAndTold DEF LoopType, UiType
  <2> QED
    BY <2>3, <2>4
<1>3. ASSUME NEW f \in Files, CancelDone(f) PROVE IInv'
  <2>1. /\ f \in cancels /\ Put({f}, "cancelled") /\ cancels' = cancels \ {f} /\ Told
        /\ UNCHANGED <<saved, stalled, timers, paused, xfer, sweep, held, connected, due, cur, tried,
                       marker, stop, retry>>
    BY <1>3 DEF CancelDone, device
  <2>2. /\ status[f] = "cancelling" /\ f \notin cancels' /\ sweep' # f /\ cancels' \subseteq cancels
        /\ \A g \in Files : sweep' = g => sweep = g
    BY <2>1 DEF RowOK
  <2>3. RowsType' /\ \A g \in Files : RowOK(g)'
    BY <2>1, <2>2, CancelledRows
  <2>4. mute' \in BOOLEAN /\ signal' \in BOOLEAN /\ (loop' = loop \/ (loop = "idle" /\ loop' = "start"))
    BY <2>1, ToldFacts
  <2>5. MainType'
    BY <1>1, <2>1 DEF MainType
  <2> QED
    BY <1>1, <2>1, <2>3, <2>4, <2>5, RowsAndTold DEF LoopType, UiType
<1> QED
  BY <1>2, <1>3 DEF Waits

-----------------------------------------------------------------------------
(* The user, the device and the process                                    *)

\* A reconciliation of the device's list keeps the invariant.
LEMMA ReconcileStep ==
  ASSUME IInv, Reconcile, connected' = connected, due' \in BOOLEAN
  PROVE  IInv'
<1> USE DEF IInv
<1>1. RowsType /\ MainType /\ LoopType /\ UiType
  BY TypeParts
<1>2. /\ Put(Wanted, "pending") /\ ToldAndDrained /\ marker' \subseteq Files
      /\ stop' \in {"no", "asked", "halted"}
      /\ UNCHANGED <<saved, stalled, timers, paused, xfer, cancels, sweep, held, cur, tried, retry>>
  BY <1>1 DEF Reconcile, calls, UiType
<1>3. /\ Wanted \in SUBSET Files /\ held' = held \ Wanted
      /\ \A f \in Wanted : status[f] \in {"absent", "cancelled"} /\ f \notin saved
  BY <1>1, <1>2 DEF Wanted, RowOK, MainType
<1>4. RowsType' /\ \A f \in Files : RowOK(f)'
  BY <1>2, <1>3, AskedRows
<1>5. mute' \in BOOLEAN /\ signal' \in BOOLEAN /\ (loop' = loop \/ (loop = "idle" /\ loop' = "start"))
  BY <1>2, ToldFacts
<1>6. MainType'
  BY <1>1, <1>2 DEF MainType
<1> QED
  BY <1>1, <1>2, <1>4, <1>5, <1>6, RowsAndTold DEF LoopType, UiType

\* Each action of the user on one file keeps the invariant.
LEMMA FileStep ==
  ASSUME IInv, NEW f \in Files, Download(f) \/ Cancel(f) \/ Dismiss(f)
  PROVE  IInv'
<1> USE DEF IInv
<1>1. RowsType /\ MainType /\ LoopType /\ UiType
  BY TypeParts
<1>2. CASE Download(f)
  <2>1. /\ marker' \subseteq Files /\ ToldAndDrained
        /\ held' = IF status[f] = "cancelled" THEN held \ {f} ELSE held
        /\ UNCHANGED <<saved, stalled, timers, paused, xfer, cancels, sweep, connected, due, cur, tried, stop, retry>>
    BY <1>1, <1>2 DEF Download, UiType, device
  <2>2. mute' \in BOOLEAN /\ signal' \in BOOLEAN /\ (loop' = loop \/ (loop = "idle" /\ loop' = "start"))
    BY <2>1, ToldFacts
  <2>3. MainType'
    BY <1>1, <2>1 DEF MainType
  <2>4. RowsType' /\ \A g \in Files : RowOK(g)'
    <3>1. CASE Put({f}, "pending") /\ (status[f] = "cancelled" \/ (status[f] = "absent" /\ f \notin saved))
      <4>1. held' = held \ {f} /\ status[f] \in {"absent", "cancelled"} /\ f \notin saved
        BY <1>1, <2>1, <3>1 DEF RowOK, MainType
      <4> QED
        BY <2>1, <3>1, <4>1, AskedRows
    <3>2. CASE status[f] # "cancelled" /\ UNCHANGED <<status, row>>
      BY <1>1, <2>1, <3>2 DEF RowsType, RowOK
    <3> QED
      BY <1>2, <3>1, <3>2 DEF Download
  <2> QED
    BY <1>1, <2>1, <2>2, <2>3, <2>4, RowsAndTold DEF LoopType, UiType
<1>3. CASE Cancel(f)
  <2>1. /\ status[f] \in {"pending", "downloading"} /\ held' = held \union {f}
        /\ marker' \subseteq Files /\ Told
        /\ UNCHANGED <<saved, stalled, timers, paused, sweep, connected, due, cur, tried, stop, retry>>
    BY <1>1, <1>3 DEF Cancel, UiType, device
  <2>2. mute' \in BOOLEAN /\ signal' \in BOOLEAN /\ (loop' = loop \/ (loop = "idle" /\ loop' = "start"))
    BY <2>1, ToldFacts
  <2>3. CASE Intent(f)
    <3>1. status' = [status EXCEPT ![f] = "cancelling"] /\ row' = row
          /\ xfer' = [xfer EXCEPT !.abort = TRUE] /\ cancels' = cancels \union {f}
      BY <1>3, <2>3 DEF Cancel
    <3>2. RowsType'
      BY <1>1, <3>1 DEF RowsType, InMemory
    <3>3. ASSUME NEW g \in Files PROVE RowOK(g)'
      <4>1. CASE g = f
        BY <1>1, <2>1, <3>1, <4>1 DEF RowOK, RowsType
      <4>2. CASE g # f
        BY <1>1, <2>1, <3>1, <4>2 DEF RowOK, RowsType
      <4> QED
        BY <4>1, <4>2
    <3>4. MainType' /\ xfer' \in [at : Stages, abort : BOOLEAN] /\ xfer'.at = xfer.at
      BY <1>1, <2>1, <3>1 DEF MainType, LoopType
    <3> QED
      BY <1>1, <2>1, <2>2, <3>2, <3>3, <3>4, RowsAndTold DEF UiType
  <2>4. CASE ~Intent(f)
    <3>1. Put({f}, "cancelled") /\ UNCHANGED <<xfer, cancels>>
      BY <1>3, <2>4 DEF Cancel
    <3>2. {f} \in SUBSET Files /\ "cancelled" \in Stored
      BY DEF Stored, Terminal, Gone
    <3>3. /\ RowsType'
          /\ \A g \in {f} : status'[g] = "cancelled" /\ row'[g] = "cancelled"
          /\ \A g \in Files \ {f} : status'[g] = status[g] /\ row'[g] = row[g]
      BY <1>1, <3>1, <3>2, PutFacts
    <3>4. ASSUME NEW g \in Files PROVE RowOK(g)'
      <4>1. CASE g = f
        BY <2>1, <3>1, <3>3, <4>1 DEF RowOK
      <4>2. CASE g # f
        BY <2>1, <3>1, <3>3, <4>2 DEF RowOK
      <4> QED
        BY <4>1, <4>2
    <3>5. MainType'
      BY <1>1, <2>1, <3>1 DEF MainType
    <3> QED
      BY <1>1, <2>1, <2>2, <3>1, <3>3, <3>4, <3>5, RowsAndTold DEF LoopType, UiType
  <2> QED
    BY <2>3, <2>4
<1>4. CASE Dismiss(f)
  <2>1. /\ status[f] \in Terminal /\ Remove({f}) /\ held' = held \ {f} /\ Told
        /\ UNCHANGED <<saved, stalled, timers, paused, xfer, cancels, sweep, connected, due, cur, tried,
                       marker, stop, retry>>
    BY <1>4 DEF Dismiss, device
  <2>2. status[f] # "cancelling" /\ {f} \in SUBSET Files /\ timers' \subseteq timers
    BY <2>1 DEF Terminal, Gone
  <2>3. RowsType' /\ \A g \in Files : RowOK(g)'
    BY <2>1, <2>2, RemovedRows
  <2>4. mute' \in BOOLEAN /\ signal' \in BOOLEAN /\ (loop' = loop \/ (loop = "idle" /\ loop' = "start"))
    BY <2>1, ToldFacts
  <2>5. MainType'
    BY <1>1, <2>1 DEF MainType
  <2> QED
    BY <1>1, <2>1, <2>3, <2>4, <2>5, RowsAndTold DEF LoopType, UiType
<1> QED
  BY <1>2, <1>3, <1>4

\* Each action of the user on the whole queue keeps the invariant.
LEMMA QueueStep ==
  ASSUME IInv, Sync \/ RetryAll \/ CancelAll \/ CancelAllAgain \/ SetPaused
  PROVE  IInv'
<1> USE DEF IInv
<1>1. RowsType /\ MainType /\ LoopType /\ UiType
  BY TypeParts
<1>2. CASE Sync
  BY <1>1, <1>2, ReconcileStep DEF Sync, device, UiType
<1>3. CASE RetryAll
  <2> DEFINE S == {f \in Files : status[f] \in Gone}
  <2>1. /\ Requeue(S) /\ held' = held \ S /\ marker' \subseteq Files /\ paused' = FALSE /\ ToldAndDrained
        /\ UNCHANGED <<saved, stalled, timers, xfer, cancels, sweep, connected, due, cur, tried, stop, retry>>
    BY <1>1, <1>3 DEF RetryAll, UiType, device
  <2>2. S \in SUBSET Files /\ \A f \in S : status[f] \in Gone
    OBVIOUS
  <2>3. MainType'
    BY <1>1, <2>1 DEF MainType
  <2> HIDE DEF S
  <2>4. RowsType' /\ \A f \in Files : RowOK(f)'
    BY <2>1, <2>2, RequeueRows
  <2>5. mute' \in BOOLEAN /\ signal' \in BOOLEAN /\ (loop' = loop \/ (loop = "idle" /\ loop' = "start"))
    BY <2>1, ToldFacts
  <2> QED
    BY <1>1, <2>1, <2>3, <2>4, <2>5, RowsAndTold DEF LoopType, UiType
<1>4. CASE CancelAll
  <2> DEFINE S == {f \in Files : status[f] \in {"pending", "downloading"}}
             A == {f \in S : OnBus(f)}
  <2>1. /\ sweep = "no"
        /\ status' = [f \in Files |-> IF f \in A THEN "cancelling"
                                      ELSE IF f \in S THEN "cancelled" ELSE status[f]]
        /\ row' = [f \in Files |-> IF f \in S \ A THEN "cancelled" ELSE row[f]]
        /\ held' = held \union S /\ mute' = FALSE
        /\ UNCHANGED <<saved, stalled, timers, paused, cancels, connected, due, loop, cur, tried, retry>>
    BY <1>4 DEF CancelAll, device
  <2>2. /\ xfer' \in [at : Stages, abort : BOOLEAN] /\ xfer'.at = xfer.at /\ marker' \subseteq Files
        /\ stop' \in {"no", "asked", "halted"}
        /\ sweep' = "no" \/ sweep' = NoFile \/ (A # {} /\ sweep' = cur)
        /\ A # {} => sweep' = cur
    BY <1>1, <1>4, <2>1 DEF CancelAll, LoopType, UiType, OnBus
  <2>3. signal' \in BOOLEAN
    <3>1. signal' = (signal \/ Running)
      BY <1>4 DEF CancelAll
    <3>2. Running \in BOOLEAN
      BY DEF Running
    <3> QED
      BY <1>1, <3>1, <3>2, ZenonT(30) DEF UiType
  <2>4. A # {} => cur \in A
    BY DEF OnBus
  <2>5. \A f \in A : f = cur
    BY DEF OnBus
  <2>6. RowsType'
    BY <1>1, <2>1 DEF RowsType, InMemory, InTable, Stored, Terminal, Gone
  <2>7. ASSUME NEW f \in Files PROVE RowOK(f)'
    <3>1. CASE f \in A
      BY <2>1, <2>2, <2>4, <2>5, <3>1 DEF RowOK
    <3>2. CASE f \in S \ A
      BY <2>1, <2>2, <2>4, <3>2, FilesAssumption DEF RowOK
    <3>3. CASE f \notin S
      BY <2>1, <2>2, <2>4, <3>3, FilesAssumption DEF RowOK
    <3> QED
      BY <3>1, <3>2, <3>3
  <2>8. MainType'
    BY <1>1, <2>1, <2>2, <2>4 DEF MainType
  <2> QED
    BY <1>1, <2>1, <2>2, <2>3, <2>6, <2>7, <2>8, RowsAndTold DEF UiType
<1>5. CASE CancelAllAgain
  <2>1. /\ stop' = "halted" /\ marker' = {} /\ signal' = TRUE
        /\ mute' = (mute \/ stop # "asked")
        /\ UNCHANGED <<rows, xfer, calls, device, loop, cur, tried, retry>>
    BY <1>5 DEF CancelAllAgain
  <2>2. mute' \in BOOLEAN
    BY <1>1, <2>1, ZenonT(30) DEF UiType
  <2>3. RowsType' /\ MainType' /\ \A f \in Files : RowOK(f)'
    BY <1>1, <2>1 DEF RowsType, MainType, RowOK, rows, calls
  <2> QED
    BY <1>1, <2>1, <2>2, <2>3, RowsAndTold DEF LoopType, UiType, device, rows
<1>6. CASE SetPaused
  <2>1. /\ paused' = ~paused /\ ToldOf(~paused)
        /\ UNCHANGED <<status, row, saved, stalled, timers, xfer, cancels, sweep, held, connected, due, cur,
                       tried, marker, stop, retry>>
    BY <1>6 DEF SetPaused, calls, device
  <2>2. mute' \in BOOLEAN /\ signal' \in BOOLEAN /\ (loop' = loop \/ (loop = "idle" /\ loop' = "start"))
    BY <2>1, ToldFacts
  <2>3. RowsType' /\ MainType' /\ \A f \in Files : RowOK(f)'
    BY <1>1, <2>1 DEF RowsType, MainType, RowOK
  <2> QED
    BY <1>1, <2>1, <2>2, <2>3, RowsAndTold DEF LoopType, UiType
<1> QED
  BY <1>2, <1>3, <1>4, <1>5, <1>6

\* The device keeps the invariant.
LEMMA DeviceStep ==
  ASSUME IInv, Device
  PROVE  IInv'
<1> USE DEF IInv
<1>1. RowsType /\ MainType /\ LoopType /\ UiType
  BY TypeParts
<1>2. CASE Disconnect
  <2> DEFINE S == {f \in Files : status[f] = "downloading"}
  <2>1. /\ Put(S, "interrupted") /\ connected' = FALSE /\ due' = FALSE
        /\ signal' = (signal \/ Running)
        /\ UNCHANGED <<saved, stalled, timers, paused, xfer, cancels, sweep, held, loop, cur, tried,
                       marker, stop, retry>>
    BY <1>2 DEF Disconnect, calls
  <2>2. S \in SUBSET Files /\ \A f \in S : ~Cancelled(f) /\ status[f] # "absent" /\ f \notin saved
    BY DEF Cancelled, RowOK
  <2>3. mute' \in BOOLEAN
    BY <1>1, <1>2 DEF Disconnect, UiType
  <2>4. signal' \in BOOLEAN
    <3>1. Running \in BOOLEAN
      BY DEF Running
    <3> QED
      BY <1>1, <2>1, <3>1, ZenonT(30) DEF UiType
  <2> HIDE DEF S
  <2>5. RowsType' /\ \A f \in Files : RowOK(f)'
    BY <2>1, <2>2, RowsWritten DEF Stored, Terminal, Gone
  <2>6. MainType'
    BY <1>1, <2>1 DEF MainType
  <2> QED
    BY <1>1, <2>1, <2>3, <2>4, <2>5, <2>6, RowsAndTold DEF LoopType, UiType
<1>3. CASE Ready
  <2>1. /\ connected' = TRUE /\ due' = TRUE
        /\ retry' = (retry \/ (loop = "idle" /\ \E f \in Files : status[f] = "interrupted"))
        /\ UNCHANGED <<rows, xfer, calls, loop, cur, tried, signal, marker, stop, mute>>
    BY <1>3 DEF Ready
  <2>2. retry' \in BOOLEAN
    BY <1>1, <2>1, ZenonT(30) DEF UiType
  <2>3. RowsType' /\ MainType' /\ \A f \in Files : RowOK(f)'
    BY <1>1, <2>1 DEF RowsType, MainType, RowOK, rows, calls
  <2> QED
    BY <1>1, <2>1, <2>2, <2>3, RowsAndTold DEF LoopType, UiType, rows
<1>4. CASE AutoSync
  <2>1. connected' = connected /\ due' = FALSE
    BY <1>4 DEF AutoSync
  <2>2. CASE Reconcile
    BY <2>1, <2>2, ReconcileStep
  <2>3. CASE ~Reconcile
    <3>1. /\ loop' = loop \/ (loop = "idle" /\ loop' = "start")
          /\ UNCHANGED <<rows, xfer, calls, cur, tried, signal, marker, stop, mute, retry>>
      BY <1>4, <2>3 DEF AutoSync
    <3>2. RowsType' /\ MainType' /\ \A f \in Files : RowOK(f)'
      BY <1>1, <3>1 DEF RowsType, MainType, RowOK, rows, calls
    <3> QED
      BY <1>1, <2>1, <3>1, <3>2, RowsAndTold DEF LoopType, UiType, rows
  <2> QED
    BY <2>2, <2>3
<1> QED
  BY <1>2, <1>3, <1>4 DEF Device

\* A restart keeps the invariant: what was cancelled comes back cancelled.
LEMMA CrashStep ==
  ASSUME IInv, Crash
  PROVE  IInv'
<1> USE DEF IInv
<1>1. RowsType /\ MainType
  BY TypeParts
<1>2. PICK old \in SUBSET Files :
        /\ status' = [f \in Files |-> Restored(f, old)]
        /\ row' = [f \in Files |-> IF row[f] \in {"none", "completed", "interrupted"} THEN row[f]
                                   ELSE IF Restored(f, old) = "absent" THEN "none" ELSE Restored(f, old)]
  BY DEF Crash
<1>3. /\ saved' = saved /\ stalled' = {} /\ timers' = {} /\ paused' = FALSE
      /\ xfer' = NoXfer /\ cancels' = {} /\ sweep' = "no" /\ connected' = FALSE /\ due' = FALSE
      /\ held' = {f \in held : status[f] = "cancelled"}
      /\ loop' = "idle" /\ cur' = NoFile /\ tried' = {} /\ signal' = FALSE
      /\ marker' = {} /\ stop' = "no" /\ mute' = FALSE /\ retry' = FALSE
  BY DEF Crash
<1>4. \A f \in Files :
        /\ row[f] = "cancelled" => Restored(f, old) = "cancelled"
        /\ row[f] # "cancelled" => Restored(f, old) \in {"failed", "pending", "absent"}
        /\ f \in saved /\ row[f] # "cancelled" => Restored(f, old) = "absent"
  BY DEF Restored
<1>5. RowsType'
  <2>1. \A f \in Files : Restored(f, old) \in InMemory
    BY <1>4 DEF InMemory, Stored, Terminal, Gone
  <2>2. \A f \in Files : Restored(f, old) # "absent" => Restored(f, old) \in InTable
    BY <1>4 DEF InTable, Stored, Terminal, Gone
  <2>3. \A f \in Files : row[f] \in InTable
    BY <1>1 DEF RowsType
  <2> HIDE DEF Restored
  <2> QED
    BY <1>2, <2>1, <2>2, <2>3 DEF RowsType, InTable
<1>6. ASSUME NEW f \in Files PROVE RowOK(f)'
  BY <1>2, <1>3, <1>4, FilesAssumption DEF RowOK
<1>7. MainType' /\ LoopType' /\ UiType' /\ XferOK'
  BY <1>1, <1>3 DEF MainType, LoopType, UiType, XferOK, NoXfer, Stages
<1> QED
  BY <1>5, <1>6, <1>7, PartsPrimed

-----------------------------------------------------------------------------
(* The theorems                                                            *)

LEMMA Initially == Init => IInv
<1> SUFFICES ASSUME Init PROVE IInv
  OBVIOUS
<1>1. RowsType /\ MainType /\ LoopType /\ UiType
  BY DEF Init, RowsType, InMemory, InTable, Stored, MainType, LoopType, UiType, NoXfer, Stages
<1>2. \A f \in Files : RowOK(f)
  BY FilesAssumption DEF Init, RowOK
<1>3. XferOK
  BY DEF Init, XferOK, NoXfer
<1> QED
  BY <1>1, <1>2, <1>3, TypeParts DEF IInv

LEMMA Inductive == IInv /\ [Next]_vars => IInv'
<1> SUFFICES ASSUME IInv, [Next]_vars PROVE IInv'
  OBVIOUS
<1>1. CASE UNCHANGED vars
  BY <1>1 DEF vars, rows, calls, ui, device, IInv, TypeOK, RowOK, XferOK
<1>2. CASE User
  BY <1>2, FileStep, QueueStep DEF User
<1>3. CASE Transfer \/ Renderer \/ Timers \/ Waits \/ Device \/ Crash
  BY <1>3, TransferStep, RendererStep, TimersStep, WaitsStep, DeviceStep, CrashStep
<1> QED
  BY <1>1, <1>2, <1>3 DEF Next

\* The invariant holds of every behaviour of the queue.
THEOREM DownloadInvariant == Spec => []IInv
BY Initially, Inductive, PTL DEF Spec

\* The rows, the transfer and the loop keep their types, for any set of files.
THEOREM DownloadTypeCorrect == Spec => []TypeOK
<1>1. IInv => TypeOK
  BY DEF IInv
<1> QED
  BY <1>1, DownloadInvariant, PTL

\* A file the user cancelled (cancelDownload, cancelAll) is neither queued again nor
\* saved until he asks for it, and once the cancel is answered a restart finds it so.
THEOREM CancelIsHeld == Spec => []CancelHeld
<1>1. IInv => CancelHeld
  BY DEF IInv, TypeOK, RowOK, CancelHeld
<1> QED
  BY <1>1, DownloadInvariant, PTL
=============================================================================
