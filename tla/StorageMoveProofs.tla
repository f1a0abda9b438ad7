--------------------------- MODULE StorageMoveProofs ---------------------------
(***************************************************************************)
(* Theorems about a change of the recordings folder, for any recordings,   *)
(* folders, number of moves and number of ends of the process.             *)
(***************************************************************************)
EXTENDS StorageMove, TLAPS

USE FoldersAssumption, BoundsAssumption

\* A recording that was in the library in time is always playable, ...
RowsOK == \A r \in Recs : rows[r] # None /\ r \notin late => Playable(r)

\* ... for what the watcher has yet to look at is in the folder in use, or late,
NoticedOK ==
  \A r \in Recs, f \in Folders :
    <<r, f>> \in noticed /\ rows[r] = None /\ r \in files[f] => f = config \/ r \in late

\* what a move copied and has to copy is all it may lose,
MoveOK ==
  /\ IF Moving THEN live = NoStream /\ switch.at = "no" ELSE ~move.cancel
  /\ move.at \in {"drain", "wait", "check", "copy", "undo"} => move.to # config
  /\ move.at \in {"wait", "check", "copy", "undo", "init"} => noticed = {}
  /\ move.at = "copy" => \A r \in Recs : rows[r] # None /\ r \notin late
                                            => r \in move.todo \union move.copied
  /\ move.at \in {"drain", "wait", "check"} => move.copied = {} /\ files[move.to] = move.was
  /\ move.at = "copy" => move.was = {} /\ files[move.to] = move.copied
  /\ move.at = "undo" => files[move.to] \ move.copied = move.was
  /\ move.at = "init" => move.to = config

\* and a switch finds nothing but what came after its look at the folder.
SwitchOK ==
  switch.at \in {"listed", "checked"} =>
    /\ switch.to # config
    /\ \A r \in Recs : rows[r] # None \/ r \in files[config] => r \in late

IInv == TypeOK /\ RowsOK /\ NoticedOK /\ MoveOK /\ SwitchOK

\* The type invariant in three parts.
Phases == {"idle", "drain", "wait", "check", "copy", "undo", "init"}
MoveType ==
  /\ move \in [at : Phases, to : Folders \union {None}, cancel : BOOLEAN, todo : SUBSET Recs,
               copied : SUBSET Recs, was : SUBSET Recs, left : SUBSET Queues]
  /\ (Moving => move.to \in Folders /\ watch = None)
  /\ switch \in [at : {"no", "listed", "checked", "saved"}, to : Folders \union {None}]
  /\ (switch.at # "no" => switch.to \in Folders)
  /\ moves \in 0..MaxMoves /\ kills \in 0..MaxKills
DiskType ==
  /\ config \in Folders /\ files \in [Folders -> SUBSET Recs]
  /\ rows \in [Recs -> Folders \union {None}] /\ late \subseteq Recs
  /\ watch \in Folders \union {None} /\ noticed \subseteq Recs \X Folders
WriterType ==
  /\ paused \in [Queues -> BOOLEAN] /\ busy \in BOOLEAN
  /\ xfer \in {NoXfer} \union [rec : Recs, at : {"asked", "running"},
                                row : {"pending", "downloading", "failed"},
                                stage : Folders \union {None}]
  /\ live \in {NoStream} \union [rec : Recs, dir : Folders]

LEMMA TypeParts == TypeOK <=> MoveType /\ DiskType /\ WriterType
BY DEF TypeOK, MoveType, DiskType, WriterType, Phases

\* And so after a step.
LEMMA PartsPrimed ==
  ASSUME MoveType', DiskType', WriterType', RowsOK', NoticedOK', MoveOK', SwitchOK'
  PROVE  IInv'
BY DEF IInv, TypeOK, MoveType, DiskType, WriterType, Phases

LEMMA InitHolds == Init => IInv
<1> SUFFICES ASSUME Init PROVE IInv
  OBVIOUS
<1>1. PICK S \in SUBSET Recs : files = [f \in Folders |-> IF f = config THEN S ELSE {}]
  BY DEF Init
<1>2. MoveType /\ DiskType /\ WriterType
  <2>1. MoveType
    BY DEF Init, MoveType, NoMove, NoSwitch, Moving, Phases
  <2>2. DiskType
    BY <1>1 DEF Init, DiskType
  <2>3. WriterType
    BY DEF Init, WriterType
  <2> QED
    BY <2>1, <2>2, <2>3
<1>3. RowsOK /\ NoticedOK
  BY <1>1 DEF Init, RowsOK, NoticedOK, Playable
<1>4. MoveOK /\ SwitchOK
  BY DEF Init, MoveOK, SwitchOK, Moving, NoMove, NoSwitch
<1> QED
  BY <1>2, <1>3, <1>4, TypeParts DEF IInv

-----------------------------------------------------------------------------
(* The watcher and the writers                                             *)

LEMMA NoticeKeeps ==
  ASSUME IInv, NEW r0 \in Recs, NEW f0 \in Folders, Notice(r0, f0)
  PROVE  IInv'
<1> USE DEF Notice, mover, queues, writers
<1>1. MoveType' /\ DiskType' /\ WriterType'
  BY TypeParts DEF IInv, MoveType, DiskType, WriterType, Moving
<1>2. rows[r0] = None /\ r0 \in files[f0] => f0 = config \/ r0 \in late
  BY DEF IInv, NoticedOK
<1>3. RowsOK' /\ NoticedOK'
  BY <1>2, TypeParts DEF IInv, RowsOK, NoticedOK, Playable, DiskType
<1>4. MoveOK'
  BY TypeParts DEF IInv, MoveOK, Moving, MoveType, Phases
<1>5. SwitchOK'
  BY <1>2, TypeParts DEF IInv, SwitchOK, DiskType
<1> QED
  BY <1>1, <1>3, <1>4, <1>5, PartsPrimed

\* A new file: of the folder in use, or of a stream that began in an older one.
LEMMA ArrivesKeeps ==
  ASSUME IInv, NEW r0 \in Recs, NEW f0 \in Folders, Arrives(r0, f0),
         f0 = config \/ ~Moving,
         \/ rows' = rows
         \/ f0 = config /\ rows' = [rows EXCEPT ![r0] = config],
         UNCHANGED <<mover, config, watch, kills>>, WriterType',
         Moving => live' = NoStream
  PROVE  IInv'
<1> USE DEF Arrives, mover
<1>1. MoveType'
  BY TypeParts DEF IInv, MoveType, Moving
<1>2. DiskType'
  BY TypeParts DEF IInv, DiskType
<1>3. /\ \A f \in Folders : files'[f] = IF f = f0 THEN files[f] \union {r0} ELSE files[f]
      /\ \A r \in Recs : rows'[r] = rows[r] \/ (r = r0 /\ f0 = config /\ rows'[r] = config)
      /\ late \subseteq late'
  <2>1. \A f \in Folders : files'[f] = IF f = f0 THEN files[f] \union {r0} ELSE files[f]
    BY TypeParts DEF IInv, DiskType
  <2>2. \A r \in Recs : rows'[r] = rows[r] \/ (r = r0 /\ f0 = config /\ rows'[r] = config)
    BY TypeParts DEF IInv, DiskType
  <2> QED
    BY <2>1, <2>2
<1>4. RowsOK'
  BY <1>3, TypeParts DEF IInv, RowsOK, Playable, DiskType
<1>5. Listed \/ f0 # config => r0 \in late'
  OBVIOUS
<1>6. NoticedOK'
  BY <1>3, <1>5, TypeParts DEF IInv, NoticedOK, DiskType
<1>7. MoveOK'
  BY <1>3, <1>5, TypeParts DEF IInv, MoveOK, Moving, Listed, MoveType, DiskType, Phases
<1>8. SwitchOK'
  BY <1>3, <1>5, TypeParts DEF IInv, SwitchOK, Listed, DiskType
<1> QED
  BY <1>1, <1>2, <1>4, <1>6, <1>7, <1>8, PartsPrimed

\* Steps that touch neither disk, rows, watcher nor the change of folder.
LEMMA AsideKeeps ==
  ASSUME IInv, UNCHANGED <<mover, disk, watcher, kills>>, WriterType', Moving => live' = NoStream
  PROVE  IInv'
<1> USE DEF mover, disk, watcher
<1>1. MoveType' /\ DiskType'
  BY TypeParts DEF IInv, MoveType, DiskType, Moving
<1>2. RowsOK' /\ NoticedOK' /\ SwitchOK'
  BY DEF IInv, RowsOK, NoticedOK, SwitchOK, Playable
<1>3. MoveOK'
  BY DEF IInv, MoveOK, Moving
<1> QED
  BY <1>1, <1>2, <1>3, PartsPrimed

Writes(r) == Import(r) \/ Drop(r) \/ XferAsk(r) \/ LiveStart(r)
Carries == XferBegin \/ XferStalls \/ XferSaved \/ XferFails \/ LiveEnd
           \/ TranscriptionStart \/ TranscriptionEnd \/ \E q \in Queues : Toggle(q)

LEMMA WritesKeeps ==
  ASSUME IInv, NEW r \in Recs, Writes(r)
  PROVE  IInv'
<1> USE DEF queues, writers
<1>0. WriterType /\ config \in Folders /\ (Moving => live = NoStream)
  BY TypeParts DEF IInv, MoveOK, DiskType
<1>1. CASE Import(r) \/ Drop(r)
  <2>1. WriterType' /\ (Moving => live' = NoStream)
    BY <1>0, <1>1 DEF Import, Drop, WriterType
  <2> QED
    BY <1>0, <1>1, <2>1, ArrivesKeeps DEF Import, Drop
<1>2. CASE XferAsk(r) \/ LiveStart(r)
  <2>1. WriterType' /\ (Moving => live' = NoStream)
    BY <1>0, <1>2 DEF XferAsk, LiveStart, WriterType
  <2> QED
    BY <1>2, <2>1, AsideKeeps DEF XferAsk, LiveStart
<1> QED
  BY <1>1, <1>2 DEF Writes

LEMMA CarriesKeeps ==
  ASSUME IInv, Carries
  PROVE  IInv'
<1> USE DEF queues, writers
<1>0. WriterType /\ config \in Folders /\ (Moving => live = NoStream)
  BY TypeParts DEF IInv, MoveOK, DiskType
<1>1. CASE XferSaved
  <2>1. xfer.rec \in Recs
    BY <1>0, <1>1 DEF XferSaved, WriterType, NoXfer
  <2>2. WriterType' /\ (Moving => live' = NoStream)
    BY <1>0, <1>1 DEF XferSaved, WriterType
  <2> QED
    BY <1>0, <1>1, <2>1, <2>2, ArrivesKeeps DEF XferSaved
<1>2. CASE LiveEnd
  <2>1. live.rec \in Recs /\ live.dir \in Folders /\ ~Moving
    BY <1>0, <1>2 DEF LiveEnd, WriterType
  <2>2. WriterType'
    BY <1>0, <1>2 DEF LiveEnd, WriterType
  <2> QED
    BY <1>2, <2>1, <2>2, ArrivesKeeps DEF LiveEnd
<1>3. CASE XferBegin \/ XferStalls \/ XferFails
  <2>0. xfer \in [rec : Recs, at : {"asked", "running"}, row : {"pending", "downloading", "failed"},
                  stage : Folders \union {None}]
    BY <1>0, <1>3 DEF XferBegin, XferStalls, XferFails, WriterType, NoXfer
  <2>1. WriterType' /\ (Moving => live' = NoStream)
    <3>1. CASE XferBegin
      BY <1>0, <2>0, <3>1 DEF XferBegin, WriterType
    <3>2. CASE XferStalls
      BY <1>0, <2>0, <3>2 DEF XferStalls, WriterType
    <3>3. CASE XferFails
      BY <1>0, <3>3 DEF XferFails, WriterType
    <3> QED
      BY <1>3, <3>1, <3>2, <3>3
  <2> QED
    BY <1>3, <2>1, AsideKeeps DEF XferBegin, XferStalls, XferFails
<1>4. CASE TranscriptionStart \/ TranscriptionEnd \/ \E q \in Queues : Toggle(q)
  <2>1. WriterType' /\ (Moving => live' = NoStream)
    BY <1>0, <1>4 DEF TranscriptionStart, TranscriptionEnd, Toggle, WriterType
  <2> QED
    BY <1>4, <2>1, AsideKeeps DEF TranscriptionStart, TranscriptionEnd, Toggle
<1> QED
  BY <1>1, <1>2, <1>3, <1>4 DEF Carries

LEMMA ClearOldKeeps ==
  ASSUME IInv, NEW f0 \in Folders, ClearOld(f0)
  PROVE  IInv'
<1> USE DEF ClearOld, mover, queues, writers, watcher
<1>1. MoveType' /\ DiskType' /\ WriterType'
  BY TypeParts DEF IInv, MoveType, DiskType, WriterType, Moving
<1>2. /\ files'[config] = files[config]
      /\ (Moving => files'[move.to] = files[move.to])
      /\ \A f \in Folders : files'[f] \subseteq files[f]
  BY TypeParts DEF IInv, DiskType, MoveType
<1>3. RowsOK' /\ NoticedOK' /\ SwitchOK'
  BY <1>2, TypeParts DEF IInv, RowsOK, NoticedOK, SwitchOK, Playable, DiskType
<1>4. MoveOK'
  BY <1>2, TypeParts DEF IInv, MoveOK, Moving, MoveType, Phases
<1> QED
  BY <1>1, <1>3, <1>4, PartsPrimed

-----------------------------------------------------------------------------
(* The change of folder                                                    *)

\* Steps of the move that leave disk and rows alone.
Waits == Drained \/ WaitOver \/ MoveFails \/ Stopped \/ CancelMove \/ Check
         \/ \E to \in Folders : MoveStart(to)

LEMMA WaitsKeeps ==
  ASSUME IInv, Waits
  PROVE  IInv'
<1> USE DEF disk, queues, writers, watcher
<1>1. UNCHANGED <<disk, kills>>
  BY DEF Waits, Drained, WaitOver, MoveFails, Stopped, CancelMove, Check, MoveStart
<1>2. RowsOK' /\ DiskType'
  <2>1. RowsOK'
    BY <1>1 DEF IInv, RowsOK, Playable
  <2>2. watch' \in Folders \union {None} /\ noticed' \subseteq Recs \X Folders
    BY TypeParts DEF IInv, DiskType, Waits, Drained, WaitOver, MoveFails, Stopped, CancelMove,
                     Check, MoveStart
  <2> QED
    BY <1>1, <2>1, <2>2, TypeParts DEF IInv, DiskType
<1>3. MoveType'
  <2>1. CASE Drained \/ WaitOver \/ MoveFails \/ Stopped \/ CancelMove
    BY <2>1, TypeParts DEF IInv, MoveType, Moving, Phases, Drained, WaitOver, MoveFails, Stopped,
                           CancelMove
  <2>2. CASE Check
    BY <2>2, TypeParts DEF IInv, MoveType, DiskType, Moving, Phases, Check
  <2>3. CASE \E to \in Folders : MoveStart(to)
    <3> PICK to \in Folders : MoveStart(to)
      BY <2>3
    <3>1. /\ moves' = moves + 1 /\ moves < MaxMoves /\ kills' = kills /\ switch' = switch
          /\ watch' = None
      BY DEF MoveStart
    <3>2. files[to] \subseteq Recs
      BY TypeParts DEF IInv, DiskType
    <3>3. move' = [at |-> "drain", to |-> to, cancel |-> FALSE, todo |-> {}, copied |-> {},
                   was |-> files[to], left |-> {q \in Queues : paused[q]}]
      BY DEF MoveStart, NoMove
    <3>4. move' \in [at : Phases, to : Folders \union {None}, cancel : BOOLEAN, todo : SUBSET Recs,
                     copied : SUBSET Recs, was : SUBSET Recs, left : SUBSET Queues]
      BY <3>2, <3>3 DEF Phases
    <3>5. moves' \in 0..MaxMoves
      BY <3>1, TypeParts DEF IInv, MoveType
    <3> QED
      BY <3>1, <3>3, <3>4, <3>5, TypeParts DEF IInv, MoveType, Moving
  <2> QED
    BY <2>1, <2>2, <2>3 DEF Waits
<1>4. WriterType'
  BY TypeParts DEF IInv, WriterType, Waits, Drained, WaitOver, MoveFails, Stopped, CancelMove,
                   Check, MoveStart
<1>5. NoticedOK' /\ SwitchOK'
  BY <1>1 DEF IInv, NoticedOK, SwitchOK, Waits, Drained, WaitOver, MoveFails, Stopped,
              CancelMove, Check, MoveStart
<1>6. MoveOK'
  <2>1. CASE Drained \/ WaitOver \/ CancelMove
    BY <2>1, TypeParts DEF IInv, MoveOK, MoveType, Moving, Phases, Drained, WaitOver, CancelMove
  <2>2. CASE MoveFails \/ Stopped
    BY <2>2, TypeParts DEF IInv, MoveOK, MoveType, DiskType, Moving, Phases, MoveFails, Stopped
  <2>3. CASE Check
    BY <2>3, TypeParts DEF IInv, MoveOK, MoveType, DiskType, RowsOK, Playable, Moving, Phases, Check
  <2>4. CASE \E to \in Folders : MoveStart(to)
    BY <2>4, TypeParts DEF IInv, MoveOK, MoveType, Moving, Settled, MoveStart, NoMove
  <2> QED
    BY <2>1, <2>2, <2>3, <2>4 DEF Waits
<1> QED
  BY <1>2, <1>3, <1>4, <1>5, <1>6, PartsPrimed

LEMMA CopyKeeps ==
  ASSUME IInv, NEW r0 \in Recs, Copy(r0)
  PROVE  IInv'
<1> USE DEF Copy, queues, writers, watcher
<1>1. MoveType' /\ DiskType' /\ WriterType'
  <2>1. MoveType'
    BY TypeParts DEF IInv, MoveType, Moving, Phases
  <2>2. DiskType' /\ WriterType'
    BY TypeParts DEF IInv, MoveType, DiskType, WriterType
  <2> QED
    BY <2>1, <2>2
<1>2. /\ move.to \in Folders /\ move.to # config /\ noticed = {} /\ switch.at = "no"
      /\ files'[config] = files[config] /\ files'[move.to] = files[move.to] \union {r0}
  BY TypeParts DEF IInv, MoveType, DiskType, MoveOK, Moving
<1>3. RowsOK' /\ NoticedOK' /\ SwitchOK'
  BY <1>2 DEF IInv, RowsOK, NoticedOK, SwitchOK, Playable
<1>4. MoveOK'
  BY <1>2, TypeParts DEF IInv, MoveOK, Moving, MoveType, Phases
<1> QED
  BY <1>1, <1>3, <1>4, PartsPrimed

\* Rewriting to another folder and back changes nothing of the folder in use.
LEMMA ThereAndBack ==
  ASSUME NEW from \in Folders, NEW to \in Folders, rows \in [Recs -> Folders \union {None}]
  PROVE  /\ Rewritten(rows, from, to) \in [Recs -> Folders \union {None}]
         /\ Rewritten(Rewritten(rows, from, to), to, from) \in [Recs -> Folders \union {None}]
         /\ \A r \in Recs : rows[r] = from => Rewritten(rows, from, to)[r] = to
         /\ \A r \in Recs : rows[r] = from
                             => Rewritten(Rewritten(rows, from, to), to, from)[r] = from
         /\ \A r \in Recs : rows[r] = None <=> Rewritten(rows, from, to)[r] = None
         /\ \A r \in Recs : rows[r] = None
                             <=> Rewritten(Rewritten(rows, from, to), to, from)[r] = None
BY DEF Rewritten

LEMMA SwitchKeeps ==
  ASSUME IInv, Switch \/ SaveFails
  PROVE  IInv'
<1> USE DEF queues, writers, watcher
<1>1. /\ move.to \in Folders /\ config \in Folders /\ move.to # config /\ noticed = {}
      /\ switch.at = "no" /\ move.todo = {} /\ rows \in [Recs -> Folders \union {None}]
      /\ files[move.to] = move.copied /\ Moving /\ live = NoStream /\ move.at = "copy"
      /\ move.was = {}
  BY TypeParts DEF IInv, MoveType, DiskType, MoveOK, Moving, Switch, SaveFails
<1>2. rows' \in [Recs -> Folders \union {None}] /\ \A r \in Recs : rows[r] = None <=> rows'[r] = None
  BY <1>1, ThereAndBack DEF Switch, SaveFails
<1>3. MoveType' /\ DiskType' /\ WriterType'
  <2>1. MoveType'
    BY TypeParts DEF IInv, MoveType, Moving, Phases, Switch, SaveFails
  <2>2. DiskType'
    BY <1>1, <1>2, TypeParts DEF IInv, DiskType, Switch, SaveFails
  <2>3. WriterType'
    BY TypeParts DEF IInv, WriterType, Switch, SaveFails
  <2> QED
    BY <2>1, <2>2, <2>3
<1>4. RowsOK'
  <2> SUFFICES ASSUME NEW r \in Recs, rows'[r] # None, r \notin late
               PROVE  rows'[r] = config' /\ r \in files[config']
    BY DEF RowsOK, Playable, Switch, SaveFails
  <2>1. rows[r] = config /\ r \in files[config] /\ r \in move.copied
    BY <1>1, <1>2 DEF IInv, RowsOK, Playable, MoveOK
  <2> QED
    <3>1. CASE Switch
      <4>1. config' = move.to /\ rows' = Rewritten(rows, config, move.to)
        BY <3>1 DEF Switch
      <4>2. Rewritten(rows, config, move.to)[r] = move.to
        BY <1>1, <2>1, ThereAndBack
      <4>3. r \in files[move.to]
        BY <1>1, <2>1
      <4> QED
        BY <4>1, <4>2, <4>3
    <3>2. CASE SaveFails
      <4>1. config' = config /\ rows' = Rewritten(Rewritten(rows, config, move.to), move.to, config)
        BY <3>2 DEF SaveFails
      <4> QED
        BY <1>1, <2>1, <4>1, ThereAndBack
    <3> QED
      BY <3>1, <3>2
<1>5. NoticedOK' /\ SwitchOK'
  BY <1>1 DEF NoticedOK, SwitchOK, Switch, SaveFails
<1>6. MoveOK'
  <2>1. /\ switch' = switch /\ live' = live /\ noticed' = noticed /\ files' = files
        /\ move'.to = move.to /\ move'.copied = move.copied /\ move'.was = move.was
        /\ \/ move'.at = "init" /\ config' = move.to
           \/ move'.at = "undo" /\ config' = config
    BY <1>1, TypeParts DEF IInv, MoveType, Switch, SaveFails
  <2> QED
    BY <1>1, <2>1 DEF MoveOK, Moving
<1> QED
  BY <1>3, <1>4, <1>5, <1>6, PartsPrimed

\* The scan gives rows only to files of the folder in use, and keeps the others.
LEMMA ScanSound ==
  ASSUME NEW c \in Folders, NEW fs, NEW rs \in [Recs -> Folders \union {None}]
  PROVE  /\ Scanned(c, fs, rs) \in [Recs -> Folders \union {None}]
         /\ \A r \in Recs : Scanned(c, fs, rs)[r] = rs[r]
                             \/ (rs[r] = None /\ r \in fs[c] /\ Scanned(c, fs, rs)[r] = c)
BY DEF Scanned

LEMMA FinallyKeeps ==
  ASSUME IInv, Undone \/ MoveEnds
  PROVE  IInv'
<1> USE DEF Finally, queues, writers
<1>1. /\ move.to \in Folders /\ config \in Folders /\ noticed = {} /\ switch.at = "no"
      /\ rows \in [Recs -> Folders \union {None}] /\ files \in [Folders -> SUBSET Recs]
      /\ Moving /\ (move.at = "undo" => move.to # config)
  BY TypeParts DEF IInv, MoveType, DiskType, MoveOK, Moving, Undone, MoveEnds
<1>2. files' \in [Folders -> SUBSET Recs] /\ files'[config] = files[config]
  BY <1>1 DEF Undone, MoveEnds
<1>3. /\ config' = config /\ switch' = switch /\ noticed' = noticed /\ move' = NoMove
      /\ watch' = config /\ moves' = moves /\ kills' = kills /\ xfer' = xfer /\ live' = live
      /\ busy' = busy
      /\ paused' = [q \in Queues |-> paused[q] /\ q \in move.left]
      /\ rows' = Scanned(config, files', rows)
      /\ late' = late \ {r \in late : r \in files'[config] /\ rows'[r] = config}
  BY DEF Undone, MoveEnds
<1>4. rows' \in [Recs -> Folders \union {None}]
      /\ \A r \in Recs : rows'[r] = rows[r] \/ (r \in files[config] /\ rows'[r] = config)
  BY <1>1, <1>2, <1>3, ScanSound
<1>5. MoveType'
  BY <1>1, <1>3, TypeParts DEF IInv, MoveType, Moving, NoMove, Phases
<1>6. DiskType'
  BY <1>1, <1>2, <1>3, <1>4, TypeParts DEF IInv, DiskType
<1>7. WriterType'
  BY <1>3, TypeParts DEF IInv, WriterType
<1>8. RowsOK'
  BY <1>1, <1>2, <1>3, <1>4 DEF IInv, RowsOK, Playable
<1>9. NoticedOK' /\ SwitchOK' /\ MoveOK'
  BY <1>1, <1>3 DEF NoticedOK, SwitchOK, MoveOK, Moving, NoMove
<1> QED
  BY <1>5, <1>6, <1>7, <1>8, <1>9, PartsPrimed

Changes == SwitchCheck \/ SwitchSave \/ SwitchFails \/ SwitchWatch
           \/ \E to \in Folders : SwitchList(to)

LEMMA ChangesKeeps ==
  ASSUME IInv, Changes
  PROVE  IInv'
<1> USE DEF queues, writers, watcher, disk
<1>1. /\ config \in Folders /\ rows \in [Recs -> Folders \union {None}] /\ ~Moving
      /\ files' = files /\ late' = late /\ move' = move /\ noticed' = noticed /\ kills' = kills
  BY TypeParts DEF IInv, DiskType, MoveOK, Changes, SwitchCheck, SwitchSave, SwitchFails,
                   SwitchWatch, SwitchList, Settled
<1>2. MoveType'
  BY <1>1, TypeParts DEF IInv, MoveType, Moving, Changes, SwitchCheck, SwitchSave, SwitchFails,
                   SwitchWatch, SwitchList, NoSwitch
<1>3. WriterType'
  BY TypeParts DEF IInv, WriterType, Changes, SwitchCheck, SwitchSave, SwitchFails, SwitchWatch,
                   SwitchList
<1>4. MoveOK'
  BY <1>1 DEF IInv, MoveOK, Moving
<1>5. CASE SwitchWatch
  <2>1. rows' \in [Recs -> Folders \union {None}] /\ config' = config /\ switch'.at = "no"
        /\ \A r \in Recs : rows'[r] = rows[r] \/ (r \in files[config] /\ rows'[r] = config)
    BY <1>1, <1>5, ScanSound DEF SwitchWatch, NoSwitch
  <2>2. DiskType' /\ RowsOK' /\ SwitchOK'
    BY <1>1, <1>5, <2>1, TypeParts DEF IInv, DiskType, RowsOK, Playable, SwitchOK, SwitchWatch
  <2>3. \A r \in Recs : rows'[r] = None => rows[r] = None
    BY <1>1, <2>1
  <2>4. NoticedOK'
    BY <1>1, <2>1, <2>3 DEF IInv, NoticedOK
  <2> QED
    BY <1>2, <1>3, <1>4, <2>2, <2>4, PartsPrimed
<1>6. CASE SwitchSave
  <2>1. rows' = rows /\ config' = switch.to /\ switch.to \in Folders /\ switch'.at = "saved"
        /\ watch' = watch /\ \A r \in Recs : rows[r] # None \/ r \in files[config] => r \in late
    BY <1>6, TypeParts DEF IInv, MoveType, SwitchOK, SwitchSave
  <2>2. DiskType' /\ RowsOK' /\ SwitchOK'
    BY <1>1, <2>1, TypeParts DEF IInv, DiskType, RowsOK, SwitchOK
  <2>3. NoticedOK'
    BY <1>1, <2>1 DEF IInv, NoticedOK
  <2> QED
    BY <1>2, <1>3, <1>4, <2>2, <2>3, PartsPrimed
<1>7. CASE SwitchCheck \/ SwitchFails \/ \E to \in Folders : SwitchList(to)
  <2>1. rows' = rows /\ config' = config /\ watch' = watch
    BY <1>7 DEF SwitchCheck, SwitchFails, SwitchList
  <2>2. DiskType' /\ RowsOK' /\ NoticedOK'
    BY <1>1, <2>1, TypeParts DEF IInv, DiskType, RowsOK, NoticedOK, Playable
  <2>3. SwitchOK'
    BY <1>1, <1>7, <2>1, TypeParts DEF IInv, MoveType, SwitchOK, RowsOK, Playable, SwitchCheck,
                     SwitchFails, SwitchList, NoSwitch
  <2> QED
    BY <1>2, <1>3, <1>4, <2>2, <2>3, PartsPrimed
<1> QED
  BY <1>5, <1>6, <1>7 DEF Changes

LEMMA KilledKeeps ==
  ASSUME IInv, Killed
  PROVE  IInv'
<1>1. /\ config \in Folders /\ rows \in [Recs -> Folders \union {None}]
      /\ files \in [Folders -> SUBSET Recs] /\ (live.dir = config => live.rec \in Recs)
  BY TypeParts DEF IInv, DiskType, WriterType, NoStream
<1>2. files' \in [Folders -> SUBSET Recs] /\ files[config] \subseteq files'[config]
  BY <1>1 DEF Killed
<1>3. rows' \in [Recs -> Folders \union {None}]
      /\ \A r \in Recs : rows'[r] = rows[r] \/ (r \in files'[config] /\ rows'[r] = config)
  <2>1. rows' = Scanned(config, files', rows)
    BY DEF Killed
  <2> QED
    BY <1>1, <2>1, ScanSound
<1>4. MoveType'
  BY TypeParts DEF IInv, MoveType, Moving, NoMove, NoSwitch, Phases, Killed
<1>5. DiskType' /\ WriterType'
  BY <1>1, <1>2, <1>3, TypeParts DEF IInv, DiskType, WriterType, Killed
<1>6. RowsOK'
  BY <1>1, <1>2, <1>3 DEF IInv, RowsOK, Playable, Killed
<1>7. NoticedOK' /\ MoveOK' /\ SwitchOK'
  BY DEF NoticedOK, MoveOK, SwitchOK, Moving, NoMove, NoSwitch, Killed
<1> QED
  BY <1>4, <1>5, <1>6, <1>7, PartsPrimed

-----------------------------------------------------------------------------
(* The theorems                                                            *)

LEMMA NextKeeps == IInv /\ [Next]_vars => IInv'
<1> SUFFICES ASSUME IInv, [Next]_vars PROVE IInv'
  OBVIOUS
<1>1. CASE UNCHANGED vars
  <2>1. WriterType'
    BY <1>1, TypeParts DEF IInv, WriterType, vars, queues, writers
  <2>2. Moving => live' = NoStream
    BY <1>1 DEF IInv, MoveOK, vars, writers
  <2> QED
    BY <1>1, <2>1, <2>2, AsideKeeps DEF vars
<1>2. CASE Next
  <2>1. ASSUME MoveNext PROVE IInv'
    BY <2>1, WaitsKeeps, CopyKeeps, SwitchKeeps, FinallyKeeps DEF MoveNext, Waits
  <2>2. ASSUME SwitchNext PROVE IInv'
    BY <2>2, ChangesKeeps DEF SwitchNext, Changes
  <2>3. ASSUME CancelMove \/ Killed PROVE IInv'
    BY <2>3, WaitsKeeps, KilledKeeps DEF Waits
  <2>4. ASSUME NEW to \in Folders, MoveStart(to) \/ SwitchList(to) \/ ClearOld(to) PROVE IInv'
    BY <2>4, WaitsKeeps, ChangesKeeps, ClearOldKeeps DEF Waits, Changes
  <2>5. ASSUME NEW r \in Recs, Writes(r) PROVE IInv'
    BY <2>5, WritesKeeps
  <2>6. ASSUME NEW r \in Recs, NEW f \in Folders, Notice(r, f) PROVE IInv'
    BY <2>6, NoticeKeeps
  <2>7. ASSUME Carries PROVE IInv'
    BY <2>7, CarriesKeeps
  <2> QED
    BY <1>2, <2>1, <2>2, <2>3, <2>4, <2>5, <2>6, <2>7 DEF Next, Writes, Carries
<1> QED
  BY <1>1, <1>2

\* The invariant that carries the other theorems: what the move copied and has
\* still to copy, what came late and what the watcher has yet to see.
THEOREM StorageInvariant == Spec => []IInv
BY InitHolds, NextKeeps, PTL DEF Spec

\* Types, for every value of the constants.
THEOREM StorageTypeCorrect == Spec => []TypeOK
<1>1. IInv => TypeOK
  BY DEF IInv
<1> QED
  BY <1>1, StorageInvariant, PTL

\* Whatever is stopped, fails or is killed, what was in the library when the
\* folder was listed stays playable (storage-move.ts:25-26).
THEOREM ListedStaysPlayable == Spec => []ListedPlayable
<1>1. IInv => ListedPlayable
  BY DEF IInv, RowsOK, ListedPlayable
<1> QED
  BY <1>1, StorageInvariant, PTL

\* A stopped move switches nothing, and a move without a switch takes back what
\* it copied (storage-move.ts:16-17).
THEOREM StoppedMoveIsUndone == Spec => StoppedIsUndone
<1> DEFINE Step == /\ (move.cancel => config' = config)
                   /\ (Moving /\ move'.at = "idle" /\ kills' = kills /\ config # move.to)
                      => files'[move.to] = move.was
<1>1. ASSUME IInv, [Next]_vars PROVE Step \/ UNCHANGED vars
  <2> SUFFICES ASSUME Next PROVE Step
    BY <1>1
  <2>1. move.cancel => config' = config
    <3>1. config' = config \/ Switch \/ SwitchSave
      BY DEF Next, MoveNext, SwitchNext, Drained, WaitOver, MoveFails, Stopped, CancelMove, Check,
             MoveStart, Copy, SaveFails, Undone, MoveEnds, Finally, SwitchCheck, SwitchFails,
             SwitchWatch, SwitchList, Killed, Notice, Import, Drop, XferAsk, XferBegin, XferStalls,
             XferSaved, XferFails, LiveStart, LiveEnd, ClearOld, TranscriptionStart,
             TranscriptionEnd, Toggle, disk
    <3>2. Switch => ~move.cancel
      BY DEF Switch
    <3>3. SwitchSave => ~Moving
      BY <1>1 DEF IInv, MoveOK, SwitchSave
    <3>4. ~Moving => ~move.cancel
      BY <1>1 DEF IInv, MoveOK
    <3> QED
      BY <3>1, <3>2, <3>3, <3>4
  <2>2. ASSUME Moving, move'.at = "idle", kills' = kills, config # move.to
        PROVE  files'[move.to] = move.was
    <3>1. Undone \/ MoveEnds
      <4>1. TypeOK /\ kills \in Nat
        BY <1>1 DEF IInv, TypeOK
      <4>2. ~Killed
        BY <2>2, <4>1 DEF Killed
      <4>3. ~UNCHANGED move
        BY <2>2 DEF Moving
      <4>4. ~(\E to \in Folders : MoveStart(to)) /\ ~(\E r \in Recs : Copy(r))
            /\ ~Drained /\ ~WaitOver /\ ~MoveFails /\ ~Stopped /\ ~CancelMove /\ ~Check
            /\ ~Switch /\ ~SaveFails
        BY <2>2, <4>1 DEF TypeOK, Moving, Settled, Drained, WaitOver, MoveFails, Stopped, CancelMove,
                     Check, MoveStart, Copy, Switch, SaveFails
      <4> QED
        BY <4>2, <4>3, <4>4 DEF Next, MoveNext, SwitchNext, SwitchCheck, SwitchSave, SwitchFails,
             SwitchWatch, SwitchList, Notice, Import, Drop, XferAsk, XferBegin, XferStalls,
             XferSaved, XferFails, LiveStart, LiveEnd, ClearOld, TranscriptionStart,
             TranscriptionEnd, Toggle, mover
    <3>2. ~MoveEnds
      BY <1>1, <2>2 DEF IInv, MoveOK, MoveEnds
    <3>3. move.to \in Folders /\ files \in [Folders -> SUBSET Recs]
      BY <1>1, <2>2 DEF IInv, TypeOK
    <3> QED
      BY <1>1, <3>1, <3>2, <3>3 DEF Undone, IInv, MoveOK
  <2> QED
    BY <2>1, <2>2
<1> QED
  BY <1>1, StorageInvariant, PTL DEF Spec, StoppedIsUndone
=============================================================================
