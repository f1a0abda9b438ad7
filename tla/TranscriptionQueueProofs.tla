------------------------ MODULE TranscriptionQueueProofs -----------------------
(***************************************************************************)
(* Theorems about the transcription queue, for any recordings and rows.    *)
(***************************************************************************)
EXTENDS TranscriptionQueue, TLAPS

USE QueueAssumption

\* The type invariant in parts; a row of the table names its recording.
RunType == [pc : RunPoints \cup {"idle", "next"}, id : Ids \cup {NoId}, of : Recs \cup {NoRec},
            was : Statuses, out : Outcomes, cut : BOOLEAN, joined : BOOLEAN]
LaneType == lane \in [Lanes -> RunType]
TableType(R) ==
  /\ R \in [Ids -> [of : Recs \cup {NoRec}, st : RowStates]]
  /\ \A i \in Ids : R[i].st # "none" => R[i].of \in Recs
StatusType(S) == S \in [Recs -> Statuses]
FlagType ==
  /\ lock \in {"free", "held", "dead"} /\ directed \in BOOLEAN /\ stopAll \in BOOLEAN
  /\ paused \in BOOLEAN /\ marks \in SUBSET Recs
  /\ restart \in [Recs -> {"none", "waiting", "dropped"}] /\ timer \in {"unborn", "on", "off"}

\* The row of a live run is never taken for a waiting one, and is kept for a run
\* that was not cancelled.
Held(k, R) ==
  /\ R[lane[k].id].st \notin {"pending", "failed"}
  /\ ~lane[k].cut => R[lane[k].id].st = "processing" /\ R[lane[k].id].of = lane[k].of
Table(R) == \A k \in Lanes : Live(k) => Held(k, R)

\* Two live runs have two rows; alone with its recording, a run is cancelled
\* exactly when its recording is marked.
RunOK(k) ==
  /\ lane[k].id \in Ids /\ lane[k].of \in Recs
  /\ lane[k].pc = "closing" <=> lane[k].out # "open"
Apart(k) ==
  \A m \in Lanes : m # k /\ Live(m) =>
    lane[k].id # lane[m].id /\ (lane[k].of = lane[m].of => lane[k].joined)
CutOK(k) ==
  ~lane[k].joined => /\ lane[k].cut => Marked(k)
                     /\ Marked(k) \/ lane[k].out = "cancelled" => lane[k].cut
LaneOK == \A k \in Lanes : Live(k) => RunOK(k) /\ Apart(k) /\ CutOK(k)

\* A mark is for a run that is under way, ...
MarksLive == \A r \in marks : Active(r)

\* and 'processing' for one that has yet to settle the status.
Unsettled(k, r) ==
  On(k, r) /\ lane[k].pc # "after" /\ lane[k].out \notin {"completed", "no_speech"}
Shown(S, t) ==
  \A r \in Recs : S[r] = "processing" /\ (t # "unborn" \/ Active(r)) => \E k \in Lanes : Unsettled(k, r)

IInv ==
  /\ LaneType /\ TableType(row) /\ StatusType(status) /\ FlagType
  /\ Table(row) /\ LaneOK /\ MarksLive /\ Shown(status, timer)

LEMMA InitHolds == Init => IInv
<1> SUFFICES ASSUME Init PROVE IInv
  OBVIOUS
<1>1. \A k \in Lanes : ~Live(k)
  BY DEF Init, Live, NoRun, RunPoints
<1>2. LaneType
  BY DEF Init, LaneType, RunType, NoRun, Statuses, Outcomes, RunPoints
<1>3. TableType(row) /\ StatusType(status) /\ FlagType
  BY DEF Init, TableType, StatusType, FlagType, NoRow, RowStates, Statuses
<1>4. Table(row) /\ LaneOK /\ MarksLive
  BY <1>1 DEF Init, Table, LaneOK, MarksLive
<1>5. Shown(status, timer)
  BY DEF Init, Shown
<1> QED
  BY <1>2, <1>3, <1>4, <1>5 DEF IInv

-----------------------------------------------------------------------------
(* The queue pass                                                          *)

\* A table and statuses that fit the lanes, which a handler may leave.
Fits(R, S, t) == TableType(R) /\ StatusType(S) /\ Table(R) /\ Shown(S, t)

LEMMA SameLanes ==
  ASSUME IInv, UNCHANGED <<lane, marks>>, FlagType', Fits(row', status', timer')
  PROVE  IInv'
<1>1. LaneType' /\ Table(row)' /\ LaneOK' /\ MarksLive'
  BY DEF IInv, Fits, LaneType, Table, Held, LaneOK, RunOK, Apart, CutOK, MarksLive, Live, Marked, Active, On
<1>2. Shown(status, timer)'
  BY DEF Fits, Shown, Unsettled, Active, On, Live
<1>3. TableType(row)' /\ StatusType(status)' /\ FlagType'
  BY DEF Fits, TableType, StatusType
<1> QED
  BY <1>1, <1>2, <1>3 DEF IInv

\* A lane that is free takes a waiting row.
LEMMA TakeKeeps ==
  ASSUME IInv, NEW k0 \in Lanes, ~Live(k0), NEW R, NEW S, Fits(R, S, timer'), FlagType',
         NEW i0 \in Pending(R), row' = Taken(i0, R), lane' = Opened(k0, i0, R),
         status' = S, marks' = marks
  PROVE  IInv'
<1> DEFINE r0 == R[i0].of
<1>1. i0 \in Ids /\ R[i0].st = "pending" /\ r0 \in Recs
  BY DEF Pending, Fits, TableType
<1>2. /\ lane'[k0].pc = "checking" /\ lane'[k0].id = i0 /\ lane'[k0].of = r0
      /\ lane'[k0].out = "open" /\ lane'[k0].cut = FALSE
      /\ lane'[k0].joined = (\E m \in Lanes : m # k0 /\ On(m, r0))
  BY DEF Opened, NoRun
<1>3. \A m \in Lanes : m # k0 =>
        /\ lane'[m].pc = lane[m].pc /\ lane'[m].id = lane[m].id /\ lane'[m].of = lane[m].of
        /\ lane'[m].out = lane[m].out /\ lane'[m].cut = lane[m].cut
        /\ lane'[m].joined = (lane[m].joined \/ On(m, r0))
  BY DEF Opened, IInv, LaneType, RunType
<1>4. LaneType'
  <2>1. \A m \in Lanes : lane'[m] \in RunType
    BY <1>1 DEF Opened, NoRun, IInv, LaneType, RunType, RunPoints, Statuses, Outcomes, On, Live
  <2> QED
    BY <2>1 DEF LaneType, Opened
<1>5. \A m \in Lanes : m # k0 => (Live(m)' <=> Live(m)) /\ \A r \in Recs : On(m, r)' <=> On(m, r)
  BY <1>3 DEF Live, On
<1>6. Live(k0)' /\ \A r \in Recs : On(k0, r)' <=> r = r0
  BY <1>1, <1>2 DEF Live, On, RunPoints
<1>7. TableType(row)' /\ StatusType(status)'
  BY <1>1 DEF Taken, Fits, TableType, RowStates, StatusType
<1>8. Table(row)'
  <2>1. ASSUME NEW m \in Lanes, Live(m)' PROVE Held(m, row)'
    <3>1. CASE m = k0
      BY <1>1, <1>2, <3>1, <1>7 DEF Held, Taken, Fits, TableType
    <3>2. CASE m # k0
      <4>1. Live(m) /\ Held(m, R) /\ lane[m].id \in Ids
        BY <2>1, <1>5, <3>2 DEF Fits, Table, IInv, LaneOK, RunOK
      <4>2. lane[m].id # i0
        BY <4>1, <1>1 DEF Held
      <4> QED
        BY <4>1, <4>2, <1>3, <1>1, <3>2 DEF Held, Taken, Fits, TableType
    <3> QED
      BY <3>1, <3>2
  <2> QED
    BY <2>1 DEF Table
<1>9. LaneOK'
  <2>1. RunOK(k0)' /\ CutOK(k0)'
    <3>1. CASE lane'[k0].joined
      BY <1>1, <1>2, <3>1 DEF RunOK, CutOK
    <3>2. CASE ~lane'[k0].joined
      <4>1. ~Active(r0)
        BY <1>2, <3>2 DEF Active, On
      <4>2. r0 \notin marks
        BY <4>1 DEF IInv, MarksLive
      <4> QED
        BY <1>1, <1>2, <4>2 DEF RunOK, CutOK, Marked
    <3> QED
      BY <3>1, <3>2
  <2>2. ASSUME NEW m \in Lanes, m # k0, Live(m)' PROVE RunOK(m)' /\ CutOK(m)'
    <3>1. RunOK(m) /\ CutOK(m)
      BY <1>5, <2>2 DEF IInv, LaneOK
    <3> QED
      BY <1>3, <2>2, <3>1 DEF RunOK, CutOK, Marked
  <2>3. ASSUME NEW m \in Lanes, m # k0, Live(m)'
        PROVE  lane[m].id # i0 /\ (lane[m].of = r0 => lane'[m].joined /\ lane'[k0].joined)
    <3>1. Live(m) /\ Held(m, R)
      BY <1>5, <2>3 DEF Fits, Table
    <3>2. lane[m].id # i0
      BY <1>1, <3>1 DEF Held
    <3> QED
      BY <1>2, <1>3, <2>3, <3>1, <3>2 DEF On
  <2>4. ASSUME NEW m \in Lanes, Live(m)' PROVE Apart(m)'
    <3> SUFFICES ASSUME NEW n \in Lanes, n # m, Live(n)'
                 PROVE  lane'[m].id # lane'[n].id /\ (lane'[m].of = lane'[n].of => lane'[m].joined)
      BY DEF Apart
    <3>1. CASE m = k0
      <4>1. n # k0 /\ lane'[n].id = lane[n].id /\ lane'[n].of = lane[n].of
        BY <1>3, <3>1
      <4>2. lane[n].id # i0 /\ (lane[n].of = r0 => lane'[k0].joined)
        BY <2>3, <4>1
      <4> QED
        BY <4>1, <4>2, <1>2, <3>1
    <3>2. CASE n = k0
      <4>1. m # k0 /\ lane'[m].id = lane[m].id /\ lane'[m].of = lane[m].of
        BY <1>3, <3>2
      <4>2. lane[m].id # i0 /\ (lane[m].of = r0 => lane'[m].joined)
        BY <2>3, <2>4, <4>1
      <4> QED
        BY <4>1, <4>2, <1>2, <3>2
    <3>3. CASE m # k0 /\ n # k0
      <4>1. Apart(m) /\ Live(n)
        BY <1>5, <2>4, <3>3 DEF IInv, LaneOK
      <4> QED
        BY <4>1, <1>3, <3>3 DEF Apart
    <3> QED
      BY <3>1, <3>2, <3>3
  <2> QED
    BY <2>1, <2>2, <2>4 DEF LaneOK
<1>10. MarksLive'
  <2> SUFFICES ASSUME NEW r \in marks PROVE Active(r)'
    BY DEF MarksLive
  <2>1. PICK m \in Lanes : On(m, r)
    BY DEF IInv, MarksLive, Active
  <2>2. r \in Recs /\ m # k0
    BY <2>1 DEF On, IInv, FlagType
  <2> QED
    BY <1>5, <2>1, <2>2 DEF Active
<1>11. Shown(status, timer)'
  <2> SUFFICES ASSUME NEW r \in Recs, S[r] = "processing", timer' # "unborn" \/ Active(r)'
               PROVE  \E k \in Lanes : Unsettled(k, r)'
    BY DEF Shown
  <2>1. CASE Active(r) \/ timer' # "unborn"
    <3>1. PICK k \in Lanes : Unsettled(k, r)
      BY <2>1 DEF Fits, Shown
    <3> QED
      BY <3>1, <1>3, <1>5 DEF Unsettled, On
  <2>2. CASE ~Active(r) /\ timer' = "unborn"
    <3>1. r = r0
      BY <2>2, <1>5, <1>6 DEF Active
    <3> QED
      BY <3>1, <1>2, <1>6 DEF Unsettled
  <2> QED
    BY <2>1, <2>2
<1> QED
  BY <1>4, <1>7, <1>8, <1>9, <1>10, <1>11 DEF IInv

LEMMA ShortKeeps ==
  ASSUME IInv, NEW R, NEW S, Fits(R, S, timer'), FlagType', StartShort(R, S)
  PROVE  IInv'
<1>1. PICK i \in Pending(R) : row' = Taken(i, R) /\ lane' = Opened("short", i, R)
  BY DEF StartShort
<1>2. ~Live("short") /\ status' = S /\ marks' = marks
  BY DEF StartShort, Live, RunPoints
<1> QED
  BY <1>1, <1>2, TakeKeeps DEF Lanes

\* Failed rows belong to no live run.
LEMMA RequeueFits ==
  ASSUME IInv, NEW R, NEW S, NEW t, Fits(R, S, t), NEW D \in SUBSET Retryable(R)
  PROVE  Fits(Requeued(R, D), Waiting(R, S, D), t)
<1> DEFINE Q == Requeued(R, D)
           P == Waiting(R, S, D)
<1>1. \A i \in D : i \in Ids /\ R[i].st = "failed"
  BY DEF Retryable
<1>2. TableType(Q)
  BY <1>1 DEF Fits, TableType, Requeued, RowStates
<1>3. StatusType(P)
  BY DEF Fits, StatusType, Waiting, Statuses
<1>4. Table(Q)
  <2> SUFFICES ASSUME NEW k \in Lanes, Live(k) PROVE Held(k, Q)
    BY DEF Table
  <2>1. Held(k, R) /\ lane[k].id \in Ids
    BY DEF Fits, Table, IInv, LaneOK, RunOK
  <2>2. lane[k].id \notin D
    BY <1>1, <2>1 DEF Held
  <2>3. Q[lane[k].id] = R[lane[k].id]
    BY <2>1, <2>2 DEF Requeued
  <2> QED
    BY <2>1, <2>3 DEF Held
<1>5. Shown(P, t)
  BY DEF Fits, Shown, Waiting
<1> QED
  BY <1>2, <1>3, <1>4, <1>5 DEF Fits

LEMMA KickKeeps ==
  ASSUME IInv, NEW R, NEW S, NEW L \in {"free", "held", "dead"}, Fits(R, S, timer'),
         paused' \in BOOLEAN, restart' \in [Recs -> {"none", "waiting", "dropped"}],
         timer' \in {"unborn", "on", "off"}, Kick(R, S, L)
  PROVE  IInv'
<1>1. FlagType'
  BY DEF Kick, StartShort, Idles, StopSeen, FlagType, IInv
<1>2. ASSUME NEW R1, NEW S1, NEW L1, Fits(R1, S1, timer'), Idles(R1, S1, L1) PROVE IInv'
  BY <1>1, <1>2, SameLanes DEF Idles
<1>3. CASE Busy /\ ~directed /\ StartShort(R, S) /\ lock' = L
  BY <1>1, <1>3, ShortKeeps
<1>4. CASE (Busy \/ L # "free") /\ Idles(R, S, L) /\ UNCHANGED stopAll
  BY <1>2, <1>4
<1>5. CASE ~Busy /\ paused' /\ Idles(R, S, "free") /\ UNCHANGED stopAll
  BY <1>2, <1>5
<1>6. ASSUME ~Busy, NEW D \in SUBSET Retryable(R),
             LET Q == Requeued(R, D)
                 P == Waiting(R, S, D)
             IN \/ Pending(Q) = {} /\ Idles(Q, P, "free") /\ UNCHANGED stopAll
                \/ Pending(Q) # {} /\ stopAll /\ Idles(Q, P, "free") /\ StopSeen
                \/ /\ ~stopAll
                   /\ \E i \in Pending(Q) : row' = Taken(i, Q) /\ lane' = Opened("main", i, Q)
                   /\ status' = P /\ lock' = "held"
                   /\ UNCHANGED <<directed, stopAll, marks>>
      PROVE IInv'
  <2> DEFINE Q == Requeued(R, D)
             P == Waiting(R, S, D)
  <2>1. Fits(Q, P, timer')
    BY RequeueFits
  <2>2. CASE Idles(Q, P, "free")
    BY <1>2, <2>1, <2>2
  <2>3. ASSUME NEW i \in Pending(Q), row' = Taken(i, Q), lane' = Opened("main", i, Q),
               status' = P, marks' = marks
        PROVE  IInv'
    <3>1. ~Live("main") /\ "main" \in Lanes
      BY <1>6 DEF Busy, Live, RunPoints, Lanes
    <3> QED
      BY <1>1, <2>1, <2>3, <3>1, TakeKeeps
  <2> QED
    BY <1>6, <2>2, <2>3
<1> QED
  BY <1>3, <1>4, <1>5, <1>6 DEF Kick

-----------------------------------------------------------------------------
(* Requests                                                                *)

LEMMA NowFits == IInv => Fits(row, status, timer)
BY DEF IInv, Fits

\* No live run has the id of a new row.
LEMMA AddFits ==
  ASSUME IInv, NEW r0 \in Recs, NEW A \in Add(r0, row, status)
  PROVE  Fits(A[1], A[2], timer)
<1>1. CASE A = <<row, status>>
  BY <1>1, NowFits
<1>2. ASSUME NEW i \in Fresh(row),
             A = <<[row EXCEPT ![i] = [of |-> r0, st |-> "pending"]], [status EXCEPT ![r0] = "pending"]>>
      PROVE  Fits(A[1], A[2], timer)
  <2>1. i \in Unused(row)
    BY DEF Fresh
  <2>2. i \in Ids /\ \A k \in Lanes : lane[k].id # i
    BY <2>1 DEF Unused
  <2>3. TableType(A[1]) /\ StatusType(A[2])
    BY <1>2, <2>2 DEF IInv, TableType, StatusType, RowStates, Statuses
  <2>4. Table(A[1])
    BY <1>2, <2>2 DEF IInv, Table, Held, TableType
  <2>5. Shown(A[2], timer)
    BY <1>2 DEF IInv, Shown, StatusType
  <2> QED
    BY <2>3, <2>4, <2>5 DEF Fits
<1> QED
  BY <1>1, <1>2 DEF Add

\* A recording that is made to wait shows 'processing' no more.
LEMMA WaitFits ==
  ASSUME NEW R, NEW S, NEW t, Fits(R, S, t), NEW r0 \in Recs, NEW x \in {"pending", "settled"}
  PROVE  Fits(R, [S EXCEPT ![r0] = x], t)
BY DEF Fits, StatusType, Statuses, Shown

LEMMA AskKeeps == ASSUME IInv, NEW r \in Recs, Ask(r) PROVE IInv'
<1>1. PICK A \in Add(r, row, status) : Kick(A[1], A[2], lock)
  BY DEF Ask
<1>2. UNCHANGED <<paused, restart, timer>>
  BY DEF Ask
<1> QED
  BY <1>1, <1>2, AddFits, KickKeeps DEF IInv, FlagType

LEMMA RetryKeeps == ASSUME IInv, NEW r \in Recs, Retry(r) PROVE IInv'
<1>1. PICK A \in Add(r, row, status) : Kick(A[1], [A[2] EXCEPT ![r] = "pending"], lock)
  BY DEF Retry
<1>2. Fits(A[1], [A[2] EXCEPT ![r] = "pending"], timer)
  BY AddFits, WaitFits
<1>3. UNCHANGED <<paused, restart, timer>>
  BY DEF Retry
<1> QED
  BY <1>1, <1>2, <1>3, KickKeeps DEF IInv, FlagType

LEMMA RestartLeftKeeps == ASSUME IInv, NEW r \in Recs, RestartLeft(r) PROVE IInv'
<1>1. PICK A \in Add(r, row, status) : Kick(A[1], [A[2] EXCEPT ![r] = "pending"], lock)
  BY DEF RestartLeft
<1>2. Fits(A[1], [A[2] EXCEPT ![r] = "pending"], timer)
  BY AddFits, WaitFits
<1>3. UNCHANGED <<paused, timer>> /\ restart' = [restart EXCEPT ![r] = "none"]
  BY DEF RestartLeft
<1>4. restart' \in [Recs -> {"none", "waiting", "dropped"}]
  BY <1>3 DEF IInv, FlagType
<1> QED
  BY <1>1, <1>2, <1>3, <1>4, KickKeeps DEF IInv, FlagType

LEMMA SubmitKeeps == ASSUME IInv, NEW r \in Recs, Submit(r) PROVE IInv'
<1> DEFINE Takes(A, i) ==
        /\ A[1][i].of = r /\ status' = A[2]
        /\ \/ stopAll /\ row' = A[1] /\ lock' = "free" /\ StopSeen /\ UNCHANGED <<lane, directed>>
           \/ /\ ~stopAll /\ row' = Taken(i, A[1]) /\ lane' = Opened("main", i, A[1])
              /\ lock' = "held" /\ directed' = TRUE /\ UNCHANGED stopAll
<1>0. PICK A \in Add(r, row, status) : \E i \in Pending(A[1]) : Takes(A, i)
  BY DEF Submit
<1>1. PICK i \in Pending(A[1]) : Takes(A, i)
  BY <1>0
<1>2. ~Live("main") /\ "main" \in Lanes /\ UNCHANGED <<paused, marks, restart, timer>>
  BY DEF Submit, Lanes
<1>3. FlagType'
  BY <1>1, <1>2 DEF StopSeen, IInv, FlagType
<1>4. Fits(A[1], A[2], timer')
  BY <1>2, AddFits
<1>5. CASE row' = A[1] /\ lane' = lane
  BY <1>1, <1>2, <1>3, <1>4, <1>5, SameLanes
<1>6. CASE row' = Taken(i, A[1]) /\ lane' = Opened("main", i, A[1])
  BY <1>1, <1>2, <1>3, <1>4, <1>6, TakeKeeps
<1> QED
  BY <1>1, <1>5, <1>6

LEMMA FlagsKeep ==
  ASSUME IInv, UNCHANGED <<tables, lane, marks, timer>>, FlagType'
  PROVE  IInv'
BY NowFits, SameLanes DEF tables

LEMMA CutTyped ==
  ASSUME NEW x \in RunType, NEW b \in BOOLEAN PROVE [x EXCEPT !.cut = b] \in RunType
BY DEF RunType

\* A cancel cuts the runs of C, whose recordings it marks.
LEMMA CutKeeps ==
  ASSUME IInv, NEW C \in SUBSET Lanes, FlagType', timer' = timer,
         lane' = [k \in Lanes |-> [lane[k] EXCEPT !.cut = @ \/ k \in C]],
         marks' = marks \cup {lane[k].of : k \in C},
         \A k \in C : Live(k),
         \A k, m \in Lanes : k \in C /\ Live(m) /\ lane[m].of = lane[k].of => m \in C,
         TableType(row)', StatusType(status)',
         \A i \in Ids : row'[i] = row[i] \/ row'[i].st \in {"none", "ended"},
         \A k \in Lanes : Live(k) /\ k \notin C => row'[lane[k].id] = row[lane[k].id] \/ lane[k].cut,
         \A r \in Recs : status'[r] = status[r] \/ status'[r] = "settled"
  PROVE  IInv'
<1>1. \A k \in Lanes :
        /\ lane'[k].pc = lane[k].pc /\ lane'[k].id = lane[k].id /\ lane'[k].of = lane[k].of
        /\ lane'[k].out = lane[k].out /\ lane'[k].joined = lane[k].joined
        /\ lane'[k].cut = (lane[k].cut \/ k \in C)
  BY DEF IInv, LaneType, RunType
<1>2. LaneType'
  <2>1. ASSUME NEW k \in Lanes PROVE [lane[k] EXCEPT !.cut = @ \/ k \in C] \in RunType
    <3>1. lane[k] \in RunType
      BY DEF IInv, LaneType
    <3>2. (lane[k].cut \/ k \in C) \in BOOLEAN
      OBVIOUS
    <3> QED
      BY <3>1, <3>2, CutTyped
  <2> QED
    BY <2>1 DEF LaneType
<1>3. \A k \in Lanes : (Live(k)' <=> Live(k)) /\ \A r \in Recs : On(k, r)' <=> On(k, r)
  BY <1>1 DEF Live, On
<1>4. Table(row)'
  <2> SUFFICES ASSUME NEW k \in Lanes, Live(k)' PROVE Held(k, row)'
    BY DEF Table
  <2>1. Held(k, row) /\ lane[k].id \in Ids /\ Live(k)
    BY <1>3 DEF IInv, Table, LaneOK, RunOK
  <2>2. row'[lane[k].id] = row[lane[k].id] \/ row'[lane[k].id].st \in {"none", "ended"}
    BY <2>1
  <2>3. lane[k].cut \/ k \in C \/ row'[lane[k].id] = row[lane[k].id]
    BY <2>1
  <2> QED
    BY <1>1, <2>1, <2>2, <2>3 DEF Held
<1>5. LaneOK'
  <2> SUFFICES ASSUME NEW k \in Lanes, Live(k)' PROVE RunOK(k)' /\ Apart(k)' /\ CutOK(k)'
    BY DEF LaneOK
  <2>1. RunOK(k) /\ Apart(k) /\ CutOK(k) /\ Live(k)
    BY <1>3 DEF IInv, LaneOK
  <2>2. RunOK(k)'
    BY <1>1, <2>1 DEF RunOK
  <2>3. Apart(k)'
    BY <1>1, <1>3, <2>1 DEF Apart
  <2>4. k \in C => lane[k].of \in marks'
    OBVIOUS
  <2>5. lane[k].of \in marks' => lane[k].of \in marks \/ k \in C
    BY <2>1
  <2>6. CutOK(k)'
    <3>1. lane'[k].cut <=> lane[k].cut \/ k \in C
      BY <1>1
    <3>2. lane[k].of \in marks => lane[k].of \in marks'
      OBVIOUS
    <3> QED
      BY <1>1, <2>1, <2>4, <2>5, <3>1, <3>2 DEF CutOK, Marked
  <2> QED
    BY <2>2, <2>3, <2>6
<1>6. MarksLive'
  <2> SUFFICES ASSUME NEW r \in marks' PROVE Active(r)'
    BY DEF MarksLive
  <2>1. r \in Recs
    BY DEF FlagType
  <2>2. CASE r \in marks
    BY <1>3, <2>1, <2>2 DEF IInv, MarksLive, Active
  <2>3. ASSUME NEW k \in C, r = lane[k].of PROVE Active(r)'
    <3>1. k \in Lanes /\ On(k, r)
      BY <2>3 DEF On
    <3> QED
      BY <1>3, <2>1, <3>1 DEF Active
  <2> QED
    BY <2>2, <2>3
<1>7. Shown(status, timer)'
  <2> SUFFICES ASSUME NEW r \in Recs, status'[r] = "processing", timer' # "unborn" \/ Active(r)'
               PROVE  \E k \in Lanes : Unsettled(k, r)'
    BY DEF Shown
  <2>1. status[r] = "processing" /\ (timer # "unborn" \/ Active(r))
    BY <1>3 DEF Active
  <2>2. PICK k \in Lanes : Unsettled(k, r)
    BY <2>1 DEF IInv, Shown
  <2> QED
    BY <1>1, <1>3, <2>2 DEF Unsettled
<1>8. TableType(row)' /\ StatusType(status)' /\ FlagType'
  OBVIOUS
<1> QED
  BY <1>2, <1>4, <1>5, <1>6, <1>7, <1>8 DEF IInv

LEMMA CancelledKeeps ==
  ASSUME IInv, NEW r \in Recs, Cancelled(r), restart' \in [Recs -> {"none", "waiting", "dropped"}]
  PROVE  IInv'
<1> DEFINE C == {k \in Lanes : On(k, r)}
<1>1. FlagType' /\ timer' = timer
  BY DEF Cancelled, IInv, FlagType
<1>2. lane' = [k \in Lanes |-> [lane[k] EXCEPT !.cut = @ \/ k \in C]]
  BY DEF Cancelled
<1>3. marks' = marks \cup {lane[k].of : k \in C}
  BY DEF Cancelled, Active, On
<1>4. /\ \A k \in C : Live(k)
      /\ \A k, m \in Lanes : k \in C /\ Live(m) /\ lane[m].of = lane[k].of => m \in C
  BY DEF On
<1>5. TableType(row)' /\ StatusType(status)'
  BY DEF Cancelled, IInv, TableType, StatusType, NoRow, RowStates, Statuses
<1>6. \A i \in Ids : row'[i] = row[i] \/ row'[i].st \in {"none", "ended"}
  BY DEF Cancelled, NoRow
<1>7. ASSUME NEW k \in Lanes, Live(k), k \notin C
      PROVE  row'[lane[k].id] = row[lane[k].id] \/ lane[k].cut
  <2>1. Held(k, row) /\ lane[k].id \in Ids /\ lane[k].of # r
    BY <1>7 DEF IInv, Table, LaneOK, RunOK, On
  <2> QED
    BY <2>1 DEF Held, Cancelled
<1>8. \A q \in Recs : status'[q] = status[q] \/ status'[q] = "settled"
  BY DEF Cancelled, IInv, StatusType
<1> QED
  BY <1>1, <1>2, <1>3, <1>4, <1>5, <1>6, <1>7, <1>8, CutKeeps

LEMMA CancelKeeps == ASSUME IInv, NEW r \in Recs, Cancel(r) PROVE IInv'
<1>1. restart' \in [Recs -> {"none", "waiting", "dropped"}]
  BY DEF Cancel, Drop, IInv, FlagType
<1> QED
  BY <1>1, CancelledKeeps DEF Cancel

LEMMA RestartStageKeeps == ASSUME IInv, NEW r \in Recs, RestartStage(r) PROVE IInv'
<1>1. restart' \in [Recs -> {"none", "waiting", "dropped"}]
  BY DEF RestartStage, IInv, FlagType
<1> QED
  BY <1>1, CancelledKeeps DEF RestartStage

LEMMA CancelAllKeeps == ASSUME IInv, CancelAll PROVE IInv'
<1> DEFINE C == {k \in Lanes : Live(k)}
<1>1. FlagType' /\ timer' = timer
  BY DEF CancelAll, Drop, IInv, FlagType
<1>2. lane' = [k \in Lanes |-> [lane[k] EXCEPT !.cut = @ \/ k \in C]]
  BY DEF CancelAll
<1>3. marks' = marks \cup {lane[k].of : k \in C}
  BY DEF CancelAll, Active, On, IInv, LaneOK, RunOK
<1>4. TableType(row)' /\ StatusType(status)'
  BY DEF CancelAll, IInv, TableType, StatusType, NoRow, RowStates, Statuses
<1>5. \A i \in Ids : row'[i] = row[i] \/ row'[i].st \in {"none", "ended"}
  BY DEF CancelAll, NoRow, IInv, TableType
<1>6. \A q \in Recs : status'[q] = status[q] \/ status'[q] = "settled"
  BY DEF CancelAll
<1>7. /\ C \in SUBSET Lanes /\ \A k \in C : Live(k)
      /\ \A k, m \in Lanes : k \in C /\ Live(m) /\ lane[m].of = lane[k].of => m \in C
      /\ \A k \in Lanes : Live(k) /\ k \notin C => row'[lane[k].id] = row[lane[k].id] \/ lane[k].cut
  OBVIOUS
<1> HIDE DEF C
<1> QED
  BY <1>1, <1>2, <1>3, <1>4, <1>5, <1>6, <1>7, CutKeeps

LEMMA RequestKeeps == ASSUME IInv, NEW r \in Recs, Request(r) PROVE IInv'
<1>1. CASE RestartGivenUp(r)
  <2>1. FlagType' /\ UNCHANGED <<tables, lane, marks, timer>>
    BY <1>1 DEF RestartGivenUp, flags, IInv, FlagType
  <2> QED
    BY <2>1, FlagsKeep
<1> QED
  BY <1>1, AskKeeps, RetryKeeps, SubmitKeeps, CancelKeeps, RestartStageKeeps, RestartLeftKeeps
  DEF Request

LEMMA PauseKeeps == ASSUME IInv, Pause \/ Resume \/ Tick \/ Stop PROVE IInv'
<1>1. CASE Pause
  <2>1. FlagType' /\ UNCHANGED <<tables, lane, marks, timer>>
    BY <1>1 DEF Pause, IInv, FlagType
  <2> QED
    BY <2>1, FlagsKeep
<1>2. CASE Resume
  BY <1>2, NowFits, KickKeeps DEF Resume, IInv, FlagType
<1>3. CASE Tick
  BY <1>3, NowFits, KickKeeps DEF Tick, IInv, FlagType
<1>4. CASE Stop
  <2>1. FlagType' /\ UNCHANGED <<row, status, lane, marks>>
    BY <1>4 DEF Stop, tables, flags, IInv, FlagType
  <2>2. Fits(row, status, timer')
    BY <1>4, NowFits DEF Stop, Fits, Shown
  <2> QED
    BY <2>1, <2>2, SameLanes
<1> QED
  BY <1>1, <1>2, <1>3, <1>4

-----------------------------------------------------------------------------
(* One run                                                                 *)

\* A step of a run, which may write the status of its recording.
Stepped(k) ==
  /\ Live(k) /\ Live(k)' /\ lane' \in [Lanes -> RunType]
  /\ \A m \in Lanes : m # k => lane'[m] = lane[m]
  /\ lane'[k].id = lane[k].id /\ lane'[k].of = lane[k].of
  /\ lane'[k].cut = lane[k].cut /\ lane'[k].joined = lane[k].joined
  /\ lane'[k].pc = "closing" <=> lane'[k].out # "open"
  /\ lane'[k].out = "cancelled" => lane[k].out = "cancelled" \/ Marked(k)
  /\ UNCHANGED <<row, lock, flags, restart, timer>>
  /\ StatusType(status') /\ \A r \in Recs : r # lane[k].of => status'[r] = status[r]

LEMMA StepKeeps ==
  ASSUME IInv, NEW k \in Lanes, Stepped(k),
         status'[lane[k].of] = "processing" =>
           \/ lane'[k].pc # "after" /\ lane'[k].out \notin {"completed", "no_speech"}
           \/ status' = status /\ ~Unsettled(k, lane[k].of)
  PROVE  IInv'
<1>1. \A m \in Lanes :
        /\ lane'[m].id = lane[m].id /\ lane'[m].of = lane[m].of
        /\ lane'[m].cut = lane[m].cut /\ lane'[m].joined = lane[m].joined
  BY DEF Stepped
<1>2. \A m \in Lanes : (Live(m)' <=> Live(m)) /\ \A r \in Recs : On(m, r)' <=> On(m, r)
  BY <1>1 DEF Stepped, Live, On
<1>3. row' = row /\ marks' = marks /\ timer' = timer
  BY DEF Stepped, flags
<1>4. LaneType' /\ TableType(row)' /\ StatusType(status)' /\ FlagType'
  BY DEF Stepped, flags, IInv, LaneType, TableType, StatusType, FlagType
<1>5. Table(row)'
  BY <1>1, <1>2, <1>3 DEF IInv, Table, Held
<1>6. LaneOK'
  <2> SUFFICES ASSUME NEW m \in Lanes, Live(m)' PROVE RunOK(m)' /\ Apart(m)' /\ CutOK(m)'
    BY DEF LaneOK
  <2>1. RunOK(m) /\ Apart(m) /\ CutOK(m) /\ Live(m)
    BY <1>2 DEF IInv, LaneOK
  <2>2. Apart(m)'
    BY <1>1, <1>2, <2>1 DEF Apart
  <2>3. CASE m = k
    BY <1>1, <1>3, <2>1, <2>2, <2>3 DEF RunOK, CutOK, Marked, Stepped
  <2>4. CASE m # k
    BY <1>1, <1>3, <2>1, <2>2, <2>4 DEF RunOK, CutOK, Marked, Stepped
  <2> QED
    BY <2>3, <2>4
<1>7. MarksLive'
  BY <1>2, <1>3, <1>4 DEF IInv, MarksLive, Active, FlagType
<1>8. Shown(status, timer)'
  <2> SUFFICES ASSUME NEW r \in Recs, status'[r] = "processing", timer' # "unborn" \/ Active(r)'
               PROVE  \E m \in Lanes : Unsettled(m, r)'
    BY DEF Shown
  <2>1. timer # "unborn" \/ Active(r)
    BY <1>2, <1>3 DEF Active
  <2>2. ASSUME status[r] = "processing", NEW m \in Lanes, m # k, Unsettled(m, r)
        PROVE  Unsettled(m, r)'
    BY <1>2, <2>2 DEF Unsettled, Stepped
  <2>3. status[r] = "processing" => \E m \in Lanes : Unsettled(m, r)
    BY <2>1 DEF IInv, Shown
  <2>4. CASE r # lane[k].of
    <3>1. status[r] = "processing" /\ \A m \in Lanes : Unsettled(m, r) => m # k
      BY <2>4 DEF Stepped, Unsettled, On
    <3> QED
      BY <2>2, <2>3, <3>1
  <2>5. CASE r = lane[k].of /\ lane'[k].pc # "after" /\ lane'[k].out \notin {"completed", "no_speech"}
    BY <1>2, <2>5 DEF Stepped, Unsettled, On
  <2>6. CASE status' = status /\ ~Unsettled(k, r)
    BY <2>2, <2>3, <2>6
  <2> QED
    BY <2>4, <2>5, <2>6
<1> QED
  BY <1>4, <1>5, <1>6, <1>7, <1>8 DEF IInv

\* What a step that moves its run to p, with outcome o, leaves alone.
Goes(k, p, o) ==
  /\ lane' \in [Lanes -> RunType] /\ \A m \in Lanes : m # k => lane'[m] = lane[m]
  /\ lane'[k].id = lane[k].id /\ lane'[k].of = lane[k].of
  /\ lane'[k].cut = lane[k].cut /\ lane'[k].joined = lane[k].joined
  /\ lane'[k].pc = p /\ lane'[k].out = o

LEMMA MovesGoes ==
  ASSUME LaneType, NEW k \in Lanes, NEW p \in RunPoints, Moves(k, p)
  PROVE  Goes(k, p, lane[k].out)
BY DEF LaneType, RunType, Moves, Goes, Statuses

LEMMA ClosesGoes ==
  ASSUME LaneType, NEW k \in Lanes, NEW o \in Outcomes, Closes(k, o)
  PROVE  Goes(k, "closing", o)
BY DEF LaneType, RunType, Closes, Goes, Statuses, RunPoints

LEMMA GoesKeeps ==
  ASSUME IInv, NEW k \in Lanes, Live(k), NEW p \in RunPoints, NEW o \in Outcomes, Goes(k, p, o),
         p = "closing" <=> o # "open", o = "cancelled" => lane[k].out = "cancelled" \/ Marked(k),
         row' = row, Keeps,
         NEW x \in Statuses, status' = [status EXCEPT ![lane[k].of] = x],
         x = "processing" => p # "after" /\ o \notin {"completed", "no_speech"}
  PROVE  IInv'
<1>1. lane[k].of \in Recs
  BY DEF IInv, LaneOK, RunOK
<1>2. status'[lane[k].of] = x
  BY <1>1 DEF IInv, StatusType
<1>3. StatusType(status') /\ \A r \in Recs : r # lane[k].of => status'[r] = status[r]
  BY <1>1 DEF IInv, StatusType
<1>4. Stepped(k)
  BY <1>3 DEF Goes, Stepped, Live, Keeps
<1> QED
  BY <1>2, <1>4, StepKeeps DEF Goes

LEMMA GoesQuietly ==
  ASSUME IInv, NEW k \in Lanes, Live(k), NEW p \in RunPoints, NEW o \in Outcomes, Goes(k, p, o),
         p = "closing" <=> o # "open", o = "cancelled" => lane[k].out = "cancelled" \/ Marked(k),
         row' = row, Keeps, status' = status,
         \/ p # "after" /\ o \notin {"completed", "no_speech"}
         \/ ~Unsettled(k, lane[k].of)
  PROVE  IInv'
<1>1. Stepped(k)
  BY DEF Goes, Stepped, Live, Keeps, IInv
<1> QED
  BY <1>1, StepKeeps DEF Goes

\* One lemma for each step.
LEMMA BeginKeeps == ASSUME IInv, NEW k \in Lanes, Begin(k) PROVE IInv'
<1>1. Live(k) /\ RunOK(k) /\ row' = row /\ Keeps /\ lane[k].out = "open"
  BY DEF Begin, Live, RunPoints, IInv, LaneOK, RunOK
<1>2. CASE Closes(k, "failed") /\ UNCHANGED status
  <2>1. Goes(k, "closing", "failed")
    BY <1>2, ClosesGoes DEF IInv, Outcomes
  <2> QED
    BY <1>1, <1>2, <2>1, GoesQuietly DEF Outcomes, RunPoints
<1>3. CASE /\ lane' = [lane EXCEPT ![k].pc = "working", ![k].was = status[lane[k].of]]
           /\ status' = [status EXCEPT ![lane[k].of] = "processing"]
  <2>1. status[lane[k].of] \in Statuses
    BY <1>1 DEF RunOK, IInv, StatusType
  <2>2. Goes(k, "working", lane[k].out)
    BY <1>3, <2>1 DEF IInv, LaneType, RunType, Goes, RunPoints
  <2> QED
    BY <1>1, <1>3, <2>2, GoesKeeps DEF Outcomes, RunPoints, Statuses
<1> QED
  BY <1>2, <1>3 DEF Begin

LEMMA StoppedKeeps == ASSUME IInv, NEW k \in Lanes, Stopped(k) PROVE IInv'
<1>1. Live(k) /\ Marked(k) /\ row' = row /\ Keeps /\ lane[k].was \in Statuses
  BY DEF Stopped, Live, RunPoints, IInv, LaneType, RunType
<1>2. Goes(k, "closing", "cancelled")
  BY ClosesGoes DEF Stopped, IInv, Outcomes
<1> QED
  BY <1>1, <1>2, GoesKeeps DEF Stopped, Outcomes, RunPoints

LEMMA UnavailableKeeps == ASSUME IInv, NEW k \in Lanes, Unavailable(k) PROVE IInv'
<1>1. Live(k) /\ row' = row /\ status' = status /\ Keeps
  BY DEF Unavailable, Live, RunPoints, tables
<1>2. Goes(k, "closing", "failed")
  BY ClosesGoes DEF Unavailable, IInv, Outcomes
<1> QED
  BY <1>1, <1>2, GoesQuietly DEF Outcomes, RunPoints

LEMMA FailsKeeps == ASSUME IInv, NEW k \in Lanes, Fails(k) PROVE IInv'
<1>1. Live(k) /\ row' = row /\ status' = status /\ Keeps
  BY DEF Fails, Live, RunPoints, tables
<1>2. Goes(k, "closing", "failed")
  BY ClosesGoes DEF Fails, IInv, Outcomes
<1> QED
  BY <1>1, <1>2, GoesQuietly DEF Outcomes, RunPoints

LEMMA NoSpeechKeeps == ASSUME IInv, NEW k \in Lanes, NoSpeech(k) PROVE IInv'
<1>1. Live(k) /\ row' = row /\ Keeps
  BY DEF NoSpeech, Live, RunPoints
<1>2. Goes(k, "closing", "no_speech")
  BY ClosesGoes DEF NoSpeech, IInv, Outcomes
<1> QED
  BY <1>1, <1>2, GoesKeeps DEF NoSpeech, Outcomes, RunPoints, Statuses

LEMMA SaveKeeps == ASSUME IInv, NEW k \in Lanes, Save(k) PROVE IInv'
<1>1. Live(k) /\ row' = row /\ status' = status /\ Keeps /\ lane[k].out = "open"
  BY DEF Save, Live, RunPoints, tables, IInv, LaneOK, RunOK
<1>2. Goes(k, "analysis", "open")
  BY <1>1, MovesGoes DEF Save, IInv, RunPoints
<1> QED
  BY <1>1, <1>2, GoesQuietly DEF Outcomes, RunPoints

LEMMA AnalysedKeeps == ASSUME IInv, NEW k \in Lanes, Analysed(k) PROVE IInv'
<1>1. Live(k) /\ row' = row /\ Keeps /\ lane[k].out = "open"
  BY DEF Analysed, Live, RunPoints, IInv, LaneOK, RunOK
<1>2. ASSUME Marked(k), Closes(k, "cancelled"), status' = status PROVE IInv'
  <2>1. Goes(k, "closing", "cancelled")
    BY <1>2, ClosesGoes DEF IInv, Outcomes
  <2> QED
    BY <1>1, <1>2, <2>1, GoesQuietly DEF Outcomes, RunPoints
<1>3. CASE Moves(k, "after") /\ status' = [status EXCEPT ![lane[k].of] = "settled"]
  <2>1. Goes(k, "after", "open")
    BY <1>1, <1>3, MovesGoes DEF IInv, RunPoints
  <2> QED
    BY <1>1, <1>3, <2>1, GoesKeeps DEF Outcomes, RunPoints, Statuses
<1> QED
  BY <1>2, <1>3 DEF Analysed

LEMMA DoneKeeps == ASSUME IInv, NEW k \in Lanes, Done(k) PROVE IInv'
<1> DEFINE o == IF Marked(k) THEN "cancelled" ELSE "completed"
<1>1. Live(k) /\ row' = row /\ status' = status /\ Keeps /\ ~Unsettled(k, lane[k].of)
  BY DEF Done, Live, RunPoints, tables, Unsettled
<1>2. Goes(k, "closing", o)
  BY ClosesGoes DEF Done, IInv, Outcomes
<1> QED
  BY <1>1, <1>2, GoesQuietly DEF Outcomes, RunPoints

LEMMA AgainKeeps == ASSUME IInv, NEW k \in Lanes, Again(k) PROVE IInv'
<1>1. Live(k) /\ row' = row /\ status' = status /\ Keeps
  BY DEF Again, Live, RunPoints, tables
<1>2. Goes(k, "backoff", "open")
  BY DEF Again, Goes, IInv, LaneType, RunType, RunPoints, Outcomes
<1> QED
  BY <1>1, <1>2, GoesQuietly DEF Outcomes, RunPoints

\* The run of k ends; its recording shows 'processing' only for another run.
LEMMA LeavesKeeps ==
  ASSUME IInv, NEW k \in Lanes, Live(k), Leaves(k), TableType(row'), StatusType(status'),
         \A i \in Ids : i # lane[k].id => row'[i] = row[i],
         \A r \in Recs : r # lane[k].of => status'[r] = status[r],
         status'[lane[k].of] = "processing" => status' = status /\ ~Unsettled(k, lane[k].of)
  PROVE  IInv'
<1> DEFINE r0 == lane[k].of
<1>1. ~Live(k)' /\ \A m \in Lanes : m # k => lane'[m] = lane[m]
  BY DEF Leaves, IInv, LaneType, Live, NoRun, RunPoints
<1>2. LaneType'
  BY DEF Leaves, IInv, LaneType, RunType, NoRun, Outcomes, Statuses
<1>3. \A m \in Lanes : Live(m)' => m # k /\ Live(m) /\ \A r \in Recs : On(m, r)' <=> On(m, r)
  BY <1>1 DEF Live, On
<1>4. \A m \in Lanes, r \in Recs : m # k /\ On(m, r) => On(m, r)'
  BY <1>1 DEF Live, On
<1>5. FlagType' /\ timer' = timer /\ marks' = marks \ {r0}
  BY DEF Leaves, Unmarked, IInv, FlagType
<1>6. Table(row)'
  <2> SUFFICES ASSUME NEW m \in Lanes, Live(m)' PROVE Held(m, row)'
    BY DEF Table
  <2>1. m # k /\ Live(m) /\ lane'[m] = lane[m]
    BY <1>1, <1>3
  <2>2. Held(m, row) /\ lane[m].id \in Ids /\ lane[m].id # lane[k].id
    BY <2>1 DEF IInv, Table, LaneOK, RunOK, Apart
  <2> QED
    BY <2>1, <2>2 DEF Held
<1>7. LaneOK'
  <2> SUFFICES ASSUME NEW m \in Lanes, Live(m)' PROVE RunOK(m)' /\ Apart(m)' /\ CutOK(m)'
    BY DEF LaneOK
  <2>1. m # k /\ Live(m) /\ lane'[m] = lane[m]
    BY <1>1, <1>3
  <2>2. RunOK(m) /\ Apart(m) /\ CutOK(m)
    BY <2>1 DEF IInv, LaneOK
  <2>3. RunOK(m)'
    BY <2>1, <2>2 DEF RunOK
  <2>4. Apart(m)'
    BY <1>1, <1>3, <2>1, <2>2 DEF Apart
  <2>5. ~lane[m].joined => lane[m].of # r0
    BY <2>1, <2>2 DEF Apart
  <2>6. CutOK(m)'
    BY <1>5, <2>1, <2>2, <2>5 DEF CutOK, Marked
  <2> QED
    BY <2>3, <2>4, <2>6
<1>8. MarksLive'
  <2> SUFFICES ASSUME NEW r \in marks' PROVE Active(r)'
    BY DEF MarksLive
  <2>1. r \in Recs /\ r # r0 /\ r \in marks
    BY <1>5 DEF IInv, FlagType
  <2>2. PICK m \in Lanes : On(m, r)
    BY <2>1 DEF IInv, MarksLive, Active
  <2>3. m # k
    BY <2>1, <2>2 DEF On
  <2> QED
    BY <1>4, <2>1, <2>2, <2>3 DEF Active
<1>9. Shown(status, timer)'
  <2> SUFFICES ASSUME NEW r \in Recs, status'[r] = "processing", timer' # "unborn" \/ Active(r)'
               PROVE  \E m \in Lanes : Unsettled(m, r)'
    BY DEF Shown
  <2>1. status[r] = "processing" /\ ~Unsettled(k, r)
    BY DEF Unsettled, On
  <2>2. timer # "unborn" \/ Active(r)
    BY <1>3, <1>5 DEF Active, On
  <2>3. PICK m \in Lanes : Unsettled(m, r)
    BY <2>1, <2>2 DEF IInv, Shown
  <2>4. m # k
    BY <2>1, <2>3
  <2> QED
    BY <1>1, <1>4, <2>3, <2>4 DEF Unsettled
<1>10. TableType(row)' /\ StatusType(status)'
  BY DEF TableType, StatusType
<1> QED
  BY <1>2, <1>5, <1>6, <1>7, <1>8, <1>9, <1>10 DEF IInv

LEMMA RetireType ==
  ASSUME IInv, NEW i \in Ids, row' = Retire(i) \/ row' = Put(i, "failed")
  PROVE  TableType(row') /\ \A j \in Ids : j # i => row'[j] = row[j]
BY DEF IInv, TableType, Retire, Put, NoRow, RowStates

\* A status that is settled, for its recording alone.
LEMMA SettledType ==
  ASSUME IInv, NEW r0 \in Recs, status' = [status EXCEPT ![r0] = "settled"]
  PROVE  /\ StatusType(status') /\ status'[r0] = "settled"
         /\ \A r \in Recs : r # r0 => status'[r] = status[r]
BY DEF IInv, StatusType, Statuses

LEMMA SettleKeeps == ASSUME IInv, NEW k \in Lanes, Settle(k) PROVE IInv'
<1>1. Live(k) /\ lane[k].id \in Ids /\ lane[k].of \in Recs /\ lane[k].out \notin {"open", "failed"}
  BY DEF Settle, Live, RunPoints, IInv, LaneOK, RunOK
<1>2. lane[k].out \in {"cancelled", "completed", "no_speech"}
  BY <1>1 DEF IInv, LaneType, RunType, Outcomes
<1>3. TableType(row') /\ \A j \in Ids : j # lane[k].id => row'[j] = row[j]
  BY <1>1, RetireType DEF Settle
<1>4. CASE lane[k].out = "cancelled"
  <2>1. status' = [status EXCEPT ![lane[k].of] = "settled"]
    BY <1>4 DEF Settle, Restored
  <2> QED
    BY <1>1, <1>3, <2>1, SettledType, LeavesKeeps DEF Settle
<1>5. CASE lane[k].out # "cancelled"
  <2>1. status' = status /\ ~Unsettled(k, lane[k].of)
    BY <1>2, <1>5 DEF Settle, Restored, Unsettled
  <2>2. StatusType(status')
    BY <2>1 DEF IInv
  <2> QED
    BY <1>1, <1>3, <2>1, <2>2, LeavesKeeps DEF Settle
<1> QED
  BY <1>4, <1>5

LEMMA ThrowsKeeps == ASSUME IInv, NEW k \in Lanes, Throws(k) PROVE IInv'
<1>1. Live(k) /\ lane[k].id \in Ids /\ lane[k].of \in Recs
  BY DEF Throws, Live, RunPoints, IInv, LaneOK, RunOK
<1>2. TableType(row') /\ \A j \in Ids : j # lane[k].id => row'[j] = row[j]
  BY <1>1, RetireType DEF Throws
<1>3. status' = [status EXCEPT ![lane[k].of] = "settled"]
  BY DEF Throws
<1> QED
  BY <1>1, <1>2, <1>3, SettledType, LeavesKeeps DEF Throws

LEMMA NextRowKeeps == ASSUME IInv, NEW k \in Lanes, NextRow(k) PROVE IInv'
<1>1. ~Live(k) /\ UNCHANGED <<status, paused, marks, restart, timer>>
  BY DEF NextRow, Live, RunPoints
<1>2. FlagType'
  BY DEF NextRow, StopSeen, IInv, FlagType
<1>3. ASSUME NEW i \in Pending(row), row' = Taken(i, row), lane' = Opened(k, i, row) PROVE IInv'
  BY <1>1, <1>2, <1>3, NowFits, TakeKeeps
<1>4. CASE row' = row /\ lane' = [lane EXCEPT ![k] = NoRun]
  <2>1. ~Live(k)' /\ \A m \in Lanes : m # k => lane'[m] = lane[m]
    BY <1>4 DEF IInv, LaneType, Live, NoRun, RunPoints
  <2>2. \A m \in Lanes : (Live(m)' <=> Live(m)) /\ (Live(m) => lane'[m] = lane[m])
    BY <1>1, <2>1 DEF Live
  <2>3. \A m \in Lanes, r \in Recs : On(m, r)' <=> On(m, r)
    BY <2>2 DEF On
  <2>4. LaneType'
    BY <1>4 DEF IInv, LaneType, RunType, NoRun, Outcomes, Statuses
  <2>5. Table(row)'
    BY <1>4, <2>2 DEF IInv, Table, Held
  <2>6. LaneOK'
    BY <1>1, <2>2 DEF IInv, LaneOK, RunOK, Apart, CutOK, Marked
  <2>7. MarksLive'
    BY <1>1, <2>3 DEF IInv, MarksLive, Active, FlagType
  <2>8. Shown(status, timer)'
    BY <1>1, <2>2, <2>3 DEF IInv, Shown, Active, Unsettled, On
  <2> QED
    BY <1>1, <1>2, <1>4, <2>4, <2>5, <2>6, <2>7, <2>8 DEF IInv, TableType, StatusType
<1> QED
  BY <1>3, <1>4 DEF NextRow

LEMMA RunStepKeeps == ASSUME IInv, NEW k \in Lanes, RunStep(k) PROVE IInv'
BY NextRowKeeps, UnavailableKeeps, BeginKeeps, StoppedKeeps, FailsKeeps, NoSpeechKeeps, SaveKeeps, AnalysedKeeps,
   DoneKeeps, AgainKeeps, SettleKeeps, ThrowsKeeps
DEF RunStep

-----------------------------------------------------------------------------
(* Crash and start                                                         *)

LEMMA CrashKeeps == ASSUME IInv, Crash PROVE IInv'
<1>1. \A k \in Lanes : ~Live(k)'
  BY DEF Crash, Live, NoRun, RunPoints
<1>2. LaneType'
  BY DEF Crash, LaneType, RunType, NoRun, Statuses, Outcomes
<1>3. TableType(row)' /\ StatusType(status)' /\ FlagType'
  BY DEF Crash, IInv, TableType, StatusType, FlagType, NoRow, RowStates
<1>4. Table(row)' /\ LaneOK' /\ MarksLive' /\ Shown(status, timer)'
  BY <1>1 DEF Crash, Table, LaneOK, MarksLive, Shown, Active, On
<1> QED
  BY <1>2, <1>3, <1>4 DEF IInv

\* The repairs leave what a live run owns.
LEMMA StartKeeps == ASSUME IInv, Start PROVE IInv'
<1> DEFINE S == [r \in Recs |-> IF Stuck(r) THEN "settled" ELSE status[r]]
           L == IF ~Busy /\ lane["short"].pc = "idle" THEN "free" ELSE lock
<1>1. Kick(Repaired, S, L) /\ timer' = "on" /\ UNCHANGED <<paused, restart>>
  BY DEF Start
<1>2. TableType(Repaired) /\ StatusType(S)
  BY DEF IInv, TableType, StatusType, Repaired, NoRow, RowStates, Statuses
<1>3. Table(Repaired)
  <2> SUFFICES ASSUME NEW k \in Lanes, Live(k) PROVE Held(k, Repaired)
    BY DEF Table
  <2>1. Held(k, row) /\ lane[k].id \in Ids /\ Active(lane[k].of)
    BY DEF IInv, Table, LaneOK, RunOK, Active, On
  <2>2. row[lane[k].id].of = lane[k].of => Repaired[lane[k].id] = row[lane[k].id]
    BY <2>1 DEF Repaired
  <2>3. Repaired[lane[k].id] \in {row[lane[k].id], NoRow}
    BY <2>1 DEF Repaired
  <2> QED
    BY <2>1, <2>2, <2>3 DEF Held, NoRow
<1>4. Shown(S, "on")
  <2> SUFFICES ASSUME NEW r \in Recs, S[r] = "processing" PROVE \E k \in Lanes : Unsettled(k, r)
    BY DEF Shown
  <2>1. status[r] = "processing" /\ Active(r)
    BY DEF Stuck
  <2> QED
    BY <2>1 DEF IInv, Shown
<1>5. L \in {"free", "held", "dead"} /\ Fits(Repaired, S, timer')
  BY <1>1, <1>2, <1>3, <1>4 DEF Fits, IInv, FlagType
<1> HIDE DEF S, L
<1> QED
  BY <1>1, <1>5, KickKeeps DEF IInv, FlagType

-----------------------------------------------------------------------------
(* Theorems                                                                *)

LEMMA NextKeeps == ASSUME IInv, [Next]_vars PROVE IInv'
<1>1. CASE UNCHANGED vars
  <2>1. FlagType' /\ UNCHANGED <<tables, lane, marks, timer>>
    BY <1>1 DEF vars, flags, IInv, FlagType
  <2> QED
    BY <2>1, FlagsKeep
<1>2. CASE CancelAll
  BY <1>2, CancelAllKeeps
<1>3. CASE Crash
  BY <1>3, CrashKeeps
<1>4. CASE Start
  BY <1>4, StartKeeps
<1> QED
  BY <1>1, <1>2, <1>3, <1>4, RunStepKeeps, RequestKeeps, PauseKeeps DEF Next

\* In every reachable state the table, the statuses, the marks and the lanes
\* agree: the row of a run is its own, a mark is for a run that is under way, and
\* 'processing' is for one that has yet to settle the status.
THEOREM QueueInvariant == Spec => []IInv
<1>1. Init => IInv
  BY InitHolds
<1>2. IInv /\ [Next]_vars => IInv'
  BY NextKeeps
<1> QED
  BY <1>1, <1>2, PTL DEF Spec

\* Every reachable state is well typed.
THEOREM QueueTypeCorrect == Spec => []TypeOK
<1>1. IInv => TypeOK
  BY DEF IInv, TypeOK, LaneType, RunType, TableType, StatusType, FlagType
<1> QED
  BY <1>1, QueueInvariant, PTL

\* For any recordings, rows and requests, no start repair, queue pass or other
\* lane takes the row of a run that was not cancelled (24-sep).
THEOREM LiveRowsAreKept == Spec => []LiveRowsKept
<1>1. IInv => LiveRowsKept
  BY DEF IInv, Table, Held, LiveRowsKept
<1> QED
  BY <1>1, QueueInvariant, PTL

\* A started processor leaves no recording 'processing' without a run.
THEOREM NoButtonIsDead == Spec => []NoDeadButton
<1>1. IInv => NoDeadButton
  BY DEF IInv, Shown, Unsettled, NoDeadButton, Active
<1> QED
  BY <1>1, QueueInvariant, PTL

\* A run that is alone with its recording is stopped by its own cancel only.
THEOREM LaterRequestIsKept == Spec => []LaterRequestKept
<1>1. IInv => LaterRequestKept
  BY DEF IInv, LaneOK, CutOK, LaterRequestKept
<1> QED
  BY <1>1, QueueInvariant, PTL

\* Only Save takes a run from its provider stage to its analysis.
LEMMA OpenedPc ==
  ASSUME LaneType, NEW m \in Lanes, NEW i, NEW R, lane' = Opened(m, i, R), NEW k \in Lanes
  PROVE  lane'[k].pc \in {lane[k].pc, "checking"}
BY DEF LaneType, RunType, Opened, NoRun

LEMMA KickPc ==
  ASSUME LaneType, NEW R, NEW S, NEW L, Kick(R, S, L), NEW k \in Lanes
  PROVE  lane'[k].pc \in {lane[k].pc, "checking"}
<1>1. CASE UNCHANGED lane
  BY <1>1
<1>2. ASSUME NEW m \in Lanes, NEW i, NEW Q, lane' = Opened(m, i, Q)
      PROVE  lane'[k].pc \in {lane[k].pc, "checking"}
  BY <1>2, OpenedPc
<1>3. CASE StartShort(R, S)
  BY <1>2, <1>3 DEF StartShort, Lanes
<1>4. CASE \E D \in SUBSET Retryable(R) : \E i \in Pending(Requeued(R, D)) :
             lane' = Opened("main", i, Requeued(R, D))
  BY <1>2, <1>4 DEF Lanes
<1> QED
  BY <1>1, <1>3, <1>4 DEF Kick, Idles

LEMMA OnlySaveSaves ==
  ASSUME IInv, [Next]_vars, NEW k \in Lanes, Saves(k)
  PROVE  Live(k) /\ ~Marked(k)
<1>1. Live(k)
  BY DEF Saves, Live, RunPoints
<1>2. SUFFICES ASSUME Marked(k) PROVE FALSE
  BY <1>1
<1>3. lane'[k].pc \notin {lane[k].pc, "checking"} /\ LaneType
  BY DEF Saves, IInv
<1>4. ASSUME NEW R, NEW S, NEW L, Kick(R, S, L) PROVE FALSE
  BY <1>3, <1>4, KickPc
<1>5. ASSUME NEW m \in Lanes, RunStep(m) PROVE FALSE
  <2>1. CASE NextRow(m)
    <3>1. CASE \E i \in Pending(row) : lane' = Opened(m, i, row)
      BY <1>3, <3>1, OpenedPc
    <3>2. CASE lane' = [lane EXCEPT ![m] = NoRun]
      BY <1>3, <3>2 DEF Saves, LaneType, NoRun
    <3> QED
      BY <2>1, <3>1, <3>2 DEF NextRow
  <2>2. CASE Save(m)
    BY <1>2, <1>3, <2>2 DEF Save, Moves, Saves, LaneType, RunType
  <2>3. CASE Unavailable(m) \/ Begin(m) \/ Stopped(m) \/ Fails(m) \/ NoSpeech(m)
    BY <1>3, <2>3 DEF Unavailable, Begin, Stopped, Fails, NoSpeech, Closes, Saves, LaneType, RunType
  <2>4. CASE Analysed(m) \/ Done(m) \/ Again(m)
    BY <1>3, <2>4 DEF Analysed, Done, Again, Closes, Moves, Saves, LaneType, RunType
  <2>5. CASE Settle(m) \/ Throws(m)
    BY <1>3, <2>5 DEF Settle, Throws, Leaves, NoRun, Saves, LaneType, RunType
  <2> QED
    BY <1>5, <2>1, <2>2, <2>3, <2>4, <2>5 DEF RunStep
<1>6. ASSUME NEW r \in Recs, Request(r) PROVE FALSE
  <2>1. CASE Ask(r) \/ Retry(r) \/ RestartLeft(r)
    BY <1>4, <2>1 DEF Ask, Retry, RestartLeft
  <2>2. CASE Submit(r)
    <3>1. CASE \E A \in Add(r, row, status), i \in Ids : lane' = Opened("main", i, A[1])
      BY <1>3, <3>1, OpenedPc DEF Lanes
    <3> QED
      BY <1>3, <2>2, <3>1 DEF Submit, Pending
  <2>3. CASE Cancelled(r) \/ UNCHANGED lane
    BY <1>3, <2>3 DEF Cancelled, LaneType, RunType
  <2> QED
    BY <1>6, <2>1, <2>2, <2>3 DEF Request, Cancel, RestartStage, RestartGivenUp
<1>7. CASE CancelAll \/ Crash
  BY <1>3, <1>7 DEF CancelAll, Crash, NoRun, Saves, LaneType, RunType
<1>8. CASE Tick \/ Resume \/ Start
  BY <1>4, <1>8 DEF Tick, Resume, Start
<1>9. CASE Pause \/ Stop \/ UNCHANGED vars
  BY <1>3, <1>9 DEF Pause, Stop, vars
<1> QED
  BY <1>5, <1>6, <1>7, <1>8, <1>9 DEF Next

\* A cancelled run that is alone with its recording saves nothing, whatever was
\* cancelled, asked for or started again before it comes to its gate.
THEOREM CancelledRunsSaveNothing == Spec => CancelSavesNothing
<1>1. IInv /\ [Next]_vars => [\A k \in Lanes : Saves(k) => ~lane[k].cut \/ lane[k].joined]_vars
  BY OnlySaveSaves DEF IInv, LaneOK, CutOK
<1> QED
  BY <1>1, QueueInvariant, PTL DEF Spec, CancelSavesNothing

-----------------------------------------------------------------------------
(* One lane                                                                *)

\* With the default setting the short lane never runs, so no recording is shared.
Lonely == lane["short"].pc = "idle" /\ ~lane["main"].joined

LEMMA TakeStaysLonely ==
  ASSUME LaneType, Lonely, NEW i, NEW R, lane' = Opened("main", i, R)
  PROVE  Lonely'
<1>1. ~\E m \in Lanes : m # "main" /\ On(m, R[i].of)
  BY DEF Lonely, Lanes, On, Live, RunPoints
<1>2. lane'["main"].joined = FALSE
  BY <1>1 DEF Opened, NoRun, Lanes
<1>3. lane'["short"].pc = "idle"
  BY DEF Lonely, Opened, Lanes, LaneType, RunType
<1> QED
  BY <1>2, <1>3 DEF Lonely

LEMMA KickStaysLonely ==
  ASSUME LaneType, Lonely, ~TwoLanes, NEW R, NEW S, NEW L, Kick(R, S, L)
  PROVE  Lonely'
<1>1. ASSUME NEW i, NEW Q, lane' = Opened("main", i, Q) PROVE Lonely'
  BY <1>1, TakeStaysLonely
<1>2. CASE \E D \in SUBSET Retryable(R) : \E i \in Pending(Requeued(R, D)) :
             lane' = Opened("main", i, Requeued(R, D))
  BY <1>1, <1>2
<1>3. CASE UNCHANGED lane
  BY <1>3 DEF Lonely
<1> QED
  BY <1>2, <1>3 DEF Kick, Idles, StartShort

LEMMA LonelyStays ==
  ASSUME IInv, Lonely, ~TwoLanes, [Next]_vars
  PROVE  Lonely'
<1>1. LaneType
  BY DEF IInv
<1>2. ASSUME NEW R, NEW S, NEW L, Kick(R, S, L) PROVE Lonely'
  BY <1>1, <1>2, KickStaysLonely
<1>3. ASSUME NEW k \in Lanes, RunStep(k) PROVE Lonely'
  <2>1. k = "main"
    BY <1>3 DEF RunStep, NextRow, Unavailable, Begin, Stopped, Fails, NoSpeech, Save, Analysed, Done, Again,
                Settle, Throws, Lonely, Lanes
  <2>2. CASE NextRow(k)
    <3>1. CASE \E i \in Pending(row) : lane' = Opened(k, i, row)
      BY <1>1, <2>1, <3>1, TakeStaysLonely
    <3>2. CASE lane' = [lane EXCEPT ![k] = NoRun]
      BY <1>1, <2>1, <3>2 DEF Lonely, LaneType, NoRun, Lanes
    <3> QED
      BY <2>2, <3>1, <3>2 DEF NextRow
  <2>3. CASE Unavailable(k) \/ Begin(k) \/ Stopped(k) \/ Fails(k) \/ NoSpeech(k)
    BY <1>1, <2>1, <2>3 DEF Unavailable, Begin, Stopped, Fails, NoSpeech, Closes, Lonely, LaneType, RunType, Lanes
  <2>4. CASE Save(k) \/ Analysed(k) \/ Done(k) \/ Again(k)
    BY <1>1, <2>1, <2>4 DEF Save, Analysed, Done, Again, Closes, Moves, Lonely, LaneType, RunType, Lanes
  <2>5. CASE Settle(k) \/ Throws(k)
    BY <1>1, <2>1, <2>5 DEF Settle, Throws, Leaves, NoRun, Lonely, LaneType, RunType, Lanes
  <2> QED
    BY <1>3, <2>2, <2>3, <2>4, <2>5 DEF RunStep
<1>4. ASSUME NEW r \in Recs, Request(r) PROVE Lonely'
  <2>1. CASE Ask(r) \/ Retry(r) \/ RestartLeft(r)
    BY <1>2, <2>1 DEF Ask, Retry, RestartLeft
  <2>2. CASE Submit(r)
    <3>1. CASE \E A \in Add(r, row, status), i \in Ids : lane' = Opened("main", i, A[1])
      BY <1>1, <3>1, TakeStaysLonely
    <3>2. CASE UNCHANGED lane
      BY <3>2 DEF Lonely
    <3> QED
      BY <2>2, <3>1, <3>2 DEF Submit, Pending
  <2>3. CASE Cancelled(r) \/ UNCHANGED lane
    BY <1>1, <2>3 DEF Cancelled, Lonely, LaneType, RunType, Lanes
  <2> QED
    BY <1>4, <2>1, <2>2, <2>3 DEF Request, Cancel, RestartStage, RestartGivenUp
<1>5. CASE CancelAll \/ Crash
  BY <1>1, <1>5 DEF CancelAll, Crash, NoRun, Lonely, LaneType, RunType, Lanes
<1>6. CASE Tick \/ Resume \/ Start
  BY <1>2, <1>6 DEF Tick, Resume, Start
<1>7. CASE Pause \/ Stop \/ UNCHANGED vars
  BY <1>7 DEF Pause, Stop, vars, Lonely
<1> QED
  BY <1>3, <1>4, <1>5, <1>6, <1>7 DEF Next

\* With one lane, the default setting, a cancel is final without a proviso: what
\* the comment of cancelledRecordings says.
THEOREM OneLaneCancelIsFinal == ASSUME ~TwoLanes PROVE Spec => CancelIsFinal
<1>1. Init => Lonely
  BY DEF Init, Lonely, NoRun, Lanes
<1>2. IInv /\ Lonely /\ [Next]_vars => Lonely'
  BY LonelyStays
<1>3. IInv /\ Lonely /\ [Next]_vars => [\A k \in Lanes : Saves(k) => ~lane[k].cut]_vars
  <2> SUFFICES ASSUME IInv, Lonely, [Next]_vars, NEW k \in Lanes, Saves(k) PROVE ~lane[k].cut
    OBVIOUS
  <2>1. Live(k) /\ ~Marked(k)
    BY OnlySaveSaves
  <2>2. ~lane[k].joined
    BY <2>1 DEF Lonely, Lanes, Live, RunPoints
  <2> QED
    BY <2>1, <2>2 DEF IInv, LaneOK, CutOK
<1> QED
  BY <1>1, <1>2, <1>3, QueueInvariant, PTL DEF Spec, CancelIsFinal
================================================================================
