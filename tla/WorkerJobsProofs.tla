-------------------------- MODULE WorkerJobsProofs --------------------------
(***************************************************************************)
(* Theorems about the model host's durable jobs, for every set of jobs and *)
(* keys, every capacity, and every interleaving, failure and crash that    *)
(* WorkerJobs allows.                                                      *)
(***************************************************************************)
EXTENDS WorkerJobs, SequenceTheorems, TLAPS

USE JobsAssumption, KeysAssumption

\* A chained write is a write, and the queue it joins stays a queue.
LEMMA AppendFacts ==
  ASSUME NEW q \in Seq(Writes), NEW j \in Jobs, NEW s \in Statuses, NEW w \in Waiters
  PROVE  /\ Append(q, Write(j, s, w)) \in Seq(Writes)
         /\ \A i \in 1..Len(Append(q, Write(j, s, w))) :
              LET e == Append(q, Write(j, s, w))[i] IN
              e = Write(j, s, w) \/ \E n \in 1..Len(q) : e = q[n]
  BY DEF Write, Writes

\* The head of the queue is a write, and the rest keeps the order.
LEMMA TailFacts ==
  ASSUME NEW q \in Seq(Writes), q # <<>>
  PROVE  /\ Head(q) \in Writes
         /\ Head(q).job \in Jobs /\ Head(q).st \in Statuses
         /\ Head(q) = q[1] /\ 1 \in 1..Len(q)
         /\ Tail(q) \in Seq(Writes)
         /\ \A i \in 1..Len(Tail(q)) : i + 1 \in 1..Len(q) /\ Tail(q)[i] = q[i + 1]
<1>1. /\ Head(q) \in Writes
      /\ Tail(q) \in Seq(Writes)
      /\ Len(Tail(q)) = Len(q) - 1
      /\ \A i \in 1..Len(Tail(q)) : Tail(q)[i] = q[i + 1]
  BY HeadTailProperties
<1>2. Len(q) \in Nat /\ Len(q) # 0
  BY LenProperties, EmptySeq
<1>3. Head(q) = q[1]
  OBVIOUS
<1>4. Head(q).job \in Jobs /\ Head(q).st \in Statuses
  BY <1>1 DEF Writes
<1> QED
  BY <1>1, <1>2, <1>3, <1>4

LEMMA EmptyQueue == <<>> \in Seq(Writes) /\ 1..Len(<<>>) = {}
  OBVIOUS

\* The strengthening holds when the service starts.
LEMMA InitIInv == Init => IInv
  BY DEF Init, IInv, TypeOK, LaneExclusive, DownInv, UnissuedInv, QueueInv,
         PhaseInv, RunsInv, InputInv, Statuses, Live, Terminal, Points
\* Every step keeps the types.
LEMMA TypeStep == TypeOK /\ [Next]_vars => TypeOK'
<1> SUFFICES ASSUME TypeOK, [Next]_vars PROVE TypeOK'
  OBVIOUS
<1> USE DEF TypeOK, jobVars, fileVars, Statuses, Live, Terminal, Points, Waiters, Persist, Update, Goto
<1>1. ASSUME NEW j \in Jobs, NEW k \in Keys, CreateNew(j, k) PROVE TypeOK'
  BY <1>1, AppendFacts DEF CreateNew
<1>2. ASSUME NEW j \in Jobs, CreateAgain(j) PROVE TypeOK'
  BY <1>2 DEF CreateAgain
<1>3. ASSUME NEW j \in Jobs, AnswerAgain(j) PROVE TypeOK'
  BY <1>3 DEF AnswerAgain
<1>4. ASSUME NEW j \in Jobs, Upload(j) PROVE TypeOK'
  BY <1>4, AppendFacts DEF Upload
<1>5. ASSUME NEW j \in Jobs, Cancel(j) PROVE TypeOK'
  <2>1. aborted' \subseteq Jobs
    BY <1>5 DEF Cancel
  <2>2. status' \in [Jobs -> Statuses] /\ writes' \in Seq(Writes)
    <3>1. CASE CancelsAtOnce(j)
      <4>1. Append(writes, Write(j, "cancelled", "none")) \in Seq(Writes)
        BY AppendFacts
      <4> QED
        BY <1>5, <3>1, <4>1 DEF Cancel, CancelsAtOnce
    <3>2. CASE ~CancelsAtOnce(j)
      BY <1>5, <3>2 DEF Cancel, CancelsAtOnce
    <3> QED
      BY <3>1, <3>2
  <2> QED
    BY <1>5, <2>1, <2>2 DEF Cancel
<1>6. ASSUME NEW j \in Jobs, StreamDone(j) PROVE TypeOK'
  BY <1>6, AppendFacts DEF StreamDone
<1>7. ASSUME NEW j \in Jobs, StreamFails(j) PROVE TypeOK'
  BY <1>7 DEF StreamFails
<1>8. ASSUME NEW j \in Jobs, ExecReturns(j) PROVE TypeOK'
  BY <1>8 DEF ExecReturns
<1>9. ASSUME NEW j \in Jobs, ExecFails(j) PROVE TypeOK'
  BY <1>9 DEF ExecFails
<1>10. ASSUME NEW j \in Jobs, NEW b \in BOOLEAN, Delete(j, b) PROVE TypeOK'
  <2>1. CASE Publishes(j, b)
    <3>1. Append(writes, Write(j, "completed", "activity")) \in Seq(Writes)
      BY AppendFacts
    <3> QED
      BY <1>10, <2>1, <3>1 DEF Delete, Publishes
  <2>2. CASE ~Publishes(j, b)
    BY <1>10, <2>2 DEF Delete, Publishes
  <2> QED
    BY <2>1, <2>2
<1>11. ASSUME NEW j \in Jobs, NEW b \in BOOLEAN, DropInput(j, b) PROVE TypeOK'
  BY <1>11, AppendFacts DEF DropInput, EndStatus
<1>12. ASSUME NEW j \in Jobs, CleanupDone(j) PROVE TypeOK'
  BY <1>12 DEF CleanupDone, Release
<1>13. ASSUME NEW j \in Jobs, CleanupFails(j) PROVE TypeOK'
  BY <1>13, AppendFacts DEF CleanupFails
<1>14. ASSUME NEW j \in Jobs, SweepCleanup(j) PROVE TypeOK'
  BY <1>14, AppendFacts DEF SweepCleanup
<1>15. ASSUME NEW j \in Jobs, ExpireStart(j) PROVE TypeOK'
  BY <1>15 DEF ExpireStart
<1>16. ASSUME NEW j \in Jobs, ExpireDone(j) PROVE TypeOK'
  BY <1>16 DEF ExpireDone
<1>17. ASSUME NEW j \in Jobs, ExpireFails(j) PROVE TypeOK'
  BY <1>17 DEF ExpireFails
<1>18. ASSUME NEW j \in Jobs, BootFails(j) PROVE TypeOK'
  BY <1>18 DEF BootFails, Reopened
<1>19. ASSUME NEW b \in BOOLEAN, WriteSettles(b) PROVE TypeOK'
  <2> DEFINE w == Head(writes)
  <2>1. /\ w \in Writes
        /\ writes' \in Seq(Writes)
    BY <1>19, TailFacts DEF WriteSettles
  <2>2. w.job \in Jobs /\ w.st \in Statuses
    BY <1>19, TailFacts DEF WriteSettles
  <2>3. /\ disk' \in [Jobs -> Statuses \cup {"none"}]
        /\ mem' \subseteq Jobs
        /\ known' \subseteq Jobs
        /\ UNCHANGED <<up, host, key, status, aborted, removing, asking>>
    BY <1>19, <2>2 DEF WriteSettles
  <2>4. /\ lane' \in Jobs \cup {"free", "other"}
        /\ pc' \in [Jobs -> Points]
        /\ audio' \subseteq Jobs
        /\ runs' \in [Jobs -> 0..2]
    <3>1. CASE w.waiter = "activity" /\ pc[w.job] \in Saving
      <4>1. Resume(w.job, b)
        BY <1>19, <3>1 DEF WriteSettles
      <4>2. AfterSave(pc[w.job], b) \in Points
        BY <3>1, <2>2 DEF AfterSave, OnSaved, OnSaveError, Saving
      <4> QED
        BY <4>1, <4>2, <2>2 DEF Resume, Release
    <3>2. CASE ~(w.waiter = "activity" /\ pc[w.job] \in Saving)
      BY <1>19, <3>2 DEF WriteSettles
    <3> QED
      BY <3>1, <3>2
  <2> QED
    BY <2>1, <2>3, <2>4
<1>20. ASSUME NEW h \in {"ready", "paused", "stopped"}, Apply(h) PROVE TypeOK'
  BY <1>20 DEF Apply
<1>21. ASSUME OtherStarts PROVE TypeOK'
  BY <1>21 DEF OtherStarts
<1>22. ASSUME OtherEnds PROVE TypeOK'
  BY <1>22 DEF OtherEnds
<1>23. ASSUME Crash PROVE TypeOK'
  BY <1>23, EmptyQueue DEF Crash
<1>24. ASSUME NEW h \in {"ready", "paused", "stopped"}, Boot(h) PROVE TypeOK'
  BY <1>24 DEF Boot, Reopened
<1>25. CASE UNCHANGED vars
  BY <1>25 DEF vars
<1> QED
  BY <1>1, <1>2, <1>3, <1>4, <1>5, <1>6, <1>7, <1>8, <1>9, <1>10, <1>11, <1>12, <1>13, <1>14, <1>15, <1>16, <1>17, <1>18, <1>19, <1>20, <1>21, <1>22, <1>23, <1>24, <1>25 DEF Next, Request, Activity, Sweep

\* Every step keeps the lane with the one activity in flight.
LEMMA LaneStep == IInv /\ [Next]_vars => LaneExclusive'
<1> SUFFICES ASSUME IInv, [Next]_vars PROVE LaneExclusive'
  OBVIOUS
<1> USE DEF IInv, TypeOK, LaneExclusive, DownInv, jobVars, fileVars, Update, Persist, Goto
<1>1. ASSUME NEW j \in Jobs, NEW k \in Keys, CreateNew(j, k) PROVE LaneExclusive'
  BY <1>1 DEF CreateNew, KeyInUse
<1>2. ASSUME NEW j \in Jobs, CreateAgain(j) PROVE LaneExclusive'
  BY <1>2 DEF CreateAgain
<1>3. ASSUME NEW j \in Jobs, AnswerAgain(j) PROVE LaneExclusive'
  BY <1>3 DEF AnswerAgain
<1>4. ASSUME NEW j \in Jobs, Upload(j) PROVE LaneExclusive'
  BY <1>4 DEF Upload, AcceptsInput, CanAdmit
<1>5. ASSUME NEW j \in Jobs, Cancel(j) PROVE LaneExclusive'
  BY <1>5 DEF Cancel, CancelsAtOnce
<1>6. ASSUME NEW j \in Jobs, StreamDone(j) PROVE LaneExclusive'
  BY <1>6 DEF StreamDone
<1>7. ASSUME NEW j \in Jobs, StreamFails(j) PROVE LaneExclusive'
  BY <1>7 DEF StreamFails
<1>8. ASSUME NEW j \in Jobs, ExecReturns(j) PROVE LaneExclusive'
  BY <1>8 DEF ExecReturns
<1>9. ASSUME NEW j \in Jobs, ExecFails(j) PROVE LaneExclusive'
  BY <1>9 DEF ExecFails
<1>10. ASSUME NEW j \in Jobs, NEW b \in BOOLEAN, Delete(j, b) PROVE LaneExclusive'
  BY <1>10 DEF Delete, Publishes
<1>11. ASSUME NEW j \in Jobs, NEW b \in BOOLEAN, DropInput(j, b) PROVE LaneExclusive'
  BY <1>11 DEF DropInput, EndStatus
<1>12. ASSUME NEW j \in Jobs, CleanupDone(j) PROVE LaneExclusive'
  BY <1>12 DEF CleanupDone, Release
<1>13. ASSUME NEW j \in Jobs, CleanupFails(j) PROVE LaneExclusive'
  BY <1>13 DEF CleanupFails
<1>14. ASSUME NEW j \in Jobs, SweepCleanup(j) PROVE LaneExclusive'
  BY <1>14 DEF SweepCleanup
<1>15. ASSUME NEW j \in Jobs, ExpireStart(j) PROVE LaneExclusive'
  BY <1>15 DEF ExpireStart
<1>16. ASSUME NEW j \in Jobs, ExpireDone(j) PROVE LaneExclusive'
  BY <1>16 DEF ExpireDone
<1>17. ASSUME NEW j \in Jobs, ExpireFails(j) PROVE LaneExclusive'
  BY <1>17 DEF ExpireFails
<1>18. ASSUME NEW j \in Jobs, BootFails(j) PROVE LaneExclusive'
  BY <1>18 DEF BootFails, Reopened
<1>19. ASSUME NEW b \in BOOLEAN, WriteSettles(b) PROVE LaneExclusive'
  BY <1>19, TailFacts DEF WriteSettles, Resume, Release, AfterSave, OnSaved, OnSaveError, Saving
<1>20. ASSUME NEW h \in {"ready", "paused", "stopped"}, Apply(h) PROVE LaneExclusive'
  BY <1>20 DEF Apply
<1>21. ASSUME OtherStarts PROVE LaneExclusive'
  BY <1>21 DEF OtherStarts, CanAdmit
<1>22. ASSUME OtherEnds PROVE LaneExclusive'
  BY <1>22 DEF OtherEnds
<1>23. ASSUME Crash PROVE LaneExclusive'
  BY <1>23 DEF Crash
<1>24. ASSUME NEW h \in {"ready", "paused", "stopped"}, Boot(h) PROVE LaneExclusive'
  BY <1>24 DEF Boot, Reopened
<1>25. CASE UNCHANGED vars
  BY <1>25 DEF vars
<1> QED
  BY <1>1, <1>2, <1>3, <1>4, <1>5, <1>6, <1>7, <1>8, <1>9, <1>10, <1>11, <1>12, <1>13, <1>14, <1>15, <1>16, <1>17, <1>18, <1>19, <1>20, <1>21, <1>22, <1>23, <1>24, <1>25 DEF Next, Request, Activity, Sweep

\* A process that is down stays without activities, jobs and aborts.
LEMMA DownStep == IInv /\ [Next]_vars => DownInv'
<1> SUFFICES ASSUME IInv, [Next]_vars PROVE DownInv'
  OBVIOUS
<1> USE DEF IInv, TypeOK, DownInv, jobVars, fileVars, Update, Persist, Goto
<1>1. ASSUME NEW j \in Jobs, NEW k \in Keys, CreateNew(j, k) PROVE DownInv'
  BY <1>1 DEF CreateNew, KeyInUse
<1>2. ASSUME NEW j \in Jobs, CreateAgain(j) PROVE DownInv'
  BY <1>2 DEF CreateAgain
<1>3. ASSUME NEW j \in Jobs, AnswerAgain(j) PROVE DownInv'
  BY <1>3 DEF AnswerAgain
<1>4. ASSUME NEW j \in Jobs, Upload(j) PROVE DownInv'
  BY <1>4 DEF Upload, AcceptsInput, CanAdmit
<1>5. ASSUME NEW j \in Jobs, Cancel(j) PROVE DownInv'
  BY <1>5 DEF Cancel, CancelsAtOnce
<1>6. ASSUME NEW j \in Jobs, StreamDone(j) PROVE DownInv'
  BY <1>6 DEF StreamDone
<1>7. ASSUME NEW j \in Jobs, StreamFails(j) PROVE DownInv'
  BY <1>7 DEF StreamFails
<1>8. ASSUME NEW j \in Jobs, ExecReturns(j) PROVE DownInv'
  BY <1>8 DEF ExecReturns
<1>9. ASSUME NEW j \in Jobs, ExecFails(j) PROVE DownInv'
  BY <1>9 DEF ExecFails
<1>10. ASSUME NEW j \in Jobs, NEW b \in BOOLEAN, Delete(j, b) PROVE DownInv'
  BY <1>10 DEF Delete, Publishes
<1>11. ASSUME NEW j \in Jobs, NEW b \in BOOLEAN, DropInput(j, b) PROVE DownInv'
  BY <1>11 DEF DropInput, EndStatus
<1>12. ASSUME NEW j \in Jobs, CleanupDone(j) PROVE DownInv'
  BY <1>12 DEF CleanupDone, Release
<1>13. ASSUME NEW j \in Jobs, CleanupFails(j) PROVE DownInv'
  BY <1>13 DEF CleanupFails
<1>14. ASSUME NEW j \in Jobs, SweepCleanup(j) PROVE DownInv'
  BY <1>14 DEF SweepCleanup
<1>15. ASSUME NEW j \in Jobs, ExpireStart(j) PROVE DownInv'
  BY <1>15 DEF ExpireStart
<1>16. ASSUME NEW j \in Jobs, ExpireDone(j) PROVE DownInv'
  BY <1>16 DEF ExpireDone
<1>17. ASSUME NEW j \in Jobs, ExpireFails(j) PROVE DownInv'
  BY <1>17 DEF ExpireFails
<1>18. ASSUME NEW j \in Jobs, BootFails(j) PROVE DownInv'
  BY <1>18 DEF BootFails, Reopened
<1>19. ASSUME NEW b \in BOOLEAN, WriteSettles(b) PROVE DownInv'
  BY <1>19, TailFacts DEF WriteSettles, Resume, Release, AfterSave, OnSaved, OnSaveError, Saving
<1>20. ASSUME NEW h \in {"ready", "paused", "stopped"}, Apply(h) PROVE DownInv'
  BY <1>20 DEF Apply
<1>21. ASSUME OtherStarts PROVE DownInv'
  BY <1>21 DEF OtherStarts
<1>22. ASSUME OtherEnds PROVE DownInv'
  BY <1>22 DEF OtherEnds
<1>23. ASSUME Crash PROVE DownInv'
  BY <1>23 DEF Crash
<1>24. ASSUME NEW h \in {"ready", "paused", "stopped"}, Boot(h) PROVE DownInv'
  BY <1>24 DEF Boot, Reopened
<1>25. CASE UNCHANGED vars
  BY <1>25 DEF vars
<1> QED
  BY <1>1, <1>2, <1>3, <1>4, <1>5, <1>6, <1>7, <1>8, <1>9, <1>10, <1>11, <1>12, <1>13, <1>14, <1>15, <1>16, <1>17, <1>18, <1>19, <1>20, <1>21, <1>22, <1>23, <1>24, <1>25 DEF Next, Request, Activity, Sweep

\* Only create() gives an identity a trace.
LEMMA UnissuedStep == IInv /\ [Next]_vars => UnissuedInv'
<1> SUFFICES ASSUME IInv, [Next]_vars PROVE UnissuedInv'
  OBVIOUS
<1> USE DEF IInv, TypeOK, UnissuedInv, QueueInv, jobVars, fileVars, Update, Persist, Goto
<1>1. ASSUME NEW j \in Jobs, NEW k \in Keys, CreateNew(j, k) PROVE UnissuedInv'
  BY <1>1 DEF CreateNew, KeyInUse
<1>2. ASSUME NEW j \in Jobs, CreateAgain(j) PROVE UnissuedInv'
  BY <1>2 DEF CreateAgain
<1>3. ASSUME NEW j \in Jobs, AnswerAgain(j) PROVE UnissuedInv'
  BY <1>3 DEF AnswerAgain
<1>4. ASSUME NEW j \in Jobs, Upload(j) PROVE UnissuedInv'
  BY <1>4 DEF Upload, AcceptsInput, CanAdmit
<1>5. ASSUME NEW j \in Jobs, Cancel(j) PROVE UnissuedInv'
  BY <1>5 DEF Cancel, CancelsAtOnce
<1>6. ASSUME NEW j \in Jobs, StreamDone(j) PROVE UnissuedInv'
  BY <1>6 DEF StreamDone
<1>7. ASSUME NEW j \in Jobs, StreamFails(j) PROVE UnissuedInv'
  BY <1>7 DEF StreamFails
<1>8. ASSUME NEW j \in Jobs, ExecReturns(j) PROVE UnissuedInv'
  BY <1>8 DEF ExecReturns
<1>9. ASSUME NEW j \in Jobs, ExecFails(j) PROVE UnissuedInv'
  BY <1>9 DEF ExecFails
<1>10. ASSUME NEW j \in Jobs, NEW b \in BOOLEAN, Delete(j, b) PROVE UnissuedInv'
  BY <1>10 DEF Delete, Publishes
<1>11. ASSUME NEW j \in Jobs, NEW b \in BOOLEAN, DropInput(j, b) PROVE UnissuedInv'
  BY <1>11 DEF DropInput, EndStatus
<1>12. ASSUME NEW j \in Jobs, CleanupDone(j) PROVE UnissuedInv'
  BY <1>12 DEF CleanupDone, Release
<1>13. ASSUME NEW j \in Jobs, CleanupFails(j) PROVE UnissuedInv'
  BY <1>13 DEF CleanupFails
<1>14. ASSUME NEW j \in Jobs, SweepCleanup(j) PROVE UnissuedInv'
  BY <1>14 DEF SweepCleanup
<1>15. ASSUME NEW j \in Jobs, ExpireStart(j) PROVE UnissuedInv'
  BY <1>15 DEF ExpireStart
<1>16. ASSUME NEW j \in Jobs, ExpireDone(j) PROVE UnissuedInv'
  BY <1>16 DEF ExpireDone
<1>17. ASSUME NEW j \in Jobs, ExpireFails(j) PROVE UnissuedInv'
  BY <1>17 DEF ExpireFails
<1>18. ASSUME NEW j \in Jobs, BootFails(j) PROVE UnissuedInv'
  BY <1>18 DEF BootFails, Reopened
<1>19. ASSUME NEW b \in BOOLEAN, WriteSettles(b) PROVE UnissuedInv'
  <2> DEFINE w == Head(writes)
  <2>1. w.job \in Jobs /\ w.st \in Statuses /\ key[w.job] # NoKey
    BY <1>19, TailFacts DEF WriteSettles
  <2>2. ASSUME NEW j \in Jobs, key'[j] = NoKey PROVE j # w.job /\ key[j] = NoKey /\ status'[j] = status[j]
    BY <1>19, <2>1, <2>2 DEF WriteSettles
  <2>3. ASSUME NEW j \in Jobs, j # w.job
        PROVE  /\ pc'[j] = pc[j] /\ runs'[j] = runs[j] /\ disk'[j] = disk[j]
               /\ j \in audio' => j \in audio
               /\ j \in mem' => j \in mem
               /\ removing' = removing
    <3>1. CASE w.waiter = "activity" /\ pc[w.job] \in Saving
      BY <1>19, <2>1, <2>3, <3>1 DEF WriteSettles, Resume, Release
    <3>2. CASE ~(w.waiter = "activity" /\ pc[w.job] \in Saving)
      BY <1>19, <2>1, <2>3, <3>2 DEF WriteSettles
    <3> QED
      BY <3>1, <3>2
  <2> QED
    BY <2>2, <2>3
<1>20. ASSUME NEW h \in {"ready", "paused", "stopped"}, Apply(h) PROVE UnissuedInv'
  BY <1>20 DEF Apply
<1>21. ASSUME OtherStarts PROVE UnissuedInv'
  BY <1>21 DEF OtherStarts
<1>22. ASSUME OtherEnds PROVE UnissuedInv'
  BY <1>22 DEF OtherEnds
<1>23. ASSUME Crash PROVE UnissuedInv'
  BY <1>23 DEF Crash
<1>24. ASSUME NEW h \in {"ready", "paused", "stopped"}, Boot(h) PROVE UnissuedInv'
  BY <1>24 DEF Boot, Reopened
<1>25. CASE UNCHANGED vars
  BY <1>25 DEF vars
<1> QED
  BY <1>1, <1>2, <1>3, <1>4, <1>5, <1>6, <1>7, <1>8, <1>9, <1>10, <1>11, <1>12, <1>13, <1>14, <1>15, <1>16, <1>17, <1>18, <1>19, <1>20, <1>21, <1>22, <1>23, <1>24, <1>25 DEF Next, Request, Activity, Sweep

\* The statuses a failed or aborted activity can end in.
LEMMA EndStatusType == \A j \in Jobs : EndStatus(j) \in Statuses
  BY DEF EndStatus, Statuses, Terminal

\* Writing an issued identity keeps the queue to issued identities, as long as
\* no identity is taken back.
LEMMA AppendKeeps ==
  ASSUME writes \in Seq(Writes), QueueInv,
         NEW j \in Jobs, NEW s \in Statuses, NEW w \in Waiters,
         writes' = Append(writes, Write(j, s, w)),
         key'[j] # NoKey,
         \A i \in Jobs : key[i] # NoKey => key'[i] # NoKey
  PROVE  QueueInv'
<1>1. ASSUME NEW i \in 1..Len(writes') PROVE key'[writes'[i].job] # NoKey
  <2>1. CASE writes'[i] = Write(j, s, w)
    BY <2>1 DEF Write
  <2>2. CASE \E n \in 1..Len(writes) : writes'[i] = writes[n]
    <3>1. PICK n \in 1..Len(writes) : writes'[i] = writes[n]
      BY <2>2
    <3>2. writes[n] \in Writes
      BY ElementOfSeq
    <3> QED
      BY <3>1, <3>2 DEF QueueInv, Writes
  <2> QED
    BY <2>1, <2>2, AppendFacts
<1> QED
  BY <1>1 DEF QueueInv

\* Every write is chained for an issued identity.
LEMMA QueueStep == IInv /\ [Next]_vars => QueueInv'
<1> SUFFICES ASSUME IInv, [Next]_vars PROVE QueueInv'
  OBVIOUS
<1> USE DEF IInv, TypeOK, UnissuedInv, QueueInv, DownInv, jobVars, fileVars, Update, Persist, Goto, Statuses, Live, Terminal, Waiters
<1>1. ASSUME NEW j \in Jobs, NEW k \in Keys, CreateNew(j, k) PROVE QueueInv'
  <2>1. writes' = Append(writes, Write(j, "awaiting-upload", "create")) /\ key'[j] # NoKey
    BY <1>1 DEF CreateNew
  <2>2. \A i \in Jobs : key[i] # NoKey => key'[i] # NoKey
    BY <1>1 DEF CreateNew
  <2> QED
    BY <2>1, <2>2, AppendKeeps
<1>2. ASSUME NEW j \in Jobs, CreateAgain(j) PROVE QueueInv'
  BY <1>2 DEF CreateAgain
<1>3. ASSUME NEW j \in Jobs, AnswerAgain(j) PROVE QueueInv'
  BY <1>3 DEF AnswerAgain
<1>4. ASSUME NEW j \in Jobs, Upload(j) PROVE QueueInv'
  <2>1. writes' = Append(writes, Write(j, "uploading", "activity")) /\ key'[j] # NoKey
    BY <1>4 DEF Upload
  <2>2. \A i \in Jobs : key[i] # NoKey => key'[i] # NoKey
    BY <1>4 DEF Upload
  <2> QED
    BY <2>1, <2>2, AppendKeeps
<1>5. ASSUME NEW j \in Jobs, Cancel(j) PROVE QueueInv'
  <2>1. CASE CancelsAtOnce(j)
    <3>1. writes' = Append(writes, Write(j, "cancelled", "none")) /\ key' = key /\ key[j] # NoKey
      BY <1>5, <2>1 DEF Cancel, CancelsAtOnce
    <3> QED
      BY <3>1, AppendKeeps
  <2>2. CASE ~CancelsAtOnce(j)
    BY <1>5, <2>2 DEF Cancel, CancelsAtOnce
  <2> QED
    BY <2>1, <2>2
<1>6. ASSUME NEW j \in Jobs, StreamDone(j) PROVE QueueInv'
  <2>1. writes' = Append(writes, Write(j, "running", "activity")) /\ key'[j] # NoKey
    BY <1>6 DEF StreamDone
  <2>2. \A i \in Jobs : key[i] # NoKey => key'[i] # NoKey
    BY <1>6 DEF StreamDone
  <2> QED
    BY <2>1, <2>2, AppendKeeps
<1>7. ASSUME NEW j \in Jobs, StreamFails(j) PROVE QueueInv'
  BY <1>7 DEF StreamFails
<1>8. ASSUME NEW j \in Jobs, ExecReturns(j) PROVE QueueInv'
  BY <1>8 DEF ExecReturns
<1>9. ASSUME NEW j \in Jobs, ExecFails(j) PROVE QueueInv'
  BY <1>9 DEF ExecFails
<1>10. ASSUME NEW j \in Jobs, NEW b \in BOOLEAN, Delete(j, b) PROVE QueueInv'
  <2>1. CASE Publishes(j, b)
    <3>1. writes' = Append(writes, Write(j, "completed", "activity")) /\ key' = key /\ key[j] # NoKey
      BY <1>10, <2>1 DEF Delete, Publishes
    <3> QED
      BY <3>1, AppendKeeps
  <2>2. CASE ~Publishes(j, b)
    BY <1>10, <2>2 DEF Delete, Publishes
  <2> QED
    BY <2>1, <2>2
<1>11. ASSUME NEW j \in Jobs, NEW b \in BOOLEAN, DropInput(j, b) PROVE QueueInv'
  <2>1. writes' = Append(writes, Write(j, EndStatus(j), "activity")) /\ key'[j] # NoKey
    BY <1>11 DEF DropInput
  <2>2. \A i \in Jobs : key[i] # NoKey => key'[i] # NoKey
    BY <1>11 DEF DropInput
  <2> QED
    BY <2>1, <2>2, AppendKeeps, EndStatusType
<1>12. ASSUME NEW j \in Jobs, CleanupDone(j) PROVE QueueInv'
  BY <1>12 DEF CleanupDone, Release
<1>13. ASSUME NEW j \in Jobs, CleanupFails(j) PROVE QueueInv'
  <2>1. writes' = Append(writes, Write(j, "cleanup-failed", "activity")) /\ key'[j] # NoKey
    BY <1>13 DEF CleanupFails
  <2>2. \A i \in Jobs : key[i] # NoKey => key'[i] # NoKey
    BY <1>13 DEF CleanupFails
  <2> QED
    BY <2>1, <2>2, AppendKeeps
<1>14. ASSUME NEW j \in Jobs, SweepCleanup(j) PROVE QueueInv'
  <2>1. writes' = Append(writes, Write(j, "failed", "none")) /\ key'[j] # NoKey
    BY <1>14 DEF SweepCleanup
  <2>2. \A i \in Jobs : key[i] # NoKey => key'[i] # NoKey
    BY <1>14 DEF SweepCleanup
  <2> QED
    BY <2>1, <2>2, AppendKeeps
<1>15. ASSUME NEW j \in Jobs, ExpireStart(j) PROVE QueueInv'
  BY <1>15 DEF ExpireStart
<1>16. ASSUME NEW j \in Jobs, ExpireDone(j) PROVE QueueInv'
  BY <1>16 DEF ExpireDone
<1>17. ASSUME NEW j \in Jobs, ExpireFails(j) PROVE QueueInv'
  BY <1>17 DEF ExpireFails
<1>18. ASSUME NEW j \in Jobs, BootFails(j) PROVE QueueInv'
  BY <1>18 DEF BootFails, Reopened
<1>19. ASSUME NEW b \in BOOLEAN, WriteSettles(b) PROVE QueueInv'
  BY <1>19, TailFacts DEF WriteSettles, Resume, Release, AfterSave, OnSaved, OnSaveError, Saving
<1>20. ASSUME NEW h \in {"ready", "paused", "stopped"}, Apply(h) PROVE QueueInv'
  BY <1>20 DEF Apply
<1>21. ASSUME OtherStarts PROVE QueueInv'
  BY <1>21 DEF OtherStarts
<1>22. ASSUME OtherEnds PROVE QueueInv'
  BY <1>22 DEF OtherEnds
<1>23. ASSUME Crash PROVE QueueInv'
  BY <1>23, EmptyQueue DEF Crash
<1>24. ASSUME NEW h \in {"ready", "paused", "stopped"}, Boot(h) PROVE QueueInv'
  BY <1>24 DEF Boot, Reopened
<1>25. CASE UNCHANGED vars
  BY <1>25 DEF vars
<1> QED
  BY <1>1, <1>2, <1>3, <1>4, <1>5, <1>6, <1>7, <1>8, <1>9, <1>10, <1>11, <1>12, <1>13, <1>14, <1>15, <1>16, <1>17, <1>18, <1>19, <1>20, <1>21, <1>22, <1>23, <1>24, <1>25 DEF Next, Request, Activity, Sweep

\* Memory shows the phase an activity is in, at each of its awaits.
LEMMA PhaseStep == IInv /\ [Next]_vars => PhaseInv'
<1> SUFFICES ASSUME IInv, [Next]_vars PROVE PhaseInv'
  OBVIOUS
<1> USE DEF IInv, TypeOK, PhaseInv, LaneExclusive, UnissuedInv, DownInv, jobVars, fileVars, Update, Persist, Goto
<1>1. ASSUME NEW j \in Jobs, NEW k \in Keys, CreateNew(j, k) PROVE PhaseInv'
  BY <1>1 DEF CreateNew, KeyInUse
<1>2. ASSUME NEW j \in Jobs, CreateAgain(j) PROVE PhaseInv'
  BY <1>2 DEF CreateAgain
<1>3. ASSUME NEW j \in Jobs, AnswerAgain(j) PROVE PhaseInv'
  BY <1>3 DEF AnswerAgain
<1>4. ASSUME NEW j \in Jobs, Upload(j) PROVE PhaseInv'
  BY <1>4 DEF Upload, AcceptsInput, CanAdmit
<1>5. ASSUME NEW j \in Jobs, Cancel(j) PROVE PhaseInv'
  BY <1>5 DEF Cancel, CancelsAtOnce
<1>6. ASSUME NEW j \in Jobs, StreamDone(j) PROVE PhaseInv'
  BY <1>6 DEF StreamDone
<1>7. ASSUME NEW j \in Jobs, StreamFails(j) PROVE PhaseInv'
  BY <1>7 DEF StreamFails
<1>8. ASSUME NEW j \in Jobs, ExecReturns(j) PROVE PhaseInv'
  BY <1>8 DEF ExecReturns
<1>9. ASSUME NEW j \in Jobs, ExecFails(j) PROVE PhaseInv'
  BY <1>9 DEF ExecFails
<1>10. ASSUME NEW j \in Jobs, NEW b \in BOOLEAN, Delete(j, b) PROVE PhaseInv'
  BY <1>10 DEF Delete, Publishes
<1>11. ASSUME NEW j \in Jobs, NEW b \in BOOLEAN, DropInput(j, b) PROVE PhaseInv'
  BY <1>11 DEF DropInput, EndStatus
<1>12. ASSUME NEW j \in Jobs, CleanupDone(j) PROVE PhaseInv'
  BY <1>12 DEF CleanupDone, Release
<1>13. ASSUME NEW j \in Jobs, CleanupFails(j) PROVE PhaseInv'
  BY <1>13 DEF CleanupFails
<1>14. ASSUME NEW j \in Jobs, SweepCleanup(j) PROVE PhaseInv'
  BY <1>14 DEF SweepCleanup
<1>15. ASSUME NEW j \in Jobs, ExpireStart(j) PROVE PhaseInv'
  BY <1>15 DEF ExpireStart
<1>16. ASSUME NEW j \in Jobs, ExpireDone(j) PROVE PhaseInv'
  BY <1>16 DEF ExpireDone
<1>17. ASSUME NEW j \in Jobs, ExpireFails(j) PROVE PhaseInv'
  BY <1>17 DEF ExpireFails
<1>18. ASSUME NEW j \in Jobs, BootFails(j) PROVE PhaseInv'
  BY <1>18 DEF BootFails, Reopened
<1>19. ASSUME NEW b \in BOOLEAN, WriteSettles(b) PROVE PhaseInv'
  BY <1>19, TailFacts DEF WriteSettles, Resume, Release, AfterSave, OnSaved, OnSaveError, Saving
<1>20. ASSUME NEW h \in {"ready", "paused", "stopped"}, Apply(h) PROVE PhaseInv'
  BY <1>20 DEF Apply
<1>21. ASSUME OtherStarts PROVE PhaseInv'
  BY <1>21 DEF OtherStarts
<1>22. ASSUME OtherEnds PROVE PhaseInv'
  BY <1>22 DEF OtherEnds
<1>23. ASSUME Crash PROVE PhaseInv'
  BY <1>23 DEF Crash
<1>24. ASSUME NEW h \in {"ready", "paused", "stopped"}, Boot(h) PROVE PhaseInv'
  BY <1>24 DEF Boot, Reopened
<1>25. CASE UNCHANGED vars
  BY <1>25 DEF vars
<1> QED
  BY <1>1, <1>2, <1>3, <1>4, <1>5, <1>6, <1>7, <1>8, <1>9, <1>10, <1>11, <1>12, <1>13, <1>14, <1>15, <1>16, <1>17, <1>18, <1>19, <1>20, <1>21, <1>22, <1>23, <1>24, <1>25 DEF Next, Request, Activity, Sweep

\* A job that can still reach run() has not executed.
LEMMA RunsStep == IInv /\ [Next]_vars => RunsInv'
<1> SUFFICES ASSUME IInv, [Next]_vars PROVE RunsInv'
  OBVIOUS
<1> USE DEF IInv, TypeOK, PhaseInv, RunsInv, LaneExclusive, UnissuedInv, DownInv, jobVars, fileVars, Update, Persist, Goto
<1>1. ASSUME NEW j \in Jobs, NEW k \in Keys, CreateNew(j, k) PROVE RunsInv'
  BY <1>1 DEF CreateNew, KeyInUse
<1>2. ASSUME NEW j \in Jobs, CreateAgain(j) PROVE RunsInv'
  BY <1>2 DEF CreateAgain
<1>3. ASSUME NEW j \in Jobs, AnswerAgain(j) PROVE RunsInv'
  BY <1>3 DEF AnswerAgain
<1>4. ASSUME NEW j \in Jobs, Upload(j) PROVE RunsInv'
  BY <1>4 DEF Upload, AcceptsInput, CanAdmit
<1>5. ASSUME NEW j \in Jobs, Cancel(j) PROVE RunsInv'
  BY <1>5 DEF Cancel, CancelsAtOnce
<1>6. ASSUME NEW j \in Jobs, StreamDone(j) PROVE RunsInv'
  BY <1>6 DEF StreamDone
<1>7. ASSUME NEW j \in Jobs, StreamFails(j) PROVE RunsInv'
  BY <1>7 DEF StreamFails
<1>8. ASSUME NEW j \in Jobs, ExecReturns(j) PROVE RunsInv'
  BY <1>8 DEF ExecReturns
<1>9. ASSUME NEW j \in Jobs, ExecFails(j) PROVE RunsInv'
  BY <1>9 DEF ExecFails
<1>10. ASSUME NEW j \in Jobs, NEW b \in BOOLEAN, Delete(j, b) PROVE RunsInv'
  BY <1>10 DEF Delete, Publishes
<1>11. ASSUME NEW j \in Jobs, NEW b \in BOOLEAN, DropInput(j, b) PROVE RunsInv'
  BY <1>11 DEF DropInput, EndStatus
<1>12. ASSUME NEW j \in Jobs, CleanupDone(j) PROVE RunsInv'
  BY <1>12 DEF CleanupDone, Release
<1>13. ASSUME NEW j \in Jobs, CleanupFails(j) PROVE RunsInv'
  BY <1>13 DEF CleanupFails
<1>14. ASSUME NEW j \in Jobs, SweepCleanup(j) PROVE RunsInv'
  BY <1>14 DEF SweepCleanup
<1>15. ASSUME NEW j \in Jobs, ExpireStart(j) PROVE RunsInv'
  BY <1>15 DEF ExpireStart
<1>16. ASSUME NEW j \in Jobs, ExpireDone(j) PROVE RunsInv'
  BY <1>16 DEF ExpireDone
<1>17. ASSUME NEW j \in Jobs, ExpireFails(j) PROVE RunsInv'
  BY <1>17 DEF ExpireFails
<1>18. ASSUME NEW j \in Jobs, BootFails(j) PROVE RunsInv'
  BY <1>18 DEF BootFails, Reopened
<1>19. ASSUME NEW b \in BOOLEAN, WriteSettles(b) PROVE RunsInv'
  BY <1>19, TailFacts DEF WriteSettles, Resume, Release, AfterSave, OnSaved, OnSaveError, Saving
<1>20. ASSUME NEW h \in {"ready", "paused", "stopped"}, Apply(h) PROVE RunsInv'
  BY <1>20 DEF Apply
<1>21. ASSUME OtherStarts PROVE RunsInv'
  BY <1>21 DEF OtherStarts
<1>22. ASSUME OtherEnds PROVE RunsInv'
  BY <1>22 DEF OtherEnds
<1>23. ASSUME Crash PROVE RunsInv'
  BY <1>23 DEF Crash
<1>24. ASSUME NEW h \in {"ready", "paused", "stopped"}, Boot(h) PROVE RunsInv'
  BY <1>24 DEF Boot, Reopened, Statuses, Live, Terminal
<1>25. CASE UNCHANGED vars
  BY <1>25 DEF vars
<1> QED
  BY <1>1, <1>2, <1>3, <1>4, <1>5, <1>6, <1>7, <1>8, <1>9, <1>10, <1>11, <1>12, <1>13, <1>14, <1>15, <1>16, <1>17, <1>18, <1>19, <1>20, <1>21, <1>22, <1>23, <1>24, <1>25 DEF Next, Request, Activity, Sweep

\* An input is stored only while its job is uploading, and is gone before
\* `completed` is shown.
LEMMA InputStep == IInv /\ [Next]_vars => InputInv'
<1> SUFFICES ASSUME IInv, [Next]_vars PROVE InputInv'
  OBVIOUS
<1> USE DEF IInv, TypeOK, PhaseInv, InputInv, UnissuedInv, LaneExclusive, DownInv, jobVars, fileVars, Update, Persist, Goto
<1>1. ASSUME NEW j \in Jobs, NEW k \in Keys, CreateNew(j, k) PROVE InputInv'
  BY <1>1 DEF CreateNew, KeyInUse
<1>2. ASSUME NEW j \in Jobs, CreateAgain(j) PROVE InputInv'
  BY <1>2 DEF CreateAgain
<1>3. ASSUME NEW j \in Jobs, AnswerAgain(j) PROVE InputInv'
  BY <1>3 DEF AnswerAgain
<1>4. ASSUME NEW j \in Jobs, Upload(j) PROVE InputInv'
  BY <1>4 DEF Upload, AcceptsInput, CanAdmit
<1>5. ASSUME NEW j \in Jobs, Cancel(j) PROVE InputInv'
  BY <1>5 DEF Cancel, CancelsAtOnce
<1>6. ASSUME NEW j \in Jobs, StreamDone(j) PROVE InputInv'
  BY <1>6 DEF StreamDone
<1>7. ASSUME NEW j \in Jobs, StreamFails(j) PROVE InputInv'
  BY <1>7 DEF StreamFails
<1>8. ASSUME NEW j \in Jobs, ExecReturns(j) PROVE InputInv'
  BY <1>8 DEF ExecReturns
<1>9. ASSUME NEW j \in Jobs, ExecFails(j) PROVE InputInv'
  BY <1>9 DEF ExecFails
<1>10. ASSUME NEW j \in Jobs, NEW b \in BOOLEAN, Delete(j, b) PROVE InputInv'
  BY <1>10 DEF Delete, Publishes
<1>11. ASSUME NEW j \in Jobs, NEW b \in BOOLEAN, DropInput(j, b) PROVE InputInv'
  BY <1>11 DEF DropInput, EndStatus
<1>12. ASSUME NEW j \in Jobs, CleanupDone(j) PROVE InputInv'
  BY <1>12 DEF CleanupDone, Release
<1>13. ASSUME NEW j \in Jobs, CleanupFails(j) PROVE InputInv'
  BY <1>13 DEF CleanupFails
<1>14. ASSUME NEW j \in Jobs, SweepCleanup(j) PROVE InputInv'
  BY <1>14 DEF SweepCleanup
<1>15. ASSUME NEW j \in Jobs, ExpireStart(j) PROVE InputInv'
  BY <1>15 DEF ExpireStart
<1>16. ASSUME NEW j \in Jobs, ExpireDone(j) PROVE InputInv'
  BY <1>16 DEF ExpireDone
<1>17. ASSUME NEW j \in Jobs, ExpireFails(j) PROVE InputInv'
  BY <1>17 DEF ExpireFails
<1>18. ASSUME NEW j \in Jobs, BootFails(j) PROVE InputInv'
  BY <1>18 DEF BootFails, Reopened
<1>19. ASSUME NEW b \in BOOLEAN, WriteSettles(b) PROVE InputInv'
  BY <1>19, TailFacts DEF WriteSettles, Resume, Release, AfterSave, OnSaved, OnSaveError, Saving
<1>20. ASSUME NEW h \in {"ready", "paused", "stopped"}, Apply(h) PROVE InputInv'
  BY <1>20 DEF Apply
<1>21. ASSUME OtherStarts PROVE InputInv'
  BY <1>21 DEF OtherStarts
<1>22. ASSUME OtherEnds PROVE InputInv'
  BY <1>22 DEF OtherEnds
<1>23. ASSUME Crash PROVE InputInv'
  BY <1>23 DEF Crash
<1>24. ASSUME NEW h \in {"ready", "paused", "stopped"}, Boot(h) PROVE InputInv'
  BY <1>24 DEF Boot, Reopened
<1>25. CASE UNCHANGED vars
  BY <1>25 DEF vars
<1> QED
  BY <1>1, <1>2, <1>3, <1>4, <1>5, <1>6, <1>7, <1>8, <1>9, <1>10, <1>11, <1>12, <1>13, <1>14, <1>15, <1>16, <1>17, <1>18, <1>19, <1>20, <1>21, <1>22, <1>23, <1>24, <1>25 DEF Next, Request, Activity, Sweep

\* The strengthening is inductive.
LEMMA StepIInv == IInv /\ [Next]_vars => IInv'
  BY TypeStep, LaneStep, DownStep, UnissuedStep, QueueStep, PhaseStep, RunsStep,
     InputStep DEF IInv

\* The step formulas of the two action properties.
StaysEnded == \A j \in Jobs : status[j] \notin Live => status'[j] \notin Live
StaysAborted == \A j \in aborted : status[j] # "completed" => status'[j] # "completed"

\* A job leaves its end only for another end.
LEMMA RevivalStep == IInv /\ [Next]_vars => StaysEnded
<1> SUFFICES ASSUME IInv, [Next]_vars PROVE StaysEnded
  OBVIOUS
<1> USE DEF IInv, TypeOK, StaysEnded, PhaseInv, UnissuedInv, DownInv, jobVars, fileVars, Update, Persist, Goto, Live, Statuses, Terminal
<1>1. ASSUME NEW j \in Jobs, NEW k \in Keys, CreateNew(j, k) PROVE StaysEnded
  BY <1>1 DEF CreateNew
<1>2. ASSUME NEW j \in Jobs, CreateAgain(j) PROVE StaysEnded
  BY <1>2 DEF CreateAgain
<1>3. ASSUME NEW j \in Jobs, AnswerAgain(j) PROVE StaysEnded
  BY <1>3 DEF AnswerAgain
<1>4. ASSUME NEW j \in Jobs, Upload(j) PROVE StaysEnded
  BY <1>4 DEF Upload, AcceptsInput, CanAdmit
<1>5. ASSUME NEW j \in Jobs, Cancel(j) PROVE StaysEnded
  BY <1>5 DEF Cancel, CancelsAtOnce
<1>6. ASSUME NEW j \in Jobs, StreamDone(j) PROVE StaysEnded
  BY <1>6 DEF StreamDone
<1>7. ASSUME NEW j \in Jobs, StreamFails(j) PROVE StaysEnded
  BY <1>7 DEF StreamFails
<1>8. ASSUME NEW j \in Jobs, ExecReturns(j) PROVE StaysEnded
  BY <1>8 DEF ExecReturns
<1>9. ASSUME NEW j \in Jobs, ExecFails(j) PROVE StaysEnded
  BY <1>9 DEF ExecFails
<1>10. ASSUME NEW j \in Jobs, NEW b \in BOOLEAN, Delete(j, b) PROVE StaysEnded
  BY <1>10 DEF Delete, Publishes
<1>11. ASSUME NEW j \in Jobs, NEW b \in BOOLEAN, DropInput(j, b) PROVE StaysEnded
  BY <1>11 DEF DropInput, EndStatus
<1>12. ASSUME NEW j \in Jobs, CleanupDone(j) PROVE StaysEnded
  BY <1>12 DEF CleanupDone, Release
<1>13. ASSUME NEW j \in Jobs, CleanupFails(j) PROVE StaysEnded
  BY <1>13 DEF CleanupFails
<1>14. ASSUME NEW j \in Jobs, SweepCleanup(j) PROVE StaysEnded
  BY <1>14 DEF SweepCleanup
<1>15. ASSUME NEW j \in Jobs, ExpireStart(j) PROVE StaysEnded
  BY <1>15 DEF ExpireStart
<1>16. ASSUME NEW j \in Jobs, ExpireDone(j) PROVE StaysEnded
  BY <1>16 DEF ExpireDone
<1>17. ASSUME NEW j \in Jobs, ExpireFails(j) PROVE StaysEnded
  BY <1>17 DEF ExpireFails
<1>18. ASSUME NEW j \in Jobs, BootFails(j) PROVE StaysEnded
  BY <1>18 DEF BootFails
<1>19. ASSUME NEW b \in BOOLEAN, WriteSettles(b) PROVE StaysEnded
  BY <1>19 DEF WriteSettles
<1>20. ASSUME NEW h \in {"ready", "paused", "stopped"}, Apply(h) PROVE StaysEnded
  BY <1>20 DEF Apply
<1>21. ASSUME OtherStarts PROVE StaysEnded
  BY <1>21 DEF OtherStarts
<1>22. ASSUME OtherEnds PROVE StaysEnded
  BY <1>22 DEF OtherEnds
<1>23. ASSUME Crash PROVE StaysEnded
  BY <1>23 DEF Crash
<1>24. ASSUME NEW h \in {"ready", "paused", "stopped"}, Boot(h) PROVE StaysEnded
  BY <1>24 DEF Boot, Reopened
<1>25. CASE UNCHANGED vars
  BY <1>25 DEF vars
<1> QED
  BY <1>1, <1>2, <1>3, <1>4, <1>5, <1>6, <1>7, <1>8, <1>9, <1>10, <1>11, <1>12, <1>13, <1>14, <1>15, <1>16, <1>17, <1>18, <1>19, <1>20, <1>21, <1>22, <1>23, <1>24, <1>25 DEF Next, Request, Activity, Sweep

\* An aborted activity does not publish `completed`.
LEMMA AbortStep == IInv /\ [Next]_vars => StaysAborted
<1> SUFFICES ASSUME IInv, [Next]_vars PROVE StaysAborted
  OBVIOUS
<1> USE DEF IInv, TypeOK, StaysAborted, PhaseInv, UnissuedInv, DownInv, jobVars, fileVars, Update, Persist, Goto
<1>1. ASSUME NEW j \in Jobs, NEW k \in Keys, CreateNew(j, k) PROVE StaysAborted
  BY <1>1 DEF CreateNew
<1>2. ASSUME NEW j \in Jobs, CreateAgain(j) PROVE StaysAborted
  BY <1>2 DEF CreateAgain
<1>3. ASSUME NEW j \in Jobs, AnswerAgain(j) PROVE StaysAborted
  BY <1>3 DEF AnswerAgain
<1>4. ASSUME NEW j \in Jobs, Upload(j) PROVE StaysAborted
  BY <1>4 DEF Upload, AcceptsInput, CanAdmit
<1>5. ASSUME NEW j \in Jobs, Cancel(j) PROVE StaysAborted
  BY <1>5 DEF Cancel, CancelsAtOnce
<1>6. ASSUME NEW j \in Jobs, StreamDone(j) PROVE StaysAborted
  BY <1>6 DEF StreamDone
<1>7. ASSUME NEW j \in Jobs, StreamFails(j) PROVE StaysAborted
  BY <1>7 DEF StreamFails
<1>8. ASSUME NEW j \in Jobs, ExecReturns(j) PROVE StaysAborted
  BY <1>8 DEF ExecReturns
<1>9. ASSUME NEW j \in Jobs, ExecFails(j) PROVE StaysAborted
  BY <1>9 DEF ExecFails
<1>10. ASSUME NEW j \in Jobs, NEW b \in BOOLEAN, Delete(j, b) PROVE StaysAborted
  BY <1>10 DEF Delete, Publishes
<1>11. ASSUME NEW j \in Jobs, NEW b \in BOOLEAN, DropInput(j, b) PROVE StaysAborted
  BY <1>11 DEF DropInput, EndStatus
<1>12. ASSUME NEW j \in Jobs, CleanupDone(j) PROVE StaysAborted
  BY <1>12 DEF CleanupDone, Release
<1>13. ASSUME NEW j \in Jobs, CleanupFails(j) PROVE StaysAborted
  BY <1>13 DEF CleanupFails
<1>14. ASSUME NEW j \in Jobs, SweepCleanup(j) PROVE StaysAborted
  BY <1>14 DEF SweepCleanup
<1>15. ASSUME NEW j \in Jobs, ExpireStart(j) PROVE StaysAborted
  BY <1>15 DEF ExpireStart
<1>16. ASSUME NEW j \in Jobs, ExpireDone(j) PROVE StaysAborted
  BY <1>16 DEF ExpireDone
<1>17. ASSUME NEW j \in Jobs, ExpireFails(j) PROVE StaysAborted
  BY <1>17 DEF ExpireFails
<1>18. ASSUME NEW j \in Jobs, BootFails(j) PROVE StaysAborted
  BY <1>18 DEF BootFails
<1>19. ASSUME NEW b \in BOOLEAN, WriteSettles(b) PROVE StaysAborted
  BY <1>19 DEF WriteSettles
<1>20. ASSUME NEW h \in {"ready", "paused", "stopped"}, Apply(h) PROVE StaysAborted
  BY <1>20 DEF Apply
<1>21. ASSUME OtherStarts PROVE StaysAborted
  BY <1>21 DEF OtherStarts
<1>22. ASSUME OtherEnds PROVE StaysAborted
  BY <1>22 DEF OtherEnds
<1>23. ASSUME Crash PROVE StaysAborted
  BY <1>23 DEF Crash
<1>24. ASSUME NEW h \in {"ready", "paused", "stopped"}, Boot(h) PROVE StaysAborted
  BY <1>24 DEF Boot
<1>25. CASE UNCHANGED vars
  BY <1>25 DEF vars
<1> QED
  BY <1>1, <1>2, <1>3, <1>4, <1>5, <1>6, <1>7, <1>8, <1>9, <1>10, <1>11, <1>12, <1>13, <1>14, <1>15, <1>16, <1>17, <1>18, <1>19, <1>20, <1>21, <1>22, <1>23, <1>24, <1>25 DEF Next, Request, Activity, Sweep

-----------------------------------------------------------------------------
(* Theorems                                                                *)

\* The strengthening holds in every reachable state: the lane, the phases of an
\* activity, what memory shows, the input files and the write queue agree.
THEOREM InductiveInvariant == Spec => []IInv
<1>1. IInv /\ [Next]_vars => IInv'
  BY StepIInv
<1> QED
  BY InitIInv, <1>1, PTL DEF Spec

\* The state of the service keeps its types in every reachable state.
THEOREM TypeCorrect == Spec => []TypeOK
<1>1. IInv => TypeOK
  BY DEF IInv
<1> QED
  BY <1>1, InductiveInvariant, PTL

\* One heavy job at a time: an upload, run or cleanup in flight holds the lane,
\* and a job holds it no longer than that, whatever fails, aborts or crashes.
THEOREM OneLane == Spec => []LaneExclusive
<1>1. IInv => LaneExclusive
  BY DEF IInv
<1> QED
  BY <1>1, InductiveInvariant, PTL

\* An identity is executed at most once, across crashes, restarts and retries.
THEOREM AtMostOneExecution == Spec => []ExecutesOnce
<1>1. IInv => ExecutesOnce
  BY DEF IInv, RunsInv, ExecutesOnce
<1> QED
  BY <1>1, InductiveInvariant, PTL

\* No job is shown as ended while its worker may still be running.
THEOREM EndedIsEnded == Spec => []EndedNeverExecutes
<1>1. IInv => EndedNeverExecutes
  BY DEF IInv, TypeOK, PhaseInv, EndedNeverExecutes, Terminal
<1> QED
  BY <1>1, InductiveInvariant, PTL

\* A job shown as completed has left no input on the host's disk.
THEOREM CompletedLeavesNoInput == Spec => []CompletedInputGone
<1>1. IInv => CompletedInputGone
  BY DEF IInv, TypeOK, InputInv, CompletedInputGone
<1> QED
  BY <1>1, InductiveInvariant, PTL

\* A job that has ended, failed or not, never becomes live again while a client
\* can see it, and a restart does not revive it.
THEOREM EndedStaysEnded == Spec => NoRevival
<1>1. IInv /\ [Next]_vars => [StaysEnded]_vars
  BY RevivalStep
<1> QED
  BY <1>1, InductiveInvariant, PTL DEF Spec, NoRevival, StaysEnded

\* A cancel or pause that reached the activity before its result was published
\* wins over a completion that is still on its way.
THEOREM AbortWins == Spec => AbortedNeverCompletes
<1>1. IInv /\ [Next]_vars => [StaysAborted]_vars
  BY AbortStep
<1> QED
  BY <1>1, InductiveInvariant, PTL DEF Spec, AbortedNeverCompletes, StaysAborted
=============================================================================
