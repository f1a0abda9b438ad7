------------------------ MODULE WorkerJobsServiceProofs ------------------------
(***************************************************************************)
(* Theorems about the files, the write chain and the clients' knowledge of *)
(* the model host, and the proof that it implements JobService: for every  *)
(* set of jobs and keys, every capacity, failing unlinks or not, and every *)
(* crash.                                                                  *)
(***************************************************************************)
EXTENDS WorkerJobsService, WorkerJobsProofs

-----------------------------------------------------------------------------
(* The write chain                                                         *)

\* What a write adds to the chain, entry by entry.
LEMMA AppendAt ==
  ASSUME NEW q \in Seq(Writes), NEW j \in Jobs, NEW s \in Statuses, NEW w \in Waiters,
         NEW r, r = Append(q, Write(j, s, w))
  PROVE  /\ Len(q) \in Nat /\ Len(r) = Len(q) + 1
         /\ r[Len(r)] = Write(j, s, w)
         /\ r[Len(r)].job = j /\ r[Len(r)].st = s /\ r[Len(r)].waiter = w
         /\ \A i \in 1..Len(q) : r[i] = q[i]
         /\ \A i \in 1..Len(r) : i \in 1..Len(q) \/ i = Len(r)
<1>1. Write(j, s, w) \in Writes
  BY DEF Write, Writes
<1>2. /\ Len(q) \in Nat /\ Len(r) = Len(q) + 1
      /\ r[Len(r)] = Write(j, s, w)
      /\ \A i \in 1..Len(q) : r[i] = q[i]
  BY <1>1, AppendProperties, LenProperties
<1> QED
  BY <1>2 DEF Write

\* The fields of a pending write.
LEMMA EntryType ==
  ASSUME NEW q \in Seq(Writes), NEW i \in 1..Len(q)
  PROVE  q[i] \in Writes /\ q[i].job \in Jobs /\ q[i].st \in Statuses /\ q[i].waiter \in Waiters
<1>1. q[i] \in Writes
  BY ElementOfSeq
<1> QED
  BY <1>1 DEF Writes

\* Creating(j) by index.
LEMMA CreatingIndex ==
  ASSUME writes \in Seq(Writes), NEW j \in Jobs
  PROVE  Creating(j) <=> \E i \in 1..Len(writes) : writes[i].job = j /\ writes[i].waiter = "create"
  BY LenProperties DEF Creating

\* So is a job with a pending write.
LEMMA PendingIndex ==
  ASSUME writes \in Seq(Writes), NEW j \in Jobs
  PROVE  PendingWrite(j) <=> \E i \in 1..Len(writes) : writes[i].job = j
  BY LenProperties DEF PendingWrite

\* A process that is down has nothing pending.
LEMMA HaltedStep == SInv /\ [Next]_vars => HaltedInv'
<1> SUFFICES ASSUME SInv, [Next]_vars PROVE HaltedInv'
  OBVIOUS
<1> USE DEF SInv, IInv, TypeOK, HaltedInv, DownInv, jobVars, fileVars, Update, Persist, Goto
<1>1. ASSUME NEW j \in Jobs, NEW k \in Keys, CreateNew(j, k) PROVE HaltedInv'
  BY <1>1 DEF CreateNew, KeyInUse
<1>2. ASSUME NEW j \in Jobs, CreateAgain(j) PROVE HaltedInv'
  BY <1>2 DEF CreateAgain
<1>3. ASSUME NEW j \in Jobs, AnswerAgain(j) PROVE HaltedInv'
  BY <1>3 DEF AnswerAgain
<1>4. ASSUME NEW j \in Jobs, Upload(j) PROVE HaltedInv'
  BY <1>4 DEF Upload, AcceptsInput, CanAdmit
<1>5. ASSUME NEW j \in Jobs, Cancel(j) PROVE HaltedInv'
  BY <1>5 DEF Cancel, CancelsAtOnce
<1>6. ASSUME NEW j \in Jobs, StreamDone(j) PROVE HaltedInv'
  BY <1>6 DEF StreamDone
<1>7. ASSUME NEW j \in Jobs, StreamFails(j) PROVE HaltedInv'
  BY <1>7 DEF StreamFails
<1>8. ASSUME NEW j \in Jobs, ExecReturns(j) PROVE HaltedInv'
  BY <1>8 DEF ExecReturns
<1>9. ASSUME NEW j \in Jobs, ExecFails(j) PROVE HaltedInv'
  BY <1>9 DEF ExecFails
<1>10. ASSUME NEW j \in Jobs, NEW b \in BOOLEAN, Delete(j, b) PROVE HaltedInv'
  BY <1>10 DEF Delete, Publishes
<1>11. ASSUME NEW j \in Jobs, NEW b \in BOOLEAN, DropInput(j, b) PROVE HaltedInv'
  BY <1>11 DEF DropInput, EndStatus
<1>12. ASSUME NEW j \in Jobs, CleanupDone(j) PROVE HaltedInv'
  BY <1>12 DEF CleanupDone, Release
<1>13. ASSUME NEW j \in Jobs, CleanupFails(j) PROVE HaltedInv'
  BY <1>13 DEF CleanupFails
<1>14. ASSUME NEW j \in Jobs, SweepCleanup(j) PROVE HaltedInv'
  BY <1>14 DEF SweepCleanup
<1>15. ASSUME NEW j \in Jobs, ExpireStart(j) PROVE HaltedInv'
  BY <1>15 DEF ExpireStart
<1>16. ASSUME NEW j \in Jobs, ExpireDone(j) PROVE HaltedInv'
  BY <1>16 DEF ExpireDone
<1>17. ASSUME NEW j \in Jobs, ExpireFails(j) PROVE HaltedInv'
  BY <1>17 DEF ExpireFails
<1>18. ASSUME NEW j \in Jobs, BootFails(j) PROVE HaltedInv'
  BY <1>18 DEF BootFails, Reopened
<1>19. ASSUME NEW b \in BOOLEAN, WriteSettles(b) PROVE HaltedInv'
  BY <1>19 DEF WriteSettles
<1>20. ASSUME NEW h \in {"ready", "paused", "stopped"}, Apply(h) PROVE HaltedInv'
  BY <1>20 DEF Apply
<1>21. ASSUME OtherStarts PROVE HaltedInv'
  BY <1>21 DEF OtherStarts, CanAdmit
<1>22. ASSUME OtherEnds PROVE HaltedInv'
  BY <1>22 DEF OtherEnds
<1>23. ASSUME Crash PROVE HaltedInv'
  BY <1>23 DEF Crash
<1>24. ASSUME NEW h \in {"ready", "paused", "stopped"}, Boot(h) PROVE HaltedInv'
  BY <1>24 DEF Boot, Reopened
<1>25. CASE UNCHANGED vars
  BY <1>25 DEF vars
<1> QED
  BY <1>1, <1>2, <1>3, <1>4, <1>5, <1>6, <1>7, <1>8, <1>9, <1>10, <1>11, <1>12, <1>13, <1>14, <1>15, <1>16, <1>17, <1>18, <1>19, <1>20, <1>21, <1>22, <1>23, <1>24, <1>25 DEF Next, Request, Activity, Sweep


\* What a step may do to the write chain and to the statuses it carries.
Chained ==
  \/ writes' = <<>>
  \/ writes' = writes /\ status' = status
  \/ \E j \in Jobs, w \in Waiters :
       /\ status'[j] \in Statuses
       /\ writes' = Append(writes, Write(j, status'[j], w))
       /\ \A i \in Jobs : i # j => status'[i] = status[i]
  \/ writes # <<>> /\ writes' = Tail(writes) /\ status' = status

\* Every step changes the chain at one end, with the status memory shows.
LEMMA ChainStep == SInv /\ [Next]_vars => Chained
<1> SUFFICES ASSUME SInv, [Next]_vars PROVE Chained
  OBVIOUS
<1> USE DEF SInv, IInv, TypeOK, HaltedInv, jobVars, fileVars, Update, Persist, Goto, Statuses, Live, Terminal, Waiters
<1>1. ASSUME NEW j \in Jobs, NEW k \in Keys, CreateNew(j, k) PROVE Chained
  <2>1. /\ status' = [status EXCEPT ![j] = "awaiting-upload"]
        /\ writes' = Append(writes, Write(j, "awaiting-upload", "create"))
        /\ "awaiting-upload" \in Statuses
    BY <1>1 DEF Chained, CreateNew
  <2>2. status'[j] = "awaiting-upload" /\ \A i \in Jobs : i # j => status'[i] = status[i]
    BY <2>1
  <2> QED
    BY <2>1, <2>2 DEF Chained
<1>2. ASSUME NEW j \in Jobs, CreateAgain(j) PROVE Chained
  BY <1>2 DEF Chained, CreateAgain
<1>3. ASSUME NEW j \in Jobs, AnswerAgain(j) PROVE Chained
  BY <1>3 DEF Chained, AnswerAgain
<1>4. ASSUME NEW j \in Jobs, Upload(j) PROVE Chained
  <2>1. /\ status' = [status EXCEPT ![j] = "uploading"]
        /\ writes' = Append(writes, Write(j, "uploading", "activity"))
        /\ "uploading" \in Statuses
    BY <1>4 DEF Chained, Upload
  <2>2. status'[j] = "uploading" /\ \A i \in Jobs : i # j => status'[i] = status[i]
    BY <2>1
  <2> QED
    BY <2>1, <2>2 DEF Chained
<1>5. ASSUME NEW j \in Jobs, Cancel(j) PROVE Chained
  <2>1. CASE CancelsAtOnce(j)
    <3>1. /\ status' = [status EXCEPT ![j] = "cancelled"]
          /\ writes' = Append(writes, Write(j, "cancelled", "none"))
      BY <1>5, <2>1 DEF Cancel
    <3>2. status'[j] = "cancelled" /\ \A i \in Jobs : i # j => status'[i] = status[i]
      BY <3>1
    <3> QED
      BY <3>1, <3>2 DEF Chained
  <2>2. CASE ~CancelsAtOnce(j)
    BY <1>5, <2>2 DEF Cancel, Chained
  <2> QED
    BY <2>1, <2>2
<1>6. ASSUME NEW j \in Jobs, StreamDone(j) PROVE Chained
  <2>1. /\ status' = [status EXCEPT ![j] = "running"]
        /\ writes' = Append(writes, Write(j, "running", "activity"))
        /\ "running" \in Statuses
    BY <1>6 DEF Chained, StreamDone
  <2>2. status'[j] = "running" /\ \A i \in Jobs : i # j => status'[i] = status[i]
    BY <2>1
  <2> QED
    BY <2>1, <2>2 DEF Chained
<1>7. ASSUME NEW j \in Jobs, StreamFails(j) PROVE Chained
  BY <1>7 DEF Chained, StreamFails
<1>8. ASSUME NEW j \in Jobs, ExecReturns(j) PROVE Chained
  BY <1>8 DEF Chained, ExecReturns
<1>9. ASSUME NEW j \in Jobs, ExecFails(j) PROVE Chained
  BY <1>9 DEF Chained, ExecFails
<1>10. ASSUME NEW j \in Jobs, NEW b \in BOOLEAN, Delete(j, b) PROVE Chained
  <2>1. CASE Publishes(j, b)
    <3>1. /\ status' = [status EXCEPT ![j] = "completed"]
          /\ writes' = Append(writes, Write(j, "completed", "activity"))
      BY <1>10, <2>1 DEF Delete
    <3>2. status'[j] = "completed" /\ \A i \in Jobs : i # j => status'[i] = status[i]
      BY <3>1
    <3> QED
      BY <3>1, <3>2 DEF Chained
  <2>2. CASE ~Publishes(j, b)
    BY <1>10, <2>2 DEF Delete, Chained
  <2> QED
    BY <2>1, <2>2
<1>11. ASSUME NEW j \in Jobs, NEW b \in BOOLEAN, DropInput(j, b) PROVE Chained
  <2>1. /\ status' = [status EXCEPT ![j] = EndStatus(j)]
        /\ writes' = Append(writes, Write(j, EndStatus(j), "activity"))
        /\ EndStatus(j) \in Statuses
    BY <1>11 DEF Chained, DropInput, EndStatus
  <2>2. status'[j] = EndStatus(j) /\ \A i \in Jobs : i # j => status'[i] = status[i]
    BY <2>1
  <2> QED
    BY <2>1, <2>2 DEF Chained
<1>12. ASSUME NEW j \in Jobs, CleanupDone(j) PROVE Chained
  BY <1>12 DEF Chained, CleanupDone, Release
<1>13. ASSUME NEW j \in Jobs, CleanupFails(j) PROVE Chained
  <2>1. /\ status' = [status EXCEPT ![j] = "cleanup-failed"]
        /\ writes' = Append(writes, Write(j, "cleanup-failed", "activity"))
        /\ "cleanup-failed" \in Statuses
    BY <1>13 DEF Chained, CleanupFails
  <2>2. status'[j] = "cleanup-failed" /\ \A i \in Jobs : i # j => status'[i] = status[i]
    BY <2>1
  <2> QED
    BY <2>1, <2>2 DEF Chained
<1>14. ASSUME NEW j \in Jobs, SweepCleanup(j) PROVE Chained
  <2>1. /\ status' = [status EXCEPT ![j] = "failed"]
        /\ writes' = Append(writes, Write(j, "failed", "none"))
        /\ "failed" \in Statuses
    BY <1>14 DEF Chained, SweepCleanup
  <2>2. status'[j] = "failed" /\ \A i \in Jobs : i # j => status'[i] = status[i]
    BY <2>1
  <2> QED
    BY <2>1, <2>2 DEF Chained
<1>15. ASSUME NEW j \in Jobs, ExpireStart(j) PROVE Chained
  BY <1>15 DEF Chained, ExpireStart
<1>16. ASSUME NEW j \in Jobs, ExpireDone(j) PROVE Chained
  BY <1>16 DEF Chained, ExpireDone
<1>17. ASSUME NEW j \in Jobs, ExpireFails(j) PROVE Chained
  BY <1>17 DEF Chained, ExpireFails
<1>18. ASSUME NEW j \in Jobs, BootFails(j) PROVE Chained
  BY <1>18 DEF Chained, BootFails, Reopened
<1>19. ASSUME NEW b \in BOOLEAN, WriteSettles(b) PROVE Chained
  BY <1>19 DEF Chained, WriteSettles
<1>20. ASSUME NEW h \in {"ready", "paused", "stopped"}, Apply(h) PROVE Chained
  BY <1>20 DEF Chained, Apply
<1>21. ASSUME OtherStarts PROVE Chained
  BY <1>21 DEF Chained, OtherStarts, CanAdmit
<1>22. ASSUME OtherEnds PROVE Chained
  BY <1>22 DEF Chained, OtherEnds
<1>23. ASSUME Crash PROVE Chained
  BY <1>23 DEF Chained, Crash
<1>24. ASSUME NEW h \in {"ready", "paused", "stopped"}, Boot(h) PROVE Chained
  BY <1>24 DEF Chained, Boot, Reopened
<1>25. CASE UNCHANGED vars
  BY <1>25 DEF Chained, vars
<1> QED
  BY <1>1, <1>2, <1>3, <1>4, <1>5, <1>6, <1>7, <1>8, <1>9, <1>10, <1>11, <1>12, <1>13, <1>14, <1>15, <1>16, <1>17, <1>18, <1>19, <1>20, <1>21, <1>22, <1>23, <1>24, <1>25 DEF Next, Request, Activity, Sweep

\* The last pending write of each job stays its status.
LEMMA LastWriteStep == SInv /\ [Next]_vars => LastWriteInv'
<1> SUFFICES ASSUME SInv, [Next]_vars PROVE LastWriteInv'
  OBVIOUS
<1> USE DEF SInv
<1>q. writes \in Seq(Writes) /\ Len(writes) \in Nat
  BY LenProperties DEF IInv, TypeOK
<1>1. CASE writes' = <<>>
  BY <1>1, EmptyQueue DEF LastWriteInv
<1>2. CASE writes' = writes /\ status' = status
  BY <1>2 DEF LastWriteInv
<1>3. ASSUME NEW j \in Jobs, NEW w \in Waiters, status'[j] \in Statuses,
             writes' = Append(writes, Write(j, status'[j], w)),
             \A i \in Jobs : i # j => status'[i] = status[i]
      PROVE  LastWriteInv'
  <2>1. /\ Len(writes') = Len(writes) + 1
        /\ writes'[Len(writes')].job = j /\ writes'[Len(writes')].st = status'[j]
        /\ \A i \in 1..Len(writes) : writes'[i] = writes[i]
        /\ \A i \in 1..Len(writes') : i \in 1..Len(writes) \/ i = Len(writes')
    BY <1>q, <1>3, AppendAt
  <2>2. ASSUME NEW x \in Jobs, NEW i \in 1..Len(writes'), writes'[i].job = x,
               \A n \in 1..Len(writes') : n > i => writes'[n].job # x
        PROVE  writes'[i].st = status'[x]
    <3>1. CASE i = Len(writes')
      BY <2>1, <2>2, <3>1
    <3>2. CASE i \in 1..Len(writes)
      <4>1. x # j
        BY <1>q, <2>1, <2>2, <3>2
      <4>2. \A n \in 1..Len(writes) : n > i => writes[n].job # x
        BY <1>q, <2>1, <2>2
      <4> QED
        BY <1>3, <2>1, <2>2, <3>2, <4>1, <4>2 DEF LastWriteInv
    <3> QED
      BY <2>1, <3>1, <3>2
  <2> QED
    BY <2>2 DEF LastWriteInv
<1>4. CASE writes # <<>> /\ writes' = Tail(writes) /\ status' = status
  <2>1. /\ Len(writes') = Len(writes) - 1
        /\ \A i \in 1..Len(writes') : i + 1 \in 1..Len(writes) /\ writes'[i] = writes[i + 1]
    BY <1>q, <1>4, HeadTailProperties, TailFacts
  <2>2. ASSUME NEW x \in Jobs, NEW i \in 1..Len(writes'), writes'[i].job = x,
               \A n \in 1..Len(writes') : n > i => writes'[n].job # x
        PROVE  writes'[i].st = status'[x]
    <3>1. i + 1 \in 1..Len(writes) /\ writes[i + 1].job = x
      BY <2>1, <2>2
    <3>2. ASSUME NEW n \in 1..Len(writes), n > i + 1 PROVE writes[n].job # x
      <4>1. n - 1 \in 1..Len(writes') /\ n - 1 > i /\ (n - 1) + 1 = n
        BY <1>q, <2>1, <3>2
      <4> QED
        BY <2>1, <2>2, <4>1
    <3> QED
      BY <1>4, <2>1, <3>1, <3>2 DEF LastWriteInv
  <2> QED
    BY <2>2 DEF LastWriteInv
<1> QED
  BY <1>1, <1>2, <1>3, <1>4, ChainStep DEF Chained

-----------------------------------------------------------------------------
(* Files and the clients' knowledge                                        *)

\* A chained write leaves who is being created as it was, but for its own job.
LEMMA CreatingAppend ==
  ASSUME writes \in Seq(Writes), NEW j \in Jobs, NEW s \in Statuses, NEW w \in Waiters,
         writes' = Append(writes, Write(j, s, w))
  PROVE  \A i \in Jobs : Creating(i)' <=> Creating(i) \/ (i = j /\ w = "create")
<1>1. /\ Len(writes) \in Nat /\ Len(writes') = Len(writes) + 1
      /\ writes'[Len(writes')].job = j /\ writes'[Len(writes')].waiter = w
      /\ \A i \in 1..Len(writes) : writes'[i] = writes[i]
      /\ \A i \in 1..Len(writes') : i \in 1..Len(writes) \/ i = Len(writes')
  BY AppendAt
<1>2. DOMAIN writes = 1..Len(writes) /\ DOMAIN writes' = 1..Len(writes')
  <2>1. writes' \in Seq(Writes)
    BY AppendFacts
  <2> QED
    BY <2>1, LenProperties
<1> QED
  BY <1>1, <1>2 DEF Creating

\* The chain without its head.
LEMMA TailAt ==
  ASSUME NEW q \in Seq(Writes), q # <<>>, NEW r, r = Tail(q)
  PROVE  /\ r \in Seq(Writes)
         /\ Len(q) \in Nat /\ Len(r) \in Nat /\ Len(q) = Len(r) + 1
         /\ DOMAIN q = 1..Len(q) /\ DOMAIN r = 1..Len(r)
         /\ Head(q) = q[1] /\ 1 \in 1..Len(q)
         /\ Head(q).job \in Jobs /\ Head(q).st \in Statuses
         /\ \A i \in 1..Len(r) : i + 1 \in 1..Len(q) /\ i + 1 # 1 /\ r[i] = q[i + 1]
         /\ \A i \in 1..Len(q) : i = 1 \/ (i - 1 \in 1..Len(r) /\ r[i - 1] = q[i])
<1>1. /\ r \in Seq(Writes) /\ Len(r) = Len(q) - 1
      /\ \A i \in 1..Len(r) : r[i] = q[i + 1]
  BY HeadTailProperties
<1>2. Len(q) \in Nat /\ Len(r) \in Nat /\ DOMAIN q = 1..Len(q) /\ DOMAIN r = 1..Len(r)
  BY <1>1, LenProperties
<1>3. /\ Head(q) = q[1] /\ 1 \in 1..Len(q)
      /\ Head(q).job \in Jobs /\ Head(q).st \in Statuses
  BY TailFacts
<1>4. \A i \in 1..Len(q) : i = 1 \/ (i - 1 \in 1..Len(r) /\ (i - 1) + 1 = i)
  BY <1>1, <1>2
<1> QED
  BY <1>1, <1>2, <1>3, <1>4

\* Settling the head ends at most the creation it was.
LEMMA CreatingTail ==
  ASSUME writes \in Seq(Writes), writes # <<>>, writes' = Tail(writes), NEW i \in Jobs
  PROVE  /\ Creating(i)' => Creating(i)
         /\ Creating(i) => Creating(i)' \/ (Head(writes).job = i /\ Head(writes).waiter = "create")
<1>1. /\ DOMAIN writes = 1..Len(writes) /\ DOMAIN writes' = 1..Len(writes')
      /\ Head(writes) = writes[1]
      /\ \A n \in 1..Len(writes') : n + 1 \in 1..Len(writes) /\ writes'[n] = writes[n + 1]
      /\ \A n \in 1..Len(writes) : n = 1 \/ (n - 1 \in 1..Len(writes') /\ writes'[n - 1] = writes[n])
  BY TailAt
<1>2. ASSUME Creating(i)' PROVE Creating(i)
  <2>1. PICK n \in 1..Len(writes') : writes'[n].job = i /\ writes'[n].waiter = "create"
    BY <1>1, <1>2 DEF Creating
  <2> QED
    BY <1>1, <2>1 DEF Creating
<1>3. ASSUME Creating(i), ~(Head(writes).job = i /\ Head(writes).waiter = "create") PROVE Creating(i)'
  <2>1. PICK n \in 1..Len(writes) : writes[n].job = i /\ writes[n].waiter = "create"
    BY <1>1, <1>3 DEF Creating
  <2>2. n - 1 \in 1..Len(writes') /\ writes'[n - 1] = writes[n]
    BY <1>1, <1>3, <2>1
  <2> QED
    BY <1>1, <2>1, <2>2 DEF Creating
<1> QED
  BY <1>2, <1>3

\* A job whose creation is pending is in memory and not yet known.
LEMMA CreatingFacts ==
  ASSUME TypeOK, PendingInv, NEW j \in Jobs, Creating(j)
  PROVE  j \in mem \ known
<1>1. PICK i \in 1..Len(writes) : writes[i].job = j /\ writes[i].waiter = "create"
  BY CreatingIndex DEF TypeOK
<1> QED
  BY <1>1 DEF PendingInv

\* A job in memory is being created or known, a known one has its file, and what
\* a client does not know has done nothing.
LEMMA KnownStep == SInv /\ [Next]_vars => KnownInv'
<1> SUFFICES ASSUME SInv, [Next]_vars PROVE KnownInv'
  OBVIOUS
<1> USE DEF SInv, IInv, TypeOK, HaltedInv, DownInv, UnissuedInv, PhaseInv, KnownInv, EndPhaseInv, jobVars, fileVars, Update, Persist, Goto, Statuses, Live, Terminal, Waiters
<1>1. ASSUME NEW j \in Jobs, NEW k \in Keys, CreateNew(j, k) PROVE KnownInv'
  <2>1. \A i \in Jobs : Creating(i)' <=> Creating(i) \/ (i = j /\ "create" = "create")
    BY <1>1, CreatingAppend DEF CreateNew
  <2> QED
    BY <1>1, <2>1 DEF CreateNew
<1>2. ASSUME NEW j \in Jobs, CreateAgain(j) PROVE KnownInv'
  BY <1>2 DEF Creating, CreateAgain
<1>3. ASSUME NEW j \in Jobs, AnswerAgain(j) PROVE KnownInv'
  <2>1. \A i \in Jobs : Creating(i)' <=> Creating(i)
    BY <1>3 DEF AnswerAgain, Creating
  <2> QED
    BY <1>3, <2>1 DEF AnswerAgain
<1>4. ASSUME NEW j \in Jobs, Upload(j) PROVE KnownInv'
  <2>1. \A i \in Jobs : Creating(i)' <=> Creating(i) \/ (i = j /\ "activity" = "create")
    BY <1>4, CreatingAppend DEF Upload
  <2> QED
    BY <1>4, <2>1 DEF Upload, AcceptsInput
<1>5. ASSUME NEW j \in Jobs, Cancel(j) PROVE KnownInv'
  <2>1. CASE CancelsAtOnce(j)
    <3>1. \A i \in Jobs : Creating(i)' <=> Creating(i) \/ (i = j /\ "none" = "create")
      BY <1>5, <2>1, CreatingAppend DEF Cancel
    <3> QED
      BY <1>5, <2>1, <3>1 DEF Cancel, CancelsAtOnce
  <2>2. CASE ~CancelsAtOnce(j)
    BY <1>5, <2>2 DEF Cancel, Creating
  <2> QED
    BY <2>1, <2>2
<1>6. ASSUME NEW j \in Jobs, StreamDone(j) PROVE KnownInv'
  <2>1. \A i \in Jobs : Creating(i)' <=> Creating(i) \/ (i = j /\ "activity" = "create")
    BY <1>6, CreatingAppend DEF StreamDone
  <2> QED
    BY <1>6, <2>1 DEF StreamDone
<1>7. ASSUME NEW j \in Jobs, StreamFails(j) PROVE KnownInv'
  BY <1>7 DEF Creating, StreamFails
<1>8. ASSUME NEW j \in Jobs, ExecReturns(j) PROVE KnownInv'
  BY <1>8 DEF Creating, ExecReturns
<1>9. ASSUME NEW j \in Jobs, ExecFails(j) PROVE KnownInv'
  BY <1>9 DEF Creating, ExecFails
<1>10. ASSUME NEW j \in Jobs, NEW b \in BOOLEAN, Delete(j, b) PROVE KnownInv'
  <2>1. CASE Publishes(j, b)
    <3>1. \A i \in Jobs : Creating(i)' <=> Creating(i) \/ (i = j /\ "activity" = "create")
      BY <1>10, <2>1, CreatingAppend DEF Delete
    <3> QED
      BY <1>10, <2>1, <3>1 DEF Delete
  <2>2. CASE ~Publishes(j, b)
    BY <1>10, <2>2 DEF Delete, Creating
  <2> QED
    BY <2>1, <2>2
<1>11. ASSUME NEW j \in Jobs, NEW b \in BOOLEAN, DropInput(j, b) PROVE KnownInv'
  <2>0. EndStatus(j) \in Statuses
    BY EndStatusType
  <2>1. \A i \in Jobs : Creating(i)' <=> Creating(i) \/ (i = j /\ "activity" = "create")
    BY <1>11, <2>0, CreatingAppend DEF DropInput
  <2> QED
    BY <1>11, <2>1 DEF DropInput, EndStatus
<1>12. ASSUME NEW j \in Jobs, CleanupDone(j) PROVE KnownInv'
  BY <1>12 DEF Creating, CleanupDone, Release
<1>13. ASSUME NEW j \in Jobs, CleanupFails(j) PROVE KnownInv'
  <2>1. \A i \in Jobs : Creating(i)' <=> Creating(i) \/ (i = j /\ "activity" = "create")
    BY <1>13, CreatingAppend DEF CleanupFails
  <2> QED
    BY <1>13, <2>1 DEF CleanupFails
<1>14. ASSUME NEW j \in Jobs, SweepCleanup(j) PROVE KnownInv'
  <2>1. \A i \in Jobs : Creating(i)' <=> Creating(i) \/ (i = j /\ "none" = "create")
    BY <1>14, CreatingAppend DEF SweepCleanup
  <2> QED
    BY <1>14, <2>1 DEF SweepCleanup
<1>15. ASSUME NEW j \in Jobs, ExpireStart(j) PROVE KnownInv'
  <2>1. ~Creating(j)
    BY <1>15 DEF Creating, ExpireStart, PendingWrite, Creating
  <2> QED
    BY <1>15, <2>1 DEF ExpireStart, Creating
<1>16. ASSUME NEW j \in Jobs, ExpireDone(j) PROVE KnownInv'
  BY <1>16 DEF Creating, ExpireDone
<1>17. ASSUME NEW j \in Jobs, ExpireFails(j) PROVE KnownInv'
  BY <1>17 DEF Creating, ExpireFails
<1>18. ASSUME NEW j \in Jobs, BootFails(j) PROVE KnownInv'
  BY <1>18 DEF Creating, BootFails, Reopened
<1>19. ASSUME NEW b \in BOOLEAN, WriteSettles(b) PROVE KnownInv'
  <2> DEFINE w == Head(writes)
  <2>1. w.job \in Jobs /\ w.st \in Statuses /\ w.job \in mem /\ (w.waiter = "create" <=> w.job \notin known)
    BY <1>19, TailAt DEF WriteSettles, PendingInv
  <2>2. \A i \in Jobs : /\ Creating(i)' => Creating(i)
                        /\ Creating(i) => Creating(i)' \/ (w.job = i /\ w.waiter = "create")
    BY <1>19, CreatingTail DEF WriteSettles
  <2>3. /\ UNCHANGED <<up, key, status, removing>>
        /\ disk' = IF b THEN [disk EXCEPT ![w.job] = w.st] ELSE disk
        /\ mem' = IF w.waiter = "create" /\ ~b THEN mem \ {w.job} ELSE mem
        /\ known' = IF w.waiter = "create" /\ b THEN known \cup {w.job} ELSE known
    BY <1>19 DEF Creating, WriteSettles
  <2>4. \A i \in Jobs : pc[i] = "idle" => pc'[i] = "idle"
    <3>1. CASE w.waiter = "activity" /\ pc[w.job] \in Saving
      BY <1>19, <2>1, <3>1 DEF WriteSettles, Resume, Release, Saving
    <3>2. CASE ~(w.waiter = "activity" /\ pc[w.job] \in Saving)
      BY <1>19, <3>2 DEF WriteSettles
    <3> QED
      BY <3>1, <3>2
  <2>5. \A i \in mem : i \in known \/ Creating(i)
    OBVIOUS
  <2> QED
    BY <2>1, <2>2, <2>3, <2>4
<1>20. ASSUME NEW h \in {"ready", "paused", "stopped"}, Apply(h) PROVE KnownInv'
  BY <1>20 DEF Creating, Apply
<1>21. ASSUME OtherStarts PROVE KnownInv'
  BY <1>21 DEF Creating, OtherStarts, CanAdmit
<1>22. ASSUME OtherEnds PROVE KnownInv'
  BY <1>22 DEF Creating, OtherEnds
<1>23. ASSUME Crash PROVE KnownInv'
  BY <1>23 DEF Creating, Crash
<1>24. ASSUME NEW h \in {"ready", "paused", "stopped"}, Boot(h) PROVE KnownInv'
  BY <1>24 DEF Creating, Boot, Reopened
<1>25. CASE UNCHANGED vars
  BY <1>25 DEF Creating, vars
<1> QED
  BY <1>1, <1>2, <1>3, <1>4, <1>5, <1>6, <1>7, <1>8, <1>9, <1>10, <1>11, <1>12, <1>13, <1>14, <1>15, <1>16, <1>17, <1>18, <1>19, <1>20, <1>21, <1>22, <1>23, <1>24, <1>25 DEF Next, Request, Activity, Sweep

-----------------------------------------------------------------------------
(* Pending writes                                                          *)

\* A write chained for a job in memory, by the activity that now awaits it or by
\* a handler that awaits none, keeps the chain as PendingInv says.
LEMMA PendingAppend ==
  ASSUME TypeOK, PendingInv,
         NEW j \in Jobs, NEW s \in Statuses, NEW w \in Waiters,
         writes' = Append(writes, Write(j, s, w)),
         mem \subseteq mem', j \in mem', known' = known,
         w = "create" <=> j \notin known,
         w = "create" => j \notin mem,
         w = "activity" => pc[j] \notin Saving /\ pc'[j] \in Saving,
         w # "activity" => pc'[j] = pc[j],
         \A i \in Jobs : i # j => pc'[i] = pc[i]
  PROVE  PendingInv'
<1>1. /\ Len(writes) \in Nat /\ Len(writes') = Len(writes) + 1
      /\ writes'[Len(writes')].job = j /\ writes'[Len(writes')].waiter = w
      /\ \A i \in 1..Len(writes) : writes'[i] = writes[i]
      /\ \A i \in 1..Len(writes') : i \in 1..Len(writes) \/ i = Len(writes')
  BY AppendAt DEF TypeOK
<1>2. \A i \in 1..Len(writes) : writes[i].job \in Jobs
  BY EntryType DEF TypeOK
<1>3. ASSUME NEW i \in 1..Len(writes')
      PROVE  /\ writes'[i].job \in mem'
             /\ writes'[i].waiter = "create" <=> writes'[i].job \notin known'
             /\ writes'[i].waiter = "activity" => pc'[writes'[i].job] \in Saving
  <2>1. CASE i = Len(writes')
    BY <1>1, <2>1
  <2>2. CASE i \in 1..Len(writes)
    BY <1>1, <1>2, <2>2 DEF PendingInv
  <2> QED
    BY <1>1, <2>1, <2>2
<1>4. \A i \in 1..Len(writes) : writes[i].job = j /\ writes[i].waiter = w => w = "none"
  BY DEF PendingInv, Waiters
<1>5. ASSUME NEW i \in 1..Len(writes'), NEW n \in 1..Len(writes'),
             writes'[i].job = writes'[n].job, writes'[i].waiter = writes'[n].waiter, i # n
      PROVE  writes'[i].waiter = "none"
  <2>1. CASE i \in 1..Len(writes) /\ n \in 1..Len(writes)
    BY <1>1, <1>5, <2>1 DEF PendingInv
  <2>2. CASE i = Len(writes') /\ n \in 1..Len(writes)
    BY <1>1, <1>4, <1>5, <2>2
  <2>3. CASE i \in 1..Len(writes) /\ n = Len(writes')
    BY <1>1, <1>4, <1>5, <2>3
  <2> QED
    BY <1>1, <1>5, <2>1, <2>2, <2>3
<1> QED
  BY <1>3, <1>5 DEF PendingInv

\* Every pending write is of a job in memory, and each job has at most one that its
\* creation or its activity awaits.
LEMMA PendingStep == SInv /\ [Next]_vars => PendingInv'
<1> SUFFICES ASSUME SInv, [Next]_vars PROVE PendingInv'
  OBVIOUS
<1> USE DEF SInv, IInv, TypeOK, HaltedInv, DownInv, UnissuedInv, PhaseInv, KnownInv, EndPhaseInv, jobVars, fileVars, Update, Persist, Goto, Statuses, Live, Terminal, Waiters, Saving
<1>1. ASSUME NEW j \in Jobs, NEW k \in Keys, CreateNew(j, k) PROVE PendingInv'
  <2>1. writes' = Append(writes, Write(j, "awaiting-upload", "create"))
    BY <1>1 DEF CreateNew
  <2>2. j \notin mem /\ j \notin known
    BY <1>1 DEF CreateNew
  <2> QED
    BY <1>1, <2>1, <2>2, PendingAppend DEF CreateNew
<1>2. ASSUME NEW j \in Jobs, CreateAgain(j) PROVE PendingInv'
  BY <1>2 DEF PendingInv, CreateAgain
<1>3. ASSUME NEW j \in Jobs, AnswerAgain(j) PROVE PendingInv'
  <2>1. known' = known
    BY <1>3, CreatingIndex DEF AnswerAgain
  <2> QED
    BY <1>3, <2>1 DEF AnswerAgain, PendingInv
<1>4. ASSUME NEW j \in Jobs, Upload(j) PROVE PendingInv'
  <2>1. writes' = Append(writes, Write(j, "uploading", "activity"))
    BY <1>4 DEF Upload, AcceptsInput, CanAdmit, LaneExclusive
  <2>2. j \in known /\ j \in mem'
    BY <1>4 DEF Upload, AcceptsInput, CanAdmit, LaneExclusive
  <2> QED
    BY <1>4, <2>1, <2>2, PendingAppend DEF Upload, AcceptsInput, CanAdmit, LaneExclusive
<1>5. ASSUME NEW j \in Jobs, Cancel(j) PROVE PendingInv'
  <2>1. CASE CancelsAtOnce(j)
    <3>1. writes' = Append(writes, Write(j, "cancelled", "none")) /\ j \in known /\ j \in mem
      BY <1>5, <2>1 DEF Cancel
    <3> QED
      BY <1>5, <2>1, <3>1, PendingAppend DEF Cancel
  <2>2. CASE ~CancelsAtOnce(j)
    BY <1>5, <2>2 DEF Cancel, PendingInv
  <2> QED
    BY <2>1, <2>2
<1>6. ASSUME NEW j \in Jobs, StreamDone(j) PROVE PendingInv'
  <2>1. writes' = Append(writes, Write(j, "running", "activity"))
    BY <1>6 DEF StreamDone
  <2>2. j \in known /\ j \in mem'
    BY <1>6 DEF StreamDone
  <2> QED
    BY <1>6, <2>1, <2>2, PendingAppend DEF StreamDone
<1>7. ASSUME NEW j \in Jobs, StreamFails(j) PROVE PendingInv'
  <2>1. writes' = writes /\ mem' = mem /\ known' = known
    BY <1>7 DEF StreamFails
  <2>2. \A i \in Jobs : pc[i] \in Saving => pc'[i] \in Saving
    BY <1>7 DEF StreamFails, Release
  <2> QED
    BY <2>1, <2>2, EntryType DEF PendingInv
<1>8. ASSUME NEW j \in Jobs, ExecReturns(j) PROVE PendingInv'
  <2>1. writes' = writes /\ mem' = mem /\ known' = known
    BY <1>8 DEF ExecReturns
  <2>2. \A i \in Jobs : pc[i] \in Saving => pc'[i] \in Saving
    BY <1>8 DEF ExecReturns, Release
  <2> QED
    BY <2>1, <2>2, EntryType DEF PendingInv
<1>9. ASSUME NEW j \in Jobs, ExecFails(j) PROVE PendingInv'
  <2>1. writes' = writes /\ mem' = mem /\ known' = known
    BY <1>9 DEF ExecFails
  <2>2. \A i \in Jobs : pc[i] \in Saving => pc'[i] \in Saving
    BY <1>9 DEF ExecFails, Release
  <2> QED
    BY <2>1, <2>2, EntryType DEF PendingInv
<1>10. ASSUME NEW j \in Jobs, NEW b \in BOOLEAN, Delete(j, b) PROVE PendingInv'
  <2>0. j \in known /\ j \in mem
    BY <1>10 DEF Delete
  <2>1. CASE Publishes(j, b)
    <3>1. writes' = Append(writes, Write(j, "completed", "activity"))
      BY <1>10, <2>1 DEF Delete
    <3> QED
      BY <1>10, <2>0, <2>1, <3>1, PendingAppend DEF Delete
  <2>2. CASE ~Publishes(j, b)
    <3>1. writes' = writes /\ mem' = mem /\ known' = known
      BY <1>10, <2>2 DEF Delete
    <3>2. \A i \in Jobs : pc[i] \in Saving => pc'[i] \in Saving
      BY <1>10, <2>2 DEF Delete
    <3> QED
      BY <3>1, <3>2, EntryType DEF PendingInv
  <2> QED
    BY <2>1, <2>2
<1>11. ASSUME NEW j \in Jobs, NEW b \in BOOLEAN, DropInput(j, b) PROVE PendingInv'
  <2>1. writes' = Append(writes, Write(j, EndStatus(j), "activity")) /\ EndStatus(j) \in Statuses
    BY <1>11, EndStatusType DEF DropInput
  <2>2. j \in known /\ j \in mem'
    BY <1>11 DEF DropInput
  <2> QED
    BY <1>11, <2>1, <2>2, PendingAppend DEF DropInput
<1>12. ASSUME NEW j \in Jobs, CleanupDone(j) PROVE PendingInv'
  <2>1. writes' = writes /\ mem' = mem /\ known' = known
    BY <1>12 DEF CleanupDone
  <2>2. \A i \in Jobs : pc[i] \in Saving => pc'[i] \in Saving
    BY <1>12 DEF CleanupDone, Release
  <2> QED
    BY <2>1, <2>2, EntryType DEF PendingInv
<1>13. ASSUME NEW j \in Jobs, CleanupFails(j) PROVE PendingInv'
  <2>1. writes' = Append(writes, Write(j, "cleanup-failed", "activity"))
    BY <1>13 DEF CleanupFails
  <2>2. j \in known /\ j \in mem'
    BY <1>13 DEF CleanupFails
  <2> QED
    BY <1>13, <2>1, <2>2, PendingAppend DEF CleanupFails
<1>14. ASSUME NEW j \in Jobs, SweepCleanup(j) PROVE PendingInv'
  <2>1. writes' = Append(writes, Write(j, "failed", "none"))
    BY <1>14 DEF SweepCleanup
  <2>2. j \in known /\ j \in mem'
    BY <1>14 DEF SweepCleanup
  <2> QED
    BY <1>14, <2>1, <2>2, PendingAppend DEF SweepCleanup
<1>15. ASSUME NEW j \in Jobs, ExpireStart(j) PROVE PendingInv'
  <2>1. \A i \in 1..Len(writes) : writes[i].job # j
    BY <1>15, PendingIndex DEF ExpireStart
  <2> QED
    BY <1>15, <2>1 DEF ExpireStart, PendingInv
<1>16. ASSUME NEW j \in Jobs, ExpireDone(j) PROVE PendingInv'
  BY <1>16 DEF PendingInv, ExpireDone
<1>17. ASSUME NEW j \in Jobs, ExpireFails(j) PROVE PendingInv'
  BY <1>17 DEF PendingInv, ExpireFails
<1>18. ASSUME NEW j \in Jobs, BootFails(j) PROVE PendingInv'
  BY <1>18 DEF PendingInv, BootFails, Reopened
<1>19. ASSUME NEW b \in BOOLEAN, WriteSettles(b) PROVE PendingInv'
  <2> DEFINE w == Head(writes)
  <2>1. /\ w = writes[1] /\ 1 \in 1..Len(writes) /\ w.job \in Jobs
        /\ w.job \in mem /\ (w.waiter = "create" <=> w.job \notin known)
        /\ \A i \in 1..Len(writes') : i + 1 \in 1..Len(writes) /\ i + 1 # 1 /\ writes'[i] = writes[i + 1]
        /\ \A i \in 1..Len(writes') : i \in Nat
    BY <1>19, TailAt DEF WriteSettles, PendingInv
  <2>2. /\ mem' = IF w.waiter = "create" /\ ~b THEN mem \ {w.job} ELSE mem
        /\ known' = IF w.waiter = "create" /\ b THEN known \cup {w.job} ELSE known
    BY <1>19 DEF WriteSettles
  <2>3. \A i \in Jobs : i # w.job \/ w.waiter # "activity" => pc'[i] = pc[i]
    <3>1. CASE w.waiter = "activity" /\ pc[w.job] \in Saving
      BY <1>19, <2>1, <3>1 DEF WriteSettles, Resume, Release
    <3>2. CASE ~(w.waiter = "activity" /\ pc[w.job] \in Saving)
      BY <1>19, <3>2 DEF WriteSettles
    <3> QED
      BY <3>1, <3>2
  <2>4. ASSUME NEW i \in 1..Len(writes')
        PROVE  /\ i + 1 \in 1..Len(writes) /\ writes'[i] = writes[i + 1] /\ writes[i + 1].job \in Jobs
               /\ writes[i + 1].job = w.job => writes[i + 1].waiter # "create"
               /\ writes[i + 1].job = w.job /\ w.waiter = "activity" => writes[i + 1].waiter # "activity"
               /\ writes[i + 1].job = w.job => w.waiter # "create"
    <3>1. i + 1 \in 1..Len(writes) /\ i + 1 # 1 /\ writes'[i] = writes[i + 1]
      BY <2>1
    <3>2. writes[i + 1].job = w.job /\ writes[i + 1].waiter = w.waiter => w.waiter = "none"
      BY <2>1, <3>1 DEF PendingInv
    <3>3. writes[i + 1].waiter = "create" <=> writes[i + 1].job \notin known
      BY <3>1 DEF PendingInv
    <3>4. writes[i + 1].job \in Jobs
      BY <3>1, EntryType
    <3> QED
      BY <2>1, <3>1, <3>2, <3>3, <3>4
  <2>5. ASSUME NEW i \in 1..Len(writes')
        PROVE  /\ writes'[i].job \in mem'
               /\ writes'[i].waiter = "create" <=> writes'[i].job \notin known'
               /\ writes'[i].waiter = "activity" => pc'[writes'[i].job] \in Saving
    <3>1. /\ writes[i + 1].job \in mem
          /\ writes[i + 1].waiter = "create" <=> writes[i + 1].job \notin known
          /\ writes[i + 1].waiter = "activity" => pc[writes[i + 1].job] \in Saving
      BY <2>4 DEF PendingInv
    <3> QED
      BY <2>1, <2>2, <2>3, <2>4, <3>1
  <2>6. ASSUME NEW i \in 1..Len(writes'), NEW n \in 1..Len(writes'),
               writes'[i].job = writes'[n].job, writes'[i].waiter = writes'[n].waiter, i # n
        PROVE  writes'[i].waiter = "none"
    <3>1. i + 1 # n + 1
      BY <2>1, <2>6
    <3> QED
      BY <2>4, <2>6, <3>1 DEF PendingInv
  <2> QED
    BY <2>5, <2>6 DEF PendingInv
<1>20. ASSUME NEW h \in {"ready", "paused", "stopped"}, Apply(h) PROVE PendingInv'
  BY <1>20 DEF PendingInv, Apply
<1>21. ASSUME OtherStarts PROVE PendingInv'
  BY <1>21 DEF PendingInv, OtherStarts, CanAdmit
<1>22. ASSUME OtherEnds PROVE PendingInv'
  BY <1>22 DEF PendingInv, OtherEnds
<1>23. ASSUME Crash PROVE PendingInv'
  BY <1>23, EmptyQueue DEF Crash, PendingInv
<1>24. ASSUME NEW h \in {"ready", "paused", "stopped"}, Boot(h) PROVE PendingInv'
  BY <1>24, EmptyQueue DEF Boot, PendingInv
<1>25. CASE UNCHANGED vars
  BY <1>25 DEF PendingInv, vars
<1> QED
  BY <1>1, <1>2, <1>3, <1>4, <1>5, <1>6, <1>7, <1>8, <1>9, <1>10, <1>11, <1>12, <1>13, <1>14, <1>15, <1>16, <1>17, <1>18, <1>19, <1>20, <1>21, <1>22, <1>23, <1>24, <1>25 DEF Next, Request, Activity, Sweep

-----------------------------------------------------------------------------
(* The end of an activity, and what its files say                          *)

\* An activity that ends shows the statuses of its phase, and no job is shown as
\* uploading or running without one.
LEMMA EndPhaseStep == SInv /\ [Next]_vars => EndPhaseInv'
<1> SUFFICES ASSUME SInv, [Next]_vars PROVE EndPhaseInv'
  OBVIOUS
<1> USE DEF SInv, IInv, TypeOK, HaltedInv, DownInv, UnissuedInv, PhaseInv, InputInv, KnownInv, EndPhaseInv, jobVars, fileVars, Update, Persist, Goto, Statuses, Live, Terminal, Waiters
<1>1. ASSUME NEW j \in Jobs, NEW k \in Keys, CreateNew(j, k) PROVE EndPhaseInv'
  BY <1>1 DEF CreateNew, KeyInUse
<1>2. ASSUME NEW j \in Jobs, CreateAgain(j) PROVE EndPhaseInv'
  BY <1>2 DEF CreateAgain
<1>3. ASSUME NEW j \in Jobs, AnswerAgain(j) PROVE EndPhaseInv'
  BY <1>3 DEF AnswerAgain
<1>4. ASSUME NEW j \in Jobs, Upload(j) PROVE EndPhaseInv'
  BY <1>4 DEF Upload, AcceptsInput, CanAdmit
<1>5. ASSUME NEW j \in Jobs, Cancel(j) PROVE EndPhaseInv'
  <2>1. CASE CancelsAtOnce(j)
    BY <1>5, <2>1 DEF Cancel, CancelsAtOnce
  <2>2. CASE ~CancelsAtOnce(j)
    BY <1>5, <2>2 DEF Cancel
  <2> QED
    BY <2>1, <2>2
<1>6. ASSUME NEW j \in Jobs, StreamDone(j) PROVE EndPhaseInv'
  BY <1>6 DEF StreamDone
<1>7. ASSUME NEW j \in Jobs, StreamFails(j) PROVE EndPhaseInv'
  BY <1>7 DEF StreamFails
<1>8. ASSUME NEW j \in Jobs, ExecReturns(j) PROVE EndPhaseInv'
  BY <1>8 DEF ExecReturns
<1>9. ASSUME NEW j \in Jobs, ExecFails(j) PROVE EndPhaseInv'
  BY <1>9 DEF ExecFails
<1>10. ASSUME NEW j \in Jobs, NEW b \in BOOLEAN, Delete(j, b) PROVE EndPhaseInv'
  <2>1. CASE Publishes(j, b)
    BY <1>10, <2>1 DEF Delete
  <2>2. CASE ~Publishes(j, b)
    BY <1>10, <2>2 DEF Delete
  <2> QED
    BY <2>1, <2>2
<1>11. ASSUME NEW j \in Jobs, NEW b \in BOOLEAN, DropInput(j, b) PROVE EndPhaseInv'
  BY <1>11 DEF DropInput, EndStatus
<1>12. ASSUME NEW j \in Jobs, CleanupDone(j) PROVE EndPhaseInv'
  BY <1>12 DEF CleanupDone, Release
<1>13. ASSUME NEW j \in Jobs, CleanupFails(j) PROVE EndPhaseInv'
  BY <1>13 DEF CleanupFails
<1>14. ASSUME NEW j \in Jobs, SweepCleanup(j) PROVE EndPhaseInv'
  BY <1>14 DEF SweepCleanup
<1>15. ASSUME NEW j \in Jobs, ExpireStart(j) PROVE EndPhaseInv'
  BY <1>15 DEF ExpireStart
<1>16. ASSUME NEW j \in Jobs, ExpireDone(j) PROVE EndPhaseInv'
  BY <1>16 DEF ExpireDone
<1>17. ASSUME NEW j \in Jobs, ExpireFails(j) PROVE EndPhaseInv'
  BY <1>17 DEF ExpireFails
<1>18. ASSUME NEW j \in Jobs, BootFails(j) PROVE EndPhaseInv'
  BY <1>18 DEF BootFails, Reopened
<1>19. ASSUME NEW b \in BOOLEAN, WriteSettles(b) PROVE EndPhaseInv'
  <2> DEFINE w == Head(writes)
  <2>1. w.job \in Jobs
    BY <1>19, TailAt DEF WriteSettles
  <2>2. UNCHANGED status /\ mem' \subseteq mem
    BY <1>19 DEF WriteSettles
  <2>3. CASE w.waiter = "activity" /\ pc[w.job] \in Saving
    BY <1>19, <2>1, <2>2, <2>3 DEF WriteSettles, Resume, Release, AfterSave, OnSaved, OnSaveError, Saving
  <2>4. CASE ~(w.waiter = "activity" /\ pc[w.job] \in Saving)
    BY <1>19, <2>2, <2>4 DEF WriteSettles
  <2> QED
    BY <2>3, <2>4
<1>20. ASSUME NEW h \in {"ready", "paused", "stopped"}, Apply(h) PROVE EndPhaseInv'
  BY <1>20 DEF Apply
<1>21. ASSUME OtherStarts PROVE EndPhaseInv'
  BY <1>21 DEF OtherStarts, CanAdmit
<1>22. ASSUME OtherEnds PROVE EndPhaseInv'
  BY <1>22 DEF OtherEnds
<1>23. ASSUME Crash PROVE EndPhaseInv'
  BY <1>23 DEF Crash
<1>24. ASSUME NEW h \in {"ready", "paused", "stopped"}, Boot(h) PROVE EndPhaseInv'
  BY <1>24 DEF Boot, Reopened
<1>25. CASE UNCHANGED vars
  BY <1>25 DEF vars
<1> QED
  BY <1>1, <1>2, <1>3, <1>4, <1>5, <1>6, <1>7, <1>8, <1>9, <1>10, <1>11, <1>12, <1>13, <1>14, <1>15, <1>16, <1>17, <1>18, <1>19, <1>20, <1>21, <1>22, <1>23, <1>24, <1>25 DEF Next, Request, Activity, Sweep

\* What a new write of j does to the ends the chain states.
LEMMA FileAppend ==
  ASSUME TypeOK, PendingInv, FileInv,
         NEW j \in Jobs, NEW s \in Statuses, NEW w \in Waiters,
         writes' = Append(writes, Write(j, s, w)),
         s = "completed" => w = "activity" /\ pc'[j] = "saveCompleted",
         s \in Failures => status'[j] \in Failures \cup {"cleanup-failed"},
         \A i \in Jobs : pc[i] = "saveCompleted" => pc'[i] = "saveCompleted",
         \A i \in Jobs : status[i] \in Failures \cup {"cleanup-failed"}
                         => status'[i] \in Failures \cup {"cleanup-failed"}
  PROVE  \A i \in 1..Len(writes') :
            /\ writes'[i].st = "completed" => writes'[i].waiter = "activity" /\ pc'[writes'[i].job] = "saveCompleted"
            /\ writes'[i].st \in Failures => status'[writes'[i].job] \in Failures \cup {"cleanup-failed"}
<1>1. /\ writes'[Len(writes')].job = j /\ writes'[Len(writes')].waiter = w /\ writes'[Len(writes')].st = s
      /\ \A i \in 1..Len(writes) : writes'[i] = writes[i]
      /\ \A i \in 1..Len(writes') : i \in 1..Len(writes) \/ i = Len(writes')
  BY AppendAt DEF TypeOK
<1>2. \A i \in 1..Len(writes) : writes[i].job \in Jobs
  BY EntryType DEF TypeOK
<1>3. TAKE i \in 1..Len(writes')
<1>4. CASE i = Len(writes')
  BY <1>1, <1>4
<1>5. CASE i \in 1..Len(writes)
  BY <1>1, <1>2, <1>5 DEF FileInv
<1> QED
  BY <1>1, <1>4, <1>5

\* A chain that is not written to keeps stating the ends it stated.
LEMMA FileKeep ==
  ASSUME TypeOK, FileInv, writes' = writes,
         \A i \in Jobs : pc[i] = "saveCompleted" => pc'[i] = "saveCompleted",
         \A i \in Jobs : status[i] \in Failures \cup {"cleanup-failed"}
                         => status'[i] \in Failures \cup {"cleanup-failed"}
  PROVE  \A i \in 1..Len(writes') :
            /\ writes'[i].st = "completed" => writes'[i].waiter = "activity" /\ pc'[writes'[i].job] = "saveCompleted"
            /\ writes'[i].st \in Failures => status'[writes'[i].job] \in Failures \cup {"cleanup-failed"}
<1>1. \A i \in 1..Len(writes) : writes[i].job \in Jobs
  BY EntryType DEF TypeOK
<1> QED
  BY <1>1 DEF FileInv

\* FileInv in its two halves.
DiskEnds ==
  up => \A j \in Jobs :
    /\ disk[j] = "completed" => status[j] = "completed" /\ pc[j] \in {"idle", "cleanup"}
    /\ disk[j] \in Failures => status[j] \in Failures \cup {"cleanup-failed"}
WriteEnds ==
  \A i \in 1..Len(writes) :
    /\ writes[i].st = "completed" => writes[i].waiter = "activity" /\ pc[writes[i].job] = "saveCompleted"
    /\ writes[i].st \in Failures => status[writes[i].job] \in Failures \cup {"cleanup-failed"}

\* FileInv is about the files and about the writes to come.
LEMMA FileHalves == FileInv <=> DiskEnds /\ WriteEnds
  BY DEF FileInv, DiskEnds, WriteEnds

\* A file that states an end states the one memory shows.
LEMMA DiskEndsStep == SInv /\ [Next]_vars => DiskEnds'
<1> SUFFICES ASSUME SInv, [Next]_vars PROVE DiskEnds'
  OBVIOUS
<1> USE DEF SInv, IInv, TypeOK, HaltedInv, DownInv, UnissuedInv, PhaseInv, InputInv, KnownInv, EndPhaseInv, DiskEnds, Failures, jobVars, fileVars, Update, Persist, Goto, Statuses, Live, Terminal
<1>0. DiskEnds /\ WriteEnds
  BY FileHalves
<1>1. ASSUME NEW j \in Jobs, NEW k \in Keys, CreateNew(j, k) PROVE DiskEnds'
  BY <1>1, <1>0 DEF CreateNew, KeyInUse
<1>2. ASSUME NEW j \in Jobs, CreateAgain(j) PROVE DiskEnds'
  BY <1>2, <1>0 DEF CreateAgain
<1>3. ASSUME NEW j \in Jobs, AnswerAgain(j) PROVE DiskEnds'
  BY <1>3, <1>0 DEF AnswerAgain
<1>4. ASSUME NEW j \in Jobs, Upload(j) PROVE DiskEnds'
  BY <1>4, <1>0 DEF Upload, AcceptsInput, CanAdmit
<1>5. ASSUME NEW j \in Jobs, Cancel(j) PROVE DiskEnds'
  <2>1. CASE CancelsAtOnce(j)
    BY <1>0, <1>5, <2>1 DEF Cancel, CancelsAtOnce
  <2>2. CASE ~CancelsAtOnce(j)
    BY <1>0, <1>5, <2>2 DEF Cancel
  <2> QED
    BY <2>1, <2>2
<1>6. ASSUME NEW j \in Jobs, StreamDone(j) PROVE DiskEnds'
  BY <1>6, <1>0 DEF StreamDone
<1>7. ASSUME NEW j \in Jobs, StreamFails(j) PROVE DiskEnds'
  BY <1>7, <1>0 DEF StreamFails
<1>8. ASSUME NEW j \in Jobs, ExecReturns(j) PROVE DiskEnds'
  BY <1>8, <1>0 DEF ExecReturns
<1>9. ASSUME NEW j \in Jobs, ExecFails(j) PROVE DiskEnds'
  BY <1>9, <1>0 DEF ExecFails
<1>10. ASSUME NEW j \in Jobs, NEW b \in BOOLEAN, Delete(j, b) PROVE DiskEnds'
  <2>1. CASE Publishes(j, b)
    BY <1>0, <1>10, <2>1 DEF Delete
  <2>2. CASE ~Publishes(j, b)
    BY <1>0, <1>10, <2>2 DEF Delete
  <2> QED
    BY <2>1, <2>2
<1>11. ASSUME NEW j \in Jobs, NEW b \in BOOLEAN, DropInput(j, b) PROVE DiskEnds'
  BY <1>11, <1>0 DEF DropInput, EndStatus
<1>12. ASSUME NEW j \in Jobs, CleanupDone(j) PROVE DiskEnds'
  BY <1>12, <1>0 DEF CleanupDone, Release
<1>13. ASSUME NEW j \in Jobs, CleanupFails(j) PROVE DiskEnds'
  BY <1>13, <1>0 DEF CleanupFails
<1>14. ASSUME NEW j \in Jobs, SweepCleanup(j) PROVE DiskEnds'
  BY <1>14, <1>0 DEF SweepCleanup
<1>15. ASSUME NEW j \in Jobs, ExpireStart(j) PROVE DiskEnds'
  BY <1>15, <1>0 DEF ExpireStart
<1>16. ASSUME NEW j \in Jobs, ExpireDone(j) PROVE DiskEnds'
  BY <1>16, <1>0 DEF ExpireDone
<1>17. ASSUME NEW j \in Jobs, ExpireFails(j) PROVE DiskEnds'
  BY <1>17, <1>0 DEF ExpireFails
<1>18. ASSUME NEW j \in Jobs, BootFails(j) PROVE DiskEnds'
  BY <1>18, <1>0 DEF BootFails, Reopened
<1>19. ASSUME NEW b \in BOOLEAN, WriteSettles(b) PROVE DiskEnds'
  <2> DEFINE w == Head(writes)
  <2>1. /\ w = writes[1] /\ 1 \in 1..Len(writes) /\ w.job \in Jobs /\ w.st \in Statuses
    BY <1>19, TailAt DEF WriteSettles
  <2>2. /\ w.st = "completed" => w.waiter = "activity" /\ pc[w.job] = "saveCompleted"
        /\ w.st \in Failures => status[w.job] \in Failures \cup {"cleanup-failed"}
        /\ w.waiter = "activity" => pc[w.job] \in Saving
    BY <1>0, <2>1 DEF WriteEnds, PendingInv
  <2>3. /\ UNCHANGED <<up, status>>
        /\ disk' = IF b THEN [disk EXCEPT ![w.job] = w.st] ELSE disk
    BY <1>19 DEF WriteSettles
  <2>4. CASE w.waiter = "activity" /\ pc[w.job] \in Saving
    <3>1. /\ \A i \in Jobs : i # w.job => pc'[i] = pc[i]
          /\ pc[w.job] = "saveCompleted" /\ b => pc'[w.job] = "cleanup"
      BY <1>19, <2>1, <2>4 DEF WriteSettles, Resume, Release, AfterSave, OnSaved, OnSaveError, Saving
    <3>2. disk[w.job] # "completed"
      BY <1>0, <1>19, <2>1, <2>4 DEF Saving, WriteSettles
    <3>3. w.st = "completed" => status[w.job] = "completed"
      BY <2>2, <2>1
    <3> QED
      BY <1>0, <2>1, <2>2, <2>3, <3>1, <3>2, <3>3
  <2>5. CASE w.waiter # "activity"
    <3>1. pc' = pc /\ w.st # "completed"
      BY <1>19, <2>2, <2>5 DEF WriteSettles
    <3> QED
      BY <1>0, <2>1, <2>2, <2>3, <3>1
  <2> QED
    BY <2>2, <2>4, <2>5
<1>20. ASSUME NEW h \in {"ready", "paused", "stopped"}, Apply(h) PROVE DiskEnds'
  BY <1>20, <1>0 DEF Apply
<1>21. ASSUME OtherStarts PROVE DiskEnds'
  BY <1>21, <1>0 DEF OtherStarts, CanAdmit
<1>22. ASSUME OtherEnds PROVE DiskEnds'
  BY <1>22, <1>0 DEF OtherEnds
<1>23. ASSUME Crash PROVE DiskEnds'
  BY <1>23, <1>0 DEF Crash
<1>24. ASSUME NEW h \in {"ready", "paused", "stopped"}, Boot(h) PROVE DiskEnds'
  BY <1>24, <1>0 DEF Boot, Reopened
<1>25. CASE UNCHANGED vars
  BY <1>25, <1>0 DEF vars
<1> QED
  BY <1>1, <1>2, <1>3, <1>4, <1>5, <1>6, <1>7, <1>8, <1>9, <1>10, <1>11, <1>12, <1>13, <1>14, <1>15, <1>16, <1>17, <1>18, <1>19, <1>20, <1>21, <1>22, <1>23, <1>24, <1>25 DEF Next, Request, Activity, Sweep

\* A pending write that states an end states the one memory shows.
LEMMA WriteEndsStep == SInv /\ [Next]_vars => WriteEnds'
<1> SUFFICES ASSUME SInv, [Next]_vars PROVE WriteEnds'
  OBVIOUS
<1> USE DEF SInv, IInv, TypeOK, PhaseInv, InputInv, EndPhaseInv, WriteEnds, Failures, jobVars, fileVars, Update, Persist, Goto, Statuses, Live, Terminal, Waiters
<1>0. DiskEnds /\ WriteEnds
  BY FileHalves
<1>1. ASSUME NEW j \in Jobs, NEW k \in Keys, CreateNew(j, k) PROVE WriteEnds'
  <2>1. writes' = Append(writes, Write(j, "awaiting-upload", "create"))
    BY <1>1 DEF CreateNew
  <2>2. "awaiting-upload" = "completed" => "create" = "activity" /\ pc'[j] = "saveCompleted"
    BY <1>1 DEF CreateNew
  <2>3. "awaiting-upload" \in Failures => status'[j] \in Failures \cup {"cleanup-failed"}
    BY <1>1 DEF CreateNew
  <2>4. \A i \in Jobs : pc[i] = "saveCompleted" => pc'[i] = "saveCompleted"
    BY <1>1 DEF CreateNew, UnissuedInv
  <2>5. \A i \in Jobs : status[i] \in Failures \cup {"cleanup-failed"}
                       => status'[i] \in Failures \cup {"cleanup-failed"}
    BY <1>1 DEF CreateNew, UnissuedInv
  <2> QED
    BY <2>1, <2>2, <2>3, <2>4, <2>5, FileAppend
<1>2. ASSUME NEW j \in Jobs, CreateAgain(j) PROVE WriteEnds'
  BY <1>2, FileKeep DEF CreateAgain
<1>3. ASSUME NEW j \in Jobs, AnswerAgain(j) PROVE WriteEnds'
  BY <1>3, FileKeep DEF AnswerAgain
<1>4. ASSUME NEW j \in Jobs, Upload(j) PROVE WriteEnds'
  <2>1. writes' = Append(writes, Write(j, "uploading", "activity"))
    BY <1>4 DEF Upload, AcceptsInput
  <2>2. "uploading" = "completed" => "activity" = "activity" /\ pc'[j] = "saveCompleted"
    BY <1>4 DEF Upload, AcceptsInput
  <2>3. "uploading" \in Failures => status'[j] \in Failures \cup {"cleanup-failed"}
    BY <1>4 DEF Upload, AcceptsInput
  <2>4. \A i \in Jobs : pc[i] = "saveCompleted" => pc'[i] = "saveCompleted"
    BY <1>4 DEF Upload, AcceptsInput
  <2>5. \A i \in Jobs : status[i] \in Failures \cup {"cleanup-failed"}
                       => status'[i] \in Failures \cup {"cleanup-failed"}
    BY <1>4 DEF Upload, AcceptsInput
  <2> QED
    BY <2>1, <2>2, <2>3, <2>4, <2>5, FileAppend
<1>5. ASSUME NEW j \in Jobs, Cancel(j) PROVE WriteEnds'
  <2>1. CASE CancelsAtOnce(j)
    <3>1. writes' = Append(writes, Write(j, "cancelled", "none"))
      BY <1>5, <2>1 DEF Cancel, CancelsAtOnce
    <3>2. "cancelled" = "completed" => "none" = "activity" /\ pc'[j] = "saveCompleted"
      BY <1>5, <2>1 DEF Cancel, CancelsAtOnce
    <3>3. "cancelled" \in Failures => status'[j] \in Failures \cup {"cleanup-failed"}
      BY <1>5, <2>1 DEF Cancel, CancelsAtOnce
    <3>4. \A i \in Jobs : pc[i] = "saveCompleted" => pc'[i] = "saveCompleted"
      BY <1>5, <2>1 DEF Cancel, CancelsAtOnce
    <3>5. \A i \in Jobs : status[i] \in Failures \cup {"cleanup-failed"}
                         => status'[i] \in Failures \cup {"cleanup-failed"}
      BY <1>5, <2>1 DEF Cancel, CancelsAtOnce
    <3> QED
      BY <3>1, <3>2, <3>3, <3>4, <3>5, FileAppend
  <2>2. CASE ~CancelsAtOnce(j)
    BY <1>5, <2>2, FileKeep DEF Cancel
  <2> QED
    BY <2>1, <2>2
<1>6. ASSUME NEW j \in Jobs, StreamDone(j) PROVE WriteEnds'
  <2>1. writes' = Append(writes, Write(j, "running", "activity"))
    BY <1>6 DEF StreamDone
  <2>2. "running" = "completed" => "activity" = "activity" /\ pc'[j] = "saveCompleted"
    BY <1>6 DEF StreamDone
  <2>3. "running" \in Failures => status'[j] \in Failures \cup {"cleanup-failed"}
    BY <1>6 DEF StreamDone
  <2>4. \A i \in Jobs : pc[i] = "saveCompleted" => pc'[i] = "saveCompleted"
    BY <1>6 DEF StreamDone
  <2>5. \A i \in Jobs : status[i] \in Failures \cup {"cleanup-failed"}
                       => status'[i] \in Failures \cup {"cleanup-failed"}
    BY <1>6 DEF StreamDone
  <2> QED
    BY <2>1, <2>2, <2>3, <2>4, <2>5, FileAppend
<1>7. ASSUME NEW j \in Jobs, StreamFails(j) PROVE WriteEnds'
  <2>1. writes' = writes
    BY <1>7 DEF StreamFails
  <2>2. \A i \in Jobs : pc[i] = "saveCompleted" => pc'[i] = "saveCompleted"
    BY <1>7 DEF StreamFails
  <2> QED
    BY <1>7, <2>1, <2>2, FileKeep DEF StreamFails
<1>8. ASSUME NEW j \in Jobs, ExecReturns(j) PROVE WriteEnds'
  <2>1. writes' = writes
    BY <1>8 DEF ExecReturns
  <2>2. \A i \in Jobs : pc[i] = "saveCompleted" => pc'[i] = "saveCompleted"
    BY <1>8 DEF ExecReturns
  <2> QED
    BY <1>8, <2>1, <2>2, FileKeep DEF ExecReturns
<1>9. ASSUME NEW j \in Jobs, ExecFails(j) PROVE WriteEnds'
  <2>1. writes' = writes
    BY <1>9 DEF ExecFails
  <2>2. \A i \in Jobs : pc[i] = "saveCompleted" => pc'[i] = "saveCompleted"
    BY <1>9 DEF ExecFails
  <2> QED
    BY <1>9, <2>1, <2>2, FileKeep DEF ExecFails
<1>10. ASSUME NEW j \in Jobs, NEW b \in BOOLEAN, Delete(j, b) PROVE WriteEnds'
  <2>1. CASE Publishes(j, b)
    <3>1. writes' = Append(writes, Write(j, "completed", "activity"))
      BY <1>10, <2>1 DEF Delete
    <3>2. "completed" = "completed" => "activity" = "activity" /\ pc'[j] = "saveCompleted"
      BY <1>10, <2>1 DEF Delete
    <3>3. "completed" \in Failures => status'[j] \in Failures \cup {"cleanup-failed"}
      BY <1>10, <2>1 DEF Delete
    <3>4. \A i \in Jobs : pc[i] = "saveCompleted" => pc'[i] = "saveCompleted"
      BY <1>10, <2>1 DEF Delete
    <3>5. \A i \in Jobs : status[i] \in Failures \cup {"cleanup-failed"}
                         => status'[i] \in Failures \cup {"cleanup-failed"}
      BY <1>10, <2>1 DEF Delete
    <3> QED
      BY <3>1, <3>2, <3>3, <3>4, <3>5, FileAppend
  <2>2. CASE ~Publishes(j, b)
    <3>1. writes' = writes /\ status' = status
      BY <1>10, <2>2 DEF Delete
    <3>2. \A i \in Jobs : pc[i] = "saveCompleted" => pc'[i] = "saveCompleted"
      BY <1>10, <2>2 DEF Delete
    <3> QED
      BY <3>1, <3>2, FileKeep
  <2> QED
    BY <2>1, <2>2
<1>11. ASSUME NEW j \in Jobs, NEW b \in BOOLEAN, DropInput(j, b) PROVE WriteEnds'
  <2>1. writes' = Append(writes, Write(j, EndStatus(j), "activity"))
    BY <1>11 DEF DropInput, EndStatus
  <2>2. EndStatus(j) = "completed" => "activity" = "activity" /\ pc'[j] = "saveCompleted"
    BY <1>11 DEF DropInput, EndStatus
  <2>3. EndStatus(j) \in Failures => status'[j] \in Failures \cup {"cleanup-failed"}
    BY <1>11 DEF DropInput, EndStatus
  <2>4. \A i \in Jobs : pc[i] = "saveCompleted" => pc'[i] = "saveCompleted"
    BY <1>11 DEF DropInput, EndStatus
  <2>5. \A i \in Jobs : status[i] \in Failures \cup {"cleanup-failed"}
                       => status'[i] \in Failures \cup {"cleanup-failed"}
    BY <1>11 DEF DropInput, EndStatus
  <2> QED
    BY EndStatusType, <2>1, <2>2, <2>3, <2>4, <2>5, FileAppend
<1>12. ASSUME NEW j \in Jobs, CleanupDone(j) PROVE WriteEnds'
  <2>1. writes' = writes
    BY <1>12 DEF CleanupDone, Release
  <2>2. \A i \in Jobs : pc[i] = "saveCompleted" => pc'[i] = "saveCompleted"
    BY <1>12 DEF CleanupDone, Release
  <2> QED
    BY <1>12, <2>1, <2>2, FileKeep DEF CleanupDone, Release
<1>13. ASSUME NEW j \in Jobs, CleanupFails(j) PROVE WriteEnds'
  <2>1. writes' = Append(writes, Write(j, "cleanup-failed", "activity"))
    BY <1>13 DEF CleanupFails
  <2>2. "cleanup-failed" = "completed" => "activity" = "activity" /\ pc'[j] = "saveCompleted"
    BY <1>13 DEF CleanupFails
  <2>3. "cleanup-failed" \in Failures => status'[j] \in Failures \cup {"cleanup-failed"}
    BY <1>13 DEF CleanupFails
  <2>4. \A i \in Jobs : pc[i] = "saveCompleted" => pc'[i] = "saveCompleted"
    BY <1>13 DEF CleanupFails
  <2>5. \A i \in Jobs : status[i] \in Failures \cup {"cleanup-failed"}
                       => status'[i] \in Failures \cup {"cleanup-failed"}
    BY <1>13 DEF CleanupFails
  <2> QED
    BY <2>1, <2>2, <2>3, <2>4, <2>5, FileAppend
<1>14. ASSUME NEW j \in Jobs, SweepCleanup(j) PROVE WriteEnds'
  <2>1. writes' = Append(writes, Write(j, "failed", "none"))
    BY <1>14 DEF SweepCleanup
  <2>2. "failed" = "completed" => "none" = "activity" /\ pc'[j] = "saveCompleted"
    BY <1>14 DEF SweepCleanup
  <2>3. "failed" \in Failures => status'[j] \in Failures \cup {"cleanup-failed"}
    BY <1>14 DEF SweepCleanup
  <2>4. \A i \in Jobs : pc[i] = "saveCompleted" => pc'[i] = "saveCompleted"
    BY <1>14 DEF SweepCleanup
  <2>5. \A i \in Jobs : status[i] \in Failures \cup {"cleanup-failed"}
                       => status'[i] \in Failures \cup {"cleanup-failed"}
    BY <1>14 DEF SweepCleanup
  <2> QED
    BY <2>1, <2>2, <2>3, <2>4, <2>5, FileAppend
<1>15. ASSUME NEW j \in Jobs, ExpireStart(j) PROVE WriteEnds'
  BY <1>15, FileKeep DEF ExpireStart
<1>16. ASSUME NEW j \in Jobs, ExpireDone(j) PROVE WriteEnds'
  BY <1>16, FileKeep DEF ExpireDone
<1>17. ASSUME NEW j \in Jobs, ExpireFails(j) PROVE WriteEnds'
  BY <1>17, FileKeep DEF ExpireFails
<1>18. ASSUME NEW j \in Jobs, BootFails(j) PROVE WriteEnds'
  BY <1>18, FileKeep DEF BootFails, Reopened
<1>19. ASSUME NEW b \in BOOLEAN, WriteSettles(b) PROVE WriteEnds'
  <2> DEFINE w == Head(writes)
  <2>1. /\ w = writes[1] /\ 1 \in 1..Len(writes) /\ w.job \in Jobs
        /\ \A i \in 1..Len(writes') : i + 1 \in 1..Len(writes) /\ i + 1 # 1 /\ writes'[i] = writes[i + 1]
    BY <1>19, TailAt DEF WriteSettles
  <2>2. UNCHANGED status
    BY <1>19 DEF WriteSettles
  <2>3. \A i \in Jobs : i # w.job \/ w.waiter # "activity" => pc'[i] = pc[i]
    <3>1. CASE w.waiter = "activity" /\ pc[w.job] \in Saving
      BY <1>19, <2>1, <3>1 DEF WriteSettles, Resume, Release
    <3>2. CASE ~(w.waiter = "activity" /\ pc[w.job] \in Saving)
      BY <1>19, <3>2 DEF WriteSettles
    <3> QED
      BY <3>1, <3>2
  <2>4. ASSUME NEW i \in 1..Len(writes')
        PROVE  /\ writes'[i].st = "completed" => writes'[i].waiter = "activity" /\ pc'[writes'[i].job] = "saveCompleted"
               /\ writes'[i].st \in Failures => status'[writes'[i].job] \in Failures \cup {"cleanup-failed"}
    <3>1. i + 1 \in 1..Len(writes) /\ i + 1 # 1 /\ writes'[i] = writes[i + 1]
      BY <2>1
    <3>2. writes[i + 1].job \in Jobs
      BY <3>1, EntryType
    <3>3. writes[i + 1].job = w.job /\ writes[i + 1].waiter = w.waiter => w.waiter = "none"
      BY <2>1, <3>1 DEF PendingInv
    <3> QED
      BY <1>0, <2>2, <2>3, <3>1, <3>2, <3>3
  <2> QED
    BY <2>4
<1>20. ASSUME NEW h \in {"ready", "paused", "stopped"}, Apply(h) PROVE WriteEnds'
  BY <1>20, FileKeep DEF Apply
<1>21. ASSUME OtherStarts PROVE WriteEnds'
  BY <1>21, FileKeep DEF OtherStarts, CanAdmit
<1>22. ASSUME OtherEnds PROVE WriteEnds'
  BY <1>22, FileKeep DEF OtherEnds
<1>23. ASSUME Crash PROVE WriteEnds'
  BY <1>23, EmptyQueue DEF Crash
<1>24. ASSUME NEW h \in {"ready", "paused", "stopped"}, Boot(h) PROVE WriteEnds'
  <2>1. writes' = <<>>
    BY <1>24 DEF Boot, HaltedInv
  <2> QED
    BY <2>1, EmptyQueue
<1>25. CASE UNCHANGED vars
  BY <1>25, FileKeep DEF vars
<1> QED
  BY <1>1, <1>2, <1>3, <1>4, <1>5, <1>6, <1>7, <1>8, <1>9, <1>10, <1>11, <1>12, <1>13, <1>14, <1>15, <1>16, <1>17, <1>18, <1>19, <1>20, <1>21, <1>22, <1>23, <1>24, <1>25 DEF Next, Request, Activity, Sweep

\* Every step keeps both halves of FileInv.
LEMMA FileStep == SInv /\ [Next]_vars => FileInv'
<1>1. FileInv' <=> DiskEnds' /\ WriteEnds'
  BY DEF FileInv, DiskEnds, WriteEnds
<1> QED
  BY <1>1, DiskEndsStep, WriteEndsStep

\* No step leaves an input file without an owner.
LEMMA OwnedStep == SInv /\ InputOwned /\ [Next]_vars => InputOwned'
<1> SUFFICES ASSUME SInv /\ InputOwned, [Next]_vars PROVE InputOwned'
  OBVIOUS
<1> USE DEF SInv, IInv, TypeOK, LaneExclusive, DownInv, UnissuedInv, PhaseInv, InputInv, KnownInv, EndPhaseInv, InputOwned, jobVars, fileVars, Update, Persist, Goto, Statuses, Live, Terminal
<1>1. ASSUME NEW j \in Jobs, NEW k \in Keys, CreateNew(j, k) PROVE InputOwned'
  BY <1>1 DEF CreateNew, KeyInUse
<1>2. ASSUME NEW j \in Jobs, CreateAgain(j) PROVE InputOwned'
  BY <1>2 DEF CreateAgain
<1>3. ASSUME NEW j \in Jobs, AnswerAgain(j) PROVE InputOwned'
  BY <1>3 DEF AnswerAgain
<1>4. ASSUME NEW j \in Jobs, Upload(j) PROVE InputOwned'
  BY <1>4 DEF Upload, AcceptsInput, CanAdmit
<1>5. ASSUME NEW j \in Jobs, Cancel(j) PROVE InputOwned'
  BY <1>5 DEF Cancel, CancelsAtOnce
<1>6. ASSUME NEW j \in Jobs, StreamDone(j) PROVE InputOwned'
  BY <1>6 DEF StreamDone
<1>7. ASSUME NEW j \in Jobs, StreamFails(j) PROVE InputOwned'
  BY <1>7 DEF StreamFails
<1>8. ASSUME NEW j \in Jobs, ExecReturns(j) PROVE InputOwned'
  BY <1>8 DEF ExecReturns
<1>9. ASSUME NEW j \in Jobs, ExecFails(j) PROVE InputOwned'
  BY <1>9 DEF ExecFails
<1>10. ASSUME NEW j \in Jobs, NEW b \in BOOLEAN, Delete(j, b) PROVE InputOwned'
  BY <1>10 DEF Delete, Publishes
<1>11. ASSUME NEW j \in Jobs, NEW b \in BOOLEAN, DropInput(j, b) PROVE InputOwned'
  BY <1>11 DEF DropInput, EndStatus
<1>12. ASSUME NEW j \in Jobs, CleanupDone(j) PROVE InputOwned'
  BY <1>12 DEF CleanupDone, Release
<1>13. ASSUME NEW j \in Jobs, CleanupFails(j) PROVE InputOwned'
  BY <1>13 DEF CleanupFails
<1>14. ASSUME NEW j \in Jobs, SweepCleanup(j) PROVE InputOwned'
  BY <1>14 DEF SweepCleanup
<1>15. ASSUME NEW j \in Jobs, ExpireStart(j) PROVE InputOwned'
  BY <1>15 DEF ExpireStart
<1>16. ASSUME NEW j \in Jobs, ExpireDone(j) PROVE InputOwned'
  BY <1>16 DEF ExpireDone
<1>17. ASSUME NEW j \in Jobs, ExpireFails(j) PROVE InputOwned'
  BY <1>17 DEF ExpireFails
<1>18. ASSUME NEW j \in Jobs, BootFails(j) PROVE InputOwned'
  BY <1>18 DEF BootFails, Reopened
<1>19. ASSUME NEW b \in BOOLEAN, WriteSettles(b) PROVE InputOwned'
  <2> DEFINE w == Head(writes)
  <2>1. w.job \in Jobs /\ (w.waiter = "create" <=> w.job \notin known)
    BY <1>19, TailAt DEF WriteSettles, PendingInv
  <2>2. /\ UNCHANGED <<up, status>>
        /\ mem' = IF w.waiter = "create" /\ ~b THEN mem \ {w.job} ELSE mem
    BY <1>19 DEF WriteSettles
  <2>3. CASE w.waiter = "activity" /\ pc[w.job] \in Saving
    BY <1>19, <2>1, <2>2, <2>3 DEF WriteSettles, Resume, Release, AfterSave, OnSaved, OnSaveError, Saving
  <2>4. CASE ~(w.waiter = "activity" /\ pc[w.job] \in Saving)
    BY <1>19, <2>1, <2>2, <2>4 DEF WriteSettles
  <2> QED
    BY <2>3, <2>4
<1>20. ASSUME NEW h \in {"ready", "paused", "stopped"}, Apply(h) PROVE InputOwned'
  BY <1>20 DEF Apply
<1>21. ASSUME OtherStarts PROVE InputOwned'
  BY <1>21 DEF OtherStarts, CanAdmit
<1>22. ASSUME OtherEnds PROVE InputOwned'
  BY <1>22 DEF OtherEnds
<1>23. ASSUME Crash PROVE InputOwned'
  BY <1>23 DEF Crash
<1>24. ASSUME NEW h \in {"ready", "paused", "stopped"}, Boot(h) PROVE InputOwned'
  BY <1>24 DEF Boot, Reopened
<1>25. CASE UNCHANGED vars
  BY <1>25 DEF vars
<1> QED
  BY <1>1, <1>2, <1>3, <1>4, <1>5, <1>6, <1>7, <1>8, <1>9, <1>10, <1>11, <1>12, <1>13, <1>14, <1>15, <1>16, <1>17, <1>18, <1>19, <1>20, <1>21, <1>22, <1>23, <1>24, <1>25 DEF Next, Request, Activity, Sweep

\* Unless a file that could not be unlinked brings a job back, a key has one live job.
LEMMA OneLiveStep ==
  ASSUME DeleteMayFail = FALSE, SInv /\ OneLivePerKey, [Next]_vars
  PROVE  OneLivePerKey'
<1> USE DEF SInv, IInv, TypeOK, PhaseInv, KnownInv, EndPhaseInv, OneLivePerKey, jobVars, fileVars, Update, Persist, Goto, Statuses, Live, Terminal
<1>1. ASSUME NEW j \in Jobs, NEW k \in Keys, CreateNew(j, k) PROVE OneLivePerKey'
  BY <1>1 DEF CreateNew, KeyInUse
<1>2. ASSUME NEW j \in Jobs, CreateAgain(j) PROVE OneLivePerKey'
  BY <1>2 DEF CreateAgain
<1>3. ASSUME NEW j \in Jobs, AnswerAgain(j) PROVE OneLivePerKey'
  BY <1>3 DEF AnswerAgain
<1>4. ASSUME NEW j \in Jobs, Upload(j) PROVE OneLivePerKey'
  BY <1>4 DEF Upload, AcceptsInput, CanAdmit
<1>5. ASSUME NEW j \in Jobs, Cancel(j) PROVE OneLivePerKey'
  <2>1. CASE CancelsAtOnce(j)
    BY <1>5, <2>1 DEF Cancel, CancelsAtOnce
  <2>2. CASE ~CancelsAtOnce(j)
    BY <1>5, <2>2 DEF Cancel
  <2> QED
    BY <2>1, <2>2
<1>6. ASSUME NEW j \in Jobs, StreamDone(j) PROVE OneLivePerKey'
  BY <1>6 DEF StreamDone
<1>7. ASSUME NEW j \in Jobs, StreamFails(j) PROVE OneLivePerKey'
  BY <1>7 DEF StreamFails
<1>8. ASSUME NEW j \in Jobs, ExecReturns(j) PROVE OneLivePerKey'
  BY <1>8 DEF ExecReturns
<1>9. ASSUME NEW j \in Jobs, ExecFails(j) PROVE OneLivePerKey'
  BY <1>9 DEF ExecFails
<1>10. ASSUME NEW j \in Jobs, NEW b \in BOOLEAN, Delete(j, b) PROVE OneLivePerKey'
  <2>1. CASE Publishes(j, b)
    BY <1>10, <2>1 DEF Delete
  <2>2. CASE ~Publishes(j, b)
    BY <1>10, <2>2 DEF Delete
  <2> QED
    BY <2>1, <2>2
<1>11. ASSUME NEW j \in Jobs, NEW b \in BOOLEAN, DropInput(j, b) PROVE OneLivePerKey'
  BY <1>11 DEF DropInput, EndStatus
<1>12. ASSUME NEW j \in Jobs, CleanupDone(j) PROVE OneLivePerKey'
  BY <1>12 DEF CleanupDone, Release
<1>13. ASSUME NEW j \in Jobs, CleanupFails(j) PROVE OneLivePerKey'
  BY <1>13 DEF CleanupFails
<1>14. ASSUME NEW j \in Jobs, SweepCleanup(j) PROVE OneLivePerKey'
  BY <1>14 DEF SweepCleanup
<1>15. ASSUME NEW j \in Jobs, ExpireStart(j) PROVE OneLivePerKey'
  BY <1>15 DEF ExpireStart
<1>16. ASSUME NEW j \in Jobs, ExpireDone(j) PROVE OneLivePerKey'
  BY <1>16 DEF ExpireDone
<1>17. ASSUME NEW j \in Jobs, ExpireFails(j) PROVE OneLivePerKey'
  BY <1>17 DEF ExpireFails
<1>18. ASSUME NEW j \in Jobs, BootFails(j) PROVE OneLivePerKey'
  BY <1>18 DEF BootFails, Reopened
<1>19. ASSUME NEW b \in BOOLEAN, WriteSettles(b) PROVE OneLivePerKey'
  BY <1>19 DEF WriteSettles
<1>20. ASSUME NEW h \in {"ready", "paused", "stopped"}, Apply(h) PROVE OneLivePerKey'
  BY <1>20 DEF Apply
<1>21. ASSUME OtherStarts PROVE OneLivePerKey'
  BY <1>21 DEF OtherStarts, CanAdmit
<1>22. ASSUME OtherEnds PROVE OneLivePerKey'
  BY <1>22 DEF OtherEnds
<1>23. ASSUME Crash PROVE OneLivePerKey'
  BY <1>23 DEF Crash
<1>24. ASSUME NEW h \in {"ready", "paused", "stopped"}, Boot(h) PROVE OneLivePerKey'
  BY <1>24 DEF Boot, Reopened
<1>25. CASE UNCHANGED vars
  BY <1>25 DEF vars
<1> QED
  BY <1>1, <1>2, <1>3, <1>4, <1>5, <1>6, <1>7, <1>8, <1>9, <1>10, <1>11, <1>12, <1>13, <1>14, <1>15, <1>16, <1>17, <1>18, <1>19, <1>20, <1>21, <1>22, <1>23, <1>24, <1>25 DEF Next, Request, Activity, Sweep

-----------------------------------------------------------------------------
(* The refinement of JobService                                            *)

\* What clients learn of a job the host holds, of one they do not know, and of
\* one that is being removed.
LEMMA SeenFacts ==
  ASSUME SInv, NEW j \in Jobs
  PROVE  /\ up /\ j \in mem \cap known => Seen(j) = status[j]
         /\ pc[j] # "idle" => up /\ j \in mem \cap known /\ Seen(j) = status[j]
         /\ j \notin known => Seen(j) = "unknown"
         /\ j \in removing => up /\ j \in known \ mem /\ Seen(j) = "gone"
<1>1. /\ j \notin known => pc[j] = "idle" /\ disk[j] = "none"
      /\ j \in known \cap (mem \cup removing) => disk[j] # "none"
      /\ j \in removing => j \in known \ mem
      /\ pc[j] # "idle" => j \in mem
  BY DEF SInv, KnownInv
<1>2. (~up => mem = {} /\ removing = {}) /\ up \in BOOLEAN
  BY DEF SInv, IInv, TypeOK, DownInv, HaltedInv
<1> QED
  BY <1>1, <1>2 DEF Seen

\* A step that changes what clients learn of one job is a step of the service.
LEMMA SeenMoves ==
  ASSUME NEW j \in Jobs, NEW s,
         Seen(j)' = s, \A i \in Jobs : i # j => Seen(i)' = Seen(i),
         known' = known, key' = key
  PROVE  Service!To(j, s)
  BY DEF Service!To

\* A step that changes nothing clients learn is a stutter of the service.
LEMMA SeenStutters ==
  ASSUME \A i \in Jobs : Seen(i)' = Seen(i), known' = known,
         \A i \in known : key'[i] = key[i]
  PROVE  UNCHANGED Service!serviceVars
  BY DEF Service!serviceVars

\* What a restart may show: a file never states an end memory does not.
LEMMA SeenAfterCrash ==
  ASSUME SInv, up, NEW j \in Jobs, disk[j] # "none"
  PROVE  Reopened(disk[j]) \in Service!AfterRestart(Seen(j)) \cap Service!Statuses
<1> USE DEF Terminal, Failures
<1>1. /\ disk[j] = "completed" => status[j] = "completed"
      /\ disk[j] \in Failures => status[j] \in Failures \cup {"cleanup-failed"}
  BY DEF SInv, FileInv
<1>2. /\ status[j] \in {"awaiting-upload", "uploading", "running", "cleanup-failed"} \cup Terminal
      /\ disk[j] \in {"awaiting-upload", "uploading", "running", "cleanup-failed"} \cup Terminal
  BY DEF SInv, IInv, TypeOK, Statuses, Live
<1>3. Reopened(disk[j]) \in Terminal
  BY DEF Reopened
<1>4. CASE j \notin mem
  BY <1>3, <1>4 DEF Seen, Service!AfterRestart, Service!Live, Service!Running, Service!Ended, Service!Statuses
<1>5. CASE j \in mem
  <2>1. Seen(j) = status[j]
    BY <1>5 DEF Seen
  <2>2. /\ Reopened(disk[j]) = "completed" => status[j] = "completed"
        /\ Reopened(disk[j]) \in Failures => status[j] \in Failures \cup {"cleanup-failed"}
    BY <1>1 DEF Reopened
  <2> QED
    BY <1>2, <1>3, <2>1, <2>2 DEF Service!AfterRestart, Service!Live, Service!Running, Service!Ended, Service!Statuses
<1> QED
  BY <1>4, <1>5

\* Every step of the host is a step of the service it implements, or no step at all.
LEMMA ServiceStepSim == SInv /\ [Next]_vars => [Service!ServiceNext]_(Service!serviceVars)
<1> SUFFICES ASSUME SInv, [Next]_vars PROVE [Service!ServiceNext]_(Service!serviceVars)
  OBVIOUS
<1> USE DEF SInv, IInv, TypeOK, jobVars, fileVars, Update, Persist, Goto
<1>1. ASSUME NEW j \in Jobs, NEW k \in Keys, CreateNew(j, k) PROVE [Service!ServiceNext]_(Service!serviceVars)
  <2>1. j \notin known
    BY <1>1 DEF CreateNew, KnownInv
  <2>2. (\A i \in Jobs : Seen(i)' = Seen(i)) /\ known' = known /\ \A i \in known : key'[i] = key[i]
    BY <1>1, <2>1 DEF CreateNew, Seen, KnownInv
  <2> QED
    BY <2>2, SeenStutters
<1>2. ASSUME NEW j \in Jobs, CreateAgain(j) PROVE [Service!ServiceNext]_(Service!serviceVars)
  <2>1. (\A i \in Jobs : Seen(i)' = Seen(i)) /\ known' = known /\ \A i \in known : key'[i] = key[i]
    BY <1>2 DEF CreateAgain, Seen
  <2> QED
    BY <2>1, SeenStutters
<1>3. ASSUME NEW j \in Jobs, AnswerAgain(j) PROVE [Service!ServiceNext]_(Service!serviceVars)
  <2>1. known' = known
    BY <1>3 DEF AnswerAgain, KnownInv
  <2>2. (\A i \in Jobs : Seen(i)' = Seen(i)) /\ \A i \in known : key'[i] = key[i]
    BY <1>3, <2>1 DEF AnswerAgain, Seen
  <2> QED
    BY <2>1, <2>2, SeenStutters
<1>4. ASSUME NEW j \in Jobs, Upload(j) PROVE [Service!ServiceNext]_(Service!serviceVars)
  <2>1. up /\ j \in mem \cap known /\ Seen(j) = status[j] /\ status[j] = "awaiting-upload"
    BY <1>4, SeenFacts DEF Upload, AcceptsInput
  <2>2. Seen(j)' = "uploading" /\ (\A i \in Jobs : i # j => Seen(i)' = Seen(i)) /\ known' = known /\ key' = key
    BY <1>4, <2>1 DEF Upload, Seen, KnownInv
  <2>3. ASSUME NEW i \in Jobs PROVE Seen(i) \notin {"uploading", "running"}
    <3>1. i \in mem /\ status[i] \in {"uploading", "running"} => lane = i
      BY DEF EndPhaseInv, LaneExclusive
    <3>2. lane # i
      BY <1>4, JobsAssumption DEF Upload, CanAdmit
    <3> QED
      BY <2>1, <3>1, <3>2 DEF Seen
  <2>4. Service!StartUpload(j)
    BY <2>1, <2>2, <2>3, SeenMoves DEF Service!StartUpload, Service!Running
  <2> QED
    BY <2>4 DEF Service!ServiceNext, Service!ServiceStep
<1>5. ASSUME NEW j \in Jobs, Cancel(j) PROVE [Service!ServiceNext]_(Service!serviceVars)
  <2>1. CASE CancelsAtOnce(j)
    <3>1. up /\ j \in mem \cap known /\ Seen(j) = status[j] /\ status[j] = "awaiting-upload"
      BY <1>5, <2>1, SeenFacts DEF Cancel, CancelsAtOnce
    <3>2. Seen(j)' = "cancelled" /\ (\A i \in Jobs : i # j => Seen(i)' = Seen(i)) /\ known' = known /\ key' = key
      BY <1>5, <2>1, <3>1 DEF Cancel, Seen, KnownInv
    <3>3. Service!CancelWaiting(j)
      BY <3>1, <3>2, SeenMoves DEF Service!CancelWaiting
    <3> QED
      BY <3>3 DEF Service!ServiceNext, Service!ServiceStep
  <2>2. CASE ~CancelsAtOnce(j)
    <3>1. (\A i \in Jobs : Seen(i)' = Seen(i)) /\ known' = known /\ \A i \in known : key'[i] = key[i]
      BY <1>5, <2>2 DEF Cancel, Seen
    <3> QED
      BY <3>1, SeenStutters
  <2> QED
    BY <2>1, <2>2
<1>6. ASSUME NEW j \in Jobs, StreamDone(j) PROVE [Service!ServiceNext]_(Service!serviceVars)
  <2>1. up /\ j \in mem \cap known /\ Seen(j) = status[j]
    BY <1>6, SeenFacts DEF StreamDone, PhaseInv
  <2>2. Seen(j)' = "running" /\ (\A i \in Jobs : i # j => Seen(i)' = Seen(i)) /\ known' = known /\ key' = key
    BY <1>6, <2>1 DEF StreamDone, Seen, KnownInv
  <2>3. Service!StartRun(j)
    BY <1>6, <2>1, <2>2, SeenMoves DEF StreamDone, Service!StartRun, PhaseInv
  <2> QED
    BY <2>3 DEF Service!ServiceNext, Service!ServiceStep
<1>7. ASSUME NEW j \in Jobs, StreamFails(j) PROVE [Service!ServiceNext]_(Service!serviceVars)
  <2>1. (\A i \in Jobs : Seen(i)' = Seen(i)) /\ known' = known /\ \A i \in known : key'[i] = key[i]
    BY <1>7 DEF StreamFails, Seen
  <2> QED
    BY <2>1, SeenStutters
<1>8. ASSUME NEW j \in Jobs, ExecReturns(j) PROVE [Service!ServiceNext]_(Service!serviceVars)
  <2>1. (\A i \in Jobs : Seen(i)' = Seen(i)) /\ known' = known /\ \A i \in known : key'[i] = key[i]
    BY <1>8 DEF ExecReturns, Seen
  <2> QED
    BY <2>1, SeenStutters
<1>9. ASSUME NEW j \in Jobs, ExecFails(j) PROVE [Service!ServiceNext]_(Service!serviceVars)
  <2>1. (\A i \in Jobs : Seen(i)' = Seen(i)) /\ known' = known /\ \A i \in known : key'[i] = key[i]
    BY <1>9 DEF ExecFails, Seen
  <2> QED
    BY <2>1, SeenStutters
<1>10. ASSUME NEW j \in Jobs, NEW b \in BOOLEAN, Delete(j, b) PROVE [Service!ServiceNext]_(Service!serviceVars)
  <2>1. CASE Publishes(j, b)
    <3>1. up /\ j \in mem \cap known /\ Seen(j) = status[j] /\ status[j] = "running"
      BY <1>10, <2>1, SeenFacts DEF Delete, PhaseInv
    <3>2. Seen(j)' = "completed" /\ (\A i \in Jobs : i # j => Seen(i)' = Seen(i)) /\ known' = known /\ key' = key
      BY <1>10, <2>1, <3>1 DEF Delete, Seen, KnownInv
    <3>3. Service!Complete(j)
      BY <3>1, <3>2, SeenMoves DEF Service!Complete
    <3> QED
      BY <3>3 DEF Service!ServiceNext, Service!ServiceStep
  <2>2. CASE ~Publishes(j, b)
    <3>1. (\A i \in Jobs : Seen(i)' = Seen(i)) /\ known' = known /\ \A i \in known : key'[i] = key[i]
      BY <1>10, <2>2 DEF Delete, Seen
    <3> QED
      BY <3>1, SeenStutters
  <2> QED
    BY <2>1, <2>2
<1>11. ASSUME NEW j \in Jobs, NEW b \in BOOLEAN, DropInput(j, b) PROVE [Service!ServiceNext]_(Service!serviceVars)
  <2>1. /\ up /\ j \in mem \cap known /\ Seen(j) = status[j]
        /\ status[j] \in {"uploading", "running", "completed"}
    BY <1>11, SeenFacts DEF DropInput, EndPhaseInv
  <2>2. Seen(j)' = EndStatus(j) /\ (\A i \in Jobs : i # j => Seen(i)' = Seen(i)) /\ known' = known /\ key' = key
    BY <1>11, <2>1 DEF DropInput, Seen, KnownInv
  <2>3. EndStatus(j) \in {"failed", "cancelled"}
    BY DEF EndStatus
  <2>4. Service!To(j, EndStatus(j))
    BY <2>2, SeenMoves
  <2>5. Service!Fail(j, EndStatus(j)) \/ Service!Withdraw(j, EndStatus(j))
    BY <2>1, <2>3, <2>4 DEF Service!Fail, Service!Withdraw, Service!Running
  <2>6. \E s \in {"failed", "cancelled"} : Service!Fail(j, s) \/ Service!Withdraw(j, s)
    BY <2>3, <2>5
  <2> QED
    BY <2>6 DEF Service!ServiceNext, Service!ServiceStep
<1>12. ASSUME NEW j \in Jobs, CleanupDone(j) PROVE [Service!ServiceNext]_(Service!serviceVars)
  <2>1. (\A i \in Jobs : Seen(i)' = Seen(i)) /\ known' = known /\ \A i \in known : key'[i] = key[i]
    BY <1>12 DEF CleanupDone, Seen
  <2> QED
    BY <2>1, SeenStutters
<1>13. ASSUME NEW j \in Jobs, CleanupFails(j) PROVE [Service!ServiceNext]_(Service!serviceVars)
  <2>1. up /\ j \in mem \cap known /\ Seen(j) = status[j]
    BY <1>13, SeenFacts DEF CleanupFails, EndPhaseInv, InputInv
  <2>2. Seen(j)' = "cleanup-failed" /\ (\A i \in Jobs : i # j => Seen(i)' = Seen(i)) /\ known' = known /\ key' = key
    BY <1>13, <2>1 DEF CleanupFails, Seen, KnownInv
  <2>3. Service!KeepInput(j)
    BY <1>13, <2>1, <2>2, SeenMoves DEF CleanupFails, Service!KeepInput, EndPhaseInv, InputInv
  <2> QED
    BY <2>3 DEF Service!ServiceNext, Service!ServiceStep
<1>14. ASSUME NEW j \in Jobs, SweepCleanup(j) PROVE [Service!ServiceNext]_(Service!serviceVars)
  <2>1. up /\ j \in mem \cap known /\ Seen(j) = status[j]
    BY <1>14, SeenFacts DEF SweepCleanup, KnownInv
  <2>2. Seen(j)' = "failed" /\ (\A i \in Jobs : i # j => Seen(i)' = Seen(i)) /\ known' = known /\ key' = key
    BY <1>14, <2>1 DEF SweepCleanup, Seen, KnownInv
  <2>3. Service!RetryDelete(j)
    BY <1>14, <2>1, <2>2, SeenMoves DEF SweepCleanup, Service!RetryDelete
  <2> QED
    BY <2>3 DEF Service!ServiceNext, Service!ServiceStep
<1>15. ASSUME NEW j \in Jobs, ExpireStart(j) PROVE [Service!ServiceNext]_(Service!serviceVars)
  <2>0. ~Creating(j)
    BY <1>15 DEF ExpireStart, PendingWrite, Creating
  <2>1. up /\ j \in mem \cap known /\ Seen(j) = status[j]
    BY <1>15, <2>0, SeenFacts DEF ExpireStart, KnownInv
  <2>2. Seen(j)' = "gone" /\ (\A i \in Jobs : i # j => Seen(i)' = Seen(i)) /\ known' = known /\ key' = key
    BY <1>15, <2>1 DEF ExpireStart, Seen, KnownInv
  <2>3. Service!Forget(j)
    BY <1>15, <2>1, <2>2, SeenMoves DEF ExpireStart, Service!Forget, Terminal
  <2> QED
    BY <2>3 DEF Service!ServiceNext, Service!ServiceStep
<1>16. ASSUME NEW j \in Jobs, ExpireDone(j) PROVE [Service!ServiceNext]_(Service!serviceVars)
  <2>1. (\A i \in Jobs : Seen(i)' = Seen(i)) /\ known' = known /\ \A i \in known : key'[i] = key[i]
    BY <1>16 DEF ExpireDone, KnownInv, Seen
  <2> QED
    BY <2>1, SeenStutters
<1>17. ASSUME NEW j \in Jobs, ExpireFails(j) PROVE [Service!ServiceNext]_(Service!serviceVars)
  <2>1. up /\ j \in known \ mem /\ Seen(j) = "gone" /\ disk[j] # "none" /\ status[j] \in Terminal \cup {"awaiting-upload"}
    BY <1>17, SeenFacts DEF ExpireFails, KnownInv
  <2>2. Seen(j)' = status[j] /\ (\A i \in Jobs : i # j => Seen(i)' = Seen(i)) /\ known' = known /\ key' = key
    BY <1>17, <2>1 DEF ExpireFails, Seen
  <2>3. Service!To(j, status[j])
    BY <2>2, SeenMoves
  <2>4. Service!Recall(j)
    BY <2>1, <2>3 DEF Service!Recall, Terminal
  <2> QED
    BY <2>4 DEF Service!ServiceNext, Service!ServiceStep
<1>18. ASSUME NEW j \in Jobs, BootFails(j) PROVE [Service!ServiceNext]_(Service!serviceVars)
  <2>1. (\A i \in Jobs : Seen(i)' = Seen(i)) /\ known' = known /\ \A i \in known : key'[i] = key[i]
    BY <1>18 DEF BootFails, Reopened, Terminal, DownInv, Seen
  <2> QED
    BY <2>1, SeenStutters
<1>19. ASSUME NEW b \in BOOLEAN, WriteSettles(b) PROVE [Service!ServiceNext]_(Service!serviceVars)
  <2> DEFINE w == Head(writes)
  <2>0. PICK j \in Jobs : j = w.job
    BY <1>19, TailAt DEF WriteSettles
  <2>1. /\ w = writes[1] /\ 1 \in 1..Len(writes) /\ w.job = j /\ w.st \in Statuses
    BY <1>19, <2>0, TailAt DEF WriteSettles
  <2>2. j \in mem /\ (w.waiter = "create" <=> j \notin known)
    BY <2>1 DEF PendingInv
  <2>3. /\ up /\ UNCHANGED <<up, key, status>>
        /\ disk' = IF b THEN [disk EXCEPT ![j] = w.st] ELSE disk
        /\ mem' = IF w.waiter = "create" /\ ~b THEN mem \ {j} ELSE mem
        /\ known' = IF w.waiter = "create" /\ b THEN known \cup {j} ELSE known
    BY <1>19, <2>0 DEF WriteSettles
  <2>4. w.st # "none"
    BY <2>1 DEF Statuses, Live, Terminal
  <2>5. CASE w.waiter = "create" /\ b
    <3>1. Seen(j) = "unknown" /\ status[j] = "awaiting-upload"
      BY <2>1, <2>2, <2>5, SeenFacts DEF KnownInv
    <3>2. Seen(j)' = "awaiting-upload" /\ \A i \in Jobs : i # j => Seen(i)' = Seen(i)
      BY <2>1, <2>2, <2>3, <2>4, <2>5, <3>1 DEF Seen
    <3>3. PICK k \in Keys : k = key[j]
      BY <2>1, <2>2 DEF UnissuedInv
    <3>4. known' = known \cup {j} /\ key' = key
      BY <2>3, <2>5
    <3>5. Service!Accept(j, k)
      BY <2>1, <2>2, <2>5, <3>1, <3>2, <3>3, <3>4 DEF Service!Accept
    <3> QED
      BY <3>5 DEF Service!ServiceNext, Service!ServiceStep
  <2>6. CASE w.waiter = "create" /\ ~b
    <3>1. disk[j] = "none" /\ j \notin known /\ known' = known /\ key' = key
      BY <2>1, <2>2, <2>3, <2>6 DEF KnownInv
    <3>2. \A i \in Jobs : Seen(i)' = Seen(i)
      BY <2>1, <2>3, <2>6, <3>1 DEF Seen
    <3> QED
      BY <3>1, <3>2, SeenStutters
  <2>7. CASE w.waiter # "create"
    <3>1. disk[j] # "none" /\ known' = known /\ key' = key /\ mem' = mem
      BY <2>1, <2>2, <2>3, <2>7 DEF KnownInv
    <3>2. \A i \in Jobs : Seen(i)' = Seen(i)
      BY <2>1, <2>2, <2>3, <2>4, <2>7, <3>1 DEF Seen
    <3> QED
      BY <3>1, <3>2, SeenStutters
  <2> QED
    BY <2>5, <2>6, <2>7
<1>20. ASSUME NEW h \in {"ready", "paused", "stopped"}, Apply(h) PROVE [Service!ServiceNext]_(Service!serviceVars)
  <2>1. (\A i \in Jobs : Seen(i)' = Seen(i)) /\ known' = known /\ \A i \in known : key'[i] = key[i]
    BY <1>20 DEF Apply, Seen
  <2> QED
    BY <2>1, SeenStutters
<1>21. ASSUME OtherStarts PROVE [Service!ServiceNext]_(Service!serviceVars)
  <2>1. (\A i \in Jobs : Seen(i)' = Seen(i)) /\ known' = known /\ \A i \in known : key'[i] = key[i]
    BY <1>21 DEF OtherStarts, Seen
  <2> QED
    BY <2>1, SeenStutters
<1>22. ASSUME OtherEnds PROVE [Service!ServiceNext]_(Service!serviceVars)
  <2>1. (\A i \in Jobs : Seen(i)' = Seen(i)) /\ known' = known /\ \A i \in known : key'[i] = key[i]
    BY <1>22 DEF OtherEnds, Seen
  <2> QED
    BY <2>1, SeenStutters
<1>23. ASSUME Crash PROVE [Service!ServiceNext]_(Service!serviceVars)
  <2>1. up /\ up' = FALSE /\ UNCHANGED <<key, disk, known>>
    BY <1>23 DEF Crash
  <2>2. ASSUME NEW j \in Jobs PROVE Seen(j)' \in Service!AfterRestart(Seen(j)) \cap Service!Statuses
    <3>1. CASE disk[j] = "none"
      BY <2>1, <3>1 DEF Seen, Service!AfterRestart, Service!Live, Service!Running, Service!Ended, Service!Statuses
    <3>2. CASE disk[j] # "none"
      <4>1. Seen(j)' = Reopened(disk[j])
        BY <2>1, <3>2 DEF Seen, Reopened
      <4> QED
        BY <2>1, <3>2, <4>1, SeenAfterCrash
    <3> QED
      BY <3>1, <3>2
  <2>3. Service!Restart
    BY <2>1, <2>2 DEF Service!Restart
  <2> QED
    BY <2>3 DEF Service!ServiceNext
<1>24. ASSUME NEW h \in {"ready", "paused", "stopped"}, Boot(h) PROVE [Service!ServiceNext]_(Service!serviceVars)
  <2>1. (\A i \in Jobs : Seen(i)' = Seen(i)) /\ known' = known /\ \A i \in known : key'[i] = key[i]
    BY <1>24 DEF Boot, Reopened, Terminal, KnownInv, Seen
  <2> QED
    BY <2>1, SeenStutters
<1>25. CASE UNCHANGED vars
  <2>1. (\A i \in Jobs : Seen(i)' = Seen(i)) /\ known' = known /\ \A i \in known : key'[i] = key[i]
    BY <1>25 DEF vars, Seen
  <2> QED
    BY <2>1, SeenStutters
<1> QED
  BY <1>1, <1>2, <1>3, <1>4, <1>5, <1>6, <1>7, <1>8, <1>9, <1>10, <1>11, <1>12, <1>13, <1>14, <1>15, <1>16, <1>17, <1>18, <1>19, <1>20, <1>21, <1>22, <1>23, <1>24, <1>25 DEF Next, Request, Activity, Sweep

-----------------------------------------------------------------------------
(* Theorems                                                                *)

\* A new host satisfies the invariant.
LEMMA InitSInv == Init => SInv /\ InputOwned /\ OneLivePerKey
<1> SUFFICES ASSUME Init PROVE SInv /\ InputOwned /\ OneLivePerKey
  OBVIOUS
<1>1. IInv
  BY InitIInv
<1>2. /\ HaltedInv /\ KnownInv /\ EndPhaseInv /\ InputOwned /\ OneLivePerKey
  BY DEF Init, HaltedInv, KnownInv, EndPhaseInv, InputOwned, OneLivePerKey
<1>3. PendingInv /\ FileInv /\ LastWriteInv
  BY EmptyQueue DEF Init, PendingInv, FileInv, LastWriteInv, Failures
<1> QED
  BY <1>1, <1>2, <1>3 DEF SInv

\* Every step keeps it.
LEMMA StepSInv == SInv /\ [Next]_vars => SInv'
<1> SUFFICES ASSUME SInv, [Next]_vars PROVE SInv'
  OBVIOUS
<1>1. IInv'
  BY StepIInv DEF SInv
<1>2. HaltedInv' /\ KnownInv' /\ PendingInv' /\ EndPhaseInv' /\ FileInv' /\ LastWriteInv'
  BY HaltedStep, KnownStep, PendingStep, EndPhaseStep, FileStep, LastWriteStep
<1> QED
  BY <1>1, <1>2 DEF SInv

\* Memory, the files, the write chain, the phases of an activity and what clients
\* know agree in every reachable state.
THEOREM ServiceInvariant == Spec => []SInv
  BY InitSInv, StepSInv, PTL DEF Spec

\* An input file is never orphaned: while the host runs, it belongs to an activity
\* that will delete it or to a visible cleanup-failed job the next sweep retries.
THEOREM InputAlwaysOwned == Spec => []InputOwned
<1>1. SInv /\ InputOwned /\ [Next]_vars => InputOwned'
  BY OwnedStep
<1> QED
  BY <1>1, InitSInv, ServiceInvariant, PTL DEF Spec

\* An identity given to a client has its file, for a repeated create() too, and
\* so survives a crash at any step.
THEOREM AnsweredSurvives == Spec => []AnsweredIsDurable
<1>1. SInv => AnsweredIsDurable
  BY DEF SInv, IInv, TypeOK, KnownInv, AnsweredIsDurable
<1> QED
  BY <1>1, ServiceInvariant, PTL

\* The chain of writes never leaves a file older than memory: whatever is pending,
\* the last write of a job carries its current status.
THEOREM LastWriteWins == Spec => []LastWriteIsCurrent
<1>1. SInv => LastWriteIsCurrent
  <2> SUFFICES ASSUME SInv PROVE LastWriteIsCurrent
    OBVIOUS
  <2>1. DOMAIN writes = 1..Len(writes) /\ mem \subseteq Jobs
    BY LenProperties DEF SInv, IInv, TypeOK
  <2> QED
    BY <2>1 DEF SInv, LastWriteInv, LastWriteIsCurrent
<1> QED
  BY <1>1, ServiceInvariant, PTL

\* Two jobs that may still execute never share an idempotency key, as long as an
\* expired job's file can be unlinked (a job whose file stays is answered for again,
\* beside the one created meanwhile under its key).
THEOREM OneLiveJobPerKey ==
  ASSUME DeleteMayFail = FALSE
  PROVE  Spec => []OneLivePerKey
<1>1. SInv /\ OneLivePerKey /\ [Next]_vars => OneLivePerKey'
  BY OneLiveStep
<1> QED
  BY <1>1, InitSInv, ServiceInvariant, PTL DEF Spec

\* The host, with its memory, files, write chain and crashes, implements the
\* service its clients are modelled against.
THEOREM HostImplementsService == Spec => ImplementsService
<1>1. Init => Service!ServiceInit
  BY DEF Init, Seen, Service!ServiceInit
<1>2. SInv /\ [Next]_vars => [Service!ServiceNext]_(Service!serviceVars)
  BY ServiceStepSim
<1> QED
  BY <1>1, <1>2, ServiceInvariant, PTL DEF Spec, ImplementsService, Service!ServiceSpec

=============================================================================
