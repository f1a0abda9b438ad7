------------------------- MODULE BrainOwnershipProofs ------------------------
(***************************************************************************)
(* Theorems about who owns the database and the lock, for any number of    *)
(* headless brains and of faults.                                          *)
(***************************************************************************)
EXTENDS BrainOwnership, TLAPS

USE BrainsAssumption

\* Whoever writes the database holds the single-instance lock; a probe has
\* something to probe.
Held ==
  /\ \A b \in Brains : pc[b] \in {"marking", "upgrading"} => single = b
  /\ app # "off" => single = "app"
ProbesOne == step = "probe" => seen["app"] \in Brains \union {"dead"}

IInv == TypeOK /\ Held /\ ProbesOne

Stages == {"none", "probe", "open", "locking", "marking", "upgrading", "grace", "elsewhere",
           "serve", "up"} \union Writing \union Leaving

\* The type invariant in four parts.
FilesType ==
  /\ lock \in Owners /\ single \in Owners \ {"dead"} /\ marker \in Brains \union {"none"}
  /\ behind \in BOOLEAN /\ faults \in 0..MaxFaults
BrainType == pc \in [Brains -> Stages] /\ seen \in [Brains \union {"app"} -> Owners]
AppType ==
  /\ app \in {"off", "boot", "open", "unlink", "closing"}
  /\ call \in {"none", "start", "watch"} /\ step \in {"none", "probe", "ask", "wait", "go"}
  /\ (call = "none" <=> step = "none") /\ (step \in {"ask", "wait"} => seen["app"] \in Brains)
  /\ (app \in {"off", "boot", "closing"} => ~answers) /\ (call # "none" => app \notin {"off", "boot"})
ClickType == answers \in BOOLEAN /\ clicked \in BOOLEAN /\ opening \in BOOLEAN /\ owed \in BOOLEAN

LEMMA TypeParts == TypeOK <=> FilesType /\ BrainType /\ AppType /\ ClickType
BY DEF TypeOK, FilesType, BrainType, AppType, ClickType, Stages

\* And so after a step.
LEMMA PartsPrimed ==
  ASSUME FilesType', BrainType', AppType', ClickType', Held', ProbesOne'
  PROVE  IInv'
BY DEF IInv, TypeOK, FilesType, BrainType, AppType, ClickType, Stages

-----------------------------------------------------------------------------
(* The headless brains                                                     *)

\* Each step of a headless brain, the faults included, keeps the invariant: it
\* writes the database only with the single-instance lock.
LEMMA BrainStep ==
  ASSUME IInv, NEW b \in Brains, Begin(b) \/ Working(b) \/ Idle(b) \/ Crash(b)
  PROVE  IInv'
<1> USE DEF IInv, TypeOK, Held, ProbesOne, Owners, Writing, Leaving, Goto, Sees, Fine, Fault, Exit,
            Orphan, files, brain, desk, clicks
<1>1. CASE Begin(b)
  BY <1>1 DEF Begin
<1>2. CASE Probe(b)
  BY <1>2 DEF Probe, Probed
<1>3. CASE Open(b)
  BY <1>3 DEF Open
<1>4. CASE TakeLock(b)
  <2>1. FilesType' /\ BrainType'
    BY <1>4 DEF TakeLock, FilesType, BrainType, Stages
  <2>2. AppType' /\ Held' /\ ProbesOne'
    BY <1>4 DEF TakeLock, AppType
  <2>3. ClickType'
    BY <1>4, ZenonT(30) DEF TakeLock, ClickType
  <2> QED
    BY <2>1, <2>2, <2>3, PartsPrimed
<1>5. CASE Mark(b)
  BY <1>5 DEF Mark
<1>6. CASE UpgradeEnds(b)
  <2>1. FilesType' /\ BrainType'
    <3>1. lock' \in Owners /\ faults' \in 0..MaxFaults
      BY <1>6 DEF UpgradeEnds
    <3>2. marker' = "none" /\ single' = "none" /\ behind' \in BOOLEAN
      BY <1>6 DEF UpgradeEnds
    <3>3. BrainType'
      BY <1>6 DEF UpgradeEnds, BrainType, Stages
    <3> QED
      BY <3>1, <3>2, <3>3 DEF FilesType
  <2>2. AppType' /\ Held' /\ ProbesOne'
    BY <1>6 DEF UpgradeEnds, AppType
  <2>3. ClickType'
    BY <1>6, ZenonT(30) DEF UpgradeEnds, ClickType
  <2> QED
    BY <2>1, <2>2, <2>3, PartsPrimed
<1>7. CASE Grace(b)
  BY <1>7 DEF Grace
<1>8. CASE Elsewhere(b)
  BY <1>8 DEF Elsewhere
<1>9. CASE Serve(b)
  BY <1>9 DEF Serve, Claim
<1>10. CASE ProbeAgain(b)
  BY <1>10 DEF ProbeAgain, Probed, Claim
<1>11. CASE Write(b)
  BY <1>11 DEF Write
<1>12. CASE Confirm(b)
  BY <1>12 DEF Confirm
<1>13. CASE Watch(b)
  BY <1>13 DEF Watch
<1>14. CASE Idle(b)
  BY <1>14 DEF Idle
<1>15. CASE Leave(b)
  BY <1>15 DEF Leave
<1>16. CASE Unlink(b)
  BY <1>16 DEF Unlink
<1>17. CASE Close(b)
  BY <1>17 DEF Close
<1>18. CASE Crash(b)
  <2>1. FilesType' /\ BrainType'
    BY <1>18 DEF Crash, FilesType, BrainType, Stages
  <2>2. AppType' /\ Held' /\ ProbesOne'
    BY <1>18 DEF Crash, AppType
  <2>3. ClickType'
    BY <1>18, ZenonT(30) DEF Crash, ClickType
  <2> QED
    BY <2>1, <2>2, <2>3, PartsPrimed
<1> QED
  BY <1>1, <1>2, <1>3, <1>4, <1>5, <1>6, <1>7, <1>8, <1>9, <1>10, <1>11, <1>12, <1>13, <1>14, <1>15,
     <1>16, <1>17, <1>18 DEF Working

-----------------------------------------------------------------------------
(* The app                                                                 *)

\* Each step of the app keeps the invariant.
LEMMA AppStep ==
  ASSUME IInv, Launch \/ AppWorking \/ Quit \/ AppCrash
  PROVE  IInv'
<1> USE DEF IInv, TypeOK, Held, ProbesOne, Owners, Sees, Fine, Fault, Orphan, files, brain, desk, clicks
<1>1. CASE Launch
  <2>1. FilesType' /\ BrainType'
    BY <1>1 DEF Launch, Asks, FilesType, BrainType, Stages
  <2>2. AppType' /\ Held' /\ ProbesOne'
    BY <1>1 DEF Launch, Asks, AppType
  <2>3. ClickType'
    BY <1>1, ZenonT(30) DEF Launch, Asks, ClickType
  <2> QED
    BY <2>1, <2>2, <2>3, PartsPrimed
<1>2. CASE Opens
  <2>1. FilesType' /\ BrainType'
    BY <1>2 DEF Opens, Asks, FilesType, BrainType, Stages
  <2>2. AppType' /\ Held' /\ ProbesOne'
    BY <1>2 DEF Opens, Asks, AppType
  <2>3. ClickType'
    BY <1>2, ZenonT(30) DEF Opens, Asks, ClickType
  <2> QED
    BY <2>1, <2>2, <2>3, PartsPrimed
<1>3. CASE Boot
  <2>1. FilesType' /\ BrainType'
    BY <1>3 DEF Boot, Displaces, Returns, Claims, FilesType, BrainType, Stages
  <2>2. AppType' /\ Held' /\ ProbesOne'
    BY <1>3 DEF Boot, Displaces, Returns, Claims, AppType
  <2>3. ClickType'
    BY <1>3, ZenonT(30) DEF Boot, Displaces, Returns, Claims, ClickType
  <2> QED
    BY <2>1, <2>2, <2>3, PartsPrimed
<1>4. CASE AppProbe
  <2>1. FilesType' /\ BrainType'
    BY <1>4 DEF AppProbe, Returns, Claims, Alive, FilesType, BrainType, Stages
  <2>2. AppType' /\ Held' /\ ProbesOne'
    BY <1>4 DEF AppProbe, Returns, Claims, Alive, AppType
  <2>3. ClickType'
    BY <1>4, ZenonT(30) DEF AppProbe, Returns, Claims, Alive, ClickType
  <2> QED
    BY <2>1, <2>2, <2>3, PartsPrimed
<1>5. CASE AppAsk
  <2>1. FilesType' /\ BrainType'
    BY <1>5 DEF AppAsk, Leaving, FilesType, BrainType, Stages
  <2>2. AppType' /\ Held' /\ ProbesOne'
    BY <1>5 DEF AppAsk, Leaving, AppType
  <2>3. ClickType'
    BY <1>5, ZenonT(30) DEF AppAsk, Leaving, ClickType
  <2> QED
    BY <2>1, <2>2, <2>3, PartsPrimed
<1>6. CASE AppWait
  <2>1. FilesType' /\ BrainType'
    BY <1>6 DEF AppWait, Returns, Claims, FilesType, BrainType, Stages
  <2>2. AppType' /\ Held' /\ ProbesOne'
    BY <1>6 DEF AppWait, Returns, Claims, AppType
  <2>3. ClickType'
    BY <1>6, ZenonT(30) DEF AppWait, Returns, Claims, ClickType
  <2> QED
    BY <2>1, <2>2, <2>3, PartsPrimed
<1>7. CASE Starts
  <2>1. FilesType' /\ BrainType'
    BY <1>7 DEF Starts, Claims, FilesType, BrainType, Stages
  <2>2. AppType' /\ Held' /\ ProbesOne'
    BY <1>7 DEF Starts, Claims, AppType
  <2>3. ClickType'
    BY <1>7, ZenonT(30) DEF Starts, Claims, ClickType
  <2> QED
    BY <2>1, <2>2, <2>3, PartsPrimed
<1>8. CASE Watchdog
  <2>1. FilesType' /\ BrainType'
    BY <1>8 DEF Watchdog, Displaces, Returns, Claims, FilesType, BrainType, Stages
  <2>2. AppType' /\ Held' /\ ProbesOne'
    BY <1>8 DEF Watchdog, Displaces, Returns, Claims, AppType
  <2>3. ClickType'
    BY <1>8, ZenonT(30) DEF Watchdog, Displaces, Returns, Claims, ClickType
  <2> QED
    BY <2>1, <2>2, <2>3, PartsPrimed
<1>9. CASE Quit
  <2>1. FilesType' /\ BrainType'
    BY <1>9 DEF Quit, FilesType, BrainType, Stages
  <2>2. AppType' /\ Held' /\ ProbesOne'
    BY <1>9 DEF Quit, AppType
  <2>3. ClickType'
    BY <1>9, ZenonT(30) DEF Quit, ClickType
  <2> QED
    BY <2>1, <2>2, <2>3, PartsPrimed
<1>10. CASE AppUnlink
  <2>1. FilesType' /\ BrainType'
    BY <1>10 DEF AppUnlink, FilesType, BrainType, Stages
  <2>2. AppType' /\ Held' /\ ProbesOne'
    BY <1>10 DEF AppUnlink, AppType
  <2>3. ClickType'
    BY <1>10, ZenonT(30) DEF AppUnlink, ClickType
  <2> QED
    BY <2>1, <2>2, <2>3, PartsPrimed
<1>11. CASE AppExit
  <2>1. FilesType' /\ BrainType'
    BY <1>11 DEF AppExit, Ends, FilesType, BrainType, Stages
  <2>2. AppType' /\ Held' /\ ProbesOne'
    BY <1>11 DEF AppExit, Ends, AppType
  <2>3. ClickType'
    BY <1>11, ZenonT(30) DEF AppExit, Ends, ClickType
  <2> QED
    BY <2>1, <2>2, <2>3, PartsPrimed
<1>12. CASE AppCrash
  <2>1. FilesType' /\ BrainType'
    BY <1>12 DEF AppCrash, Ends, FilesType, BrainType, Stages
  <2>2. AppType' /\ Held' /\ ProbesOne'
    BY <1>12 DEF AppCrash, Ends, AppType
  <2>3. ClickType'
    BY <1>12, ZenonT(30) DEF AppCrash, Ends, ClickType
  <2> QED
    BY <2>1, <2>2, <2>3, PartsPrimed
<1> QED
  BY <1>1, <1>2, <1>3, <1>4, <1>5, <1>6, <1>7, <1>8, <1>9, <1>10, <1>11, <1>12 DEF AppWorking

-----------------------------------------------------------------------------
(* The theorems                                                            *)

LEMMA Initially == Init => IInv
<1> SUFFICES ASSUME Init PROVE IInv
  OBVIOUS
<1>1. FilesType /\ BrainType
  BY DEF Init, FilesType, BrainType, Owners, Stages
<1>2. AppType /\ ClickType /\ Held /\ ProbesOne
  BY DEF Init, AppType, ClickType, Held, ProbesOne
<1> QED
  BY <1>1, <1>2, TypeParts DEF IInv

LEMMA Inductive == IInv /\ [Next]_vars => IInv'
<1> SUFFICES ASSUME IInv, [Next]_vars PROVE IInv'
  OBVIOUS
<1>1. CASE UNCHANGED vars
  BY <1>1 DEF vars, files, brain, desk, clicks, IInv, TypeOK, Held, ProbesOne
<1>2. CASE Next
  BY <1>2, BrainStep, AppStep DEF Next
<1> QED
  BY <1>1, <1>2

LEMMA Invariant == Spec => []IInv
BY Initially, Inductive, PTL DEF Spec

\* The lock, the processes and their calls keep their types.
THEOREM OwnershipTypeCorrect == Spec => []TypeOK
<1>1. IInv => TypeOK
  BY DEF IInv
<1> QED
  BY <1>1, Invariant, PTL

\* The app and any number of headless brains, upgrading or refused, killed or slow,
\* never have the database open for writing at the same time.
THEOREM OneWriterAtATime == Spec => []OneWriter
<1>1. IInv => OneWriter
  BY DEF IInv, Held, OneWriter, Writers
<1> QED
  BY <1>1, Invariant, PTL

\* No call that was under way when the app began quitting makes it serve again.
THEOREM QuittingIsFinal == Spec => QuitIsFinal
<1> DEFINE Final == (app \in {"unlink", "closing"})
                      => (answers' => answers) /\ (lock' = "app" => lock = "app")
<1>1. IInv /\ [Next]_vars => Final
  <2> SUFFICES ASSUME IInv, [Next]_vars, app \in {"unlink", "closing"}
               PROVE  (answers' => answers) /\ (lock' = "app" => lock = "app")
    OBVIOUS
  <2>1. CASE UNCHANGED vars
    BY <2>1 DEF vars, files, desk
  <2>2. ASSUME NEW b \in Brains, Begin(b) \/ Working(b) \/ Idle(b) \/ Crash(b)
        PROVE  answers' = answers /\ (lock' = "app" => lock = "app")
    <3> USE DEF Exit, Orphan, files, desk
    <3>1. answers' = answers
      BY <2>2 DEF Begin, Working, Idle, Crash, Probe, Open, TakeLock, Mark, UpgradeEnds, Grace, Elsewhere,
                  Serve, ProbeAgain, Write, Confirm, Watch, Leave, Unlink, Close
    <3>2. lock' \in {lock, b, "none", "dead"}
      BY <2>2 DEF Begin, Working, Idle, Crash, Probe, Open, TakeLock, Mark, UpgradeEnds, Grace, Elsewhere,
                  Serve, ProbeAgain, Write, Confirm, Watch, Leave, Unlink, Close, Claim
    <3> QED
      BY <3>1, <3>2
  <2>3. CASE Launch \/ AppWorking \/ Quit \/ AppCrash
    <3> USE DEF files, desk
    <3>1. CASE Launch \/ Opens
      BY <3>1 DEF Launch, Opens, Asks
    <3>2. CASE Boot \/ Quit \/ Watchdog
      BY <3>2 DEF Boot, Quit, Watchdog
    <3>3. CASE AppProbe \/ AppWait
      BY <3>3 DEF AppProbe, AppWait, Returns
    <3>4. CASE AppAsk \/ Starts
      BY <3>4 DEF AppAsk, Starts
    <3>5. CASE AppUnlink \/ AppExit \/ AppCrash
      BY <3>5 DEF AppUnlink, AppExit, AppCrash, Ends, Orphan
    <3> QED
      BY <2>3, <3>1, <3>2, <3>3, <3>4, <3>5 DEF AppWorking
  <2> QED
    BY <2>1, <2>2, <2>3 DEF Next
<1> QED
  BY <1>1, Invariant, PTL DEF Spec, QuitIsFinal
=============================================================================
