--------------------------- MODULE BrainOwnership ---------------------------
(***************************************************************************)
(* Who answers the agents and who may write the database: the app while it *)
(* is open, or a headless brain started by an agent.  They agree through   *)
(* the lock file brain.json, health probes and the request to step down,   *)
(* and through the single-instance lock, which the app holds as long as it *)
(* runs and a headless brain while it upgrades the database.               *)
(*                                                                         *)
(* Processes interleave between any two accesses to the file system.       *)
(* Within a process, what follows an await may find the world changed.     *)
(***************************************************************************)
EXTENDS Naturals

CONSTANTS
  Brains,      \* headless processes, by instanceId: one is reused when nobody remembers it
  MaxFaults    \* bound on slow probes, refused file accesses, lost requests, crashes, and on
               \* accesses of another process between two of the same turn

ASSUME BrainsAssumption == {"none", "app", "dead"} \intersect Brains = {} /\ MaxFaults \in Nat

VARIABLES
  lock,     \* brain.json: "none", "app", a brain, or "dead" (it names a process that is gone)
  single,   \* holder of the single-instance lock
  marker,   \* brain-upgrading.json of a live process
  behind,   \* the schema on disk is older than this build
  pc,       \* where each headless process is
  seen,     \* the lock each process has read
  app,      \* the app's process
  call,     \* its pending startAppBrain or watchdog callback
  step,     \* where that call is
  answers,  \* the app's server, and with it its lock in memory
  clicked,  \* appLaunchRefused of the upgrading brain
  opening,  \* openApp has spawned a process that has not asked for the lock yet
  owed,     \* ghost: a refused launch was promised to open by itself
  faults    \* faults so far

files == <<lock, single, marker, behind>>
brain == <<pc, seen>>
desk == <<app, call, step, answers>>
clicks == <<clicked, opening, owed>>
vars == <<files, brain, desk, clicks, faults>>

Writing == {"probe2", "write", "confirm"}
Leaving == {"leave", "unlink", "close"}
\* its server answers /health
Serves(b) == pc[b] \in Writing \union {"up"} \union Leaving
Alive(x) == (x = "app" /\ answers) \/ (x \in Brains /\ Serves(x))
Owners == Brains \union {"none", "app", "dead"}

TypeOK ==
  /\ lock \in Owners /\ single \in Owners \ {"dead"} /\ marker \in Brains \union {"none"}
  /\ pc \in [Brains -> {"none", "probe", "open", "locking", "marking", "upgrading", "grace",
                        "elsewhere", "serve", "up"} \union Writing \union Leaving]
  /\ seen \in [Brains \union {"app"} -> Owners]
  /\ app \in {"off", "boot", "open", "unlink", "closing"}
  /\ call \in {"none", "start", "watch"} /\ step \in {"none", "probe", "ask", "wait", "go"}
  /\ (call = "none" <=> step = "none") /\ (step \in {"ask", "wait"} => seen["app"] \in Brains)
  /\ (app \in {"off", "boot", "closing"} => ~answers) /\ (call # "none" => app \notin {"off", "boot"})
  /\ behind \in BOOLEAN /\ answers \in BOOLEAN
  /\ clicked \in BOOLEAN /\ opening \in BOOLEAN /\ owed \in BOOLEAN
  /\ faults \in 0..MaxFaults

Init ==
  /\ lock = "none" /\ single = "none" /\ marker = "none" /\ behind \in BOOLEAN
  /\ pc = [b \in Brains |-> "none"] /\ seen = [x \in Brains \union {"app"} |-> "none"]
  /\ app = "off" /\ call = "none" /\ step = "none" /\ answers = FALSE
  /\ clicked = FALSE /\ opening = FALSE /\ owed = FALSE /\ faults = 0

Fault == faults < MaxFaults /\ faults' = faults + 1
Fine == faults' = faults
Goto(b, at) == pc' = [pc EXCEPT ![b] = at]
Sees(x, what) == seen' = [seen EXCEPT ![x] = what]
\* the process of x is gone: what brain.json says of it is stale
Orphan(x) == lock' = IF lock = x THEN "dead" ELSE lock
Exit(b) == Goto(b, "none") /\ Orphan(b) /\ Sees(b, "none")

\* probeBrain: a live server may also be too slow to answer
Probed(x, alive) ==
  \/ alive /\ Alive(x) /\ Fine
  \/ ~alive /\ ~Alive(x) /\ Fine
  \/ ~alive /\ Alive(x) /\ Fault

-----------------------------------------------------------------------------
\* A headless brain (runBrainOnly)

\* an agent starts one; it reads the lock
Begin(b) ==
  /\ pc[b] = "none" /\ lock # b /\ \A x \in DOMAIN seen : seen[x] # b
  /\ Goto(b, IF lock = "none" THEN "open" ELSE "probe") /\ Sees(b, lock)
  /\ UNCHANGED <<files, desk, clicks>> /\ Fine

\* never two: if something already answers, leave
Probe(b) ==
  /\ pc[b] = "probe"
  /\ \/ Probed(seen[b], TRUE) /\ Exit(b)
     \/ Probed(seen[b], FALSE) /\ Goto(b, "open") /\ lock' = lock /\ Sees(b, "none")
  /\ UNCHANGED <<single, marker, behind, desk, clicks>>

\* openDatabaseForReading
Open(b) ==
  /\ pc[b] = "open"
  /\ Goto(b, IF behind THEN "locking" ELSE "serve")
  /\ UNCHANGED <<files, seen, desk, clicks>> /\ Fine

\* upgradeDatabaseWhenAlone
TakeLock(b) ==
  /\ pc[b] = "locking"
  /\ IF single = "none" THEN single' = b /\ clicked' = FALSE /\ Goto(b, "marking")
                        ELSE UNCHANGED <<single, clicked>> /\ Goto(b, "grace")
  /\ UNCHANGED <<lock, marker, behind, seen, desk, opening, owed>> /\ Fine

\* markUpgrading is best effort
Mark(b) ==
  /\ pc[b] = "marking" /\ Goto(b, "upgrading")
  /\ \/ marker' = b /\ Fine
     \/ marker' = marker /\ Fault
  /\ UNCHANGED <<lock, single, behind, seen, desk, clicks>>

\* variant: only a successful upgrade opens the app the owner clicked
OpensIfUpgraded(b) ==
  /\ pc[b] = "upgrading" /\ marker' = "none" /\ single' = "none" /\ clicked' = FALSE
  /\ \/ behind' = FALSE /\ Goto(b, "serve") /\ UNCHANGED <<lock, seen>> /\ Fine /\ opening' = (opening \/ clicked)
     \/ behind' = behind /\ Exit(b) /\ Fault /\ opening' = opening
  /\ UNCHANGED <<desk, owed>>

\* the upgrade ends: marker, lock and the refused launch are settled even if it failed
UpgradeEnds(b) ==
  /\ pc[b] = "upgrading"
  /\ \/ behind' = FALSE /\ Goto(b, "serve") /\ UNCHANGED <<lock, seen>> /\ Fine
     \/ behind' = behind /\ Exit(b) /\ Fault
  /\ marker' = "none" /\ single' = "none"
  /\ opening' = (opening \/ clicked) /\ clicked' = FALSE
  /\ UNCHANGED <<desk, owed>>

\* variant: nobody seems to be upgrading, so this one does
GraceUpgrades(b) ==
  /\ pc[b] = "grace"
  /\ Goto(b, IF marker \in Brains \ {b} THEN "elsewhere" ELSE "upgrading")
  /\ UNCHANGED <<files, seen, desk, clicks>> /\ Fine

\* refused: another brain's marker turns up in two seconds, or the app has the database
Grace(b) ==
  /\ pc[b] = "grace"
  /\ \/ marker \in Brains \ {b} /\ Goto(b, "elsewhere") /\ UNCHANGED <<lock, seen>>
     \/ marker = "none" /\ Exit(b)
  /\ UNCHANGED <<single, marker, behind, desk, clicks>> /\ Fine

\* waitForOtherUpgrade: its end, or thirty minutes
Elsewhere(b) ==
  /\ pc[b] = "elsewhere"
  /\ \/ marker = "none" /\ ~behind /\ Goto(b, "serve") /\ UNCHANGED <<lock, seen>>
     \/ marker # "none" /\ Exit(b)
     \/ marker = "none" /\ behind /\ Exit(b)
  /\ UNCHANGED <<single, marker, behind, desk, clicks>> /\ Fine

\* writeBrainLock in the turn that decided it, or later: another process came between
Claim(b) ==
  /\ Sees(b, "none")
  /\ \/ lock' = b /\ Goto(b, "confirm") /\ Fine
     \/ lock' = lock /\ Goto(b, "write") /\ Fault

\* the server is up: who is in the lock by now?
Serve(b) ==
  /\ pc[b] = "serve"
  /\ \/ lock = "none" /\ Claim(b)
     \/ lock # "none" /\ Goto(b, "probe2") /\ Sees(b, lock) /\ lock' = lock /\ Fine
  /\ UNCHANGED <<single, marker, behind, desk, clicks>>

ProbeAgain(b) ==
  /\ pc[b] = "probe2"
  /\ \/ Probed(seen[b], TRUE) /\ Exit(b)
     \/ ~Alive(seen[b]) /\ Claim(b)
     \/ Alive(seen[b]) /\ Sees(b, "none") /\ lock' = b /\ Goto(b, "confirm") /\ Fault
  /\ UNCHANGED <<single, marker, behind, desk, clicks>>

\* a late writeBrainLock; when it throws the process exits
Write(b) ==
  /\ pc[b] = "write"
  /\ \/ lock' = b /\ Goto(b, "confirm") /\ Sees(b, "none") /\ Fine
     \/ Exit(b) /\ Fault
  /\ UNCHANGED <<single, marker, behind, desk, clicks>>

\* did the claim stick?
Confirm(b) ==
  /\ pc[b] = "confirm" /\ Goto(b, IF lock = b THEN "up" ELSE "leave")
  /\ UNCHANGED <<files, seen, desk, clicks>> /\ Fine

\* variant: the watch minds the app only
WatchApp(b) ==
  /\ pc[b] = "up" /\ lock = "app" /\ Goto(b, "leave")
  /\ UNCHANGED <<files, seen, desk, clicks>> /\ Fine

\* lockWatch
Watch(b) ==
  /\ pc[b] = "up" /\ lock # b /\ Goto(b, "leave")
  /\ UNCHANGED <<files, seen, desk, clicks>> /\ Fine

\* ten minutes without a request: an app that serves has asked it to go long before
Idle(b) ==
  /\ pc[b] = "up" /\ ~answers /\ Goto(b, "leave")
  /\ UNCHANGED <<files, seen, desk, clicks>> /\ Fine

\* stepDown: removeBrainLockIfOwned reads the lock and deletes it ...
Leave(b) ==
  /\ pc[b] = "leave"
  /\ \/ lock \in {b, "none"} /\ lock' = "none" /\ Goto(b, "close") /\ Fine
     \/ lock \in {b, "none"} /\ lock' = lock /\ Goto(b, "unlink") /\ Fault
     \/ lock \notin {b, "none"} /\ lock' = lock /\ Goto(b, "close") /\ Fine
  /\ UNCHANGED <<single, marker, behind, seen, desk, clicks>>

\* ... or what another process has written since
Unlink(b) ==
  /\ pc[b] = "unlink" /\ Goto(b, "close")
  /\ \/ lock' = "none" /\ Fine
     \/ lock' = lock /\ Fault
  /\ UNCHANGED <<single, marker, behind, seen, desk, clicks>>

\* requests in flight are answered, the server closes, the process exits
Close(b) ==
  /\ pc[b] = "close" /\ Exit(b)
  /\ UNCHANGED <<single, marker, behind, desk, clicks>> /\ Fine

\* the process dies; a launch it had refused dies with it
Crash(b) ==
  /\ pc[b] # "none" /\ Exit(b) /\ Fault
  /\ single' = IF single = b THEN "none" ELSE single
  /\ marker' = IF marker = b THEN "none" ELSE marker
  /\ clicked' = IF single = b THEN FALSE ELSE clicked
  /\ owed' = IF single = b /\ clicked /\ ~opening THEN FALSE ELSE owed
  /\ UNCHANGED <<behind, desk, opening>>

-----------------------------------------------------------------------------
\* The app

\* acquireSingleInstanceLock: the app starts, or the holder hears of the launch.
\* Only a brain that upgrades remembers it.
Asks ==
  /\ IF single = "none" THEN single' = "app" /\ app' = "boot" /\ owed' = FALSE /\ clicked' = clicked
     ELSE /\ UNCHANGED <<single, app>>
          /\ clicked' = (clicked \/ single \in Brains) /\ owed' = (owed \/ single \in Brains)
  /\ UNCHANGED <<lock, marker, behind, brain, call, step, answers>> /\ Fine

Launch == Asks /\ opening' = opening
Opens == opening /\ opening' = FALSE /\ Asks

\* claimLock: a refused write is left to the watchdog
Claims ==
  \/ lock' = "app" /\ Fine
  \/ lock' = lock /\ Fault

\* displaceOthers returns: the watchdog claims the lock in the same turn, if the app
\* still serves; a start still has its server to start.
Returns(c) ==
  /\ Sees("app", "none")
  /\ IF c = "start" THEN call' = c /\ step' = "go" /\ lock' = lock /\ Fine
     ELSE /\ call' = "none" /\ step' = "none"
          /\ IF app = "open" THEN Claims ELSE lock' = lock /\ Fine

\* displaceOthers, up to its first await: who else is in the lock?
Displaces(c) ==
  IF lock \in Brains \union {"dead"}
  THEN call' = c /\ step' = "probe" /\ Sees("app", lock) /\ lock' = lock /\ Fine
  ELSE Returns(c)

\* initializeDatabase upgrades the schema, then startAppBrain
Boot ==
  /\ app = "boot" /\ app' = "open" /\ behind' = FALSE /\ Displaces("start")
  /\ UNCHANGED <<single, marker, pc, answers, clicks>>

\* the probe tells, and an app that began quitting leaves the headless brain alone
AppProbe ==
  /\ step = "probe"
  /\ \/ /\ Alive(seen["app"]) /\ app = "open"
        /\ step' = "ask" /\ UNCHANGED <<call, seen, lock>> /\ Fine
     \/ (~Alive(seen["app"]) \/ app # "open") /\ Returns(call)
  /\ UNCHANGED <<single, marker, behind, pc, app, answers, clicks>>

\* requestStepDown: 202, or no answer; a probe too slow to tell comes to the same
AppAsk ==
  /\ step = "ask" /\ pc[seen["app"]] # "confirm" /\ step' = "wait"
  /\ \/ pc' = [pc EXCEPT ![seen["app"]] = IF @ = "up" THEN "leave" ELSE @] /\ Fine
     \/ pc' = pc /\ Fault
  /\ UNCHANGED <<files, seen, app, call, answers, clicks>>

\* waitUntilGone, five seconds at most: far longer than a read and a delete
AppWait ==
  /\ step = "wait" /\ pc[seen["app"]] \notin {"leave", "unlink"} /\ Returns(call)
  /\ UNCHANGED <<single, marker, behind, pc, app, answers, clicks>>

\* variant: a start that finds the app quitting serves all the same
StartsAnyway ==
  /\ call = "start" /\ step = "go" /\ call' = "none" /\ step' = "none"
  /\ answers' = TRUE /\ Claims
  /\ UNCHANGED <<single, marker, behind, brain, app, clicks>>

\* the rest of startAppBrain
Starts ==
  /\ call = "start" /\ step = "go" /\ call' = "none" /\ step' = "none"
  /\ IF app = "open" THEN answers' = TRUE /\ Claims
                     ELSE UNCHANGED <<answers, lock>> /\ Fine
  /\ UNCHANGED <<single, marker, behind, brain, app, clicks>>

\* variant: a lock that somebody deleted is not noticed
WatchdogOfRivals ==
  /\ app = "open" /\ answers /\ call = "none" /\ lock \in Brains /\ Displaces("watch")
  /\ UNCHANGED <<single, marker, behind, pc, app, answers, clicks>>

\* the watchdog finds that the lock does not name the app
Watchdog ==
  /\ app = "open" /\ answers /\ call = "none" /\ lock # "app" /\ Displaces("watch")
  /\ UNCHANGED <<single, marker, behind, pc, app, answers, clicks>>

\* before-quit: stopAppBrain reads the lock ...
Quit ==
  /\ app = "open"
  /\ IF answers /\ lock \in {"app", "none"} THEN app' = "unlink" /\ answers' = answers
     ELSE app' = "closing" /\ answers' = FALSE
  /\ UNCHANGED <<files, brain, call, step, clicks>> /\ Fine

\* ... deletes it, and the server closes
AppUnlink ==
  /\ app = "unlink" /\ app' = "closing" /\ answers' = FALSE
  /\ \/ lock' = "none" /\ Fine
     \/ lock' = lock /\ Fault
  /\ UNCHANGED <<single, marker, behind, brain, call, step, clicks>>

Ends ==
  /\ app' = "off" /\ single' = "none" /\ call' = "none" /\ step' = "none" /\ answers' = FALSE
  /\ Orphan("app") /\ Sees("app", "none")
  /\ UNCHANGED <<marker, behind, pc, clicks>>

AppExit == app = "closing" /\ Ends /\ Fine
AppCrash == app # "off" /\ Ends /\ Fault

-----------------------------------------------------------------------------
Working(b) ==
  \/ Probe(b) \/ Open(b) \/ TakeLock(b) \/ Mark(b) \/ UpgradeEnds(b) \/ Grace(b) \/ Elsewhere(b)
  \/ Serve(b) \/ ProbeAgain(b) \/ Write(b) \/ Confirm(b) \/ Watch(b) \/ Leave(b) \/ Unlink(b) \/ Close(b)
AppWorking ==
  \/ Boot \/ AppProbe \/ AppAsk \/ AppWait \/ Starts \/ Watchdog \/ AppUnlink \/ AppExit
  \/ Opens

Next ==
  \/ \E b \in Brains : Begin(b) \/ Working(b) \/ Idle(b) \/ Crash(b)
  \/ Launch \/ AppWorking \/ Quit \/ AppCrash

Spec == Init /\ [][Next]_vars

\* Timers fire and calls return; a brain is not started, asked to go or killed, and
\* the app not opened or closed, unless somebody does.
Fairness ==
  /\ \A b \in Brains : WF_vars(Working(b))
  /\ WF_vars(Boot) /\ WF_vars(AppProbe \/ AppAsk \/ AppWait \/ Starts)
  /\ WF_vars(Watchdog) /\ WF_vars(AppUnlink) /\ WF_vars(AppExit) /\ WF_vars(Opens)

FairSpec == Spec /\ Fairness

-----------------------------------------------------------------------------
\* One process at a time has the database open for writing: the app, or the one
\* headless brain that upgrades it.
Writers == {b \in Brains : pc[b] = "upgrading"} \union {x \in {"app"} : app # "off"}
OneWriter == \A x, y \in Writers : x = y

\* Once the app began quitting, no call that was under way (a start, a watchdog
\* callback) makes it serve or puts it into the lock again.
QuitIsFinal ==
  [][(app \in {"unlink", "closing"}) => (answers' => answers) /\ (lock' = "app" => lock = "app")]_vars

\* The app always wins: while it stays open, it is the one in the lock and the only
\* one that answers, whatever brains raced with it or deleted its lock.
AppAnswers ==
  <>[](app = "open") => <>[](lock = "app" /\ answers /\ \A b \in Brains : ~Serves(b))

\* Never two: brains that both claimed the lock do not both go on.
RivalsSettle ==
  \A b, c \in Brains : b # c /\ pc[b] = "up" /\ pc[c] = "up" ~> pc[b] # "up" \/ pc[c] # "up"

\* A launch refused during an upgrade, which is told that the app opens by itself,
\* is carried out, unless the process that promised it dies.
RefusedOpens == owed ~> ~owed
=============================================================================
