--------------------------- MODULE DaemonLifecycle ---------------------------
(***************************************************************************)
(* One BoostLockDaemon process (src/boostlock/daemon.py) from run() to its *)
(* exit: the main thread, a signal handler that interrupts it, and the     *)
(* threads that serve IPC requests.  start(), stop() and the emergency     *)
(* rollback run outside the daemon's lock, so their steps interleave with  *)
(* every other thread; lock(), unlock(), pause() and resume() hold it.     *)
(*                                                                         *)
(* The policy transaction is one step here: it applies, or it changes      *)
(* nothing (PolicyTransaction proves that of the executor; a compensation  *)
(* that fails is left to that module).                                     *)
(***************************************************************************)
EXTENDS Integers, FiniteSets

CONSTANTS
  Handlers,     \* IPC client threads
  Commands,     \* requests the clients send
  Route,        \* "device" or "cpuidle": the PM QoS route of the machine
  MaxCommands,  \* bound: requests during one run
  MaxSignals,   \* bound: signals during one run
  NoThread

Main == "main"
Sig == "sig"         \* the signal handler, on the main thread
Threads == {Main, Sig} \cup Handlers

ASSUME HandlerAssumption == NoThread \notin Threads /\ {Main, Sig} \cap Handlers = {}
ASSUME CommandAssumption ==
  Commands \subseteq {"START", "STOP", "PAUSE", "RESUME", "LOCK", "UNLOCK"}
ASSUME BoundAssumption == MaxCommands \in Nat /\ MaxSignals \in Nat
ASSUME RouteAssumption == Route \in {"device", "cpuidle"}

VARIABLES
  pc,          \* per thread: the step it takes next
  outcome,     \* per thread: the state its emergency rollback ends in
  mutex,       \* daemon._lock
  state,       \* daemon._state
  boosted,     \* daemon._is_locked_boost
  stopEvent,   \* daemon._stop_event
  engine,      \* pulse_engine._state
  guard,       \* the thermal monitor thread is started
  ipc,         \* the socket accepts connections
  handled,     \* _signal_handlers_registered
  pidLock,     \* this process holds the flock
  sysfs,       \* the cpufreq files: "orig", "boosted" or "fallback"
  snapshot,    \* state_manager.snapshot: which of these it would restore
  snapFile,    \* the snapshot file
  qos,         \* PM QoS: held by us, in effect on the machine, saved value
  sent,        \* requests and signals so far
  races        \* history: refused locks and races the run has met

daemonVars == <<mutex, state, boosted, stopEvent>>
systemVars == <<engine, guard, ipc, handled, pidLock, sysfs, snapshot, snapFile, qos>>
vars == <<pc, outcome, daemonVars, systemVars, sent, races>>

StartSteps == {"start", "acquire", "plan", "register", "transaction",
               "engage", "serve", "publish", "publishing"}
StopSteps == {"stop", "stopping", "stopEngine", "joinEngine", "release",
              "restore", "unregister", "unserve", "unlockPid"}
RollbackSteps == {"rbEngine", "rbJoin", "rbRelease", "rbRestore", "rbUnserve",
                  "rbUnlockPid", "rbFinal"}
LockSteps == {"LOCK", "locking", "lockEngine", "UNLOCK", "unlockEngine", "unlockQos"}
Exited == pc[Main] = "exit"

Init ==
  /\ pc = [t \in Threads |-> IF t = Main THEN "start" ELSE "idle"]
  /\ outcome = [t \in Threads |-> "ERROR"]
  /\ mutex = NoThread
  /\ state = "STOPPED"
  /\ boosted = FALSE
  /\ stopEvent = FALSE
  /\ engine = "STOPPED" /\ guard = FALSE /\ ipc = FALSE /\ handled = FALSE
  /\ pidLock = FALSE
  /\ sysfs = "orig" /\ snapshot = "none" /\ snapFile = "none"
  /\ qos = [held |-> FALSE, effect |-> FALSE, saved |-> FALSE]
  /\ sent = [commands |-> 0, signals |-> 0]
  /\ races = {}

-----------------------------------------------------------------------------
(* Control: a thread at step "from" goes on to step "to".  The main thread *)
(* does not move while a signal handler runs on it; every thread is a      *)
(* daemon thread and dies when the main thread returns from run().         *)
Runs(t) == ~Exited /\ (t = Main => pc[Sig] = "idle")
Goto(t, to) == pc' = [pc EXCEPT ![t] = to]
Step(t, from, to) == pc[t] = from /\ Runs(t) /\ Goto(t, to)

AfterStart(t) == IF t = Main THEN "run" ELSE "idle"
AfterFailure(t) == IF t = Main THEN "exit" ELSE "idle"
AfterStop(t) == IF t = Main THEN "exit" ELSE "idle"

(* The steps shared by stop() and the emergency rollback.                  *)
(* pulse_engine.stop(): returns at once when STOPPED, otherwise joins the  *)
(* workers without any lock and only then becomes STOPPED.                 *)
StopEngine(t, from, join, to) ==
  /\ Step(t, from, IF engine = "STOPPED" THEN to ELSE join)
  /\ guard' = IF engine = "STOPPED" THEN FALSE ELSE guard
  /\ UNCHANGED <<outcome, daemonVars, sent, races, engine, ipc, handled,
                 pidLock, sysfs, snapshot, snapFile, qos>>

JoinEngine(t, from, to) ==
  /\ Step(t, from, to)
  /\ engine' = "STOPPED"
  /\ guard' = FALSE
  /\ UNCHANGED <<outcome, daemonVars, sent, races, ipc, handled, pidLock,
                 sysfs, snapshot, snapFile, qos>>

(* pm_qos.unlock()                                                         *)
Released ==
  IF qos.held THEN [held |-> FALSE, effect |-> qos.saved, saved |-> FALSE] ELSE qos

ReleaseQos(t, from, to) ==
  /\ Step(t, from, to)
  /\ qos' = Released
  /\ UNCHANGED <<outcome, daemonVars, sent, races, engine, guard, ipc, handled,
                 pidLock, sysfs, snapshot, snapFile>>

(* state_manager.restore(): memory first, then the file, then defaults,    *)
(* which also enable every cpuidle state (state.py:628-638).               *)
Restore(t, from, to) ==
  /\ Step(t, from, to)
  /\ sysfs' = IF snapshot # "none" THEN snapshot
              ELSE IF snapFile # "none" THEN snapFile ELSE "fallback"
  /\ qos' = IF snapshot = "none" /\ snapFile = "none" /\ Route = "cpuidle"
            THEN [qos EXCEPT !.effect = FALSE] ELSE qos
  /\ snapshot' = "none"
  /\ snapFile' = "none"
  /\ UNCHANGED <<outcome, daemonVars, sent, races, engine, guard, ipc, handled,
                 pidLock>>

StopServer(t, from, to) ==
  /\ Step(t, from, to)
  /\ ipc' = FALSE
  /\ UNCHANGED <<outcome, daemonVars, sent, races, engine, guard, handled,
                 pidLock, sysfs, snapshot, snapFile, qos>>

ReleasePid(t, from, to) ==
  /\ Step(t, from, to)
  /\ pidLock' = FALSE
  /\ UNCHANGED <<outcome, daemonVars, sent, races, engine, guard, ipc, handled,
                 sysfs, snapshot, snapFile, qos>>

-----------------------------------------------------------------------------
(* start(), daemon.py:261-323                                              *)
(* A start() that finds the daemon alive but not RUNNING is a race.        *)
BeginStart(t) ==
  /\ mutex = NoThread
  /\ Step(t, "start", IF state = "RUNNING" THEN AfterStart(t) ELSE "acquire")
  /\ state' = IF state = "RUNNING" THEN state ELSE "INITIALIZING"
  /\ races' = races \cup (IF t # Main /\ state # "RUNNING" THEN {"start"} ELSE {})
  /\ UNCHANGED <<outcome, mutex, boosted, stopEvent, systemVars, sent>>

AcquirePid(t) ==
  /\ ~pidLock
  /\ Step(t, "acquire", "plan")
  /\ pidLock' = TRUE
  /\ UNCHANGED <<outcome, daemonVars, sent, races, engine, guard, ipc, handled,
                 sysfs, snapshot, snapFile, qos>>

(* The PID file cannot be opened or locked; a second flock of it by this   *)
(* process conflicts like any other.  The error ends in a rollback that    *)
(* restores (daemon.py:320-322).                                           *)
AcquireFails(t) ==
  /\ Step(t, "acquire", "rbEngine")
  /\ outcome' = [outcome EXCEPT ![t] = "ERROR"]
  /\ races' = races \cup (IF pidLock THEN {} ELSE {"refused"})
  /\ UNCHANGED <<daemonVars, sent, systemVars>>

(* The snapshot may fail to reach the disk, which is only logged           *)
(* (state.py:235-239).                                                     *)
TakeSnapshot(t) ==
  /\ Step(t, "plan", "register")
  /\ snapshot' = sysfs
  /\ snapFile' \in {sysfs, snapFile}
  /\ UNCHANGED <<outcome, daemonVars, sent, races, engine, guard, ipc, handled,
                 pidLock, sysfs, qos>>

(* No usable policy, or a file that cannot be read (sysfs.py:245, 545).    *)
PlanFails(t) ==
  /\ Step(t, "plan", "rbEngine")
  /\ outcome' = [outcome EXCEPT ![t] = "STOPPED"]
  /\ UNCHANGED <<daemonVars, sent, races, systemVars>>

RegisterSignals(t) ==
  /\ Step(t, "register", "transaction")
  /\ handled' = (handled \/ t = Main)
  /\ UNCHANGED <<outcome, daemonVars, sent, races, engine, guard, ipc,
                 pidLock, sysfs, snapshot, snapFile, qos>>

(* The transaction captures the cpuidle states it disables.                *)
Applied ==
  /\ sysfs' = "boosted"
  /\ qos' = [held |-> TRUE, effect |-> TRUE,
             saved |-> Route = "cpuidle" /\ qos.effect]

StartTransaction(t) ==
  /\ \/ Step(t, "transaction", "engage") /\ Applied /\ UNCHANGED outcome
     \/ /\ Step(t, "transaction", "rbEngine")
        /\ outcome' = [outcome EXCEPT ![t] = "STOPPED"]
        /\ UNCHANGED <<sysfs, qos>>
  /\ UNCHANGED <<daemonVars, sent, races, engine, guard, ipc, handled,
                 pidLock, snapshot, snapFile>>

(* thermal_guard.start() and pulse_engine.start()                          *)
StartThreads(t) ==
  /\ Step(t, "engage", "serve")
  /\ guard' = TRUE
  /\ engine' = "RUNNING"
  /\ UNCHANGED <<outcome, daemonVars, sent, races, ipc, handled, pidLock,
                 sysfs, snapshot, snapFile, qos>>
(* Faulty variant: a server that cannot bind skips the restore.            *)
StartServerNoRestore(t) ==
  /\ \/ Step(t, "serve", "publish") /\ ipc' = TRUE /\ UNCHANGED outcome
     \/ /\ Step(t, "serve", "rbEngine")
        /\ ~ipc
        /\ outcome' = [outcome EXCEPT ![t] = "STOPPED"]
        /\ UNCHANGED ipc
  /\ UNCHANGED <<daemonVars, sent, races, engine, guard, handled, pidLock,
                 sysfs, snapshot, snapFile, qos>>

StartServer(t) ==
  /\ \/ Step(t, "serve", "publish") /\ ipc' = TRUE /\ UNCHANGED outcome
     \/ /\ Step(t, "serve", "rbEngine")
        /\ ~ipc
        /\ outcome' = [outcome EXCEPT ![t] = "ERROR"]
        /\ UNCHANGED ipc
  /\ UNCHANGED <<daemonVars, sent, races, engine, guard, handled, pidLock,
                 sysfs, snapshot, snapFile, qos>>

Publish(t) ==
  /\ mutex = NoThread
  /\ Step(t, "publish", "publishing")
  /\ mutex' = t
  /\ UNCHANGED <<outcome, state, boosted, stopEvent, systemVars, sent, races>>

EndStart(t) ==
  /\ Step(t, "publishing", AfterStart(t))
  /\ mutex' = NoThread
  /\ state' = "RUNNING"
  /\ boosted' = TRUE
  /\ stopEvent' = FALSE
  /\ UNCHANGED <<outcome, systemVars, sent, races>>

Start(t) ==
  \/ BeginStart(t) \/ AcquirePid(t) \/ AcquireFails(t) \/ TakeSnapshot(t)
  \/ PlanFails(t) \/ RegisterSignals(t) \/ StartTransaction(t) \/ StartThreads(t)
  \/ StartServer(t) \/ Publish(t) \/ EndStart(t)

-----------------------------------------------------------------------------
(* _emergency_rollback(), daemon.py:913-940                                *)
EndRollback(t) ==
  /\ mutex = NoThread
  /\ Step(t, "rbFinal", AfterFailure(t))
  /\ handled' = (handled /\ t # Main)
  /\ state' = outcome[t]
  /\ boosted' = FALSE
  /\ stopEvent' = TRUE
  /\ UNCHANGED <<outcome, mutex, sent, races, engine, guard, ipc, pidLock,
                 sysfs, snapshot, snapFile, qos>>

Rollback(t) ==
  \/ StopEngine(t, "rbEngine", "rbJoin", "rbRelease")
  \/ JoinEngine(t, "rbJoin", "rbRelease")
  \/ ReleaseQos(t, "rbRelease", IF outcome[t] = "ERROR" THEN "rbRestore" ELSE "rbUnserve")
  \/ Restore(t, "rbRestore", "rbUnserve")
  \/ StopServer(t, "rbUnserve", "rbUnlockPid")
  \/ ReleasePid(t, "rbUnlockPid", "rbFinal")
  \/ EndRollback(t)

-----------------------------------------------------------------------------
(* stop(), daemon.py:325-377.  The lock is held for the first block only.  *)
LockForStop(t) ==
  /\ mutex = NoThread
  /\ Step(t, "stop", "stopping")
  /\ mutex' = t
  /\ UNCHANGED <<outcome, state, boosted, stopEvent, systemVars, sent, races>>
(* Faulty variant: stop() leaves _is_locked_boost set.                     *)
BeginStopStillBoosted(t) ==
  /\ Step(t, "stopping", IF state = "STOPPED" THEN AfterStop(t) ELSE "stopEngine")
  /\ mutex' = NoThread
  /\ state' = "STOPPED"
  /\ stopEvent' = (stopEvent \/ state # "STOPPED")
  /\ races' = races \cup (IF state = "INITIALIZING" THEN {"stop"} ELSE {})
  /\ UNCHANGED <<outcome, boosted, systemVars, sent>>

(* Faulty variant: stop() does not wake the main thread.                   *)
BeginStopSilently(t) ==
  /\ Step(t, "stopping", IF state = "STOPPED" THEN AfterStop(t) ELSE "stopEngine")
  /\ mutex' = NoThread
  /\ state' = "STOPPED"
  /\ boosted' = IF state = "STOPPED" THEN boosted ELSE FALSE
  /\ races' = races \cup (IF state = "INITIALIZING" THEN {"stop"} ELSE {})
  /\ UNCHANGED <<outcome, stopEvent, systemVars, sent>>

(* A stop() that overtakes a start() under way is a race: start() goes on  *)
(* and publishes RUNNING.                                                  *)
BeginStop(t) ==
  /\ Step(t, "stopping", IF state = "STOPPED" THEN AfterStop(t) ELSE "stopEngine")
  /\ mutex' = NoThread
  /\ state' = "STOPPED"
  /\ boosted' = IF state = "STOPPED" THEN boosted ELSE FALSE
  /\ stopEvent' = (stopEvent \/ state # "STOPPED")
  /\ races' = races \cup (IF state = "INITIALIZING" THEN {"stop"} ELSE {})
  /\ UNCHANGED <<outcome, systemVars, sent>>

UnregisterSignals(t) ==
  /\ Step(t, "unregister", "unserve")
  /\ handled' = (handled /\ t \notin {Main, Sig})
  /\ UNCHANGED <<outcome, daemonVars, sent, races, engine, guard, ipc,
                 pidLock, sysfs, snapshot, snapFile, qos>>

Stop(t) ==
  \/ LockForStop(t) \/ BeginStop(t)
  \/ StopEngine(t, "stopEngine", "joinEngine", "release")
  \/ JoinEngine(t, "joinEngine", "release")
  \/ ReleaseQos(t, "release", "restore")
  \/ Restore(t, "restore", "unregister")
  \/ UnregisterSignals(t)
  \/ StopServer(t, "unserve", "unlockPid")
  \/ ReleasePid(t, "unlockPid", AfterStop(t))

-----------------------------------------------------------------------------
(* lock(), unlock(), pause(), resume(): daemon.py:379-413                  *)
(* A lock() that runs while start() or stop() is under way is a race: both *)
(* have let go of the lock it takes.                                       *)
BeginLock(t) ==
  /\ mutex = NoThread
  /\ Step(t, "LOCK", IF boosted THEN "idle" ELSE "locking")
  /\ mutex' = IF boosted THEN mutex ELSE t
  /\ races' = races \cup (IF ~boosted /\ state \notin {"RUNNING", "PAUSED"}
                         THEN {"lock"} ELSE {})
  /\ UNCHANGED <<outcome, state, boosted, stopEvent, systemVars, sent>>

LockTransaction(t) ==
  /\ \/ Step(t, "locking", "lockEngine") /\ Applied /\ UNCHANGED mutex
     \/ /\ Step(t, "locking", "idle")
        /\ mutex' = NoThread
        /\ UNCHANGED <<sysfs, qos>>
  /\ UNCHANGED <<outcome, state, boosted, stopEvent, engine, guard, ipc, handled,
                 pidLock, snapshot, snapFile, sent, races>>
(* Faulty variant: LOCK restarts the engine of a daemon that stays PAUSED. *)
EndLockStaysPaused(t) ==
  /\ Step(t, "lockEngine", "idle")
  /\ engine' = "RUNNING"
  /\ boosted' = TRUE
  /\ mutex' = NoThread
  /\ UNCHANGED <<outcome, state, stopEvent, guard, ipc, handled, pidLock, sysfs,
                 snapshot, snapFile, qos, sent, races>>

EndLock(t) ==
  /\ Step(t, "lockEngine", "idle")
  /\ engine' = "RUNNING"
  /\ boosted' = TRUE
  /\ state' = IF state # "THROTTLED" THEN "RUNNING" ELSE state
  /\ mutex' = NoThread
  /\ UNCHANGED <<outcome, stopEvent, guard, ipc, handled, pidLock, sysfs,
                 snapshot, snapFile, qos, sent, races>>
(* Faulty variant: the early return keeps the lock.                        *)
BeginUnlockKeepsMutex(t) ==
  /\ mutex = NoThread
  /\ Step(t, "UNLOCK", IF boosted THEN "unlockEngine" ELSE "idle")
  /\ mutex' = t
  /\ UNCHANGED <<outcome, state, boosted, stopEvent, systemVars, sent, races>>

BeginUnlock(t) ==
  /\ mutex = NoThread
  /\ Step(t, "UNLOCK", IF boosted THEN "unlockEngine" ELSE "idle")
  /\ mutex' = IF boosted THEN t ELSE mutex
  /\ UNCHANGED <<outcome, state, boosted, stopEvent, systemVars, sent, races>>

UnlockEngine(t) ==
  /\ Step(t, "unlockEngine", "unlockQos")
  /\ engine' = "STOPPED"
  /\ UNCHANGED <<outcome, daemonVars, guard, ipc, handled, pidLock, sysfs,
                 snapshot, snapFile, qos, sent, races>>

EndUnlock(t) ==
  /\ Step(t, "unlockQos", "idle")
  /\ qos' = Released
  /\ boosted' = FALSE
  /\ mutex' = NoThread
  /\ UNCHANGED <<outcome, state, stopEvent, engine, guard, ipc, handled, pidLock,
                 sysfs, snapshot, snapFile, sent, races>>

Pause(t) ==
  /\ mutex = NoThread
  /\ Step(t, "PAUSE", "idle")
  /\ state' = IF state = "RUNNING" THEN "PAUSED" ELSE state
  /\ engine' = IF state = "RUNNING" /\ engine = "RUNNING" THEN "PAUSED" ELSE engine
  /\ UNCHANGED <<outcome, mutex, boosted, stopEvent, guard, ipc, handled, pidLock,
                 sysfs, snapshot, snapFile, qos, sent, races>>

Resume(t) ==
  /\ mutex = NoThread
  /\ Step(t, "RESUME", "idle")
  /\ state' = IF state = "PAUSED" THEN "RUNNING" ELSE state
  /\ engine' = IF state = "PAUSED" /\ engine = "PAUSED" THEN "RUNNING" ELSE engine
  /\ UNCHANGED <<outcome, mutex, boosted, stopEvent, guard, ipc, handled, pidLock,
                 sysfs, snapshot, snapFile, qos, sent, races>>

Serve(t) ==
  \/ BeginLock(t) \/ LockTransaction(t) \/ EndLock(t)
  \/ BeginUnlock(t) \/ UnlockEngine(t) \/ EndUnlock(t)
  \/ Pause(t) \/ Resume(t)

(* The listener accepts a client and gives it a thread, which then waits   *)
(* for the request (ipc.py:163-196).                                       *)
Connect(t) ==
  /\ ipc
  /\ sent.commands < MaxCommands
  /\ Step(t, "idle", "connected")
  /\ sent' = [sent EXCEPT !.commands = @ + 1]
  /\ UNCHANGED <<outcome, daemonVars, systemVars, races>>

(* The request arrives, perhaps after the server has stopped accepting, and *)
(* is dispatched (daemon.py:546-619).  STOP is answered at once and stop()  *)
(* then runs in a thread of its own.                                        *)
Request(t, command) ==
  /\ Step(t, "connected", CASE command = "START" -> "start"
                            [] command = "STOP" -> "stop"
                            [] OTHER -> command)
  /\ UNCHANGED <<outcome, daemonVars, systemVars, sent, races>>

(* SIGTERM or SIGINT once the handler is installed.  It is a race while    *)
(* the main thread itself holds the lock the handler will ask for.         *)
Signal ==
  /\ handled
  /\ sent.signals < MaxSignals
  /\ Step(Sig, "idle", "stop")
  /\ sent' = [sent EXCEPT !.signals = @ + 1]
  /\ races' = races \cup (IF mutex = Main THEN {"signal"} ELSE {})
  /\ UNCHANGED <<outcome, daemonVars, systemVars>>

(* run(), daemon.py:621-630: the loop ends when the event is set.          *)
LeaveLoop ==
  /\ stopEvent
  /\ Step(Main, "run", "stop")
  /\ UNCHANGED <<outcome, daemonVars, systemVars, sent, races>>

MainStep == Start(Main) \/ Rollback(Main) \/ LeaveLoop \/ Stop(Main)
SigStep == Stop(Sig)
HandlerStep(t) == Start(t) \/ Rollback(t) \/ Stop(t) \/ Serve(t)

Next ==
  \/ MainStep
  \/ SigStep
  \/ Signal
  \/ \E t \in Handlers :
       \/ HandlerStep(t)
       \/ Connect(t)
       \/ \E command \in Commands : Request(t, command)

Spec == Init /\ [][Next]_vars

(* Every thread that can run runs.  Requests and signals may never come.   *)
FairSpec ==
  /\ Spec
  /\ WF_vars(MainStep)
  /\ WF_vars(SigStep)
  /\ \A t \in Handlers : WF_vars(HandlerStep(t))

-----------------------------------------------------------------------------
States == {"STOPPED", "INITIALIZING", "RUNNING", "PAUSED", "THROTTLED", "ERROR"}
Image == {"orig", "boosted", "fallback"}

TypeOK ==
  /\ pc \in [Threads -> {"idle", "run", "exit", "connected", "PAUSE", "RESUME"} \cup StartSteps
                          \cup StopSteps \cup RollbackSteps \cup LockSteps]
  /\ outcome \in [Threads -> {"ERROR", "STOPPED"}]
  /\ mutex \in Threads \cup {NoThread}
  /\ state \in States
  /\ boosted \in BOOLEAN /\ stopEvent \in BOOLEAN
  /\ engine \in {"STOPPED", "RUNNING", "PAUSED"}
  /\ guard \in BOOLEAN /\ ipc \in BOOLEAN /\ handled \in BOOLEAN /\ pidLock \in BOOLEAN
  /\ sysfs \in Image
  /\ snapshot \in Image \cup {"none"} /\ snapFile \in Image \cup {"none"}
  /\ qos \in [held : BOOLEAN, effect : BOOLEAN, saved : BOOLEAN]
  /\ sent \in [commands : 0..MaxCommands, signals : 0..MaxSignals]
  /\ races \in SUBSET {"refused", "start", "lock", "stop", "signal"}

(* The kernel closes the latency descriptor with the process.              *)
LatencyInEffect == qos.effect /\ ~(Exited /\ Route = "device")
Restored == sysfs = "orig" /\ ~LatencyInEffect

(* README.md:60, "On exit it restores the governor, limits, boost bits and *)
(* cpuidle state." Not an invariant, and no configuration lists it: a      *)
(* start() refused by the PID lock exits with defaults written.            *)
ExitRestores == Exited => Restored

(* A refused PID lock, the four races and an exit in the middle of a       *)
(* handler's stop() are the only ways to leave the machine changed: every  *)
(* other interleaving of start, failed start, requests, signals and stop   *)
(* restores it.                                                            *)
CutShort == \E t \in Handlers : pc[t] \in StopSteps \cup RollbackSteps
OnlyKnownRacesLeaveChanges ==
  Exited /\ races = {} /\ ~CutShort => Restored /\ ~pidLock

(* README.md:60 once more, for a LOCK that meets a stop() or a start() ...  *)
(* (not an invariant: the boost outlives the exit)                         *)
ExitRestoresDespiteLock ==
  Exited /\ races \subseteq {"lock"} /\ ~CutShort => Restored

(* ... and for a STOP request (not an invariant: its thread dies with the  *)
(* main thread before it restores).                                        *)
ExitRestoresAfterStop == Exited /\ races = {} => Restored

(* is_locked_boost, which PING reports, is true only while the boost is    *)
(* really applied.                                                         *)
LockedMeansBoosted ==
  boosted /\ mutex = NoThread /\ races = {} =>
    sysfs = "boosted" /\ qos.effect /\ pidLock

(* While the daemon reports PAUSED no worker pulses, whatever LOCK, UNLOCK, *)
(* RESUME, signals and stop() do around it; only a second start() may.     *)
PausedMeansQuiet ==
  state = "PAUSED" /\ mutex = NoThread /\ "start" \notin races =>
    engine # "RUNNING"

(* daemon.py:943: a signal shuts the daemon down (not a property of the    *)
(* code: start() can publish RUNNING over it, or hold the lock) ...        *)
SignalStops == (pc[Sig] = "stop") ~> Exited

(* ... unless it met one of the races.                                     *)
SignalStopsUnlessRace == (pc[Sig] = "stop") ~> (Exited \/ races # {})

(* A STOP request or a finished rollback ends the process.                 *)
StopEventEnds == stopEvent ~> (Exited \/ races # {})
=============================================================================
