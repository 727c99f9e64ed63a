----------------------------- MODULE PulseEngine -----------------------------
(***************************************************************************)
(* The threads of the pulse engine (src/boostlock/engine.py): one worker   *)
(* per CPU with its own stop and pause events, and one controller that     *)
(* looks at an event all runs of the engine share.  start(), pause() and   *)
(* resume() are one critical section each; stop() lets go of the lock      *)
(* while it stops the workers and joins the controller, for two seconds at *)
(* most.                                                                   *)
(*                                                                         *)
(* The callers are the daemon's (daemon.py:325-413, 913-940): LOCK,        *)
(* UNLOCK, PAUSE and RESUME, one at a time under the daemon's lock, and    *)
(* the daemon's stop() and emergency rollback, which call stop() outside   *)
(* it.                                                                     *)
(***************************************************************************)
EXTENDS Integers, FiniteSets

CONSTANTS
  Stoppers,     \* threads that run the daemon's stop() or rollback
  Cpus,         \* workers 1..Cpus of a run
  MaxStarts     \* bound: runs of the engine

Request == "request"      \* the thread whose request holds the daemon's lock
Callers == Stoppers \cup {Request}
Starts == 1..MaxStarts
Workers == Starts \X (1..Cpus)

ASSUME StopperAssumption == Request \notin Stoppers
ASSUME BoundAssumption == Cpus \in Nat \ {0} /\ MaxStarts \in Nat \ {0}

VARIABLES
  state,        \* engine._state
  stopEvent,    \* engine._stop_event
  started,      \* runs so far; _workers and _controller_thread are the last's
  listed,       \* the workers in the list each run made
  alive,        \* worker threads
  stopped,      \* living workers whose _stop_event is set
  paused,       \* living workers whose _pause_event is set
  controllers,  \* runs whose controller thread lives
  call,         \* per caller: where it is in engine.stop()
  daemon,       \* daemon._state
  boosted,      \* daemon._is_locked_boost
  overlapped,   \* history: an engine was started while a stop() ran
  timedOut      \* history: a join of a controller timed out

threadVars == <<listed, alive, stopped, paused, controllers>>
engineVars == <<state, stopEvent, started, threadVars>>
daemonVars == <<daemon, boosted>>
history == <<overlapped, timedOut>>
vars == <<engineVars, call, daemonVars, history>>

Idle == [at |-> "idle", run |-> 0, next |-> 0]
Goto(t, at) == call' = [call EXCEPT ![t].at = at]
Stopping == \E t \in Callers : call[t] # Idle
MutexFree == call[Request] = Idle

Init ==
  /\ state = "STOPPED"
  /\ stopEvent = FALSE
  /\ started = 0
  /\ listed = [r \in Starts |-> {}]
  /\ alive = {} /\ stopped = {} /\ paused = {}
  /\ controllers = {}
  /\ call = [t \in Callers |-> Idle]
  /\ daemon = "INITIALIZING"
  /\ boosted = FALSE
  /\ overlapped = FALSE /\ timedOut = FALSE

-----------------------------------------------------------------------------
(* Faulty variant: the event of the last run stays set.                    *)
NewRunKeepsEvent ==
  /\ started' = started + 1
  /\ listed' = [listed EXCEPT ![started'] = 1..Cpus]
  /\ alive' = alive \cup {<<started', cpu>> : cpu \in 1..Cpus}
  /\ controllers' = controllers \cup {started'}
  /\ state' = "RUNNING"
  /\ overlapped' = (overlapped \/ Stopping)
  /\ UNCHANGED <<stopEvent, stopped, paused>>

(* start(), engine.py:823-857, of an engine that is not RUNNING.           *)
NewRun ==
  /\ started' = started + 1
  /\ stopEvent' = FALSE
  /\ listed' = [listed EXCEPT ![started'] = 1..Cpus]
  /\ alive' = alive \cup {<<started', cpu>> : cpu \in 1..Cpus}
  /\ controllers' = controllers \cup {started'}
  /\ state' = "RUNNING"
  /\ overlapped' = (overlapped \/ Stopping)
  /\ UNCHANGED <<stopped, paused>>

(* daemon.lock(), and the engine step of the daemon's start().             *)
Lock ==
  /\ MutexFree
  /\ ~boosted
  /\ IF state = "RUNNING"
     THEN UNCHANGED <<engineVars, overlapped>>
     ELSE started < MaxStarts /\ NewRun
  /\ boosted' = TRUE
  /\ daemon' = "RUNNING"
  /\ UNCHANGED <<call, timedOut>>

Last == {<<started, cpu>> : cpu \in IF started = 0 THEN {} ELSE listed[started]}

(* daemon.pause() and engine.pause(), engine.py:878-885.                   *)
Pause ==
  /\ MutexFree
  /\ daemon = "RUNNING"
  /\ daemon' = "PAUSED"
  /\ IF state = "RUNNING"
     THEN state' = "PAUSED" /\ paused' = paused \cup (Last \cap alive)
     ELSE UNCHANGED <<state, paused>>
  /\ UNCHANGED <<stopEvent, started, listed, alive, stopped, controllers, call,
                 boosted, history>>

(* daemon.resume() and engine.resume(), engine.py:887-894.                 *)
Resume ==
  /\ MutexFree
  /\ daemon = "PAUSED"
  /\ daemon' = "RUNNING"
  /\ IF state = "PAUSED"
     THEN state' = "RUNNING" /\ paused' = paused \ Last
     ELSE UNCHANGED <<state, paused>>
  /\ UNCHANGED <<stopEvent, started, listed, alive, stopped, controllers, call,
                 boosted, history>>

(* daemon.unlock(); the daemon's lock is held until engine.stop() returns. *)
Unlock ==
  /\ MutexFree
  /\ boosted
  /\ Goto(Request, "enter")
  /\ UNCHANGED <<engineVars, daemonVars, history>>

(* daemon.stop() takes the daemon's lock for its first block only ...      *)
DaemonStop(t) ==
  /\ call[t] = Idle
  /\ MutexFree
  /\ daemon # "STOPPED"
  /\ daemon' = "STOPPED"
  /\ boosted' = FALSE
  /\ Goto(t, "enter")
  /\ UNCHANGED <<engineVars, history>>

(* ... and so does a START, which fails while the daemon is starting or    *)
(* PAUSED, and then rolls back.                                            *)
DaemonRollback(t) ==
  /\ call[t] = Idle
  /\ MutexFree
  /\ daemon \in {"INITIALIZING", "PAUSED"}
  /\ daemon' = "INITIALIZING"
  /\ Goto(t, "enter")
  /\ UNCHANGED <<engineVars, boosted, history>>

-----------------------------------------------------------------------------

(* stop(), engine.py:859-876.                                              *)
EnterStop(t) ==
  /\ call[t].at = "enter"
  /\ IF state = "STOPPED"
     THEN Goto(t, "return") /\ UNCHANGED stopEvent
     ELSE Goto(t, "workers") /\ stopEvent' = TRUE
  /\ UNCHANGED <<state, started, threadVars, daemonVars, history>>

(* The loop walks the list that is there when it begins.                   *)
TakeList(t) ==
  /\ call[t].at = "workers"
  /\ call' = [call EXCEPT ![t] = [at |-> "worker", run |-> started, next |-> 1]]
  /\ UNCHANGED <<engineVars, daemonVars, history>>
(* Faulty variant: the worker is woken but its event is not set.           *)
StopWorkerWakes(t) ==
  /\ call[t].at = "worker"
  /\ IF call[t].next \in listed[call[t].run]
     THEN /\ paused' = paused \ {<<call[t].run, call[t].next>>}
          /\ call' = [call EXCEPT ![t].next = @ + 1]
          /\ UNCHANGED stopped
     ELSE /\ call' = [call EXCEPT ![t] = [at |-> "join", run |-> started, next |-> 0]]
          /\ UNCHANGED <<stopped, paused>>
  /\ UNCHANGED <<state, stopEvent, started, listed, alive, controllers, daemonVars, history>>

(* PulseWorker.stop(), engine.py:480-486, which waits a second at most for *)
(* the thread to end.  After the last one the controller is looked up.     *)
StopWorker(t) ==
  /\ call[t].at = "worker"
  /\ IF call[t].next \in listed[call[t].run]
     THEN /\ stopped' = stopped \cup ({<<call[t].run, call[t].next>>} \cap alive)
          /\ paused' = paused \ {<<call[t].run, call[t].next>>}
          /\ call' = [call EXCEPT ![t].next = @ + 1]
     ELSE /\ call' = [call EXCEPT ![t] = [at |-> "join", run |-> started, next |-> 0]]
          /\ UNCHANGED <<stopped, paused>>
  /\ UNCHANGED <<state, stopEvent, started, listed, alive, controllers, daemonVars, history>>
(* Faulty variant: the join has no timeout.                                *)
JoinForever(t) ==
  /\ call[t].at = "join"
  /\ call[t].run \notin controllers
  /\ Goto(t, "finish")
  /\ UNCHANGED <<engineVars, daemonVars, history>>

JoinController(t) ==
  /\ call[t].at = "join"
  /\ timedOut' = (timedOut \/ call[t].run \in controllers)
  /\ Goto(t, "finish")
  /\ UNCHANGED <<engineVars, daemonVars, overlapped>>

FinishStop(t) ==
  /\ call[t].at = "finish"
  /\ state' = "STOPPED"
  /\ listed' = [listed EXCEPT ![started] = {}]
  /\ Goto(t, "return")
  /\ UNCHANGED <<stopEvent, started, alive, stopped, paused, controllers,
                 daemonVars, history>>

(* UNLOCK goes on to clear _is_locked_boost (daemon.py:412-413); a         *)
(* rollback ends in STOPPED or ERROR with the boost bit cleared.           *)
Return(t) ==
  /\ call[t].at = "return"
  /\ call' = [call EXCEPT ![t] = Idle]
  /\ boosted' = FALSE
  /\ daemon' = IF t = Request THEN daemon ELSE "STOPPED"
  /\ UNCHANGED <<engineVars, history>>

StopStep(t) ==
  EnterStop(t) \/ TakeList(t) \/ StopWorker(t) \/ JoinController(t)
    \/ FinishStop(t) \/ Return(t)

(* A worker looks at its own event (engine.py:523), the controller at the  *)
(* shared one (engine.py:922); between two looks either may be busy.       *)
WorkerEnds(w) ==
  /\ w \in alive \cap stopped
  /\ alive' = alive \ {w}
  /\ stopped' = stopped \ {w}
  /\ paused' = paused \ {w}
  /\ UNCHANGED <<state, stopEvent, started, listed, controllers, call, daemonVars,
                 history>>

ControllerEnds(r) ==
  /\ r \in controllers
  /\ stopEvent
  /\ controllers' = controllers \ {r}
  /\ UNCHANGED <<state, stopEvent, started, listed, alive, stopped, paused, call,
                 daemonVars, history>>

Next ==
  \/ Lock \/ Pause \/ Resume \/ Unlock
  \/ \E t \in Stoppers : DaemonStop(t) \/ DaemonRollback(t)
  \/ \E t \in Callers : StopStep(t)
  \/ \E w \in Workers : WorkerEnds(w)
  \/ \E r \in Starts : ControllerEnds(r)

Spec == Init /\ [][Next]_vars

(* A caller of stop() goes on; requests may never come, and a worker or    *)
(* controller may be busy for ever.                                        *)
FairSpec ==
  /\ Spec
  /\ \A t \in Callers : WF_vars(StopStep(t))

-----------------------------------------------------------------------------
CallSteps == {"idle", "enter", "workers", "worker", "join", "finish", "return"}

TypeOK ==
  /\ state \in {"STOPPED", "RUNNING", "PAUSED"}
  /\ stopEvent \in BOOLEAN
  /\ started \in 0..MaxStarts
  /\ listed \in [Starts -> {{}, 1..Cpus}]
  /\ alive \subseteq Workers /\ stopped \subseteq alive /\ paused \subseteq alive
  /\ controllers \subseteq Starts
  /\ call \in [Callers -> [at : CallSteps, run : 0..MaxStarts, next : 0..(Cpus + 1)]]
  /\ daemon \in {"INITIALIZING", "RUNNING", "PAUSED", "STOPPED"}
  /\ boosted \in BOOLEAN /\ overlapped \in BOOLEAN /\ timedOut \in BOOLEAN

(* An engine that reports STOPPED or PAUSED does not pulse: every worker   *)
(* that still lives has been told to end, or is paused, whatever LOCK,     *)
(* UNLOCK, PAUSE, RESUME, stop and rollback did around each other.  Only a *)
(* LOCK that starts the engine while somebody is still stopping it can     *)
(* leave workers behind.                                                   *)
NotRunningMeansQuiet ==
  ~overlapped =>
    /\ state = "STOPPED" => alive = stopped
    /\ state = "PAUSED" => alive = paused \cup stopped

(* A RUNNING engine that nobody is stopping has its controller, which will *)
(* not end, and no other: two controllers would adjust every duty twice.   *)
(* The exceptions are a join that timed out, whose controller the next     *)
(* start() revives by clearing the event, and the overlap above.           *)
OneController ==
  state # "STOPPED" /\ ~Stopping /\ ~overlapped /\ ~timedOut =>
    controllers = {started} /\ ~stopEvent

(* stop() returns, even if the controller it waits for was revived.        *)
StopReturns == \A t \in Callers : (call[t] # Idle) ~> (call[t] = Idle)

=============================================================================
