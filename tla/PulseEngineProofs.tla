--------------------------- MODULE PulseEngineProofs ---------------------------
(***************************************************************************)
(* Proofs about PulseEngine, for any number of threads that stop the       *)
(* engine, of workers and of runs.                                         *)
(***************************************************************************)
EXTENDS PulseEngine, TLAPS

Calls == [at : CallSteps, run : 0..MaxStarts, next : 0..(Cpus + 1)]

(* What holds of a call of stop() even when a LOCK overlaps it.            *)
CallInv ==
  /\ state # "STOPPED" => started >= 1
  /\ \A t \in Callers :
       /\ call[t].at = "idle" => call[t] = Idle
       /\ call[t].at \in {"workers", "worker", "join", "finish"} => started >= 1
       /\ call[t].at = "worker" => call[t].run >= 1 /\ call[t].next >= 1

(* A call that is past the workers has stopped those of the last run, and  *)
(* all earlier ones had been stopped when that run began.                  *)
QuietInv ==
  ~overlapped =>
    /\ started = 0 => alive = {}
    /\ started >= 1 =>
         \/ listed[started] = 1..Cpus
         \/ listed[started] = {} /\ state = "STOPPED"
    /\ \A w \in alive : w[1] = started \/ w \in stopped
    /\ state = "STOPPED" => alive = stopped
    /\ state = "PAUSED" => alive = paused \cup stopped
    /\ ~boosted /\ ~Stopping => state = "STOPPED"
    /\ \A t \in Callers :
         /\ call[t].at = "worker" =>
              /\ call[t].run = started
              /\ \A w \in alive : w[2] < call[t].next => w \in stopped
         /\ call[t].at = "join" => call[t].run = started
         /\ call[t].at \in {"join", "finish"} => alive = stopped
         /\ call[t].at = "return" => state = "STOPPED"

(* The controller of the last run is the only one, and the shared event is *)
(* clear until somebody stops it.                                          *)
ControllerInv ==
  ~overlapped /\ ~timedOut =>
    /\ controllers \subseteq {started}
    /\ state = "STOPPED" => controllers = {}
    /\ state # "STOPPED" /\ ~stopEvent => controllers = {started}
    /\ state # "STOPPED" /\ ~Stopping => ~stopEvent
    /\ \A t \in Callers : call[t].at = "finish" => controllers = {}

IInv == TypeOK /\ CallInv /\ QuietInv /\ ControllerInv

-----------------------------------------------------------------------------
LEMMA InitInv == Init => IInv
<1> SUFFICES ASSUME Init PROVE IInv
  OBVIOUS
<1> USE BoundAssumption DEF Init, Idle
<1>1. TypeOK
  <2>1. 0 \in 0..MaxStarts /\ 0 \in 0..(Cpus + 1)
    OBVIOUS
  <2>2. call \in [Callers -> Calls]
    BY <2>1 DEF CallSteps, Calls
  <2> QED BY <2>1, <2>2 DEF TypeOK, Calls
<1>2. CallInv /\ ControllerInv
  BY DEF CallInv, ControllerInv
<1>3. QuietInv
  BY DEF QuietInv
<1> QED BY <1>1, <1>2, <1>3 DEF IInv

-----------------------------------------------------------------------------
(* A caller that goes on to another step keeps its type and its place.     *)
LEMMA GotoKeepsCalls ==
  ASSUME call \in [Callers -> Calls], NEW t \in Callers, NEW at \in CallSteps, Goto(t, at)
  PROVE  /\ call' \in [Callers -> Calls]
         /\ call'[t].at = at /\ call'[t].run = call[t].run /\ call'[t].next = call[t].next
         /\ \A u \in Callers : u # t => call'[u] = call[u]
<1>1. [call[t] EXCEPT !.at = at] \in Calls
  BY DEF Calls
<1>2. [call[t] EXCEPT !.at = at].at = at
  BY DEF Calls
<1>3. /\ [call[t] EXCEPT !.at = at].run = call[t].run
      /\ [call[t] EXCEPT !.at = at].next = call[t].next
  BY DEF Calls
<1> QED BY <1>1, <1>2, <1>3 DEF Goto

(* The types and the shape of a call do not depend on the order of steps.  *)
LEMMA TypeNext ==
  ASSUME TypeOK, CallInv, [Next]_vars PROVE TypeOK' /\ CallInv'
<1> USE BoundAssumption
    DEF TypeOK, CallInv, Starts, Callers, CallSteps, Idle, Goto, MutexFree,
        threadVars, engineVars, daemonVars, history
<1>1. CASE Lock
  <2>1. CASE state = "RUNNING"
    BY <1>1, <2>1 DEF Lock
  <2>2. CASE state # "RUNNING"
    <3>1. started' \in Starts
      BY <1>1, <2>2 DEF Lock, NewRun
    <3>2. {<<started', cpu>> : cpu \in 1..Cpus} \subseteq Workers
      BY <3>1 DEF Workers
    <3>3. listed' \in [Starts -> {{}, 1..Cpus}]
      BY <1>1, <2>2, <3>1 DEF Lock, NewRun
    <3>4. overlapped' \in BOOLEAN
      BY <1>1, <2>2 DEF Lock, NewRun, Stopping
    <3>5. /\ state' = "RUNNING" /\ stopEvent' = FALSE /\ started' = started + 1
          /\ alive' = alive \cup {<<started', cpu>> : cpu \in 1..Cpus}
          /\ controllers' = controllers \cup {started'}
          /\ daemon' = "RUNNING" /\ boosted' = TRUE
          /\ UNCHANGED <<stopped, paused, call, timedOut>>
      BY <1>1, <2>2 DEF Lock, NewRun
    <3>6. alive' \subseteq Workers /\ stopped' \subseteq alive' /\ paused' \subseteq alive'
      BY <3>2, <3>5
    <3>7. controllers' \subseteq Starts
      BY <3>1, <3>5
    <3>8. call' \in [Callers -> Calls]
      BY <3>5 DEF Calls
    <3>9. TypeOK'
      <4>1. state' \in {"STOPPED", "RUNNING", "PAUSED"} /\ started' \in 0..MaxStarts
        BY <3>1, <3>5
      <4>2. daemon' \in {"INITIALIZING", "RUNNING", "PAUSED", "STOPPED"}
        BY <3>5
      <4>3. stopEvent' \in BOOLEAN /\ boosted' \in BOOLEAN /\ timedOut' \in BOOLEAN
        BY <3>5
      <4> QED BY <3>3, <3>4, <3>6, <3>7, <3>8, <4>1, <4>2, <4>3 DEF Calls
    <3> QED BY <3>5, <3>9
  <2> QED BY <2>1, <2>2
<1>2. CASE Pause
  BY <1>2 DEF Pause
<1>3. CASE Resume
  BY <1>3 DEF Resume
<1>4. CASE Unlock
  BY <1>4 DEF Unlock
<1>5. ASSUME NEW t \in Stoppers, DaemonStop(t) \/ DaemonRollback(t)
      PROVE  TypeOK' /\ CallInv'
  <2>1. t \in Callers /\ call[t] = Idle /\ Goto(t, "enter") /\ UNCHANGED <<engineVars, history>>
    BY <1>5 DEF DaemonStop, DaemonRollback
  <2>2. call' \in [Callers -> Calls] /\ call'[t].at = "enter"
        /\ \A u \in Callers : u # t => call'[u] = call[u]
    <3>1. call \in [Callers -> Calls] /\ "enter" \in CallSteps
      BY DEF Calls
    <3> HIDE DEF TypeOK, CallInv, Callers, CallSteps, Goto
    <3> QED BY <2>1, <3>1, GotoKeepsCalls
  <2>3. /\ daemon' \in {"INITIALIZING", "RUNNING", "PAUSED", "STOPPED"}
        /\ boosted' \in BOOLEAN
    BY <1>5 DEF DaemonStop, DaemonRollback
  <2>4. TypeOK'
    BY <2>1, <2>2, <2>3 DEF Calls
  <2>5. CallInv'
    BY <2>1, <2>2
  <2> QED BY <2>4, <2>5
<1>6. ASSUME NEW t \in Callers, EnterStop(t) PROVE TypeOK' /\ CallInv'
  <2>1. CASE state = "STOPPED"
    BY <1>6, <2>1 DEF EnterStop
  <2>2. CASE state # "STOPPED"
    <3>1. call' = [call EXCEPT ![t].at = "workers"] /\ stopEvent' = TRUE
      BY <1>6, <2>2 DEF EnterStop
    <3>2. TypeOK'
      BY <1>6, <3>1 DEF EnterStop
    <3> QED BY <1>6, <2>2, <3>1, <3>2 DEF EnterStop
  <2> QED BY <2>1, <2>2
<1>7. ASSUME NEW t \in Callers, TakeList(t) PROVE TypeOK' /\ CallInv'
  BY <1>7 DEF TakeList
<1>8. ASSUME NEW t \in Callers, StopWorker(t) PROVE TypeOK' /\ CallInv'
  <2>1. listed[call[t].run] \in {{}, 1..Cpus}
    BY <1>8 DEF StopWorker
  <2>0. call[t].next \in 0..(Cpus + 1) /\ call[t].run \in 0..MaxStarts
    OBVIOUS
  <2>2. CASE call[t].next \in listed[call[t].run]
    <3>1. call[t].next \in 1..Cpus
      BY <2>1, <2>2
    <3>2. call'[t] = [at |-> "worker", run |-> call[t].run, next |-> call[t].next + 1]
      BY <1>8, <2>2 DEF StopWorker
    <3>3. call'[t] \in Calls
      BY <2>0, <3>1, <3>2 DEF Calls
    <3>4. call' \in [Callers -> Calls]
      BY <1>8, <2>2, <3>3 DEF StopWorker, Calls
    <3>5. TypeOK'
      BY <1>8, <2>2, <3>4 DEF StopWorker, Calls
    <3>6. call'[t].run >= 1 /\ call'[t].next >= 1 /\ started' >= 1
      BY <1>8, <2>0, <3>1, <3>2 DEF StopWorker
    <3>7. \A u \in Callers : u # t => call'[u] = call[u]
      BY <1>8, <2>2 DEF StopWorker
    <3>8. UNCHANGED <<state, started>>
      BY <1>8 DEF StopWorker
    <3>9. CallInv'
      <4> SUFFICES ASSUME NEW u \in Callers
                   PROVE  /\ call'[u].at = "idle" => call'[u] = Idle
                          /\ call'[u].at \in {"workers", "worker", "join", "finish"} => started' >= 1
                          /\ call'[u].at = "worker" => call'[u].run >= 1 /\ call'[u].next >= 1
        BY <3>8
      <4> QED BY <3>2, <3>6, <3>7, <3>8
    <3> QED BY <3>5, <3>9
  <2>3. CASE call[t].next \notin listed[call[t].run]
    <3>1. call' = [call EXCEPT ![t] = [at |-> "join", run |-> started, next |-> 0]]
      BY <1>8, <2>3 DEF StopWorker
    <3>2. TypeOK'
      BY <1>8, <2>3, <3>1 DEF StopWorker
    <3> QED BY <1>8, <2>3, <3>1, <3>2 DEF StopWorker
  <2> QED BY <2>2, <2>3
<1>9. ASSUME NEW t \in Callers, JoinController(t) PROVE TypeOK' /\ CallInv'
  BY <1>9 DEF JoinController
<1>10. ASSUME NEW t \in Callers, FinishStop(t) PROVE TypeOK' /\ CallInv'
  BY <1>10 DEF FinishStop
<1>11. ASSUME NEW t \in Callers, Return(t) PROVE TypeOK' /\ CallInv'
  <2>1. daemon' \in {"INITIALIZING", "RUNNING", "PAUSED", "STOPPED"}
    BY <1>11 DEF Return
  <2>2. TypeOK'
    <3>1. call' \in [Callers -> Calls]
      BY <1>11 DEF Return, Calls
    <3> QED BY <1>11, <2>1, <3>1 DEF Return, Calls
  <2> QED BY <1>11, <2>2 DEF Return
<1>12. ASSUME NEW w \in Workers, WorkerEnds(w) PROVE TypeOK' /\ CallInv'
  BY <1>12 DEF WorkerEnds
<1>13. ASSUME NEW r \in Starts, ControllerEnds(r) PROVE TypeOK' /\ CallInv'
  BY <1>13 DEF ControllerEnds
<1>14. CASE UNCHANGED vars
  BY <1>14 DEF vars
<1> QED BY <1>1, <1>2, <1>3, <1>4, <1>5, <1>6, <1>7, <1>8, <1>9, <1>10, <1>11, <1>12,
          <1>13, <1>14 DEF Next, StopStep

(* A run that begins while nobody stops the engine finds it STOPPED.       *)
LEMMA NewRunFromStopped ==
  ASSUME TypeOK, QuietInv, Lock, state # "RUNNING", ~overlapped'
  PROVE  ~overlapped /\ ~Stopping /\ state = "STOPPED"
BY DEF TypeOK, Lock, NewRun, QuietInv

LEMMA QuietNext ==
  ASSUME TypeOK, CallInv, TypeOK', QuietInv, [Next]_vars PROVE QuietInv'
<1> SUFFICES ASSUME ~overlapped' PROVE QuietInv'
  BY DEF QuietInv
<1> USE BoundAssumption
    DEF TypeOK, CallInv, QuietInv, Starts, Callers, Workers, Idle, Goto, MutexFree, Stopping,
        threadVars, engineVars, daemonVars, history
<1>1. CASE Lock
  <2>1. CASE state = "RUNNING"
    BY <1>1, <2>1 DEF Lock
  <2>2. CASE state # "RUNNING"
    <3>1. ~overlapped /\ ~Stopping /\ state = "STOPPED"
      BY <1>1, <2>2, NewRunFromStopped
    <3>2. started' >= 1 /\ listed'[started'] = 1..Cpus /\ state' = "RUNNING" /\ boosted'
      BY <1>1, <2>2 DEF Lock, NewRun
    <3>3. \A w \in alive' : w[1] = started' \/ w \in stopped'
      BY <1>1, <2>2, <3>1 DEF Lock, NewRun
    <3>4. \A t \in Callers : call'[t] = Idle
      BY <1>1, <3>1 DEF Lock
    <3> QED BY <3>2, <3>3, <3>4
  <2> QED BY <2>1, <2>2
<1>2. CASE Pause
  <2>1. CASE state = "RUNNING"
    <3>1. alive' = paused' \cup stopped'
      <4>1. \A w \in alive : w[1] = started => w \in Last
        BY <1>2, <2>1 DEF Pause, Last
      <4> QED BY <1>2, <2>1, <4>1 DEF Pause
    <3> QED BY <1>2, <2>1, <3>1 DEF Pause
  <2>2. CASE state # "RUNNING"
    BY <1>2, <2>2 DEF Pause
  <2> QED BY <2>1, <2>2
<1>3. CASE Resume
  BY <1>3 DEF Resume
<1>4. CASE Unlock
  BY <1>4 DEF Unlock
<1>5. ASSUME NEW t \in Stoppers, DaemonStop(t) \/ DaemonRollback(t) PROVE QuietInv'
  <2>1. /\ call' = [call EXCEPT ![t].at = "enter"] /\ t \in Callers
        /\ UNCHANGED <<state, started, listed, alive, stopped, paused, overlapped>>
    BY <1>5 DEF DaemonStop, DaemonRollback
  <2>2. Stopping'
    BY <2>1
  <2>3. \A u \in Callers : u # t => call'[u] = call[u]
    BY <2>1
  <2>4. call'[t].at = "enter"
    BY <2>1
  <2> QED BY <2>1, <2>2, <2>3, <2>4
<1>6. ASSUME NEW t \in Callers, EnterStop(t) PROVE QuietInv'
  <2>1. /\ call[t].at = "enter"
        /\ UNCHANGED <<state, started, listed, alive, stopped, paused, boosted, overlapped>>
    BY <1>6 DEF EnterStop
  <2>2. \A u \in Callers : u # t => call'[u] = call[u]
    BY <1>6 DEF EnterStop
  <2>3. IF state = "STOPPED" THEN call'[t].at = "return" ELSE call'[t].at = "workers"
    BY <1>6 DEF EnterStop
  <2>4. call[t].at # "idle" /\ call'[t].at # "idle"
    BY <2>1, <2>3
  <2>5. Stopping
    BY <2>4
  <2>6. Stopping'
    BY <2>4
  <2>7. /\ call'[t].at \notin {"worker", "join", "finish"}
        /\ call'[t].at = "return" => state = "STOPPED"
    BY <2>3
  <2> HIDE DEF Stopping, Callers, Workers, Starts, Goto, MutexFree, Idle
  <2>8. QuietInv
    OBVIOUS
  <2> QED BY <2>1, <2>2, <2>5, <2>6, <2>7, <2>8
<1>7. ASSUME NEW t \in Callers, TakeList(t) PROVE QuietInv'
  BY <1>7 DEF TakeList
<1>8. ASSUME NEW t \in Callers, StopWorker(t) PROVE QuietInv'
  <2> DEFINE w0 == <<call[t].run, call[t].next>>
  <2>1. call[t].run = started /\ started >= 1
    BY <1>8 DEF StopWorker
  <2>2. CASE call[t].next \in listed[call[t].run]
    <3>1. \A w \in alive : w[1] = started /\ w[2] = call[t].next => w = w0
      BY <2>1
    <3>2. /\ alive' = alive /\ stopped' = stopped \cup ({w0} \cap alive)
          /\ paused' = paused \ {w0}
          /\ call' = [call EXCEPT ![t].next = @ + 1]
      BY <1>8, <2>2 DEF StopWorker
    <3>3. \A w \in alive : w[2] < call'[t].next => w \in stopped'
      BY <1>8, <3>1, <3>2 DEF StopWorker
    <3>4. alive = paused \cup stopped => alive' = paused' \cup stopped'
      BY <3>2
    <3> QED BY <1>8, <2>2, <3>2, <3>3, <3>4 DEF StopWorker
  <2>3. CASE call[t].next \notin listed[call[t].run]
    <3>1. alive = stopped
      <4>1. CASE state = "STOPPED"
        BY <1>8, <4>1 DEF StopWorker
      <4>2. CASE listed[started] = 1..Cpus
        <5>1. call[t].next > Cpus
          BY <1>8, <2>1, <2>3, <4>2 DEF StopWorker
        <5>2. \A w \in alive : w[2] < call[t].next
          BY <5>1
        <5>3. \A w \in alive : w \in stopped
          BY <1>8, <5>2 DEF StopWorker
        <5> QED BY <5>3
      <4> QED BY <1>8, <2>1, <4>1, <4>2 DEF StopWorker
    <3>2. call' = [call EXCEPT ![t] = [at |-> "join", run |-> started, next |-> 0]]
      BY <1>8, <2>3 DEF StopWorker
    <3>3. /\ Stopping' 
          /\ UNCHANGED <<state, started, listed, alive, stopped, paused, boosted, overlapped>>
      BY <1>8, <2>3, <3>2 DEF StopWorker
    <3> QED BY <3>1, <3>2, <3>3
  <2> QED BY <2>2, <2>3
<1>9. ASSUME NEW t \in Callers, JoinController(t) PROVE QuietInv'
  BY <1>9 DEF JoinController
<1>10. ASSUME NEW t \in Callers, FinishStop(t) PROVE QuietInv'
  BY <1>10 DEF FinishStop
<1>11. ASSUME NEW t \in Callers, Return(t) PROVE QuietInv'
  BY <1>11 DEF Return
<1>12. ASSUME NEW w \in Workers, WorkerEnds(w) PROVE QuietInv'
  BY <1>12 DEF WorkerEnds
<1>13. ASSUME NEW r \in Starts, ControllerEnds(r) PROVE QuietInv'
  BY <1>13 DEF ControllerEnds
<1>14. CASE UNCHANGED vars
  BY <1>14 DEF vars
<1> QED BY <1>1, <1>2, <1>3, <1>4, <1>5, <1>6, <1>7, <1>8, <1>9, <1>10, <1>11, <1>12,
          <1>13, <1>14 DEF Next, StopStep

LEMMA ControllerNext ==
  ASSUME TypeOK, CallInv, QuietInv, QuietInv', ControllerInv, [Next]_vars
  PROVE  ControllerInv'
<1> SUFFICES ASSUME ~overlapped', ~timedOut' PROVE ControllerInv'
  BY DEF ControllerInv
<1> USE DEF TypeOK, CallInv, ControllerInv, Starts, Idle, Goto, MutexFree, Stopping,
        threadVars, engineVars, daemonVars, history
<1>1. CASE Lock
  <2>1. CASE state = "RUNNING"
    BY <1>1, <2>1 DEF Lock
  <2>2. CASE state # "RUNNING"
    <3>1. ~overlapped /\ ~Stopping /\ state = "STOPPED"
      BY <1>1, <2>2, NewRunFromStopped
    <3>2. \A t \in Callers : call'[t] = Idle
      BY <1>1, <3>1 DEF Lock
    <3>3. controllers = {} /\ controllers' = {started'} /\ ~stopEvent' /\ state' = "RUNNING"
      BY <1>1, <2>2, <3>1 DEF Lock, NewRun
    <3> QED BY <3>2, <3>3
  <2> QED BY <2>1, <2>2
<1>2. CASE Pause
  BY <1>2 DEF Pause
<1>3. CASE Resume
  BY <1>3 DEF Resume
<1>4. CASE Unlock
  BY <1>4 DEF Unlock
<1>5. ASSUME NEW t \in Stoppers, DaemonStop(t) \/ DaemonRollback(t) PROVE ControllerInv'
  BY <1>5 DEF DaemonStop, DaemonRollback, Callers
<1>6. ASSUME NEW t \in Callers, EnterStop(t) PROVE ControllerInv'
  <2>1. call[t].at = "enter" /\ \A u \in Callers : u # t => call'[u] = call[u]
    BY <1>6 DEF EnterStop
  <2>2. /\ call'[t].at = IF state = "STOPPED" THEN "return" ELSE "workers"
        /\ stopEvent' = (stopEvent \/ state # "STOPPED")
        /\ UNCHANGED <<state, started, controllers, overlapped, timedOut>>
    BY <1>6 DEF EnterStop
  <2> QED BY <2>1, <2>2
<1>7. ASSUME NEW t \in Callers, TakeList(t) PROVE ControllerInv'
  BY <1>7 DEF TakeList
<1>8. ASSUME NEW t \in Callers, StopWorker(t) PROVE ControllerInv'
  <2>1. call'[t].at \in {"worker", "join"} /\ \A u \in Callers : u # t => call'[u] = call[u]
    BY <1>8 DEF StopWorker
  <2>2. Stopping' /\ \A u \in Callers : call'[u].at = "finish" => call[u].at = "finish"
    BY <2>1
  <2>3. UNCHANGED <<state, stopEvent, started, controllers, overlapped, timedOut>>
    BY <1>8 DEF StopWorker
  <2>4. Stopping
    BY <1>8 DEF StopWorker
  <2> QED BY <2>2, <2>3, <2>4
<1>9. ASSUME NEW t \in Callers, JoinController(t) PROVE ControllerInv'
  <2>1. call[t].run = started /\ call[t].run \notin controllers /\ ~timedOut /\ ~overlapped
    BY <1>9 DEF JoinController, QuietInv
  <2> QED BY <1>9, <2>1 DEF JoinController
<1>10. ASSUME NEW t \in Callers, FinishStop(t) PROVE ControllerInv'
  BY <1>10 DEF FinishStop
<1>11. ASSUME NEW t \in Callers, Return(t) PROVE ControllerInv'
  BY <1>11 DEF Return, QuietInv
<1>12. ASSUME NEW w \in Workers, WorkerEnds(w) PROVE ControllerInv'
  BY <1>12 DEF WorkerEnds
<1>13. ASSUME NEW r \in Starts, ControllerEnds(r) PROVE ControllerInv'
  BY <1>13 DEF ControllerEnds
<1>14. CASE UNCHANGED vars
  BY <1>14 DEF vars
<1> QED BY <1>1, <1>2, <1>3, <1>4, <1>5, <1>6, <1>7, <1>8, <1>9, <1>10, <1>11, <1>12,
          <1>13, <1>14 DEF Next, StopStep

-----------------------------------------------------------------------------
(* The invariant holds of every behaviour, for any number of callers of    *)
(* stop(), each at any of its steps.                                       *)
THEOREM Inductive == Spec => []IInv
<1>1. IInv /\ [Next]_vars => IInv'
  BY TypeNext, QuietNext, ControllerNext DEF IInv
<1> QED BY InitInv, <1>1, PTL DEF Spec

(* An engine that reports STOPPED or PAUSED pulses on no CPU: each worker  *)
(* of each run has been told to end or is paused, however the calls of     *)
(* stop(), pause() and resume() fell between one another.                  *)
THEOREM NotRunningIsQuiet == Spec => []NotRunningMeansQuiet
<1>1. IInv => NotRunningMeansQuiet
  BY DEF IInv, QuietInv, NotRunningMeansQuiet
<1> QED BY Inductive, <1>1, PTL

(* An engine that runs has one controller and its event is clear: no run   *)
(* leaves a second thread behind that would adjust the duties.             *)
THEOREM ControllerIsAlone == Spec => []OneController
<1>1. IInv => OneController
  BY DEF IInv, ControllerInv, OneController
<1> QED BY Inductive, <1>1, PTL
=============================================================================
