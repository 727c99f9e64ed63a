---------------------------- MODULE DaemonProofs ----------------------------
(***************************************************************************)
(* Proofs about DaemonLifecycle, for any number of client threads,         *)
(* requests and signals, and both PM QoS routes; then about                *)
(* StartupTransaction, the transactions of such a daemon.                  *)
(***************************************************************************)
EXTENDS DaemonLifecycle, StartupTransaction, TLAPS

Early == {"start", "acquire", "plan", "register", "transaction"}
Late == {"engage", "serve", "publish", "publishing"}
Starting == {"acquire", "plan", "register", "transaction"} \cup Late \cup RollbackSteps
Up == {"run", "stop", "stopping"}
Ending == {"stopEngine", "joinEngine", "release", "restore", "unregister", "unserve",
         "unlockPid"}
Holding == {"publishing", "stopping", "locking", "lockEngine", "unlockEngine", "unlockQos"}
Live == {"RUNNING", "PAUSED"}

(* Which thread may be where, and the lock is held exactly between the     *)
(* steps that take it and give it back.                                    *)
Allowed(t, step) ==
  /\ t = Main => step \in {"start"} \cup Starting \cup Up \cup Ending \cup {"exit"}
  /\ t = Sig => step \in {"idle", "stop", "stopping"} \cup Ending
  /\ t \in Handlers => step \notin {"run", "exit"}
RoleInv ==
  /\ \A t \in Threads : Allowed(t, pc[t])
  /\ Exited => pc[Sig] = "idle"
  /\ \A t \in Threads : pc[t] \in Holding <=> mutex = t
  /\ state # "THROTTLED"

(* Without a second start() no client is served before the first one has   *)
(* made the server, and none starts the engine of a paused daemon.         *)
BeforeServing == Early \cup {"engage", "serve"} \cup RollbackSteps
QuietInv ==
  "start" \notin races =>
    /\ \A t \in Handlers : pc[t] \notin Starting
    /\ pc[Main] \in BeforeServing =>
         ~ipc /\ state \notin Live /\ \A t \in Handlers : pc[t] = "idle"
    /\ state = "PAUSED" => engine # "RUNNING"

(* Without races the state tells how far the daemon is; one thread alone   *)
(* goes through the part of stop() that no lock protects.                  *)
StateInv ==
  races = {} =>
    /\ pc[Main] = "start" => state = "STOPPED" /\ ~handled /\ pc[Sig] = "idle"
    /\ pc[Main] \in Starting <=> state = "INITIALIZING"
    /\ state \in Live => pc[Main] \in Up
    /\ state = "ERROR" => Exited
    /\ boosted => state \in Live
    /\ \A t \in Threads :
         /\ pc[t] \in Ending => state = "STOPPED" /\ pc[Main] # "start"
         /\ pc[t] \in {"locking", "lockEngine"} => state \in Live /\ ~boosted
         /\ pc[t] \in {"unlockEngine", "unlockQos"} => boosted
         /\ \A u \in Threads : pc[t] \in Ending /\ pc[u] \in Ending => t = u

(* What is in force on the machine, and what would be given back.          *)
Clean == sysfs = "orig" /\ ~qos.held
MachineInv ==
  races = {} =>
    /\ (qos.effect <=> qos.held) /\ ~qos.saved
    /\ pc[Main] \in Early => Clean /\ (pidLock <=> pc[Main] \notin {"start", "acquire"})
    /\ pc[Main] \in {"register", "transaction"} => snapshot = "orig"
    /\ pc[Main] \in Late => sysfs = "boosted" /\ qos.held /\ pidLock /\ snapshot = "orig"
    /\ state \in Live =>
         /\ sysfs = "boosted" /\ pidLock /\ snapshot = "orig"
         /\ qos.held <=> boosted \/ \E t \in Threads : pc[t] = "lockEngine"
    /\ pc[Main] \in {"rbEngine", "rbJoin", "rbRelease"} =>
         IF outcome[Main] = "ERROR" THEN snapshot = "orig" ELSE Clean
    /\ pc[Main] = "rbRestore" => snapshot = "orig" /\ ~qos.held
    /\ pc[Main] \in {"rbUnserve", "rbUnlockPid", "rbFinal"} => Clean
    /\ pc[Main] = "rbFinal" => ~pidLock
    /\ \A t \in Threads :
         /\ pc[t] \in {"stopEngine", "joinEngine", "release", "restore"} => snapshot = "orig"
         /\ pc[t] = "restore" => ~qos.held
         /\ pc[t] \in {"unregister", "unserve", "unlockPid"} => Clean
    /\ /\ pc[Main] \in Up \cup {"exit"} /\ state \notin Live
       /\ \A t \in Threads : pc[t] \notin Ending
       => Clean /\ ~pidLock

IInv == TypeOK /\ RoleInv /\ QuietInv /\ StateInv /\ MachineInv

-----------------------------------------------------------------------------
(* Who takes a step: the main thread starts, rolls back and stops, the     *)
(* signal handler stops, a client thread may do any of it.                 *)
LEMMA WhoSteps ==
  ASSUME [Next]_vars
  PROVE  \/ \E t \in Threads \ {Sig} : Start(t) \/ Rollback(t)
         \/ \E t \in Threads : Stop(t)
         \/ \E t \in Handlers : Serve(t) \/ Connect(t) \/ \E c \in Commands : Request(t, c)
         \/ Signal \/ LeaveLoop
         \/ UNCHANGED vars
<1>1. Main \in Threads \ {Sig} /\ Sig \in Threads /\ Handlers \subseteq Threads \ {Sig}
  BY HandlerAssumption DEF Threads, Main, Sig
<1> QED BY <1>1 DEF Next, MainStep, SigStep, HandlerStep

LEMMA InitInv == Init => IInv
<1> SUFFICES ASSUME Init PROVE IInv
  OBVIOUS
<1>1. Main \in Threads /\ Sig \in Threads /\ Sig # Main /\ Handlers \subseteq Threads \ {Main, Sig}
  BY HandlerAssumption DEF Threads, Main, Sig
<1>2. pc[Main] = "start" /\ \A t \in Threads \ {Main} : pc[t] = "idle"
  BY <1>1 DEF Init
<1>3. TypeOK
  <2>1. pc \in [Threads -> {"idle", "start"}]
    BY DEF Init
  <2>2. sent \in [commands : 0..MaxCommands, signals : 0..MaxSignals]
    BY BoundAssumption DEF Init
  <2> QED BY <2>1, <2>2 DEF Init, TypeOK, States, Image, StartSteps
<1>4. RoleInv
  BY <1>1, <1>2, HandlerAssumption DEF Init, RoleInv, Allowed, Exited, Holding
<1>5. QuietInv
  BY <1>1, <1>2 DEF Init, QuietInv, Starting, Late, RollbackSteps, Live
<1>6. StateInv
  BY <1>1, <1>2 DEF Init, StateInv, Starting, Late, RollbackSteps, Live, Ending, Exited
<1>7. MachineInv
  BY <1>1, <1>2 DEF Init, MachineInv, Early, Late, Up, Live, Clean
<1> QED BY <1>3, <1>4, <1>5, <1>6, <1>7 DEF IInv

-----------------------------------------------------------------------------
AllSteps == {"idle", "run", "exit", "connected", "PAUSE", "RESUME"} \cup StartSteps
              \cup StopSteps \cup RollbackSteps \cup LockSteps

LEMMA PcStep ==
  ASSUME TypeOK, NEW t \in Threads, NEW from, NEW to \in AllSteps, Step(t, from, to)
  PROVE  pc' \in [Threads -> AllSteps]
BY DEF TypeOK, Step, Goto, AllSteps

LEMMA PcNext == ASSUME TypeOK, [Next]_vars PROVE pc' \in [Threads -> AllSteps]
<1>1. /\ StartSteps \cup StopSteps \cup RollbackSteps \cup LockSteps \subseteq AllSteps
      /\ {"idle", "run", "exit", "connected", "PAUSE", "RESUME"} \subseteq AllSteps
  BY DEF AllSteps
<1>2. ASSUME NEW t \in Threads, Start(t) PROVE \E from, to : to \in AllSteps /\ Step(t, from, to)
  BY <1>1, <1>2
     DEF Start, BeginStart, AcquirePid, AcquireFails, TakeSnapshot, PlanFails, RegisterSignals,
         StartTransaction, StartThreads, StartServer, Publish, EndStart, AfterStart,
         StartSteps, RollbackSteps
<1>3. ASSUME NEW t \in Threads, Rollback(t) PROVE \E from, to : to \in AllSteps /\ Step(t, from, to)
  BY <1>1, <1>3
     DEF Rollback, StopEngine, JoinEngine, ReleaseQos, Restore, StopServer, ReleasePid,
         EndRollback, AfterFailure, RollbackSteps
<1>4. ASSUME NEW t \in Threads, Stop(t) PROVE \E from, to : to \in AllSteps /\ Step(t, from, to)
  BY <1>1, <1>4
     DEF Stop, StopEngine, JoinEngine, ReleaseQos, Restore, StopServer, ReleasePid,
         LockForStop, BeginStop, UnregisterSignals, AfterStop, StopSteps
<1>5. ASSUME NEW t \in Threads, Serve(t) PROVE \E from, to : to \in AllSteps /\ Step(t, from, to)
  BY <1>1, <1>5
     DEF Serve, BeginLock, LockTransaction, EndLock, BeginUnlock, UnlockEngine, EndUnlock,
         Pause, Resume, LockSteps
<1>6. ASSUME NEW t \in Threads, Connect(t) PROVE \E from, to : to \in AllSteps /\ Step(t, from, to)
  BY <1>1, <1>6 DEF Connect
<1>7. ASSUME NEW t \in Threads, NEW c \in Commands, Request(t, c)
      PROVE  \E from, to : to \in AllSteps /\ Step(t, from, to)
  BY <1>1, <1>7, CommandAssumption DEF Request, StartSteps, StopSteps, LockSteps
<1>8. CASE Signal \/ LeaveLoop
  BY <1>1, <1>8, PcStep DEF Signal, LeaveLoop, StopSteps, Threads
<1>9. CASE UNCHANGED vars
  BY <1>9 DEF vars, TypeOK, AllSteps
<1> QED BY <1>2, <1>3, <1>4, <1>5, <1>6, <1>7, <1>8, <1>9, WhoSteps, PcStep DEF Threads

Holds == [held : BOOLEAN, effect : BOOLEAN, saved : BOOLEAN]

LEMMA QosTypes ==
  ASSUME qos \in Holds
  PROVE  /\ Released \in Holds
         /\ [qos EXCEPT !.effect = FALSE] \in Holds
         /\ [held |-> TRUE, effect |-> TRUE, saved |-> Route = "cpuidle" /\ qos.effect] \in Holds
<1>1. qos.effect \in BOOLEAN /\ qos.saved \in BOOLEAN /\ qos.held \in BOOLEAN
  BY DEF Holds
<1>2. (Route = "cpuidle" /\ qos.effect) \in BOOLEAN
  OBVIOUS
<1>3. [held |-> FALSE, effect |-> qos.saved, saved |-> FALSE] \in Holds
  BY <1>1 DEF Holds
<1>4. Released \in Holds
  BY <1>3 DEF Released
<1> QED BY <1>2, <1>4 DEF Holds

LEMMA TypeNext == ASSUME TypeOK, [Next]_vars PROVE TypeOK'
<1> DEFINE Rest ==
      /\ outcome \in [Threads -> {"ERROR", "STOPPED"}]
      /\ mutex \in Threads \cup {NoThread}
      /\ state \in States
      /\ boosted \in BOOLEAN /\ stopEvent \in BOOLEAN
      /\ engine \in {"STOPPED", "RUNNING", "PAUSED"}
      /\ guard \in BOOLEAN /\ ipc \in BOOLEAN /\ handled \in BOOLEAN /\ pidLock \in BOOLEAN
      /\ sysfs \in Image
      /\ snapshot \in Image \cup {"none"} /\ snapFile \in Image \cup {"none"}
      /\ qos \in [held : BOOLEAN, effect : BOOLEAN, saved : BOOLEAN]
      /\ sent \in [commands : 0..MaxCommands, signals : 0..MaxSignals]
      /\ races \in SUBSET {"refused", "start", "lock", "stop", "signal"}
<1>0. Rest
  BY DEF TypeOK
<1> SUFFICES Rest'
  BY PcNext DEF TypeOK, AllSteps
<1> USE <1>0 DEF daemonVars, systemVars
<1>1. ASSUME NEW t \in Threads, BeginStart(t) PROVE Rest'
  BY <1>1 DEF BeginStart, States
<1>2. ASSUME NEW t \in Threads, AcquirePid(t) \/ TakeSnapshot(t) \/ RegisterSignals(t) \/ StartThreads(t)
      PROVE  Rest'
  <2>1. CASE AcquirePid(t)
    BY <2>1 DEF AcquirePid
  <2>2. CASE TakeSnapshot(t)
    BY <2>2 DEF TakeSnapshot
  <2>3. CASE RegisterSignals(t)
    BY <2>3 DEF RegisterSignals
  <2>4. CASE StartThreads(t)
    BY <2>4 DEF StartThreads
  <2> QED BY <1>2, <2>1, <2>2, <2>3, <2>4
<1>3. ASSUME NEW t \in Threads, AcquireFails(t) \/ PlanFails(t) PROVE Rest'
  <2>1. outcome' \in [Threads -> {"ERROR", "STOPPED"}]
    BY <1>3 DEF AcquireFails, PlanFails
  <2>2. CASE AcquireFails(t)
    BY <2>1, <2>2 DEF AcquireFails
  <2>3. CASE PlanFails(t)
    BY <2>1, <2>3 DEF PlanFails
  <2> QED BY <1>3, <2>2, <2>3
<1>4. ASSUME NEW t \in Threads, StartTransaction(t) PROVE Rest'
  <2>1. qos' \in Holds /\ sysfs' \in Image
    BY <1>4, QosTypes DEF StartTransaction, Applied, Image, Holds
  <2>2. outcome' \in [Threads -> {"ERROR", "STOPPED"}]
    BY <1>4 DEF StartTransaction
  <2> QED BY <1>4, <2>1, <2>2 DEF StartTransaction, Holds
<1>5. ASSUME NEW t \in Threads, StartServer(t) PROVE Rest'
  <2>1. outcome' \in [Threads -> {"ERROR", "STOPPED"}] /\ ipc' \in BOOLEAN
    BY <1>5 DEF StartServer
  <2> QED BY <1>5, <2>1 DEF StartServer
<1>6. ASSUME NEW t \in Threads, Publish(t) \/ EndStart(t) PROVE Rest'
  <2>1. CASE Publish(t)
    BY <2>1 DEF Publish
  <2>2. CASE EndStart(t)
    <3>1. state' \in States /\ boosted' \in BOOLEAN /\ stopEvent' \in BOOLEAN
      BY <2>2 DEF EndStart, States
    <3>2. mutex' = NoThread /\ UNCHANGED <<outcome, systemVars, sent, races>>
      BY <2>2 DEF EndStart
    <3> QED BY <3>1, <3>2
  <2> QED BY <1>6, <2>1, <2>2
<1>7. ASSUME NEW t \in Threads, EndRollback(t) PROVE Rest'
  BY <1>7 DEF EndRollback, States
<1>8. ASSUME NEW t \in Threads, NEW from, NEW join, NEW to,
             StopEngine(t, from, join, to) \/ JoinEngine(t, from, to) \/ ReleaseQos(t, from, to)
               \/ Restore(t, from, to) \/ StopServer(t, from, to) \/ ReleasePid(t, from, to)
      PROVE  Rest'
  <2>1. CASE StopEngine(t, from, join, to) \/ JoinEngine(t, from, to)
    BY <2>1 DEF StopEngine, JoinEngine
  <2>2. CASE ReleaseQos(t, from, to)
    BY <2>2, QosTypes DEF ReleaseQos, Holds
  <2>3. CASE Restore(t, from, to)
    <3>1. qos' \in Holds
      BY <2>3, QosTypes DEF Restore, Holds
    <3>2. sysfs' \in Image /\ snapshot' = "none" /\ snapFile' = "none"
      BY <2>3 DEF Restore, Image
    <3> QED BY <2>3, <3>1, <3>2 DEF Restore, Holds
  <2>4. CASE StopServer(t, from, to) \/ ReleasePid(t, from, to)
    BY <2>4 DEF StopServer, ReleasePid
  <2> QED BY <1>8, <2>1, <2>2, <2>3, <2>4
<1>9. ASSUME NEW t \in Threads, LockForStop(t) \/ BeginStop(t) PROVE Rest'
  <2>1. CASE LockForStop(t)
    BY <2>1 DEF LockForStop
  <2>2. CASE BeginStop(t)
    <3>1. races' \in SUBSET {"refused", "start", "lock", "stop", "signal"}
      BY <2>2 DEF BeginStop
    <3>2. state' \in States /\ boosted' \in BOOLEAN /\ stopEvent' \in BOOLEAN
      BY <2>2 DEF BeginStop, States
    <3> QED BY <2>2, <3>1, <3>2 DEF BeginStop
  <2> QED BY <1>9, <2>1, <2>2
<1>10. ASSUME NEW t \in Threads, UnregisterSignals(t) PROVE Rest'
  BY <1>10 DEF UnregisterSignals
<1>11. ASSUME NEW t \in Threads, BeginLock(t) \/ BeginUnlock(t) PROVE Rest'
  BY <1>11 DEF BeginLock, BeginUnlock
<1>12. ASSUME NEW t \in Threads, LockTransaction(t) \/ EndLock(t) PROVE Rest'
  <2>1. CASE LockTransaction(t)
    <3>1. qos' \in Holds /\ sysfs' \in Image
      BY <2>1, QosTypes DEF LockTransaction, Applied, Image, Holds
    <3> QED BY <2>1, <3>1 DEF LockTransaction, Holds
  <2>2. CASE EndLock(t)
    BY <2>2 DEF EndLock, States
  <2> QED BY <1>12, <2>1, <2>2
<1>13. ASSUME NEW t \in Threads, UnlockEngine(t) \/ EndUnlock(t) PROVE Rest'
  BY <1>13, QosTypes DEF UnlockEngine, EndUnlock, Holds
<1>14. ASSUME NEW t \in Threads, Pause(t) \/ Resume(t) PROVE Rest'
  <2>1. state' \in States /\ engine' \in {"STOPPED", "RUNNING", "PAUSED"}
    BY <1>14 DEF Pause, Resume, States
  <2>2. /\ UNCHANGED <<outcome, mutex, boosted, stopEvent, guard, ipc, handled, pidLock>>
        /\ UNCHANGED <<sysfs, snapshot, snapFile, qos, sent, races>>
    BY <1>14 DEF Pause, Resume
  <2> QED BY <2>1, <2>2
<1>15. ASSUME NEW t \in Threads, Connect(t) PROVE Rest'
  BY <1>15, BoundAssumption DEF Connect
<1>16. ASSUME NEW t \in Threads, NEW c \in Commands, Request(t, c) PROVE Rest'
  BY <1>16, CommandAssumption DEF Request
<1>17. CASE Signal
  <2>1. sent' \in [commands : 0..MaxCommands, signals : 0..MaxSignals]
    BY <1>17, BoundAssumption DEF Signal
  <2> QED BY <1>17, <2>1 DEF Signal
<1>18. CASE LeaveLoop
  BY <1>18 DEF LeaveLoop
<1>19. CASE UNCHANGED vars
  BY <1>19 DEF vars
<1>20. ASSUME NEW t \in Threads, Start(t) PROVE Rest'
  BY <1>1, <1>2, <1>3, <1>4, <1>5, <1>6, <1>20 DEF Start
<1>21. ASSUME NEW t \in Threads, Rollback(t) PROVE Rest'
  BY <1>7, <1>8, <1>21 DEF Rollback
<1>22. ASSUME NEW t \in Threads, Stop(t) PROVE Rest'
  BY <1>8, <1>9, <1>10, <1>22 DEF Stop
<1>23. ASSUME NEW t \in Threads, Serve(t) PROVE Rest'
  BY <1>11, <1>12, <1>13, <1>14, <1>23 DEF Serve
<1> QED BY <1>15, <1>16, <1>17, <1>18, <1>19, <1>20, <1>21, <1>22, <1>23, WhoSteps DEF Threads

-----------------------------------------------------------------------------
LEMMA Names == /\ Main \in Threads /\ Sig \in Threads /\ Main # Sig /\ NoThread \notin Threads
               /\ Threads = {Main, Sig} \cup Handlers
               /\ \A t \in Handlers : t \in Threads /\ t # Main /\ t # Sig
BY HandlerAssumption DEF Threads, Main, Sig

(* A step moves one thread of a process that has not exited.               *)
LEMMA Moved ==
  ASSUME TypeOK, NEW t \in Threads, NEW from, NEW to, Step(t, from, to)
  PROVE  /\ pc[t] = from /\ pc'[t] = to
         /\ \A u \in Threads \ {t} : pc'[u] = pc[u]
         /\ ~Exited /\ (t = Main => pc[Sig] = "idle")
BY DEF TypeOK, Step, Runs, Goto

LEMMA RacesGrow == ASSUME [Next]_vars PROVE races \subseteq races'
<1> USE DEF systemVars, daemonVars
<1>1. ASSUME NEW t \in Threads, Start(t) PROVE races \subseteq races'
  BY <1>1 DEF Start, BeginStart, AcquirePid, AcquireFails, TakeSnapshot, PlanFails,
         RegisterSignals, StartTransaction, StartThreads, StartServer, Publish, EndStart
<1>2. ASSUME NEW t \in Threads, Rollback(t) PROVE races \subseteq races'
  BY <1>2 DEF Rollback, StopEngine, JoinEngine, ReleaseQos, Restore, StopServer, ReleasePid,
         EndRollback
<1>3. ASSUME NEW t \in Threads, Stop(t) PROVE races \subseteq races'
  BY <1>3 DEF Stop, StopEngine, JoinEngine, ReleaseQos, Restore, StopServer, ReleasePid,
         LockForStop, BeginStop, UnregisterSignals
<1>4. ASSUME NEW t \in Threads, Serve(t) PROVE races \subseteq races'
  BY <1>4 DEF Serve, BeginLock, LockTransaction, EndLock, BeginUnlock, UnlockEngine,
         EndUnlock, Pause, Resume
<1>5. ASSUME NEW t \in Threads, Connect(t) \/ \E c \in Commands : Request(t, c)
      PROVE  races \subseteq races'
  BY <1>5 DEF Connect, Request
<1>6. CASE Signal \/ LeaveLoop \/ UNCHANGED vars
  BY <1>6 DEF Signal, LeaveLoop, vars
<1> QED BY <1>1, <1>2, <1>3, <1>4, <1>5, <1>6, WhoSteps, Names

-----------------------------------------------------------------------------
(* A step to where the thread may be, which leaves it with the lock if and *)
(* only if the code there holds it.                                        *)
Owns(t, to) ==
  /\ to \in Holding <=> mutex' = t
  /\ \A u \in Threads \ {t} : mutex' = u <=> mutex = u

LEMMA RoleStep ==
  ASSUME TypeOK, RoleInv, NEW t \in Threads, NEW from, NEW to, Step(t, from, to),
         Allowed(t, to), Owns(t, to), state' # "THROTTLED"
  PROVE  RoleInv'
<1>1. /\ pc[t] = from /\ pc'[t] = to /\ \A u \in Threads \ {t} : pc'[u] = pc[u]
      /\ ~Exited /\ (t = Main => pc[Sig] = "idle")
  BY Moved
<1>2. \A u \in Threads : Allowed(u, pc'[u])
  BY <1>1 DEF RoleInv
<1>3. Exited' => pc'[Sig] = "idle"
  BY <1>1, Names DEF Exited, RoleInv
<1>4. \A u \in Threads : pc'[u] \in Holding <=> mutex' = u
  BY <1>1 DEF RoleInv, Owns
<1> QED BY <1>2, <1>3, <1>4 DEF RoleInv, Allowed

LEMMA RoleNext == ASSUME TypeOK, RoleInv, [Next]_vars PROVE RoleInv'
<1> DEFINE Good(t, from, to) ==
      Step(t, from, to) /\ Allowed(t, to) /\ Owns(t, to) /\ state' # "THROTTLED"
<1>0. ASSUME NEW t \in Threads, \E from, to : Good(t, from, to) PROVE RoleInv'
  BY <1>0, RoleStep
<1> USE Names DEF RoleInv, Allowed, Owns, Step, Starting, Late, RollbackSteps, Up, Ending, Holding,
        daemonVars, systemVars
<1>1. ASSUME NEW t \in Threads \ {Sig}, BeginStart(t) PROVE RoleInv'
  <2>1. Good(t, "start", IF state = "RUNNING" THEN AfterStart(t) ELSE "acquire")
    BY <1>1 DEF BeginStart, AfterStart
  <2> QED BY <2>1, <1>0
<1>2. ASSUME NEW t \in Threads \ {Sig}, AcquirePid(t) \/ AcquireFails(t) PROVE RoleInv'
  <2>1. Good(t, "acquire", "plan") \/ Good(t, "acquire", "rbEngine")
    BY <1>2 DEF AcquirePid, AcquireFails
  <2> QED BY <2>1, <1>0
<1>3. ASSUME NEW t \in Threads \ {Sig}, TakeSnapshot(t) \/ PlanFails(t) PROVE RoleInv'
  <2>1. CASE TakeSnapshot(t)
    <3>1. Good(t, "plan", "register")
      BY <1>3, <2>1 DEF TakeSnapshot
    <3> QED BY <3>1, <1>0
  <2>2. CASE PlanFails(t)
    <3>1. Good(t, "plan", "rbEngine")
      BY <1>3, <2>2 DEF PlanFails
    <3> QED BY <3>1, <1>0
  <2> QED BY <1>3, <2>1, <2>2
<1>4. ASSUME NEW t \in Threads \ {Sig}, RegisterSignals(t) \/ StartTransaction(t) PROVE RoleInv'
  <2>1. \/ Good(t, "register", "transaction")
        \/ Good(t, "transaction", "engage") \/ Good(t, "transaction", "rbEngine")
    BY <1>4 DEF RegisterSignals, StartTransaction
  <2> QED BY <2>1, <1>0
<1>5. ASSUME NEW t \in Threads \ {Sig}, StartThreads(t) \/ StartServer(t) PROVE RoleInv'
  <2>1. Good(t, "engage", "serve") \/ Good(t, "serve", "publish") \/ Good(t, "serve", "rbEngine")
    BY <1>5 DEF StartThreads, StartServer
  <2> QED BY <2>1, <1>0
<1>6. ASSUME NEW t \in Threads \ {Sig}, Publish(t) \/ EndStart(t) PROVE RoleInv'
  <2>1. Good(t, "publish", "publishing") \/ Good(t, "publishing", AfterStart(t))
    BY <1>6 DEF Publish, EndStart, AfterStart
  <2> QED BY <2>1, <1>0
<1>7. ASSUME NEW t \in Threads \ {Sig}, Rollback(t) PROVE RoleInv'
  <2>1. CASE \/ StopEngine(t, "rbEngine", "rbJoin", "rbRelease")
             \/ JoinEngine(t, "rbJoin", "rbRelease")
    <3>1. \/ Good(t, "rbEngine", "rbJoin") \/ Good(t, "rbEngine", "rbRelease")
          \/ Good(t, "rbJoin", "rbRelease")
      BY <2>1, <1>7 DEF StopEngine, JoinEngine
    <3> QED BY <3>1, <1>0
  <2>2. CASE ReleaseQos(t, "rbRelease", IF outcome[t] = "ERROR" THEN "rbRestore" ELSE "rbUnserve")
    <3>1. Good(t, "rbRelease", "rbRestore") \/ Good(t, "rbRelease", "rbUnserve")
      BY <2>2, <1>7 DEF ReleaseQos
    <3> QED BY <3>1, <1>0
  <2>3. CASE Restore(t, "rbRestore", "rbUnserve") \/ StopServer(t, "rbUnserve", "rbUnlockPid")
    <3>1. Good(t, "rbRestore", "rbUnserve") \/ Good(t, "rbUnserve", "rbUnlockPid")
      BY <2>3, <1>7 DEF Restore, StopServer
    <3> QED BY <3>1, <1>0
  <2>4. CASE ReleasePid(t, "rbUnlockPid", "rbFinal")
    <3>1. Good(t, "rbUnlockPid", "rbFinal")
      BY <2>4, <1>7 DEF ReleasePid
    <3> QED BY <3>1, <1>0
  <2>5. CASE EndRollback(t)
    <3>1. Good(t, "rbFinal", AfterFailure(t))
      BY <2>5, <1>7 DEF EndRollback, AfterFailure, TypeOK
    <3> QED BY <3>1, <1>0
  <2> QED BY <1>7, <2>1, <2>2, <2>3, <2>4, <2>5 DEF Rollback
<1>8. ASSUME NEW t \in Threads, LockForStop(t) \/ BeginStop(t) PROVE RoleInv'
  <2>1. \/ Good(t, "stop", "stopping")
        \/ Good(t, "stopping", IF state = "STOPPED" THEN AfterStop(t) ELSE "stopEngine")
    BY <1>8 DEF LockForStop, BeginStop, AfterStop
  <2> QED BY <2>1, <1>0
<1>9. ASSUME NEW t \in Threads, Stop(t) PROVE RoleInv'
  <2>1. \/ Good(t, "stopEngine", "joinEngine") \/ Good(t, "stopEngine", "release")
        \/ Good(t, "joinEngine", "release") \/ Good(t, "release", "restore")
        \/ Good(t, "restore", "unregister") \/ Good(t, "unregister", "unserve")
        \/ Good(t, "unserve", "unlockPid") \/ Good(t, "unlockPid", AfterStop(t))
        \/ LockForStop(t) \/ BeginStop(t)
    BY <1>9 DEF Stop, StopEngine, JoinEngine, ReleaseQos, Restore, StopServer, ReleasePid,
           UnregisterSignals, AfterStop
  <2> QED BY <2>1, <1>0, <1>8
<1>11. ASSUME NEW t \in Handlers, BeginLock(t) \/ BeginUnlock(t) PROVE RoleInv'
  <2>1. \/ Good(t, "LOCK", IF boosted THEN "idle" ELSE "locking")
        \/ Good(t, "UNLOCK", IF boosted THEN "unlockEngine" ELSE "idle")
    BY <1>11 DEF BeginLock, BeginUnlock
  <2> QED BY <2>1, <1>0
<1>12. ASSUME NEW t \in Handlers, LockTransaction(t) \/ EndLock(t) PROVE RoleInv'
  <2>1. \/ Good(t, "locking", "lockEngine") \/ Good(t, "locking", "idle")
        \/ Good(t, "lockEngine", "idle")
    BY <1>12 DEF LockTransaction, EndLock
  <2> QED BY <2>1, <1>0
<1>13. ASSUME NEW t \in Handlers, UnlockEngine(t) \/ EndUnlock(t) PROVE RoleInv'
  <2>1. Good(t, "unlockEngine", "unlockQos") \/ Good(t, "unlockQos", "idle")
    BY <1>13 DEF UnlockEngine, EndUnlock
  <2> QED BY <2>1, <1>0
<1>14. ASSUME NEW t \in Handlers, Pause(t) \/ Resume(t) PROVE RoleInv'
  <2>1. Good(t, "PAUSE", "idle") \/ Good(t, "RESUME", "idle")
    BY <1>14 DEF Pause, Resume
  <2> QED BY <2>1, <1>0
<1>15. ASSUME NEW t \in Handlers, Connect(t) PROVE RoleInv'
  <2>1. Good(t, "idle", "connected")
    BY <1>15 DEF Connect
  <2> QED BY <2>1, <1>0
<1>16. ASSUME NEW t \in Handlers, NEW c \in Commands, Request(t, c) PROVE RoleInv'
  <2>1. Good(t, "connected", CASE c = "START" -> "start" [] c = "STOP" -> "stop" [] OTHER -> c)
    BY <1>16, CommandAssumption DEF Request
  <2> QED BY <2>1, <1>0
<1>17. CASE Signal \/ LeaveLoop
  <2>1. Good(Sig, "idle", "stop") \/ Good(Main, "run", "stop")
    BY <1>17 DEF Signal, LeaveLoop
  <2> QED BY <2>1, <1>0
<1>18. CASE UNCHANGED vars
  BY <1>18 DEF vars, Exited
<1>19. ASSUME NEW t \in Threads \ {Sig}, Start(t) PROVE RoleInv'
  BY <1>1, <1>2, <1>3, <1>4, <1>5, <1>6, <1>19 DEF Start
<1>22. ASSUME NEW t \in Handlers, Serve(t) PROVE RoleInv'
  BY <1>11, <1>12, <1>13, <1>14, <1>22 DEF Serve
<1> QED BY <1>7, <1>9, <1>15, <1>16, <1>17, <1>18, <1>19, <1>22, WhoSteps

-----------------------------------------------------------------------------
(* As long as there is one start() only, the main thread runs it.          *)
LEMMA MainAlone ==
  ASSUME TypeOK, QuietInv, "start" \notin races, "start" \notin races',
         NEW t \in Threads \ {Sig}, Start(t) \/ Rollback(t)
  PROVE  t = Main \/ (BeginStart(t) /\ state = "RUNNING")
<1> SUFFICES ASSUME t \in Handlers PROVE BeginStart(t) /\ state = "RUNNING"
  BY Names
<1>1. pc[t] \notin Starting
  BY DEF QuietInv
<1>2. CASE Start(t)
  <2>1. BeginStart(t)
    BY <1>1, <1>2 DEF Start, AcquirePid, AcquireFails, TakeSnapshot, PlanFails, RegisterSignals,
           StartTransaction, StartThreads, StartServer, Publish, EndStart, Step, Starting, Late
  <2> QED BY <2>1, Names DEF BeginStart
<1>3. CASE Rollback(t)
  BY <1>1, <1>3 DEF Rollback, StopEngine, JoinEngine, ReleaseQos, Restore, StopServer,
         ReleasePid, EndRollback, Step, Starting, RollbackSteps
<1> QED BY <1>2, <1>3

LEMMA QuietNext ==
  ASSUME TypeOK, RoleInv, QuietInv, [Next]_vars PROVE QuietInv'
<1> SUFFICES ASSUME "start" \notin races' PROVE QuietInv'
  BY DEF QuietInv
<1>0. /\ pc \in [Threads -> AllSteps] /\ "start" \notin races
      /\ \A t \in Threads : pc[t] \in Holding <=> mutex = t
      /\ state # "THROTTLED" /\ outcome[Main] \in {"ERROR", "STOPPED"}
  BY RacesGrow, Names DEF TypeOK, RoleInv, AllSteps
<1> USE <1>0, Names
    DEF QuietInv, Step, Runs, Goto, BeforeServing, Early, Starting, Late, RollbackSteps, Live,
        daemonVars, systemVars
<1>1. ASSUME NEW t \in Threads, BeginStart(t), state = "RUNNING" PROVE QuietInv'
  BY <1>1 DEF BeginStart, AfterStart
<1>2. CASE BeginStart(Main)
  BY <1>2 DEF BeginStart, AfterStart
<1>3. CASE AcquirePid(Main) \/ AcquireFails(Main) \/ TakeSnapshot(Main) \/ PlanFails(Main)
  BY <1>3 DEF AcquirePid, AcquireFails, TakeSnapshot, PlanFails
<1>4. CASE RegisterSignals(Main) \/ StartTransaction(Main)
  BY <1>4 DEF RegisterSignals, StartTransaction
<1>5. CASE StartThreads(Main) \/ StartServer(Main)
  <2>1. CASE StartThreads(Main)
    BY <2>1 DEF StartThreads
  <2>2. CASE StartServer(Main)
    BY <2>2 DEF StartServer
  <2> QED BY <1>5, <2>1, <2>2
<1>6. CASE Publish(Main) \/ EndStart(Main)
  <2>1. CASE Publish(Main)
    BY <2>1 DEF Publish
  <2>2. CASE EndStart(Main)
    BY <2>2 DEF EndStart, AfterStart
  <2> QED BY <1>6, <2>1, <2>2
<1>7. CASE Rollback(Main)
  <2>1. CASE StopEngine(Main, "rbEngine", "rbJoin", "rbRelease") \/ JoinEngine(Main, "rbJoin", "rbRelease")
    BY <2>1 DEF StopEngine, JoinEngine
  <2>2. CASE ReleaseQos(Main, "rbRelease", IF outcome[Main] = "ERROR" THEN "rbRestore" ELSE "rbUnserve")
    BY <2>2 DEF ReleaseQos
  <2>3. CASE Restore(Main, "rbRestore", "rbUnserve")
    BY <2>3 DEF Restore
  <2>4. CASE StopServer(Main, "rbUnserve", "rbUnlockPid") \/ ReleasePid(Main, "rbUnlockPid", "rbFinal")
    BY <2>4 DEF StopServer, ReleasePid
  <2>5. CASE EndRollback(Main)
    BY <2>5 DEF EndRollback, AfterFailure
  <2> QED BY <1>7, <2>1, <2>2, <2>3, <2>4, <2>5 DEF Rollback
<1>8. ASSUME NEW t \in Threads, LockForStop(t) \/ BeginStop(t) PROVE QuietInv'
  <2>1. CASE LockForStop(t)
    BY <2>1 DEF LockForStop
  <2>2. CASE BeginStop(t)
    BY <2>2 DEF BeginStop, AfterStop
  <2> QED BY <1>8, <2>1, <2>2
<1>9. ASSUME NEW t \in Threads, Stop(t) PROVE QuietInv'
  <2>1. CASE LockForStop(t) \/ BeginStop(t)
    BY <1>8, <2>1
  <2>2. CASE \/ StopEngine(t, "stopEngine", "joinEngine", "release")
             \/ JoinEngine(t, "joinEngine", "release")
    BY <2>2 DEF StopEngine, JoinEngine
  <2>3. CASE ReleaseQos(t, "release", "restore") \/ Restore(t, "restore", "unregister")
    BY <2>3 DEF ReleaseQos, Restore
  <2>4. CASE UnregisterSignals(t) \/ StopServer(t, "unserve", "unlockPid")
    BY <2>4 DEF UnregisterSignals, StopServer
  <2>5. CASE ReleasePid(t, "unlockPid", AfterStop(t))
    BY <2>5 DEF ReleasePid, AfterStop
  <2> QED BY <1>9, <2>1, <2>2, <2>3, <2>4, <2>5 DEF Stop
<1>10. ASSUME NEW t \in Handlers, BeginLock(t) \/ LockTransaction(t) \/ EndLock(t)
       PROVE  QuietInv'
  BY <1>10 DEF BeginLock, LockTransaction, EndLock
<1>11. ASSUME NEW t \in Handlers, BeginUnlock(t) \/ UnlockEngine(t) \/ EndUnlock(t)
       PROVE  QuietInv'
  BY <1>11 DEF BeginUnlock, UnlockEngine, EndUnlock
<1>12. ASSUME NEW t \in Handlers, Pause(t) \/ Resume(t) PROVE QuietInv'
  BY <1>12 DEF Pause, Resume
<1>13. ASSUME NEW t \in Handlers, Connect(t) PROVE QuietInv'
  BY <1>13 DEF Connect
<1>14. ASSUME NEW t \in Handlers, NEW c \in Commands, Request(t, c) PROVE QuietInv'
  BY <1>14, CommandAssumption DEF Request
<1>15. CASE Signal \/ LeaveLoop
  BY <1>15 DEF Signal, LeaveLoop
<1>16. CASE UNCHANGED vars
  BY <1>16 DEF vars
<1>17. ASSUME NEW t \in Threads \ {Sig}, Start(t) \/ Rollback(t) PROVE QuietInv'
  BY <1>1, <1>2, <1>3, <1>4, <1>5, <1>6, <1>7, <1>17, MainAlone DEF Start
<1>18. ASSUME NEW t \in Handlers, Serve(t) PROVE QuietInv'
  BY <1>10, <1>11, <1>12, <1>18 DEF Serve
<1> QED BY <1>9, <1>13, <1>14, <1>15, <1>16, <1>17, <1>18, WhoSteps

LEMMA StateNext ==
  ASSUME TypeOK, RoleInv, QuietInv, StateInv, [Next]_vars PROVE StateInv'
<1> SUFFICES ASSUME races' = {} PROVE StateInv'
  BY DEF StateInv
<1>0. /\ pc \in [Threads -> AllSteps] /\ races = {}
      /\ \A t \in Threads : pc[t] \in Holding <=> mutex = t
      /\ \A t \in Threads : Allowed(t, pc[t])
      /\ state # "THROTTLED" /\ state \in States /\ outcome[Main] \in {"ERROR", "STOPPED"}
  BY RacesGrow, Names DEF TypeOK, RoleInv, AllSteps
<1> USE <1>0, Names
    DEF StateInv, Step, Runs, Goto, Exited, Starting, Late, RollbackSteps, Up, Ending, Live,
        daemonVars, systemVars
<1>1. ASSUME NEW t \in Threads, BeginStart(t), state = "RUNNING" PROVE StateInv'
  BY <1>1 DEF BeginStart, AfterStart
<1>2. CASE BeginStart(Main)
  BY <1>2 DEF BeginStart, AfterStart
<1>3. CASE AcquirePid(Main) \/ AcquireFails(Main) \/ TakeSnapshot(Main) \/ PlanFails(Main)
  BY <1>3 DEF AcquirePid, AcquireFails, TakeSnapshot, PlanFails
<1>4. CASE RegisterSignals(Main) \/ StartTransaction(Main)
  BY <1>4 DEF RegisterSignals, StartTransaction
<1>5. CASE StartThreads(Main) \/ StartServer(Main)
  BY <1>5 DEF StartThreads, StartServer
<1>6. CASE Publish(Main) \/ EndStart(Main)
  BY <1>6 DEF Publish, EndStart, AfterStart, Holding
<1>7. CASE Rollback(Main)
  <2>1. CASE EndRollback(Main)
    BY <2>1 DEF EndRollback, AfterFailure
  <2>2. ASSUME NEW from \in RollbackSteps, NEW to \in RollbackSteps, Step(Main, from, to),
               UNCHANGED <<state, boosted, handled>>
        PROVE  StateInv'
    BY <2>2
  <2>3. \/ EndRollback(Main)
        \/ /\ UNCHANGED <<state, boosted, handled>>
           /\ \E from, to \in RollbackSteps : Step(Main, from, to)
    BY <1>7 DEF Rollback, StopEngine, JoinEngine, ReleaseQos, Restore, StopServer, ReleasePid
  <2> QED BY <2>1, <2>2, <2>3
<1>8. ASSUME NEW t \in Threads, LockForStop(t) \/ BeginStop(t) PROVE StateInv'
  <2>1. CASE LockForStop(t)
    BY <2>1 DEF LockForStop
  <2>2. CASE BeginStop(t) /\ state = "STOPPED"
    BY <2>2 DEF BeginStop, AfterStop
  <2>3. CASE BeginStop(t) /\ state # "STOPPED"
    <3>1. state \in Live /\ pc[Main] \in Up /\ \A u \in Threads : pc[u] \notin Ending
      BY <2>3 DEF BeginStop, States
    <3>2. /\ state' = "STOPPED" /\ ~boosted' /\ pc' = [pc EXCEPT ![t] = "stopEngine"]
          /\ pc[t] \in Holding
      BY <2>3 DEF BeginStop, Holding
    <3>3. \A u \in Threads \ {t} : pc'[u] = pc[u] /\ pc[u] \notin Holding
      BY <3>2
    <3>4. pc'[t] = "stopEngine" /\ pc'[Main] \in Up \cup {"stopEngine"}
      BY <3>1, <3>2
    <3> QED BY <3>1, <3>2, <3>3, <3>4 DEF Holding
  <2> QED BY <1>8, <2>1, <2>2, <2>3
<1>9. ASSUME NEW t \in Threads, Stop(t) PROVE StateInv'
  <2>1. ASSUME NEW from \in Ending, NEW to \in Ending \cup {AfterStop(t)}, Step(t, from, to),
               UNCHANGED <<state, boosted>>
        PROVE  StateInv'
    BY <2>1 DEF AfterStop
  <2>2. \/ LockForStop(t) \/ BeginStop(t)
        \/ /\ UNCHANGED <<state, boosted>>
           /\ \E from \in Ending, to \in Ending \cup {AfterStop(t)} : Step(t, from, to)
    BY <1>9 DEF Stop, StopEngine, JoinEngine, ReleaseQos, Restore, StopServer, ReleasePid,
           UnregisterSignals
  <2>3. CASE LockForStop(t) \/ BeginStop(t)
    BY <1>8, <2>3
  <2>4. CASE /\ UNCHANGED <<state, boosted>>
             /\ \E from \in Ending, to \in Ending \cup {AfterStop(t)} : Step(t, from, to)
    <3>1. PICK from \in Ending, to \in Ending \cup {AfterStop(t)} : Step(t, from, to)
      BY <2>4
    <3> HIDE DEF Step
    <3> QED BY <2>1, <2>4, <3>1
  <2> QED BY <2>2, <2>3, <2>4
<1>10. ASSUME NEW t \in Handlers, BeginLock(t) \/ LockTransaction(t) \/ EndLock(t)
       PROVE  StateInv'
  BY <1>10 DEF BeginLock, LockTransaction, EndLock, Holding
<1>11. ASSUME NEW t \in Handlers, BeginUnlock(t) \/ UnlockEngine(t) \/ EndUnlock(t)
       PROVE  StateInv'
  BY <1>11 DEF BeginUnlock, UnlockEngine, EndUnlock, Holding
<1>12. ASSUME NEW t \in Handlers, Pause(t) \/ Resume(t) PROVE StateInv'
  BY <1>12 DEF Pause, Resume
<1>13. ASSUME NEW t \in Handlers, Connect(t) PROVE StateInv'
  BY <1>13 DEF Connect
<1>14. ASSUME NEW t \in Handlers, NEW c \in Commands, Request(t, c) PROVE StateInv'
  BY <1>14, CommandAssumption DEF Request
<1>15. CASE Signal \/ LeaveLoop
  BY <1>15 DEF Signal, LeaveLoop
<1>16. CASE UNCHANGED vars
  BY <1>16 DEF vars
<1>17. ASSUME NEW t \in Threads \ {Sig}, Start(t) \/ Rollback(t) PROVE StateInv'
  BY <1>1, <1>2, <1>3, <1>4, <1>5, <1>6, <1>7, <1>17, MainAlone DEF Start
<1>18. ASSUME NEW t \in Handlers, Serve(t) PROVE StateInv'
  BY <1>10, <1>11, <1>12, <1>18 DEF Serve
<1> QED BY <1>9, <1>13, <1>14, <1>15, <1>16, <1>17, <1>18, WhoSteps

LEMMA MachineNext ==
  ASSUME TypeOK, RoleInv, QuietInv, StateInv, MachineInv, [Next]_vars PROVE MachineInv'
<1> SUFFICES ASSUME races' = {} PROVE MachineInv'
  BY DEF MachineInv
<1>0. /\ pc \in [Threads -> AllSteps] /\ races = {}
      /\ \A t \in Threads : pc[t] \in Holding <=> mutex = t
      /\ \A t \in Threads : Allowed(t, pc[t])
      /\ state # "THROTTLED" /\ state \in States /\ outcome[Main] \in {"ERROR", "STOPPED"}
  BY RacesGrow, Names DEF TypeOK, RoleInv, AllSteps
<1> USE <1>0, Names
    DEF MachineInv, StateInv, Clean, Early, Step, Runs, Goto, Exited, Starting, Late, RollbackSteps, Up, Ending, Live,
        daemonVars, systemVars
<1>1. ASSUME NEW t \in Threads, BeginStart(t), state = "RUNNING" PROVE MachineInv'
  BY <1>1 DEF BeginStart, AfterStart
<1>2. CASE BeginStart(Main) \/ AcquirePid(Main) \/ AcquireFails(Main)
  BY <1>2 DEF BeginStart, AfterStart, AcquirePid, AcquireFails
<1>3. CASE TakeSnapshot(Main) \/ PlanFails(Main) \/ RegisterSignals(Main)
  <2>1. CASE TakeSnapshot(Main)
    BY <2>1 DEF TakeSnapshot
  <2>2. CASE PlanFails(Main)
    BY <2>2 DEF PlanFails, TypeOK
  <2>3. CASE RegisterSignals(Main)
    BY <2>3 DEF RegisterSignals
  <2> QED BY <1>3, <2>1, <2>2, <2>3
<1>4. CASE StartTransaction(Main)
  <2>1. CASE Step(Main, "transaction", "engage") /\ Applied
    BY <1>4, <2>1 DEF StartTransaction, Applied
  <2>2. CASE Step(Main, "transaction", "rbEngine")
    <3>1. outcome'[Main] = "STOPPED" /\ UNCHANGED <<sysfs, qos, pidLock, snapshot, state, boosted>>
      BY <1>4, <2>2 DEF StartTransaction, TypeOK
    <3> QED BY <2>2, <3>1
  <2> QED BY <1>4, <2>1, <2>2 DEF StartTransaction
<1>5. CASE StartThreads(Main) \/ StartServer(Main)
  <2>1. CASE Step(Main, "engage", "serve") \/ Step(Main, "serve", "publish")
    <3>1. UNCHANGED <<outcome, sysfs, qos, pidLock, snapshot, state, boosted>>
      BY <1>5, <2>1 DEF StartThreads, StartServer
    <3> QED BY <2>1, <3>1
  <2>2. CASE Step(Main, "serve", "rbEngine")
    <3>1. outcome'[Main] = "ERROR" /\ UNCHANGED <<sysfs, qos, pidLock, snapshot, state, boosted>>
      BY <1>5, <2>2 DEF StartThreads, StartServer, TypeOK
    <3> QED BY <2>2, <3>1
  <2> QED BY <1>5, <2>1, <2>2 DEF StartThreads, StartServer
<1>6. CASE Publish(Main) \/ EndStart(Main)
  <2>1. CASE Publish(Main)
    BY <2>1 DEF Publish
  <2>2. CASE EndStart(Main)
    BY <2>2 DEF EndStart, AfterStart, Holding
  <2> QED BY <1>6, <2>1, <2>2
<1>7. CASE Rollback(Main)
  <2>1. CASE StopEngine(Main, "rbEngine", "rbJoin", "rbRelease")
    BY <2>1 DEF StopEngine
  <2>2. CASE ReleaseQos(Main, "rbRelease", IF outcome[Main] = "ERROR" THEN "rbRestore" ELSE "rbUnserve")
    <3>1. ~qos'.held /\ ~qos'.effect /\ ~qos'.saved
      BY <2>2 DEF ReleaseQos, Released
    <3>2. UNCHANGED <<outcome, sysfs, snapshot, pidLock, state, boosted>>
      BY <2>2 DEF ReleaseQos
    <3> QED BY <2>2, <3>1, <3>2 DEF ReleaseQos
  <2>3. CASE Restore(Main, "rbRestore", "rbUnserve")
    BY <2>3 DEF Restore
  <2>4. CASE StopServer(Main, "rbUnserve", "rbUnlockPid") \/ ReleasePid(Main, "rbUnlockPid", "rbFinal")
    BY <2>4 DEF StopServer, ReleasePid
  <2>5. CASE EndRollback(Main)
    BY <2>5 DEF EndRollback, AfterFailure
  <2>6. CASE JoinEngine(Main, "rbJoin", "rbRelease")
    BY <2>6 DEF JoinEngine
  <2> QED BY <1>7, <2>1, <2>2, <2>3, <2>4, <2>5, <2>6 DEF Rollback
<1>8. ASSUME NEW t \in Threads, LockForStop(t) \/ BeginStop(t) PROVE MachineInv'
  <2>1. CASE LockForStop(t)
    BY <2>1 DEF LockForStop
  <2>2. CASE BeginStop(t) /\ state = "STOPPED"
    BY <2>2 DEF BeginStop, AfterStop
  <2>3. CASE BeginStop(t) /\ state # "STOPPED"
    <3>1. state \in Live
      BY <2>3 DEF BeginStop, States
    <3> QED BY <2>3, <3>1 DEF BeginStop
  <2> QED BY <1>8, <2>1, <2>2, <2>3
<1>9. ASSUME NEW t \in Threads, Stop(t) PROVE MachineInv'
  <2>1. CASE StopEngine(t, "stopEngine", "joinEngine", "release")
    BY <2>1 DEF StopEngine
  <2>2. CASE ReleaseQos(t, "release", "restore")
    <3>1. ~qos'.held /\ ~qos'.effect /\ ~qos'.saved
      BY <2>2 DEF ReleaseQos, Released
    <3>2. UNCHANGED <<outcome, sysfs, snapshot, pidLock, state, boosted>>
      BY <2>2 DEF ReleaseQos
    <3> QED BY <2>2, <3>1, <3>2 DEF ReleaseQos
  <2>3. CASE Restore(t, "restore", "unregister")
    <3>1. snapshot = "orig" /\ sysfs' = "orig" /\ UNCHANGED <<outcome, qos, pidLock, state, boosted>>
      BY <2>3 DEF Restore
    <3> QED BY <2>3, <3>1 DEF Restore
  <2>4. CASE UnregisterSignals(t) \/ StopServer(t, "unserve", "unlockPid")
    BY <2>4 DEF UnregisterSignals, StopServer
  <2>5. CASE ReleasePid(t, "unlockPid", AfterStop(t))
    BY <2>5 DEF ReleasePid, AfterStop
  <2>6. CASE JoinEngine(t, "joinEngine", "release")
    BY <2>6 DEF JoinEngine
  <2> QED BY <1>8, <1>9, <2>1, <2>2, <2>3, <2>4, <2>5, <2>6 DEF Stop
<1>10. ASSUME NEW t \in Handlers, BeginLock(t) \/ LockTransaction(t) \/ EndLock(t)
       PROVE  MachineInv'
  <2>1. CASE BeginLock(t)
    BY <2>1 DEF BeginLock
  <2>2. CASE Step(t, "locking", "lockEngine") /\ Applied /\ LockTransaction(t)
    <3>1. ~qos.held /\ state \in Live
      <4>1. \A u \in Threads : pc[u] # "lockEngine"
        BY <2>2 DEF Holding
      <4> QED BY <2>2, <4>1
    <3>2. sysfs' = "boosted" /\ qos'.held /\ qos'.effect /\ ~qos'.saved
      BY <2>2, <3>1 DEF Applied
    <3>3. UNCHANGED <<outcome, snapshot, pidLock, state, boosted>>
      BY <2>2 DEF LockTransaction
    <3> QED BY <2>2, <3>1, <3>2, <3>3
  <2>3. CASE Step(t, "locking", "idle") /\ LockTransaction(t)
    BY <2>3 DEF LockTransaction
  <2>4. CASE EndLock(t)
    BY <2>4 DEF EndLock, Holding
  <2> QED BY <1>10, <2>1, <2>2, <2>3, <2>4 DEF LockTransaction
<1>11. ASSUME NEW t \in Handlers, BeginUnlock(t) \/ UnlockEngine(t) \/ EndUnlock(t)
       PROVE  MachineInv'
  BY <1>11 DEF BeginUnlock, UnlockEngine, EndUnlock, Released, Holding
<1>12. ASSUME NEW t \in Handlers, Pause(t) \/ Resume(t) PROVE MachineInv'
  BY <1>12 DEF Pause, Resume
<1>13. ASSUME NEW t \in Handlers, Connect(t) PROVE MachineInv'
  BY <1>13 DEF Connect
<1>14. ASSUME NEW t \in Handlers, NEW c \in Commands, Request(t, c) PROVE MachineInv'
  BY <1>14, CommandAssumption DEF Request
<1>15. CASE Signal \/ LeaveLoop
  BY <1>15 DEF Signal, LeaveLoop
<1>16. CASE UNCHANGED vars
  BY <1>16 DEF vars
<1>17. ASSUME NEW t \in Threads \ {Sig}, Start(t) \/ Rollback(t) PROVE MachineInv'
  BY <1>1, <1>2, <1>3, <1>4, <1>5, <1>6, <1>7, <1>17, MainAlone DEF Start
<1>18. ASSUME NEW t \in Handlers, Serve(t) PROVE MachineInv'
  BY <1>10, <1>11, <1>12, <1>18 DEF Serve
<1> QED BY <1>9, <1>13, <1>14, <1>15, <1>16, <1>17, <1>18, WhoSteps

-----------------------------------------------------------------------------
(* The invariant holds of every behaviour.                                 *)
THEOREM Inductive == Spec => []IInv
<1>1. IInv /\ [Next]_vars => IInv'
  BY TypeNext, RoleNext, QuietNext, StateNext, MachineNext DEF IInv
<1> QED BY InitInv, <1>1, PTL DEF Spec

(* A daemon that reports PAUSED has no engine that runs, however LOCK,     *)
(* UNLOCK, RESUME, signals and stop() fall around it.                      *)
THEOREM PausedIsQuiet == Spec => []PausedMeansQuiet
<1>1. IInv => PausedMeansQuiet
  BY DEF IInv, QuietInv, PausedMeansQuiet
<1> QED BY Inductive, <1>1, PTL

(* is_locked_boost is true only while the boost and the latency are in     *)
(* force and the PID file is locked.                                       *)
THEOREM LockedIsBoosted == Spec => []LockedMeansBoosted
<1>1. IInv => LockedMeansBoosted
  BY DEF IInv, StateInv, MachineInv, LockedMeansBoosted
<1> QED BY Inductive, <1>1, PTL

(* Without a refused lock, a race or an exit that cuts a stop() short the  *)
(* process leaves the machine as it found it, by every way out.            *)
THEOREM ExitLeavesNoChanges == Spec => []OnlyKnownRacesLeaveChanges
<1>1. ASSUME IInv, Exited, races = {}, ~CutShort PROVE Restored /\ ~pidLock
  <2>1. \A t \in Threads : pc[t] \notin Ending
    BY <1>1, Names DEF IInv, RoleInv, Exited, CutShort, Ending, StopSteps
  <2>2. state \notin Live
    BY <1>1 DEF IInv, StateInv, Exited, Up
  <2> QED BY <1>1, <2>1, <2>2
          DEF IInv, MachineInv, Clean, Exited, Up, Restored, LatencyInEffect
<1> QED BY Inductive, <1>1, PTL DEF OnlyKnownRacesLeaveChanges

-----------------------------------------------------------------------------
(* The transaction of start() and LOCK: proofs about StartupTransaction,   *)
(* for any policies, cpuidle states, targets and machines.                 *)

(* What a file may hold: a minimum is a number, the original or inside.    *)
Inside(p, v) ==
  /\ \A limit \in UpperBounds(p) : v <= limit
  /\ v >= machine.policy[p].hwMin
GoodValue(path, v) ==
  /\ v \in Value
  /\ \A p \in Policy : path = <<p, "min">> =>
       v \in 0..MaxFreq /\ (v = origin[path] \/ Inside(p, v))
GoodImage(img) == img \in [Path -> Value] /\ \A p \in Path : GoodValue(p, img[p])
GoodAction(a) == a \in T!Action /\ GoodValue(a.path, a.value) /\ GoodValue(a.path, a.original)

(* A plan the executor accepts.                                            *)
Sound(seq) ==
  /\ seq \in Seq(T!Action)
  /\ T!WellFormed(seq)
  /\ \A k \in DOMAIN seq : GoodAction(seq[k])

(* What no step of the planning or the executor touches.                   *)
HardwareInv ==
  /\ MachineOK(machine)
  /\ target \in Targets \cup {AutoTarget}
  /\ engaged \in BOOLEAN
  /\ origin \in [Path -> Value]

(* Where a file that no longer holds its value is in the plan.             *)
MayDiffer(k) ==
  \/ phase = "writing" /\ k < pos
  \/ phase = "compensating" /\ k <= pos
  \/ phase = "applied"

(* Every file, action and saved state holds a value its file may hold.     *)
ValueInv ==
  /\ GoodImage(image)
  /\ plan \in Seq(T!Action) /\ \A k \in DOMAIN plan : GoodAction(plan[k])
  /\ DOMAIN snapshots \subseteq IdlePath /\ \A p \in DOMAIN snapshots : snapshots[p] \in Value
  /\ DOMAIN saved \subseteq IdlePath /\ \A p \in DOMAIN saved : saved[p] \in Value

(* The files of the first policies and cpuidle nodes.                      *)
OfPolicies(n) ==
  {<<Policies[i], f>> : i \in {j \in DOMAIN Policies : j < n}, f \in {"governor", "min"} \cup Control}
OfIdle(n) == {IdleNodes[i] : i \in {j \in DOMAIN IdleNodes : j < n}}

(* A plan under construction is sound and keeps to the files visited.      *)
PlanningInv ==
  /\ at \in 0..(Len(Policies) + Len(IdleNodes) + 1)
  /\ at = 0 => planned = <<>>
  /\ at > 0 =>
       /\ phase = "idle" /\ ~engaged
       /\ Sound(planned)
       /\ T!PathsOf(planned) \subseteq OfPolicies(at) \cup {SharedBoost} \cup OfIdle(IdlePos)
       /\ T!PathsOf(planned) \cap IdlePath \subseteq DOMAIN snapshots
  /\ phase = "idle" =>
       /\ DOMAIN snapshots \subseteq OfIdle(IdlePos)
       /\ \A p \in DOMAIN snapshots : snapshots[p] = image[p]

(* While a transaction runs, a file holds what it held when the plan was   *)
(* built, or is reported, or belongs to an action still to be undone.      *)
RunInv ==
  /\ phase \in {"idle", "preflight", "writing", "compensating", "applied", "failed"}
  /\ phase = "idle" => plan = <<>>
  /\ phase # "idle" =>
       /\ engaged <=> phase = "applied"
       /\ before \in [Path -> Value]
       /\ \A k \in DOMAIN plan : /\ plan[k].original = before[plan[k].path]
                                 /\ plan[k].path \in IdlePath => plan[k].path \in DOMAIN snapshots
       /\ before[Device] = NoRequest
       /\ \A p \in IdlePath \ excused : before[p] = origin[p]
       /\ \A p \in DOMAIN snapshots : snapshots[p] = before[p]
       /\ DOMAIN snapshots # {} => route = "cpuidle"
       /\ \A p \in Path : \/ image[p] = before[p]
                          \/ p \in residue /\ p # Device
                          \/ \E k \in DOMAIN plan : plan[k].path = p /\ MayDiffer(k)
  /\ residue # {} => phase \in {"compensating", "failed"}
  /\ phase = "preflight" => pos = 1
  /\ phase = "writing" => pos \in 1..(Len(plan) + 1)
  /\ phase = "compensating" => pos \in 0..Len(plan)

(* What UNLOCK needs: the saved states are the original ones.              *)
ReleaseInv ==
  /\ ~engaged => DOMAIN saved = {}
  /\ phase = "idle" /\ ~engaged =>
       /\ image[Device] = NoRequest
       /\ \A p \in IdlePath \ excused : image[p] = origin[p]
  /\ engaged => \A p \in IdlePath \ excused :
       IF p \in DOMAIN saved THEN saved[p] = origin[p] ELSE image[p] = origin[p]

(* The inductive invariant.                                                *)
SInv == HardwareInv /\ ValueInv /\ PlanningInv /\ RunInv /\ ReleaseInv

-----------------------------------------------------------------------------
(* Max and Min of a set of at most two numbers.                            *)
LEMMA LargestOf ==
  ASSUME NEW X \in SUBSET Int, NEW a, NEW b, X \subseteq {a, b}, X # {}
  PROVE  Max(X) \in X /\ \A x \in X : Max(X) >= x
<1> DEFINE P(y) == y \in X /\ \A x \in X : y >= x
<1>1. \E y : P(y)
  <2>1. CASE a \in X /\ (b \in X => a >= b)
    BY <2>1
  <2>2. CASE b \in X /\ (a \in X => b >= a)
    BY <2>2
  <2> QED BY <2>1, <2>2
<1>2. Max(X) = CHOOSE y : P(y)
  BY DEF Max
<1>3. P(CHOOSE y : P(y))
  <2> HIDE DEF P
  <2> QED BY <1>1
<1> QED BY <1>2, <1>3

LEMMA SmallestOf ==
  ASSUME NEW X \in SUBSET Int, NEW a, NEW b, X \subseteq {a, b}, X # {}
  PROVE  Min(X) \in X /\ \A x \in X : Min(X) <= x
<1> DEFINE P(y) == y \in X /\ \A x \in X : y <= x
<1>1. \E y : P(y)
  <2>1. CASE a \in X /\ (b \in X => a <= b)
    BY <2>1
  <2>2. CASE b \in X /\ (a \in X => b <= a)
    BY <2>2
  <2> QED BY <2>1, <2>2
<1>2. Min(X) = CHOOSE y : P(y)
  BY DEF Min
<1>3. P(CHOOSE y : P(y))
  <2> HIDE DEF P
  <2> QED BY <1>1
<1> QED BY <1>2, <1>3

(* The names of the files do not overlap.                                  *)
LEMMA FileNames ==
  ASSUME ConstantsOK
  PROVE  /\ Device \in Path /\ SharedBoost \in Path /\ IdlePath \subseteq Path
         /\ Device \notin IdlePath /\ SharedBoost \notin IdlePath /\ Device # SharedBoost
         /\ \A p \in Policy : \A f \in {"governor", "min"} \cup Control :
              /\ <<p, f>> \in Path \ (IdlePath \cup {Device, SharedBoost})
              /\ \A q \in Policy : \A g \in {"governor", "min"} \cup Control :
                   <<p, f>> = <<q, g>> => p = q /\ f = g
         /\ \A p \in Policy : /\ \A s \in IdlePath : s # <<p, "min">>
                              /\ Device # <<p, "min">> /\ SharedBoost # <<p, "min">>
         /\ MaxFreq \in Nat /\ Targets \subseteq Nat
BY DEF ConstantsOK, Path, Device, SharedBoost, IdlePath, Control

(* The target of a policy respects its limits.                             *)
LEMMA TargetInside ==
  ASSUME ConstantsOK, HardwareInv, GoodImage(image), NEW p \in Policy, HasTarget(p)
  PROVE  EffectiveTarget(p) \in 0..MaxFreq /\ Inside(p, EffectiveTarget(p))
<1> DEFINE info == machine.policy[p]
           low == Max(LowerBounds(p))
           high == Min(UpperBounds(p))
           requested == IF target = AutoTarget THEN high ELSE target
<1>1. /\ info.hwMin \in 0..MaxFreq /\ info.hwMax \in 0..MaxFreq /\ info.max \in 0..MaxFreq
      /\ image[<<p, "min">>] \in 0..MaxFreq
  BY FileNames DEF HardwareInv, MachineOK, PolicyInfo, GoodImage, GoodValue
<1>2. low \in LowerBounds(p) /\ \A x \in LowerBounds(p) : low >= x
  <2>1. LowerBounds(p) \subseteq {info.hwMin, image[<<p, "min">>]} /\ LowerBounds(p) # {}
    BY DEF LowerBounds, HasTarget
  <2>2. LowerBounds(p) \in SUBSET Int
    BY <1>1 DEF LowerBounds
  <2> QED BY <2>1, <2>2, LargestOf
<1>3. high \in UpperBounds(p) /\ \A x \in UpperBounds(p) : high <= x
  <2>1. UpperBounds(p) \subseteq {info.hwMax, info.max} /\ UpperBounds(p) # {}
    BY DEF UpperBounds, HasTarget
  <2>2. UpperBounds(p) \in SUBSET Int
    BY <1>1 DEF UpperBounds
  <2> QED BY <2>1, <2>2, SmallestOf
<1>4. low \in 1..MaxFreq /\ high \in 1..MaxFreq /\ low <= high /\ info.hwMin <= low
  <2>1. low \in 1..MaxFreq
    BY <1>1, <1>2, FileNames DEF LowerBounds
  <2>2. high \in 1..MaxFreq
    BY <1>1, <1>3, FileNames DEF UpperBounds
  <2>3. info.hwMin <= low
    <3>1. CASE info.hwMin > 0
      <4>1. info.hwMin \in LowerBounds(p)
        BY <3>1 DEF LowerBounds
      <4> QED BY <1>2, <4>1
    <3>2. CASE ~(info.hwMin > 0)
      BY <1>1, <2>1, <3>2
    <3> QED BY <3>1, <3>2
  <2> QED BY <2>1, <2>2, <2>3 DEF HasTarget
<1>5. requested \in Nat
  BY <1>4, FileNames DEF HardwareInv
<1> DEFINE raised == Max({requested, low})
<1>6. raised \in {requested, low} /\ raised >= low
  <2>1. {requested, low} \in SUBSET Int /\ {requested, low} # {}
    BY <1>4, <1>5
  <2> QED BY <2>1, LargestOf
<1>7. Min({raised, high}) \in {raised, high} /\ Min({raised, high}) <= high
  <2>1. {raised, high} \in SUBSET Int /\ {raised, high} # {}
    BY <1>4, <1>5, <1>6
  <2> QED BY <2>1, SmallestOf
<1>8. EffectiveTarget(p) = Min({raised, high})
  BY DEF EffectiveTarget
<1> HIDE DEF low, high, requested, raised
<1>10. EffectiveTarget(p) >= low /\ EffectiveTarget(p) <= high /\ EffectiveTarget(p) \in Nat
  BY <1>4, <1>5, <1>6, <1>7, <1>8
<1>11. \A limit \in UpperBounds(p) : limit \in Int /\ high <= limit
  BY <1>1, <1>3 DEF UpperBounds, high
<1> QED BY <1>1, <1>4, <1>10, <1>11, FileNames DEF Inside

-----------------------------------------------------------------------------
(* The empty plan is sound.                                                *)
LEMMA EmptySound == Sound(<<>>) /\ T!PathsOf(<<>>) = {}
BY DEF Sound, T!WellFormed, T!PathsOf

(* One action on a file is a sound plan.                                   *)
LEMMA OneSound ==
  ASSUME GoodImage(image), NEW path \in Path, NEW v, GoodValue(path, v)
  PROVE  Sound(<<ActionOn(path, v)>>) /\ T!PathsOf(<<ActionOn(path, v)>>) = {path}
<1> DEFINE a == ActionOn(path, v)
<1>1. a.path = path /\ a.value = v /\ a.original = T!Compensation(path)
  BY DEF ActionOn, T!Compensation
<1>2. GoodValue(path, a.original) /\ a.original \in Value
  BY FileNames DEF ActionOn, GoodImage, GoodValue, Device, Value
<1>3. a \in T!Action /\ GoodAction(a)
  BY <1>1, <1>2 DEF ActionOn, T!Action, GoodAction, GoodValue
<1> HIDE DEF a
<1>4. <<a>> \in Seq(T!Action) /\ DOMAIN <<a>> = {1} /\ <<a>>[1] = a
  BY <1>3
<1> QED BY <1>1, <1>3, <1>4 DEF Sound, T!WellFormed, T!PathsOf, a

(* Two sound plans for different files make one.                           *)
LEMMA ConcatSound ==
  ASSUME NEW s, NEW t, Sound(s), Sound(t), T!PathsOf(s) \cap T!PathsOf(t) = {}
  PROVE  Sound(s \o t) /\ T!PathsOf(s \o t) = T!PathsOf(s) \cup T!PathsOf(t)
<1> DEFINE u == s \o t
<1>1. s \in Seq(T!Action) /\ t \in Seq(T!Action) /\ u \in Seq(T!Action)
  BY DEF Sound
<1>2. /\ Len(u) = Len(s) + Len(t)
      /\ \A k \in 1..Len(u) : u[k] = IF k <= Len(s) THEN s[k] ELSE t[k - Len(s)]
  BY <1>1
<1>3. DOMAIN s = 1..Len(s) /\ DOMAIN t = 1..Len(t) /\ DOMAIN u = 1..Len(u)
      /\ Len(s) \in Nat /\ Len(t) \in Nat
  BY <1>1
<1> HIDE DEF u
<1>4. \A k \in DOMAIN u : \/ k \in DOMAIN s /\ u[k] = s[k]
                          \/ k - Len(s) \in DOMAIN t /\ u[k] = t[k - Len(s)]
  BY <1>2, <1>3
<1>5. /\ \A k \in DOMAIN s : k \in DOMAIN u /\ u[k] = s[k]
      /\ \A k \in DOMAIN t : k + Len(s) \in DOMAIN u /\ u[k + Len(s)] = t[k]
  BY <1>2, <1>3
<1>6. T!PathsOf(u) = T!PathsOf(s) \cup T!PathsOf(t)
  BY <1>4, <1>5 DEF T!PathsOf
<1>7. ASSUME NEW j \in DOMAIN u, NEW k \in DOMAIN u, u[j].path = u[k].path PROVE j = k
  <2>1. ASSUME NEW m \in DOMAIN s, NEW n \in DOMAIN t PROVE s[m].path # t[n].path
    BY DEF T!PathsOf
  <2> QED BY <1>3, <1>4, <1>7, <2>1 DEF Sound, T!WellFormed
<1>8. \A k \in DOMAIN u : u[k].original = T!Compensation(u[k].path) /\ GoodAction(u[k])
  BY <1>4 DEF Sound, T!WellFormed
<1> QED BY <1>1, <1>6, <1>7, <1>8 DEF Sound, T!WellFormed, u

(* Each part of a policy's plan is sound, its files its own.               *)
LEMMA LimitActionsSound ==
  ASSUME ConstantsOK, HardwareInv, GoodImage(image), NEW p \in Policy
  PROVE  /\ Sound(LimitActions(p))
         /\ T!PathsOf(LimitActions(p)) \subseteq {<<p, "governor">>, <<p, "min">>}
<1> DEFINE gov == IF machine.policy[p].performance
                  THEN <<ActionOn(<<p, "governor">>, Performance)>> ELSE <<>>
           min == <<ActionOn(<<p, "min">>, EffectiveTarget(p))>>
<1>1. CASE ~HasTarget(p)
  BY <1>1, EmptySound DEF LimitActions
<1>2. CASE HasTarget(p)
  <2>1. Sound(gov) /\ T!PathsOf(gov) \subseteq {<<p, "governor">>}
    <3>1. <<p, "governor">> \in Path /\ GoodValue(<<p, "governor">>, Performance)
      BY FileNames DEF GoodValue, Value
    <3> QED BY <3>1, OneSound, EmptySound
  <2>2. Sound(min) /\ T!PathsOf(min) = {<<p, "min">>}
    <3>1. <<p, "min">> \in Path /\ GoodValue(<<p, "min">>, EffectiveTarget(p))
      BY <1>2, FileNames, TargetInside DEF GoodValue, Value
    <3> QED BY <3>1, OneSound
  <2>3. LimitActions(p) = gov \o min
    BY <1>2 DEF LimitActions
  <2>4. <<p, "governor">> # <<p, "min">>
    OBVIOUS
  <2> HIDE DEF gov, min
  <2>5. T!PathsOf(gov) \cap T!PathsOf(min) = {}
    BY <2>1, <2>2, <2>4
  <2> QED BY <2>1, <2>2, <2>3, <2>5, ConcatSound
<1> QED BY <1>1, <1>2

LEMMA ControlActionsSound ==
  ASSUME ConstantsOK, HardwareInv, GoodImage(image), NEW p \in Policy
  PROVE  /\ Sound(ControlActions(p))
         /\ T!PathsOf(ControlActions(p)) \subseteq {BoostPath(p), <<p, "cpb">>, <<p, "epp">>}
         /\ BoostPath(p) \notin T!PathsOf(ControlActions(p)) \cap T!PathsOf(planned)
<1> DEFINE caps == machine.policy[p].caps
           new == BoostPath(p) \notin {planned[k].path : k \in DOMAIN planned}
           boost == IF "boost" \in caps /\ new THEN <<ActionOn(BoostPath(p), On)>> ELSE <<>>
           cpb == IF "cpb" \in caps THEN <<ActionOn(<<p, "cpb">>, On)>> ELSE <<>>
           epp == IF "epp" \in caps THEN <<ActionOn(<<p, "epp">>, Epp)>> ELSE <<>>
<1>1. /\ BoostPath(p) \in Path /\ <<p, "cpb">> \in Path /\ <<p, "epp">> \in Path
      /\ BoostPath(p) # <<p, "cpb">> /\ BoostPath(p) # <<p, "epp">> /\ <<p, "cpb">> # <<p, "epp">>
      /\ \A q \in Policy : /\ BoostPath(p) # <<q, "min">>
                           /\ <<p, "cpb">> # <<q, "min">> /\ <<p, "epp">> # <<q, "min">>
  BY FileNames DEF BoostPath, Control, SharedBoost
<1>2. GoodValue(BoostPath(p), On) /\ GoodValue(<<p, "cpb">>, On) /\ GoodValue(<<p, "epp">>, Epp)
  BY <1>1 DEF GoodValue, Value
<1>3. /\ Sound(boost) /\ T!PathsOf(boost) \subseteq {BoostPath(p)}
      /\ BoostPath(p) \in T!PathsOf(boost) => BoostPath(p) \notin T!PathsOf(planned)
  <2>1. CASE "boost" \in caps /\ new
    <3>1. BoostPath(p) \notin T!PathsOf(planned)
      BY <2>1 DEF T!PathsOf
    <3> QED BY <2>1, <3>1, <1>1, <1>2, OneSound
  <2>2. CASE ~("boost" \in caps /\ new)
    BY <2>2, EmptySound
  <2> QED BY <2>1, <2>2
<1>4. Sound(cpb) /\ T!PathsOf(cpb) \subseteq {<<p, "cpb">>}
  BY <1>1, <1>2, OneSound, EmptySound
<1>5. Sound(epp) /\ T!PathsOf(epp) \subseteq {<<p, "epp">>}
  BY <1>1, <1>2, OneSound, EmptySound
<1>6. ControlActions(p) = (boost \o cpb) \o epp
  BY DEF ControlActions
<1> HIDE DEF boost, cpb, epp
<1>7. Sound(boost \o cpb) /\ T!PathsOf(boost \o cpb) = T!PathsOf(boost) \cup T!PathsOf(cpb)
  BY <1>1, <1>3, <1>4, ConcatSound
<1>8. /\ Sound(ControlActions(p))
      /\ T!PathsOf(ControlActions(p)) = T!PathsOf(boost) \cup T!PathsOf(cpb) \cup T!PathsOf(epp)
  <2>1. T!PathsOf(boost \o cpb) \cap T!PathsOf(epp) = {}
    BY <1>1, <1>3, <1>4, <1>5, <1>7
  <2>2. /\ Sound((boost \o cpb) \o epp)
        /\ T!PathsOf((boost \o cpb) \o epp) = T!PathsOf(boost \o cpb) \cup T!PathsOf(epp)
    BY <1>5, <1>7, <2>1, ConcatSound
  <2> QED BY <1>6, <1>7, <2>2
<1> QED BY <1>1, <1>3, <1>4, <1>5, <1>8

-----------------------------------------------------------------------------
(* What the executor's steps may change.                                   *)
LEMMA ExecuteSteps ==
  ASSUME Execute
  PROVE  /\ UNCHANGED <<planVars, boostVars, plan, before>>
         /\ phase # "idle" /\ phase' # "idle"
BY DEF Execute, T!Preflight, T!PreflightOpen, T!PreflightReject, T!PreflightDone, T!Write,
       T!WriteSwallowed, T!WriteFails, T!Rollback, T!Compensate, T!CompensateFails, T!Raise,
       planVars, boostVars

(* The hardware and the remembered image stay, and so do the limits.       *)
LEMMA FixedHistory == ASSUME [StartupNext]_startupVars PROVE UNCHANGED <<machine, origin>>
<1>1. CASE Execute
  BY <1>1, ExecuteSteps DEF boostVars
<1>2. CASE UNCHANGED startupVars
  BY <1>2 DEF startupVars, boostVars
<1>3. CASE ~Execute /\ StartupNext
  BY <1>3 DEF StartupNext, Prepare, PlanPolicy, PlanIdle, Lock, Engage, Return, Unlock, Reconfigure,
         boostVars
<1> QED BY <1>1, <1>2, <1>3

LEMMA SameValues ==
  ASSUME [StartupNext]_startupVars
  PROVE  \A path, v : GoodValue(path, v)' <=> GoodValue(path, v)
BY FixedHistory DEF GoodValue, Inside, UpperBounds

LEMMA HardwareNext ==
  ASSUME HardwareInv, [StartupNext]_startupVars PROVE HardwareInv'
<1>1. target' \in Targets \cup {AutoTarget} /\ engaged' \in BOOLEAN
  <2>1. CASE Execute
    BY <2>1, ExecuteSteps DEF HardwareInv, boostVars
  <2>2. CASE UNCHANGED startupVars
    BY <2>2 DEF HardwareInv, startupVars, boostVars
  <2>3. CASE ~Execute /\ StartupNext
    BY <2>3 DEF HardwareInv, StartupNext, Prepare, PlanPolicy, PlanIdle, Lock, Engage, Return,
       Unlock, Reconfigure, boostVars
  <2> QED BY <2>1, <2>2, <2>3
<1> QED BY <1>1, FixedHistory DEF HardwareInv

(* It holds before the first start.                                        *)
LEMMA StartupInitInv == ASSUME ConstantsOK, StartupInit PROVE SInv
<1> USE DEF StartupInit, NoFile
<1>1. image \in [Path -> Value] /\ origin = image
  <2>1. PICK idle \in [IdlePath -> {Stock, On}], min \in [Policy -> 0..MaxFreq] :
          image = [p \in Path |->
                     IF p = Device THEN NoRequest
                     ELSE IF p \in IdlePath THEN idle[p]
                     ELSE IF p[2] = "min" THEN min[p[1]]
                     ELSE Stock]
    OBVIOUS
  <2>2. ASSUME NEW p \in Path, p # Device, p \notin IdlePath, p[2] = "min"
        PROVE  min[p[1]] \in 0..MaxFreq
    <3>1. p # SharedBoost
      BY <2>2 DEF SharedBoost
    <3>2. p[1] \in Policy
      BY <2>2, <3>1 DEF Path
    <3> QED BY <3>2
  <2> QED BY <2>1, <2>2, FileNames DEF Value
<1>2. HardwareInv
  BY <1>1 DEF HardwareInv, ConstantsOK
<1>3. ValueInv
  <2>1. ASSUME NEW p \in Policy PROVE image[<<p, "min">>] \in 0..MaxFreq
    <3>1. PICK min \in [Policy -> 0..MaxFreq] : image[<<p, "min">>] = min[p]
      BY FileNames
    <3> QED BY <3>1
  <2>2. GoodImage(image)
    BY <1>1, <2>1 DEF GoodImage, GoodValue
  <2> QED BY <2>2 DEF ValueInv
<1>4. PlanningInv
  <2>1. Len(Policies) + Len(IdleNodes) + 1 \in Nat
    BY DEF ConstantsOK, MachineOK, IdleNodes
  <2> QED BY <2>1 DEF PlanningInv
<1>5. RunInv
  BY DEF RunInv
<1>6. ReleaseInv
  BY <1>1, FileNames DEF ReleaseInv
<1> QED BY <1>2, <1>3, <1>4, <1>5, <1>6 DEF SInv

-----------------------------------------------------------------------------
(* The image stays good, and so do the values kept to undo it.             *)
LEMMA ExecuteValues ==
  ASSUME ConstantsOK, SInv, Execute PROVE ValueInv'
<1> USE DEF SInv, ValueInv
<1>1. \A path, v : GoodValue(path, v)' <=> GoodValue(path, v)
  BY SameValues DEF StartupNext
<1>2. UNCHANGED <<plan, snapshots, saved>>
  BY ExecuteSteps DEF boostVars
<1>3. ASSUME NEW p \in Path, NEW v, GoodValue(p, v), image' = [image EXCEPT ![p] = v]
      PROVE  GoodImage(image)'
  BY <1>1, <1>3 DEF GoodImage, GoodValue
<1>4. \A k \in DOMAIN plan : plan[k].path \in Path
  BY DEF GoodAction, T!Action
<1>5. CASE UNCHANGED image
  BY <1>1, <1>2, <1>5 DEF GoodImage, GoodAction
<1>6. CASE T!Write \/ T!Compensate
  <2>1. GoodImage(image)'
    BY <1>3, <1>4, <1>6 DEF T!Write, T!Compensate, GoodAction
  <2> QED BY <1>1, <1>2, <2>1 DEF GoodAction
<1>7. CASE T!CompensateFails
  <2>1. GoodValue(Device, NoRequest) /\ Device \in Path
    BY FileNames DEF GoodValue, Value
  <2>2. GoodImage(image)'
    <3>1. CASE plan[pos].path = Device
      BY <1>3, <1>7, <2>1, <3>1 DEF T!CompensateFails
    <3>2. CASE plan[pos].path # Device
      BY <1>1, <1>7, <3>2 DEF T!CompensateFails, GoodImage
    <3> QED BY <3>1, <3>2
  <2> QED BY <1>1, <1>2, <2>2 DEF GoodAction
<1> QED BY <1>5, <1>6, <1>7 DEF Execute, T!Preflight, T!PreflightOpen, T!PreflightReject,
        T!PreflightDone, T!WriteSwallowed, T!WriteFails, T!Rollback, T!Raise

(* Which policy, or cpuidle node, a planned file belongs to.               *)
LEMMA PolicyFiles ==
  ASSUME ConstantsOK, NEW n, NEW x \in OfPolicies(n)
  PROVE  /\ x \in Path \ (IdlePath \cup {Device, SharedBoost})
         /\ \E i \in DOMAIN Policies : i < n /\ x[1] = Policies[i]
<1>1. PICK i \in DOMAIN Policies, f \in {"governor", "min"} \cup Control :
        i < n /\ x = <<Policies[i], f>>
  BY DEF OfPolicies
<1>2. Policies[i] \in Policy
  BY DEF Policy
<1>3. x \in Path \ (IdlePath \cup {Device, SharedBoost})
  BY <1>1, <1>2, FileNames
<1> QED BY <1>1, <1>3

LEMMA IdleFiles ==
  ASSUME HardwareInv
  PROVE  /\ IdleNodes \in Seq(IdlePath) /\ Distinct(IdleNodes) /\ Len(IdleNodes) \in Nat
         /\ \A n : OfIdle(n) \subseteq IdlePath
<1>1. IdleNodes \in Seq(IdlePath) /\ Distinct(IdleNodes)
  BY DEF IdleNodes, HardwareInv, MachineOK, Distinct
<1>2. Len(IdleNodes) \in Nat /\ \A k \in DOMAIN IdleNodes : IdleNodes[k] \in IdlePath
  BY <1>1
<1> QED BY <1>1, <1>2 DEF OfIdle

(* The plan the executor is handed.                                        *)
LEMMA LockPlan ==
  ASSUME ConstantsOK, SInv, Lock
  PROVE  /\ Sound(plan')
         /\ T!PathsOf(plan') \cap IdlePath \subseteq DOMAIN snapshots
         /\ DOMAIN snapshots # {} => route' = "cpuidle"
         /\ at > 0 /\ phase = "idle" /\ ~engaged
<1> USE DEF SInv
<1>1. Len(IdleNodes) \in Nat /\ Len(Policies) \in Nat /\ at \in Nat
  <2>1. Len(IdleNodes) \in Nat /\ Len(Policies) \in Nat
    BY DEF IdleNodes, ConstantsOK, HardwareInv, MachineOK
  <2> QED BY <2>1 DEF PlanningInv
<1>2. at > 0
  BY <1>1 DEF Lock, IdlePos
<1>3. /\ Sound(planned) /\ phase = "idle" /\ ~engaged
      /\ T!PathsOf(planned) \subseteq OfPolicies(at) \cup {SharedBoost} \cup OfIdle(IdlePos)
      /\ T!PathsOf(planned) \cap IdlePath \subseteq DOMAIN snapshots
  BY <1>2 DEF PlanningInv
<1>4. Device \notin T!PathsOf(planned)
  <2>1. Device \notin OfPolicies(at)
    BY PolicyFiles
  <2>2. Device \notin OfIdle(IdlePos)
    BY IdleFiles, FileNames
  <2> QED BY <1>3, <2>1, <2>2, FileNames
<1>5. Sound(plan') /\ T!PathsOf(plan') \cap IdlePath \subseteq DOMAIN snapshots
  <2>1. CASE PlannedRoute = "device"
    <3>1. GoodValue(Device, Latency)
      BY FileNames DEF GoodValue, Value
    <3>2. Sound(<<ActionOn(Device, Latency)>>)
          /\ T!PathsOf(<<ActionOn(Device, Latency)>>) = {Device}
      BY <3>1, FileNames, OneSound DEF ValueInv
    <3>3. plan' = planned \o <<ActionOn(Device, Latency)>>
      BY <2>1, <1>3, <3>2 DEF Lock, Sound
    <3>4. Sound(plan') /\ T!PathsOf(plan') = T!PathsOf(planned) \cup {Device}
      BY <1>3, <1>4, <3>2, <3>3, ConcatSound
    <3> QED BY <1>3, <3>4, FileNames
  <2>2. CASE PlannedRoute # "device"
    BY <1>3, <2>2 DEF Lock
  <2> QED BY <2>1, <2>2
<1>6. DOMAIN snapshots # {} => route' = "cpuidle"
  <2>1. ASSUME DOMAIN snapshots # {} PROVE PlannedRoute = "cpuidle"
    <3>1. OfIdle(IdlePos) # {}
      BY <1>3, <2>1 DEF PlanningInv
    <3>2. IdleNodes # <<>>
      BY <3>1 DEF OfIdle
    <3> QED BY <3>2 DEF IdleNodes
  <2> QED BY <2>1 DEF Lock
<1> QED BY <1>2, <1>3, <1>5, <1>6

LEMMA ValueNext ==
  ASSUME ConstantsOK, SInv, [StartupNext]_startupVars PROVE ValueInv'
<1> USE DEF SInv, ValueInv
<1>1. \A path, v : GoodValue(path, v)' <=> GoodValue(path, v)
  BY SameValues
<1>2. CASE Execute
  BY <1>2, ExecuteValues
<1>3. CASE Prepare \/ PlanPolicy \/ Reconfigure \/ UNCHANGED startupVars
  <2>1. UNCHANGED <<image, plan, snapshots, saved>>
    BY <1>3 DEF Prepare, PlanPolicy, Reconfigure, startupVars, executorVars, boostVars
  <2> QED BY <1>1, <2>1 DEF GoodImage, GoodAction
<1>4. CASE PlanIdle
  <2>1. UNCHANGED <<image, plan, saved>>
    BY <1>4 DEF PlanIdle, executorVars
  <2>2. GoodImage(image)' /\ (plan \in Seq(T!Action) /\ \A k \in DOMAIN plan : GoodAction(plan[k]))'
    BY <1>1, <2>1 DEF GoodImage, GoodAction
  <2>3. DOMAIN snapshots' \subseteq IdlePath /\ \A p \in DOMAIN snapshots' : snapshots'[p] \in Value
    <3>1. IdleNodes[IdlePos] \in IdlePath
      BY <1>4 DEF PlanIdle, IdleNodes, HardwareInv, MachineOK
    <3> QED BY <1>4, <3>1, FileNames DEF PlanIdle, GoodImage
  <2> QED BY <2>1, <2>2, <2>3
<1>5. CASE Lock
  <2>1. UNCHANGED <<image, snapshots, saved>>
    BY <1>5 DEF Lock
  <2>2. plan' \in Seq(T!Action) /\ \A k \in DOMAIN plan' : GoodAction(plan'[k])
    BY <1>5, LockPlan DEF Sound
  <2>3. GoodImage(image)'
    BY <1>1, <2>1 DEF GoodImage
  <2>4. \A k \in DOMAIN plan' : GoodAction(plan[k])'
    BY <1>1, <2>2 DEF GoodAction
  <2> QED BY <2>1, <2>2, <2>3, <2>4
<1>6. CASE Engage
  BY <1>1, <1>6 DEF Engage, T!Finish, GoodImage, GoodAction
<1>7. CASE Return
  BY <1>1, <1>7 DEF Return, T!Settle, GoodImage, GoodAction, NoFile
<1>8. CASE Unlock
  <2>1. UNCHANGED <<plan, snapshots>> /\ saved' = NoFile
    BY <1>8 DEF Unlock
  <2>2. GoodImage(image)'
    <3>1. /\ image' \in [Path -> Value]
          /\ \A p \in Path : p \notin IdlePath \cup {Device} => image'[p] = image[p]
      BY <1>8 DEF Unlock, GoodImage, Value
    <3>2. ASSUME NEW p \in Path, NEW q \in Policy, p = <<q, "min">>
          PROVE  image'[p] = image[p]
      BY <3>1, <3>2, FileNames
    <3> QED BY <1>1, <3>1, <3>2 DEF GoodImage, GoodValue
  <2> QED BY <1>1, <2>1, <2>2 DEF GoodAction, NoFile
<1> QED BY <1>2, <1>3, <1>4, <1>5, <1>6, <1>7, <1>8 DEF StartupNext

-----------------------------------------------------------------------------
(* The planning steps.                                                     *)
(* Soundness lasts as long as the files do.                                *)
LEMMA SoundNext ==
  ASSUME NEW s, Sound(s), UNCHANGED image, [StartupNext]_startupVars PROVE Sound(s)'
<1>1. \A path, v : GoodValue(path, v)' <=> GoodValue(path, v)
  BY SameValues
<1>2. \A k \in DOMAIN s : s[k] \in T!Action /\ s[k].path \in Path
  BY DEF Sound, GoodAction, T!Action
<1> QED BY <1>1, <1>2 DEF Sound, GoodAction, T!WellFormed, T!Compensation

(* Nothing a later policy plans is planned yet.                            *)
LEMMA PolicyStep ==
  ASSUME ConstantsOK, SInv, PlanPolicy
  PROVE  /\ Sound(planned')
         /\ T!PathsOf(planned') \subseteq OfPolicies(at + 1) \cup {SharedBoost} \cup OfIdle(IdlePos)
         /\ T!PathsOf(planned') \cap IdlePath \subseteq DOMAIN snapshots
<1> USE DEF SInv
<1> DEFINE p == Policies[at]
<1>1. /\ at \in 1..Len(Policies) /\ Len(Policies) \in Nat /\ p \in Policy
      /\ Distinct(Policies) /\ IdlePos <= 0
  BY DEF PlanPolicy, ConstantsOK, Policy, IdlePos
<1>2. /\ Sound(planned)
      /\ T!PathsOf(planned) \subseteq OfPolicies(at) \cup {SharedBoost} \cup OfIdle(IdlePos)
      /\ T!PathsOf(planned) \cap IdlePath \subseteq DOMAIN snapshots
  BY <1>1 DEF PlanningInv
<1>3. OfPolicies(at) \subseteq OfPolicies(at + 1) /\ OfIdle(IdlePos) = {}
  <2>1. {j \in DOMAIN Policies : j < at} \subseteq {j \in DOMAIN Policies : j < at + 1}
    BY <1>1
  <2>2. {j \in DOMAIN IdleNodes : j < IdlePos} = {}
    <3>1. DOMAIN IdleNodes = 1..Len(IdleNodes)
      BY IdleFiles
    <3> QED BY <1>1, <3>1 DEF IdlePos
  <2> QED BY <2>1, <2>2 DEF OfPolicies, OfIdle
<1>4. CASE ~machine.policy[p].usable
  <2>1. planned' = planned
    BY <1>4 DEF PlanPolicy
  <2> QED BY <1>2, <1>3, <2>1
<1>5. CASE machine.policy[p].usable
  <2> DEFINE mine == {<<p, f>> : f \in {"governor", "min"} \cup Control}
  <2>1. mine \subseteq OfPolicies(at + 1) /\ mine \cap IdlePath = {} /\ SharedBoost \notin IdlePath
    <3>1. at \in {j \in DOMAIN Policies : j < at + 1}
      BY <1>1
    <3> QED BY <1>1, <3>1, FileNames DEF OfPolicies
  <2>2. mine \cap T!PathsOf(planned) = {}
    <3> SUFFICES ASSUME NEW x \in mine, x \in OfPolicies(at) PROVE FALSE
      BY <1>1, <1>2, <1>3, FileNames
    <3>1. PICK i \in DOMAIN Policies : i < at /\ x[1] = Policies[i]
      BY PolicyFiles
    <3>2. x[1] = Policies[at]
      OBVIOUS
    <3>3. at \in DOMAIN Policies /\ i # at
      BY <1>1, <3>1 DEF PlanPolicy
    <3> QED BY <1>1, <3>1, <3>2, <3>3 DEF Distinct
  <2>3. /\ Sound(LimitActions(p))
        /\ T!PathsOf(LimitActions(p)) \subseteq {<<p, "governor">>, <<p, "min">>}
    BY <1>1, LimitActionsSound DEF ValueInv
  <2>4. /\ Sound(ControlActions(p))
        /\ T!PathsOf(ControlActions(p)) \subseteq {BoostPath(p), <<p, "cpb">>, <<p, "epp">>}
        /\ BoostPath(p) \notin T!PathsOf(ControlActions(p)) \cap T!PathsOf(planned)
    BY <1>1, ControlActionsSound DEF ValueInv
  <2>5. BoostPath(p) \in {SharedBoost, <<p, "boost">>}
    BY DEF BoostPath
  <2>6. /\ <<p, "governor">> \in mine /\ <<p, "min">> \in mine /\ <<p, "boost">> \in mine
        /\ <<p, "cpb">> \in mine /\ <<p, "epp">> \in mine
    BY DEF Control
  <2>7. SharedBoost \notin {<<p, "governor">>, <<p, "min">>}
    BY <1>1, FileNames
  <2>8. /\ Sound(planned \o LimitActions(p))
        /\ T!PathsOf(planned \o LimitActions(p))
             = T!PathsOf(planned) \cup T!PathsOf(LimitActions(p))
    <3>1. T!PathsOf(planned) \cap T!PathsOf(LimitActions(p)) = {}
      BY <2>2, <2>3, <2>6
    <3> QED BY <1>2, <2>3, <3>1, ConcatSound
  <2>9. /\ Sound((planned \o LimitActions(p)) \o ControlActions(p))
        /\ T!PathsOf((planned \o LimitActions(p)) \o ControlActions(p))
             = T!PathsOf(planned \o LimitActions(p)) \cup T!PathsOf(ControlActions(p))
    <3>1. T!PathsOf(LimitActions(p)) \cap T!PathsOf(ControlActions(p)) = {}
      <4>1. {<<p, "governor">>, <<p, "min">>}
              \cap {SharedBoost, <<p, "boost">>, <<p, "cpb">>, <<p, "epp">>} = {}
        BY <2>7
      <4> QED BY <2>3, <2>4, <2>5, <4>1
    <3>2. T!PathsOf(planned) \cap T!PathsOf(ControlActions(p)) = {}
      BY <2>2, <2>4, <2>6
    <3> QED BY <2>4, <2>8, <3>1, <3>2, ConcatSound
  <2>10. planned' = (planned \o LimitActions(p)) \o ControlActions(p)
    BY <1>5 DEF PlanPolicy
  <2>11. T!PathsOf(planned') \subseteq T!PathsOf(planned) \cup mine \cup {SharedBoost}
    BY <2>3, <2>4, <2>5, <2>6, <2>8, <2>9, <2>10
  <2> HIDE DEF mine
  <2>12. T!PathsOf(planned') \cap IdlePath \subseteq T!PathsOf(planned) \cap IdlePath
    BY <2>1, <2>11
  <2> QED BY <1>2, <1>3, <2>1, <2>9, <2>10, <2>11, <2>12
<1> QED BY <1>4, <1>5

(* Each cpuidle node is planned once, with the value snapshotted.          *)
LEMMA IdleStep ==
  ASSUME ConstantsOK, SInv, PlanIdle
  PROVE  /\ Sound(planned')
         /\ T!PathsOf(planned') \subseteq OfPolicies(at) \cup {SharedBoost} \cup OfIdle(IdlePos + 1)
         /\ T!PathsOf(planned') \cap IdlePath \subseteq DOMAIN snapshots'
         /\ DOMAIN snapshots' \subseteq OfIdle(IdlePos + 1)
         /\ \A q \in DOMAIN snapshots' : snapshots'[q] = image[q]
<1> USE DEF SInv
<1> DEFINE node == IdleNodes[IdlePos]
<1>1. /\ IdlePos \in 1..Len(IdleNodes) /\ Len(IdleNodes) \in Nat /\ node \in IdlePath
      /\ \A k \in DOMAIN IdleNodes : k < IdlePos => IdleNodes[k] # node
  BY IdleFiles DEF PlanIdle, Distinct
<1>2. at > 0 /\ at \in Nat
  BY <1>1 DEF IdlePos, PlanningInv, ConstantsOK
<1>3. /\ Sound(planned) /\ phase = "idle"
      /\ T!PathsOf(planned) \subseteq OfPolicies(at) \cup {SharedBoost} \cup OfIdle(IdlePos)
      /\ T!PathsOf(planned) \cap IdlePath \subseteq DOMAIN snapshots
      /\ DOMAIN snapshots \subseteq OfIdle(IdlePos)
      /\ \A q \in DOMAIN snapshots : snapshots[q] = image[q]
  BY <1>2 DEF PlanningInv
<1>4. OfIdle(IdlePos) \subseteq OfIdle(IdlePos + 1) /\ node \in OfIdle(IdlePos + 1)
      /\ node \notin OfIdle(IdlePos)
  <2>1. IdlePos \in {j \in DOMAIN IdleNodes : j < IdlePos + 1}
        /\ {j \in DOMAIN IdleNodes : j < IdlePos} \subseteq {j \in DOMAIN IdleNodes : j < IdlePos + 1}
    BY <1>1 DEF PlanIdle
  <2> QED BY <1>1, <2>1 DEF OfIdle
<1>5. CASE UNCHANGED <<planned, snapshots>>
  BY <1>3, <1>4, <1>5
<1>6. CASE /\ planned' = Append(planned, ActionOn(node, On))
           /\ snapshots' = [p \in DOMAIN snapshots \cup {node} |-> image[p]]
  <2>1. node \notin T!PathsOf(planned)
    <3>1. node \notin OfPolicies(at)
      BY <1>1, PolicyFiles
    <3> QED BY <1>1, <1>3, <1>4, <3>1, FileNames
  <2>2. GoodValue(node, On) /\ node \in Path
    BY <1>1, FileNames DEF GoodValue, Value
  <2>3. Sound(<<ActionOn(node, On)>>) /\ T!PathsOf(<<ActionOn(node, On)>>) = {node}
    BY <2>2, OneSound DEF ValueInv
  <2>4. planned' = planned \o <<ActionOn(node, On)>>
    BY <1>3, <1>6, <2>3 DEF Sound
  <2>5. Sound(planned') /\ T!PathsOf(planned') = T!PathsOf(planned) \cup {node}
    BY <1>3, <2>1, <2>3, <2>4, ConcatSound
  <2>6. DOMAIN snapshots' = DOMAIN snapshots \cup {node}
        /\ \A q \in DOMAIN snapshots' : snapshots'[q] = image[q]
    BY <1>6
  <2> HIDE DEF node
  <2> QED BY <1>3, <1>4, <2>5, <2>6
<1> QED BY <1>5, <1>6 DEF PlanIdle

LEMMA PlanNext ==
  ASSUME ConstantsOK, SInv, [StartupNext]_startupVars PROVE PlanningInv'
<1> USE DEF SInv
<1>1. /\ Len(Policies) \in Nat /\ Len(IdleNodes) \in Nat /\ at \in Nat
      /\ DOMAIN Policies = 1..Len(Policies) /\ DOMAIN IdleNodes = 1..Len(IdleNodes)
  <2>1. Len(Policies) \in Nat /\ Len(IdleNodes) \in Nat
        /\ DOMAIN Policies = 1..Len(Policies) /\ DOMAIN IdleNodes = 1..Len(IdleNodes)
    BY IdleFiles DEF ConstantsOK
  <2> QED BY <2>1 DEF PlanningInv
<1>2. /\ IdleNodes' = IdleNodes /\ \A n : OfIdle(n)' = OfIdle(n)
      /\ \A s : T!PathsOf(s)' = T!PathsOf(s)
  BY FixedHistory DEF IdleNodes, PlannedRoute, OfIdle, T!PathsOf
<1>3. OfIdle(IdlePos) = {} \/ at > 0
  <2>1. ASSUME at = 0 PROVE {j \in DOMAIN IdleNodes : j < IdlePos} = {}
    BY <1>1, <2>1 DEF IdlePos
  <2> QED BY <1>1, <2>1 DEF OfIdle
<1>11. phase = "idle" /\ at = 0 => DOMAIN snapshots = {} /\ planned = <<>>
  <2>1. phase = "idle" => DOMAIN snapshots \subseteq OfIdle(IdlePos)
    BY DEF PlanningInv
  <2>2. at = 0 => planned = <<>>
    BY DEF PlanningInv
  <2>3. at = 0 => OfIdle(IdlePos) = {}
    <3>1. at = 0 => ~(at > 0)
      BY <1>1
    <3> QED BY <1>3, <3>1
  <2> QED BY <2>1, <2>2, <2>3
<1>4. CASE at' = at /\ at = 0 /\ UNCHANGED <<planned>>
           /\ (phase' = "idle" => DOMAIN snapshots' = {})
  BY <1>1, <1>2, <1>4 DEF PlanningInv
<1>5. CASE Prepare
  <2>1. planned = <<>> /\ DOMAIN snapshots = {} /\ phase = "idle" /\ ~engaged /\ at' = 1
        /\ UNCHANGED <<phase, image, planned, engaged, snapshots>>
    BY <1>11, <1>5 DEF Prepare, executorVars, boostVars
  <2>2. Sound(planned)' /\ T!PathsOf(planned') = {}
    <3>1. Sound(<<>>)'
      BY <2>1, EmptySound, SoundNext
    <3> QED BY <2>1, <3>1, EmptySound
  <2> QED BY <1>1, <1>2, <2>1, <2>2 DEF PlanningInv
<1>6. CASE PlanPolicy
  <2>1. /\ at \in 1..Len(Policies) /\ at' = at + 1
        /\ UNCHANGED <<phase, image, engaged, snapshots>>
    BY <1>1, <1>6 DEF PlanPolicy, executorVars, boostVars
  <2>2. phase = "idle" /\ ~engaged /\ DOMAIN snapshots \subseteq OfIdle(IdlePos)
        /\ \A q \in DOMAIN snapshots : snapshots[q] = image[q]
    BY <2>1 DEF PlanningInv
  <2>3. OfIdle(IdlePos) \subseteq OfIdle(IdlePos)'
    <3>1. {j \in DOMAIN IdleNodes : j < IdlePos} \subseteq {j \in DOMAIN IdleNodes : j < IdlePos'}
      BY <1>1, <2>1 DEF IdlePos
    <3> QED BY <1>2, <3>1 DEF OfIdle
  <2>4. Sound(planned)'
    BY <1>6, <2>1, PolicyStep, SoundNext
  <2>5. (T!PathsOf(planned) \subseteq OfPolicies(at) \cup {SharedBoost} \cup OfIdle(IdlePos))'
        /\ (T!PathsOf(planned) \cap IdlePath \subseteq DOMAIN snapshots)'
    BY <1>2, <1>6, <2>1, <2>3, PolicyStep
  <2> QED BY <1>1, <1>2, <2>1, <2>2, <2>3, <2>4, <2>5 DEF PlanningInv
<1>7. CASE PlanIdle
  <2>1. /\ IdlePos \in 1..Len(IdleNodes) /\ at' = at + 1 /\ IdlePos' = IdlePos + 1 /\ at > 0
        /\ UNCHANGED <<phase, image, engaged>>
    BY <1>1, <1>7 DEF PlanIdle, executorVars, IdlePos
  <2>2. phase = "idle" /\ ~engaged
    BY <2>1 DEF PlanningInv
  <2>3. OfPolicies(at) \subseteq OfPolicies(at')
    <3>1. {j \in DOMAIN Policies : j < at} \subseteq {j \in DOMAIN Policies : j < at'}
      BY <1>1, <2>1
    <3> QED BY <3>1 DEF OfPolicies
  <2>4. Sound(planned)'
    BY <1>7, <2>1, IdleStep, SoundNext
  <2>5. /\ (T!PathsOf(planned) \subseteq OfPolicies(at) \cup {SharedBoost} \cup OfIdle(IdlePos))'
        /\ (T!PathsOf(planned) \cap IdlePath \subseteq DOMAIN snapshots)'
        /\ DOMAIN snapshots' \subseteq OfIdle(IdlePos)'
        /\ \A q \in DOMAIN snapshots' : snapshots'[q] = image'[q]
    BY <1>2, <1>7, <2>1, <2>3, IdleStep
  <2>6. at' \in 0..(Len(Policies) + Len(IdleNodes) + 1)
    BY <1>1, <2>1 DEF IdlePos
  <2> QED BY <1>1, <1>2, <2>1, <2>2, <2>4, <2>5, <2>6 DEF PlanningInv
<1>8. CASE Lock
  BY <1>1, <1>2, <1>8 DEF Lock, PlanningInv
<1>9. CASE Execute \/ Engage \/ Return \/ Unlock \/ Reconfigure
  <2>1. at = 0
    <3>1. ASSUME phase # "idle" PROVE at = 0
      BY <1>1, <3>1 DEF PlanningInv
    <3>2. Execute \/ Engage \/ Return => phase # "idle"
      BY ExecuteSteps DEF Engage, Return, T!Finish, T!Settle
    <3> QED BY <1>9, <3>1, <3>2 DEF Unlock, Reconfigure
  <2>2. UNCHANGED planVars
    BY <1>9, ExecuteSteps DEF Engage, Return, Unlock, Reconfigure
  <2>3. phase' = "idle" => DOMAIN snapshots' = {}
    <3>1. CASE Execute \/ Engage
      BY <3>1, ExecuteSteps DEF Engage, T!Finish
    <3>2. CASE Return
      BY <3>2 DEF Return, NoFile
    <3>3. CASE Unlock \/ Reconfigure
      BY <1>11, <2>1, <3>3 DEF Unlock, Reconfigure
    <3> QED BY <1>9, <3>1, <3>2, <3>3
  <2> QED BY <1>4, <2>1, <2>2, <2>3 DEF planVars
<1>10. CASE UNCHANGED startupVars
  <2>1. UNCHANGED <<at, planned, phase, engaged, image, snapshots>>
    BY <1>10 DEF startupVars, executorVars, planVars, boostVars
  <2>2. at > 0 => Sound(planned)'
    BY <2>1, SoundNext DEF PlanningInv
  <2>3. IdlePos' = IdlePos
    BY <2>1 DEF IdlePos
  <2> QED BY <1>1, <1>2, <2>1, <2>2, <2>3 DEF PlanningInv
<1> QED BY <1>5, <1>6, <1>7, <1>8, <1>9, <1>10 DEF StartupNext

-----------------------------------------------------------------------------
(* The transaction's steps: every file is as before, reported, or planned  *)
(* and not compensated yet.                                                *)
LEMMA ExecuteRun ==
  ASSUME ConstantsOK, SInv, Execute PROVE RunInv'
<1> USE DEF SInv
<1>1. /\ UNCHANGED <<planVars, boostVars, plan, before>>
      /\ phase # "idle" /\ phase' # "idle"
  BY ExecuteSteps
<1>2. /\ UNCHANGED <<engaged, snapshots, origin, excused, route>>
      /\ plan \in Seq(T!Action) /\ DOMAIN plan = 1..Len(plan) /\ Len(plan) \in Nat
  BY <1>1 DEF boostVars, ValueInv
<1>3. /\ engaged <=> phase = "applied"
      /\ before \in [Path -> Value]
      /\ \A k \in DOMAIN plan : /\ plan[k].original = before[plan[k].path]
                                /\ plan[k].path \in IdlePath => plan[k].path \in DOMAIN snapshots
      /\ before[Device] = NoRequest
      /\ \A p \in IdlePath \ excused : before[p] = origin[p]
      /\ \A p \in DOMAIN snapshots : snapshots[p] = before[p]
      /\ DOMAIN snapshots # {} => route = "cpuidle"
  BY <1>1 DEF RunInv
<1> DEFINE Explained(p) == \/ image[p] = before[p]
                           \/ p \in residue /\ p # Device
                           \/ \E k \in DOMAIN plan : plan[k].path = p /\ MayDiffer(k)
<1>4. /\ \A p \in Path : Explained(p)
      /\ image \in [Path -> Value]
      /\ residue # {} => phase \in {"compensating", "failed"}
      /\ phase = "preflight" => pos = 1
      /\ phase = "writing" => pos \in 1..(Len(plan) + 1)
      /\ phase = "compensating" => pos \in 0..Len(plan)
  BY <1>1 DEF RunInv, ValueInv, GoodImage
<1> SUFFICES /\ phase' \in {"preflight", "writing", "compensating", "failed"}
             /\ phase # "applied"
             /\ \A p \in Path : Explained(p)'
             /\ residue' # {} => phase' \in {"compensating", "failed"}
             /\ phase' = "preflight" => pos' = 1
             /\ phase' = "writing" => pos' \in 1..(Len(plan) + 1)
             /\ phase' = "compensating" => pos' \in 0..Len(plan)
  BY <1>1, <1>2, <1>3 DEF RunInv
<1>5. CASE T!Preflight
  <2>1. /\ UNCHANGED <<pos, image, residue>> /\ phase = "preflight"
        /\ phase' \in {"preflight", "writing", "failed"}
    BY <1>5 DEF T!Preflight, T!PreflightOpen, T!PreflightReject, T!PreflightDone
  <2>2. \A p \in Path : image[p] = before[p]
    BY <1>4, <2>1 DEF MayDiffer
  <2> QED BY <1>1, <1>2, <1>4, <2>1, <2>2
<1>6. CASE T!Write \/ T!WriteSwallowed
  <2>1. /\ phase = "writing" /\ phase' = "writing" /\ pos \in DOMAIN plan /\ pos' = pos + 1
        /\ UNCHANGED residue
        /\ \A p \in Path : image'[p] # image[p] => p = plan[pos].path
    BY <1>4, <1>6 DEF T!Write, T!WriteSwallowed
  <2>2. ASSUME NEW k \in DOMAIN plan, MayDiffer(k) \/ k = pos PROVE MayDiffer(k)'
    BY <1>2, <2>1, <2>2 DEF MayDiffer
  <2>3. ASSUME NEW p \in Path PROVE Explained(p)'
    <3>1. CASE p = plan[pos].path
      BY <1>1, <2>1, <2>2, <3>1
    <3>2. CASE p # plan[pos].path
      BY <1>1, <1>4, <2>1, <2>2, <3>2
    <3> QED BY <3>1, <3>2
  <2> QED BY <1>2, <1>4, <2>1, <2>3
<1>7. CASE T!WriteFails
  <2>1. /\ phase = "writing" /\ phase' = "compensating" /\ pos \in DOMAIN plan /\ pos' = pos - 1
        /\ UNCHANGED <<image, residue>>
    BY <1>7 DEF T!WriteFails
  <2>2. ASSUME NEW k \in DOMAIN plan, MayDiffer(k) PROVE MayDiffer(k)'
    BY <1>2, <2>1, <2>2 DEF MayDiffer
  <2> QED BY <1>1, <1>2, <1>4, <2>1, <2>2
<1>8. CASE T!Compensate \/ T!CompensateFails
  <2>1. /\ phase = "compensating" /\ phase' = "compensating" /\ pos \in DOMAIN plan
        /\ pos' = pos - 1 /\ residue \subseteq residue'
        /\ \A p \in Path : p # plan[pos].path => image'[p] = image[p]
    BY <1>4, <1>8 DEF T!Compensate, T!CompensateFails
  <2>2. plan[pos].path \in Path
    BY <2>1 DEF ValueInv, GoodAction, T!Action
  <2>3. \/ image'[plan[pos].path] = before[plan[pos].path]
        \/ plan[pos].path \in residue' /\ plan[pos].path # Device
    <3>1. CASE T!Compensate
      BY <1>3, <1>4, <2>1, <2>2, <3>1 DEF T!Compensate
    <3>2. CASE T!CompensateFails
      BY <1>3, <1>4, <2>1, <2>2, <3>2 DEF T!CompensateFails
    <3> QED BY <1>8, <3>1, <3>2
  <2>4. ASSUME NEW k \in DOMAIN plan, MayDiffer(k), k # pos PROVE MayDiffer(k)'
    BY <1>2, <2>1, <2>4 DEF MayDiffer
  <2>5. ASSUME NEW p \in Path PROVE Explained(p)'
    <3>1. CASE p = plan[pos].path
      BY <1>1, <2>1, <2>3, <3>1
    <3>2. CASE p # plan[pos].path
      BY <1>1, <1>4, <2>1, <2>4, <3>2
    <3> QED BY <3>1, <3>2
  <2> QED BY <1>2, <1>4, <2>1, <2>5
<1>9. CASE T!Raise
  <2>1. /\ phase = "compensating" /\ phase' = "failed" /\ pos \notin DOMAIN plan
        /\ UNCHANGED <<image, residue, pos>>
    BY <1>9 DEF T!Raise
  <2>2. ASSUME NEW k \in DOMAIN plan PROVE ~MayDiffer(k)
    BY <1>2, <1>4, <2>1 DEF MayDiffer
  <2> QED BY <1>1, <1>2, <1>4, <2>1, <2>2
<1> QED BY <1>5, <1>6, <1>7, <1>8, <1>9 DEF Execute, T!Rollback

LEMMA RunNext ==
  ASSUME ConstantsOK, SInv, [StartupNext]_startupVars PROVE RunInv'
<1> USE DEF SInv
<1>1. CASE Execute
  BY <1>1, ExecuteRun
<1>2. CASE Prepare \/ PlanPolicy \/ PlanIdle \/ Reconfigure \/ Unlock
  <2>1. phase = "idle"
    <3>1. PlanPolicy \/ PlanIdle => at > 0
      BY IdleFiles DEF PlanPolicy, PlanIdle, IdlePos, ConstantsOK, PlanningInv
    <3> QED BY <1>2, <3>1 DEF PlanningInv, Prepare, Reconfigure, Unlock
  <2>2. UNCHANGED <<phase, plan, residue>>
    BY <1>2 DEF Prepare, PlanPolicy, PlanIdle, Reconfigure, Unlock, executorVars
  <2> QED BY <2>1, <2>2 DEF RunInv
<1>3. CASE Lock
  <2>1. /\ Sound(plan') /\ T!PathsOf(plan') \cap IdlePath \subseteq DOMAIN snapshots
        /\ DOMAIN snapshots # {} => route' = "cpuidle"
        /\ at > 0 /\ phase = "idle" /\ ~engaged
    BY <1>3, LockPlan
  <2>2. /\ phase' = "preflight" /\ pos' = 1 /\ residue' = {} /\ before' = image
        /\ UNCHANGED <<image, engaged, snapshots, origin, excused>>
    BY <1>3 DEF Lock
  <2>3. \A q \in DOMAIN snapshots : snapshots[q] = image[q]
    BY <2>1 DEF PlanningInv
  <2>4. image[Device] = NoRequest /\ \A q \in IdlePath \ excused : image[q] = origin[q]
    BY <2>1 DEF ReleaseInv
  <2>5. image \in [Path -> Value]
    BY DEF ValueInv, GoodImage
  <2>6. ASSUME NEW k \in DOMAIN plan'
        PROVE  /\ plan'[k].original = image[plan'[k].path]
               /\ plan'[k].path \in IdlePath => plan'[k].path \in DOMAIN snapshots
    <3>1. plan'[k].original = T!Compensation(plan'[k].path) /\ plan'[k].path \in T!PathsOf(plan')
      BY <2>1 DEF Sound, T!WellFormed, T!PathsOf
    <3> QED BY <2>1, <2>4, <3>1 DEF T!Compensation
  <2> QED BY <2>1, <2>2, <2>3, <2>4, <2>5, <2>6 DEF RunInv
<1>4. CASE Engage
  <2>1. /\ phase = "writing" /\ phase' = "applied" /\ pos \notin DOMAIN plan
        /\ UNCHANGED <<plan, pos, image, residue, before, route, snapshots, origin, excused>>
        /\ engaged'
    BY <1>4 DEF Engage, T!Finish
  <2>2. \A k : MayDiffer(k)'
    BY <2>1 DEF MayDiffer
  <2> QED BY <2>1, <2>2 DEF RunInv
<1>5. CASE Return
  BY <1>5 DEF Return, T!Settle, RunInv
<1>6. CASE UNCHANGED startupVars
  BY <1>6 DEF startupVars, executorVars, boostVars, RunInv, MayDiffer
<1> QED BY <1>1, <1>2, <1>3, <1>4, <1>5, <1>6 DEF StartupNext

-----------------------------------------------------------------------------
(* LOCK saves what UNLOCK will need, and UNLOCK puts it back.              *)
LEMMA ReleaseNext ==
  ASSUME ConstantsOK, SInv, [StartupNext]_startupVars PROVE ReleaseInv'
<1> USE DEF SInv
<1>1. CASE Execute
  <2>1. UNCHANGED <<engaged, saved, origin, excused>> /\ phase' # "idle" /\ ~engaged
    <3>1. phase # "applied" /\ phase # "idle"
      BY <1>1 DEF Execute, T!Preflight, T!PreflightOpen, T!PreflightReject, T!PreflightDone,
         T!Write, T!WriteSwallowed, T!WriteFails, T!Rollback, T!Compensate, T!CompensateFails,
         T!Raise
    <3> QED BY <1>1, <3>1, ExecuteSteps DEF boostVars, RunInv
  <2> QED BY <2>1 DEF ReleaseInv
<1>2. CASE Prepare \/ PlanPolicy \/ PlanIdle \/ Reconfigure \/ UNCHANGED startupVars
  <2>1. UNCHANGED <<phase, image, engaged, saved, origin, excused>>
    BY <1>2 DEF Prepare, PlanPolicy, PlanIdle, Reconfigure, startupVars, executorVars, boostVars
  <2> QED BY <2>1 DEF ReleaseInv
<1>3. CASE Lock
  <2>1. phase' = "preflight" /\ ~engaged /\ UNCHANGED <<engaged, saved>>
    BY <1>3, LockPlan DEF Lock
  <2> QED BY <2>1 DEF ReleaseInv
<1>4. CASE Engage
  <2>1. /\ phase = "writing" /\ phase' = "applied" /\ engaged'
        /\ saved' = IF route = "cpuidle" THEN snapshots ELSE saved
        /\ UNCHANGED <<image, snapshots, origin, excused>>
    BY <1>4 DEF Engage, T!Finish
  <2>2. /\ residue = {} /\ DOMAIN saved = {}
        /\ DOMAIN saved' = DOMAIN snapshots
        /\ \A p \in DOMAIN snapshots : saved'[p] = before[p]
    <3>1. ~engaged /\ residue = {} /\ (DOMAIN snapshots # {} => route = "cpuidle")
      BY <2>1 DEF RunInv
    <3> QED BY <2>1, <3>1 DEF RunInv, ReleaseInv
  <2>3. ASSUME NEW p \in IdlePath \ excused
        PROVE  IF p \in DOMAIN snapshots THEN saved'[p] = origin[p] ELSE image[p] = origin[p]
    <3>1. p \in Path /\ before[p] = origin[p]
      BY <2>1, FileNames DEF RunInv
    <3>2. p \notin DOMAIN snapshots => image[p] = before[p]
      BY <2>1, <2>2, <3>1 DEF RunInv
    <3> QED BY <2>2, <3>1, <3>2
  <2> QED BY <2>1, <2>2, <2>3 DEF ReleaseInv
<1>5. CASE Return
  <2>1. /\ phase \in {"applied", "failed"} /\ phase' = "idle"
        /\ excused' = excused \cup (residue \cap IdlePath)
        /\ UNCHANGED <<image, engaged, saved, origin>>
    BY <1>5 DEF Return, T!Settle
  <2>2. CASE engaged
    BY <2>1, <2>2 DEF ReleaseInv
  <2>3. CASE ~engaged
    <3>1. phase = "failed" /\ \A k : ~MayDiffer(k)
      BY <2>1, <2>3 DEF RunInv, MayDiffer
    <3>2. \A p \in Path : image[p] = before[p] \/ (p \in residue /\ p # Device)
      BY <3>1 DEF RunInv
    <3>3. image[Device] = NoRequest
      BY <3>1, <3>2, FileNames DEF RunInv
    <3>4. \A p \in IdlePath \ excused' : image[p] = origin[p]
      BY <2>1, <3>1, <3>2, FileNames DEF RunInv
    <3> QED BY <2>1, <2>3, <3>3, <3>4 DEF ReleaseInv
  <2> QED BY <2>2, <2>3
<1>6. CASE Unlock
  <2>1. PICK lost \in SUBSET (DOMAIN saved) :
          /\ image' = [p \in Path |->
                         IF p = Device THEN NoRequest
                         ELSE IF p \in DOMAIN saved \ lost THEN saved[p]
                         ELSE image[p]]
          /\ excused' = excused \cup lost
    BY <1>6 DEF Unlock
  <2>2. engaged /\ ~engaged' /\ DOMAIN saved' = {} /\ UNCHANGED <<phase, origin>>
    BY <1>6 DEF Unlock, NoFile
  <2>3. image'[Device] = NoRequest
    BY <2>1, FileNames
  <2>4. ASSUME NEW p \in IdlePath \ excused' PROVE image'[p] = origin[p]
    <3>1. p \in Path /\ p # Device /\ p \notin excused /\ p \notin lost
      BY <2>1, FileNames
    <3>2. IF p \in DOMAIN saved THEN saved[p] = origin[p] ELSE image[p] = origin[p]
      BY <2>2, <3>1 DEF ReleaseInv
    <3> QED BY <2>1, <3>1, <3>2
  <2> QED BY <2>2, <2>3, <2>4 DEF ReleaseInv
<1> QED BY <1>1, <1>2, <1>3, <1>4, <1>5, <1>6 DEF StartupNext

LEMMA SInvNext == ASSUME ConstantsOK, SInv, [StartupNext]_startupVars PROVE SInv'
BY HardwareNext, ValueNext, PlanNext, RunNext, ReleaseNext DEF SInv

(* The variables SInv leaves out keep their types.                         *)
LEMMA StartupTypeNext ==
  ASSUME ConstantsOK, SInv, SInv', StartupTypeOK, [StartupNext]_startupVars PROVE StartupTypeOK'
<1> USE DEF SInv
<1>1. /\ MachineOK(machine)' /\ target' \in Targets \cup {AutoTarget} /\ engaged' \in BOOLEAN
      /\ DOMAIN snapshots' \subseteq IdlePath /\ DOMAIN saved' \subseteq IdlePath
      /\ phase' \in T!Phase /\ plan' \in Seq(T!Action) /\ image' \in [Path -> Value]
  BY DEF HardwareInv, ValueInv, RunInv, GoodImage, T!Phase
<1>2. at' \in 0..(Len(Policies) + Len(machine'.idle) + 1) /\ planned' \in Seq(T!Action)
  <2>1. Len(IdleNodes') \in Nat /\ Len(machine'.idle) \in Nat /\ Len(Policies) \in Nat
        /\ Len(IdleNodes') <= Len(machine'.idle)
    BY DEF IdleNodes, HardwareInv, MachineOK, ConstantsOK
  <2>2. at' \in 0..(Len(Policies) + Len(IdleNodes') + 1)
        /\ (planned' = <<>> \/ planned' \in Seq(T!Action))
    <3>1. at' \in 0..(Len(Policies) + Len(IdleNodes') + 1)
      BY DEF PlanningInv
    <3>2. at' = 0 \/ at' > 0
      BY <2>1, <3>1
    <3> QED BY <3>1, <3>2 DEF PlanningInv, Sound
  <2>3. at' \in 0..(Len(Policies) + Len(machine'.idle) + 1)
    BY <2>1, <2>2
  <2>4. planned' \in Seq(T!Action)
    <3>1. <<>> \in Seq(T!Action)
      OBVIOUS
    <3> QED BY <2>2, <3>1
  <2> QED BY <2>3, <2>4
<1>3. route' \in {"device", "cpuidle", "none"} /\ excused' \in SUBSET IdlePath
  <2>1. route \in {"device", "cpuidle", "none"} /\ excused \in SUBSET IdlePath
        /\ DOMAIN saved \subseteq IdlePath
    BY DEF StartupTypeOK
  <2>2. CASE Execute
    BY <2>1, <2>2, ExecuteSteps DEF boostVars
  <2>3. CASE Unlock
    BY <2>1, <2>3 DEF Unlock
  <2>4. CASE Lock
    BY <2>1, <2>4 DEF Lock, PlannedRoute
  <2>5. CASE Return
    BY <2>1, <2>5 DEF Return
  <2>6. CASE Prepare \/ PlanPolicy \/ PlanIdle \/ Engage \/ Reconfigure \/ UNCHANGED startupVars
    BY <2>1, <2>6 DEF Prepare, PlanPolicy, PlanIdle, Engage, Reconfigure, startupVars, boostVars
  <2> QED BY <2>2, <2>3, <2>4, <2>5, <2>6 DEF StartupNext
<1>4. (/\ toOpen \in SUBSET Path /\ pos \in 0..(Len(plan) + 1) /\ residue \in SUBSET Path
       /\ culprit \in Path \cup {NoPath} /\ before \in [Path -> Value])'
  <2>1. /\ toOpen \in SUBSET Path /\ pos \in 0..(Len(plan) + 1) /\ residue \in SUBSET Path
        /\ culprit \in Path \cup {NoPath} /\ before \in [Path -> Value]
        /\ plan \in Seq(T!Action) /\ DOMAIN plan = 1..Len(plan) /\ Len(plan) \in Nat
        /\ image \in [Path -> Value]
    BY DEF StartupTypeOK, T!TypeOK
  <2>2. \A k \in DOMAIN plan : plan[k].path \in Path
    BY DEF ValueInv, GoodAction, T!Action
  <2>3. CASE Execute \/ Engage
    BY <2>1, <2>2, <2>3 DEF Engage, T!Finish, Execute, T!Preflight, T!PreflightOpen,
       T!PreflightReject, T!PreflightDone, T!Write, T!WriteSwallowed, T!WriteFails, T!Rollback,
       T!Compensate, T!CompensateFails, T!Raise
  <2>4. CASE Lock
    <3>1. \A k \in DOMAIN plan' : plan'[k].path \in Path
      BY <2>4, LockPlan DEF Sound, GoodAction, T!Action
    <3>2. Len(plan') \in Nat
      BY <1>1
    <3> QED BY <2>1, <2>4, <3>1, <3>2 DEF Lock
  <2>5. CASE Return
    BY <2>1, <2>5 DEF Return, T!Settle
  <2>6. CASE Unlock
    BY <1>1, <2>1, <2>6 DEF Unlock
  <2>7. CASE Prepare \/ PlanPolicy \/ PlanIdle \/ Reconfigure \/ UNCHANGED startupVars
    BY <2>1, <2>7 DEF Prepare, PlanPolicy, PlanIdle, Reconfigure, startupVars, executorVars
  <2> QED BY <2>3, <2>4, <2>5, <2>6, <2>7 DEF StartupNext
<1> QED BY <1>1, <1>2, <1>3, <1>4 DEF StartupTypeOK, T!TypeOK

(* The daemon's plan, its files and the executor keep their types.         *)
THEOREM StartupTypes == StartupSpec => []StartupTypeOK
<1> USE ConstantsAssumption
<1>1. StartupInit => SInv /\ StartupTypeOK
  <2> SUFFICES ASSUME StartupInit PROVE SInv /\ StartupTypeOK
    OBVIOUS
  <2>1. SInv
    BY StartupInitInv
  <2>2. Len(Policies) + Len(machine.idle) + 1 \in Nat
    BY <2>1 DEF ConstantsOK, SInv, HardwareInv, MachineOK
  <2> QED BY <2>1, <2>2 DEF StartupInit, NoFile, SInv, HardwareInv, ValueInv, GoodImage,
             StartupTypeOK, T!TypeOK, T!Phase
<1>2. SInv /\ StartupTypeOK /\ [StartupNext]_startupVars => SInv' /\ StartupTypeOK'
  BY SInvNext, StartupTypeNext
<1> QED BY <1>1, <1>2, PTL DEF StartupSpec

(* pm_qos.py:287: whenever the boost is off, no latency request is held    *)
(* and every cpuidle state is back, unless a write of that file failed.    *)
THEOREM ReleaseHolds == StartupSpec => []ReleaseRestoresPMQoS
<1> USE ConstantsAssumption
<1>1. StartupInit => SInv
  BY StartupInitInv
<1>2. SInv /\ [StartupNext]_startupVars => SInv'
  BY SInvNext
<1>3. SInv => ReleaseRestoresPMQoS
  BY DEF SInv, ReleaseInv, ReleaseRestoresPMQoS
<1> QED BY <1>1, <1>2, <1>3, PTL DEF StartupSpec

(* sysfs.py:548-569: the minimum of a policy never leaves its limits.      *)
THEOREM MinimumHolds == StartupSpec => []MinimumInsideLimits
<1> USE ConstantsAssumption
<1>1. StartupInit => SInv
  BY StartupInitInv
<1>2. SInv /\ [StartupNext]_startupVars => SInv'
  BY SInvNext
<1>3. SInv => MinimumInsideLimits
  BY FileNames DEF SInv, ValueInv, GoodImage, GoodValue, Inside, MinimumInsideLimits
<1> QED BY <1>1, <1>2, <1>3, PTL DEF StartupSpec

(* The daemon's plans are plans PolicyTransaction takes: planning is a     *)
(* stutter there, LOCK its Begin, UNLOCK a change from outside.            *)
THEOREM ExecutorImplemented == StartupSpec => ImplementsExecutor
<1> USE ConstantsAssumption
<1>1. StartupInit => SInv
  BY StartupInitInv
<1>2. SInv /\ [StartupNext]_startupVars => SInv'
  BY SInvNext
<1>3. StartupInit => T!Init
  <2> SUFFICES ASSUME StartupInit PROVE T!Init
    OBVIOUS
  <2>1. image \in [Path -> Value]
    BY StartupInitInv DEF SInv, ValueInv, GoodImage
  <2> QED BY <2>1 DEF StartupInit, T!Init
<1>4. SInv /\ SInv' /\ [StartupNext]_startupVars => [T!Next]_T!vars
  <2> SUFFICES ASSUME SInv, SInv', [StartupNext]_startupVars PROVE [T!Next]_T!vars
    OBVIOUS
  <2>1. CASE Prepare \/ PlanPolicy \/ PlanIdle \/ Reconfigure \/ UNCHANGED startupVars
    BY <2>1 DEF Prepare, PlanPolicy, PlanIdle, Reconfigure, startupVars, executorVars, T!vars
  <2>2. CASE Lock
    <3>1. Sound(plan') /\ phase = "idle"
      BY <2>2, LockPlan
    <3> QED BY <2>2, <3>1 DEF Lock, Sound, T!Action, T!PathsOf, T!Begin, T!Next
  <2>3. CASE Execute \/ Engage \/ Return
    BY <2>3 DEF Execute, Engage, Return, T!Execute, T!Next
  <2>4. CASE Unlock
    <3>1. image' \in [Path -> Value]
      BY DEF SInv, ValueInv, GoodImage
    <3> QED BY <2>4, <3>1 DEF Unlock, T!Outside, T!Next
  <2> QED BY <2>1, <2>2, <2>3, <2>4 DEF StartupNext
<1> QED BY <1>1, <1>2, <1>3, <1>4, PTL DEF StartupSpec, ImplementsExecutor, T!Spec
=============================================================================
