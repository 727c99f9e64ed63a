---------------------------- MODULE InstancesProofs ----------------------------
(***************************************************************************)
(* Proofs about Instances, for every set of processes, any number of       *)
(* starts and kills.                                                       *)
(***************************************************************************)
EXTENDS Instances, FunctionTheorems, FiniteSetTheorems, TLAPS

Closed == {"off", "open", "unlink"}
Opened == {"flock", "snapshot", "apply", "serve", "running", "unsocket"}

(* Who has the PID file open, who has locked it, and where it is.  Before  *)
(* a file was unlinked under somebody, all have the one at the path open.  *)
FileInv ==
  /\ \A p \in Procs :
       /\ pc[p] \in Closed => fd[p] = None
       /\ pc[p] \in Opened => fd[p] # None
       /\ Active(p) => holder[fd[p]] = p
  /\ "orphan" \notin events => \A p \in Procs : fd[p] # None => fd[p] = path
  /\ "refused" \notin events => \A p \in Procs : pc[p] \in Stopping => fd[p] # None

(* A server runs between its start and its stop, and only a server that    *)
(* runs has a socket somebody listens on.                                  *)
ServerInv ==
  \A p \in Procs :
    /\ sock = p => p \in serving
    /\ p \in serving =>
         pc[p] \in {"running", "release", "restore", "unserve"} /\ fd[p] # None
    /\ pc[p] = "running" /\ "orphan" \notin events => sock = p

(* A process that will write or restore has the original values, and so    *)
(* has the file whenever they are not in force.                            *)
Changing == {"serve", "running", "release", "restore"}
RecoverInv ==
  events \subseteq {"killed"} =>
    /\ snapFile \in {"none", "orig"}
    /\ sysfs # "orig" => snapFile = "orig"
    /\ \A p \in Procs : pc[p] \in Changing \cup {"apply"} =>
         memory[p] = "orig" /\ snapFile = "orig"

(* Without kills the values are changed exactly while a process is at work *)
(* that will give them back.  One that broke off before it applied anything*)
(* has no cpuidle state to give back.                                      *)
Holding == {"serve", "running", "release"}
CleanInv ==
  events \subseteq {"unsaved"} =>
    /\ snapFile \in {"none", "orig"}
    /\ \A p \in Procs : pc[p] \in Changing \cup {"apply"} => memory[p] = "orig"
    /\ \A p \in Procs : pc[p] \in Holding =>
         saved[p] = "enabled" \/ (pc[p] = "release" /\ ~idle)
    /\ \A p \in Procs : saved[p] # "disabled"
    /\ (\A p \in Procs : pc[p] \notin Changing) => sysfs = "orig"
    /\ (\A p \in Procs : pc[p] \notin Holding) => ~idle

BoostInv ==
  events \cap {"refused", "orphan", "command"} = {} =>
    \A p \in Procs : pc[p] \in {"serve", "running"} => sysfs = "boosted" /\ idle

IInv == TypeOK /\ FileInv /\ ServerInv /\ RecoverInv /\ CleanInv /\ BoostInv

-----------------------------------------------------------------------------
LEMMA InitInv == Init => IInv
<1> SUFFICES ASSUME Init PROVE IInv
  OBVIOUS
<1>1. TypeOK
  <2>1. 0 \in 0..MaxStarts /\ 0 \in 0..MaxKills
    BY BoundAssumption
  <2> QED BY <2>1 DEF Init, TypeOK, Steps, Images
<1>2. FileInv
  BY DEF Init, FileInv, Closed, Opened, Active, Stopping
<1>3. ServerInv
  BY NoneAssumption DEF Init, ServerInv
<1>4. RecoverInv /\ CleanInv /\ BoostInv
  BY DEF Init, RecoverInv, CleanInv, BoostInv, Changing, Holding
<1> QED BY <1>1, <1>2, <1>3, <1>4 DEF IInv

(* There is always a fresh file to create: fewer are open than there are.  *)
LEMMA FreshFile ==
  ASSUME TypeOK, path = None PROVE Unused # {}
<1> DEFINE open == {fd[p] : p \in Procs}
<1>1. IsFiniteSet(open) /\ Cardinality(open) <= Cardinality(Procs)
  <2>1. fd \in Surjection(Procs, open)
    BY Fun_IsSurj DEF TypeOK
  <2> QED BY <2>1, InodeAssumption, FS_Surjection
<1>2. ASSUME Inodes \subseteq open PROVE FALSE
  BY <1>1, <1>2, FS_Subset, FS_CardinalityType, InodeAssumption
<1>3. PICK i \in Inodes : i \notin open
  BY <1>2
<1> QED BY <1>3, NoneAssumption DEF Unused

-----------------------------------------------------------------------------
LEMMA OpenedFile ==
  ASSUME TypeOK, NEW p \in Procs, Open(p) PROVE path' \in Inodes
<1>1. CASE path # None
  BY <1>1 DEF Open, TypeOK
<1>2. CASE path = None
  BY <1>2, FreshFile DEF Open, Unused
<1> QED BY <1>1, <1>2

LEMMA TypeNext == ASSUME TypeOK, FileInv, [Next]_vars PROVE TypeOK'
<1> USE DEF TypeOK, Step, Note, fileVars, serverVars, machineVars, snapVars, counters
<1>1. ASSUME NEW p \in Procs, Launch(p) PROVE TypeOK'
  BY <1>1, BoundAssumption DEF Launch, Steps
<1>2. ASSUME NEW p \in Procs, Open(p) PROVE TypeOK'
  BY <1>2, OpenedFile DEF Open, Steps
<1>3. ASSUME NEW p \in Procs, Flock(p) PROVE TypeOK'
  <2>1. fd[p] \in Inodes
    BY <1>3 DEF Flock, FileInv, Opened
  <2> QED BY <1>3, <2>1 DEF Flock, Steps
<1>14. ASSUME NEW p \in Procs, Refused(p) PROVE TypeOK'
  BY <1>14 DEF Refused, Steps
<1>4. ASSUME NEW p \in Procs, TakeSnapshot(p) PROVE TypeOK'
  BY <1>4 DEF TakeSnapshot, Steps
<1>5. ASSUME NEW p \in Procs, Apply(p) \/ ApplyFails(p) \/ StartBreaks(p) PROVE TypeOK'
  BY <1>5 DEF Apply, ApplyFails, StartBreaks, Steps, Images
<1>6. ASSUME NEW p \in Procs, Serve(p) \/ ServeFails(p) \/ Stop(p) PROVE TypeOK'
  BY <1>6 DEF Serve, ServeFails, Stop, Steps
<1>7. ASSUME NEW p \in Procs, ReleaseQos(p) PROVE TypeOK'
  BY <1>7 DEF ReleaseQos, Steps
<1>8. ASSUME NEW p \in Procs, Restore(p) PROVE TypeOK'
  BY <1>8 DEF Restore, Steps, Images
<1>9. ASSUME NEW p \in Procs, Unserve(p) \/ UnlinkSocket(p) PROVE TypeOK'
  BY <1>9 DEF Unserve, UnlinkSocket, Steps
<1>10. ASSUME NEW p \in Procs, Unlock(p) \/ Unlink(p) PROVE TypeOK'
  BY <1>10 DEF Unlock, Unlink, Steps
<1>11. ASSUME NEW p \in Procs, Kill(p) PROVE TypeOK'
  BY <1>11, BoundAssumption DEF Kill, Steps
<1>12. CASE RestoreCommand
  BY <1>12 DEF RestoreCommand, Images
<1>13. CASE UNCHANGED vars
  BY <1>13 DEF vars
<1> QED BY <1>1, <1>2, <1>3, <1>4, <1>5, <1>6, <1>7, <1>8, <1>9, <1>10, <1>11, <1>12, <1>13, <1>14
       DEF Next, Proceed

(* A process that keeps the file it has open, and whose step from one      *)
(* place of start() or stop() to another keeps it in its class.            *)
LEMMA FileNext == ASSUME TypeOK, TypeOK', FileInv, ServerInv, [Next]_vars PROVE FileInv'
<1> USE DEF TypeOK, FileInv, Active, Closed, Opened, Stopping, Step, Note, fileVars
<1>1. ASSUME NEW p \in Procs, Launch(p) PROVE FileInv'
  BY <1>1 DEF Launch
<1>2. ASSUME NEW p \in Procs, Open(p) PROVE FileInv'
  <2>1. path' \in Inodes /\ path' # None
    BY <1>2, OpenedFile, NoneAssumption
  <2>2. /\ pc[p] = "open" /\ pc' = [pc EXCEPT ![p] = "flock"] /\ fd' = [fd EXCEPT ![p] = path']
        /\ path # None => path' = path
        /\ UNCHANGED <<holder, events>>
    BY <1>2 DEF Open
  <2>3. fd[p] = None
    BY <2>2
  <2>4. \A q \in Procs : q # p => pc'[q] = pc[q] /\ fd'[q] = fd[q]
    BY <2>2
  <2>5. pc'[p] = "flock" /\ fd'[p] = path'
    BY <2>2
  <2>6. "orphan" \notin events => \A q \in Procs : fd[q] # None => fd[q] = path'
    <3>1. CASE path = None
      BY <3>1
    <3>2. CASE path # None
      BY <2>2, <3>2
    <3> QED BY <3>1, <3>2
  <2> QED BY <2>1, <2>2, <2>4, <2>5, <2>6
<1>3. ASSUME NEW p \in Procs, Flock(p) PROVE FileInv'
  <2>1. fd[p] \in Inodes
    BY <1>3 DEF Flock
  <2> QED BY <1>3, <2>1, NoneAssumption DEF Flock
<1>4. ASSUME NEW p \in Procs, Refused(p) PROVE FileInv'
  BY <1>4 DEF Refused
<1>5. ASSUME NEW p \in Procs,
             \/ TakeSnapshot(p) \/ Apply(p) \/ ApplyFails(p) \/ StartBreaks(p)
             \/ Serve(p) \/ ServeFails(p) \/ Stop(p)
      PROVE  FileInv'
  BY <1>5 DEF TakeSnapshot, Apply, ApplyFails, StartBreaks, Serve, ServeFails, Stop
<1>6. ASSUME NEW p \in Procs, ReleaseQos(p) \/ Restore(p) \/ UnlinkSocket(p)
      PROVE  FileInv'
  BY <1>6 DEF ReleaseQos, Restore, UnlinkSocket
<1>7. ASSUME NEW p \in Procs, Unserve(p) PROVE FileInv'
  BY <1>7 DEF Unserve, ServerInv
<1>8. ASSUME NEW p \in Procs, Unlock(p) PROVE FileInv'
  BY <1>8, NoneAssumption DEF Unlock
<1>9. ASSUME NEW p \in Procs, Unlink(p) PROVE FileInv'
  BY <1>9 DEF Unlink
<1>10. ASSUME NEW p \in Procs, Kill(p) PROVE FileInv'
  BY <1>10, NoneAssumption DEF Kill
<1>11. CASE RestoreCommand \/ UNCHANGED vars
  BY <1>11 DEF RestoreCommand, vars
<1> QED BY <1>1, <1>2, <1>3, <1>4, <1>5, <1>6, <1>7, <1>8, <1>9, <1>10, <1>11
       DEF Next, Proceed

LEMMA ServerNext == ASSUME TypeOK, FileInv, ServerInv, [Next]_vars PROVE ServerInv'
<1> USE NoneAssumption
    DEF TypeOK, ServerInv, Active, Stopping, Step, Note, fileVars, serverVars
<1>1. ASSUME NEW p \in Procs, Launch(p) \/ Open(p) \/ Flock(p) \/ Refused(p)
      PROVE  ServerInv'
  BY <1>1 DEF Launch, Open, Flock, Refused
<1>2. ASSUME NEW p \in Procs,
             TakeSnapshot(p) \/ Apply(p) \/ ApplyFails(p) \/ StartBreaks(p) \/ ServeFails(p)
      PROVE  ServerInv'
  BY <1>2 DEF TakeSnapshot, Apply, ApplyFails, StartBreaks, ServeFails
<1>3. ASSUME NEW p \in Procs, Serve(p) \/ Stop(p) \/ ReleaseQos(p) \/ Restore(p)
      PROVE  ServerInv'
  BY <1>3 DEF Serve, Stop, ReleaseQos, Restore, FileInv, Opened
<1>4. ASSUME NEW p \in Procs, Unserve(p) PROVE ServerInv'
  BY <1>4 DEF Unserve
<1>5. ASSUME NEW p \in Procs, UnlinkSocket(p) PROVE ServerInv'
  <2>1. "orphan" \notin events => \A q \in Procs : pc[q] # "running"
    BY <1>5 DEF UnlinkSocket, FileInv, Opened
  <2> QED BY <1>5, <2>1 DEF UnlinkSocket
<1>6. ASSUME NEW p \in Procs, Unlock(p) \/ Unlink(p) PROVE ServerInv'
  BY <1>6 DEF Unlock, Unlink
<1>7. ASSUME NEW p \in Procs, Kill(p) PROVE ServerInv'
  BY <1>7 DEF Kill
<1>8. CASE RestoreCommand \/ UNCHANGED vars
  BY <1>8 DEF RestoreCommand, vars
<1> QED BY <1>1, <1>2, <1>3, <1>4, <1>5, <1>6, <1>7, <1>8 DEF Next, Proceed

(* Two processes cannot both have locked the one file they both have open. *)
LEMMA ActiveAlone ==
  ASSUME TypeOK, FileInv, "orphan" \notin events,
         NEW p \in Procs, NEW q \in Procs, Active(p), Active(q)
  PROVE  p = q
<1>1. fd[p] # None /\ fd[q] # None
  BY DEF FileInv, Active, Opened
<1> QED BY <1>1 DEF FileInv

(* Who changes the machine or is about to is the only one to do so.        *)
LEMMA ChangingAlone ==
  ASSUME TypeOK, FileInv, events \cap {"orphan", "refused"} = {},
         NEW p \in Procs, pc[p] \in Changing \cup {"snapshot", "apply"}
  PROVE  \A q \in Procs \ {p} : pc[q] \notin Changing \cup {"snapshot", "apply"}
<1>1. ASSUME NEW q \in Procs, pc[q] \in Changing \cup {"snapshot", "apply"} PROVE Active(q)
  BY <1>1 DEF FileInv, Active, Changing, Stopping
<1> QED BY <1>1, ActiveAlone

LEMMA RecoverNext ==
  ASSUME TypeOK, TypeOK', FileInv, RecoverInv, [Next]_vars PROVE RecoverInv'
<1> SUFFICES ASSUME events' \subseteq {"killed"} PROVE RecoverInv'
  BY DEF RecoverInv
<1> USE DEF TypeOK, RecoverInv, Changing, Step, Note, snapVars, machineVars
<1>1. ASSUME NEW p \in Procs, Launch(p) \/ Open(p) \/ Flock(p)
      PROVE  RecoverInv'
  BY <1>1 DEF Launch, Open, Flock
<1>2. ASSUME NEW p \in Procs, Refused(p) PROVE RecoverInv'
  BY <1>2 DEF Refused
<1>3. ASSUME NEW p \in Procs, TakeSnapshot(p) PROVE RecoverInv'
  <2>0. events' \in {events, events \cup {"dirty"}, events \cup {"unsaved"}}
    BY <1>3 DEF TakeSnapshot
  <2>1. sysfs = "orig" /\ snapFile' = "orig" /\ memory'[p] = "orig"
    <3>1. "dirty" \notin events' /\ "unsaved" \notin events'
      OBVIOUS
    <3>2. snapFile' = sysfs /\ sysfs = "orig" /\ memory' = [memory EXCEPT ![p] = sysfs]
      BY <1>3, <3>1 DEF TakeSnapshot
    <3> QED BY <3>2
  <2> QED BY <1>3, <2>1 DEF TakeSnapshot
<1>4. ASSUME NEW p \in Procs,
             \/ Apply(p) \/ ApplyFails(p) \/ StartBreaks(p)
             \/ Serve(p) \/ ServeFails(p) \/ Stop(p)
      PROVE  RecoverInv'
  BY <1>4 DEF Apply, ApplyFails, StartBreaks, Serve, ServeFails, Stop
<1>5. ASSUME NEW p \in Procs, ReleaseQos(p) \/ Unserve(p) \/ UnlinkSocket(p)
      PROVE  RecoverInv'
  BY <1>5 DEF ReleaseQos, Unserve, UnlinkSocket
<1>6. ASSUME NEW p \in Procs, Restore(p) PROVE RecoverInv'
  BY <1>6, ChangingAlone DEF Restore
<1>7. ASSUME NEW p \in Procs, Unlock(p) \/ Unlink(p) \/ Kill(p) PROVE RecoverInv'
  BY <1>7 DEF Unlock, Unlink, Kill
<1>8. CASE RestoreCommand
  BY <1>8 DEF RestoreCommand
<1>9. CASE UNCHANGED vars
  BY <1>9 DEF vars
<1> QED BY <1>1, <1>2, <1>3, <1>4, <1>5, <1>6, <1>7, <1>8, <1>9 DEF Next, Proceed

LEMMA CleanNext ==
  ASSUME TypeOK, TypeOK', FileInv, CleanInv, [Next]_vars PROVE CleanInv'
<1> SUFFICES ASSUME events' \subseteq {"unsaved"} PROVE CleanInv'
  BY DEF CleanInv
<1> USE DEF TypeOK, CleanInv, Changing, Holding, Step, Note, snapVars, machineVars
<1>1. ASSUME NEW p \in Procs, Launch(p) \/ Open(p) \/ Flock(p)
      PROVE  CleanInv'
  BY <1>1 DEF Launch, Open, Flock
<1>2. ASSUME NEW p \in Procs, Refused(p) PROVE CleanInv'
  BY <1>2 DEF Refused
<1>3. ASSUME NEW p \in Procs, TakeSnapshot(p) PROVE CleanInv'
  BY <1>3, ChangingAlone DEF TakeSnapshot
<1>4. ASSUME NEW p \in Procs, Apply(p) PROVE CleanInv'
  BY <1>4, ChangingAlone DEF Apply
<1>5. ASSUME NEW p \in Procs, ApplyFails(p) \/ Serve(p) \/ ServeFails(p) \/ Stop(p)
      PROVE  CleanInv'
  BY <1>5 DEF ApplyFails, Serve, ServeFails, Stop
<1>12. ASSUME NEW p \in Procs, StartBreaks(p) PROVE CleanInv'
  BY <1>12, ChangingAlone DEF StartBreaks
<1>6. ASSUME NEW p \in Procs, ReleaseQos(p) PROVE CleanInv'
  BY <1>6, ChangingAlone DEF ReleaseQos
<1>7. ASSUME NEW p \in Procs, Restore(p) PROVE CleanInv'
  BY <1>7, ChangingAlone DEF Restore
<1>8. ASSUME NEW p \in Procs, Unserve(p) \/ UnlinkSocket(p) \/ Unlock(p) \/ Unlink(p)
      PROVE  CleanInv'
  BY <1>8 DEF Unserve, UnlinkSocket, Unlock, Unlink
<1>9. ASSUME NEW p \in Procs, Kill(p) PROVE CleanInv'
  BY <1>9 DEF Kill
<1>10. CASE RestoreCommand
  BY <1>10 DEF RestoreCommand
<1>11. CASE UNCHANGED vars
  BY <1>11 DEF vars
<1> QED BY <1>1, <1>2, <1>3, <1>4, <1>5, <1>6, <1>7, <1>8, <1>9, <1>10, <1>11, <1>12
       DEF Next, Proceed

LEMMA BoostNext ==
  ASSUME TypeOK, TypeOK', FileInv, BoostInv, [Next]_vars PROVE BoostInv'
<1> SUFFICES ASSUME events' \cap {"refused", "orphan", "command"} = {} PROVE BoostInv'
  BY DEF BoostInv
<1> USE DEF TypeOK, BoostInv, Changing, Step, Note, machineVars
<1>1. ASSUME NEW p \in Procs, Launch(p) \/ Open(p) \/ Flock(p) \/ Refused(p)
      PROVE  BoostInv'
  BY <1>1 DEF Launch, Open, Flock, Refused
<1>2. ASSUME NEW p \in Procs, TakeSnapshot(p) \/ Apply(p) \/ ApplyFails(p) \/ StartBreaks(p)
      PROVE  BoostInv'
  BY <1>2 DEF TakeSnapshot, Apply, ApplyFails, StartBreaks
<1>3. ASSUME NEW p \in Procs, Serve(p) \/ ServeFails(p) \/ Stop(p) PROVE BoostInv'
  BY <1>3 DEF Serve, ServeFails, Stop
<1>4. ASSUME NEW p \in Procs, ReleaseQos(p) PROVE BoostInv'
  BY <1>4, ChangingAlone DEF ReleaseQos
<1>5. ASSUME NEW p \in Procs, Restore(p) PROVE BoostInv'
  BY <1>5, ChangingAlone DEF Restore
<1>6. ASSUME NEW p \in Procs, Unserve(p) \/ UnlinkSocket(p) \/ Unlock(p) \/ Unlink(p)
      PROVE  BoostInv'
  BY <1>6 DEF Unserve, UnlinkSocket, Unlock, Unlink
<1>7. ASSUME NEW p \in Procs, Kill(p) PROVE BoostInv'
  BY <1>7 DEF Kill
<1>8. CASE RestoreCommand
  BY <1>8 DEF RestoreCommand
<1>9. CASE UNCHANGED vars
  BY <1>9 DEF vars
<1> QED BY <1>1, <1>2, <1>3, <1>4, <1>5, <1>6, <1>7, <1>8, <1>9 DEF Next, Proceed

-----------------------------------------------------------------------------
(* The invariant holds of every behaviour: the state is of its type, a     *)
(* process has the PID file open that its step calls for, and who changes  *)
(* the machine is alone and knows what to give back.                       *)
THEOREM Inductive == Spec => []IInv
<1>1. IInv /\ [Next]_vars => IInv'
  <2> SUFFICES ASSUME IInv, [Next]_vars PROVE IInv'
    OBVIOUS
  <2>1. TypeOK'
    BY TypeNext DEF IInv
  <2> QED BY <2>1, FileNext, ServerNext, RecoverNext, CleanNext, BoostNext DEF IInv
<1> QED BY InitInv, <1>1, PTL DEF Spec

(* The flock on the PID file keeps a second daemon out, for any number of  *)
(* processes that start, stop, are refused or killed in any order, as long *)
(* as no PID file was unlinked under a process that had it open.           *)
THEOREM OneDaemonHolds == Spec => []OneDaemon
<1>1. IInv => OneDaemon
  BY ActiveAlone DEF IInv, OneDaemon
<1> QED BY Inductive, <1>1, PTL

(* kill -9 at any step of any daemon cannot lose the original values: they *)
(* are in force or in the snapshot file.                                   *)
THEOREM OriginalsAreRecoverable == Spec => []OriginalsRecoverable
<1>1. IInv => OriginalsRecoverable
  BY DEF IInv, RecoverInv, OriginalsRecoverable
<1> QED BY Inductive, <1>1, PTL

(* Starts, starts that break off after their snapshot, and stops in any    *)
(* order leave cpufreq and cpuidle as they were when the last process is   *)
(* gone.                                                                   *)
THEOREM QuietIsRestored == Spec => []QuietMeansRestored
<1>1. IInv => QuietMeansRestored
  BY DEF IInv, CleanInv, QuietMeansRestored, Quiet, Changing, Holding
<1> QED BY Inductive, <1>1, PTL

(* No refused start and no stop removes the socket file of the one daemon  *)
(* that runs.                                                              *)
THEOREM RunningKeepsItsSocket == Spec => []RunningIsReachable
<1>1. IInv => RunningIsReachable
  BY DEF IInv, ServerInv, RunningIsReachable
<1> QED BY Inductive, <1>1, PTL

(* What a daemon applied is in force for as long as it runs, unless a      *)
(* start was refused, the PID file was orphaned, or restore was asked for. *)
THEOREM RunningStaysBoosted == Spec => []RunningMeansBoosted
<1>1. IInv => RunningMeansBoosted
  BY DEF IInv, BoostInv, RunningMeansBoosted
<1> QED BY Inductive, <1>1, PTL
=============================================================================
