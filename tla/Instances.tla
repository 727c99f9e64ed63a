------------------------------ MODULE Instances ------------------------------
(***************************************************************************)
(* Several `boostlock start` processes on one machine (daemon.py:96-182,   *)
(* 261-377, 913-940).  They share the PID file, which is locked with       *)
(* flock() and unlinked on the way out, the snapshot file, the socket file *)
(* and the cpufreq and cpuidle files.  Any of them may be killed with -9;  *)
(* `boostlock restore` may be run at any time.                             *)
(*                                                                         *)
(* The machine takes the cpuidle route for PM QoS, the one whose effect    *)
(* outlives the process.  The policy transaction and a restore are one     *)
(* step each; PolicyTransaction and SnapshotRestore have their inside.     *)
(***************************************************************************)
EXTENDS Integers, FiniteSets

CONSTANTS
  Procs,       \* processes; one that has exited may be started again
  Inodes,      \* files that may be behind the PID path, one after another
  None,        \* no process, no file
  MaxStarts,   \* bound: starts
  MaxKills     \* bound: kill -9

ASSUME NoneAssumption == None \notin Procs \cup Inodes /\ "stale" \notin Procs
ASSUME BoundAssumption == MaxStarts \in Nat /\ MaxKills \in Nat
ASSUME InodeAssumption == IsFiniteSet(Procs) /\ IsFiniteSet(Inodes)
                          /\ Cardinality(Inodes) > Cardinality(Procs)

VARIABLES
  pc,          \* per process: the step it takes next
  path,        \* the file behind the PID path
  fd,          \* per process: the PID file it has open
  holder,      \* per file: the process that holds its flock
  sock,        \* the process whose socket is at the socket path, "stale" or None
  serving,     \* the processes whose IPCServer runs
  sysfs,       \* cpufreq: "orig", "boosted" or "fallback"
  idle,        \* whether the cpuidle states are disabled
  memory,      \* per process: state_manager.snapshot
  saved,       \* per process: the cpuidle state PM QoS gives back
  snapFile,    \* the snapshot file
  starts,      \* starts and kills so far
  kills,
  events       \* history: what happened that the design does not cover

fileVars == <<path, fd, holder>>
machineVars == <<sysfs, idle>>
snapVars == <<memory, saved, snapFile>>
counters == <<starts, kills>>
serverVars == <<sock, serving>>
vars == <<pc, fileVars, serverVars, machineVars, snapVars, counters, events>>

Steps == {"off", "open", "flock", "snapshot", "apply", "serve", "running",
          "release", "restore", "unserve", "unsocket", "unlock", "unlink"}
Stopping == {"release", "restore", "unserve", "unsocket", "unlock"}
(* A process that has passed the lock and not given it back.               *)
Active(p) == \/ pc[p] \in {"snapshot", "apply", "serve", "running"}
             \/ pc[p] \in Stopping /\ fd[p] # None

Init ==
  /\ pc = [p \in Procs |-> "off"]
  /\ path = None
  /\ fd = [p \in Procs |-> None]
  /\ holder = [i \in Inodes |-> None]
  /\ sock = None /\ serving = {}
  /\ sysfs = "orig" /\ idle = FALSE
  /\ memory = [p \in Procs |-> "none"]
  /\ saved = [p \in Procs |-> "none"]
  /\ snapFile = "none"
  /\ starts = 0 /\ kills = 0
  /\ events = {}

Step(p, from, to) == pc[p] = from /\ pc' = [pc EXCEPT ![p] = to]
Note(event, when) == events' = IF when THEN events \cup {event} ELSE events

-----------------------------------------------------------------------------
Launch(p) ==
  /\ starts < MaxStarts
  /\ starts' = starts + 1
  /\ Step(p, "off", "open")
  /\ UNCHANGED <<fileVars, serverVars, machineVars, snapVars, kills, events>>

(* acquire(), daemon.py:121-166: opening the path makes the file if there  *)
(* is none ...                                                             *)
Unused == {i \in Inodes : i # path /\ \A p \in Procs : fd[p] # i}
Open(p) ==
  /\ Step(p, "open", "flock")
  /\ IF path # None THEN UNCHANGED path ELSE path' = CHOOSE i \in Unused : TRUE
  /\ fd' = [fd EXCEPT ![p] = path']
  /\ UNCHANGED <<holder, serverVars, machineVars, snapVars, counters, events>>
(* Faulty variant: a file that is not locked exclusively.                  *)
FlockShared(p) ==
  /\ Step(p, "flock", "snapshot")
  /\ holder' = [holder EXCEPT ![fd[p]] = p]
  /\ UNCHANGED <<path, fd, serverVars, machineVars, snapVars, counters, events>>

(* ... and the lock is tried once, on the file that was opened, which need *)
(* not be at the path any more.                                            *)
Flock(p) ==
  /\ Step(p, "flock", "snapshot")
  /\ holder[fd[p]] = None
  /\ holder' = [holder EXCEPT ![fd[p]] = p]
  /\ UNCHANGED <<path, fd, serverVars, machineVars, snapVars, counters, events>>

(* The file is locked, or cannot be opened or written.  The rollback of a  *)
(* process that owns nothing still restores and unlinks (daemon.py:320-322,*)
(* 913-932, 178-182).                                                      *)
Refused(p) ==
  /\ Step(p, "open", "release") \/ Step(p, "flock", "release")
  /\ fd' = [fd EXCEPT ![p] = None]
  /\ Note("refused", TRUE)
  /\ UNCHANGED <<path, holder, serverVars, machineVars, snapVars, counters>>

(* Faulty variant: the snapshot is kept in memory only.                    *)
TakeSnapshotInMemory(p) ==
  /\ Step(p, "snapshot", "apply")
  /\ memory' = [memory EXCEPT ![p] = sysfs]
  /\ UNCHANGED <<fileVars, serverVars, machineVars, saved, snapFile, counters, events>>

(* create_snapshot(): the values of now replace the file of a daemon that  *)
(* was killed (daemon.py:284), or cannot be written (state.py:235).        *)
TakeSnapshot(p) ==
  /\ Step(p, "snapshot", "apply")
  /\ memory' = [memory EXCEPT ![p] = sysfs]
  /\ \/ snapFile' = sysfs /\ Note("dirty", sysfs # "orig" \/ idle)
     \/ snapFile' = snapFile /\ Note("unsaved", TRUE)
  /\ UNCHANGED <<fileVars, serverVars, machineVars, saved, counters>>

Apply(p) ==
  /\ Step(p, "apply", "serve")
  /\ sysfs' = "boosted"
  /\ idle' = TRUE
  /\ saved' = [saved EXCEPT ![p] = IF idle THEN "disabled" ELSE "enabled"]
  /\ UNCHANGED <<fileVars, serverVars, memory, snapFile, counters, events>>

(* A SysfsError: no plan, or the transaction fails and compensates.  There *)
(* is no restore, and the snapshot file stays (daemon.py:309-319).         *)
ApplyFails(p) ==
  /\ Step(p, "snapshot", "unserve") \/ Step(p, "apply", "unserve")
  /\ memory' = [memory EXCEPT ![p] = "none"]
  /\ UNCHANGED <<fileVars, serverVars, machineVars, saved, snapFile, counters, events>>

(* Any other error there ends in a restore (daemon.py:320-322): of the     *)
(* snapshot, or, when the plan could not be made, of what there is without *)
(* one.                                                                    *)
StartBreaks(p) ==
  /\ Step(p, "snapshot", "release") \/ Step(p, "apply", "release")
  /\ Note("unplanned", pc[p] = "snapshot")
  /\ UNCHANGED <<fileVars, serverVars, machineVars, snapVars, counters>>

(* IPCServer.start(), ipc.py:81-112, 141-161: a socket file nobody listens *)
(* on is removed, one that answers refuses the start, as does any error.   *)
Serve(p) ==
  /\ sock \in {None, "stale"}
  /\ Step(p, "serve", "running")
  /\ sock' = p
  /\ serving' = serving \cup {p}
  /\ UNCHANGED <<fileVars, machineVars, snapVars, counters, events>>

ServeFails(p) ==
  /\ Step(p, "serve", "release")
  /\ UNCHANGED <<fileVars, serverVars, machineVars, snapVars, counters, events>>

(* stop(), daemon.py:325-377, on a signal or a STOP.                       *)
Stop(p) ==
  /\ Step(p, "running", "release")
  /\ UNCHANGED <<fileVars, serverVars, machineVars, snapVars, counters, events>>

(* Faulty variant: the cpuidle states stay disabled.                       *)
ReleaseForgets(p) ==
  /\ Step(p, "release", "restore")
  /\ saved' = [saved EXCEPT ![p] = "none"]
  /\ UNCHANGED <<fileVars, serverVars, machineVars, memory, snapFile, counters, events>>

ReleaseQos(p) ==
  /\ Step(p, "release", "restore")
  /\ idle' = IF saved[p] = "none" THEN idle ELSE saved[p] = "disabled"
  /\ saved' = [saved EXCEPT ![p] = "none"]
  /\ UNCHANGED <<fileVars, serverVars, sysfs, memory, snapFile, counters, events>>

(* state_manager.restore(): from memory, from the file, or defaults, which *)
(* enable the cpuidle states; the snapshot itself leaves them out          *)
(* (state.py:252-264).                                                     *)
Restore(p) ==
  /\ Step(p, "restore", "unserve")
  /\ sysfs' = IF memory[p] # "none" THEN memory[p]
              ELSE IF snapFile # "none" THEN snapFile ELSE "fallback"
  /\ idle' = (idle /\ (memory[p] # "none" \/ snapFile # "none"))
  /\ memory' = [memory EXCEPT ![p] = "none"]
  /\ snapFile' = "none"
  /\ UNCHANGED <<fileVars, serverVars, saved, counters, events>>
(* Faulty variant: a server that never started removes the socket file.    *)
UnserveAnyway(p) ==
  /\ Step(p, "unserve", "unsocket")
  /\ sock' = IF sock = p THEN "stale" ELSE sock
  /\ serving' = serving \ {p}
  /\ UNCHANGED <<fileVars, machineVars, snapVars, counters, events>>

(* IPCServer.stop(), ipc.py:114-139: a server that runs is closed, and     *)
(* then the file at its path is removed, whoever made it.                  *)
Unserve(p) ==
  /\ Step(p, "unserve", IF p \in serving THEN "unsocket" ELSE "unlock")
  /\ sock' = IF sock = p THEN "stale" ELSE sock
  /\ serving' = serving \ {p}
  /\ UNCHANGED <<fileVars, machineVars, snapVars, counters, events>>

UnlinkSocket(p) ==
  /\ Step(p, "unsocket", "unlock")
  /\ sock' = None
  /\ UNCHANGED <<fileVars, serving, machineVars, snapVars, counters, events>>

(* release(), daemon.py:168-182: the lock goes before the file does.       *)
Unlock(p) ==
  /\ Step(p, "unlock", "unlink")
  /\ holder' = [i \in Inodes |-> IF holder[i] = p THEN None ELSE holder[i]]
  /\ fd' = [fd EXCEPT ![p] = None]
  /\ UNCHANGED <<path, serverVars, machineVars, snapVars, counters, events>>

(* It is an orphan for a process that has it open.                         *)
Unlink(p) ==
  /\ Step(p, "unlink", "off")
  /\ path' = None
  /\ Note("orphan", path # None /\ \E q \in Procs : fd[q] = path)
  /\ UNCHANGED <<fd, holder, serverVars, machineVars, snapVars, counters>>

(* kill -9: the kernel closes what was open; nothing else is undone.       *)
Kill(p) ==
  /\ pc[p] # "off"
  /\ kills < MaxKills
  /\ kills' = kills + 1
  /\ pc' = [pc EXCEPT ![p] = "off"]
  /\ holder' = [i \in Inodes |-> IF holder[i] = p THEN None ELSE holder[i]]
  /\ fd' = [fd EXCEPT ![p] = None]
  /\ sock' = IF sock = p THEN "stale" ELSE sock
  /\ serving' = serving \ {p}
  /\ memory' = [memory EXCEPT ![p] = "none"]
  /\ saved' = [saved EXCEPT ![p] = "none"]
  /\ Note("killed", TRUE)
  /\ UNCHANGED <<path, machineVars, snapFile, starts>>

(* cmd_restore, cli.py:294-301: it asks nobody whether a daemon runs.      *)
RestoreCommand ==
  /\ snapFile # "none"
  /\ sysfs' = snapFile
  /\ snapFile' = "none"
  /\ Note("command", \E p \in Procs : pc[p] # "off")
  /\ UNCHANGED <<pc, fileVars, serverVars, idle, memory, saved, counters>>

(* What a process that was started does until it runs, and after it stops. *)
Proceed(p) ==
  \/ Open(p) \/ Flock(p) \/ Refused(p) \/ TakeSnapshot(p) \/ Apply(p)
  \/ ApplyFails(p) \/ StartBreaks(p)
  \/ Serve(p) \/ ServeFails(p)
  \/ ReleaseQos(p) \/ Restore(p) \/ Unserve(p) \/ UnlinkSocket(p) \/ Unlock(p) \/ Unlink(p)

Next ==
  \/ \E p \in Procs : Launch(p) \/ Proceed(p) \/ Stop(p) \/ Kill(p)
  \/ RestoreCommand

Spec == Init /\ [][Next]_vars

-----------------------------------------------------------------------------
Images == {"orig", "boosted", "fallback"}
Quiet == \A p \in Procs : pc[p] = "off"

TypeOK ==
  /\ pc \in [Procs -> Steps]
  /\ path \in Inodes \cup {None}
  /\ fd \in [Procs -> Inodes \cup {None}]
  /\ holder \in [Inodes -> Procs \cup {None}]
  /\ sock \in Procs \cup {None, "stale"} /\ serving \subseteq Procs
  /\ sysfs \in Images /\ idle \in BOOLEAN
  /\ memory \in [Procs -> Images \cup {"none"}]
  /\ saved \in [Procs -> {"none", "enabled", "disabled"}]
  /\ snapFile \in Images \cup {"none"}
  /\ starts \in 0..MaxStarts /\ kills \in 0..MaxKills
  /\ events \subseteq {"refused", "unplanned", "dirty", "unsaved", "orphan", "killed", "command"}

(* "Raises DaemonRunningError if another instance holds the lock"          *)
(* (daemon.py:123): two processes own the machine at once only after the   *)
(* PID file was unlinked under a process that had it open, which a refused *)
(* start does, and a stop that a start overtakes between flock and unlink. *)
OneDaemon ==
  \A p, q \in Procs : p # q /\ Active(p) /\ Active(q) => "orphan" \in events

(* Until something the design does not cover happens, the original values  *)
(* are in force, in the memory of a process that will write them back, or  *)
(* in the file: kill -9 alone, at any step, cannot lose them.              *)
OriginalsRecoverable ==
  events \subseteq {"killed"} =>
    \/ sysfs = "orig"
    \/ \E p \in Procs : memory[p] = "orig"
    \/ snapFile = "orig"

(* Any sequence of starts, starts that break off after their snapshot, and *)
(* stops, with snapshots that could not be saved, leaves cpufreq and       *)
(* cpuidle as they were when the last process is gone.  A start that is    *)
(* refused, or breaks off before its snapshot, restores what it never took *)
(* and is an event of its own.                                             *)
QuietMeansRestored ==
  Quiet /\ events \subseteq {"unsaved"} => sysfs = "orig" /\ ~idle

(* A daemon that runs can be reached: as long as there is one daemon only, *)
(* no refused start and no stop takes its socket away.                     *)
RunningIsReachable ==
  \A p \in Procs : pc[p] = "running" /\ "orphan" \notin events => sock = p

(* A daemon that runs has what it applied, unless a second one was refused *)
(* or a restore was asked for meanwhile.                                   *)
RunningMeansBoosted ==
  \A p \in Procs : pc[p] = "running" /\ events \cap {"refused", "orphan", "command"} = {} =>
    sysfs = "boosted" /\ idle

=============================================================================
