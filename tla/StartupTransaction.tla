------------------------- MODULE StartupTransaction -------------------------
(***************************************************************************)
(* Which plan the daemon builds, and the boost it engages with it: the     *)
(* cpufreq part (sysfs.py:413-484, 548-569), the one PM QoS route          *)
(* (pm_qos.py:197-242, daemon.py:760-810), LOCK, UNLOCK and RECONFIGURE    *)
(* (daemon.py:395-429) reduced to what they do to files.  The executor is  *)
(* PolicyTransaction, which this module refines.                           *)
(***************************************************************************)
EXTENDS Integers, Sequences, FiniteSetsExt

CONSTANTS
  Policies,     \* cpufreq policies in discovery order, a sequence
  IdleStates,   \* cpuidle state directories deep enough for the fallback
  Targets,      \* configurable target frequencies
  AutoTarget,   \* the target "auto"
  Machines,     \* the machines considered, see MachineOK
  On, Performance, Epp, Latency,  \* values the daemon writes
  Stock,        \* what the other files hold before the daemon
  MaxFreq,      \* bound on frequencies, in arbitrary units
  NoRequest, NoPath

Policy == {Policies[k] : k \in DOMAIN Policies}
Device == <<"dev", "cpu_dma_latency">>
SharedBoost == <<"cpufreq", "boost">>
IdlePath == {<<s, "disable">> : s \in IdleStates}
Control == {"boost", "cpb", "epp"}
Path == (Policy \X ({"governor", "min"} \cup Control))
          \cup {SharedBoost, Device} \cup IdlePath
Value == 0..MaxFreq \cup {Stock, On, Performance, Epp, Latency, NoRequest}

(* What discovery finds (sysfs.py:248-367).  A limit of 0 is unreadable.   *)
PolicyInfo == [usable : BOOLEAN, performance : BOOLEAN, sharedBoost : BOOLEAN,
               caps : SUBSET Control,
               hwMin : 0..MaxFreq, hwMax : 0..MaxFreq, max : 0..MaxFreq]

Distinct(seq) == \A j, k \in DOMAIN seq : seq[j] = seq[k] => j = k

(* idle is what discover_fallback_paths() returns, in order.               *)
MachineOK(m) ==
  /\ m.device \in BOOLEAN
  /\ m.idle \in Seq(IdlePath) /\ Distinct(m.idle)
  /\ m.policy \in [Policy -> PolicyInfo]

(* A directory is a policy once (sysfs.py:239), and none is "cpufreq".     *)
ConstantsOK ==
  /\ Policies \in Seq(Policy) /\ Distinct(Policies) /\ SharedBoost[1] \notin Policy
  /\ \A m \in Machines : MachineOK(m)
  /\ MaxFreq \in Nat /\ Targets \subseteq Nat
  /\ NoPath \notin Path

ASSUME ConstantsAssumption == ConstantsOK

VARIABLES
  phase, plan, toOpen, pos, image, residue, culprit, before, \* the executor's
  at,         \* step of the planning under way, or 0
  planned,    \* the actions it has planned
  machine,    \* the hardware, fixed
  target,     \* config.target_frequency_khz
  engaged,    \* _is_locked_boost
  route,      \* PM QoS route of the transaction under way
  snapshots,  \* fallback_snapshots of that transaction
  saved,      \* pm_qos._fallback_saved_states
  origin,     \* history: the image before the daemon
  excused     \* history: cpuidle files some failed write left behind

T == INSTANCE PolicyTransaction
       WITH Plans <- Seq([path : Path, value : Value, original : Value])

executorVars == <<phase, plan, toOpen, pos, image, residue, culprit, before>>
planVars == <<at, planned>>
boostVars == <<machine, target, engaged, route, snapshots, saved, origin, excused>>
startupVars == <<executorVars, planVars, boostVars>>

-----------------------------------------------------------------------------
(* sysfs.py:548-569                                                        *)
LowerBounds(p) == {x \in {machine.policy[p].hwMin, image[<<p, "min">>]} : x > 0}
UpperBounds(p) == {x \in {machine.policy[p].hwMax, machine.policy[p].max} : x > 0}

HasTarget(p) ==
  /\ LowerBounds(p) # {} /\ UpperBounds(p) # {}
  /\ Max(LowerBounds(p)) <= Min(UpperBounds(p))
(* Faulty variant: the request is raised to the lower bound only.          *)
TargetUnclamped(p) ==
  LET requested == IF target = AutoTarget THEN Min(UpperBounds(p)) ELSE target
  IN  Max({requested, Max(LowerBounds(p))})

EffectiveTarget(p) ==
  LET requested == IF target = AutoTarget THEN Min(UpperBounds(p)) ELSE target
  IN  Min({Max({requested, Max(LowerBounds(p))}), Min(UpperBounds(p))})

BoostPath(p) == IF machine.policy[p].sharedBoost THEN SharedBoost ELSE <<p, "boost">>

(* The snapshot of one write; "release" undoes the device.                 *)
ActionOn(path, value) ==
  [path |-> path, value |-> value,
   original |-> IF path = Device THEN NoRequest ELSE image[path]]

(* sysfs.py:433-479: the actions of policy p, given those planned before.  *)
LimitActions(p) ==
  IF ~HasTarget(p) THEN <<>>
  ELSE (IF machine.policy[p].performance
        THEN <<ActionOn(<<p, "governor">>, Performance)>> ELSE <<>>)
       \o <<ActionOn(<<p, "min">>, EffectiveTarget(p))>>
(* Faulty variant: the shared boost file is planned once per policy.       *)
ControlActionsRepeated(p) ==
  LET caps == machine.policy[p].caps
  IN  (IF "boost" \in caps THEN <<ActionOn(BoostPath(p), On)>> ELSE <<>>)
      \o (IF "cpb" \in caps THEN <<ActionOn(<<p, "cpb">>, On)>> ELSE <<>>)
      \o (IF "epp" \in caps THEN <<ActionOn(<<p, "epp">>, Epp)>> ELSE <<>>)

ControlActions(p) ==
  LET caps == machine.policy[p].caps
      new == BoostPath(p) \notin {planned[k].path : k \in DOMAIN planned}
  IN  (IF "boost" \in caps /\ new THEN <<ActionOn(BoostPath(p), On)>> ELSE <<>>)
      \o (IF "cpb" \in caps THEN <<ActionOn(<<p, "cpb">>, On)>> ELSE <<>>)
      \o (IF "epp" \in caps THEN <<ActionOn(<<p, "epp">>, Epp)>> ELSE <<>>)

(* pm_qos.py:197-202: the device is chosen because it exists.              *)
PlannedRoute ==
  IF machine.device THEN "device"
  ELSE IF machine.idle # <<>> THEN "cpuidle" ELSE "none"

-----------------------------------------------------------------------------
NoFile == [p \in {} |-> On]

(* The minimum before the daemon is that of the hardware, or one the user  *)
(* has raised below the maximum of now.                                    *)
Minimum(info) == {info.hwMin} \cup {f \in 0..MaxFreq : info.hwMin <= f /\ f <= info.max}

StartupInit ==
  /\ machine \in Machines
  /\ \E idle \in [IdlePath -> {Stock, On}], min \in [Policy -> 0..MaxFreq] :
       /\ \A p \in Policy : min[p] \in Minimum(machine.policy[p])
       /\ image = [p \in Path |->
                     IF p = Device THEN NoRequest
                     ELSE IF p \in IdlePath THEN idle[p]
                     ELSE IF p[2] = "min" THEN min[p[1]]
                     ELSE Stock]
  /\ phase = "idle" /\ plan = <<>> /\ toOpen = {} /\ pos = 1
  /\ residue = {} /\ culprit = NoPath /\ before = image
  /\ at = 0 /\ planned = <<>>
  /\ target = AutoTarget
  /\ engaged = FALSE
  /\ route = "none"
  /\ snapshots = NoFile
  /\ saved = NoFile
  /\ origin = image
  /\ excused = {}

(* start() or lock(), daemon.py:301, 395: without a usable policy discovery*)
(* raises (sysfs.py:245) and nothing happens.                              *)
Prepare ==
  /\ phase = "idle" /\ at = 0
  /\ ~engaged
  /\ \E p \in Policy : machine.policy[p].usable
  /\ at' = 1
  /\ UNCHANGED <<executorVars, planned, boostVars>>

(* The loop of build_policy_apply_plan, sysfs.py:432-479.                  *)
PlanPolicy ==
  /\ at \in DOMAIN Policies
  /\ LET p == Policies[at]
     IN  planned' = IF machine.policy[p].usable
                    THEN planned \o LimitActions(p) \o ControlActions(p)
                    ELSE planned
  /\ at' = at + 1
  /\ UNCHANGED <<executorVars, boostVars>>

(* The loop of the daemon over the cpuidle nodes, which are read a second  *)
(* time and may have gone, daemon.py:781-797.                              *)
IdlePos == at - Len(Policies)
IdleNodes == IF PlannedRoute = "cpuidle" THEN machine.idle ELSE <<>>

PlanIdle ==
  /\ IdlePos \in DOMAIN IdleNodes
  /\ LET node == IdleNodes[IdlePos]
     IN  \/ /\ planned' = Append(planned, ActionOn(node, On))
            /\ snapshots' = [p \in DOMAIN snapshots \cup {node} |-> image[p]]
         \/ UNCHANGED <<planned, snapshots>>
  /\ at' = at + 1
  /\ UNCHANGED <<executorVars, machine, target, engaged, route, saved, origin, excused>>

(* The plan is complete and enters the executor, daemon.py:769-808.        *)
Lock ==
  /\ IdlePos = Len(IdleNodes) + 1
  /\ plan' = IF PlannedRoute = "device" THEN Append(planned, ActionOn(Device, Latency))
             ELSE planned
  /\ route' = IF PlannedRoute = "cpuidle" /\ DOMAIN snapshots = {} THEN "none"
              ELSE PlannedRoute
  /\ phase' = "preflight"
  /\ toOpen' = {plan'[k].path : k \in DOMAIN plan'}
  /\ pos' = 1
  /\ residue' = {}
  /\ culprit' = NoPath
  /\ before' = image
  /\ at' = 0 /\ planned' = <<>>
  /\ UNCHANGED <<image, machine, target, engaged, snapshots, saved, origin, excused>>

Execute ==
  /\ T!Preflight \/ T!Write \/ T!WriteSwallowed \/ T!WriteFails \/ T!Rollback
  /\ UNCHANGED <<planVars, boostVars>>

(* Faulty variant: the idle states are read after they were disabled.      *)
EngageReadsLate ==
  /\ T!Finish
  /\ engaged' = TRUE
  /\ saved' = [p \in DOMAIN snapshots |-> image[p]]
  /\ UNCHANGED <<planVars, machine, target, route, snapshots, origin, excused>>

(* The transaction went through: daemon.py:809-810 and 401.                *)
Engage ==
  /\ T!Finish
  /\ engaged' = TRUE
  /\ saved' = IF route = "cpuidle" THEN snapshots ELSE saved
  /\ UNCHANGED <<planVars, machine, target, route, snapshots, origin, excused>>

Return ==
  /\ T!Settle
  /\ route' = "none"
  /\ snapshots' = NoFile
  /\ excused' = excused \cup (residue \cap IdlePath)
  /\ UNCHANGED <<planVars, machine, target, engaged, saved, origin>>

(* unlock(): pm_qos.unlock() (pm_qos.py:294-320) closes the descriptor and *)
(* writes the saved cpuidle states back, going on after a failed write.    *)
(* The cpufreq files keep their boost.                                     *)
Unlock ==
  /\ phase = "idle" /\ at = 0
  /\ engaged
  /\ engaged' = FALSE
  /\ \E lost \in SUBSET (DOMAIN saved) :
       /\ image' = [p \in Path |->
                      IF p = Device THEN NoRequest
                      ELSE IF p \in DOMAIN saved \ lost THEN saved[p]
                      ELSE image[p]]
       /\ excused' = excused \cup lost
  /\ saved' = NoFile
  /\ before' = image'
  /\ UNCHANGED <<phase, plan, toOpen, pos, residue, culprit, planVars,
                 machine, target, route, snapshots, origin>>

(* reconfigure() stores the new target; only the next LOCK reads it.       *)
Reconfigure ==
  /\ phase = "idle" /\ at = 0
  /\ target' \in Targets \cup {AutoTarget}
  /\ UNCHANGED <<executorVars, planVars>>
  /\ UNCHANGED <<machine, engaged, route, snapshots, saved, origin, excused>>

StartupNext ==
  \/ Prepare \/ PlanPolicy \/ PlanIdle \/ Lock
  \/ Execute \/ Engage \/ Return \/ Unlock \/ Reconfigure

StartupSpec == StartupInit /\ [][StartupNext]_startupVars

-----------------------------------------------------------------------------
StartupTypeOK ==
  /\ T!TypeOK
  /\ MachineOK(machine)
  /\ at \in 0..(Len(Policies) + Len(machine.idle) + 1)
  /\ planned \in Seq(T!Action)
  /\ target \in Targets \cup {AutoTarget}
  /\ engaged \in BOOLEAN
  /\ route \in {"device", "cpuidle", "none"}
  /\ DOMAIN snapshots \subseteq IdlePath /\ DOMAIN saved \subseteq IdlePath
  /\ excused \in SUBSET IdlePath

(* Every run of the daemon's transaction is a run of PolicyTransaction: in *)
(* particular each plan names a file once (the shared boost file, sysfs.py *)
(* :472-477) and compensates with what it read.                            *)
ImplementsExecutor == T!Spec

(* pm_qos.py:287: however often LOCK, a failed LOCK and UNLOCK alternate,  *)
(* whenever the boost is off no latency request is held and every cpuidle  *)
(* state holds what it held before the daemon, unless a write of that very *)
(* file failed.                                                            *)
ReleaseRestoresPMQoS ==
  phase = "idle" /\ ~engaged =>
    /\ image[Device] = NoRequest
    /\ \A p \in IdlePath \ excused : image[p] = origin[p]

(* sysfs.py:548-569, README.md:21: the minimum a policy ends up with never *)
(* leaves the interval its hardware and its active maximum allow, on any   *)
(* mix of policies and through any sequence of targets.                    *)
MinimumInsideLimits ==
  \A p \in Policy :
    LET info == machine.policy[p]
        min == image[<<p, "min">>]
    IN  min # origin[<<p, "min">>] =>
          /\ \A limit \in UpperBounds(p) : min <= limit
          /\ min >= info.hwMin

(* README.md:54, "--target 3900 means try 3900 on each policy if that      *)
(* policy can do it": a numeric target inside the hardware limits is what  *)
(* every usable policy gets.  Not an invariant, and no configuration lists *)
(* it: a target below the minimum the daemon wrote itself is not reached.  *)
TargetReached ==
  phase = "applied" /\ target # AutoTarget =>
    \A p \in Policy :
      LET info == machine.policy[p]
      IN  info.usable /\ UpperBounds(p) # {} /\ info.hwMin \in 1..target
            /\ target <= Min(UpperBounds(p))
          => image[<<p, "min">>] = target

(* README.md:58, "If neither works it just runs without it": a PM QoS file *)
(* that cannot be opened never makes the startup fail.  Not an invariant,  *)
(* either: a device that exists and cannot be opened does.                 *)
RunsWithoutPMQoS ==
  phase = "failed" /\ toOpen # {} => culprit \notin {Device} \cup IdlePath
=============================================================================
