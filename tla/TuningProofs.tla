----------------------------- MODULE TuningProofs -----------------------------
(***************************************************************************)
(* Proofs about Tuning and PolicyTargets, for every set of threads, of     *)
(* updates, of policies and of limits.                                     *)
(***************************************************************************)
EXTENDS Tuning, TLAPS

(* A planned target lies between the bounds of its policy.                 *)
LEMMA PlanInsideBounds ==
  ASSUME NEW l \in Limits, NEW request \in Requests, PlannedTarget(l, request) # NoTarget
  PROVE  /\ LowerBound(l) <= PlannedTarget(l, request)
         /\ PlannedTarget(l, request) <= UpperBound(l)
  BY AutomaticAssumption DEF Requests, PlannedTarget, NoTarget, Readable, Compatible, Clamp, LowerBound, UpperBound,
         Limits, Unreadable

(* sysfs.py, engine.py and bench.py resolve a request alike wherever the   *)
(* plan has a target.                                                      *)
LEMMA ResolversAgree ==
  ASSUME NEW l \in Limits, NEW request \in Requests, PlannedTarget(l, request) # NoTarget
  PROVE  /\ EngineTarget(l, request) = PlannedTarget(l, request)
         /\ BenchTarget(l, request) = PlannedTarget(l, request)
  BY AutomaticAssumption DEF Requests, PlannedTarget, EngineTarget, BenchTarget, NoTarget, Readable, Compatible, Clamp,
         LowerBound, UpperBound, Limits, Unreadable

(* STATUS gives a reason exactly when the target is not the request.       *)
LEMMA ReasonExplains ==
  ASSUME NEW l \in Limits, NEW request \in Requests, PlannedTarget(l, request) # NoTarget
  PROVE  ClampReason(l, request, PlannedTarget(l, request)) = "none"
           <=> PlannedTarget(l, request) = request
  BY AutomaticAssumption DEF Requests, PlannedTarget, ClampReason, NoTarget, Readable, Compatible, Clamp,
         LowerBound, UpperBound, Limits, Unreadable

-----------------------------------------------------------------------------
HandlerStates == {"idle", "merged"} \cup Storing
Handler == [at : HandlerStates, base : Configurations, update : Updates \cup {<<>>}]

TypeInv ==
  /\ config \in Configurations
  /\ wanted \in Configurations
  /\ limits \in [Policies -> LimitSets]
  /\ handler \in [Handlers -> Handler]
  /\ bounds \in [min : Int, max : Int, step : Int]

(* The daemon's lock: one thread stores at a time, and what it stores is   *)
(* the configuration of the daemon already.                                *)
LockInv ==
  /\ \A g, h \in Handlers : handler[g].at \in Storing /\ handler[h].at \in Storing => g = h
  /\ \A h \in Handlers : handler[h].at \in Storing => config = NewConfig(h)

(* How far the engine has got.                                             *)
StoreInv ==
  /\ EngineFollowsConfig
  /\ \A h \in Handlers :
       /\ handler[h].at \in {"max", "step"} => bounds.min = config.minDuty
       /\ handler[h].at = "step" => bounds.max = config.maxDuty

(* What a thread has merged is valid, and based on the configuration of    *)
(* now unless two were merged at once.                                     *)
MergeInv ==
  /\ ConfigurationValid
  /\ ~overlapped => config = wanted
  /\ \A h \in Handlers : handler[h].at = "merged" =>
       /\ daemon = "running"
       /\ Valid(NewConfig(h))
       /\ ~overlapped => handler[h].base = config

IInv == TypeInv /\ LockInv /\ StoreInv /\ MergeInv

LEMMA MergeType ==
  ASSUME NEW c \in Configurations, NEW u \in Updates \cup {<<>>}
  PROVE  Merge(c, u) \in Configurations
<1>1. \A k \in DOMAIN u : u[k] \in Settings(k)
  BY ConfigurationAssumption
<1>2. \A k \in DOMAIN Default : Merge(c, u)[k] \in Settings(k)
  BY <1>1 DEF Merge, Configurations
<1> QED BY <1>2 DEF Merge, Configurations, Settings, Requests

LEMMA BoundsType ==
  ASSUME NEW c \in Configurations PROVE Bounds(c) \in [min : Int, max : Int, step : Int]
  BY DEF Configurations, Settings, Default, Bounds

LEMMA DefaultType == Default \in Configurations
  BY DEF Configurations, Settings, Requests, Default

LEMMA InitInv == Init => IInv
<1> SUFFICES ASSUME Init PROVE IInv
  OBVIOUS
<1>1. TypeInv
  BY DefaultType, BoundsType, ConfigurationAssumption
     DEF Init, TypeInv, Handler, HandlerStates, Idle
<1>2. LockInv
  BY DEF Init, LockInv, Idle, Storing
<1>3. StoreInv
  BY DEF Init, StoreInv, EngineFollowsConfig, Idle
<1>4. MergeInv
  BY DEF Init, MergeInv, ConfigurationValid, Idle
<1> QED BY <1>1, <1>2, <1>3, <1>4 DEF IInv

(* Steps that move neither a configuration nor a thread.                   *)
LEMMA OtherInv ==
  ASSUME IInv,
         \/ Start
         \/ \E p \in Policies : MoveLimits(p) \/ Control(p)
         \/ UNCHANGED vars
  PROVE  IInv'
<1>1. /\ UNCHANGED <<config, wanted, handler, bounds, overlapped>>
      /\ limits' \in [Policies -> LimitSets]
      /\ daemon' = "running" => daemon = "running" \/ Valid(config)
      /\ daemon = "running" => daemon' = "running"
  BY DEF IInv, TypeInv, Start, MoveLimits, Control, Yield, Tick, vars, engineVars, history
<1>2. TypeInv'
  BY <1>1 DEF IInv, TypeInv
<1>3. LockInv'
  BY <1>1 DEF IInv, LockInv, NewConfig
<1>4. StoreInv'
  BY <1>1 DEF IInv, StoreInv, EngineFollowsConfig, DaemonLocked
<1>5. MergeInv'
  BY <1>1 DEF IInv, MergeInv, ConfigurationValid, NewConfig
<1> QED BY <1>2, <1>3, <1>4, <1>5 DEF IInv

(* A thread merges without the lock ...                                    *)
LEMMA MergeUpdateInv ==
  ASSUME IInv, NEW h \in Handlers, NEW update \in Updates, MergeUpdate(h, update)
  PROVE  IInv'
<1>1. /\ daemon = "running" /\ handler[h].at = "idle"
      /\ Valid(Merge(config, update))
      /\ handler' = [handler EXCEPT ![h] = [at |-> "merged", base |-> config,
                                           update |-> update]]
      /\ UNCHANGED <<daemon, config, limits, bounds, wanted, overlapped>>
  BY DEF MergeUpdate, Idle, engineVars, history
<1>2. TypeInv'
  BY <1>1 DEF IInv, TypeInv, Handler, HandlerStates
<1>3. \A g \in Handlers : g # h => handler'[g] = handler[g]
  BY <1>1 DEF IInv, TypeInv
<1>4. handler'[h] = [at |-> "merged", base |-> config, update |-> update]
  BY <1>1 DEF IInv, TypeInv
<1>5. \A g \in Handlers : handler'[g].at \in Storing => g # h /\ handler[g].at \in Storing
  BY <1>3, <1>4 DEF Storing
<1>6. LockInv'
  BY <1>1, <1>3, <1>5 DEF IInv, LockInv, NewConfig
<1>7. DaemonLocked <=> DaemonLocked'
  BY <1>1, <1>3, <1>4 DEF DaemonLocked, Storing
<1>8. StoreInv'
  BY <1>1, <1>3, <1>4, <1>7 DEF IInv, StoreInv, EngineFollowsConfig
<1>9. MergeInv'
  BY <1>1, <1>3, <1>4 DEF IInv, MergeInv, ConfigurationValid, NewConfig
<1> QED BY <1>2, <1>6, <1>8, <1>9 DEF IInv

(* ... and stores with it.                                                 *)
LEMMA StoreInvariant ==
  ASSUME IInv, NEW h \in Handlers, Store(h)
  PROVE  IInv'
<1>1. /\ handler[h].at = "merged" /\ ~DaemonLocked
      /\ config' = NewConfig(h)
      /\ handler' = [handler EXCEPT ![h].at = "targets"]
      /\ wanted' = Merge(wanted, handler[h].update)
      /\ overlapped' = (overlapped \/ \E g \in Handlers \ {h} : handler[g].at = "merged")
      /\ UNCHANGED <<daemon, limits, bounds>>
  BY DEF Store, NewConfig, engineVars
<1>2. /\ handler'[h] = [handler[h] EXCEPT !.at = "targets"]
      /\ \A g \in Handlers : g # h => handler'[g] = handler[g]
  BY <1>1 DEF IInv, TypeInv
<1>3. handler[h] \in Handler
  BY DEF IInv, TypeInv
<1>4. /\ handler'[h].at = "targets"
      /\ handler'[h].base = handler[h].base
      /\ handler'[h].update = handler[h].update
  BY <1>2, <1>3 DEF Handler
<1>5. \A g \in Handlers : handler[g].at \notin Storing
  BY <1>1 DEF DaemonLocked
<1>6. TypeInv'
  <2>1. config' \in Configurations /\ wanted' \in Configurations
    BY <1>1, <1>3, MergeType DEF IInv, TypeInv, Handler, NewConfig
  <2>2. handler' \in [Handlers -> Handler]
    BY <1>1, <1>3 DEF IInv, TypeInv, Handler, HandlerStates, Storing
  <2> QED BY <2>1, <2>2, <1>1 DEF IInv, TypeInv
<1>7. \A g \in Handlers : handler'[g].at \in Storing => g = h
  BY <1>2, <1>5
<1>8. LockInv'
  BY <1>1, <1>4, <1>7 DEF LockInv, NewConfig
<1>9. DaemonLocked'
  BY <1>4 DEF DaemonLocked, Storing
<1>10. StoreInv'
  BY <1>4, <1>7, <1>9 DEF StoreInv, EngineFollowsConfig, Storing
<1>11. MergeInv'
  <2>1. ConfigurationValid'
    BY <1>1 DEF IInv, MergeInv, ConfigurationValid
  <2>2. ~overlapped' => config' = wanted'
    BY <1>1 DEF IInv, MergeInv, NewConfig
  <2>3. \A g \in Handlers : handler'[g].at = "merged" =>
          g # h /\ handler[g].at = "merged" /\ overlapped'
    BY <1>1, <1>2, <1>4
  <2>4. \A g \in Handlers : handler'[g].at = "merged" => daemon' = "running" /\ Valid(NewConfig(g)')
    BY <1>1, <1>2, <2>3 DEF IInv, MergeInv, NewConfig
  <2> QED BY <2>1, <2>2, <2>3, <2>4 DEF MergeInv
<1> QED BY <1>6, <1>8, <1>10, <1>11 DEF IInv

(* The engine's stores move a thread from one storing state to the next,   *)
(* or out of them with everything stored.                                  *)
LEMMA EngineStoreInv ==
  ASSUME IInv, NEW h \in Handlers,
         StoreTargets(h) \/ StoreMin(h) \/ StoreMax(h) \/ StoreStep(h)
  PROVE  IInv'
<1>1. /\ UNCHANGED <<daemon, config, limits, wanted, overlapped>>
      /\ handler[h].at \in Storing
      /\ handler'[h].at \in Storing \cup {"idle"}
      /\ \A g \in Handlers : g # h => handler'[g] = handler[g]
      /\ handler'[h].at \in Storing =>
           /\ handler'[h].base = handler[h].base
           /\ handler'[h].update = handler[h].update
  BY DEF IInv, TypeInv, Handler, StoreTargets, StoreMin, StoreMax, StoreStep, Idle,
         Storing, history
<1>2. TypeInv'
  <2>0. handler[h] \in Handler /\ NewConfig(h) = config
    BY <1>1 DEF IInv, TypeInv, LockInv
  <2>1. handler' \in [Handlers -> Handler]
    BY <2>0, DefaultType DEF IInv, TypeInv, StoreTargets, StoreMin, StoreMax, StoreStep,
         Handler, HandlerStates, Storing, Idle
  <2>2. config.minDuty \in Int /\ config.maxDuty \in Int /\ config.step \in Int
    BY DEF IInv, TypeInv, Configurations, Settings, Default
  <2>3. bounds' \in [min : Int, max : Int, step : Int]
    BY <2>0, <2>2 DEF IInv, TypeInv, StoreTargets, StoreMin, StoreMax, StoreStep
  <2> QED BY <1>1, <2>1, <2>3 DEF IInv, TypeInv
<1>3. \A g \in Handlers : handler'[g].at \in Storing => g = h
  BY <1>1 DEF IInv, LockInv
<1>4. LockInv'
  BY <1>1, <1>3 DEF IInv, LockInv, NewConfig
<1>5. StoreInv'
  <2>0. NewConfig(h) = config /\ bounds \in [min : Int, max : Int, step : Int]
        /\ handler \in [Handlers -> Handler]
    BY <1>1 DEF IInv, TypeInv, LockInv
  <2>1. CASE StoreTargets(h)
    <3>1. handler'[h].at = "min" /\ bounds' = bounds
      BY <2>0, <2>1 DEF StoreTargets, Handler
    <3> QED BY <3>1, <1>3, <1>1 DEF StoreInv, EngineFollowsConfig, DaemonLocked, Storing
  <2>2. CASE StoreMin(h)
    <3>1. handler'[h].at = "max" /\ bounds' = [bounds EXCEPT !.min = config.minDuty]
      BY <2>0, <2>2 DEF StoreMin, Handler
    <3> QED BY <3>1, <2>0, <1>3, <1>1 DEF StoreInv, EngineFollowsConfig, DaemonLocked, Storing
  <2>3. CASE StoreMax(h)
    <3>1. handler[h].at = "max" /\ handler'[h].at = "step"
          /\ bounds' = [bounds EXCEPT !.max = config.maxDuty]
      BY <2>0, <2>3 DEF StoreMax, Handler
    <3>2. bounds.min = config.minDuty
      BY <3>1 DEF IInv, StoreInv
    <3> QED BY <3>1, <3>2, <2>0, <1>3, <1>1 DEF StoreInv, EngineFollowsConfig, DaemonLocked, Storing
  <2>4. CASE StoreStep(h)
    <3>1. handler[h].at = "step" /\ handler'[h].at = "idle"
          /\ bounds' = [bounds EXCEPT !.step = config.step]
      BY <2>0, <2>4 DEF StoreStep, Idle, Handler
    <3>2. bounds.min = config.minDuty /\ bounds.max = config.maxDuty
      BY <3>1 DEF IInv, StoreInv
    <3>3. bounds' = Bounds(config)
      BY <3>1, <3>2, <2>0 DEF Bounds
    <3>4. \A g \in Handlers : handler'[g].at \notin Storing
      BY <3>1, <1>3 DEF Storing
    <3> QED BY <3>3, <3>4, <1>1 DEF StoreInv, EngineFollowsConfig, Storing
  <2> QED BY <2>1, <2>2, <2>3, <2>4
<1>6. MergeInv'
  <2>1. \A g \in Handlers : handler'[g].at = "merged" =>
          handler[g].at = "merged" /\ handler'[g] = handler[g]
    BY <1>1 DEF Storing
  <2> QED BY <1>1, <2>1 DEF IInv, MergeInv, ConfigurationValid, NewConfig
<1> QED BY <1>2, <1>4, <1>5, <1>6 DEF IInv

LEMMA Inductive == Spec => []IInv
<1>1. ASSUME IInv, [Next]_vars PROVE IInv'
  <2>1. CASE Start \/ (\E p \in Policies : MoveLimits(p) \/ Control(p)) \/ UNCHANGED vars
    BY <1>1, <2>1, OtherInv
  <2>2. CASE \E h \in Handlers : Store(h)
    BY <1>1, <2>2, StoreInvariant
  <2>3. CASE \E h \in Handlers : StoreTargets(h) \/ StoreMin(h) \/ StoreMax(h) \/ StoreStep(h)
    BY <1>1, <2>3, EngineStoreInv
  <2>4. CASE \E h \in Handlers : \E update \in Updates : MergeUpdate(h, update)
    BY <1>1, <2>4, MergeUpdateInv
  <2> QED BY <1>1, <2>1, <2>2, <2>3, <2>4 DEF Next, Reconfigure
<1> QED BY InitInv, <1>1, PTL DEF Spec

(* RECONFIGURE never leaves a running daemon with a configuration that     *)
(* validate() refuses, however many threads run it (daemon.py:415-429).    *)
THEOREM ConfigurationStaysValid == Spec => []ConfigurationValid
<1>1. IInv => ConfigurationValid
  BY DEF IInv, MergeInv
<1> QED BY Inductive, <1>1, PTL

(* An update is lost only when two were merged at once (daemon.py:417).    *)
THEOREM UpdatesAreKept == Spec => []UpdatesKept
<1>1. IInv => UpdatesKept
  BY DEF IInv, MergeInv, UpdatesKept
<1> QED BY Inductive, <1>1, PTL

(* The engine's limits are the configuration's whenever no RECONFIGURE is  *)
(* being stored (engine.py:896-916).                                       *)
THEOREM EngineHasTheConfiguration == Spec => []EngineFollowsConfig
<1>1. IInv => EngineFollowsConfig
  BY DEF IInv, StoreInv
<1> QED BY Inductive, <1>1, PTL

(* Plan, engine, benchmark and STATUS agree on the target of every policy  *)
(* (sysfs.py:549, engine.py:790, bench.py:287, daemon.py:723).             *)
THEOREM ResolversAlwaysAgree == Spec => []TargetsAgree
<1>1. ASSUME IInv PROVE TargetsAgree
  <2> SUFFICES ASSUME NEW p \in Policies, PlannedTarget(limits[p], config.target) # NoTarget
               PROVE  /\ EngineTarget(limits[p], config.target)
                           = PlannedTarget(limits[p], config.target)
                      /\ BenchTarget(limits[p], config.target)
                           = PlannedTarget(limits[p], config.target)
                      /\ ClampReason(limits[p], config.target,
                                     PlannedTarget(limits[p], config.target)) = "none"
                           <=> PlannedTarget(limits[p], config.target) = config.target
    BY DEF TargetsAgree
  <2>1. limits[p] \in Limits
    BY <1>1, LimitsAssumption DEF IInv, TypeInv
  <2>2. config.target \in Requests
    BY <1>1 DEF IInv, TypeInv, Configurations, Settings, Default
  <2> QED BY <2>1, <2>2, ResolversAgree, ReasonExplains
<1> QED BY Inductive, <1>1, PTL

-----------------------------------------------------------------------------
(* Pulses and waveform: the waveform has limits in the right order, and a  *)
(* policy that was adjusted to the configuration of now pulses within it.  *)
(* It counts while a RECONFIGURE is stored, too: an adjustment by limits   *)
(* of which some are still the old ones leaves no policy ticked.           *)
PulseInv ==
  /\ duty \in [Policies -> Int] /\ pulse \in [Policies -> Int]
  /\ wave \in [min : Int, max : Int]
  /\ daemon = "off" => wave = [min |-> config.minDuty, max |-> config.maxDuty]
  /\ daemon = "running" => wave.min <= wave.max
  /\ ticked \subseteq Policies
  /\ \A p \in ticked : pulse[p] <= config.maxDuty

LEMMA DutyType == ASSUME NEW c \in Configurations PROVE c.minDuty \in Int /\ c.maxDuty \in Int
  BY DEF Configurations, Settings, Requests, Default

LEMMA ScaledBound ==
  ASSUME TypeInv, NEW d \in Int, NEW clamp \in 1..FullClamp, 0 <= bounds.max
  PROVE  Scaled(d, clamp) \in Int /\ Scaled(d, clamp) <= bounds.max
<1>1. (d * clamp) \div FullClamp \in Int
  <2>1. d * clamp \in Int
    OBVIOUS
  <2> QED BY <2>1, ClampAssumption
<1>2. bounds.max \in Int
  BY DEF TypeInv
<1> HIDE DEF Scaled
<1> QED BY <1>1, <1>2 DEF Scaled, Greatest, Least

LEMMA InitPulse == Init => PulseInv
<1> SUFFICES ASSUME Init PROVE PulseInv
  OBVIOUS
<1>1. config.minDuty \in Int /\ config.maxDuty \in Int
  BY ConfigurationAssumption, DutyType DEF Init
<1> QED BY <1>1 DEF Init, PulseInv

LEMMA PulseNext == ASSUME IInv, PulseInv, [Next]_vars PROVE PulseInv'
<1> USE DEF PulseInv
<1>0. config.minDuty \in Int /\ config.maxDuty \in Int /\ bounds \in [min : Int, max : Int, step : Int]
  BY DutyType DEF IInv, TypeInv
<1>1. CASE Start
  BY <1>0, <1>1 DEF Start, engineVars, history, Valid
<1>2. ASSUME NEW p \in Policies, MoveLimits(p) PROVE PulseInv'
  BY <1>2 DEF MoveLimits, engineVars, history
<1>3. ASSUME NEW p \in Policies, Yield(p) PROVE PulseInv'
  <2>1. config.maxDuty >= 0
    BY <1>3 DEF IInv, MergeInv, ConfigurationValid, Valid, Yield
  <2> QED BY <2>1, <1>3, <1>0 DEF Yield
<1>4. ASSUME NEW p \in Policies, NEW average, NEW clamp \in 1..FullClamp, Tick(p, average, clamp)
      PROVE  PulseInv'
  <2> DEFINE low == targets[p] - average > Tolerance
             d == Adjusted(duty[p], low)
  <2>1. d \in Int
    BY <1>0 DEF Adjusted, Least, Greatest
  <2>2. /\ duty' = [duty EXCEPT ![p] = d]
        /\ pulse' = [pulse EXCEPT ![p] = Scaled(duty'[p], clamp)]
        /\ ticked' = IF DaemonLocked THEN ticked \ {p} ELSE ticked \cup {p}
        /\ UNCHANGED <<daemon, config, wave>> /\ daemon = "running"
    BY <1>4 DEF Tick
  <2> HIDE DEF d
  <2>3. pulse' = [pulse EXCEPT ![p] = Scaled(d, clamp)]
    BY <2>2
  <2>4. Scaled(d, clamp) \in Int
    BY <2>1, <1>0, ClampAssumption DEF Scaled, Greatest, Least
  <2>5. ~DaemonLocked => Scaled(d, clamp) <= config.maxDuty
    <3>1. config.maxDuty >= 0
      BY <2>2 DEF IInv, MergeInv, ConfigurationValid, Valid
    <3>2. ~DaemonLocked => bounds.max = config.maxDuty
      BY DEF IInv, StoreInv, EngineFollowsConfig, Bounds
    <3> QED BY <3>1, <3>2, <2>1, ScaledBound DEF IInv
  <2> HIDE DEF Scaled
  <2> QED BY <2>1, <2>2, <2>3, <2>4, <2>5, <1>0
<1>5. ASSUME NEW h \in Handlers, NEW update \in Updates, MergeUpdate(h, update) PROVE PulseInv'
  BY <1>5 DEF MergeUpdate, engineVars, history
<1>6. ASSUME NEW h \in Handlers, Store(h) PROVE PulseInv'
  <2>1. daemon = "running"
    BY <1>6 DEF IInv, MergeInv, Store
  <2> QED BY <2>1, <1>6 DEF Store, engineVars
<1>7. ASSUME NEW h \in Handlers, StoreTargets(h) PROVE PulseInv'
  BY <1>7 DEF StoreTargets, history
<1>8. ASSUME NEW h \in Handlers, StoreMin(h) \/ StoreMax(h) \/ StoreStep(h) PROVE PulseInv'
  BY <1>8 DEF StoreMin, StoreMax, StoreStep, history
<1>9. CASE UNCHANGED vars
  BY <1>9 DEF vars, engineVars, history
<1> QED BY <1>1, <1>2, <1>3, <1>4, <1>5, <1>6, <1>7, <1>8, <1>9 DEF Next, Control, Reconfigure

(* What a waveform makes of a base stays within the limits it was made     *)
(* with, and the square one adds nothing to the base.                      *)
LEMMA ExecutedBound ==
  ASSUME PulseInv, daemon = "running", NEW waveform \in Waveforms,
         NEW base \in Int, NEW top \in Nat, base <= top,
         NEW d \in Executed(waveform, base)
  PROVE  \/ d <= Greatest(top, wave.min)
         \/ waveform # "square" /\ d <= wave.max
<1>1. wave.min \in Int /\ wave.max \in Int /\ wave.min <= wave.max
  BY DEF PulseInv
<1>2. CASE base = 0
  BY <1>1, <1>2 DEF Executed, Greatest
<1>3. CASE base # 0
  <2>1. PICK x \in Shape(waveform, base) : d = Clamp(x, wave.min, wave.max)
    BY <1>3 DEF Executed
  <2>2. waveform = "square" => x = base
    BY <2>1 DEF Shape
  <2>3. x \in Int
    BY <2>1, <1>1 DEF Shape, Waveforms, Greatest
  <2>4. d <= wave.max
    BY <2>1, <2>3, <1>1 DEF Clamp
  <2>5. x = base => d <= Greatest(top, wave.min)
    BY <2>1, <1>1 DEF Clamp, Greatest
  <2> QED BY <2>2, <2>4, <2>5
<1> QED BY <1>2, <1>3

(* A policy adjusted since the last RECONFIGURE pulses no longer than the  *)
(* configuration allows, up to the limits the waveform was made with       *)
(* (engine.py:341-382, 117-143).                                           *)
THEOREM PulsesStayWithin == Spec => []PulseWithinMaximum
<1>1. ASSUME IInv, PulseInv PROVE PulseWithinMaximum
  <2> SUFFICES ASSUME NEW p \in ticked, daemon = "running"
               PROVE  /\ pulse[p] <= config.maxDuty
                      /\ \A waveform \in Waveforms : \A d \in Executed(waveform, pulse[p]) :
                           \/ d <= Greatest(config.maxDuty, wave.min)
                           \/ waveform # "square" /\ d <= wave.max
    BY DEF PulseWithinMaximum
  <2>1. pulse[p] \in Int /\ pulse[p] <= config.maxDuty
    BY <1>1 DEF PulseInv
  <2>2. config.maxDuty \in Nat
    BY <1>1, DutyType DEF IInv, TypeInv, MergeInv, ConfigurationValid, Valid
  <2> QED BY <2>1, <2>2, <1>1, ExecutedBound
<1>2. IInv /\ PulseInv /\ [Next]_vars => PulseInv'
  BY PulseNext
<1> QED BY InitPulse, Inductive, <1>1, <1>2, PTL DEF Spec
=============================================================================
