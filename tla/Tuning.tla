-------------------------------- MODULE Tuning --------------------------------
(***************************************************************************)
(* How a daemon is tuned while it runs: RECONFIGURE requests merge into    *)
(* the configuration (daemon.py:415-429) and reach the engine              *)
(* (engine.py:896-916) store by store, while the controller thread adjusts *)
(* the duty of every policy (engine.py:195-392, 918-995) and the workers  *)
(* pulse with what the waveform makes of it (engine.py:117-143, 506-567).  *)
(***************************************************************************)
EXTENDS Configuration, FiniteSets

CONSTANTS
  Handlers,     \* threads that serve RECONFIGURE
  Updates,      \* what they are asked to change
  Starts,       \* configurations a daemon is started with
  Policies,
  LimitSets,    \* limits a policy may have
  Samples,      \* frequencies a worker may read
  Tolerance,    \* 20000 kHz
  FullClamp     \* 1.0, in the unit the thermal clamp is counted in

ASSUME ConfigurationAssumption ==
  /\ Starts \subseteq Configurations
  /\ \A u \in Updates : \A k \in DOMAIN u : u[k] \in Settings(k)
ASSUME LimitsAssumption == LimitSets \subseteq Limits
ASSUME ClampAssumption == FullClamp \in Nat \ {0} /\ Tolerance \in Nat
(* Duties are whole percents here, and the decay is half a step.           *)
ASSUME StepAssumption ==
  /\ \A c \in Starts : c.step % 2 = 0
  /\ \A u \in Updates : "step" \in DOMAIN u => u.step % 2 = 0

VARIABLES
  daemon,       \* "off", "running", or "refused" by validate()
  config,       \* daemon.config
  limits,       \* per policy: what cpufreq shows
  targets,      \* engine._policy_targets and the controller's copy
  own,          \* the policies the engine has by name, the others are CPUs
  duty,         \* per policy: current_duty_pct
  bounds,       \* min_duty_pct, max_duty_pct, duty_step_pct of the controller
  wave,         \* min_duty_pct, max_duty_pct of the waveform generator
  pulse,        \* per policy: the duty of its workers
  handler,      \* per thread: where its RECONFIGURE is, its base and update
  wanted,       \* history: the accepted updates, one after the other
  overlapped,   \* history: one was stored while another had been merged
  ticked,       \* history: policies adjusted since the last one was stored
  last          \* history: per policy, what its last sample asked for

engineVars == <<targets, own, duty, bounds, pulse>>
history == <<wanted, overlapped, ticked, last>>
vars == <<daemon, config, limits, engineVars, wave, handler, history>>

Idle == [at |-> "idle", base |-> Default, update |-> <<>>]
Storing == {"targets", "min", "max", "step"}
DaemonLocked == \E h \in Handlers : handler[h].at \in Storing
Bounds(c) == [min |-> c.minDuty, max |-> c.maxDuty, step |-> c.step]
Owners(request) == {p \in Policies : EngineTarget(limits[p], request) # NoTarget}
Resolve(request) == [p \in Policies |-> WorkerTarget(limits[p], request)]
Least(x, y) == IF x < y THEN x ELSE y
Greatest(x, y) == IF x > y THEN x ELSE y

Init ==
  /\ daemon = "off"
  /\ config \in Starts
  /\ limits \in [Policies -> LimitSets]
  /\ targets = Resolve(config.target)
  /\ own = Owners(config.target)
  /\ duty = [p \in Policies |-> config.minDuty]
  /\ bounds = Bounds(config)
  /\ wave = [min |-> config.minDuty, max |-> config.maxDuty]
  /\ pulse = [p \in Policies |-> config.minDuty]
  /\ handler = [h \in Handlers |-> Idle]
  /\ wanted = config
  /\ overlapped = FALSE
  /\ ticked = {}
  /\ last = [p \in Policies |-> "none"]

(* BoostLockDaemon.__init__ validates what cmd_start built (daemon.py:201). *)
Start ==
  /\ daemon = "off"
  /\ daemon' = IF Valid(config) THEN "running" ELSE "refused"
  /\ UNCHANGED <<config, limits, engineVars, wave, handler, history>>

(* Other programs, and the daemon's own transaction, move the limits.      *)
MoveLimits(p) ==
  /\ daemon = "running"
  /\ \E l \in LimitSets \ {limits[p]} : limits' = [limits EXCEPT ![p] = l]
  /\ UNCHANGED <<daemon, config, engineVars, wave, handler, history>>

-----------------------------------------------------------------------------
(* Faulty variant: the configuration in use is validated, not the new one. *)
MergeUpdateUnchecked(h, update) ==
  /\ daemon = "running"
  /\ handler[h] = Idle
  /\ Valid(config)
  /\ handler' = [handler EXCEPT ![h] = [at |-> "merged", base |-> config, update |-> update]]
  /\ UNCHANGED <<daemon, config, limits, engineVars, wave, history>>

(* Faulty variant: the update is merged into the defaults.                 *)
MergeUpdateIntoDefaults(h, update) ==
  /\ daemon = "running"
  /\ handler[h] = Idle
  /\ Valid(Merge(Default, update))
  /\ handler' = [handler EXCEPT ![h] = [at |-> "merged", base |-> Default, update |-> update]]
  /\ UNCHANGED <<daemon, config, limits, engineVars, wave, history>>

(* reconfigure(), daemon.py:415-420: the configuration is read, merged and *)
(* validated without the daemon's lock ...                                 *)
MergeUpdate(h, update) ==
  /\ daemon = "running"
  /\ handler[h] = Idle
  /\ Valid(Merge(config, update))
  /\ handler' = [handler EXCEPT ![h] = [at |-> "merged", base |-> config, update |-> update]]
  /\ UNCHANGED <<daemon, config, limits, engineVars, wave, history>>

(* Faulty variant: the stores do not wait for each other.                  *)
StoreUnlocked(h) ==
  /\ handler[h].at = "merged"
  /\ config' = Merge(handler[h].base, handler[h].update)
  /\ handler' = [handler EXCEPT ![h].at = "targets"]
  /\ wanted' = Merge(wanted, handler[h].update)
  /\ overlapped' = (overlapped \/ \E g \in Handlers \ {h} : handler[g].at = "merged")
  /\ ticked' = {}
  /\ UNCHANGED <<daemon, limits, engineVars, wave, last>>

(* ... and stored with it, with the targets the limits of now give.        *)
Store(h) ==
  /\ handler[h].at = "merged"
  /\ ~DaemonLocked
  /\ config' = Merge(handler[h].base, handler[h].update)
  /\ handler' = [handler EXCEPT ![h].at = "targets"]
  /\ wanted' = Merge(wanted, handler[h].update)
  /\ overlapped' = (overlapped \/ \E g \in Handlers \ {h} : handler[g].at = "merged")
  /\ ticked' = {}
  /\ UNCHANGED <<daemon, limits, engineVars, wave, last>>

NewConfig(h) == Merge(handler[h].base, handler[h].update)

(* PulseEngine.reconfigure: set_policy_targets() under the controller's    *)
(* lock, then three plain stores.  A policy that gains or loses its target *)
(* changes its name (the policy's, or its CPU's), so its duty starts       *)
(* again.  The waveform generator keeps the limits it was made with.       *)
StoreTargets(h) ==
  /\ handler[h].at = "targets"
  /\ targets' = Resolve(NewConfig(h).target)
  /\ own' = Owners(NewConfig(h).target)
  /\ duty' = [p \in Policies |-> IF p \in own <=> p \in own' THEN duty[p] ELSE wave.min]
  /\ handler' = [handler EXCEPT ![h].at = "min"]
  /\ UNCHANGED <<daemon, config, limits, bounds, pulse, wave, history>>

StoreMin(h) ==
  /\ handler[h].at = "min"
  /\ bounds' = [bounds EXCEPT !.min = NewConfig(h).minDuty]
  /\ handler' = [handler EXCEPT ![h].at = "max"]
  /\ UNCHANGED <<daemon, config, limits, targets, own, duty, pulse, wave, history>>

StoreMax(h) ==
  /\ handler[h].at = "max"
  /\ bounds' = [bounds EXCEPT !.max = NewConfig(h).maxDuty]
  /\ handler' = [handler EXCEPT ![h].at = "step"]
  /\ UNCHANGED <<daemon, config, limits, targets, own, duty, pulse, wave, history>>

StoreStep(h) ==
  /\ handler[h].at = "step"
  /\ bounds' = [bounds EXCEPT !.step = NewConfig(h).step]
  /\ handler' = [handler EXCEPT ![h] = Idle]
  /\ UNCHANGED <<daemon, config, limits, targets, own, duty, pulse, wave, history>>

Reconfigure(h) ==
  Store(h) \/ StoreTargets(h) \/ StoreMin(h) \/ StoreMax(h) \/ StoreStep(h)

-----------------------------------------------------------------------------
(* Faulty variant: a step that would pass the maximum is not taken.        *)
AdjustedShort(d, low) ==
  IF low THEN IF d + bounds.step <= bounds.max THEN d + bounds.step ELSE d
         ELSE Greatest(bounds.min, d - bounds.step \div 2)
(* Faulty variant: the result is not limited once more.                    *)
ScaledUnlimited(d, clamp) == (d * clamp) \div FullClamp

(* _update_locked, engine.py:341-382.                                      *)
Adjusted(d, low) ==
  IF low THEN Least(bounds.max, d + bounds.step)
         ELSE Greatest(bounds.min, d - bounds.step \div 2)

Scaled(d, clamp) == Greatest(0, Least(bounds.max, (d * clamp) \div FullClamp))

(* One pass of the controller over policy p.  The machine is busy (25% of  *)
(* load and more), or the guard clamps to zero: the duty waits and the     *)
(* workers rest.  No sample at all counts as a sample on target.           *)
Yield(p) ==
  /\ daemon = "running"
  /\ pulse' = [pulse EXCEPT ![p] = 0]
  /\ ticked' = ticked \cup {p}
  /\ last' = [last EXCEPT ![p] = "yield"]
  /\ UNCHANGED <<daemon, config, limits, targets, own, duty, bounds, wave, handler,
                 wanted, overlapped>>

Tick(p, average, clamp) ==
  LET low == targets[p] - average > Tolerance
  IN  /\ daemon = "running"
      /\ duty' = [duty EXCEPT ![p] = Adjusted(@, low)]
      /\ pulse' = [pulse EXCEPT ![p] = Scaled(duty'[p], clamp)]
      /\ ticked' = IF DaemonLocked THEN ticked \ {p} ELSE ticked \cup {p}
      /\ last' = [last EXCEPT ![p] = IF low THEN "low" ELSE "reached"]
      /\ UNCHANGED <<daemon, config, limits, targets, own, bounds, wave, handler,
                     wanted, overlapped>>

Control(p) ==
  \/ Yield(p)
  \/ \E average \in Samples \cup {targets[p]} : \E clamp \in 1..FullClamp : Tick(p, average, clamp)

Next ==
  \/ Start
  \/ \E p \in Policies : MoveLimits(p) \/ Control(p)
  \/ \E h \in Handlers : Reconfigure(h) \/ \E update \in Updates : MergeUpdate(h, update)

Spec == Init /\ [][Next]_vars

(* The controller polls for as long as the engine runs.                    *)
FairSpec ==
  /\ Spec
  /\ \A p \in Policies : WF_vars(Control(p))
  /\ \A h \in Handlers : WF_vars(Reconfigure(h))

-----------------------------------------------------------------------------
(* What a worker executes: nothing, or what its waveform makes of the duty *)
(* (compute_duty; "stochastic" is "jittered").  The daemon's engine has    *)
(* the square one.                                                         *)
Waveforms == {"square", "triangular", "jittered", "sine"}
Shape(waveform, base) ==
  CASE waveform = "square" -> {base}
    [] waveform = "triangular" -> base..Greatest(base, wave.max)
    [] waveform = "jittered" -> (base - 2)..(base + 2)
    [] waveform = "sine" -> wave.min..wave.max

Executed(waveform, base) ==
  IF base = 0 THEN {0} ELSE {Clamp(d, wave.min, wave.max) : d \in Shape(waveform, base)}

TypeOK ==
  /\ daemon \in {"off", "running", "refused"}
  /\ limits \in [Policies -> LimitSets]
  /\ targets \in [Policies -> Nat \ {0}] /\ own \subseteq Policies
  /\ duty \in [Policies -> 0..100] /\ pulse \in [Policies -> 0..100]
  /\ bounds \in [min : 0..100, max : 0..100, step : 1..50]
  /\ wave \in [min : 0..100, max : 0..100]
  /\ \A h \in Handlers : handler[h].at \in {"idle", "merged"} \cup Storing
  /\ overlapped \in BOOLEAN
  /\ ticked \subseteq Policies
  /\ last \in [Policies -> {"none", "low", "reached", "yield"}]

(* Whatever RECONFIGUREs run at once, a running daemon has a configuration *)
(* that validate() accepts.                                                *)
ConfigurationValid == daemon = "running" => Valid(config)

(* An accepted update lasts until another one changes the same value,      *)
(* unless two were merged into the same configuration: then one is lost    *)
(* (daemon.py:417 reads what daemon.py:423 may have replaced).             *)
UpdatesKept == daemon = "running" /\ ~overlapped => config = wanted

(* When no RECONFIGURE is being stored the engine works with the limits of *)
(* the daemon's configuration, even after an update was lost.              *)
EngineFollowsConfig == ~DaemonLocked => bounds = Bounds(config)

(* Once the controller has seen the configuration of now, no worker is     *)
(* told to pulse longer than it allows, and none does.  There are two      *)
(* exceptions, both because reconfigure() leaves the waveform alone        *)
(* (engine.py:896-916): a duty is never below the minimum the engine was   *)
(* made with, and another waveform than the square one still goes up to    *)
(* the maximum it was made with.                                           *)
PulseWithinMaximum ==
  \A p \in ticked : daemon = "running" /\ ~DaemonLocked =>
    /\ pulse[p] <= config.maxDuty
    /\ \A waveform \in Waveforms : \A d \in Executed(waveform, pulse[p]) :
         \/ d <= Greatest(config.maxDuty, wave.min)
         \/ waveform # "square" /\ d <= wave.max

(* The plan, the engine and the benchmark agree on every target the plan   *)
(* has, and STATUS gives a reason exactly when it is not the request.      *)
TargetsAgree ==
  \A p \in Policies :
    LET planned == PlannedTarget(limits[p], config.target)
        reason == ClampReason(limits[p], config.target, planned)
    IN  planned # NoTarget =>
          /\ EngineTarget(limits[p], config.target) = planned
          /\ BenchTarget(limits[p], config.target) = planned
          /\ reason = "none" <=> planned = config.target

(* Left alone with a frequency that is too low, a policy comes to the      *)
(* largest duty; with one that is reached, to the smallest.                *)
Undisturbed == \A h \in Handlers : handler[h] = Idle
DutySettles ==
  \A p \in Policies :
    /\ <>[](last[p] = "low" /\ Undisturbed) => <>[](duty[p] = bounds.max)
    /\ <>[](last[p] = "reached" /\ Undisturbed) => <>[](duty[p] = bounds.min)
=============================================================================
