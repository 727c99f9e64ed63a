---------------------------- MODULE ThermalGuard ----------------------------
(***************************************************************************)
(* The thermal guard (src/boostlock/thermal.py): sensor, SpikeFilter,      *)
(* hysteresis latch and clamp, with the daemon's side of it: the callbacks *)
(* (daemon.py:879-911) and RECONFIGURE, which stores the three thresholds  *)
(* one by one without the guard's lock (daemon.py:422-427).                *)
(*                                                                         *)
(* A filtered temperature is kept as twice its value: the median of an     *)
(* even number of samples is the mean of two.                              *)
(***************************************************************************)
EXTENDS Integers, Sequences, FiniteSets

CONSTANTS
  Dies,           \* temperatures the processor may have
  SensorRange,    \* what ThermalSensor.read_temp_c accepts, -40..150
  FilterRange,    \* what SpikeFilter.add_sample accepts, -20..130
  Baseline,       \* 50.0, reported when no sensor is readable
  Window,         \* SpikeFilter.window_size
  Configs,        \* valid threshold triples
  FullClamp       \* 1.0, in the unit the clamp is counted in

Thresholds == [warn : Nat, limit : Nat, recover : Nat]

(* BoostLockConfig.validate(), config.py:76-89                             *)
Valid(c) == c.recover < c.warn /\ c.warn < c.limit

ASSUME DieAssumption == Dies \subseteq Int /\ FilterRange \subseteq SensorRange
                        /\ SensorRange \subseteq Int /\ Baseline \in Int
ASSUME WindowAssumption == Window \in Nat \ {0} /\ FullClamp \in Nat \ {0}
(* The window is 5 (thermal.py:391).                                       *)
ASSUME OddAssumption == Window % 2 = 1
ASSUME ConfigAssumption == /\ Configs \subseteq Thresholds
                           /\ \A c \in Configs : Valid(c)

VARIABLES
  die,          \* temperature of the processor
  readable,     \* whether the last poll could read a sensor
  history,      \* SpikeFilter.history
  temp,         \* twice _current_temp_c
  thermal,      \* _state
  tripped,      \* _is_tripped
  clamp,        \* _clamp_factor, 0..FullClamp
  thr,          \* thermal_warn_c, thermal_limit_c, thermal_recover_c
  config,       \* the configuration RECONFIGURE is storing
  storing,      \* the threshold it stores next, or "none"
  daemon,       \* daemon._state
  engine        \* pulse_engine._state

guardVars == <<die, readable, history, temp, thermal, tripped, clamp>>
daemonVars == <<thr, config, storing>>
vars == <<guardVars, daemonVars, daemon, engine>>

-----------------------------------------------------------------------------
(* The k-th smallest element of a non-empty sequence.                      *)
OrderStatistic(h, k) ==
  LET below(v) == Cardinality({i \in DOMAIN h : h[i] < v})
      upTo(v) == Cardinality({i \in DOMAIN h : h[i] <= v})
  IN  CHOOSE v \in {h[i] : i \in DOMAIN h} : below(v) < k /\ k <= upTo(v)
(* Faulty variant: the filter passes the largest sample on.                *)
TwiceLargest(h) == 2 * OrderStatistic(h, Len(h))

TwiceMedian(h) ==
  OrderStatistic(h, (Len(h) + 1) \div 2) + OrderStatistic(h, Len(h) \div 2 + 1)
(* Faulty variant: a full window drops the sample that just arrived.       *)
KeepOldest(h) == IF Len(h) > Window THEN SubSeq(h, 1, Window) ELSE h

Keep(h) == IF Len(h) > Window THEN Tail(h) ELSE h

Nearest(x) == IF \A y \in FilterRange : x < y
              THEN CHOOSE y \in FilterRange : \A z \in FilterRange : y <= z
              ELSE CHOOSE y \in FilterRange : \A z \in FilterRange : y >= z

(* SpikeFilter.add_sample, thermal.py:103-115: the new history and twice   *)
(* the value returned.                                                     *)
AddSample(h, x) ==
  IF x \in FilterRange
  THEN LET kept == Keep(Append(h, x)) IN [history |-> kept, twice |-> TwiceMedian(kept)]
  ELSE [history |-> h,
        twice |-> 2 * (IF h # <<>> THEN h[Len(h)] ELSE Nearest(x))]

(* get_cpu_temperature, thermal.py:436-455                                 *)
Poll(x, ok) ==
  IF ok /\ x \in SensorRange THEN AddSample(history, x)
  ELSE [history |-> history, twice |-> 2 * Baseline]

(* The daemon's callbacks take one argument (daemon.py:879-911); the guard *)
(* calls them with none (thermal.py:493, 505), logs the TypeError and goes *)
(* on.                                                                     *)
TripwireArguments == 0
RecoveryArguments == 0

OnTripwire ==
  IF TripwireArguments = 1
  THEN /\ daemon' = "THROTTLED"
       /\ engine' = IF engine = "RUNNING" THEN "PAUSED" ELSE engine
  ELSE UNCHANGED <<daemon, engine>>

OnRecovery ==
  IF RecoveryArguments = 1 /\ daemon = "THROTTLED"
  THEN /\ daemon' = "RUNNING"
       /\ engine' = IF engine = "PAUSED" THEN "RUNNING" ELSE engine
  ELSE UNCHANGED <<daemon, engine>>

-----------------------------------------------------------------------------
Init ==
  /\ die \in Dies
  /\ readable = TRUE
  /\ history = <<>>
  /\ temp = 0
  /\ thermal = "NORMAL"
  /\ tripped = FALSE
  /\ clamp = FullClamp
  /\ config \in Configs
  /\ thr = config
  /\ storing = "none"
  /\ daemon = "RUNNING"
  /\ engine = "RUNNING"

(* update_state, thermal.py:466-544, of the temperature t (doubled).  The  *)
(* stores of RECONFIGURE fall between two updates, not inside one.  Where  *)
(* warn <= t < limit, the code's max and min leave the clamp as it is; it  *)
(* is rounded down here.                                                   *)
Critical(t) ==
  /\ t >= 2 * thr.limit
  /\ thermal' = "CRITICAL"
  /\ tripped' = TRUE
  /\ clamp' = 0
  /\ IF tripped THEN UNCHANGED <<daemon, engine>> ELSE OnTripwire
(* Faulty variant: the latch opens below the warning threshold.            *)
RecoveredAtWarning(t) ==
  /\ t < 2 * thr.limit
  /\ tripped
  /\ t <= 2 * thr.warn
  /\ thermal' = "NORMAL"
  /\ tripped' = FALSE
  /\ clamp' = FullClamp
  /\ OnRecovery

Recovered(t) ==
  /\ t < 2 * thr.limit
  /\ tripped
  /\ t <= 2 * thr.recover
  /\ thermal' = "NORMAL"
  /\ tripped' = FALSE
  /\ clamp' = FullClamp
  /\ OnRecovery

Latched(t) ==
  /\ t < 2 * thr.limit
  /\ tripped
  /\ t > 2 * thr.recover
  /\ thermal' = "THROTTLED"
  /\ clamp' = 0
  /\ UNCHANGED <<tripped, daemon, engine>>

(* Faulty variant: the warning zone is looked at before the latch.         *)
WarnedWhileTripped(t) ==
  /\ t < 2 * thr.limit
  /\ t >= 2 * thr.warn
  /\ thermal' = "WARNING"
  /\ clamp' = (FullClamp * (2 * thr.limit - t)) \div (2 * (thr.limit - thr.warn))
  /\ UNCHANGED <<tripped, daemon, engine>>

Warned(t) ==
  /\ t < 2 * thr.limit
  /\ ~tripped
  /\ t >= 2 * thr.warn
  /\ thermal' = "WARNING"
  /\ clamp' = (FullClamp * (2 * thr.limit - t)) \div (2 * (thr.limit - thr.warn))
  /\ UNCHANGED <<tripped, daemon, engine>>

Cool(t) ==
  /\ t < 2 * thr.limit
  /\ ~tripped
  /\ t < 2 * thr.warn
  /\ thermal' = "NORMAL"
  /\ clamp' = FullClamp
  /\ UNCHANGED <<tripped, daemon, engine>>

(* One turn of the monitor thread: the processor has some temperature, and *)
(* its sensors can be read or not.                                         *)
Update ==
  /\ die' \in Dies
  /\ readable' \in BOOLEAN
  /\ LET polled == Poll(die', readable')
     IN  /\ history' = polled.history
         /\ temp' = polled.twice
         /\ \/ Critical(polled.twice)
            \/ Recovered(polled.twice)
            \/ Latched(polled.twice)
            \/ Warned(polled.twice)
            \/ Cool(polled.twice)
  /\ UNCHANGED daemonVars

(* RECONFIGURE: warn, then limit, then recover, each on its own.           *)
BeginReconfigure ==
  /\ storing = "none"
  /\ config' \in Configs
  /\ thr' = [thr EXCEPT !.warn = config'.warn]
  /\ storing' = "limit"
  /\ UNCHANGED <<guardVars, daemon, engine>>

StoreLimit ==
  /\ storing = "limit"
  /\ thr' = [thr EXCEPT !.limit = config.limit]
  /\ storing' = "recover"
  /\ UNCHANGED <<guardVars, config, daemon, engine>>

StoreRecover ==
  /\ storing = "recover"
  /\ thr' = [thr EXCEPT !.recover = config.recover]
  /\ storing' = "none"
  /\ UNCHANGED <<guardVars, config, daemon, engine>>

Next == Update \/ BeginReconfigure \/ StoreLimit \/ StoreRecover

Spec == Init /\ [][Next]_vars

(* The monitor polls for ever and RECONFIGURE runs to its end.             *)
FairSpec == Spec /\ WF_vars(Update) /\ WF_vars(StoreLimit \/ StoreRecover)

-----------------------------------------------------------------------------
TypeOK ==
  /\ die \in Dies
  /\ readable \in BOOLEAN
  /\ history \in Seq(FilterRange)
  /\ temp \in Int
  /\ thermal \in {"NORMAL", "WARNING", "THROTTLED", "CRITICAL"}
  /\ tripped \in BOOLEAN
  /\ clamp \in 0..FullClamp
  /\ thr \in Thresholds
  /\ config \in Configs
  /\ storing \in {"none", "limit", "recover"}
  /\ daemon \in {"RUNNING", "PAUSED", "THROTTLED"}
  /\ engine \in {"RUNNING", "PAUSED", "STOPPED"}

(* thermal.py:36-41: a tripped guard suspends the boost, and it is tripped *)
(* exactly in the two states that say so, whatever thresholds RECONFIGURE  *)
(* has stored so far.                                                      *)
TripSuspends ==
  /\ tripped => clamp = 0
  /\ tripped <=> thermal \in {"CRITICAL", "THROTTLED"}

InRange == readable' /\ die' \in FilterRange

(* The last reading was the filter's median, and the guard has compared it *)
(* with the recovery threshold in force: it is neither a substitute for a  *)
(* bad sample nor older than a RECONFIGURE that overtook it.               *)
Filtered ==
  history # <<>> /\ temp = TwiceMedian(history) /\ temp > 2 * thr.recover

(* thermal.py:498: the guard looks at a median of old samples only, and    *)
(* still, between two filtered readings, the latch opens only when the     *)
(* processor itself has cooled to the recovery threshold.  Without the two *)
(* provisos the code breaks it: a rejected sample returns the last raw     *)
(* sample, not the median, and a new recovery threshold can lie above the  *)
(* old median.                                                             *)
OpensOnlyWhenCool ==
  [][tripped /\ ~tripped' /\ InRange /\ Filtered => die' <= thr.recover]_vars

(* thermal.py:88: with such a sensor a full window trips only when most of *)
(* its samples reach the limit.                                            *)
SpikeDoesNotTrip ==
  [][~tripped /\ tripped' /\ InRange /\ Len(history') = Window =>
       2 * Cardinality({i \in 1..Window : history'[i] >= thr.limit}) > Window]_vars

(* A processor that stays at or above every limit that may be in force is  *)
(* eventually left without boost, and stays so.                            *)
TooHot == readable /\ die \in FilterRange /\ \A c \in Configs : die >= c.limit
HeatSuspends == <>[]TooHot => <>[](clamp = 0)

(* daemon.py:887-897: the daemon reports a tripped guard as THROTTLED and  *)
(* pauses the engine.                                                      *)
TripThrottlesDaemon == tripped => daemon = "THROTTLED" /\ engine # "RUNNING"
=============================================================================
