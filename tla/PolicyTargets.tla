---------------------------- MODULE PolicyTargets ----------------------------
(***************************************************************************)
(* The frequency a policy is asked for.  The program resolves a request    *)
(* against the limits of a policy in four places: the plan of the daemon   *)
(* (sysfs.py:549-569), the engine (engine.py:790-814), the benchmark       *)
(* (bench.py:287-312) and the explanation in STATUS (daemon.py:723-754).   *)
(* Each is translated from its own code.                                   *)
(***************************************************************************)
EXTENDS Integers

CONSTANT Automatic  \* the request "auto"

ASSUME AutomaticAssumption == Automatic \notin Int

Requests == Int \cup {Automatic}

(* A limit that cannot be read is 0, and so is the target of a policy that *)
(* gets none.                                                              *)
Unreadable == 0
NoTarget == 0

Limits == [hwMin : Nat, hwMax : Nat, min : Nat, max : Nat]

(* max(lower_bounds) and min(upper_bounds), over the limits that are known.*)
LowerBound(l) == IF l.hwMin > l.min THEN l.hwMin ELSE l.min
UpperBound(l) ==
  IF l.hwMax = Unreadable \/ (l.max # Unreadable /\ l.max < l.hwMax) THEN l.max ELSE l.hwMax
Readable(l) == LowerBound(l) # Unreadable /\ UpperBound(l) # Unreadable
Compatible(l) == LowerBound(l) <= UpperBound(l)

(* min(max(v, low), high)                                                  *)
Clamp(v, low, high) ==
  LET raised == IF v < low THEN low ELSE v
  IN  IF raised > high THEN high ELSE raised

(* SysfsController._effective_policy_target                                *)
PlannedTarget(l, request) ==
  IF ~Readable(l) \/ ~Compatible(l) THEN NoTarget
  ELSE Clamp(IF request = Automatic THEN UpperBound(l) ELSE request, LowerBound(l), UpperBound(l))

(* Faulty variant: the engine looks at the hardware limits alone.          *)
EngineTargetHardware(l, request) ==
  IF ~Readable(l) THEN IF request = Automatic THEN NoTarget ELSE request
  ELSE IF ~Compatible(l) THEN NoTarget
  ELSE Clamp(IF request = Automatic THEN l.hwMax ELSE request, l.hwMin, l.hwMax)

(* PulseEngine._effective_target_for_policy: without limits it takes the   *)
(* frequency that was asked for, if one was.                               *)
EngineTarget(l, request) ==
  IF ~Readable(l) THEN IF request = Automatic THEN NoTarget ELSE request
  ELSE IF ~Compatible(l) THEN NoTarget
  ELSE Clamp(IF request = Automatic THEN UpperBound(l) ELSE request, LowerBound(l), UpperBound(l))

(* _configured_target_khz, engine.py:783-788: the target of the CPUs of a  *)
(* policy that has none (engine.py:736-781).                               *)
Configured(request) == IF request = Automatic THEN 4000000 ELSE request
WorkerTarget(l, request) ==
  IF EngineTarget(l, request) = NoTarget THEN Configured(request) ELSE EngineTarget(l, request)

(* BenchmarkRunner._effective_policy_target                                *)
BenchTarget(l, request) ==
  IF ~Readable(l) \/ ~Compatible(l) THEN NoTarget
  ELSE IF request = Automatic THEN UpperBound(l)
  ELSE IF request < LowerBound(l) THEN LowerBound(l)
  ELSE IF request > UpperBound(l) THEN UpperBound(l)
  ELSE request

(* BoostLockDaemon._policy_clamp_reason                                    *)
ClampReason(l, request, effective) ==
  IF effective = NoTarget THEN "unavailable"
  ELSE IF request = Automatic THEN "automatic"
  ELSE IF ~Readable(l) THEN "unavailable"
  ELSE IF request < LowerBound(l) THEN "raised"
  ELSE IF request > UpperBound(l) THEN "clamped"
  ELSE "none"
=============================================================================
