---------------------------- MODULE Configuration ----------------------------
(***************************************************************************)
(* BoostLockConfig (src/boostlock/config.py), the way `boostlock start`    *)
(* fills it in (cli.py:108-130), and the merge of RECONFIGURE              *)
(* (daemon.py:415-420).  Duties are in percent, temperatures in degrees,   *)
(* frequencies in kHz, all whole numbers.                                  *)
(***************************************************************************)
EXTENDS PolicyTargets

Default ==
  [target |-> 4000000, minDuty |-> 5, maxDuty |-> 50, step |-> 2,
   limit |-> 100, warn |-> 90, recover |-> 85, poll |-> 100, latency |-> 0]
Settings(key) == IF key = "target" THEN Requests ELSE Int
Configurations ==
  {c \in [DOMAIN Default -> Requests] : \A k \in DOMAIN Default : c[k] \in Settings(k)}

(* validate(), config.py:56-115.                                           *)
Valid(c) ==
  /\ c.target # Automatic => c.target > 0 /\ c.target <= 10000000
  /\ c.limit \in 50..115
  /\ c.warn >= 30 /\ c.warn < c.limit
  /\ c.recover >= 20 /\ c.recover < c.warn
  /\ c.minDuty \in 0..100 /\ c.maxDuty \in 0..100
  /\ c.minDuty <= c.maxDuty
  /\ c.step \in 1..50
  /\ c.poll >= 10 /\ c.latency >= 0

(* to_dict(), update(), from_dict(): unknown keys are ignored.             *)
Merge(c, update) == [k \in DOMAIN c |-> IF k \in DOMAIN update THEN update[k] ELSE c[k]]

(* cmd_start, cli.py:108-130.  An option that is absent is Absent; --duty 0 *)
(* and --max-temp 0 are taken for absent.                                  *)
Absent == -1
Given(v) == v \notin {Absent, 0}
FromArguments(a) ==
  [Default EXCEPT
     !.target = IF Given(a.target) THEN 1000 * a.target ELSE Automatic,
     !.minDuty = IF Given(a.duty) THEN a.duty ELSE @,
     !.maxDuty = IF Given(a.duty) /\ a.duty > @ THEN a.duty ELSE @,
     !.limit = IF Given(a.maxTemp) THEN a.maxTemp ELSE @]
=============================================================================
