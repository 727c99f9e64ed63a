--------------------------- MODULE MCThermalGuard ---------------------------
(* TLC instance: two configurations far apart, so that a half-stored one    *)
(* has its recovery threshold above its limit; temperatures on, between and *)
(* outside all thresholds, in degrees / 10.                                 *)
EXTENDS ThermalGuard

High == [warn |-> 9, limit |-> 10, recover |-> 8]
Low == [warn |-> 6, limit |-> 7, recover |-> 4]

MCConfigs == {High, Low}
MCSensorRange == -4..15
MCFilterRange == -2..13
=============================================================================
