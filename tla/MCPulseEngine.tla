---------------------------- MODULE MCPulseEngine ----------------------------
(* TLC instance: one thread that stops the engine around the requests, so   *)
(* that two stop() calls can overlap; two workers, two runs.                *)
EXTENDS PulseEngine

CONSTANT stopper

MCStoppers == {stopper}
=============================================================================
