----------------------------- MODULE MCInstances -----------------------------
(* TLC instance: two processes, each of which may be started again; three   *)
(* starts are enough for two daemons to meet after one was refused.         *)
EXTENDS Instances

CONSTANTS p1, p2

MCProcs == {p1, p2}
MCInodes == {1, 2, 3}
=============================================================================
