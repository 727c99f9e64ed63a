-------------------------- MODULE MCDaemonLifecycle --------------------------
(* TLC instance: two client threads, a bounded number of requests and       *)
(* signals in one run of the daemon.                                        *)
EXTENDS DaemonLifecycle, TLC

CONSTANTS h1, h2

ClientSymmetry == Permutations(Handlers)
AllCommands == {"START", "STOP", "PAUSE", "RESUME", "LOCK", "UNLOCK"}
=============================================================================
