----------------------------- MODULE MCIPCSession -----------------------------
(* TLC instance: two users, one of whom may repeat a command, and one place *)
(* in the backlog.                                                          *)
EXTENDS IPCSession

CONSTANTS c1, c2

MCClients == {c1, c2}
MCCalls == {<<c1, 1>>, <<c1, 2>>, <<c2, 1>>}
=============================================================================
