----------------------- MODULE MCStartupTransaction -----------------------
(* TLC instance: two policies that share a boost file or own one each, on  *)
(* machines with the DMA-latency device, with only cpuidle, or with        *)
(* neither.                                                                *)
EXTENDS StartupTransaction

CONSTANTS s1, s2

MCPolicies == <<"P", "E">>

Info(usable, performance, shared, caps, hwMin, hwMax, max) ==
  [usable |-> usable, performance |-> performance, sharedBoost |-> shared,
   caps |-> caps, hwMin |-> hwMin, hwMax |-> hwMax, max |-> max]

Big(shared) == Info(TRUE, TRUE, shared, {"boost"}, 1, 4, 3)
Small(shared) == Info(TRUE, FALSE, shared, {"boost"}, 1, 2, 2)
Limitless == Info(TRUE, TRUE, FALSE, {"cpb", "epp"}, 0, 0, 0)
Inverted == Info(TRUE, TRUE, FALSE, {}, 3, 2, 2)
Unusable == Info(FALSE, TRUE, FALSE, {"boost"}, 1, 3, 3)

Pair(P, E) == [p \in {"P", "E"} |-> IF p = "P" THEN P ELSE E]

Pairs == {Pair(Big(TRUE), Small(TRUE)), Pair(Limitless, Big(FALSE)),
          Pair(Inverted, Small(FALSE)), Pair(Unusable, Big(FALSE))}

MCMachines ==
  {[device |-> d, idle |-> i, policy |-> pair] :
     d \in BOOLEAN, i \in {<<>>, <<<<s1, "disable">>, <<s2, "disable">>>>}, pair \in Pairs}
=============================================================================
