-------------------------- MODULE MCRollbackSession --------------------------
(* TLC instance: two cpuidle states, so that one of them can be missing,    *)
(* disabled by the user or lost half-way; two frequencies; two signals, so  *)
(* that one can interrupt the handler of the other.                         *)
EXTENDS RollbackSession

MCIdleStates == <<"state1", "state2">>
MCStarts == {img \in Images : img["boost"] = 0 /\ img["state2"] = 0 /\ img["max"] = MaxFreq}
=============================================================================
