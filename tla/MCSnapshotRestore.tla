-------------------------- MODULE MCSnapshotRestore --------------------------
(* TLC instance: two policies that share one boost file and two frequencies *)
(* (enough for a saved minimum above the present maximum); a plan with both *)
(* bounds of a policy, and one with the minimum, as the daemon makes it.    *)
EXTENDS SnapshotRestore

MCBoostOf == <<1, 1>>
MCPlans == {{<<1, "min">>, <<1, "max">>, <<1, "boost">>, <<2, "governor">>},
            {<<1, "min">>, <<1, "boost">>, <<2, "min">>, <<2, "max">>}}
=============================================================================
