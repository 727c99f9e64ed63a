------------------------------- MODULE MCTuning -------------------------------
(* TLC instance: one policy whose limits are readable or contradict each    *)
(* other; a daemon started with "auto" and a small range of duties, and one *)
(* with a target below every limit and `--max-temp 90` (refused: its warning *)
(* threshold is 90, too); updates that move either end, ask for a target    *)
(* above every limit, and two that are refused, a target of 0 and a         *)
(* threshold.                                                               *)
EXTENDS Tuning

CONSTANTS h1, h2

NoOptions == [target |-> Absent, duty |-> Absent, maxTemp |-> Absent]
MCHandlers == {h1, h2}
MCStarts == {[FromArguments(NoOptions) EXCEPT !.maxDuty = 7],
             FromArguments([NoOptions EXCEPT !.target = 1000, !.maxTemp = 90])}
MCUpdates == {[minDuty |-> 6], [maxDuty |-> 5], [target |-> 9000000], [target |-> 0],
              [warn |-> 100]}
MCLimitSets == {[hwMin |-> 2000000, hwMax |-> 4000000, min |-> 2000000, max |-> 3000000],
                [hwMin |-> 2000000, hwMax |-> 4000000, min |-> 0, max |-> 1000000]}
=============================================================================
