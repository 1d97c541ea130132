--------------------------- MODULE MCScalingLoop ---------------------------
(* ScalingLoop on small numbers, for TLC.                                      *)
EXTENDS ScalingLoop

(* Ratios 0, 1/2 and 1 (RatioDen = 2), limits in order and crossed, and a      *)
(* maximum that two-unit instances can only overshoot.                         *)
MCRules == [minCapacity : {0, 2, 4}, maxCapacity : {1, 3, 6}, scalingRatio : 0 .. 2]
=============================================================================
