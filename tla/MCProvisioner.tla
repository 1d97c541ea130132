---------------------------- MODULE MCProvisioner ----------------------------
(* Small instances of the Provisioner for TLC.                                 *)
EXTENDS Provisioner

(* One zone per region.                                                        *)
MCRegionOf == [z \in Zone |-> IF z = "z1" THEN "r1" ELSE "r2"]

MCCapacity == [t \in InstanceType |-> IF t = "small" THEN 1 ELSE 2]
MCUtility  == [t \in InstanceType |-> 1]

DefinitionOf(min, max, ratio, types, image) ==
    [scaling |-> [minCapacity |-> min, maxCapacity |-> max, scalingRatio |-> ratio],
     bidding |-> [regions |-> Region, zones |-> {}, types |-> types,
                  capacity |-> MCCapacity, utility |-> MCUtility,
                  minPrice |-> 0, maxPrice |-> 3],
     image |-> image]

(* Single-unit instances with no minimum; two-unit instances with a minimum,   *)
(* which overshoot the maximum.                                                *)
SmallDefinition == DefinitionOf(0, 2, 0, {"small"}, "ami1")
LargeDefinition == DefinitionOf(1, 3, 1, {"large"}, "ami2")
(* One instance always and one at most; or a two-unit one, on demand only.     *)
KeptDefinition  == DefinitionOf(1, 1, 0, {"small"}, "ami1")
SpareDefinition == DefinitionOf(0, 1, 0, {"large"}, "ami2")

TwoDefinitions  == {SmallDefinition, LargeDefinition}
KeptDefinitions == {KeptDefinition, SpareDefinition}

(* Every option the same price, always.                                        *)
SteadyPricing == {[o \in Option |-> 2]}

(* More units than the definitions ever lead to.                               *)
MCAmounts == 0 .. 20
==============================================================================
