--------------------------- MODULE CapacityChange ---------------------------
(* How many capacity units a worker type asks for: determineCapacityChange of *)
(* lib/worker-type.js, the arithmetic at the heart of every provisioning      *)
(* iteration.                                                                  *)
(*                                                                             *)
(* Capacities and task counts are whole numbers.  scalingRatio is a JSON       *)
(* number, 0.2 say; here it is a whole number of 1/RatioDen parts, so that     *)
(* 0.25 is 1 when RatioDen = 4.                                                *)
EXTENDS Integers

CONSTANT RatioDen       \* denominator of every scaling ratio

ASSUME RatioDenAssumption == RatioDen \in Nat \ {0}

(* The part of a worker type's definition that the computation reads.  The     *)
(* request schema bounds none of the three numbers from above, nor does it ask *)
(* for minCapacity <= maxCapacity.                                             *)
ScalingRule == [minCapacity : Nat, maxCapacity : Nat, scalingRatio : Nat]

(* Math.round(scalingRatio * runningCapacity): halves go up.                   *)
DesiredPending(d, running) ==
    (2 * d.scalingRatio * running + RatioDen) \div (2 * RatioDen)

(* Mutant: requests still pending are not counted.                             *)
IdealChangeForgettingPending(d, running, pending, tasks) ==
    tasks - DesiredPending(d, running)

(* The change that would leave DesiredPending tasks waiting.                   *)
IdealChange(d, running, pending, tasks) ==
    tasks - pending - DesiredPending(d, running)

(* Mutant: the way up to the maximum forgets the pending requests.             *)
CapacityChangePastMaximum(d, running, pending, tasks) ==
    LET ideal == IdealChange(d, running, pending, tasks)
        after == ideal + pending + running
    IN  IF after >= d.maxCapacity THEN d.maxCapacity - running
        ELSE IF after < d.minCapacity THEN d.minCapacity - running - pending
        ELSE ideal

(* Mutant: the minimum is never looked at.                                     *)
CapacityChangeWithoutMinimum(d, running, pending, tasks) ==
    LET ideal == IdealChange(d, running, pending, tasks)
    IN  IF ideal + pending + running >= d.maxCapacity
        THEN d.maxCapacity - running - pending
        ELSE ideal

(* What is asked for: the ideal change, held within the capacity limits.  The  *)
(* maximum is tested first, so it wins where the two limits disagree.          *)
DetermineCapacityChange(d, running, pending, tasks) ==
    LET ideal == IdealChange(d, running, pending, tasks)
        after == ideal + pending + running
    IN  IF after >= d.maxCapacity THEN d.maxCapacity - running - pending
        ELSE IF after < d.minCapacity THEN d.minCapacity - running - pending
        ELSE ideal

(* The most capacity the computation ever asks for: minCapacity is looked at   *)
(* only below maxCapacity, yet it may be the larger of the two.                *)
Ceiling(d) ==
    IF d.minCapacity <= d.maxCapacity THEN d.maxCapacity ELSE d.minCapacity
=============================================================================
