----------------------------- MODULE ScalingLoop -----------------------------
(* The feedback loop one worker type is caught in, with nothing failing and    *)
(* nothing stale: an iteration reads the queue and the instance counts, asks   *)
(* determineCapacityChange how many units to add, and starts whole instances   *)
(* until they are added; instances boot, claim tasks and go away.  The         *)
(* Provisioner module has the same loop with every await, failure and race     *)
(* left in; this one shows what the arithmetic alone achieves.                 *)
EXTENDS CapacityChange

CONSTANTS
    Rules,          \* scaling rules a worker type may have
    InstanceUnits,  \* capacity units of one instance of its instance type
    MaxTasks,       \* bound: tasks the queue ever receives
    MaxLosses       \* bound: instances that go away

ASSUME LoopAssumption ==
    /\ Rules \subseteq ScalingRule
    /\ InstanceUnits \in Nat \ {0}
    /\ MaxTasks \in Nat
    /\ MaxLosses \in Nat

VARIABLES
    rule,           \* the worker type's scaling rule
    pending,        \* instances requested that have not booted
    running,        \* instances that have booted
    busy,           \* units of booted instances that are at work on a task
    tasks,          \* tasks waiting in the queue
    arrived,        \* tasks the queue received so far
    losses          \* instances that went away so far

vars == <<rule, pending, running, busy, tasks, arrived, losses>>

Units == InstanceUnits * (running + pending)

Change == DetermineCapacityChange(rule, InstanceUnits * running,
                                  InstanceUnits * pending, tasks)

(* Mutant: a change the instances do not divide is rounded down.               *)
InstancesForRoundedDown(change) ==
    IF change > 0 THEN change \div InstanceUnits ELSE 0

(* The bid loop takes an instance's capacity off the change until nothing      *)
(* positive is left; a change of zero or less starts and stops nothing.        *)
InstancesFor(change) ==
    IF change > 0 THEN (change + InstanceUnits - 1) \div InstanceUnits ELSE 0

Init ==
    /\ rule \in Rules
    /\ pending = 0 /\ running = 0 /\ busy = 0
    /\ tasks = 0 /\ arrived = 0 /\ losses = 0

Evaluate ==
    /\ Change > 0
    /\ pending' = pending + InstancesFor(Change)
    /\ UNCHANGED <<rule, running, busy, tasks, arrived, losses>>

Boot ==
    /\ pending > 0
    /\ pending' = pending - 1
    /\ running' = running + 1
    /\ UNCHANGED <<rule, busy, tasks, arrived, losses>>

(* Mutant: an instance claims more tasks than it has units.                    *)
ClaimBeyondUnits ==
    /\ running > 0
    /\ tasks > 0
    /\ tasks' = tasks - 1
    /\ busy' = busy + 1
    /\ UNCHANGED <<rule, pending, running, arrived, losses>>

(* A unit of a booted instance claims a task.                                  *)
Claim ==
    /\ busy < InstanceUnits * running
    /\ tasks > 0
    /\ tasks' = tasks - 1
    /\ busy' = busy + 1
    /\ UNCHANGED <<rule, pending, running, arrived, losses>>

Finish ==
    /\ busy > 0
    /\ busy' = busy - 1
    /\ UNCHANGED <<rule, pending, running, tasks, arrived, losses>>

(* An instance is outbid, shuts down when idle, or its request is cancelled.   *)
Lose ==
    /\ losses < MaxLosses
    /\ losses' = losses + 1
    /\ \/ /\ pending > 0
          /\ pending' = pending - 1
          /\ UNCHANGED <<running, busy>>
       \/ /\ running > 0
          /\ running' = running - 1
          /\ busy' \in {b \in 0 .. InstanceUnits * (running - 1) :
                          busy - InstanceUnits <= b /\ b <= busy}
          /\ UNCHANGED pending
    /\ UNCHANGED <<rule, tasks, arrived>>

Arrive ==
    /\ arrived < MaxTasks
    /\ arrived' = arrived + 1
    /\ tasks' = tasks + 1
    /\ UNCHANGED <<rule, pending, running, busy, losses>>

Next == Evaluate \/ Boot \/ Claim \/ Finish \/ Lose \/ Arrive

(* Iterations recur for as long as the process lives; requests are filled and  *)
(* instances that stay claim tasks and finish them.  Nothing forces losses or arrivals.         *)
Spec == Init /\ [][Next]_vars
             /\ WF_vars(Evaluate) /\ WF_vars(Boot)
             /\ WF_vars(Claim) /\ WF_vars(Finish)

TypeOK ==
    /\ rule \in Rules
    /\ pending \in Nat /\ running \in Nat
    /\ busy \in 0 .. InstanceUnits * running
    /\ tasks \in Nat /\ arrived \in 0 .. MaxTasks /\ losses \in 0 .. MaxLosses

(* Capacity is only ever added up to the ceiling, overshot by less than the    *)
(* one instance that crosses it: the claim behind "aim for maxCapacity" in     *)
(* determineCapacityChange and the subtraction in determineSpotBids.           *)
CapacityBounded == Units < Ceiling(rule) + InstanceUnits

(* An iteration that finds its own requests still pending adds nothing more:   *)
(* pending capacity is counted exactly once, so a backlog is not answered      *)
(* again by every iteration until the instances boot.                          *)
AnsweredOnce == [][Evaluate => Change' <= 0]_vars

(* However many instances go away, the worker type is always back at its       *)
(* minimum capacity later, provided the limits are in order.                   *)
MinimumRestored ==
    rule.minCapacity <= rule.maxCapacity => []<>(Units >= rule.minCapacity)

(* Whatever the scaling ratio leaves waiting is claimed in the end: no ratio   *)
(* makes determineCapacityChange starve a backlog for good while maxCapacity   *)
(* allows one unit.                                                            *)
BacklogClaimed == rule.maxCapacity > 0 => (tasks > 0 ~> tasks = 0)
=============================================================================
