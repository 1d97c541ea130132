----------------------------- MODULE Provisioner -----------------------------
(* The provisioner process (lib/provision.js, the provisioner component of     *)
(* lib/main.js) with the services it works on: the WorkerType table that the   *)
(* API edits, the queue, ec2-manager with its instances, EC2's images and      *)
(* prices.  An iteration is a chain of awaited calls; every await is a step    *)
(* boundary, so the services and the API move between any two calls, a call    *)
(* may fail, and a call may be carried out although its caller gave up on it.  *)
EXTENDS CapacityChange, BidOptions, Functions

CONSTANTS
    WorkerType,     \* worker type names
    Image,          \* machine images
    Definitions,    \* definitions that users submit
    Pricings,       \* prices EC2 may report
    SpawnLimit,     \* requests an iteration submits in one region (200)
    MaxFailures,    \* failed iterations in a row that end the process (10)
    MaxEdits,       \* bound: changes of the table and of the images
    MaxFaults,      \* bound: failed calls and crashes
    MaxTasks,       \* bound: tasks the queue ever receives
    MaxLosses,      \* bound: instances that go away by themselves
    Amounts         \* bound: numbers of capacity units the ledger knows

(* Definitions whose capacities are numbers of tasks.  By one with a negative  *)
(* capacity determineSpotBids may bid for ever, and the process with it: that  *)
(* is module SpotBids' to show, and here such definitions are left out.        *)
CountingRule == {r \in BiddingRule : \A t \in InstanceType : r.capacity[t] > 0}

(* A stored definition: what scaling reads, what bidding reads, and the image  *)
(* that its launch specification names.                                        *)
Definition == [scaling : ScalingRule, bidding : CountingRule, image : Image]

ASSUME ProvisionerAssumption ==
    /\ IsFiniteSet(WorkerType)
    /\ Definitions \subseteq Definition
    /\ Pricings \subseteq Pricing /\ Pricings # {}
    /\ SpawnLimit \in Nat \ {0}
    /\ MaxFailures \in Nat \ {0}
    /\ MaxEdits \in Nat /\ MaxFaults \in Nat
    /\ MaxTasks \in Nat /\ MaxLosses \in Nat
    /\ Amounts \subseteq Nat /\ 0 \in Amounts
    /\ InstanceType # {}

VARIABLES
    \* the services
    table,          \* the WorkerType table: names to definitions
    removed,        \* names that were removed from the table at some time
    images,         \* images that exist
    tasks,          \* tasks waiting in the queue, by worker type
    pending,        \* instances requested and not booted, by name and type
    running,        \* instances booted
    late,           \* requests given up by the caller, still to be carried out
    killing,        \* terminateWorkerType calls still to be carried out
    \* the process
    pc,             \* the call the iteration has reached
    loaded,         \* the iteration's copy of the table
    pricing,        \* AwsManager.__pricing
    waiting,        \* terminate calls the rogue killer waits for
    todo,           \* worker types the current loop has still to visit
    reading,        \* the worker type whose queue was read, with the answer
    bids,           \* forSpawning: bids to submit, by worker type
    inflight,       \* spot requests being submitted, at most one per region
    quota,          \* requests each region may still submit
    hadSuccess,
    failures,       \* failed iterations in a row
    \* history and bounds
    unseen,         \* late instances that landed since their name was counted
    edits, faults, arrived, losses

services == <<table, removed, images, tasks, pending, running, late, killing>>
process  == <<pc, loaded, pricing, waiting, todo, reading, bids, inflight,
              quota, hadSuccess, failures>>
bounds   == <<edits, faults, arrived, losses>>
vars     == <<services, process, unseen, bounds>>

Counts == [WorkerType -> [InstanceType -> Nat]]
Tables == UNION {[names -> Definitions] : names \in SUBSET WorkerType}
Spawns == [worker : WorkerType, option : Option]

NoInstances == [w \in WorkerType |-> [t \in InstanceType |-> 0]]
NoPlan      == [w \in WorkerType |-> NoBids]

HasInstance(w) == \E t \in InstanceType : pending[w][t] + running[w][t] > 0

(* Capacity units of some counted instances of one worker type.                *)
CapacityUnits(d, count) ==
    SumFunction([t \in InstanceType |-> count[t] * d.bidding.capacity[t]])

RegionOfOption(o) == RegionOf[o.zone]

(* workerTypeCanLaunch: the launch specifications of a stored definition pass  *)
(* their test; what they name in EC2, images and security groups, may be gone. *)
(* One image stands for all of it.                                             *)
CanLaunch(d) == d.image \in images

Init ==
    /\ table \in Tables
    /\ removed = {}
    /\ images = Image
    /\ tasks = [w \in WorkerType |-> 0]
    /\ pending = NoInstances /\ running = NoInstances /\ late = NoInstances
    /\ killing = {}
    /\ pc = "idle"
    /\ loaded = <<>>
    /\ pricing \in Pricings
    /\ waiting = {} /\ todo = {} /\ reading = {}
    /\ bids = NoPlan /\ inflight = {}
    /\ quota = [r \in Region |-> 0]
    /\ hadSuccess = FALSE
    /\ failures = 0
    /\ unseen = NoInstances
    /\ edits = 0 /\ faults = 0 /\ arrived = 0 /\ losses = 0

-----------------------------------------------------------------------------
(* How an iteration ends: its local variables are gone, the failure count of   *)
(* lib-iterate is reset or goes up, and at MaxFailures the process exits.      *)
ForgetLocals ==
    /\ loaded' = <<>>
    /\ waiting' = {} /\ todo' = {} /\ reading' = {}
    /\ bids' = NoPlan /\ inflight' = {}
    /\ quota' = [r \in Region |-> 0]
    /\ hadSuccess' = FALSE

Succeed ==
    /\ ForgetLocals
    /\ pc' = "idle"
    /\ failures' = 0

Fail ==
    /\ ForgetLocals
    /\ failures' = failures + 1
    /\ pc' = IF failures + 1 >= MaxFailures THEN "down" ELSE "idle"

(* A call at step `at` fails, and with it the iteration.                       *)
Fault == faults < MaxFaults /\ faults' = faults + 1

IterationFault ==
    /\ pc \in {"idle", "update", "keypair"} \/ (pc = "filter" /\ todo # {})
    /\ Fault
    /\ Fail
    /\ UNCHANGED <<services, pricing, unseen, edits, arrived, losses>>

(* The whole process dies; the calls it made may or may not be carried out.    *)
Crash ==
    /\ pc # "down"
    /\ Fault
    /\ ForgetLocals
    /\ pc' = "down"
    /\ killing' \in SUBSET killing
    /\ \E carried \in SUBSET inflight :
          late' = [w \in WorkerType |-> [t \in InstanceType |->
                     late[w][t] + Cardinality({s \in carried :
                                      s.worker = w /\ s.option.type = t})]]
    /\ UNCHANGED <<table, removed, images, tasks, pending, running, pricing,
                   failures, unseen, edits, arrived, losses>>

(* The platform starts the process again, with a failure count of its own.     *)
Restart ==
    /\ pc = "down"
    /\ pc' = "idle"
    /\ failures' = 0
    /\ UNCHANGED <<services, loaded, pricing, waiting, todo, reading, bids,
                   inflight, quota, hadSuccess, unseen, bounds>>

-----------------------------------------------------------------------------
(* The iteration, up to the demand.                                            *)

(* Mutant: only the first page of the table scan is read.                      *)
LoadAllFirstPage ==
    /\ pc = "idle"
    /\ \E names \in SUBSET DOMAIN table : loaded' = Restrict(table, names)
    /\ pc' = "update"
    /\ UNCHANGED <<services, pricing, waiting, todo, reading, bids, inflight,
                   quota, hadSuccess, failures, unseen, bounds>>

LoadAll ==
    /\ pc = "idle"
    /\ loaded' = table
    /\ pc' = "update"
    /\ UNCHANGED <<services, pricing, waiting, todo, reading, bids, inflight,
                   quota, hadSuccess, failures, unseen, bounds>>

(* AwsManager.update: new prices replace the old ones in one assignment.       *)
UpdatePricing ==
    /\ pc = "update"
    /\ pricing' \in Pricings
    /\ pc' = "list"
    /\ UNCHANGED <<services, loaded, waiting, todo, reading, bids, inflight,
                   quota, hadSuccess, failures, unseen, bounds>>

(* After the rogue killer: an iteration without worker types is over.          *)
AfterRogueKiller ==
    IF DOMAIN loaded = {} THEN Succeed
    ELSE /\ pc' = "keypair"
         /\ waiting' = {}
         /\ UNCHANGED <<loaded, todo, reading, bids, inflight, quota, hadSuccess,
                        failures>>

(* The rogues: names with instances that the iteration did not load.           *)
Rogues == {w \in WorkerType : HasInstance(w)} \ DOMAIN loaded

(* Mutant: an empty table ends the iteration before the rogue killer.          *)
ListExtantUnlessEmpty ==
    /\ pc = "list"
    /\ IF DOMAIN loaded = {} THEN Succeed /\ UNCHANGED killing
       ELSE /\ killing' = killing \cup Rogues
            /\ waiting' = Rogues
            /\ pc' = IF Rogues = {} THEN "keypair" ELSE "killing"
            /\ UNCHANGED <<loaded, todo, reading, bids, inflight, quota,
                           hadSuccess, failures>>
    /\ UNCHANGED <<table, removed, images, tasks, pending, running, late,
                   pricing, unseen, bounds>>

ListExtant ==
    /\ pc = "list"
    /\ killing' = killing \cup Rogues
    /\ IF Rogues = {} THEN AfterRogueKiller
       ELSE /\ waiting' = Rogues
            /\ pc' = "killing"
            /\ UNCHANGED <<loaded, todo, reading, bids, inflight, quota,
                           hadSuccess, failures>>
    /\ UNCHANGED <<table, removed, images, tasks, pending, running, late,
                   pricing, unseen, bounds>>

(* listWorkerTypes fails: logged, and the iteration goes on.                   *)
ListFault ==
    /\ pc = "list"
    /\ Fault
    /\ AfterRogueKiller
    /\ UNCHANGED <<services, pricing, unseen, edits, arrived, losses>>

(* A terminate call is carried out: no instance of the name is left.  It may   *)
(* be one the process no longer waits for.                                     *)
KillLands(w) ==
    /\ w \in killing
    /\ killing' = killing \ {w}
    /\ pending' = [pending EXCEPT ![w] = NoInstances[w]]
    /\ running' = [running EXCEPT ![w] = NoInstances[w]]
    /\ IF waiting = {w} THEN AfterRogueKiller
       ELSE /\ waiting' = waiting \ {w}
            /\ UNCHANGED <<pc, loaded, todo, reading, bids, inflight, quota,
                           hadSuccess, failures>>
    /\ UNCHANGED <<table, removed, images, tasks, late, pricing, unseen, bounds>>

(* A terminate call fails, now or at its timeout.  If it was waited for, it    *)
(* makes Promise.all fail and the iteration goes on at once, while the other   *)
(* calls, and perhaps this one, are still to be carried out.                   *)
KillFault(w) ==
    /\ w \in killing
    /\ Fault
    /\ IF w \in waiting
       THEN /\ killing' \in {killing, killing \ {w}}
            /\ AfterRogueKiller
       ELSE /\ killing' = killing \ {w}
            /\ UNCHANGED <<pc, loaded, waiting, todo, reading, bids, inflight,
                           quota, hadSuccess, failures>>
    /\ UNCHANGED <<table, removed, images, tasks, pending, running, late,
                   pricing, unseen, edits, arrived, losses>>

EnsureKeyPair ==
    /\ pc = "keypair"
    /\ pc' = "types"
    /\ todo' = DOMAIN loaded
    /\ hadSuccess' = FALSE
    /\ UNCHANGED <<services, loaded, pricing, waiting, reading, bids, inflight,
                   quota, failures, unseen, bounds>>

-----------------------------------------------------------------------------
(* The demand: for each worker type in turn, the queue, then the instances.    *)

ReadQueue(w) ==
    /\ pc = "types" /\ reading = {}
    /\ w \in todo
    /\ reading' = {[worker |-> w, tasks |-> tasks[w]]}
    /\ todo' = todo \ {w}
    /\ UNCHANGED <<services, pc, loaded, pricing, waiting, bids, inflight, quota,
                   hadSuccess, failures, unseen, bounds>>

(* capacityOfType throws for an instance of a type the definition lost.        *)
CountsReadable(w) ==
    \A t \in InstanceType :
        pending[w][t] + running[w][t] > 0 => t \in loaded[w].bidding.types

(* Mutant: requests that are still pending are not counted.                    *)
ChangeForForgettingPending(w, waitingTasks) ==
    DetermineCapacityChange(loaded[w].scaling,
                            CapacityUnits(loaded[w], running[w]), 0, waitingTasks)

ChangeFor(w, waitingTasks) ==
    DetermineCapacityChange(loaded[w].scaling,
                            CapacityUnits(loaded[w], running[w]),
                            CapacityUnits(loaded[w], pending[w]), waitingTasks)

(* Mutant: nothing catches the exception of one worker type.                   *)
ReadStatsUncaught(w, waitingTasks) ==
    LET change    == ChangeFor(w, waitingTasks)
        rule      == loaded[w].bidding
        throws    == \/ ~ CountsReadable(w)
                     \/ change > 0 /\ Options(rule, pricing) = {}
    IN  /\ reading = {[worker |-> w, tasks |-> waitingTasks]}
        /\ IF throws THEN Fail
           ELSE /\ reading' = {}
                /\ hadSuccess' = TRUE
                /\ IF change <= 0 THEN UNCHANGED bids
                   ELSE \E b \in BidOutcomes(rule, pricing, change) :
                           bids' = [bids EXCEPT ![w] = b]
                /\ UNCHANGED <<pc, loaded, waiting, todo, inflight, quota, failures>>
        /\ unseen' = [unseen EXCEPT ![w] = NoInstances[w]]
        /\ UNCHANGED <<services, pricing, bounds>>

(* workerTypeStats answers, and the rest of the loop's body runs to its end:   *)
(* the bids are chosen, or an exception skips this worker type.                *)
ReadStats(w, waitingTasks) ==
    LET change    == ChangeFor(w, waitingTasks)
        rule      == loaded[w].bidding
        throws    == \/ ~ CountsReadable(w)
                     \/ change > 0 /\ Options(rule, pricing) = {}
    IN  /\ reading = {[worker |-> w, tasks |-> waitingTasks]}
        /\ reading' = {}
        /\ IF throws THEN UNCHANGED <<bids, hadSuccess>>
           ELSE /\ hadSuccess' = TRUE
                /\ IF change <= 0 THEN UNCHANGED bids
                   ELSE \E b \in BidOutcomes(rule, pricing, change) :
                           bids' = [bids EXCEPT ![w] = b]
        /\ unseen' = [unseen EXCEPT ![w] = NoInstances[w]]
        /\ UNCHANGED <<services, pc, loaded, pricing, waiting, todo, inflight,
                       quota, failures, bounds>>

(* pendingTasks or workerTypeStats fails: the worker type is skipped.          *)
DemandFault ==
    /\ pc = "types"
    /\ Fault
    /\ \/ /\ reading # {}
          /\ reading' = {}
          /\ UNCHANGED todo
       \/ /\ reading = {}
          /\ \E w \in todo : todo' = todo \ {w}
          /\ UNCHANGED reading
    /\ UNCHANGED <<services, pc, loaded, pricing, waiting, bids, inflight, quota,
                   hadSuccess, failures, unseen, edits, arrived, losses>>

(* Every worker type was visited.                                              *)
DemandKnown ==
    /\ pc = "types" /\ todo = {} /\ reading = {}
    /\ IF ~ hadSuccess THEN Fail
       ELSE IF bids = NoPlan THEN Succeed
       ELSE /\ pc' = "filter"
            /\ todo' = {w \in WorkerType : bids[w] # NoBids}
            /\ hadSuccess' = FALSE
            /\ UNCHANGED <<loaded, waiting, reading, bids, inflight, quota,
                           failures>>
    /\ UNCHANGED <<services, pricing, unseen, bounds>>

-----------------------------------------------------------------------------
(* Submitting the bids.                                                        *)

(* Mutant: one worker type that cannot launch empties the whole list.          *)
FilterWorkerDroppingAll(w) ==
    /\ pc = "filter"
    /\ w \in todo
    /\ todo' = todo \ {w}
    /\ bids' = IF CanLaunch(loaded[w]) THEN bids ELSE NoPlan
    /\ UNCHANGED <<services, pc, loaded, pricing, waiting, reading, inflight,
                   quota, hadSuccess, failures, unseen, bounds>>

(* workerTypeCanLaunch finds the image, or the worker type's bids are dropped. *)
FilterWorker(w) ==
    /\ pc = "filter"
    /\ w \in todo
    /\ todo' = todo \ {w}
    /\ bids' = IF CanLaunch(loaded[w]) THEN bids
               ELSE [bids EXCEPT ![w] = NoBids]
    /\ UNCHANGED <<services, pc, loaded, pricing, waiting, reading, inflight,
                   quota, hadSuccess, failures, unseen, bounds>>

(* The bids go into one queue per region, cut to the limit.  Which of them are *)
(* cut is up to the order (REQUEST_ORDER may be random), so a region has a     *)
(* quota here and takes its bids in any order.                                 *)
FilterDone ==
    /\ pc = "filter" /\ todo = {}
    /\ pc' = "spawn"
    /\ quota' = [r \in Region |-> SpawnLimit]
    /\ UNCHANGED <<services, loaded, pricing, waiting, todo, reading, bids,
                   inflight, hadSuccess, failures, unseen, bounds>>

BusyRegions == {RegionOfOption(s.option) : s \in inflight}

(* Mutant: a region goes on shifting from an empty queue.                      *)
StartSpawnUnplanned(w, o) ==
    /\ pc = "spawn"
    /\ RegionOfOption(o) \notin BusyRegions
    /\ quota[RegionOfOption(o)] > 0
    /\ bids' = [bids EXCEPT ![w][o] = @ - 1]
    /\ quota' = [quota EXCEPT ![RegionOfOption(o)] = @ - 1]
    /\ inflight' = inflight \cup {[worker |-> w, option |-> o]}
    /\ UNCHANGED <<services, pc, loaded, pricing, waiting, todo, reading,
                   hadSuccess, failures, unseen, bounds>>

(* Mutant: a bid that was submitted stays in the queue.                        *)
StartSpawnKeepingBid(w, o) ==
    /\ pc = "spawn"
    /\ bids[w][o] > 0
    /\ RegionOfOption(o) \notin BusyRegions
    /\ quota[RegionOfOption(o)] > 0
    /\ quota' = [quota EXCEPT ![RegionOfOption(o)] = @ - 1]
    /\ inflight' = inflight \cup {[worker |-> w, option |-> o]}
    /\ UNCHANGED <<services, pc, loaded, pricing, waiting, todo, reading, bids,
                   hadSuccess, failures, unseen, bounds>>

(* A region shifts the next bid and submits it: spawn(), up to the await of    *)
(* runInstance.                                                                *)
StartSpawn(w, o) ==
    /\ pc = "spawn"
    /\ bids[w][o] > 0
    /\ RegionOfOption(o) \notin BusyRegions
    /\ quota[RegionOfOption(o)] > 0
    /\ bids' = [bids EXCEPT ![w][o] = @ - 1]
    /\ quota' = [quota EXCEPT ![RegionOfOption(o)] = @ - 1]
    /\ inflight' = inflight \cup {[worker |-> w, option |-> o]}
    /\ UNCHANGED <<services, pc, loaded, pricing, waiting, todo, reading,
                   hadSuccess, failures, unseen, bounds>>

OneMore(count, s) == [count EXCEPT ![s.worker][s.option.type] = @ + 1]

SpawnLands(s) ==
    /\ s \in inflight
    /\ inflight' = inflight \ {s}
    /\ pending' = OneMore(pending, s)
    /\ hadSuccess' = TRUE
    /\ UNCHANGED <<table, removed, images, tasks, running, late, killing, pc,
                   loaded, pricing, waiting, todo, reading, bids, quota, failures,
                   unseen, bounds>>

(* The secret, the request or its answer is lost: logged, and the region goes  *)
(* on with its next bid.  The request was not carried out, was carried out, or *)
(* will be later.                                                              *)
SpawnFault(s) ==
    /\ s \in inflight
    /\ Fault
    /\ inflight' = inflight \ {s}
    /\ \/ UNCHANGED <<pending, late>>
       \/ pending' = OneMore(pending, s) /\ UNCHANGED late
       \/ late' = OneMore(late, s) /\ UNCHANGED pending
    /\ UNCHANGED <<table, removed, images, tasks, running, killing, pc, loaded,
                   pricing, waiting, todo, reading, bids, quota, hadSuccess,
                   failures, unseen, edits, arrived, losses>>

(* Every region's queue is empty or cut off.                                   *)
SpawnDone ==
    /\ pc = "spawn" /\ inflight = {}
    /\ \A w \in WorkerType, o \in Option :
          bids[w][o] > 0 => quota[RegionOfOption(o)] = 0
    /\ IF hadSuccess THEN Succeed ELSE Fail
    /\ UNCHANGED <<services, pricing, unseen, bounds>>

-----------------------------------------------------------------------------
(* The API and the environment.                                                *)

Edit == edits < MaxEdits /\ edits' = edits + 1

(* createWorkerType: workerTypeCanLaunch, then an entity of a new name.        *)
CreateType(w, d) ==
    /\ w \notin DOMAIN table
    /\ CanLaunch(d)
    /\ Edit
    /\ table' = [x \in DOMAIN table \cup {w} |-> IF x = w THEN d ELSE table[x]]
    /\ UNCHANGED <<removed, images, tasks, pending, running, late, killing,
                   process, unseen, faults, arrived, losses>>

UpdateType(w, d) ==
    /\ w \in DOMAIN table
    /\ CanLaunch(d)
    /\ d # table[w]
    /\ Edit
    /\ table' = [table EXCEPT ![w] = d]
    /\ UNCHANGED <<removed, images, tasks, pending, running, late, killing,
                   process, unseen, faults, arrived, losses>>

RemoveType(w) ==
    /\ w \in DOMAIN table
    /\ Edit
    /\ table' = Restrict(table, DOMAIN table \ {w})
    /\ removed' = removed \cup {w}
    /\ UNCHANGED <<images, tasks, pending, running, late, killing, process,
                   unseen, faults, arrived, losses>>

(* Someone deregisters an image that definitions still name.                   *)
Deregister(i) ==
    /\ i \in images
    /\ Edit
    /\ images' = images \ {i}
    /\ UNCHANGED <<table, removed, tasks, pending, running, late, killing,
                   process, unseen, faults, arrived, losses>>

(* A request that was given up is carried out after all.                       *)
LateLands(w, t) ==
    /\ late[w][t] > 0
    /\ late' = [late EXCEPT ![w][t] = @ - 1]
    /\ pending' = [pending EXCEPT ![w][t] = @ + 1]
    /\ unseen' = [unseen EXCEPT ![w][t] = @ + 1]
    /\ UNCHANGED <<table, removed, images, tasks, running, killing, process,
                   bounds>>

Boot(w, t) ==
    /\ pending[w][t] > 0
    /\ pending' = [pending EXCEPT ![w][t] = @ - 1]
    /\ running' = [running EXCEPT ![w][t] = @ + 1]
    /\ UNCHANGED <<table, removed, images, tasks, late, killing, process, unseen,
                   bounds>>

(* An instance is outbid, terminates itself, or its request is cancelled.      *)
Gone(w, t) ==
    /\ losses < MaxLosses
    /\ losses' = losses + 1
    /\ \/ /\ pending[w][t] > 0
          /\ pending' = [pending EXCEPT ![w][t] = @ - 1]
          /\ UNCHANGED running
       \/ /\ running[w][t] > 0
          /\ running' = [running EXCEPT ![w][t] = @ - 1]
          /\ UNCHANGED pending
    /\ UNCHANGED <<table, removed, images, tasks, late, killing, process, unseen,
                   edits, faults, arrived>>

Arrive(w) ==
    /\ arrived < MaxTasks
    /\ arrived' = arrived + 1
    /\ tasks' = [tasks EXCEPT ![w] = @ + 1]
    /\ UNCHANGED <<table, removed, images, pending, running, late, killing,
                   process, unseen, edits, faults, losses>>

Claim(w) ==
    /\ tasks[w] > 0
    /\ \E t \in InstanceType : running[w][t] > 0
    /\ tasks' = [tasks EXCEPT ![w] = @ - 1]
    /\ UNCHANGED <<table, removed, images, pending, running, late, killing,
                   process, unseen, bounds>>

-----------------------------------------------------------------------------
(* What the process does by itself while it lives.                             *)
Step ==
    \/ LoadAll \/ UpdatePricing \/ ListExtant \/ EnsureKeyPair
    \/ \E w \in WorkerType : ReadQueue(w) \/ FilterWorker(w)
    \/ \E r \in reading : ReadStats(r.worker, r.tasks)
    \/ DemandKnown \/ FilterDone
    \/ \E w \in WorkerType, o \in Option : StartSpawn(w, o)
    \/ \E s \in inflight : SpawnLands(s)
    \/ SpawnDone
    \/ Restart

Faults ==
    \/ IterationFault \/ Crash \/ ListFault \/ DemandFault
    \/ \E w \in WorkerType : KillFault(w)
    \/ \E s \in inflight : SpawnFault(s)

Api ==
    \E w \in WorkerType :
        \/ \E d \in Definitions : CreateType(w, d) \/ UpdateType(w, d)
        \/ RemoveType(w)

Environment ==
    \/ \E i \in Image : Deregister(i)
    \/ \E w \in WorkerType : KillLands(w) \/ Arrive(w) \/ Claim(w)
    \/ \E w \in WorkerType, t \in InstanceType :
          LateLands(w, t) \/ Boot(w, t) \/ Gone(w, t)

Next == Step \/ Faults \/ Api \/ Environment

(* lib-iterate starts iteration after iteration and the platform restarts the  *)
(* process, so it keeps stepping; a call that was made and is not reported     *)
(* lost is carried out; requests are filled and booted instances claim work.   *)
(* No edit, fault, arrival or loss ever has to happen.                         *)
Fairness ==
    /\ WF_vars(Step)
    /\ \A w \in WorkerType : WF_vars(KillLands(w)) /\ WF_vars(Claim(w))
    /\ \A w \in WorkerType, t \in InstanceType :
          WF_vars(LateLands(w, t)) /\ WF_vars(Boot(w, t))

Spec == Init /\ [][Next]_vars /\ Fairness

-----------------------------------------------------------------------------
ServicesOK ==
    /\ table \in Tables
    /\ removed \subseteq WorkerType /\ killing \subseteq WorkerType
    /\ images \subseteq Image
    /\ tasks \in [WorkerType -> Nat]
    /\ pending \in Counts /\ running \in Counts
    /\ late \in Counts /\ unseen \in Counts

ProcessOK ==
    /\ pc \in {"idle", "update", "list", "killing", "keypair", "types", "filter",
              "spawn", "down"}
    /\ loaded \in Tables
    /\ pricing \in Pricings
    /\ waiting \subseteq killing /\ todo \subseteq WorkerType
    /\ reading \subseteq [worker : WorkerType, tasks : Nat]
    /\ bids \in [WorkerType -> [Option -> Nat]]
    /\ inflight \subseteq Spawns
    /\ quota \in [Region -> Nat]
    /\ hadSuccess \in BOOLEAN
    /\ failures \in 0 .. MaxFailures

BoundsOK ==
    /\ edits \in 0 .. MaxEdits /\ faults \in 0 .. MaxFaults
    /\ arrived \in 0 .. MaxTasks /\ losses \in 0 .. MaxLosses

TypeOK == ServicesOK /\ ProcessOK /\ BoundsOK

(* The rogue killer only ever kills what was removed: terminateWorkerType is   *)
(* called for a name whose definition somebody removed, never for a worker     *)
(* type that was merely created after loadAll, or that the iteration failed to *)
(* load, or whose instances were requested by a call that was given up.        *)
KillsOnlyRemoved == killing \subseteq removed

(* Capacity units of a loaded worker type, and those it has still to request.  *)
AllInstances(w) == [t \in InstanceType |-> pending[w][t] + running[w][t]]

Planned(w) ==
    UnitsOf(loaded[w].bidding, bids[w])
      + SumFunction([s \in {r \in inflight : r.worker = w} |->
                       loaded[w].bidding.capacity[s.option.type]])

(* Bids fit below the ceiling or cross it with one instance of the definition. *)
Room(d) ==
    Ceiling(d.scaling) + Max({0} \cup {d.bidding.capacity[t] : t \in d.bidding.types})

(* An iteration never plans past the ceiling: from the moment a worker type's  *)
(* bids are chosen to the last request, its instances and its outstanding bids *)
(* stay within maxCapacity and one instance, whatever boots, dies or is edited *)
(* meanwhile.  Only requests that land after their caller gave up on them, and *)
(* after the instances were counted, come on top.                              *)
PlanWithinCeiling ==
    \A w \in DOMAIN loaded :
        Planned(w) > 0 =>
          CapacityUnits(loaded[w], AllInstances(w)) + Planned(w)
            < Room(loaded[w]) + CapacityUnits(loaded[w], unseen[w])

(* The same as one of the abstract ledger's behaviours: units and plans as the *)
(* loaded definitions measure them.                                            *)
ByLoaded(w, n) == IF w \in DOMAIN loaded THEN n ELSE 0

LoadedUnits   == [w \in WorkerType |->
                    ByLoaded(w, CapacityUnits(loaded[w], AllInstances(w)))]
LoadedRoom    == [w \in WorkerType |-> ByLoaded(w, Room(loaded[w]))]
LoadedPlanned == [w \in WorkerType |-> ByLoaded(w, Planned(w))]
LoadedUnseen  == [w \in WorkerType |->
                    ByLoaded(w, CapacityUnits(loaded[w], unseen[w]))]

Ledger == INSTANCE CapacityLedger WITH
    Amount <- Amounts, units <- LoadedUnits, room <- LoadedRoom,
    planned <- LoadedPlanned, unseen <- LoadedUnseen

(* The provisioner keeps the ledger: every step plans once after counting,     *)
(* launches what was planned, drops plans or merely observes.                  *)
KeepsLedger == Ledger!Spec

(* removeWorkerType promises that the background worker kills all instances of *)
(* a removed worker type: once the name stays removed, its instances are gone  *)
(* for good, those launched from a stale copy and those landing late included. *)
RemovedDrained ==
    \A w \in WorkerType :
        <>[](w \notin DOMAIN table) => <>[](~ HasInstance(w))

(* A worker type that can be served: its image exists, there is somewhere to   *)
(* bid and nowhere that would stop the bidding, and no instance of a type its  *)
(* definition does not have any more.                                          *)
Servable(w) ==
    /\ w \in DOMAIN table
    /\ CanLaunch(table[w])
    /\ LET rule == table[w].bidding
       IN  /\ Options(rule, pricing) # {}
           /\ \A o \in Options(rule, pricing) :
                 Affordable(rule, pricing, o) /\ Sane(rule, pricing, o)
           /\ \A t \in InstanceType :
                 pending[w][t] + running[w][t] > 0 => t \in rule.types

(* Whatever failed before, and whatever the other worker types do, a worker    *)
(* type that stays servable gets its backlog claimed ...                       *)
BacklogClaimed ==
    \A w \in WorkerType :
        <>[](Servable(w) /\ table[w].scaling.maxCapacity > 0)
          => []<>(tasks[w] = 0)

(* ... and comes back to its minimum capacity whenever instances went away,    *)
(* even if the limit of an iteration leaves room for another worker type only. *)
MinimumKept ==
    \A w \in WorkerType :
        <>[](/\ Servable(w)
            /\ table[w].scaling.minCapacity <= table[w].scaling.maxCapacity)
          => []<>(w \in DOMAIN table =>
                    table[w].scaling.minCapacity
                      <= CapacityUnits(table[w], AllInstances(w)))

-----------------------------------------------------------------------------
(* What a comment says of the provisioner, and the code does otherwise.        *)

(* Worker types that cannot be launched are ignored: they do not fail the      *)
(* iteration, let alone make the process exit.                                 *)
UnlaunchableIgnored == pc = "down" => faults > 0
=============================================================================
