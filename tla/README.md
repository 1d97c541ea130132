# Formal model of the AWS provisioner

TLA+ models of `taskcluster/aws-provisioner`, checked with TLC, and theorems
about them checked with TLAPS. Paths below are those of the repository; line
numbers are listed definition by definition in `PROJECT.json` under `map`.

## 1. The system

The repository holds two processes (`Procfile`) over shared services. The
**provisioner** runs an iteration again and again; the **web** process serves an
API. They share an Azure table of worker types and one of secrets. The queue,
ec2-manager and EC2 are outside the repository.

| component | state | operations | interacts with |
|---|---|---|---|
| iteration runner (`lib/main.js`, `Iterate`) | failures in a row | start an iteration, reset or count, exit at 10 | provisioner; the platform restarts the process |
| provisioning iteration (`lib/provision.js`) | none between iterations; within one: the copied table, the bids, `hadSuccess` | `provision`, `changeForType`, `__filterBrokenWorkers`, `spawn` | worker type table, `AwsManager`, queue, ec2-manager, secrets |
| capacity arithmetic (`determineCapacityChange`) | none | tasks, pending and running units in, change out | iteration |
| spot bidding (`determineSpotBids`) | none | change and prices in, bids out | iteration, pricing |
| pricing and AWS state (`lib/aws-manager.js`) | prices | `update`, `workerTypeCanLaunch` | EC2, iteration, API |
| launch specifications (`createLaunchSpec`, `testLaunchSpecs`) | none | merge configuration layers, check keys | iteration, API, pricing |
| worker type table and API (`lib/api-v1.js`) | one entity per worker type | create, update, remove, read, summaries, state | clients, iteration |
| secrets (`lib/secret.js`, API) | one entity per token | create, get, remove, instance-started | iteration, instances |
| declaration loop (`lib/main.js`, `declareWorkerType`) | expiry in the queue | declare every 24 h for 36 h | queue |
| request ordering (`roundRobinRequests`) | none | reorder a region's requests | iteration |
| command line client (`lib/manage.js`) | local files | create, modify, delete, ... | API |
| monitoring, logging, configuration, helpers | none that is read back | | |

What is hard here is not in one function: the iteration is a chain of some dozen
kinds of awaited calls, and between any two of them the API edits the table,
tasks and instances come and go, prices and images change, a call fails, or a
call is carried out although its caller gave up. The correctness of each
component, in a sentence:

- *capacity arithmetic*: demand is answered once, capacity stays below the limit
  and one instance, the minimum is restored, no ratio starves a backlog;
- *bidding*: ends if every instance takes something off the change, covers it
  exactly up to the last instance, returns no insane bid;
- *rogue killer*: kills what was removed, all of it in the end, and nothing else;
- *iteration*: never plans past the ceiling, serves every worker type that can be
  served whatever happens to the others;
- *secrets*: an instance never comes up without its secret, and a secret that a
  caller was told is gone does not come back, not by a storing that was given up
  and lands late either;
- *launch specifications*: a definition that passes its test has a launch
  specification for every bid, made of images and groups that were looked up;
- *worker type API*: every call takes effect at one instant, whatever others do,
  and what is stored was checked;
- *declaration*: the queue knows each worker type while all goes well, and comes
  to know it as stored once failures stop;
- *ordering*: loses and doubles nothing, and lets no worker type push others out;
- *overlapping iterations*: together reach no more than each of them may reach
  alone times their number, late requests apart; bid by one set of prices; drain
  what was removed.

`PROJECT.json` lists the hazards at their lines, with the properties that cover
them, or a note on why none does: that the queue's count and the instances are
read one after the other, that a secret expires while its instance boots, and that
the last names of a region may be cut off in iteration after iteration while
others demand more than the limit, are hazards of which nothing is claimed.

## 2. Modules

| module | models | state and actions |
|---|---|---|
| `CapacityChange` | `determineCapacityChange` | operators over whole units; `scalingRatio` is a number of 1/`RatioDen` parts |
| `ScalingLoop` | the loop the arithmetic closes for one worker type | instances, busy units, tasks; `Evaluate` is an iteration without failures, the rest is the environment |
| `BidOptions` | where to bid and at what price; `BidOutcomes`, the lists a call may return | operators; prices in millionths of a dollar, so the code's rounding up is `CeilDiv` and nothing else |
| `SpotBids` | one call of `determineSpotBids` | one action per way through the loop's body |
| `CapacityLedger` | what the iteration promises about capacity, without calls or bids | plan once after counting, launch what was planned, drop |
| `Provisioner` | the provisioner process with its services | one action per awaited call (its continuation up to the next await included), one per failure, one per API edit and environment event |
| `SecretStore` | the Secret table between `spawn()` and the API's handlers | one action per table operation |
| `RegionQueue` | a region's requests put in order, cut and submitted | `Randomize`, or one `Visit` per name and pass of `roundRobinRequests`; `Cut`; one `Submit` per request |
| `LaunchSpec` | `createLaunchSpec`, `testLaunchSpecs`, `workerTypeCanLaunch` | operators over definitions: layers of parameters, by region, zone and instance type |
| `WorkerTypeApi` | the worker type table between the handlers | one action per awaited operation of create, update and remove, one for failures |
| `DefinitionTable` | what that API promises | a call takes effect at one instant, or fails |
| `DeclareLoop` | the queue's knowledge of worker types, with the API beside the 24-hour loop | rounds that scan and send, their failures, crashes, time in units of 12 hours |
| `PricingUpdate` | `AwsManager.update` and `_findMaxPrices` | one action per region's answer, one for the assignment |
| `IterateOverlap` | the runner and iterations that outlive their time | the Provisioner's phases made coarser, one instance of each for several iterations |
| `MC*` | instances for TLC | |
| `UnitLemmas` | | what `CapacityChange` guarantees, induction over finite sets, sums and maxima: theorems the other proofs share |
| `*_proofs` | theorems | of the module of that name; `SpotBids_proofs` has those of `RegionQueue` in its second half |

`Provisioner` extends `CapacityChange` and `BidOptions`: its `ReadStats` computes
the change as `determineCapacityChange` does and picks any list in `BidOutcomes`.
`SpotBids` shows that every list its loop returns is in `BidOutcomes`, so the
iteration need not run the loop step by step. `Provisioner` implements
`CapacityLedger` (property `KeepsLedger`, an `INSTANCE` with a refinement
mapping: units and plans as the loaded definitions measure them).

`DeclareLoop` extends `WorkerTypeApi`, which extends `LaunchSpec`: whether a
request is rejected is decided by `WorkerTypeCanLaunch` on its definition.
`WorkerTypeApi` implements `DefinitionTable` (property `KeepsTable`; a call is
done once its write, or the look that decides it, is). `IterateOverlap` extends
`PricingUpdate`. `RegionQueue` stands alone: the Provisioner allows every order.

### From code to `Provisioner`

`pc` names the call reached: `idle` (before `loadAll`), `update`, `list`
(`listWorkerTypes`), `killing` (`Promise.all` of the terminate calls), `keypair`,
`types` (the demand loop; `reading` is the worker type between its two awaits),
`filter`, `spawn`, `down`. `bids` is `forSpawning` with its order forgotten,
counted by worker type and option; `inflight` holds at most one request per
region, as each region awaits its own. The first 200 requests of a region are a
`quota`: which ones make it depends on the order, and every choice is allowed, so
random and round-robin order are both covered. Leaving an iteration in any way
goes through `ForgetLocals`, because everything but the prices is a local
variable.

Failures: any awaited call may fail, with the consequence the code gives it. The
iteration fails for `loadAll`, `update`, `ensureKeyPair` and `workerTypeCanLaunch`;
a failed list or terminate call ends the rogue killer only; a failed queue or
stats call skips one worker type; a failed spawn skips one request. A terminate or
spawn call that failed may have been carried out, or be carried out later
(`killing` outlives the wait, `late`). `Crash` stops the process anywhere, also
with calls in flight.

History variables, read by no action's guard: `removed` (names ever removed) and
`unseen` (late requests that landed since their worker type was counted).

Abstractions to know about:

- `loadAll` copies the table in one step. The scan of a paged table is not atomic;
  what the model uses of it is that an entity present throughout the scan is seen.
- What a definition's launch specification names in EC2 is one image, and
  `createLaunchSpec` never fails for a definition that was accepted: this is what
  `TestsCoverBids` proves of `LaunchSpec`.
- One iteration at a time: lib-iterate counts one that passes its time limit as
  failed and does not stop it; `IterateOverlap` has several at once.
- Worker types list an instance type once, and a zone belongs to one region.
- A capacity may be any whole number but 0: the schema asks for a number and
  `testLaunchSpecs` for one that is true (`BiddingRule`, `IsDefinition`).
  `SpotBids` and the API take them all. Of a negative one `determineSpotBids` may
  never return (`bids_negative`), and the process with it; the `Provisioner` leaves
  such definitions out by the name `CountingRule`, and its results are about the
  others.
- `createSecret`'s body repeats the token of its path; a body that differs would
  only make the comparison of an existing secret fail.

### From code to the API, the loop and overlapping iterations

`call[c]` is how far the handler of a client's call is: before the first write
(`insert`, `load`, `modify`, `remove`), then `publish` and `declare`, or its
answer. A request is dated when it arrives and its definition looked up before
anything is written, in one step: the account does not change in the model.
Entities compare by definition and minimum capacity, which stand for the keys
`createWorkerType` compares, and carry a description, which it does not compare.
An update leaves a minimum that was not given as it was, and a create without
one fails, as the column needs a number. An operation that fails may have been
carried out (`CallFault`). A round of the loop scans name by name, each entity
being declared as it was read, and a round that fails leaves sends under way.
A date is any of `Date`: `new Date()` says it to the millisecond, in processes with
clocks of their own, so two requests may share one and a later request may have
an earlier one. `failed` is history.

In `SecretStore` a storing that fails to its caller may have been done, may never
be, or is under way (`arriving`) and lands any time later, if by then no secret has
the token. `spent` is history: the tokens of which a caller was told that the
secret is gone, since an instance made the token known.

In `LaunchSpec` a parameter's value counts as given when JavaScript takes it for
true. userData and secrets go through the cascade of launchSpec and are checked
for nothing, so they are left out; so are the parameters the function overwrites.

In `IterateOverlap` an iteration counts one worker type in one step and plans any
number of units the room allows (the arithmetic is `CapacityChange`'s); the
rogue killer's failures are caught, all others end it; a process that exits takes
all its iterations with it. `outdated` is history: the iterations since whose
copy of the table a newer one was made. Instances are counted in units, each of 1 to
`Largest`; what an iteration may plan up to is `Most`, the highest limit there is
(`Maximum`, the larger of the two where they are crossed) and the last instance's
overshoot. A request that fails to its caller may land later (`late`), in any
iteration; `landed` is history: what landed so since a plan was last made. An update
that gives instances of a type another capacity is left out here: the
`Provisioner` has it.

## 3. Runs

| run | instance and bounds | shows |
|---|---|---|
| `scaling` | 27 rules (limits in order and crossed, ratios 0, 1/2, 1), 2-unit instances, 4 tasks, 2 losses | type invariant, `CapacityBounded`, `AnsweredOnce`, `MinimumRestored`, `BacklogClaimed` |
| `bids` | 3 zones in 2 regions, 2 instance types, prices below, between and above every limit or missing, changes to 4; also types of capacity -1, followed for 4 bids | `Overshoot`, `ChangeAccounted`, `NoInsaneBid`, `ReturnsAnOutcome`, `Terminates` |
| `ledger` | 1 worker type, amounts to 4 | `PlanFits` |
| `provisioner` | 1 name, 2 definitions, 2 regions, 3 edits, 1 fault, 1 loss, 2 tasks | `KillsOnlyRemoved`, `PlanWithinCeiling`, `KeepsLedger` |
| `provisioner_live` | 2 names, one instance of each at most, a region limit of 1, 1 edit, 1 fault, 2 losses, 1 task | `RemovedDrained`, `BacklogClaimed`, `MinimumKept` |
| `secrets` | 2 callers, one spawned and one chosen token, 2 faults | `InstanceHasSecret`, `SpentStaysGone` |
| `order` | 3 worker types, up to 5 requests in every mix, a cut at 3, any failures | `Reordered`, `InRounds`, `FairShare` |
| `api` | 2 clients, 1 name, 3 calls, 1 failure; 9 definitions, 7 of them wrong in a zone, a type, a region or everywhere; 1 accepted one has a negative capacity; lifetime 3 and period 2 units | `StoredLaunches`, `StoredFromChecked`, `LapsesOnlyAfterFailure`, `KeepsTable`, `QueueCatchesUp` |
| `overlap` | 2 iterations at once, 2 regions, 2 reports, 1 worker type of maximum 1 and instances to 2 units, 3 edits, 2 failures, overruns or late requests | `OverlapBounded`, `NewestKillsOnlyRemoved`, `PricesFromOneCall`, `RemovedDrained` |

Why these are enough to be of use: three edits are remove, create and remove or
update of the same name around one iteration, which every known way to confuse
the rogue killer needs, and they meet any one fault: a call that fails, a request
or a kill that lands late, or a crash. The process exits after two failed iterations
(`MaxFailures` = 2 instead of 10: only the count changes), which needs no fault
where an image is gone. Prices do not change in these runs: what dear options do
to a list of bids is in `bids`, for every list. Two-unit instances
under a maximum of 3 make the last instance overshoot; a region limit of one with
two worker types makes the cut-off bite whenever both are short of something. In
`provisioner_live` two losses take the same worker type from its minimum twice, or
both from theirs at once, when the limit leaves room for one of them only. A call of
`determineSpotBids` on positive capacities makes at most as many bids as units were
asked for, so `MaxPasses` = 4 cuts off only what goes on for ever. In `secrets` two
overlapping callers suffice for every order of load and removal.
In `api` three calls are a create that finds the name taken while a third call
removes or updates it; the definitions that pass list no zones or several, one
with a subnet of its own, and a managed and an unmanaged region; each wrong one
fails one rule. In
`order` five requests of three worker types leave passes with one, two and three
names and a cut within each. In `overlap` two overruns are what it takes for the
process to exit under `MaxFailures` = 2 with an old iteration still running, and
two-unit instances over a maximum of 1 make each plan overshoot.
All counters that could grow are bounded in guards (`MaxEdits`, `MaxFaults`,
`MaxTasks`, `MaxLosses`, `MaxChange`, `MaxPasses`, `MaxBids`, `MaxCalls`); the ledger's set `Amounts` is all of Nat in
the proofs and `0 .. 20` in the runs (`MCAmounts`), above anything reached.

Deadlock is checked wherever the process should never stop (`Provisioner`,
`CapacityLedger`, `SecretStore`, `DeclareLoop`, `IterateOverlap`). It is off for
`SpotBids` (both runs) and `RegionQueue`, which end, and for `ScalingLoop`, which
rests when all tasks are done and no change is due.

### Fairness

`Provisioner`: weak fairness of `Step`, the process's own progress, restart
included (lib-iterate schedules the next iteration after every one, the platform
restarts a process that exits), and of the calls and instances getting on:
terminate calls and late requests that are not reported lost are carried out,
requests are filled, booted instances claim tasks. No edit, fault, arrival or loss
is ever forced, and each is bounded, so liveness reads: once failures and edits
stop, ... . `ScalingLoop`: weak fairness of the iteration, booting, claiming and
finishing. `SpotBids`: of its only process. `DeclareLoop`: calls that were received
go on until they are answered, the loop goes round and time passes; no call,
failure or crash is forced. `IterateOverlap`: the runner starts iterations, and
each iteration gets on, one that was timed out too, as nothing stops it.
`BacklogClaimed` and `MinimumKept`
are about worker types that stay `Servable`: the image exists, there is an option
and none that stops the bidding, and no instance is left of a type that an update
took out of the definition.

### Disagreements between code and comments

Each is a run that TLC finds violated, one property each.

| run | the text | the code |
|---|---|---|
| `provisioner_unlaunchable` | unlaunchable worker types are ignored (`lib/provision.js:225`) | when there are no others, the iteration fails, and the process exits in the end |
| `bids_negative` | bids are made "based on the amount of capacity units needed" (`lib/worker-type.js:834`), and a capacity is a number of tasks (`:122`) | a negative capacity is accepted (`:603`) and makes the change grow (`:982`): the loop bids on and on, past any number of units asked for |
| `secrets_reuse` | the token cannot be used repeatedly (`lib/api-v1.js:578`) | overlapping `getSecret` calls both get the secret |

More disagreements are plain in the code and have no run:

- The last instance may take the capacity past `maxCapacity`, "the maximum
  capacity which we will ever run" (`lib/worker-type.js:94`), as the bid loop goes
  on while any change is left; by how much is bounded by `Overshoot` and
  `CapacityBounded`. Overlapping iterations do so by whole plans
  (`OverlapBounded`).
- The type bid on is sampled, not chosen by utility (`lib/worker-type.js:835`).
- The ratio's share of tasks is left waiting, so a `scalingRatio` between 0 and 1
  does not ensure idle capacity (`lib/worker-type.js:96`).
- The bid is twice the price that was compared with `maxPrice`
  (`lib/worker-type.js:925`; `schemas/create-worker-type-request.yml:71` calls it
  the most we'll pay). A bid that `minPrice` `'increased'`
  (`lib/worker-type.js:966`) may be lower than before.
- An iteration that was timed out may kill a worker type that was created since
  and that a later iteration spawned: it is no rogue (`lib/provision.js:157`).
  `NewestKillsOnlyRemoved` holds of the iteration with the newest copy only.
- Prices are to be updated every 5 minutes (`lib/aws-manager.js:217`), but the time
  compared is `___lastPricingUpdate`, with three underscores, and the time set has
  two: they are fetched in every iteration.
- `lastModified` can be compared "to see if changes have been made"
  (`lib/api-v1.js:352`), but requests of one millisecond store different definitions
  under one date, and a later one by another process's clock an earlier date. No
  property tells versions by their dates.
- An update "will overwrite the existing worker type definition"
  (`lib/api-v1.js:284`), but a key that is left out keeps its old value.
- An image or security groups that a zone other than the last listed one has of its
  own are never looked up (`lib/worker-type.js:736`); `StoredFromChecked` excepts
  zones that have them. A zone listed under the wrong region passes the tests and
  fails every other bid of the region; `FallbackInPlace` excepts the definition.
- The handler of `state` answers 404 for an unknown worker type and goes on.
- Neither process of the `Procfile` loads the `declare` component: the loop runs
  where somebody starts `node lib/main declare`.

## 4. Proofs

The theorems hold for every value of the constants that satisfies the named
assumptions: the sets of worker types, zones, instance types and overlapping
callers are finite and there is an instance type, bounds and limits are natural
numbers, `RatioDen`, `SpawnLimit` and `MaxFailures` are positive, the tokens
spawn() draws are nobody else's, a price history is a sequence of positive prices,
a capacity is not 0 and dates are positive numbers, the largest overlapping instance has
a unit, the names are a sequence without repetition. Every invariant and every action
property of the passing runs is stated by a theorem; two have a hypothesis of
their own, named below.

**`UnitLemmas`.** What one computation of the capacity change guarantees
(`ChangeStaysBelowCeiling`, `ChangeReachesMinimum`, `ChangeIsAnsweredOnce`), from a
lemma that the rounded ratio is a natural number; and the tools for data. Sums,
maxima and lists are folds, and the library's induction theorems cannot be used
(they take an operator). `SubsetInduction` says the same of a *set* of good
subsets, from the well-foundedness of inclusion among finite sets, and everything
inductive here goes through it: a sum grows by what one summand grows, lies between bounds, is that of
another function that agrees.

**`ScalingLoop_proofs`.** `CapacityBounded` is inductive given the types, because a
positive change is at most the room left and is covered with less than one
instance to spare; `AnsweredOnce` follows in one step.

**`SpotBids_proofs`, the bidding.** `Overshoot` says of the very bid that met the
change that it was needed; for `NoInsaneBid` the loop has to keep its list sane all
along. All but `ReturnsOnlyOutcomes` hold of negative capacities too. `BidsAccounted` and
`ReturnsOnlyOutcomes` turn the list of bids into a bag and follow its sums
(`BidBag`, `OutcomeInv`): each bid adds its units to what was bid and takes them
from what is left, so that the last list is a member of `BidOutcomes`. This is what
allows `Provisioner` to pick an outcome instead of running the loop.

**`SpotBids_proofs`, the queue.** `QueueTyped`, `NoRequestLost`, `RoundsFollowNames`
and `NobodyPushedOut`, all four invariants of `RegionQueue`, from one inductive
invariant, `QueueInv`. No request is in two places (`Unmixed`), and those of a
worker type are in the output or still its own (`Accounted`), so an output as long
as the input, which ends the passes, is all of it (`AllOfIt`: an injection between
finite sets of one size). In pass k every name before the turn has had k + 1
requests put out and every other k, unless it has none left (`Passed`), which is
why a new request ends the output of its round (`RoundsSoFar`, `InOrder`) and why
*every* prefix of the output is fair (`FairAt`): what was attempted is always such a
prefix, wherever the queue was cut (`Lined`).

**`CapacityLedger_proofs`.** `PlanFits`, an inequality each action changes on both
sides or in its favour.

**`Provisioner_proofs`.** `TypeCorrect`, then three results:

- `OnlyRemovedKilled`. `KillsOnlyRemoved` is not inductive: that a rogue was
  removed depends on where instances come from. The invariant `RogueInv` says so
  along the chain: every instance and every given-up request has a name that is or
  was in the table (`InstancesKnown`); the copy has only such names (`CopyKnown`);
  all the iteration works on is in its copy (`WorkFromCopy`), it submits in its last
  phase only (`SubmitsLast`) and starts with nothing (`StartsFresh`); and hence
  between copy and list every instance that is missing from the copy belongs to a
  removed name (`MissingRemoved`).
- `LedgerKept`, step by step: `Measured*` lemmas give for each action the step of
  the ledger it is, or that it is none. Counting a worker type *is* the ledger's
  `Plan` because the bids' units exceed the change by less than one instance
  (`BidOutcomes`); a spawn moves one instance from the plan to the units; an
  instance whose type the definition does not list counts as the code counts it.
  The ledger plans once for a worker type, so the iteration must (`OnePlan`): one
  whose queue is still to be read has no bids, and there are none outside the
  phases that use them. The hypothesis
  `Amounts = Nat` is that the ledger has all numbers: TLC needs a finite set, the
  units of arbitrary definitions have no bound.
- `PlansWithinCeiling`, for any amounts: the ledger's inductive invariant holds of
  the measured state (`Measured`, `PlanInv`), and `PlanFits` is the ceiling, with one instance of the
  largest type that the definition itself lists (`OnlyOptions`).

**`SecretStore_proofs`.** `TypeCorrect`; `InstanceHasSecret` from the order in
spawn() (`SpawnInv`: until the request is submitted no one carries the token).
`SpentStaysGone` needs where a secret could still come from: nobody is told
anything of a token before an instance carries it (`KnownInv`), an instance is
requested only after its secret was stored, and so no storing of its token is still
under way (`Coming`).

**`DeclareLoop_proofs`**, the launch specifications, the API and the loop:

- `TestsCoverBids`, that `TestLaunchSpecs` is enough for all bids. A region without
  listed zones is tested in its zone "a" only; if that test passes and the zone is
  not listed under another region, no zones are listed at all, and no layer depends
  on the zone. `LooksCoverBids` says the same of the lookups, for keys that no
  zone's layer gives. `StoredDefinitionsLaunch` and `StoredDefinitionsChecked` follow
  from the invariant that every stored definition, and the file of every call that is
  about to write, was accepted.
- `RoundsInTime`, with the hypothesis `Period < Lifetime` (24 and 36 hours in the
  code): without it the property is false. While nothing failed, a stored worker
  type is known to the queue until after the next round is due, or a call is on its
  way to declare it; what the current round has dealt with lasts a full lifetime, or
  is on its way (`LapseInv`).
- `CallsAreAtomic`, that the handlers implement `DefinitionTable`: each step of a
  handler is the abstract call, its answer, or neither; loads that precede a
  conditional write do not show.

**`IterateOverlap_proofs`.** `TypeCorrect`; `NewestSparesTheLiving`:
`NewestKillsOnlyRemoved` needs that whatever there is, or an older copy has, and the
newest copy lacks was removed (`MissingRemoved`), since older iterations go on
submitting from their copies (`WorkFromCopy`), whose names are or were in the table
(`Known`). `OverlapIsBounded`: no plan alone exceeds `Most`, and the sum of all plans and the
units stays within `Most` for each iteration, and what landed late (`PlanInv`).
`FindsMaxPrices`: the loop of `_findMaxPrices`, a fold in no particular order, finds
the highest price of each option. `PricesAreFromOneCall` follows, as `update`
assigns prices and zones in one step from what its own call collected.

Only model-checked: all liveness (`MinimumRestored`, `BacklogClaimed`,
`MinimumKept`, `Terminates`, `RemovedDrained`, `QueueCatchesUp`), because fairness
and ENABLED are out of TLAPS's reach; and the three violations, which are
counterexamples.

## 5. Plan

The components that carry state are modelled, and what is safe about them is
proved. What is left:

1. What the iteration's submission limit means for one region (`quota`), as a
   theorem beside `NobodyPushedOut`.
2. That the definitions `testLaunchSpecs` rejects are only those that fail a bid or
   break a rule it states.

### Not modelled

- The API's read-only handlers (a worker type, its last modification, names,
  summaries, launch specifications, `state`), and authorisation: they change no
  state.
- The migrations of rows of older versions (`lib/worker-type.js`): values of
  columns, one row at a time.
- The command line client (`lib/manage.js`): chains of API calls around files.
  The clients of `WorkerTypeApi` make such calls in any order; an update between
  its reading and its writing is lost, and nothing says otherwise.
- Monitoring, logging, exchanges, configuration and the small helpers, which keep
  no state that the program reads back.
