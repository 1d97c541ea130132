--------------------------- MODULE IterateOverlap ---------------------------
(* The iteration runner (lib/main.js) and iterations (lib/provision.js) that   *)
(* overlap: one that takes longer than maxIterationTime is counted as failed   *)
(* and the next one is started, but it goes on, with the table as it copied    *)
(* it, next to the later ones.  An iteration is the Provisioner module's with  *)
(* its calls made coarser: which types instances are of is left out, not how   *)
(* many units they have.  That number is fixed when the instance is requested; *)
(* an update that gives instances of a type another capacity is left out.      *)
EXTENDS PricingUpdate

CONSTANTS
    WorkerType,
    Maximum,        \* the highest minCapacity or maxCapacity there ever is
    Largest,        \* capacity of the largest instance
    MaxFailures,    \* failed iterations in a row that end the process (10)
    MaxEdits,       \* bound: definitions created and removed
    MaxFaults       \* bound: failures and iterations that take too long

ASSUME OverlapAssumption ==
    /\ IsFiniteSet(Caller)
    /\ Maximum \in Nat /\ Largest \in Nat \ {0} /\ MaxFailures \in Nat \ {0}
    /\ MaxEdits \in Nat /\ MaxFaults \in Nat

NoIteration == "none"
ASSUME NoIteration \notin Caller

VARIABLES
    table,          \* the worker types there are
    units,          \* capacity of the instances and open requests of each
    late,           \* units of requests that failed, to be carried out yet
    current,        \* the iteration the runner waits for
    at,             \* how far each iteration is
    copy,           \* the worker types each has loaded
    todo,           \* those it has yet to kill, or yet to count
    plan,           \* units it has yet to submit
    fruitless,      \* iterations with requests none of which succeeded so far
    outdated,       \* history: iterations since whose copy another was made
    failures,       \* failed iterations in a row
    edits, faults,
    removed,        \* history: worker types ever removed
    landed          \* history: late units of each since a plan was made for it

worldVars  == <<table, units, late, edits, removed, landed>>
localVars  == <<at, copy, todo, plan, fruitless, outdated>>
runnerVars == <<current, failures, faults>>
vars == <<worldVars, localVars, runnerVars, pricingVars>>

Phase  == {"idle", "load", "update", "list", "kill", "count", "submit"}
NoPlan == [w \in WorkerType |-> 0]

(* A change is covered to the limit, and by the last instance past it.         *)
Most == Maximum + Largest - 1

Init ==
    /\ PricingInit
    /\ table = {} /\ units = NoPlan /\ late = NoPlan /\ landed = NoPlan
    /\ current = NoIteration
    /\ at = [i \in Caller |-> "idle"]
    /\ copy = [i \in Caller |-> {}] /\ todo = [i \in Caller |-> {}]
    /\ plan = [i \in Caller |-> NoPlan]
    /\ fruitless = {} /\ outdated = {}
    /\ failures = 0 /\ edits = 0 /\ faults = 0
    /\ removed = {}

Fault == faults < MaxFaults /\ faults' = faults + 1

(* What the iterations of `ended` hold in local variables is gone.             *)
ForgetLocals(ended) ==
    /\ at' = [i \in Caller |-> IF i \in ended THEN "idle" ELSE at[i]]
    /\ copy' = [i \in Caller |-> IF i \in ended THEN {} ELSE copy[i]]
    /\ todo' = [i \in Caller |-> IF i \in ended THEN {} ELSE todo[i]]
    /\ plan' = [i \in Caller |-> IF i \in ended THEN NoPlan ELSE plan[i]]
    /\ fruitless' = fruitless \ ended /\ outdated' = outdated \ ended

-----------------------------------------------------------------------------
(* The runner starts an iteration when it waits for none.                      *)
StartIteration(i) ==
    /\ current = NoIteration /\ at[i] = "idle"
    /\ current' = i
    /\ at' = [at EXCEPT ![i] = "load"]
    /\ UNCHANGED <<worldVars, copy, todo, plan, fruitless, outdated, failures,
                   faults, pricingVars>>

(* A failure is counted; too many in a row end the process and all iterations. *)
CountFailure(ended) ==
    /\ current' = NoIteration
    /\ IF failures + 1 < MaxFailures
       THEN failures' = failures + 1 /\ ForgetLocals(ended) /\ Forget(ended)
       ELSE failures' = 0 /\ ForgetLocals(Caller) /\ Forget(Caller)
    /\ IF failures + 1 < MaxFailures THEN UNCHANGED <<availableAZ, pricing>>
       ELSE availableAZ' = Nothing /\ pricing' = Nothing

(* maxIterationTime has passed: the iteration counts as failed and goes on.    *)
TimeOut ==
    /\ current # NoIteration /\ Fault
    /\ CountFailure({})
    /\ UNCHANGED worldVars

(* Nobody looks at how an iteration ends that was timed out.                   *)
Fails(i) ==
    /\ IF i = current THEN CountFailure({i})
       ELSE /\ ForgetLocals({i}) /\ Forget({i})
            /\ UNCHANGED <<current, failures, availableAZ, pricing>>
    /\ UNCHANGED worldVars

(* A call fails that is not caught: loading, pricing, counting all worker      *)
(* types, or checking which can be launched.                                   *)
IterationFails(i) ==
    /\ at[i] \in {"load", "update", "count"} /\ Fault
    /\ Fails(i)

(* There were requests and not one succeeded.                                  *)
NothingSubmitted(i) ==
    /\ at[i] = "submit" /\ plan[i] = NoPlan /\ i \in fruitless
    /\ Fails(i)
    /\ UNCHANGED faults

IterationDone(i) ==
    /\ at[i] = "submit" /\ plan[i] = NoPlan /\ i \notin fruitless
    /\ ForgetLocals({i})
    /\ IF i = current THEN current' = NoIteration /\ failures' = 0
       ELSE UNCHANGED <<current, failures>>
    /\ UNCHANGED <<worldVars, faults, pricingVars>>

-----------------------------------------------------------------------------
LoadAll(i) ==
    /\ at[i] = "load"
    /\ copy' = [copy EXCEPT ![i] = table]
    /\ outdated' = {j \in Caller \ {i} : at[j] \notin {"idle", "load"}}
    /\ at' = [at EXCEPT ![i] = "update"]
    /\ BeginUpdate(i)
    /\ UNCHANGED <<worldVars, todo, plan, fruitless, runnerVars>>

FetchRegion(i) ==
    /\ \E r \in ManagedRegions, report \in Report : Fetch(i, r, report)
    /\ UNCHANGED <<worldVars, localVars, runnerVars>>

Updated(i) ==
    /\ at[i] = "update"
    /\ EndUpdate(i)
    /\ at' = [at EXCEPT ![i] = "list"]
    /\ UNCHANGED <<worldVars, copy, todo, plan, fruitless, outdated,
                   runnerVars>>

(* Mutant: an iteration without worker types returns before the rogue killer.  *)
ListUnlessNone(i) ==
    /\ at[i] = "list"
    /\ todo' = [todo EXCEPT ![i] =
                  {w \in WorkerType : units[w] > 0 /\ copy[i] # {}} \ copy[i]]
    /\ at' = [at EXCEPT ![i] = "kill"]
    /\ UNCHANGED <<worldVars, copy, plan, fruitless, outdated, runnerVars,
                   pricingVars>>

(* listWorkerTypes: worker types with instances that are not in the copy are   *)
(* rogues.                                                                     *)
ListExtant(i) ==
    /\ at[i] = "list"
    /\ todo' = [todo EXCEPT ![i] = {w \in WorkerType : units[w] > 0} \ copy[i]]
    /\ at' = [at EXCEPT ![i] = "kill"]
    /\ UNCHANGED <<worldVars, copy, plan, fruitless, outdated, runnerVars,
                   pricingVars>>

Kill(i, w) ==
    /\ at[i] = "kill" /\ w \in todo[i]
    /\ units' = [units EXCEPT ![w] = 0]
    /\ todo' = [todo EXCEPT ![i] = @ \ {w}]
    /\ UNCHANGED <<table, late, edits, removed, landed, at, copy, plan, fruitless,
                   outdated, runnerVars, pricingVars>>

(* Mutant: the worker types are looked up again when their turn comes.         *)
KilledReloading(i) ==
    /\ at[i] = "kill" /\ todo[i] = {}
    /\ at' = [at EXCEPT ![i] = "count"]
    /\ todo' = [todo EXCEPT ![i] = table]
    /\ UNCHANGED <<worldVars, copy, plan, fruitless, outdated, runnerVars,
                   pricingVars>>

Killed(i) ==
    /\ at[i] = "kill" /\ todo[i] = {}
    /\ at' = [at EXCEPT ![i] = "count"]
    /\ todo' = [todo EXCEPT ![i] = copy[i]]
    /\ UNCHANGED <<worldVars, copy, plan, fruitless, outdated, runnerVars,
                   pricingVars>>

(* A call of the rogue killer fails, some worker types killed and some not: it *)
(* is caught and the iteration goes on.                                        *)
RogueKillerFails(i) ==
    /\ at[i] \in {"list", "kill"} /\ Fault
    /\ \E killed \in SUBSET todo[i] :
          units' = [w \in WorkerType |-> IF w \in killed THEN 0 ELSE units[w]]
    /\ at' = [at EXCEPT ![i] = "count"]
    /\ todo' = [todo EXCEPT ![i] = copy[i]]
    /\ UNCHANGED <<table, late, edits, removed, landed, copy, plan, fruitless,
                   outdated, current, failures, pricingVars>>

(* Mutant: the plan is made for the maximum whatever there is.                 *)
CountNothing(i, w) ==
    /\ at[i] = "count" /\ w \in todo[i]
    /\ \E n \in 0 .. Most :
          /\ plan' = [plan EXCEPT ![i][w] = n]
          /\ landed' = IF n > 0 THEN [landed EXCEPT ![w] = 0] ELSE landed
    /\ todo' = [todo EXCEPT ![i] = @ \ {w}]
    /\ UNCHANGED <<table, units, late, edits, removed, at, copy, fruitless,
                   outdated, runnerVars, pricingVars>>

(* What there is of a worker type is counted, and whatever the demand, no more *)
(* is planned than there is room for, the last instance apart.  Other          *)
(* iterations' plans are not seen, nor is what lands late.                     *)
Count(i, w) ==
    /\ at[i] = "count" /\ w \in todo[i]
    /\ \E n \in 0 .. Most :
          /\ n > 0 => units[w] + n <= Most
          /\ plan' = [plan EXCEPT ![i][w] = n]
          /\ landed' = IF n > 0 THEN [landed EXCEPT ![w] = 0] ELSE landed
    /\ todo' = [todo EXCEPT ![i] = @ \ {w}]
    /\ UNCHANGED <<table, units, late, edits, removed, at, copy, fruitless,
                   outdated, runnerVars, pricingVars>>

Counted(i) ==
    /\ at[i] = "count" /\ todo[i] = {}
    /\ at' = [at EXCEPT ![i] = "submit"]
    /\ fruitless' = IF plan[i] = NoPlan THEN fruitless ELSE fruitless \cup {i}
    /\ UNCHANGED <<worldVars, copy, todo, plan, outdated, runnerVars,
                   pricingVars>>

(* What becomes of a request for an instance of k units: it is submitted, or   *)
(* fails, or was never made as the worker type cannot be launched, or fails to *)
(* its caller and is carried out later.                                        *)
Request(i, w, k) ==
    \/ /\ units' = [units EXCEPT ![w] = @ + k] /\ fruitless' = fruitless \ {i}
       /\ UNCHANGED <<late, faults>>
    \/ UNCHANGED <<units, fruitless, late, faults>>
    \/ /\ Fault /\ late' = [late EXCEPT ![w] = @ + k]
       /\ UNCHANGED <<units, fruitless>>

(* Mutant: a worker type's requests have no end.                               *)
SubmitUnplanned(i, w) ==
    /\ at[i] = "submit"
    /\ \E k \in 1 .. Largest :
          plan' = [plan EXCEPT ![i][w] = @ - k] /\ Request(i, w, k)
    /\ UNCHANGED <<table, edits, removed, landed, at, copy, todo, outdated,
                   current, failures, pricingVars>>

Submit(i, w) ==
    /\ at[i] = "submit"
    /\ \E k \in 1 .. Largest :
          /\ k <= plan[i][w]
          /\ plan' = [plan EXCEPT ![i][w] = @ - k]
          /\ Request(i, w, k)
    /\ UNCHANGED <<table, edits, removed, landed, at, copy, todo, outdated,
                   current, failures, pricingVars>>

-----------------------------------------------------------------------------
Create(w) ==
    /\ w \notin table /\ edits < MaxEdits
    /\ table' = table \cup {w} /\ edits' = edits + 1
    /\ UNCHANGED <<units, late, removed, landed, localVars, runnerVars, pricingVars>>

RemoveType(w) ==
    /\ w \in table /\ edits < MaxEdits
    /\ table' = table \ {w} /\ edits' = edits + 1
    /\ removed' = removed \cup {w}
    /\ UNCHANGED <<units, late, landed, localVars, runnerVars, pricingVars>>

(* Requests given up, by an iteration that may have ended since, are carried   *)
(* out all the same.                                                           *)
LateLands(w) ==
    /\ late[w] > 0
    /\ \E k \in 1 .. late[w] :
          /\ late' = [late EXCEPT ![w] = @ - k]
          /\ units' = [units EXCEPT ![w] = @ + k]
          /\ landed' = [landed EXCEPT ![w] = @ + k]
    /\ UNCHANGED <<table, edits, removed, localVars, runnerVars, pricingVars>>

(* Instances go away.                                                          *)
Lose(w) ==
    /\ \E k \in 1 .. units[w] : units' = [units EXCEPT ![w] = @ - k]
    /\ UNCHANGED <<table, late, edits, removed, landed, localVars, runnerVars,
                   pricingVars>>

Proceed(i) ==
    \/ LoadAll(i) \/ FetchRegion(i) \/ Updated(i) \/ ListExtant(i)
    \/ \E w \in WorkerType : Kill(i, w) \/ Count(i, w) \/ Submit(i, w)
    \/ Killed(i) \/ Counted(i) \/ IterationDone(i) \/ NothingSubmitted(i)

Next ==
    \/ \E i \in Caller : \/ StartIteration(i) \/ Proceed(i)
                         \/ IterationFails(i) \/ RogueKillerFails(i)
    \/ TimeOut
    \/ \E w \in WorkerType : Create(w) \/ RemoveType(w) \/ LateLands(w) \/ Lose(w)

(* Iterations are started and get on, those that were timed out too.           *)
Spec ==
    /\ Init /\ [][Next]_vars
    /\ WF_vars(\E i \in Caller : StartIteration(i))
    /\ \A i \in Caller : WF_vars(Proceed(i))

-----------------------------------------------------------------------------
TypeOK ==
    /\ PricingTypeOK
    /\ table \subseteq WorkerType /\ removed \subseteq WorkerType
    /\ units \in [WorkerType -> Nat] /\ late \in [WorkerType -> Nat]
    /\ landed \in [WorkerType -> Nat]
    /\ current \in Caller \cup {NoIteration}
    /\ at \in [Caller -> Phase]
    /\ \A i \in Caller : /\ copy[i] \subseteq WorkerType
                         /\ todo[i] \subseteq WorkerType
                         /\ plan[i] \in [WorkerType -> 0 .. Most]
                         /\ i \in asking <=> at[i] = "update"
    /\ fruitless \subseteq Caller /\ outdated \subseteq Caller
    /\ failures \in 0 .. MaxFailures - 1
    /\ edits \in 0 .. MaxEdits /\ faults \in 0 .. MaxFaults

(* Overlapping iterations do not know of each other's plans and may take a     *)
(* worker type past its maximum, but never past as many times what one may     *)
(* reach (the maximum, and less than one instance) as iterations overlap: each *)
(* counts before it plans.  Requests that landed late since come on top.       *)
OverlapBounded ==
    \A w \in WorkerType :
        units[w] + SumFunction([i \in Caller |-> plan[i][w]])
            <= Cardinality(Caller) * Most + landed[w]

(* "Kill anything which is a rogue": an iteration kills only worker types that *)
(* were removed, whatever older iterations still submit and copies they go by. *)
(* (One whose copy is no longer the newest may kill what it does not know, a   *)
(* worker type created since and spawned by a later iteration.)                *)
NewestKillsOnlyRemoved ==
    \A i \in Caller \ outdated :
        at[i] = "kill" => todo[i] \subseteq removed

(* A removed worker type is drained, although iterations that know it as it    *)
(* was may submit requests for it after it was killed.                         *)
RemovedDrained ==
    \A w \in WorkerType :
        [](w \in removed /\ w \notin table => <>(units[w] = 0 \/ w \in table))
=============================================================================
