---------------------------- MODULE RegionQueue ----------------------------
(* The requests of one region in one iteration (lib/provision.js): they are    *)
(* put in order, round robin among worker types unless REQUEST_ORDER says      *)
(* random, cut to the limit, and submitted one after the other; a request that *)
(* fails is logged and the next one is submitted.                              *)
EXTENDS Integers, FiniteSets, Sequences, SequencesExt

CONSTANTS
    Names,          \* the worker types' names, as sort() puts them
    SpawnLimit,     \* requests submitted in one region (200)
    MaxBids         \* bound: requests of the region

ASSUME QueueAssumption ==
    /\ Names \in Seq(Range(Names)) /\ IsInjective(Names) /\ Names # <<>>
    /\ SpawnLimit \in Nat \ {0}
    /\ MaxBids \in Nat \ {0}

WorkerType == Range(Names)
Request    == [worker : WorkerType, bid : 1 .. MaxBids]

(* The iteration bids for one worker type after the other, so the requests of  *)
(* a worker type are next to each other; a region without any has no queue.    *)
Inputs ==
    LET Workers == UNION {[1 .. n -> WorkerType] : n \in 1 .. MaxBids}
        Grouped == {ws \in Workers : \A i, j \in DOMAIN ws :
                      i < j /\ ws[i] = ws[j] => ws[i + 1] = ws[i]}
    IN  {[i \in DOMAIN ws |-> [worker |-> ws[i], bid |-> i]] : ws \in Grouped}

VARIABLES
    input,          \* the region's requests as the iteration made them
    order,          \* REQUEST_ORDER
    byName,         \* requests not yet in order, by worker type
    turn,           \* the name whose turn it is
    output,         \* the requests put in order
    inRegion,       \* the requests to submit
    attempted,      \* those submitted, in vain or not
    hadSuccess,     \* whether one was submitted with success
    stage

queueVars ==
    <<input, order, byName, turn, output, inRegion, attempted, hadSuccess, stage>>

(* The requests of one worker type, pushed one after the other.                *)
Of(requests, w) ==
    LET own[n \in 0 .. Len(requests)] ==
          IF n = 0 THEN <<>>
          ELSE IF requests[n].worker = w THEN Append(own[n - 1], requests[n])
          ELSE own[n - 1]
    IN  own[Len(requests)]

QueueInit ==
    /\ input \in Inputs
    /\ order \in {"random", "round-robin"}
    /\ byName = [w \in WorkerType |-> Of(input, w)]
    /\ turn = 1
    /\ output = <<>> /\ inRegion = <<>> /\ attempted = <<>>
    /\ hadSuccess = FALSE
    /\ stage = "ordering"

-----------------------------------------------------------------------------
(* Permutations as functions, by position.                                     *)
Orders(n) == {p \in [1 .. n -> 1 .. n] : IsInjective(p)}

(* randomizeRequests: any order at all.                                        *)
Randomize ==
    /\ stage = "ordering" /\ order = "random"
    /\ output' \in {[i \in DOMAIN input |-> input[p[i]]] :
                      p \in Orders(Len(input))}
    /\ stage' = "ordered"
    /\ UNCHANGED <<input, order, byName, turn, inRegion, attempted, hadSuccess>>

(* Mutant: a worker type keeps its turn until all its requests are popped.     *)
VisitKeepingTurn ==
    LET w == Names[turn] IN
    /\ stage = "ordering" /\ order = "round-robin"
    /\ byName' = [byName EXCEPT ![w] = IF @ = <<>> THEN @ ELSE Front(@)]
    /\ output' = IF byName[w] = <<>> THEN output ELSE Append(output, Last(byName[w]))
    /\ turn' = IF byName'[w] # <<>> THEN turn
               ELSE IF turn = Len(Names) THEN 1 ELSE turn + 1
    /\ stage' = IF turn' = 1 /\ Len(output') >= Len(input) THEN "ordered" ELSE stage
    /\ UNCHANGED <<input, order, inRegion, attempted, hadSuccess>>

(* Mutant: one pass over the names is taken to be enough.                      *)
VisitOnce ==
    LET w == Names[turn] IN
    /\ stage = "ordering" /\ order = "round-robin"
    /\ byName' = [byName EXCEPT ![w] = IF @ = <<>> THEN @ ELSE Front(@)]
    /\ output' = IF byName[w] = <<>> THEN output ELSE Append(output, Last(byName[w]))
    /\ turn' = IF turn = Len(Names) THEN 1 ELSE turn + 1
    /\ stage' = IF turn' = 1 THEN "ordered" ELSE stage
    /\ UNCHANGED <<input, order, inRegion, attempted, hadSuccess>>

Undefined == [worker |-> Names[1], bid |-> 0]

(* Mutant: what pop() returns is pushed without a look at it.                  *)
VisitUntested ==
    LET w == Names[turn] IN
    /\ stage = "ordering" /\ order = "round-robin"
    /\ byName' = [byName EXCEPT ![w] = IF @ = <<>> THEN @ ELSE Front(@)]
    /\ output' = Append(output, IF byName[w] = <<>> THEN Undefined
                                ELSE Last(byName[w]))
    /\ turn' = IF turn = Len(Names) THEN 1 ELSE turn + 1
    /\ stage' = IF turn' = 1 /\ Len(output') >= Len(input) THEN "ordered" ELSE stage
    /\ UNCHANGED <<input, order, inRegion, attempted, hadSuccess>>

(* roundRobinRequests: each pass over the names pops one request of each, as   *)
(* long as it has any; the passes end when all requests are in the output.     *)
Visit ==
    LET w == Names[turn] IN
    /\ stage = "ordering" /\ order = "round-robin"
    /\ byName' = [byName EXCEPT ![w] = IF @ = <<>> THEN @ ELSE Front(@)]
    /\ output' = IF byName[w] = <<>> THEN output ELSE Append(output, Last(byName[w]))
    /\ turn' = IF turn = Len(Names) THEN 1 ELSE turn + 1
    /\ stage' = IF turn' = 1 /\ Len(output') >= Len(input) THEN "ordered" ELSE stage
    /\ UNCHANGED <<input, order, inRegion, attempted, hadSuccess>>

(* Mutant: the wrong end of the list is cut.                                   *)
CutFront ==
    /\ stage = "ordered"
    /\ inRegion' = IF Len(output) <= SpawnLimit THEN output
                   ELSE SubSeq(output, Len(output) - SpawnLimit + 1, Len(output))
    /\ stage' = "submitting"
    /\ UNCHANGED <<input, order, byName, turn, output, attempted, hadSuccess>>

Cut ==
    /\ stage = "ordered"
    /\ inRegion' = IF Len(output) <= SpawnLimit THEN output
                   ELSE SubSeq(output, 1, SpawnLimit)
    /\ stage' = "submitting"
    /\ UNCHANGED <<input, order, byName, turn, output, attempted, hadSuccess>>

(* The next request is shifted and spawn() succeeds or throws.                 *)
Submit(success) ==
    /\ stage = "submitting" /\ inRegion # <<>>
    /\ attempted' = Append(attempted, Head(inRegion))
    /\ inRegion' = Tail(inRegion)
    /\ hadSuccess' = (hadSuccess \/ success)
    /\ UNCHANGED <<input, order, byName, turn, output, stage>>

Finish ==
    /\ stage = "submitting" /\ inRegion = <<>>
    /\ stage' = "done"
    /\ UNCHANGED <<input, order, byName, turn, output, inRegion, attempted,
                   hadSuccess>>

QueueNext ==
    \/ Randomize \/ Visit \/ Cut
    \/ \E success \in BOOLEAN : Submit(success)
    \/ Finish

QueueSpec == QueueInit /\ [][QueueNext]_queueVars

-----------------------------------------------------------------------------
QueueTypeOK ==
    /\ input \in Inputs
    /\ order \in {"random", "round-robin"}
    /\ byName \in [WorkerType -> Seq(Request)]
    /\ turn \in 1 .. Len(Names)
    /\ output \in Seq(Request) /\ inRegion \in Seq(Request)
    /\ attempted \in Seq(Request)
    /\ hadSuccess \in BOOLEAN
    /\ stage \in {"ordering", "ordered", "submitting", "done"}

(* Ordering loses no request and doubles none, however the worker types'       *)
(* numbers of requests differ: a request lost here is capacity never asked     *)
(* for, one doubled is capacity nobody planned.                                *)
Reordered ==
    stage # "ordering" => /\ Len(output) = Len(input)
                       /\ Range(output) = Range(input)

(* Requests of the worker type of the i-th one before it.                      *)
RoundOf(requests, i) ==
    Cardinality({j \in 1 .. i - 1 : requests[j].worker = requests[i].worker})

RankOf(w) == CHOOSE n \in DOMAIN Names : Names[n] = w

(* What the comment on roundRobinRequests shows by example: the requests come  *)
(* in rounds, each with one request of every worker type that has any left, in *)
(* the order of the names.                                                     *)
InRounds ==
    order = "round-robin" =>
        \A i, j \in DOMAIN output :
            i < j => \/ RoundOf(output, i) < RoundOf(output, j)
                     \/ /\ RoundOf(output, i) = RoundOf(output, j)
                        /\ RankOf(output[i].worker) < RankOf(output[j].worker)

(* Whatever fails and wherever the queue is cut, no worker type gets two       *)
(* attempts more than one that still has requests waiting or cut off: a worker *)
(* type with many bids does not push the others out.                           *)
FairShare ==
    order = "round-robin" =>
        \A v, w \in WorkerType :
            Len(Of(attempted, w)) < Len(Of(input, w)) =>
                Len(Of(attempted, v)) <= Len(Of(attempted, w)) + 1
=============================================================================
