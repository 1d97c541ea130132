----------------------- MODULE IterateOverlap_proofs -----------------------
(* Whom the rogue killer reaches and how much is submitted when iterations      *)
(* overlap, for any number of iterations, worker types, edits and failures.    *)
EXTENDS IterateOverlap, UnitLemmas, SequenceTheorems

USE DEF worldVars, localVars, runnerVars

LocalsTyped ==
    /\ at \in [Caller -> Phase]
    /\ copy \in [Caller -> SUBSET WorkerType]
    /\ todo \in [Caller -> SUBSET WorkerType]
    /\ plan \in [Caller -> [WorkerType -> Nat]]
    /\ units \in [WorkerType -> Nat] /\ late \in [WorkerType -> Nat]

LEMMA MostNat == Most \in Nat /\ Maximum \in Nat /\ IsFiniteSet(Caller) /\ 0 \in 0 .. Most
BY OverlapAssumption DEF Most

(* Instances, late requests and copies have names that are or were in the      *)
(* table.                                                                      *)
Known ==
    /\ \A w \in WorkerType : units[w] > 0 \/ late[w] > 0 => w \in table \cup removed
    /\ \A i \in Caller : copy[i] \subseteq table \cup removed

(* An iteration works on what is in its copy, and starts with nothing.         *)
WorkFromCopy ==
    \A i \in Caller :
        /\ \A w \in WorkerType : plan[i][w] > 0 => w \in copy[i]
        /\ at[i] \in {"idle", "load"} => \A w \in WorkerType : plan[i][w] = 0
        /\ at[i] = "count" => todo[i] \subseteq copy[i]

(* What the newest copy lacks, and there is or an older one has, was removed.  *)
MissingRemoved ==
    \A i \in Caller \ outdated : \A w \in WorkerType :
        /\ at[i] \notin {"idle", "load"}
        /\ w \notin copy[i]
        /\ units[w] > 0 \/ late[w] > 0 \/ \E j \in Caller : w \in copy[j]
        => w \in removed

IInv == LocalsTyped /\ Known /\ WorkFromCopy /\ MissingRemoved /\ NewestKillsOnlyRemoved

LEMMA InitIInv == Init => IInv
BY DEF Init, IInv, LocalsTyped, Known, WorkFromCopy, MissingRemoved,
       NewestKillsOnlyRemoved, NoPlan, Phase

(* However many iterations end, the others are none the worse.                 *)
LEMMA Forgotten ==
    ASSUME IInv, NEW ended, ForgetLocals(ended), UNCHANGED worldVars
    PROVE  IInv'
<1>1. LocalsTyped'
  BY DEF IInv, LocalsTyped, ForgetLocals, NoPlan, Phase
<1>2. Known'
  BY DEF IInv, LocalsTyped, Known, ForgetLocals
<1>3. WorkFromCopy'
  BY DEF IInv, LocalsTyped, WorkFromCopy, ForgetLocals, NoPlan
<1>4. MissingRemoved'
  BY DEF IInv, LocalsTyped, MissingRemoved, ForgetLocals
<1>5. NewestKillsOnlyRemoved'
  BY DEF IInv, NewestKillsOnlyRemoved, ForgetLocals
<1>6. QED
  BY <1>1, <1>2, <1>3, <1>4, <1>5 DEF IInv

LEMMA FailsIInv ==
    ASSUME IInv, NEW i \in Caller, Fails(i)
    PROVE  IInv'
BY Forgotten DEF Fails, CountFailure

LEMMA LoadAllIInv ==
    ASSUME IInv, NEW i \in Caller, LoadAll(i), table \subseteq WorkerType
    PROVE  IInv'
<1>1. LocalsTyped'
  BY DEF IInv, LocalsTyped, LoadAll, Phase
<1>2. Known'
  BY DEF IInv, LocalsTyped, Known, LoadAll
<1>3. WorkFromCopy'
  BY DEF IInv, LocalsTyped, WorkFromCopy, LoadAll
<1>4. MissingRemoved'
  BY DEF IInv, LocalsTyped, Known, MissingRemoved, LoadAll
<1>5. NewestKillsOnlyRemoved'
  BY DEF IInv, LocalsTyped, NewestKillsOnlyRemoved, LoadAll
<1>6. QED
  BY <1>1, <1>2, <1>3, <1>4, <1>5 DEF IInv

LEMMA ListExtantIInv ==
    ASSUME IInv, NEW i \in Caller, ListExtant(i)
    PROVE  IInv'
<1>1. LocalsTyped' /\ Known'
  BY DEF IInv, LocalsTyped, Known, ListExtant, Phase
<1>2. WorkFromCopy' /\ MissingRemoved'
  BY DEF IInv, LocalsTyped, WorkFromCopy, MissingRemoved, ListExtant
<1>3. NewestKillsOnlyRemoved'
  BY DEF IInv, LocalsTyped, MissingRemoved, NewestKillsOnlyRemoved, ListExtant
<1>4. QED
  BY <1>1, <1>2, <1>3 DEF IInv

(* Killing and losing take instances away, and iterations that pass from call  *)
(* to call, other than the three whose lemmas follow, work on less or the same.*)
LEMMA QuietStep ==
    ASSUME IInv, UNCHANGED <<removed, copy, plan, outdated>>,
           table \subseteq table' \cup removed,
           units' \in [WorkerType -> Nat],
           \A w \in WorkerType : units'[w] <= units[w], UNCHANGED late,
           at' \in [Caller -> Phase], todo' \in [Caller -> SUBSET WorkerType],
           \A i \in Caller :
               /\ at'[i] \in {"idle", "load"} <=> at[i] \in {"idle", "load"}
               /\ at'[i] = "kill" => at[i] = "kill" /\ todo'[i] \subseteq todo[i]
               /\ at'[i] = "count" => \/ at[i] = "count" /\ todo'[i] \subseteq todo[i]
                                      \/ todo'[i] = copy[i]
    PROVE  IInv'
<1>1. LocalsTyped'
  BY DEF IInv, LocalsTyped
<1>2. \A w \in WorkerType : units'[w] > 0 => units[w] > 0
  BY DEF IInv, LocalsTyped
<1>3. Known'
  BY <1>2 DEF IInv, Known
<1>4. WorkFromCopy'
  BY DEF IInv, WorkFromCopy
<1>5. MissingRemoved'
  BY <1>2 DEF IInv, MissingRemoved
<1>6. NewestKillsOnlyRemoved'
  BY DEF IInv, NewestKillsOnlyRemoved
<1>7. QED
  BY <1>1, <1>3, <1>4, <1>5, <1>6 DEF IInv

LEMMA CountIInv ==
    ASSUME IInv, NEW i \in Caller, NEW w \in WorkerType, Count(i, w)
    PROVE  IInv'
<1>1. PICK n \in 0 .. Most : plan' = [plan EXCEPT ![i][w] = n]
  BY DEF Count
<1>2. n \in Nat
  BY MostNat
<1>3. LocalsTyped'
  BY <1>1, <1>2 DEF IInv, LocalsTyped, Count
<1>4. Known' /\ MissingRemoved'
  BY DEF IInv, Known, MissingRemoved, Count
<1>5. WorkFromCopy'
  BY <1>1 DEF IInv, LocalsTyped, WorkFromCopy, Count
<1>6. NewestKillsOnlyRemoved'
  BY DEF IInv, LocalsTyped, NewestKillsOnlyRemoved, Count
<1>7. QED
  BY <1>3, <1>4, <1>5, <1>6 DEF IInv

(* The worker type is in the copy of the iteration that submits for it.        *)
LEMMA SubmitIInv ==
    ASSUME IInv, NEW i \in Caller, NEW w \in WorkerType, Submit(i, w)
    PROVE  IInv'
<1>2. PICK k \in 1 .. Largest : /\ k <= plan[i][w]
                               /\ plan' = [plan EXCEPT ![i][w] = @ - k]
                               /\ Request(i, w, k)
  BY DEF Submit
<1>t. /\ k \in Nat /\ k > 0 /\ plan[i][w] \in Nat /\ plan[i][w] - k \in Nat
      /\ units[w] + k \in Nat /\ late[w] + k \in Nat
  BY <1>2, OverlapAssumption DEF IInv, LocalsTyped
<1>1. w \in copy[i]
  BY <1>2, <1>t DEF IInv, WorkFromCopy
<1>l. LocalsTyped'
  BY <1>2, <1>t DEF IInv, LocalsTyped, Submit, Request
<1>3. /\ \A v \in WorkerType : units'[v] > 0 \/ late'[v] > 0
                                 => units[v] > 0 \/ late[v] > 0 \/ v = w
      /\ \A j \in Caller, v \in WorkerType : plan'[j][v] > 0 => plan[j][v] > 0
  <2>1. \A v \in WorkerType \ {w} : units'[v] = units[v] /\ late'[v] = late[v]
    BY <1>2 DEF IInv, LocalsTyped, Request
  <2>2. \A j \in Caller, v \in WorkerType :
           IF j = i /\ v = w THEN plan'[j][v] = plan[j][v] - k ELSE plan'[j][v] = plan[j][v]
    BY <1>2 DEF IInv, LocalsTyped
  <2>3. \A j \in Caller, v \in WorkerType : plan'[j][v] > 0 => plan[j][v] > 0
    BY <1>t, <2>2 DEF IInv, LocalsTyped
  <2> QED
    BY <2>1, <2>3
<1>4. Known' /\ MissingRemoved'
  BY <1>1, <1>3 DEF IInv, Known, MissingRemoved, Submit
<1>5. WorkFromCopy'
  BY <1>3 DEF IInv, LocalsTyped, WorkFromCopy, Submit
<1>6. NewestKillsOnlyRemoved'
  BY DEF IInv, NewestKillsOnlyRemoved, Submit
<1>7. QED
  BY <1>l, <1>4, <1>5, <1>6 DEF IInv

(* Late requests have names that are or were in the table.                     *)
LEMMA LateLandsIInv ==
    ASSUME IInv, NEW w \in WorkerType, LateLands(w)
    PROVE  IInv'
<1>1. PICK k \in 1 .. late[w] : /\ late' = [late EXCEPT ![w] = @ - k]
                               /\ units' = [units EXCEPT ![w] = @ + k]
  BY DEF LateLands
<1>2. /\ k \in Nat /\ late[w] - k \in Nat /\ units[w] + k \in Nat /\ late[w] > 0
  BY <1>1 DEF IInv, LocalsTyped
<1>3. LocalsTyped'
  BY <1>1, <1>2 DEF IInv, LocalsTyped, LateLands
<1>4. \A v \in WorkerType : units'[v] > 0 \/ late'[v] > 0 => units[v] > 0 \/ late[v] > 0
  BY <1>1, <1>2 DEF IInv, LocalsTyped
<1>5. Known' /\ MissingRemoved'
  BY <1>4 DEF IInv, Known, MissingRemoved, LateLands
<1>6. WorkFromCopy' /\ NewestKillsOnlyRemoved'
  BY DEF IInv, WorkFromCopy, NewestKillsOnlyRemoved, LateLands
<1>7. QED
  BY <1>3, <1>5, <1>6 DEF IInv

LEMMA ProceedIInv ==
    ASSUME IInv, NEW i \in Caller, Proceed(i), table \subseteq WorkerType
    PROVE  IInv'
<1>1. CASE FetchRegion(i) \/ Updated(i) \/ Killed(i) \/ Counted(i)
  <2> USE DEF IInv, LocalsTyped, Phase
  <2>1. CASE FetchRegion(i)
    BY <2>1, QuietStep DEF FetchRegion
  <2>2. CASE Updated(i)
    BY <2>2, QuietStep DEF Updated
  <2>3. CASE Killed(i)
    BY <2>3, QuietStep DEF Killed
  <2>4. CASE Counted(i)
    BY <2>4, QuietStep DEF Counted
  <2>5. QED
    BY <1>1, <2>1, <2>2, <2>3, <2>4
<1>2. ASSUME NEW w \in WorkerType, Kill(i, w) PROVE IInv'
  BY <1>2, QuietStep DEF Kill, IInv, LocalsTyped
<1>3. CASE IterationDone(i)
  BY <1>3, Forgotten DEF IterationDone
<1>4. CASE NothingSubmitted(i)
  BY <1>4, FailsIInv DEF NothingSubmitted
<1>5. QED
  BY <1>1, <1>2, <1>3, <1>4, LoadAllIInv, ListExtantIInv, CountIInv, SubmitIInv
     DEF Proceed

LEMMA NextIInv ==
    ASSUME IInv, table \subseteq WorkerType, [Next]_vars
    PROVE  IInv' /\ table' \subseteq WorkerType
<1>1. ASSUME NEW i \in Caller, StartIteration(i) PROVE IInv'
  BY <1>1 DEF StartIteration, IInv, LocalsTyped, Known, WorkFromCopy,
              MissingRemoved, NewestKillsOnlyRemoved, Phase
<1>2. ASSUME NEW i \in Caller, IterationFails(i) PROVE IInv'
  BY <1>2, FailsIInv DEF IterationFails
<1>3. ASSUME NEW i \in Caller, RogueKillerFails(i) PROVE IInv'
  BY <1>3, QuietStep DEF RogueKillerFails, IInv, LocalsTyped, Phase
<1>4. CASE TimeOut
  BY <1>4, Forgotten DEF TimeOut, CountFailure
<1>5. ASSUME NEW w \in WorkerType, Create(w) \/ Lose(w) PROVE IInv'
  BY <1>5, QuietStep DEF Create, Lose, IInv, LocalsTyped
<1>6. ASSUME NEW w \in WorkerType, RemoveType(w) PROVE IInv'
  BY <1>6 DEF RemoveType, IInv, LocalsTyped, Known, WorkFromCopy, MissingRemoved,
              NewestKillsOnlyRemoved
<1>7. CASE UNCHANGED vars
  BY <1>7 DEF vars, IInv, LocalsTyped, Known, WorkFromCopy, MissingRemoved,
              NewestKillsOnlyRemoved
<1>8. IInv'
  BY <1>1, <1>2, <1>3, <1>4, <1>5, <1>6, <1>7, ProceedIInv,
     LateLandsIInv DEF Next
<1>9. table' \subseteq WorkerType
  BY DEF Next, Proceed, StartIteration, IterationFails, RogueKillerFails, TimeOut,
         Create, RemoveType, LateLands, Lose, Fails, CountFailure, LoadAll, FetchRegion,
         Updated, ListExtant, Kill, Count, Submit, Killed, Counted, IterationDone,
         NothingSubmitted, vars
<1>10. QED
  BY <1>8, <1>9

(* For any numbers of overlapping iterations, the one with the newest copy     *)
(* kills only worker types that were removed.                                  *)
THEOREM NewestSparesTheLiving == Spec => []NewestKillsOnlyRemoved
<1>1. Init => IInv /\ table \subseteq WorkerType
  BY InitIInv DEF Init
<1>2. IInv /\ table \subseteq WorkerType /\ [Next]_vars
         => IInv' /\ table' \subseteq WorkerType
  BY NextIInv
<1>3. IInv => NewestKillsOnlyRemoved
  BY DEF IInv
<1> DEFINE Kept == IInv /\ table \subseteq WorkerType
<1>4. Init => Kept
  BY <1>1
<1>5. Kept /\ [Next]_vars => Kept'
  BY <1>2
<1>6. Kept => NewestKillsOnlyRemoved
  BY <1>3
<1> HIDE DEF Kept
<1>7. QED
  BY <1>4, <1>5, <1>6, PTL DEF Spec

-----------------------------------------------------------------------------
(* Never past as many times what one iteration may reach as there are of them: *)
(* none plans more than that, and what it counts leaves room for its plan.     *)
Planned(w)      == [i \in Caller |-> plan[i][w]]
InBounds(w)     ==
    units[w] + SumFunction(Planned(w)) <= Cardinality(Caller) * Most + landed[w]
PlansInBounds   ==
    /\ plan \in [Caller -> [WorkerType -> 0 .. Most]]
    /\ units \in [WorkerType -> Nat] /\ late \in [WorkerType -> Nat]
    /\ landed \in [WorkerType -> Nat]

LEMMA BoundNat == Cardinality(Caller) * Most \in Nat
<1>1. Cardinality(Caller) \in Nat
  BY MostNat, FS_CardinalityType
<1>2. QED
  BY <1>1, MostNat

LEMMA PlannedNat ==
    ASSUME NEW w \in WorkerType, PlansInBounds
    PROVE  /\ \A i \in Caller : Planned(w)[i] \in 0 .. Most /\ Planned(w)[i] \in Nat
           /\ SumFunction(Planned(w)) = SumFunctionOnSet(Planned(w), Caller)
           /\ SumFunctionOnSet(Planned(w), Caller) \in Nat
<1>1. \A i \in Caller : Planned(w)[i] \in 0 .. Most /\ Planned(w)[i] \in Nat
  BY MostNat DEF PlansInBounds, Planned
<1>2. SumFunctionOnSet(Planned(w), Caller) \in Nat
  BY <1>1, MostNat, SumNat
<1>3. DOMAIN Planned(w) = Caller
  BY DEF Planned
<1>4. SumFunction(Planned(w)) = SumFunctionOnSet(Planned(w), Caller)
  BY <1>3 DEF SumFunction
<1>5. QED
  BY <1>1, <1>2, <1>4

(* One iteration's own plan and those of the others.                           *)
LEMMA PlannedApart ==
    ASSUME NEW w \in WorkerType, NEW i \in Caller, PlansInBounds
    PROVE  /\ SumFunctionOnSet(Planned(w), Caller)
                = plan[i][w] + SumFunctionOnSet(Planned(w), Caller \ {i})
           /\ SumFunctionOnSet(Planned(w), Caller \ {i}) \in Nat
           /\ SumFunctionOnSet(Planned(w), Caller \ {i})
                <= Cardinality(Caller) * Most - Most
<1> DEFINE Others == Caller \ {i}
           c == Cardinality(Others)
<1>1. IsFiniteSet(Others) /\ c \in Nat /\ Cardinality(Caller) = c + 1
  <2>1. IsFiniteSet(Caller) /\ IsFiniteSet(Others)
    BY MostNat, FS_RemoveElement
  <2>2. Cardinality(Caller) \in Nat /\ c \in Nat
    BY <2>1, FS_CardinalityType
  <2>3. c = Cardinality(Caller) - 1
    BY <2>1, FS_RemoveElement
  <2> HIDE DEF c
  <2>4. QED
    BY <2>1, <2>2, <2>3
<1>2. /\ \A j \in Others : Planned(w)[j] \in 0 .. Most /\ Planned(w)[j] \in Nat
      /\ \A j \in Caller : Planned(w)[j] \in Nat
  BY PlannedNat
<1>3. SumFunctionOnSet(Planned(w), Others) <= c * Most
  <2> HIDE DEF Others
  <2>1. QED
    BY <1>1, <1>2, MostNat, SumBounded
<1>4. SumFunctionOnSet(Planned(w), Others) \in Nat
  <2> HIDE DEF Others
  <2>1. QED
    BY <1>1, <1>2, SumNat
<1>5. SumFunctionOnSet(Planned(w), Caller)
        = Planned(w)[i] + SumFunctionOnSet(Planned(w), Others)
  BY <1>2, MostNat, SumSplit
<1>6. Planned(w)[i] = plan[i][w]
  BY DEF Planned
<1> HIDE DEF c
<1>7. (c + 1) * Most - Most = c * Most
  BY <1>1, MostNat
<1>8. QED
  BY <1>1, <1>3, <1>4, <1>5, <1>6, <1>7

PlanInv == PlansInBounds /\ \A w \in WorkerType : InBounds(w)

LEMMA InitPlanInv == Init => PlanInv
<1> SUFFICES ASSUME Init PROVE PlanInv
  OBVIOUS
<1>1. PlansInBounds
  BY MostNat DEF Init, NoPlan, PlansInBounds
<1>2. ASSUME NEW w \in WorkerType PROVE InBounds(w)
  <2>1. \A i \in Caller : Planned(w)[i] = 0
    BY DEF Init, NoPlan, Planned
  <2>2. SumFunctionOnSet(Planned(w), Caller) = 0
    BY <2>1, MostNat, SumZero
  <2>3. units[w] = 0 /\ landed[w] = 0
    BY DEF Init, NoPlan
  <2> PICK bound : bound = Cardinality(Caller) * Most
    OBVIOUS
  <2>4. bound \in Nat
    BY BoundNat
  <2>5. SumFunction(Planned(w)) = 0
    BY <1>1, <2>2, PlannedNat
  <2>6. QED
    BY <2>3, <2>4, <2>5 DEF InBounds
<1>3. QED
  BY <1>1, <1>2 DEF PlanInv

(* Neither more units, but for those that landed late, nor more plans.         *)
NoMore(w) == /\ units'[w] - landed'[w] <= units[w] - landed[w]
             /\ \A i \in Caller : plan'[i][w] <= plan[i][w]

SumsTyped ==
    \A w \in WorkerType :
        /\ \A i \in Caller : Planned(w)[i] \in Nat
        /\ SumFunction(Planned(w)) = SumFunctionOnSet(Planned(w), Caller)
        /\ SumFunctionOnSet(Planned(w), Caller) \in Nat

LEMMA PlannedNatNext == PlansInBounds' => SumsTyped'
<1>1. PlansInBounds => SumsTyped
  BY PlannedNat DEF SumsTyped
<1>2. QED
  BY <1>1, PTL

LEMMA NoMoreInBounds ==
    ASSUME PlanInv, PlansInBounds', NEW w \in WorkerType, NoMore(w)
    PROVE  InBounds(w)'
<1> PICK p : p = Planned(w)
  OBVIOUS
<1> PICK q : q = Planned(w)'
  OBVIOUS
<1>1. /\ \A i \in Caller : p[i] \in Nat
      /\ SumFunction(p) = SumFunctionOnSet(p, Caller)
      /\ SumFunctionOnSet(p, Caller) \in Nat
  BY PlannedNat DEF PlanInv
<1>4. /\ \A i \in Caller : q[i] \in Nat
      /\ SumFunction(q) = SumFunctionOnSet(q, Caller)
      /\ SumFunctionOnSet(q, Caller) \in Nat
  BY PlannedNatNext DEF SumsTyped
<1>5. \A i \in Caller : q[i] <= p[i]
  BY DEF NoMore, Planned
<1>6. SumFunctionOnSet(q, Caller) <= SumFunctionOnSet(p, Caller)
  BY <1>1, <1>4, <1>5, MostNat, SumMonotone
<1> PICK bound : bound = Cardinality(Caller) * Most
  OBVIOUS
<1>7. units[w] + SumFunction(p) <= bound + landed[w]
  BY DEF PlanInv, InBounds
<1>8. /\ units[w] \in Nat /\ units'[w] \in Nat /\ landed[w] \in Nat /\ landed'[w] \in Nat
      /\ units'[w] - landed'[w] <= units[w] - landed[w]
  BY DEF PlanInv, PlansInBounds, NoMore
<1>9. bound \in Nat
  BY BoundNat
<1>10. units'[w] + SumFunction(q) <= bound + landed'[w]
  BY <1>1, <1>4, <1>6, <1>7, <1>8, <1>9
<1>11. QED
  BY <1>10 DEF InBounds

(* The units and the plan of one iteration change.                             *)
LEMMA PlannedChange ==
    ASSUME PlanInv, PlansInBounds', NEW w \in WorkerType, NEW i \in Caller,
           \A j \in Caller \ {i} : plan'[j][w] = plan[j][w]
    PROVE  /\ SumFunction(Planned(w)')
                = SumFunctionOnSet(Planned(w), Caller \ {i}) + plan'[i][w]
           /\ plan'[i][w] \in Nat
<1> PICK p : p = Planned(w)
  OBVIOUS
<1> PICK q : q = Planned(w)'
  OBVIOUS
<1>1. /\ \A j \in Caller : p[j] \in Nat
      /\ SumFunctionOnSet(p, Caller) \in Nat
  BY PlannedNat DEF PlanInv
<1>2. /\ \A j \in Caller : q[j] \in Nat
      /\ SumFunction(q) = SumFunctionOnSet(q, Caller)
  BY PlannedNatNext DEF SumsTyped
<1>3. \A j \in Caller : p[j] \in Nat /\ q[j] \in Nat /\ (j # i => q[j] = p[j])
  BY <1>1, <1>2 DEF Planned
<1>4. SumFunctionOnSet(q, Caller) = SumFunctionOnSet(p, Caller) - p[i] + q[i]
  BY <1>3, MostNat, SumChange
<1>5. p[i] = plan[i][w] /\ q[i] = plan'[i][w]
  BY DEF Planned
<1>6. /\ SumFunctionOnSet(p, Caller) = plan[i][w] + SumFunctionOnSet(p, Caller \ {i})
      /\ SumFunctionOnSet(p, Caller \ {i}) \in Nat
  BY PlannedApart DEF PlanInv
<1>7. SumFunction(q) = SumFunctionOnSet(p, Caller \ {i}) + plan'[i][w]
  BY <1>1, <1>2, <1>4, <1>5, <1>6
<1>8. plan'[i][w] \in Nat
  BY <1>2, <1>5
<1>9. QED
  BY <1>7, <1>8

(* Counting: there is room for the iteration's own plan, and the others' plans *)
(* are within the maximum each.                                                *)
LEMMA CountPlanInv ==
    ASSUME PlanInv, NEW i \in Caller, NEW w \in WorkerType, Count(i, w)
    PROVE  PlanInv'
<1> PICK n \in 0 .. Most :
       /\ n > 0 => units[w] + n <= Most
       /\ plan' = [plan EXCEPT ![i][w] = n]
       /\ landed' = IF n > 0 THEN [landed EXCEPT ![w] = 0] ELSE landed
  BY DEF Count
<1>1. units' = units /\ late' = late
  BY DEF Count, worldVars
<1>2. PlansInBounds'
  BY <1>1 DEF PlanInv, PlansInBounds
<1>3. /\ plan'[i][w] = n
      /\ landed'[w] = IF n > 0 THEN 0 ELSE landed[w]
      /\ \A v \in WorkerType \ {w} : landed'[v] = landed[v]
      /\ \A j \in Caller, v \in WorkerType : j # i \/ v # w => plan'[j][v] = plan[j][v]
  BY DEF PlanInv, PlansInBounds
<1>4. ASSUME NEW v \in WorkerType, v # w PROVE InBounds(v)'
  <2>1. NoMore(v)
    BY <1>1, <1>3, <1>4, MostNat DEF PlanInv, PlansInBounds, NoMore
  <2>2. QED
    BY <1>2, <2>1, NoMoreInBounds
<1>5. InBounds(w)'
  <2> PICK others : others = SumFunctionOnSet(Planned(w), Caller \ {i})
    OBVIOUS
  <2> PICK bound : bound = Cardinality(Caller) * Most
    OBVIOUS
  <2>1. SumFunction(Planned(w)') = others + n
    BY <1>2, <1>3, PlannedChange
  <2>2. /\ others \in Nat /\ others <= bound - Most
        /\ SumFunction(Planned(w)) = plan[i][w] + others
    BY PlannedApart, PlannedNat DEF PlanInv
  <2>3. units[w] + SumFunction(Planned(w)) <= bound + landed[w]
    BY DEF PlanInv, InBounds
  <2>4. /\ units[w] \in Nat /\ plan[i][w] \in Nat /\ bound \in Nat
        /\ Most \in Nat /\ n \in Nat /\ landed[w] \in Nat
    BY MostNat, BoundNat DEF PlanInv, PlansInBounds
  <2>5. units[w] + (others + n) <= bound + landed'[w]
    BY <1>3, <2>2, <2>3, <2>4
  <2>6. QED
    BY <1>1, <2>1, <2>5 DEF InBounds
<1>6. QED
  BY <1>2, <1>4, <1>5 DEF PlanInv

(* Submitting: what is submitted was planned.                                  *)
LEMMA SubmitPlanInv ==
    ASSUME PlanInv, NEW i \in Caller, NEW w \in WorkerType, Submit(i, w)
    PROVE  PlanInv'
<1> PICK k \in 1 .. Largest : /\ k <= plan[i][w]
                              /\ plan' = [plan EXCEPT ![i][w] = @ - k]
                              /\ Request(i, w, k)
  BY DEF Submit
<1>1. /\ plan[i][w] \in 0 .. Most /\ units[w] \in Nat /\ late[w] \in Nat /\ Most \in Nat
      /\ k \in Nat /\ plan[i][w] - k \in 0 .. Most /\ landed' = landed
      /\ units' = [units EXCEPT ![w] = @ + k] \/ units' = units
      /\ late' = [late EXCEPT ![w] = @ + k] \/ late' = late
  BY MostNat, OverlapAssumption DEF Submit, Request, PlanInv, PlansInBounds
<1>2. PlansInBounds'
  BY <1>1 DEF PlanInv, PlansInBounds
<1>3. /\ plan'[i][w] = plan[i][w] - k
      /\ \A j \in Caller, v \in WorkerType : j # i \/ v # w => plan'[j][v] = plan[j][v]
      /\ units'[w] \in {units[w], units[w] + k}
      /\ \A v \in WorkerType \ {w} : units'[v] = units[v]
  BY <1>1 DEF PlanInv, PlansInBounds
<1>4. ASSUME NEW v \in WorkerType, v # w PROVE InBounds(v)'
  <2>1. NoMore(v)
    BY <1>1, <1>3, <1>4, MostNat DEF PlanInv, PlansInBounds, NoMore
  <2>2. QED
    BY <1>2, <2>1, NoMoreInBounds
<1>5. InBounds(w)'
  <2> PICK others : others = SumFunctionOnSet(Planned(w), Caller \ {i})
    OBVIOUS
  <2> PICK bound : bound = Cardinality(Caller) * Most
    OBVIOUS
  <2>1. SumFunction(Planned(w)') = others + (plan[i][w] - k)
    BY <1>2, <1>3, PlannedChange
  <2>2. others \in Nat /\ SumFunction(Planned(w)) = plan[i][w] + others
    BY PlannedApart, PlannedNat DEF PlanInv
  <2>3. units[w] + SumFunction(Planned(w)) <= bound + landed[w]
    BY DEF PlanInv, InBounds
  <2>4. bound \in Nat /\ landed[w] \in Nat
    BY BoundNat DEF PlanInv, PlansInBounds
  <2>5. units'[w] + (others + (plan[i][w] - k)) <= bound + landed'[w]
    BY <1>1, <1>3, <2>2, <2>3, <2>4
  <2>6. QED
    BY <2>1, <2>5 DEF InBounds
<1>6. QED
  BY <1>2, <1>4, <1>5 DEF PlanInv

LEMMA NoMorePlanInv ==
    ASSUME PlanInv, PlansInBounds', \A w \in WorkerType : NoMore(w)
    PROVE  PlanInv'
BY NoMoreInBounds DEF PlanInv

LEMMA NextPlanInv == PlanInv /\ [Next]_vars => PlanInv'
<1> SUFFICES ASSUME PlanInv, [Next]_vars PROVE PlanInv'
  OBVIOUS
<1> USE MostNat
<1>1. ASSUME UNCHANGED <<units, late, landed, plan>> PROVE PlanInv'
  BY <1>1, NoMorePlanInv DEF PlanInv, PlansInBounds, NoMore
<1>2. ASSUME NEW ended, ForgetLocals(ended), UNCHANGED worldVars PROVE PlanInv'
  BY <1>2, NoMorePlanInv DEF PlanInv, PlansInBounds, NoMore, ForgetLocals, NoPlan
<1>3. ASSUME units' \in [WorkerType -> Nat], UNCHANGED <<late, landed, plan>>,
             \A w \in WorkerType : units'[w] <= units[w]
      PROVE  PlanInv'
  BY <1>3, NoMorePlanInv DEF PlanInv, PlansInBounds, NoMore
<1>4. ASSUME NEW i \in Caller, Fails(i) PROVE PlanInv'
  BY <1>2, <1>4 DEF Fails, CountFailure
<1>5. ASSUME NEW i \in Caller, Proceed(i) PROVE PlanInv'
  <2>1. CASE LoadAll(i) \/ FetchRegion(i) \/ Updated(i) \/ ListExtant(i)
             \/ Killed(i) \/ Counted(i)
    BY <1>1, <2>1 DEF LoadAll, FetchRegion, Updated, ListExtant, Killed, Counted
  <2>2. ASSUME NEW w \in WorkerType, Kill(i, w) PROVE PlanInv'
    <3>1. units' = [units EXCEPT ![w] = 0] /\ UNCHANGED <<late, landed, plan>>
      BY <2>2 DEF Kill
    <3>2. QED
      BY <1>3, <3>1 DEF PlanInv, PlansInBounds
  <2>3. CASE IterationDone(i)
    BY <1>2, <2>3 DEF IterationDone
  <2>4. CASE NothingSubmitted(i)
    BY <1>4, <2>4 DEF NothingSubmitted
  <2>5. QED
    BY <1>5, <2>1, <2>2, <2>3, <2>4, CountPlanInv, SubmitPlanInv DEF Proceed
<1>6. ASSUME NEW i \in Caller, StartIteration(i) \/ IterationFails(i)
      PROVE  PlanInv'
  BY <1>1, <1>4, <1>6 DEF StartIteration, IterationFails
<1>7. ASSUME NEW i \in Caller, RogueKillerFails(i) PROVE PlanInv'
  <2>1. UNCHANGED <<late, landed, plan>> /\ \E killed \in SUBSET todo[i] :
          units' = [w \in WorkerType |-> IF w \in killed THEN 0 ELSE units[w]]
    BY <1>7 DEF RogueKillerFails
  <2>2. QED
    BY <1>3, <2>1 DEF PlanInv, PlansInBounds
<1>8. CASE TimeOut
  BY <1>2, <1>8 DEF TimeOut, CountFailure
<1>9. ASSUME NEW w \in WorkerType,
             Create(w) \/ RemoveType(w) \/ LateLands(w) \/ Lose(w)
      PROVE  PlanInv'
  <2>1. CASE Lose(w)
    BY <1>3, <2>1 DEF Lose, PlanInv, PlansInBounds
  <2>2. CASE LateLands(w)
    <3> PICK k \in 1 .. late[w] : /\ late' = [late EXCEPT ![w] = @ - k]
                                  /\ units' = [units EXCEPT ![w] = @ + k]
                                  /\ landed' = [landed EXCEPT ![w] = @ + k]
                                  /\ plan' = plan
      BY <2>2 DEF LateLands
    <3>1. PlansInBounds'
      BY DEF PlanInv, PlansInBounds
    <3>2. \A v \in WorkerType : NoMore(v)
      BY MostNat DEF PlanInv, PlansInBounds, NoMore
    <3> QED
      BY <3>1, <3>2, NoMorePlanInv
  <2>3. QED
    BY <1>1, <1>9, <2>1, <2>2 DEF Create, RemoveType
<1>10. CASE UNCHANGED vars
  BY <1>1, <1>10 DEF vars
<1>11. QED
  BY <1>5, <1>6, <1>7, <1>8, <1>9, <1>10 DEF Next

(* However iterations overlap, are timed out and go on: together they take a   *)
(* worker type at most as many times past its maximum as there are iterations, *)
(* with an instance each to spare, apart from requests that land late.         *)
THEOREM OverlapIsBounded == Spec => []OverlapBounded
<1>1. PlanInv => OverlapBounded
  BY DEF PlanInv, InBounds, Planned, OverlapBounded
<1>2. QED
  BY <1>1, InitPlanInv, NextPlanInv, PTL DEF Spec

-----------------------------------------------------------------------------
(* The prices of a report, whatever its length: each of its points takes the   *)
(* prices of those before it further.                                          *)
NoPrices == [o \in Option |-> NoPrice]

Further(report, prices, point) ==
    IF /\ point.option[2] \in report.available
       /\ \/ prices[point.option] = NoPrice
          \/ prices[point.option] < point.price
    THEN [prices EXCEPT ![point.option] = point.price] ELSE prices

(* The prices of the points in s, ...                                          *)
Step(g, report, s) ==
    IF s = {} THEN NoPrices
    ELSE Further(report, g[s \ {Max(s)}], report.history[Max(s)])

Prices(g, report, A) == g = [s \in SUBSET A |-> Step(g, report, s)]

Indices(T) == IsFiniteSet(T) /\ T \subseteq Nat

LEMMA MaxTakenOff ==
    ASSUME NEW T, Indices(T), T # {}
    PROVE  /\ Max(T) \in T
           /\ T \ {Max(T)} \in SUBSET T /\ T \ {Max(T)} # T
BY MaxIsMost DEF Indices

LEMMA SomeIndices ==
    ASSUME NEW T, Indices(T), NEW s \in SUBSET T
    PROVE  Indices(s) /\ IsFiniteSet(s)
BY FS_Subset DEF Indices

LEMMA PricesAgree ==
    ASSUME NEW report, NEW A, NEW B, Indices(A), NEW g, NEW h,
           Prices(g, report, A), Prices(h, report, B)
    PROVE  \A s \in SUBSET (A \cap B) : g[s] = h[s]
<1> DEFINE C    == A \cap B
           Good == {s \in SUBSET C : g[s] = h[s]}
<1>1. Indices(C) /\ IsFiniteSet(C)
  BY SomeIndices
<1>2. ASSUME NEW T \in SUBSET C, \A U \in SUBSET T : U # T => U \in Good
      PROVE  T \in Good
  <2>1. g[T] = Step(g, report, T) /\ h[T] = Step(h, report, T)
    BY DEF Prices
  <2>2. T # {} => g[T \ {Max(T)}] = h[T \ {Max(T)}]
    <3> HIDE DEF C
    <3> SUFFICES ASSUME T # {} PROVE g[T \ {Max(T)}] = h[T \ {Max(T)}]
      OBVIOUS
    <3>1. Indices(T)
      BY <1>1, SomeIndices
    <3>2. T \ {Max(T)} \in Good
      BY <1>2, <3>1, MaxTakenOff
    <3>3. QED
      BY <3>2
  <2>3. Step(g, report, T) = Step(h, report, T)
    BY <2>2 DEF Step
  <2>4. QED
    BY <2>1, <2>3
<1> HIDE DEF Good, C
<1>3. SUBSET C \subseteq Good
  BY <1>1, <1>2, SubsetInduction
<1>4. QED
  BY <1>3 DEF Good, C

LEMMA PricesAgreeOn ==
    ASSUME NEW report, NEW A, NEW B, Indices(A), NEW g, NEW h,
           Prices(g, report, A), Prices(h, report, B), B \subseteq A
    PROVE  g[B] = h[B]
<1>1. B \in SUBSET (A \cap B)
  OBVIOUS
<1>2. QED
  BY <1>1, PricesAgree

(* ... which the recursion defines, for each set out of those for its subsets. *)
LEMMA PricesExist ==
    ASSUME NEW report, NEW S, Indices(S)
    PROVE  \E g : Prices(g, report, S)
<1> DEFINE Good == {T \in SUBSET S : \E g : Prices(g, report, T)}
<1>1. ASSUME NEW T \in SUBSET S, \A U \in SUBSET T : U # T => U \in Good
      PROVE  T \in Good
  <2> DEFINE At(s) == CHOOSE g : Prices(g, report, s)
             of    == [s \in SUBSET T |-> At(s)[s]]
             h     == [s \in SUBSET T |-> Step(of, report, s)]
  <2>1. \A s \in SUBSET T : s # T => Prices(At(s), report, s)
    BY <1>1
  <2>2. ASSUME NEW s \in SUBSET T, s # {}
        PROVE  Indices(s) /\ s \ {Max(s)} \in SUBSET s /\ s \ {Max(s)} # s
    <3>1. Indices(s)
      BY SomeIndices
    <3>2. QED
      BY <2>2, <3>1, MaxTakenOff
  <2> HIDE DEF At
  <2>3. ASSUME NEW s \in SUBSET T, s # T
        PROVE  of[s] = h[s]
    <3>1. At(s)[s] = Step(At(s), report, s)
      BY <2>1, <2>3 DEF Prices
    <3>2. s # {} => At(s)[s \ {Max(s)}] = of[s \ {Max(s)}]
      <4> SUFFICES ASSUME s # {} PROVE At(s)[s \ {Max(s)}] = of[s \ {Max(s)}]
        OBVIOUS
      <4> DEFINE r == s \ {Max(s)}
      <4>1. Indices(s) /\ r \in SUBSET s /\ r # s
        BY <2>2
      <4> HIDE DEF r
      <4>2. r \in SUBSET T /\ r # T
        BY <4>1
      <4>3. Prices(At(r), report, r) /\ Prices(At(s), report, s)
        BY <2>1, <2>3, <4>2
      <4>4. At(s)[r] = At(r)[r]
        <5>1. PICK x : x = At(s) /\ Prices(x, report, s)
          BY <4>3
        <5>2. PICK y : y = At(r) /\ Prices(y, report, r)
          BY <4>3
        <5>3. x[r] = y[r]
          BY <4>1, <5>1, <5>2, PricesAgreeOn
        <5>4. QED
          BY <5>1, <5>2, <5>3
      <4>5. At(s)[r] = of[r]
        BY <4>2, <4>4
      <4>6. QED
        BY <4>5 DEF r
    <3>3. Step(At(s), report, s) = Step(of, report, s)
      <4> HIDE DEF of
      <4>1. QED
        BY <3>2 DEF Step
    <3>4. QED
      BY <3>1, <3>3
  <2>4. ASSUME NEW s \in SUBSET T PROVE Step(of, report, s) = Step(h, report, s)
    <3>1. s # {} => of[s \ {Max(s)}] = h[s \ {Max(s)}]
      <4> SUFFICES ASSUME s # {} PROVE of[s \ {Max(s)}] = h[s \ {Max(s)}]
        OBVIOUS
      <4> DEFINE r == s \ {Max(s)}
      <4>1. r \in SUBSET s /\ r # s
        BY <2>2
      <4> HIDE DEF of, h, r
      <4>2. r \in SUBSET T /\ r # T
        BY <4>1
      <4>3. of[r] = h[r]
        BY <2>3, <4>2
      <4>4. QED
        BY <4>3 DEF r
    <3>2. QED
      <4> HIDE DEF of, h
      <4>1. QED
        BY <3>1 DEF Step
  <2>5. Prices(h, report, T)
    <3>1. h = [s \in SUBSET T |-> Step(h, report, s)]
      BY <2>4
    <3>2. QED
      BY <3>1 DEF Prices
  <2>6. QED
    BY <2>5
<1> HIDE DEF Good
<1>2. SUBSET S \subseteq Good
  BY <1>1, SubsetInduction, SomeIndices
<1>3. QED
  BY <1>2 DEF Good

LEMMA FoldsPrices ==
    ASSUME NEW report
    PROVE  LET g == CHOOSE g : Prices(g, report, DOMAIN report.history)
           IN  FindMaxPrices(report) = g[DOMAIN report.history]
BY DEF FindMaxPrices, FoldLeft, MapThenFoldSet, Prices, Step, Further, NoPrices

(* The price so computed of the points in s is that of the highest of them.    *)
PointsOf(report, o, s) == {i \in s : report.history[i].option = o}

HighestIn(report, o, s, price) ==
    IF PointsOf(report, o, s) = {} \/ o[2] \notin report.available THEN price = NoPrice
    ELSE /\ \E i \in PointsOf(report, o, s) : report.history[i].price = price
         /\ \A i \in PointsOf(report, o, s) : report.history[i].price <= price

LEMMA ReportTyped ==
    ASSUME NEW report \in Report
    PROVE  /\ IsFiniteSet(DOMAIN report.history) /\ DOMAIN report.history \subseteq Nat
           /\ \A i \in DOMAIN report.history :
                 /\ report.history[i].option \in Option
                 /\ report.history[i].price \in Nat \ {0}
<1>1. report.history \in Seq([option : Option, price : Nat \ {0}])
  BY PricingAssumption
<1> PICK P : P = [option : Option, price : Nat \ {0}]
  OBVIOUS
<1> DEFINE n == Len(report.history)
<1>2. n \in Nat /\ DOMAIN report.history = 1 .. n
  BY <1>1
<1>3. \A i \in 1 .. n : report.history[i] \in [option : Option, price : Nat \ {0}]
  <2>1. report.history \in Seq(P)
    BY <1>1
  <2>2. \A i \in 1 .. n : report.history[i] \in P
    BY <2>1, ElementOfSeq
  <2>3. QED
    BY <2>2
<1> HIDE DEF n
<1>4. IsFiniteSet(1 .. n) /\ 1 .. n \subseteq Nat
  BY <1>2, FS_Interval
<1>5. QED
  BY <1>2, <1>3, <1>4

(* One point more, the last of s.                                              *)
LEMMA FurtherIsHighest ==
    ASSUME NEW report \in Report, NEW s \in SUBSET (DOMAIN report.history), NEW m \in s,
           NEW rest, rest = s \ {m}, NEW prices \in [Option -> Nat],
           \A o \in Option : HighestIn(report, o, rest, prices[o])
    PROVE  /\ Further(report, prices, report.history[m]) \in [Option -> Nat]
           /\ \A o \in Option :
                 HighestIn(report, o, s, Further(report, prices, report.history[m])[o])
<1> PICK point : point = report.history[m]
  OBVIOUS
<1> PICK new : new = Further(report, prices, point)
  OBVIOUS
<1>1. /\ point.option \in Option /\ point.price \in Nat \ {0}
      /\ \A i \in s : report.history[i].price \in Nat \ {0}
  BY ReportTyped
<1>2. new \in [Option -> Nat]
  BY <1>1 DEF Further
<1>3. ASSUME NEW o \in Option, o # point.option
      PROVE  HighestIn(report, o, s, new[o])
  <2>1. PointsOf(report, o, s) = PointsOf(report, o, rest)
    BY <1>3 DEF PointsOf
  <2>2. new[o] = prices[o]
    BY <1>1, <1>3 DEF Further
  <2>3. QED
    BY <2>1, <2>2 DEF HighestIn
<1>4. ASSUME NEW o \in Option, o = point.option
      PROVE  HighestIn(report, o, s, new[o])
  <2>1. /\ PointsOf(report, o, s) = PointsOf(report, o, rest) \cup {m}
        /\ \A i \in PointsOf(report, o, s) : i \in s
    BY <1>4 DEF PointsOf
  <2>2. CASE o[2] \notin report.available
    <3>1. new[o] = prices[o] /\ prices[o] = NoPrice
      BY <1>4, <2>2 DEF Further, HighestIn
    <3>2. QED
      BY <2>2, <3>1 DEF HighestIn
  <2>3. CASE o[2] \in report.available /\ PointsOf(report, o, rest) = {}
    <3>1. prices[o] = NoPrice
      BY <2>3 DEF HighestIn
    <3>2. new[o] = point.price
      BY <1>4, <2>3, <3>1 DEF Further
    <3>3. PointsOf(report, o, s) = {m}
      BY <2>1, <2>3
    <3>4. QED
      BY <1>1, <2>3, <3>2, <3>3 DEF HighestIn
  <2>4. CASE o[2] \in report.available /\ PointsOf(report, o, rest) # {}
    <3>1. PICK i \in PointsOf(report, o, rest) : report.history[i].price = prices[o]
      BY <2>4 DEF HighestIn
    <3>2. \A j \in PointsOf(report, o, rest) : report.history[j].price <= prices[o]
      BY <2>4 DEF HighestIn
    <3>3. prices[o] # NoPrice /\ prices[o] \in Nat
      BY <1>1, <2>1, <3>1 DEF NoPrice
    <3>4. new[o] = IF prices[o] < point.price THEN point.price ELSE prices[o]
      BY <1>4, <2>4, <3>3 DEF Further
    <3>5. ASSUME NEW j \in PointsOf(report, o, s)
          PROVE  report.history[j].price <= new[o]
      <4>1. point.price \in Nat /\ report.history[j].price \in Nat
        BY <1>1, <2>1
      <4>2. j = m => report.history[j].price = point.price
        OBVIOUS
      <4>3. j # m => report.history[j].price <= prices[o]
        BY <2>1, <3>2
      <4>4. QED
        BY <4>1, <4>2, <4>3, <3>3, <3>4
    <3>6. \E j \in PointsOf(report, o, s) : report.history[j].price = new[o]
      BY <2>1, <3>1, <3>4
    <3>7. QED
      BY <2>1, <2>4, <3>5, <3>6 DEF HighestIn
  <2>5. QED
    BY <2>2, <2>3, <2>4
<1>5. QED
  BY <1>2, <1>3, <1>4

(* _findMaxPrices finds the highest prices of the options in available zones.  *)
THEOREM FindsMaxPrices ==
    ASSUME NEW report \in Report
    PROVE  /\ FindMaxPrices(report) \in [Option -> Nat]
           /\ \A o \in Option : FindMaxPrices(report)[o] = HighestPrice(report, o)
<1> DEFINE S == DOMAIN report.history
<1>1. IsFiniteSet(S) /\ S \subseteq Nat /\ Indices(S)
  BY ReportTyped DEF Indices
<1>2. PICK g : Prices(g, report, S) /\ FindMaxPrices(report) = g[S]
  <2>1. \E g : Prices(g, report, S)
    BY <1>1, PricesExist
  <2>2. QED
    BY <2>1, FoldsPrices
<1> DEFINE Good == {s \in SUBSET S : /\ g[s] \in [Option -> Nat]
                                     /\ \A o \in Option : HighestIn(report, o, s, g[s][o])}
<1>3. ASSUME NEW T \in SUBSET S, \A U \in SUBSET T : U # T => U \in Good
      PROVE  T \in Good
  <2>1. g[T] = Step(g, report, T)
    BY <1>2 DEF Prices
  <2>2. CASE T = {}
    <3>1. g[T] = [o \in Option |-> 0]
      BY <2>1, <2>2 DEF Step, NoPrices, NoPrice
    <3>2. \A o \in Option : PointsOf(report, o, T) = {}
      BY <2>2 DEF PointsOf
    <3>3. QED
      BY <3>1, <3>2 DEF HighestIn, NoPrice
  <2>3. CASE T # {}
    <3>1. Indices(T)
      BY <1>1, SomeIndices
    <3> DEFINE m == Max(T)
               rest == T \ {m}
               before == g[rest]
    <3>2. m \in T /\ T \ {m} \in SUBSET T /\ T \ {m} # T
      BY <2>3, <3>1, MaxTakenOff
    <3>3. T \ {m} \in Good
      BY <1>3, <3>2
    <3>4. g[T] = Further(report, before, report.history[m])
      BY <2>1, <2>3 DEF Step
    <3>5. /\ T \in SUBSET (DOMAIN report.history)
          /\ rest = T \ {m} /\ before \in [Option -> Nat]
          /\ \A o \in Option : HighestIn(report, o, rest, before[o])
      BY <3>3
    <3> HIDE DEF m, rest, before
    <3>6. g[T] \in [Option -> Nat] /\ \A o \in Option : HighestIn(report, o, T, g[T][o])
      BY <3>2, <3>4, <3>5, FurtherIsHighest
    <3>7. QED
      BY <3>6
  <2>4. QED
    BY <2>2, <2>3
<1> HIDE DEF Good
<1>4. S \in Good
  BY <1>1, <1>3, SubsetInduction
<1>5. ASSUME NEW o \in Option PROVE g[S][o] = HighestPrice(report, o)
  <2>1. HighestIn(report, o, S, g[S][o]) /\ g[S][o] \in Nat
    BY <1>4 DEF Good
  <2> DEFINE points == PointsOf(report, o, S)
             prices == {report.history[i].price : i \in points}
  <2>2. CASE points = {} \/ o[2] \notin report.available
    BY <2>1, <2>2 DEF HighestIn, HighestPrice, PointsOf
  <2>3. CASE points # {} /\ o[2] \in report.available
    <3>1. g[S][o] \in prices /\ \A y \in prices : y <= g[S][o]
      BY <2>1, <2>3 DEF HighestIn
    <3>2. IsFiniteSet(prices) /\ prices \subseteq Nat
      <4>1. IsFiniteSet(points)
        BY <1>1, FS_Subset DEF PointsOf
      <4>2. IsFiniteSet(prices)
        <5> DEFINE f == [i \in points |-> report.history[i].price]
        <5>1. f \in Surjection(points, prices)
          BY DEF Surjection
        <5>2. QED
          BY <4>1, <5>1, FS_Surjection
      <4>3. \A i \in points : report.history[i].price \in Nat
        BY ReportTyped DEF PointsOf
      <4>4. QED
        BY <4>2, <4>3
    <3>3. HighestPrice(report, o) = Max(prices)
      BY <2>3 DEF HighestPrice, PointsOf
    <3> HIDE DEF prices
    <3>4. Max(prices) \in prices /\ \A y \in prices : y <= Max(prices)
      BY <3>1, <3>2, MaxIsMost
    <3>5. g[S][o] <= Max(prices) /\ Max(prices) <= g[S][o]
      BY <3>1, <3>4
    <3>6. g[S][o] \in Nat /\ Max(prices) \in Nat
      BY <3>1, <3>2, <3>4
    <3>7. QED
      BY <3>3, <3>5, <3>6
  <2>4. QED
    BY <2>2, <2>3
<1>6. QED
  BY <1>2, <1>4, <1>5 DEF Good

-----------------------------------------------------------------------------
(* The types of the state, the variables of the overlapping calls of update()  *)
(* first.                                                                      *)
FetchedTyped ==
    /\ asking \subseteq Caller
    /\ fetched = [c \in Caller |-> fetched[c]]
    /\ \A c \in Caller : /\ DOMAIN fetched[c] \subseteq ManagedRegions
                         /\ \A r \in DOMAIN fetched[c] : fetched[c][r] \in Report

PricesTyped ==
    /\ DOMAIN pricing \in {{}, ManagedRegions}
    /\ DOMAIN availableAZ = DOMAIN pricing
    /\ \A r \in DOMAIN pricing :
          availableAZ[r] \in SUBSET Zone /\ pricing[r] \in [Option -> Nat]

UpdatesAsked == \A i \in Caller : i \in asking <=> at[i] = "update"

LocalsInBounds ==
    /\ at \in [Caller -> Phase]
    /\ copy \in [Caller -> SUBSET WorkerType] /\ todo \in [Caller -> SUBSET WorkerType]
    /\ fruitless \subseteq Caller /\ outdated \subseteq Caller

WorldTyped ==
    /\ table \subseteq WorkerType /\ removed \subseteq WorkerType
    /\ edits \in 0 .. MaxEdits

RunnerTyped ==
    /\ current \in Caller \cup {NoIteration}
    /\ failures \in 0 .. MaxFailures - 1 /\ faults \in 0 .. MaxFaults

TypeInv == /\ FetchedTyped /\ PricesTyped /\ UpdatesAsked
           /\ LocalsInBounds /\ WorldTyped /\ RunnerTyped

LEMMA TypeInvIsTypeOK == TypeInv /\ PlanInv => TypeOK
BY DEF TypeInv, FetchedTyped, PricesTyped, UpdatesAsked, LocalsInBounds, WorldTyped,
       RunnerTyped, PlanInv, PlansInBounds, TypeOK, PricingTypeOK

LEMMA InitTypeInv == Init => TypeInv
<1> SUFFICES ASSUME Init PROVE TypeInv
  OBVIOUS
<1>1. FetchedTyped /\ PricesTyped /\ UpdatesAsked
  BY DEF Init, PricingInit, Nothing, FetchedTyped, PricesTyped, UpdatesAsked
<1>2. LocalsInBounds /\ WorldTyped /\ RunnerTyped
  BY OverlapAssumption DEF Init, LocalsInBounds, WorldTyped, RunnerTyped, Phase
<1>3. QED
  BY <1>1, <1>2 DEF TypeInv

(* An ended call has not been asked for, a replaced state has the prices of    *)
(* all regions or, after the process has ended, none.                          *)
LEMMA EndedTyped ==
    ASSUME TypeInv, NEW ended, ForgetLocals(ended), Forget(ended)
    PROVE  FetchedTyped' /\ UpdatesAsked' /\ LocalsInBounds'
<1>1. FetchedTyped'
  BY DEF TypeInv, FetchedTyped, Forget, Nothing
<1>2. UpdatesAsked'
  BY DEF TypeInv, UpdatesAsked, LocalsInBounds, FetchedTyped, Forget, ForgetLocals
<1>3. LocalsInBounds'
  BY DEF TypeInv, LocalsInBounds, ForgetLocals, Phase
<1>4. QED
  BY <1>1, <1>2, <1>3

LEMMA CountFailureTyped ==
    ASSUME TypeInv, NEW ended, CountFailure(ended)
    PROVE  /\ FetchedTyped' /\ PricesTyped' /\ UpdatesAsked' /\ LocalsInBounds'
           /\ current' = NoIteration /\ failures' \in 0 .. MaxFailures - 1
<1>1. FetchedTyped' /\ UpdatesAsked' /\ LocalsInBounds'
  BY EndedTyped DEF CountFailure
<1>2. PricesTyped'
  BY DEF TypeInv, PricesTyped, CountFailure, Nothing
<1>3. current' = NoIteration /\ failures' \in 0 .. MaxFailures - 1
  BY OverlapAssumption DEF TypeInv, RunnerTyped, CountFailure
<1>4. QED
  BY <1>1, <1>2, <1>3

LEMMA FailsTyped ==
    ASSUME TypeInv, NEW i \in Caller, Fails(i), faults' \in 0 .. MaxFaults
    PROVE  TypeInv'
<1>1. WorldTyped'
  BY DEF Fails, TypeInv, WorldTyped
<1>2. CASE i = current
  <2>1. CountFailure({i})
    BY <1>2 DEF Fails
  <2>2. QED
    BY <1>1, <2>1, CountFailureTyped DEF TypeInv, RunnerTyped
<1>3. CASE i # current
  <2>1. /\ ForgetLocals({i}) /\ Forget({i})
        /\ UNCHANGED <<current, failures, availableAZ, pricing>>
    BY <1>3 DEF Fails
  <2>2. FetchedTyped' /\ UpdatesAsked' /\ LocalsInBounds'
    BY <2>1, EndedTyped
  <2>3. PricesTyped' /\ RunnerTyped'
    BY <2>1 DEF TypeInv, PricesTyped, RunnerTyped
  <2>4. QED
    BY <1>1, <2>2, <2>3 DEF TypeInv
<1>4. QED
  BY <1>2, <1>3

(* What the calls of update() leave alone.                                     *)
LEMMA PricingUntouched ==
    ASSUME TypeInv, UNCHANGED pricingVars, UpdatesAsked', LocalsInBounds',
           WorldTyped', RunnerTyped'
    PROVE  TypeInv'
BY DEF TypeInv, pricingVars, FetchedTyped, PricesTyped

LEMMA LoadAllTyped ==
    ASSUME TypeInv, NEW i \in Caller, LoadAll(i)
    PROVE  TypeInv'
<1>1. FetchedTyped'
  BY DEF LoadAll, BeginUpdate, TypeInv, FetchedTyped, Nothing
<1>2. PricesTyped' /\ WorldTyped' /\ RunnerTyped'
  BY DEF LoadAll, BeginUpdate, TypeInv, PricesTyped, WorldTyped, RunnerTyped
<1>3. UpdatesAsked'
  BY DEF LoadAll, BeginUpdate, TypeInv, UpdatesAsked, LocalsInBounds
<1>4. LocalsInBounds'
  BY DEF LoadAll, TypeInv, LocalsInBounds, WorldTyped, Phase
<1>5. QED
  BY <1>1, <1>2, <1>3, <1>4 DEF TypeInv

LEMMA FetchTyped ==
    ASSUME TypeInv, NEW i \in Caller, FetchRegion(i)
    PROVE  TypeInv'
<1> PICK r \in ManagedRegions, report \in Report : Fetch(i, r, report)
  BY DEF FetchRegion
<1>1. fetched' = [fetched EXCEPT ![i] = [s \in DOMAIN fetched[i] \cup {r} |->
                                          IF s = r THEN report ELSE fetched[i][s]]]
  BY DEF Fetch
<1>2. /\ fetched' = [c \in Caller |-> fetched'[c]]
      /\ fetched'[i] = [s \in DOMAIN fetched[i] \cup {r} |->
                          IF s = r THEN report ELSE fetched[i][s]]
      /\ \A c \in Caller \ {i} : fetched'[c] = fetched[c]
  BY <1>1 DEF TypeInv, FetchedTyped
<1>3. asking' \subseteq Caller
  BY DEF TypeInv, FetchedTyped, Fetch
<1>4. \A c \in Caller : /\ DOMAIN fetched'[c] \subseteq ManagedRegions
                        /\ \A s \in DOMAIN fetched'[c] : fetched'[c][s] \in Report
  BY <1>2 DEF TypeInv, FetchedTyped
<1>5. FetchedTyped'
  BY <1>2, <1>3, <1>4 DEF FetchedTyped
<1>6. PricesTyped' /\ UpdatesAsked' /\ LocalsInBounds' /\ WorldTyped' /\ RunnerTyped'
  BY DEF FetchRegion, Fetch, TypeInv, PricesTyped, UpdatesAsked, LocalsInBounds,
         WorldTyped, RunnerTyped
<1>7. QED
  BY <1>5, <1>6 DEF TypeInv

(* The state for all regions, from what this call has fetched.                 *)
LEMMA EndUpdateTyped ==
    ASSUME TypeInv, NEW i \in Caller, EndUpdate(i)
    PROVE  /\ PricesTyped' /\ DOMAIN pricing' = ManagedRegions
           /\ \A r \in ManagedRegions :
                 /\ fetched[i][r] \in Report
                 /\ availableAZ'[r] = fetched[i][r].available
                 /\ pricing'[r] = FindMaxPrices(fetched[i][r])
<1>1. \A r \in ManagedRegions : fetched[i][r] \in Report
  BY DEF EndUpdate, TypeInv, FetchedTyped
<1>2. /\ DOMAIN pricing' = ManagedRegions /\ DOMAIN availableAZ' = ManagedRegions
      /\ \A r \in ManagedRegions : /\ availableAZ'[r] = fetched[i][r].available
                                   /\ pricing'[r] = FindMaxPrices(fetched[i][r])
  BY DEF EndUpdate
<1>3. \A r \in ManagedRegions : /\ fetched[i][r].available \in SUBSET Zone
                                /\ FindMaxPrices(fetched[i][r]) \in [Option -> Nat]
  BY <1>1, FindsMaxPrices, PricingAssumption
<1>4. PricesTyped'
  BY <1>2, <1>3 DEF PricesTyped
<1>5. QED
  BY <1>1, <1>2, <1>4

LEMMA UpdatedTyped ==
    ASSUME TypeInv, NEW i \in Caller, Updated(i)
    PROVE  TypeInv'
<1>1. PricesTyped'
  BY EndUpdateTyped DEF Updated
<1>2. FetchedTyped'
  BY DEF Updated, EndUpdate, TypeInv, FetchedTyped, Nothing
<1>3. UpdatesAsked'
  BY DEF Updated, EndUpdate, TypeInv, UpdatesAsked, LocalsInBounds
<1>4. LocalsInBounds' /\ WorldTyped' /\ RunnerTyped'
  BY DEF Updated, TypeInv, LocalsInBounds, WorldTyped, RunnerTyped, Phase
<1>5. QED
  BY <1>1, <1>2, <1>3, <1>4 DEF TypeInv

LEMMA FaultTyped == TypeInv /\ Fault => faults' \in 0 .. MaxFaults
BY OverlapAssumption DEF TypeInv, RunnerTyped, Fault

LEMMA ProceedTyped ==
    ASSUME TypeInv, NEW i \in Caller, Proceed(i)
    PROVE  TypeInv'
<1>1. CASE ListExtant(i) \/ Killed(i) \/ Counted(i)
  <2>1. LocalsInBounds' /\ UpdatesAsked'
    BY <1>1 DEF ListExtant, Killed, Counted, TypeInv, LocalsInBounds, UpdatesAsked,
                pricingVars, Phase
  <2>2. WorldTyped' /\ RunnerTyped' /\ UNCHANGED pricingVars
    BY <1>1 DEF ListExtant, Killed, Counted, TypeInv, WorldTyped, RunnerTyped
  <2>3. QED
    BY <2>1, <2>2, PricingUntouched
<1>2. ASSUME NEW w \in WorkerType, Kill(i, w) \/ Count(i, w) \/ Submit(i, w)
      PROVE  TypeInv'
  <2>1. LocalsInBounds' /\ UpdatesAsked'
    BY <1>2 DEF Kill, Count, Submit, Request, TypeInv, LocalsInBounds, UpdatesAsked,
                pricingVars, Phase
  <2>2. WorldTyped' /\ RunnerTyped' /\ UNCHANGED pricingVars
    BY <1>2, FaultTyped DEF Kill, Count, Submit, Request, TypeInv, WorldTyped, RunnerTyped
  <2>3. QED
    BY <2>1, <2>2, PricingUntouched
<1>3. CASE IterationDone(i)
  <2>1. LocalsInBounds'
    BY <1>3 DEF IterationDone, ForgetLocals, TypeInv, LocalsInBounds, Phase
  <2>2. UpdatesAsked'
    BY <1>3 DEF IterationDone, ForgetLocals, TypeInv, LocalsInBounds, UpdatesAsked,
                pricingVars
  <2>3. WorldTyped' /\ RunnerTyped' /\ UNCHANGED pricingVars
    BY <1>3, OverlapAssumption DEF IterationDone, TypeInv, WorldTyped, RunnerTyped
  <2>4. QED
    BY <2>1, <2>2, <2>3, PricingUntouched
<1>4. CASE NothingSubmitted(i)
  BY <1>4, FailsTyped DEF NothingSubmitted, TypeInv, RunnerTyped
<1>5. QED
  BY <1>1, <1>2, <1>3, <1>4, LoadAllTyped, FetchTyped, UpdatedTyped DEF Proceed

LEMMA NextTypeInv == TypeInv /\ [Next]_vars => TypeInv'
<1> SUFFICES ASSUME TypeInv, [Next]_vars PROVE TypeInv'
  OBVIOUS
<1>1. ASSUME NEW i \in Caller, StartIteration(i) PROVE TypeInv'
  <2>1. LocalsInBounds' /\ UpdatesAsked' /\ WorldTyped' /\ RunnerTyped'
    BY <1>1 DEF StartIteration, TypeInv, LocalsInBounds, UpdatesAsked, WorldTyped,
                RunnerTyped, pricingVars, Phase
  <2>2. QED
    BY <1>1, <2>1, PricingUntouched DEF StartIteration
<1>2. ASSUME NEW i \in Caller, IterationFails(i) PROVE TypeInv'
  BY <1>2, FailsTyped, FaultTyped DEF IterationFails
<1>3. ASSUME NEW i \in Caller, RogueKillerFails(i) PROVE TypeInv'
  <2>1. LocalsInBounds' /\ UpdatesAsked'
    BY <1>3 DEF RogueKillerFails, TypeInv, LocalsInBounds, UpdatesAsked, pricingVars,
                Phase
  <2>2. WorldTyped' /\ RunnerTyped' /\ UNCHANGED pricingVars
    BY <1>3, FaultTyped DEF RogueKillerFails, TypeInv, WorldTyped, RunnerTyped
  <2>3. QED
    BY <2>1, <2>2, PricingUntouched
<1>4. CASE TimeOut
  <2>1. CountFailure({}) /\ faults' \in 0 .. MaxFaults
    BY <1>4, FaultTyped DEF TimeOut
  <2>2. WorldTyped'
    BY <1>4 DEF TimeOut, TypeInv, WorldTyped
  <2>3. QED
    BY <2>1, <2>2, CountFailureTyped DEF TypeInv, RunnerTyped
<1>5. ASSUME NEW w \in WorkerType, Create(w) \/ RemoveType(w) \/ LateLands(w) \/ Lose(w)
      PROVE  TypeInv'
  <2>1. LocalsInBounds' /\ UpdatesAsked' /\ RunnerTyped' /\ UNCHANGED pricingVars
    BY <1>5 DEF Create, RemoveType, LateLands, Lose, TypeInv, LocalsInBounds, UpdatesAsked,
                RunnerTyped, pricingVars
  <2>2. WorldTyped'
    BY <1>5, OverlapAssumption DEF Create, RemoveType, LateLands, Lose, TypeInv, WorldTyped
  <2>3. QED
    BY <2>1, <2>2, PricingUntouched
<1>6. CASE UNCHANGED vars
  BY <1>6, PricingUntouched DEF vars, TypeInv, LocalsInBounds, UpdatesAsked,
                                RunnerTyped, WorldTyped, pricingVars
<1>7. QED
  BY <1>1, <1>2, <1>3, <1>4, <1>5, <1>6, ProceedTyped DEF Next

(* The iterations' state has the types it should have.                         *)
THEOREM TypeCorrect == Spec => []TypeOK
BY InitTypeInv, NextTypeInv, InitPlanInv, NextPlanInv, TypeInvIsTypeOK, PTL DEF Spec

(* For any number of calls under way at once, regions and reports of whatever  *)
(* length: iterations bid by the zones and the highest prices one call got.    *)
THEOREM PricesAreFromOneCall == Spec => PricesFromOneCall
<1> DEFINE OneCall ==
      /\ pricing' # pricing \/ availableAZ' # availableAZ
      /\ pricing' # Nothing
      =>
        \E c \in Caller :
            /\ DOMAIN fetched[c] = ManagedRegions
            /\ DOMAIN pricing' = ManagedRegions
            /\ \A r \in ManagedRegions :
                  /\ availableAZ'[r] = fetched[c][r].available
                  /\ \A o \in Option :
                        pricing'[r][o] = HighestPrice(fetched[c][r], o)
<1>1. TypeInv /\ [Next]_vars => [OneCall]_pricingVars
  <2> SUFFICES ASSUME TypeInv, [Next]_vars PROVE OneCall
    OBVIOUS
  <2>1. ASSUME NEW i \in Caller, Updated(i) PROVE OneCall
    <3>1. EndUpdate(i)
      BY <2>1 DEF Updated
    <3>2. /\ DOMAIN pricing' = ManagedRegions
          /\ \A r \in ManagedRegions :
                /\ fetched[i][r] \in Report
                /\ availableAZ'[r] = fetched[i][r].available
                /\ pricing'[r] = FindMaxPrices(fetched[i][r])
      BY <3>1, EndUpdateTyped
    <3>3. \A r \in ManagedRegions, o \in Option :
             FindMaxPrices(fetched[i][r])[o] = HighestPrice(fetched[i][r], o)
      BY <3>2, FindsMaxPrices
    <3>4. DOMAIN fetched[i] = ManagedRegions
      BY <3>1 DEF EndUpdate
    <3>5. QED
      BY <3>2, <3>3, <3>4
  <2>2. ASSUME UNCHANGED <<availableAZ, pricing>> \/ pricing' = Nothing PROVE OneCall
    BY <2>2
  <2> HIDE DEF OneCall
  <2>3. ASSUME NEW ended, CountFailure(ended) PROVE OneCall
    BY <2>2, <2>3 DEF CountFailure
  <2>4. ASSUME NEW i \in Caller, Fails(i) PROVE OneCall
    BY <2>2, <2>3, <2>4 DEF Fails
  <2>5. ASSUME NEW i \in Caller, Proceed(i) PROVE OneCall
    <3>1. CASE LoadAll(i) \/ FetchRegion(i)
      BY <2>2, <3>1 DEF LoadAll, BeginUpdate, FetchRegion, Fetch
    <3>2. CASE ListExtant(i) \/ Killed(i) \/ Counted(i) \/ IterationDone(i)
      BY <2>2, <3>2 DEF ListExtant, Killed, Counted, IterationDone, pricingVars
    <3>3. ASSUME NEW w \in WorkerType, Kill(i, w) \/ Count(i, w) \/ Submit(i, w)
          PROVE  OneCall
      BY <2>2, <3>3 DEF Kill, Count, Submit, pricingVars
    <3>4. CASE NothingSubmitted(i)
      BY <2>4, <3>4 DEF NothingSubmitted
    <3>5. QED
      BY <2>1, <2>5, <3>1, <3>2, <3>3, <3>4 DEF Proceed
  <2>6. ASSUME NEW i \in Caller, \/ StartIteration(i) \/ IterationFails(i)
                                 \/ RogueKillerFails(i)
        PROVE  OneCall
    BY <2>2, <2>4, <2>6 DEF StartIteration, IterationFails, RogueKillerFails,
                            pricingVars
  <2>7. CASE TimeOut
    BY <2>3, <2>7 DEF TimeOut
  <2>8. ASSUME NEW w \in WorkerType, Create(w) \/ RemoveType(w) \/ LateLands(w) \/ Lose(w)
        PROVE  OneCall
    BY <2>2, <2>8 DEF Create, RemoveType, LateLands, Lose, pricingVars
  <2>9. CASE UNCHANGED vars
    BY <2>2, <2>9 DEF vars, pricingVars
  <2>10. QED
    BY <2>5, <2>6, <2>7, <2>8, <2>9 DEF Next
<1>2. QED
  BY <1>1, InitTypeInv, NextTypeInv, PTL DEF Spec, PricesFromOneCall
=============================================================================
