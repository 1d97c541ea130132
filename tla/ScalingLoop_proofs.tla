------------------------- MODULE ScalingLoop_proofs -------------------------
(* The safety properties of ScalingLoop, for every set of rules, instance size *)
(* and bound.                                                                  *)
EXTENDS ScalingLoop, UnitLemmas

(* Two instances of the same kind never have fewer units than one of them.     *)
LEMMA TimesMonotone ==
    ASSUME NEW k \in Nat, NEW m \in Nat, NEW n \in Nat, m <= n
    PROVE  k * m \in Nat /\ k * n \in Nat /\ k * m <= k * n
BY SMT

(* The bid loop starts enough instances for the change, and less than one too  *)
(* many.                                                                       *)
LEMMA InstancesCoverChange ==
    ASSUME NEW change \in Int, change > 0
    PROVE  /\ InstancesFor(change) \in Nat
           /\ change <= InstanceUnits * InstancesFor(change)
           /\ InstanceUnits * InstancesFor(change) < change + InstanceUnits
<1> DEFINE a == change + InstanceUnits - 1
           n == a \div InstanceUnits
<1>1. InstanceUnits \in Nat \ {0} /\ a \in Nat
  BY LoopAssumption
<1>2. n \in Nat /\ InstanceUnits * n <= a /\ a < InstanceUnits * n + InstanceUnits
  BY <1>1, DivNat, DivBounds
<1>3. InstancesFor(change) = n
  BY DEF InstancesFor
<1>4. InstanceUnits * n \in Nat
  BY <1>1, <1>2
<1> QED
  BY <1>1, <1>2, <1>3, <1>4

(* The counts stay in their ranges; no unit works that is not there.           *)
THEOREM TypeCorrect == Spec => []TypeOK
<1>1. Init => TypeOK
  BY LoopAssumption DEF Init, TypeOK
<1>2. TypeOK /\ [Next]_vars => TypeOK'
  <2> SUFFICES ASSUME TypeOK, [Next]_vars
               PROVE  TypeOK'
    OBVIOUS
  <2> USE LoopAssumption DEF TypeOK
  <2>1. CASE Evaluate
    <3>1. rule \in ScalingRule /\ InstanceUnits * running \in Nat
             /\ InstanceUnits * pending \in Nat
      OBVIOUS
    <3>2. Change \in Int
      BY <3>1, CapacityChangeInt DEF Change
    <3>3. InstancesFor(Change) \in Nat
      BY <2>1, <3>2, InstancesCoverChange DEF Evaluate
    <3> QED
      BY <2>1, <3>3 DEF Evaluate
  <2>2. CASE Boot
    <3>1. InstanceUnits * running <= InstanceUnits * (running + 1)
             /\ InstanceUnits * running \in Nat
             /\ InstanceUnits * (running + 1) \in Nat
      BY TimesMonotone
    <3> QED
      BY <2>2, <3>1 DEF Boot
  <2>3. CASE Claim
    BY <2>3 DEF Claim
  <2>4. CASE Finish
    BY <2>4 DEF Finish
  <2>5. CASE Lose
    BY <2>5 DEF Lose
  <2>6. CASE Arrive
    BY <2>6 DEF Arrive
  <2>7. CASE UNCHANGED vars
    BY <2>7 DEF vars
  <2> QED
    BY <2>1, <2>2, <2>3, <2>4, <2>5, <2>6, <2>7 DEF Next
<1> QED
  BY <1>1, <1>2, PTL DEF Spec

(* No interleaving of iterations, boots and losses takes a worker type to its  *)
(* ceiling plus a whole instance: CapacityBounded is inductive once the types  *)
(* are known, because Evaluate bounds where it leads and nothing else adds.    *)
THEOREM CapacityAlwaysBounded == Spec => []CapacityBounded
<1>1. Init => CapacityBounded
  <2> SUFFICES ASSUME Init PROVE CapacityBounded
    OBVIOUS
  <2>1. rule \in ScalingRule /\ Ceiling(rule) \in Nat
    BY LoopAssumption DEF Init, ScalingRule, Ceiling
  <2>2. Units = 0
    BY LoopAssumption DEF Init, Units
  <2> QED
    BY <2>1, <2>2, LoopAssumption DEF CapacityBounded
<1>2. TypeOK /\ CapacityBounded /\ [Next]_vars => CapacityBounded'
  <2> SUFFICES ASSUME TypeOK, CapacityBounded, [Next]_vars
               PROVE  CapacityBounded'
    OBVIOUS
  <2> USE LoopAssumption
  <2>t. rule \in ScalingRule /\ pending \in Nat /\ running \in Nat /\ tasks \in Nat
           /\ InstanceUnits \in Nat \ {0}
    BY DEF TypeOK
  <2>c. Ceiling(rule) \in Nat
    BY <2>t DEF ScalingRule, Ceiling
  <2>1. CASE Evaluate
    <3> DEFINE n == InstancesFor(Change)
    <3>1. InstanceUnits * running \in Nat /\ InstanceUnits * pending \in Nat
      BY <2>t
    <3>2. Change \in Int /\ Change > 0
      BY <2>1, <2>t, <3>1, CapacityChangeInt DEF Change, Evaluate
    <3>3. InstanceUnits * running + InstanceUnits * pending + Change <= Ceiling(rule)
      BY <2>t, <3>1, ChangeStaysBelowCeiling DEF Change
    <3>4. n \in Nat /\ InstanceUnits * n < Change + InstanceUnits
      BY <3>2, InstancesCoverChange
    <3>5. InstanceUnits * (running + (pending + n))
            = InstanceUnits * running + InstanceUnits * pending + InstanceUnits * n
             /\ InstanceUnits * n \in Nat
      BY <2>t, <3>4
    <3>6. Units' = InstanceUnits * (running + (pending + n)) /\ rule' = rule
      BY <2>1 DEF Evaluate, Units
    <3> HIDE DEF n
    <3>7. Units' < Ceiling(rule) + InstanceUnits
      BY <2>t, <2>c, <3>1, <3>2, <3>3, <3>4, <3>5, <3>6
    <3> QED
      BY <3>6, <3>7 DEF CapacityBounded, Ceiling
  <2>2. CASE Boot
    <3>1. Units' = Units /\ rule' = rule
      BY <2>2, <2>t DEF Boot, Units
    <3> QED
      BY <3>1 DEF CapacityBounded, Ceiling
  <2>3. CASE Lose
    <3>1. PICK m \in Nat : running' + pending' = m /\ m <= running + pending
      BY <2>3, <2>t DEF Lose
    <3>2. InstanceUnits * m <= InstanceUnits * (running + pending)
            /\ InstanceUnits * m \in Nat /\ InstanceUnits * (running + pending) \in Nat
      BY <2>t, <3>1, TimesMonotone
    <3>3. rule' = rule
      BY <2>3 DEF Lose
    <3>4. Units' = InstanceUnits * m
      BY <3>1 DEF Units
    <3> QED
      BY <2>c, <2>t, <3>2, <3>3, <3>4 DEF CapacityBounded, Ceiling, Units
  <2>4. CASE Claim \/ Finish \/ Arrive \/ UNCHANGED vars
    <3>1. Units' = Units /\ rule' = rule
      BY <2>4 DEF Claim, Finish, Arrive, vars, Units
    <3> QED
      BY <3>1 DEF CapacityBounded, Ceiling
  <2> QED
    BY <2>1, <2>2, <2>3, <2>4 DEF Next
<1> QED
  BY <1>1, <1>2, TypeCorrect, PTL DEF Spec

(* An iteration never answers the same demand twice.                           *)
THEOREM DemandAnsweredOnce == Spec => AnsweredOnce
<1>1. TypeOK /\ [Next]_vars => [Evaluate => Change' <= 0]_vars
  <2> SUFFICES ASSUME TypeOK, Evaluate
               PROVE  Change' <= 0
    OBVIOUS
  <2> DEFINE n == InstancesFor(Change)
  <2>1. rule \in ScalingRule /\ pending \in Nat /\ running \in Nat /\ tasks \in Nat
          /\ InstanceUnits \in Nat \ {0}
    BY LoopAssumption DEF TypeOK
  <2>2. InstanceUnits * running \in Nat /\ InstanceUnits * pending \in Nat
    BY <2>1
  <2>3. Change \in Int /\ Change > 0
    BY <2>1, <2>2, CapacityChangeInt DEF Change, Evaluate
  <2>4. n \in Nat /\ Change <= InstanceUnits * n
    BY <2>3, InstancesCoverChange
  <2>5. InstanceUnits * (pending + n) = InstanceUnits * pending + InstanceUnits * n
          /\ InstanceUnits * n \in Nat
    BY <2>1, <2>4
  <2>6. Change' = DetermineCapacityChange(rule, InstanceUnits * running,
                                          InstanceUnits * pending + InstanceUnits * n,
                                          tasks)
    BY <2>5 DEF Change, Evaluate
  <2> HIDE DEF n
  <2> QED
    BY <2>1, <2>2, <2>4, <2>5, <2>6, ChangeIsAnsweredOnce DEF Change
<1> QED
  BY <1>1, TypeCorrect, PTL DEF Spec, AnsweredOnce
=============================================================================
