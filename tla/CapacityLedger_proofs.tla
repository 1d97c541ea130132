------------------------ MODULE CapacityLedger_proofs ------------------------
(* The ledger's promise for any number of worker types and any amounts.        *)
EXTENDS CapacityLedger, TLAPS

(* The inductive invariant: types, and plans that fit.  A launch moves units   *)
(* from one side of the sum to the other, what turns up is added to both sides *)
(* of the inequality, and everything else only makes room.                     *)
IInv == TypeOK /\ PlanFits

LEMMA InitIInv == Init => IInv
BY AmountAssumption DEF Init, IInv, TypeOK, PlanFits, Ledgers, Empty

LEMMA NextIInv == IInv /\ [Next]_vars => IInv'
<1> SUFFICES ASSUME IInv, [Next]_vars
             PROVE  IInv'
  OBVIOUS
<1> USE AmountAssumption DEF IInv, TypeOK, Ledgers
<1>t. \A v \in WorkerType : /\ units[v] \in Nat /\ planned[v] \in Nat
                           /\ room[v] \in Nat /\ unseen[v] \in Nat
  OBVIOUS
<1>p. \A v \in WorkerType :
         planned[v] > 0 => units[v] + planned[v] < room[v] + unseen[v]
  BY DEF PlanFits
<1>1. ASSUME NEW w \in WorkerType, NEW n \in Amount, Plan(w, n)
      PROVE  IInv'
  <2>1. TypeOK'
    BY <1>1 DEF Plan
  <2>2. ASSUME NEW v \in WorkerType, planned'[v] > 0
        PROVE  units'[v] + planned'[v] < room'[v] + unseen'[v]
    <3>1. /\ units' = units /\ room' = room
          /\ v # w => planned'[v] = planned[v] /\ unseen'[v] = unseen[v]
          /\ v = w => /\ planned'[v] = n /\ unseen'[v] = 0
                      /\ n > 0 => units[v] + n < room[v]
      BY <1>1 DEF Plan
    <3> QED
      BY <1>t, <1>p, <2>2, <3>1
  <2> QED
    BY <2>1, <2>2 DEF PlanFits
<1>2. ASSUME NEW w \in WorkerType, NEW n \in Amount, Launch(w, n)
      PROVE  IInv'
  <2>1. TypeOK'
    BY <1>2 DEF Launch
  <2>2. ASSUME NEW v \in WorkerType, planned'[v] > 0
        PROVE  units'[v] + planned'[v] < room'[v] + unseen'[v]
    <3>1. /\ room' = room /\ unseen' = unseen
          /\ v # w => planned'[v] = planned[v] /\ units'[v] = units[v]
          /\ v = w => /\ planned'[v] = planned[v] - n /\ units'[v] = units[v] + n
                      /\ n \in Nat /\ 0 < n /\ n <= planned[v]
      BY <1>2 DEF Launch
    <3> QED
      BY <1>t, <1>p, <2>2, <3>1
  <2> QED
    BY <2>1, <2>2 DEF PlanFits
<1>3. ASSUME NEW w \in WorkerType, NEW n \in Amount, Lose(w, n)
      PROVE  IInv'
  <2>1. TypeOK'
    BY <1>3 DEF Lose
  <2>2. ASSUME NEW v \in WorkerType, planned'[v] > 0
        PROVE  units'[v] + planned'[v] < room'[v] + unseen'[v]
    <3>1. /\ room' = room /\ unseen' = unseen /\ planned' = planned
          /\ v # w => units'[v] = units[v]
          /\ v = w => units'[v] = n /\ n \in Nat /\ n < units[v]
      BY <1>3 DEF Lose
    <3> QED
      BY <1>t, <1>p, <2>2, <3>1
  <2> QED
    BY <2>1, <2>2 DEF PlanFits
<1>4. ASSUME NEW w \in WorkerType, NEW n \in Amount, Appear(w, n)
      PROVE  IInv'
  <2>1. TypeOK'
    BY <1>4 DEF Appear
  <2>2. ASSUME NEW v \in WorkerType, planned'[v] > 0
        PROVE  units'[v] + planned'[v] < room'[v] + unseen'[v]
    <3>1. /\ room' = room /\ planned' = planned
          /\ v # w => units'[v] = units[v] /\ unseen'[v] = unseen[v]
          /\ v = w => /\ units'[v] = units[v] + n /\ unseen'[v] = unseen[v] + n
                      /\ n \in Nat
      BY <1>4 DEF Appear
    <3> QED
      BY <1>t, <1>p, <2>2, <3>1
  <2> QED
    BY <2>1, <2>2 DEF PlanFits
<1>5. CASE Drop
  <2>1. TypeOK'
    BY <1>5 DEF Drop
  <2>2. ASSUME NEW v \in WorkerType, planned'[v] > 0
        PROVE  units'[v] + planned'[v] < room'[v] + unseen'[v]
    <3>1. /\ units' = units /\ room' = room /\ unseen' = unseen
          /\ planned'[v] \in Nat /\ planned'[v] <= planned[v]
      BY <1>5 DEF Drop
    <3> QED
      BY <1>t, <1>p, <2>2, <3>1
  <2> QED
    BY <2>1, <2>2 DEF PlanFits
<1>6. CASE Begin \/ End
  <2>1. planned' = Empty
    BY <1>6 DEF Begin, End
  <2>2. TypeOK'
    BY <1>6 DEF Begin, End, Empty
  <2> QED
    BY <2>1, <2>2 DEF PlanFits, Empty
<1>7. CASE UNCHANGED vars
  BY <1>7 DEF vars, PlanFits
<1> QED
  BY <1>1, <1>2, <1>3, <1>4, <1>5, <1>6, <1>7 DEF Next

LEMMA Invariance == Spec => []IInv
BY InitIInv, NextIInv, PTL DEF Spec

(* The amounts stay amounts.                                                   *)
THEOREM TypeCorrect == Spec => []TypeOK
<1>1. IInv => TypeOK
  BY DEF IInv
<1> QED
  BY <1>1, Invariance, PTL

(* While a plan is carried out, what there is and what is to come fit into the *)
(* room: the bound on capacity that the provisioner keeps, because it keeps    *)
(* the ledger.                                                                 *)
THEOREM PlansFit == Spec => []PlanFits
<1>1. IInv => PlanFits
  BY DEF IInv
<1> QED
  BY <1>1, Invariance, PTL
==============================================================================
