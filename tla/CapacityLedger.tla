--------------------------- MODULE CapacityLedger ---------------------------
(* What a provisioner promises about capacity, without calls, bids or types:   *)
(* for each worker type it counts the units there are, makes one plan that     *)
(* fits into the room left, and launches at most what it planned.              *)
EXTENDS Integers

CONSTANTS
    WorkerType,
    Amount          \* numbers of capacity units

ASSUME AmountAssumption == Amount \subseteq Nat /\ 0 \in Amount

VARIABLES
    units,          \* units there are, as the current definition counts them
    room,           \* the plan has to keep the units below this
    planned,        \* units planned and not launched yet
    unseen          \* units that turned up since the units were counted

vars == <<units, room, planned, unseen>>

Ledgers == [WorkerType -> Amount]
Empty   == [w \in WorkerType |-> 0]

Init ==
    /\ units = Empty /\ room = Empty
    /\ planned = Empty /\ unseen = Empty

(* The units of w are counted and a plan is made, or none is needed.           *)
Plan(w, n) ==
    /\ planned[w] = 0
    /\ n > 0 => units[w] + n < room[w]
    /\ planned' = [planned EXCEPT ![w] = n]
    /\ unseen' = [unseen EXCEPT ![w] = 0]
    /\ UNCHANGED <<units, room>>

(* Some planned units become real.                                             *)
Launch(w, n) ==
    /\ 0 < n /\ n <= planned[w]
    /\ units[w] + n \in Amount
    /\ planned[w] - n \in Amount
    /\ units' = [units EXCEPT ![w] = @ + n]
    /\ planned' = [planned EXCEPT ![w] = @ - n]
    /\ UNCHANGED <<room, unseen>>

(* Plans are given up in part or in full.                                      *)
Drop ==
    /\ planned' \in Ledgers
    /\ \A w \in WorkerType : planned'[w] <= planned[w]
    /\ UNCHANGED <<units, room, unseen>>

(* Mutant: more units go away than there are.                                  *)
LoseTooMany(w, n) ==
    /\ units' = [units EXCEPT ![w] = @ - n]
    /\ UNCHANGED <<room, planned, unseen>>

(* Units go away.                                                              *)
Lose(w, n) ==
    /\ n < units[w]
    /\ units' = [units EXCEPT ![w] = n]
    /\ UNCHANGED <<room, planned, unseen>>

(* Mutant: what turns up is not remembered.                                    *)
AppearUnseen(w, n) ==
    /\ units[w] + n \in Amount
    /\ units' = [units EXCEPT ![w] = @ + n]
    /\ UNCHANGED <<room, planned, unseen>>

(* Units turn up that were planned and given up before the last count.         *)
Appear(w, n) ==
    /\ units[w] + n \in Amount
    /\ unseen[w] + n \in Amount
    /\ units' = [units EXCEPT ![w] = @ + n]
    /\ unseen' = [unseen EXCEPT ![w] = @ + n]
    /\ UNCHANGED <<room, planned>>

(* An iteration begins: units and room as the loaded definitions measure them. *)
Begin ==
    /\ units = Empty /\ room = Empty /\ planned = Empty
    /\ units' \in Ledgers
    /\ room' \in Ledgers
    /\ unseen' \in Ledgers
    /\ UNCHANGED planned

(* It ends, in whatever way: no plan outlives it, and nothing is measured      *)
(* until the next one.                                                         *)
End ==
    /\ units' = Empty /\ room' = Empty /\ planned' = Empty /\ unseen' = Empty

Next ==
    \/ \E w \in WorkerType, n \in Amount :
          Plan(w, n) \/ Launch(w, n) \/ Lose(w, n) \/ Appear(w, n)
    \/ Drop
    \/ Begin \/ End

Spec == Init /\ [][Next]_vars

-----------------------------------------------------------------------------
TypeOK ==
    /\ units \in Ledgers /\ room \in Ledgers
    /\ planned \in Ledgers /\ unseen \in Ledgers

(* While a plan is being carried out, what there is and what is still to come  *)
(* fit into the room, but for the units that turned up unplanned.              *)
PlanFits ==
    \A w \in WorkerType :
        planned[w] > 0 => units[w] + planned[w] < room[w] + unseen[w]
=============================================================================
