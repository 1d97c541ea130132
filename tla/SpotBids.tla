------------------------------ MODULE SpotBids ------------------------------
(* One call of determineSpotBids (lib/worker-type.js), a pass of its loop at a *)
(* time: pick any option, price it, take its capacity off the change, stop     *)
(* when nothing is left, when the option is above the maximum price, or when   *)
(* the bid is out of all proportion.                                           *)
EXTENDS BidOptions, Sequences

CONSTANTS
    Rules,          \* definitions the call is made on
    Pricings,       \* prices the call may find
    MaxChange,      \* bound: the units a call is asked for
    MaxPasses       \* bound: the bids a call is followed for

ASSUME CallAssumption ==
    /\ Rules \subseteq BiddingRule
    /\ Pricings \subseteq Pricing
    /\ MaxChange \in Nat \ {0}
    /\ MaxPasses \in Nat /\ MaxPasses >= MaxChange

VARIABLES
    rule, pricing,  \* the call's worker type and prices
    asked,          \* the change the call was made with
    change,         \* what is left of it
    spotBids,       \* the bids made so far
    pc              \* "bidding", "returned" or "threw"

vars == <<rule, pricing, asked, change, spotBids, pc>>

Bid == [option : Option, price : Int]

Init ==
    /\ rule \in Rules
    /\ pricing \in Pricings
    /\ asked \in 1 .. MaxChange
    /\ change = asked
    /\ spotBids = <<>>
    /\ pc = "bidding"

Return(bids) ==
    /\ spotBids' = bids
    /\ pc' = "returned"

(* Mutant: nothing is done about an empty list of options, and the loop spins. *)
NoOptionIgnored ==
    /\ pc = "bidding" /\ change > 0
    /\ Options(rule, pricing) = {}
    /\ UNCHANGED vars

(* Nowhere to bid: the call throws and the bids made so far are lost.          *)
NoOption ==
    /\ pc = "bidding" /\ change > 0
    /\ Options(rule, pricing) = {}
    /\ pc' = "threw"
    /\ UNCHANGED <<rule, pricing, asked, change, spotBids>>

(* Mutant: a bid out of all proportion ends the call but stays in the list.    *)
BidOnKeepingInsane(o) ==
    LET bid == [option |-> o, price |-> BidPrice(rule, pricing, o)] IN
    /\ pc = "bidding" /\ change > 0 /\ Len(spotBids) < MaxPasses
    /\ o \in Options(rule, pricing)
    /\ IF Affordable(rule, pricing, o)
       THEN /\ change' = change - rule.capacity[o.type]
            /\ IF bid.price > SaneBid THEN Return(Append(spotBids, bid))
               ELSE spotBids' = Append(spotBids, bid) /\ UNCHANGED pc
       ELSE Return(spotBids) /\ UNCHANGED change
    /\ UNCHANGED <<rule, pricing, asked>>

(* Mutant: every bid counts for one unit, whatever its instance type.          *)
BidOnCountingInstances(o) ==
    LET bid == [option |-> o, price |-> BidPrice(rule, pricing, o)] IN
    /\ pc = "bidding" /\ change > 0 /\ Len(spotBids) < MaxPasses
    /\ o \in Options(rule, pricing)
    /\ IF Affordable(rule, pricing, o)
       THEN /\ change' = change - 1
            /\ IF bid.price > SaneBid THEN Return(<<>>)
               ELSE spotBids' = Append(spotBids, bid) /\ UNCHANGED pc
       ELSE Return(spotBids) /\ UNCHANGED change
    /\ UNCHANGED <<rule, pricing, asked>>

(* Mutant: the loop bids once more after the change is met.                    *)
BidOnOnceMore(o) ==
    LET bid == [option |-> o, price |-> BidPrice(rule, pricing, o)] IN
    /\ pc = "bidding" /\ change >= 0 /\ Len(spotBids) < MaxPasses
    /\ o \in Options(rule, pricing)
    /\ IF Affordable(rule, pricing, o)
       THEN /\ change' = change - rule.capacity[o.type]
            /\ IF bid.price > SaneBid THEN Return(<<>>)
               ELSE spotBids' = Append(spotBids, bid) /\ UNCHANGED pc
       ELSE Return(spotBids) /\ UNCHANGED change
    /\ UNCHANGED <<rule, pricing, asked>>

(* Mutant: what was asked for is counted down too.                             *)
BidOnSpendingAsked(o) ==
    LET bid == [option |-> o, price |-> BidPrice(rule, pricing, o)] IN
    /\ pc = "bidding" /\ change > 0 /\ Len(spotBids) < MaxPasses
    /\ o \in Options(rule, pricing)
    /\ IF Affordable(rule, pricing, o)
       THEN /\ change' = change - rule.capacity[o.type]
            /\ asked' = change'
            /\ IF bid.price > SaneBid THEN Return(<<>>)
               ELSE spotBids' = Append(spotBids, bid) /\ UNCHANGED pc
       ELSE Return(spotBids) /\ UNCHANGED <<change, asked>>
    /\ UNCHANGED <<rule, pricing>>

(* One pass with the sampled option o.  The bound is never met by a call whose *)
(* bids take something off the change: it makes no more bids than units asked. *)
BidOn(o) ==
    LET bid == [option |-> o, price |-> BidPrice(rule, pricing, o)] IN
    /\ pc = "bidding" /\ change > 0 /\ Len(spotBids) < MaxPasses
    /\ o \in Options(rule, pricing)
    /\ IF Affordable(rule, pricing, o)
       THEN /\ change' = change - rule.capacity[o.type]
            /\ IF bid.price > SaneBid THEN Return(<<>>)
               ELSE spotBids' = Append(spotBids, bid) /\ UNCHANGED pc
       ELSE Return(spotBids) /\ UNCHANGED change
    /\ UNCHANGED <<rule, pricing, asked>>

(* The loop's condition no longer holds.                                       *)
ChangeMet ==
    /\ pc = "bidding" /\ change <= 0
    /\ Return(spotBids)
    /\ UNCHANGED <<rule, pricing, asked, change>>

Next == NoOption \/ (\E o \in Option : BidOn(o)) \/ ChangeMet

Spec == Init /\ [][Next]_vars /\ WF_vars(Next)

-----------------------------------------------------------------------------
TypeOK ==
    /\ rule \in Rules
    /\ pricing \in Pricings
    /\ asked \in 1 .. MaxChange
    /\ change \in Int
    /\ spotBids \in Seq(Bid)
    /\ pc \in {"bidding", "returned", "threw"}

(* The bids made so far, their order forgotten.                                *)
BidBag ==
    [o \in Option |->
        Cardinality({i \in 1 .. Len(spotBids) : spotBids[i].option = o})]

(* Nothing is bid on beyond the bid that meets the change: the loop overshoots *)
(* by less than the capacity of its last instance.                             *)
Overshoot ==
    change <= 0 /\ spotBids # <<>> =>
        change + rule.capacity[spotBids[Len(spotBids)].option.type] > 0

(* While the loop runs, what was bid and what is left make up what was asked.  *)
ChangeAccounted ==
    pc = "bidding" => UnitsOf(rule, BidBag) + change = asked

(* What is returned never holds a bid above ten dollars, not even the one that *)
(* ended the call or one made before it.                                       *)
NoInsaneBid ==
    pc = "returned" => \A i \in 1 .. Len(spotBids) : spotBids[i].price <= SaneBid

(* Every list the loop returns is one that BidOutcomes says it may return: the *)
(* change is covered without a bid to spare, or an option was too dear.        *)
ReturnsAnOutcome ==
    pc = "returned" /\ TakesOff(rule) =>
        BidBag \in BidOutcomes(rule, pricing, asked)

(* The call ends, whatever is sampled: the loop has no counter of its own, and *)
(* only what a bid takes off the change brings it to an end.                   *)
Terminates == TakesOff(rule) => <>(pc # "bidding")

-----------------------------------------------------------------------------
(* What comments say of the loop, and the code does otherwise.                 *)

(* Bids are chosen by the units needed, and an instance is good for some       *)
(* number of tasks: there are never more bids than units asked for.            *)
BidsByUnits == Len(spotBids) <= asked
=============================================================================
