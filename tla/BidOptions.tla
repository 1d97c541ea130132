----------------------------- MODULE BidOptions -----------------------------
(* Where a worker type may bid, at what price, and which lists of bids one     *)
(* call of determineSpotBids (lib/worker-type.js) can return.                  *)
(*                                                                             *)
(* Money is counted in the smallest unit the code keeps, a millionth of a      *)
(* dollar; an availability zone belongs to one region.                         *)
EXTENDS Integers, FiniteSets, FiniteSetsExt

CONSTANTS
    Region,         \* regions a definition may name
    Zone,           \* availability zones
    InstanceType,   \* EC2 instance types
    RegionOf,       \* the region of a zone
    ManagedRegions, \* regions the provisioner has an EC2 client for
    BrokenCombos,   \* <<zone, instance type>> pairs EC2 refuses
    SaneBid,        \* ten dollars: no bid above it is ever returned
    MaxPrice        \* bound: the highest price EC2 reports

Option == [zone : Zone, type : InstanceType]
Price == 1 .. MaxPrice
NoPrice == 0        \* _findMaxPrices found no price point for the pair

(* AwsManager.__pricing: a price or none for every zone and instance type.     *)
Pricing == [Option -> Price \cup {NoPrice}]

ASSUME OptionsAssumption ==
    /\ IsFiniteSet(Zone) /\ IsFiniteSet(InstanceType)
    /\ RegionOf \in [Zone -> Region]
    /\ ManagedRegions \subseteq Region
    /\ BrokenCombos \subseteq Zone \X InstanceType
    /\ SaneBid \in Nat
    /\ MaxPrice \in Nat

(* The part of a worker type's definition that bidding reads.  The schema has  *)
(* plain numbers here, and createLaunchSpec asserts of a capacity only that it *)
(* is not zero: a negative one is stored and bid by like any other.            *)
BiddingRule ==
    [regions : SUBSET Region, zones : SUBSET Zone, types : SUBSET InstanceType,
     capacity : [InstanceType -> Int \ {0}], utility : [InstanceType -> Int],
     minPrice : Int, maxPrice : Int]

(* "The number of tasks this instance can run": the definitions whose bids     *)
(* take something off the change.                                              *)
TakesOff(d) == \A t \in d.types : d.capacity[t] > 0

-----------------------------------------------------------------------------
(* isAllowedCombo.                                                             *)
IsAllowedCombo(o) == <<o.zone, o.type>> \notin BrokenCombos

(* Zones are restricted only in a region for which some are configured.        *)
ZoneConfigured(d, z) ==
    \/ z \in d.zones
    \/ \A y \in d.zones : RegionOf[y] # RegionOf[z]

Options(d, pricing) ==
    {o \in Option :
        /\ RegionOf[o.zone] \in d.regions \cap ManagedRegions
        /\ o.type \in d.types
        /\ pricing[o] # NoPrice
        /\ ZoneConfigured(d, o.zone)
        /\ IsAllowedCombo(o)}

(* cheapestPrice is the market price divided by the utility, infinite for a    *)
(* utility of nought; comparing it with a limit is comparing the market price  *)
(* with the limit times the utility, the other way round for a negative one.   *)
BelowMinPrice(d, pricing, o) ==
    LET u == d.utility[o.type] IN
    \/ u > 0 /\ pricing[o] < d.minPrice * u
    \/ u < 0 /\ pricing[o] > d.minPrice * u

Affordable(d, pricing, o) ==
    LET u == d.utility[o.type] IN
    \/ u > 0 /\ pricing[o] <= d.maxPrice * u
    \/ u < 0 /\ pricing[o] >= d.maxPrice * u

CeilDiv(a, b) == IF b > 0 THEN (a + b - 1) \div b ELSE (- a - b - 1) \div (- b)

(* Twice the market price, or the minimum price per unit of utility.           *)
BidPrice(d, pricing, o) ==
    IF BelowMinPrice(d, pricing, o) THEN CeilDiv(d.minPrice, d.utility[o.type])
    ELSE 2 * pricing[o]

Sane(d, pricing, o) == BidPrice(d, pricing, o) <= SaneBid

-----------------------------------------------------------------------------
(* A list of bids, its order forgotten: how many bids on each option.          *)
NoBids == [o \in Option |-> 0]

UnitsOf(d, bids) ==
    SumFunction([o \in Option |-> bids[o] * d.capacity[o.type]])

(* Every list of at most n bids on the options of S.                           *)
BidLists(S, n) ==
    {b \in [Option -> 0 .. n] :
        /\ \A o \in Option \ S : b[o] = 0
        /\ SumFunction(b) <= n}

(* Bids enough for the change, the last of them needed.                        *)
Covers(d, bids, change) ==
    /\ UnitsOf(d, bids) >= change
    /\ \E last \in Option :
          bids[last] > 0 /\ UnitsOf(d, bids) - d.capacity[last.type] < change

(* What a call asked for `change` units may return.  It covers the change; or  *)
(* it stops short, at an option above the maximum price; or, having met a bid  *)
(* that is not sane, it returns nothing.                                       *)
BidOutcomes(d, pricing, change) ==
    LET options    == Options(d, pricing)
        affordable == {o \in options : Affordable(d, pricing, o)}
        sane       == {o \in affordable : Sane(d, pricing, o)}
        lists      == BidLists(sane, change)
    IN  {b \in lists : Covers(d, b, change)}
          \cup (IF affordable # options
                THEN {b \in lists : UnitsOf(d, b) < change} ELSE {})
          \cup (IF sane # affordable THEN {NoBids} ELSE {})
=============================================================================
