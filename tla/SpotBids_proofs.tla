--------------------------- MODULE SpotBids_proofs ---------------------------
(* The bids and what becomes of them: the safety of determineSpotBids for      *)
(* every definition, price and change, and, in the second half, that of the    *)
(* queue in which a region's requests are submitted (module RegionQueue).      *)
EXTENDS SpotBids, RegionQueue, UnitLemmas, SequenceTheorems

LEMMA DivisionInt ==
    ASSUME NEW a \in Int, NEW b \in Nat \ {0}
    PROVE  a \div b \in Int
BY SMT

(* A price that is bid is a whole number, whatever the signs.                  *)
LEMMA BidPriceInt ==
    ASSUME NEW d \in BiddingRule, NEW prices \in Pricing, NEW o \in Option
    PROVE  BidPrice(d, prices, o) \in Int
<1>1. d.minPrice \in Int /\ d.utility[o.type] \in Int
  BY DEF BiddingRule, Option
<1>2. prices[o] \in Int
  BY DEF Pricing, Price, NoPrice
<1>3. ASSUME NEW m \in Int, NEW u \in Int, u # 0
      PROVE  CeilDiv(m, u) \in Int
  <2>1. CASE u > 0
    <3>1. m + u - 1 \in Int /\ u \in Nat \ {0}
      BY <2>1
    <3>2. (m + u - 1) \div u \in Int
      BY <3>1, DivisionInt
    <3> QED
      BY <2>1, <3>2 DEF CeilDiv
  <2>2. CASE ~ (u > 0)
    <3>1. - m - u - 1 \in Int /\ - u \in Nat \ {0}
      BY <1>3, <2>2
    <3>2. (- m - u - 1) \div (- u) \in Int
      BY <3>1, DivisionInt
    <3> QED
      BY <2>2, <3>2 DEF CeilDiv
  <2> QED
    BY <2>1, <2>2
<1>4. BelowMinPrice(d, prices, o) => d.utility[o.type] # 0
  BY <1>1 DEF BelowMinPrice
<1>5. BelowMinPrice(d, prices, o) => CeilDiv(d.minPrice, d.utility[o.type]) \in Int
  BY <1>1, <1>3, <1>4
<1> QED
  BY <1>2, <1>5 DEF BidPrice

(* The inductive invariant: bids are only ever appended while they are sane,   *)
(* and what is left of the change was last lowered from above zero.            *)
IInv ==
    /\ TypeOK
    /\ Overshoot
    /\ \A i \in 1 .. Len(spotBids) : spotBids[i].price <= SaneBid

LEMMA InitIInv == Init => IInv
BY CallAssumption DEF Init, IInv, TypeOK, Overshoot

LEMMA NextIInv == IInv /\ [Next]_vars => IInv'
<1> SUFFICES ASSUME IInv, [Next]_vars
             PROVE  IInv'
  OBVIOUS
<1> USE CallAssumption DEF IInv, TypeOK
<1>1. CASE NoOption
  BY <1>1 DEF NoOption, Overshoot
<1>2. ASSUME NEW o \in Option, BidOn(o)
      PROVE  IInv'
  <2> DEFINE bid == [option |-> o, price |-> BidPrice(rule, pricing, o)]
  <2>1. rule \in BiddingRule /\ pricing \in Pricing
    OBVIOUS
  <2>2. o.type \in InstanceType /\ rule.capacity[o.type] \in Int
    BY <2>1 DEF BiddingRule, Option
  <2>3. bid \in Bid
    BY <2>1, BidPriceInt DEF Bid
  <2>4. change > 0 /\ UNCHANGED <<rule, pricing, asked>>
    BY <1>2 DEF BidOn
  <2>5. change' = change \/ change' = change - rule.capacity[o.type]
    BY <1>2 DEF BidOn
  <2>6. \/ spotBids' = spotBids
        \/ spotBids' = <<>>
        \/ spotBids' = Append(spotBids, bid) /\ bid.price <= SaneBid
    <3>1. bid.price \in Int /\ SaneBid \in Int
      BY <2>3, OptionsAssumption DEF Bid
    <3> QED
      BY <1>2, <3>1 DEF BidOn, Return
  <2>7. pc' \in {"bidding", "returned"}
    BY <1>2 DEF BidOn, Return
  <2> HIDE DEF bid
  <2>8. spotBids' \in Seq(Bid)
    <3>1. spotBids \in Seq(Bid) /\ <<>> \in Seq(Bid) /\ Append(spotBids, bid) \in Seq(Bid)
      BY <2>3
    <3> QED
      BY <2>6, <3>1
  <2>9. \A i \in 1 .. Len(spotBids') : spotBids'[i].price <= SaneBid
    BY <2>3, <2>6
  <2>10. TypeOK'
    BY <2>2, <2>4, <2>5, <2>7, <2>8
  <2>11. Overshoot'
    <3>1. CASE change' = change
      BY <2>4, <3>1 DEF Overshoot
    <3>2. CASE change' # change
      <4>1. /\ change' = change - rule.capacity[o.type]
            /\ spotBids' = <<>> \/ spotBids' = Append(spotBids, bid)
        BY <1>2, <3>2 DEF BidOn, Return, bid
      <4>2. ASSUME spotBids' = Append(spotBids, bid)
            PROVE  spotBids'[Len(spotBids')] = bid
        BY <2>3, <4>2
      <4>3. bid.option = o
        BY DEF bid
      <4>4. change' + rule.capacity[o.type] > 0
        BY <2>2, <2>4, <4>1
      <4> QED
        BY <2>4, <4>1, <4>2, <4>3, <4>4 DEF Overshoot
    <3> QED
      BY <3>1, <3>2
  <2> QED
    BY <2>9, <2>10, <2>11
<1>3. CASE ChangeMet
  BY <1>3 DEF ChangeMet, Return, Overshoot
<1>4. CASE UNCHANGED vars
  BY <1>4 DEF vars, Overshoot
<1> QED
  BY <1>1, <1>2, <1>3, <1>4 DEF Next

LEMMA Invariance == Spec => []IInv
BY InitIInv, NextIInv, PTL DEF Spec

(* The state of the loop is always what the code's variables may hold.         *)
THEOREM TypeCorrect == Spec => []TypeOK
<1>1. IInv => TypeOK
  BY DEF IInv
<1> QED
  BY <1>1, Invariance, PTL

(* determineSpotBids asks for less than one instance too many, whatever it     *)
(* samples: what keeps the provisioner near maxCapacity.                       *)
THEOREM OvershootBounded == Spec => []Overshoot
<1>1. IInv => Overshoot
  BY DEF IInv
<1> QED
  BY <1>1, Invariance, PTL

(* No bid above the sanity limit is returned, for any definition or price.     *)
THEOREM ReturnedBidsSane == Spec => []NoInsaneBid
<1>1. IInv => NoInsaneBid
  BY DEF IInv, NoInsaneBid
<1> QED
  BY <1>1, Invariance, PTL

-----------------------------------------------------------------------------
(* The bids made, as a bag over the options.                                   *)
LEMMA OptionFinite == IsFiniteSet(Option)
<1> DEFINE f == [p \in Zone \X InstanceType |-> [zone |-> p[1], type |-> p[2]]]
<1>1. IsFiniteSet(Zone \X InstanceType)
  BY FS_Product, OptionsAssumption
<1>2. f \in Surjection(Zone \X InstanceType, Option)
  <2>1. f \in [Zone \X InstanceType -> Option]
    BY DEF Option
  <2>2. ASSUME NEW o \in Option
        PROVE  \E p \in Zone \X InstanceType : f[p] = o
    <3>1. <<o.zone, o.type>> \in Zone \X InstanceType
      BY DEF Option
    <3>2. f[<<o.zone, o.type>>] = o
      BY <3>1 DEF Option
    <3>3. QED
      BY <3>1, <3>2
  <2>3. QED
    BY <2>1, <2>2 DEF Surjection
<1>3. QED
  BY <1>1, <1>2, FS_Surjection

LEMMA BidBagNat ==
    ASSUME spotBids \in Seq(Bid)
    PROVE  /\ BidBag \in [Option -> Nat]
           /\ \A o \in Option :
                 BidBag[o] > 0 => \E i \in 1 .. Len(spotBids) : spotBids[i].option = o
<1> SUFFICES ASSUME NEW o \in Option
             PROVE  /\ BidBag[o] \in Nat
                    /\ BidBag[o] > 0 =>
                          \E i \in 1 .. Len(spotBids) : spotBids[i].option = o
  BY DEF BidBag
<1> DEFINE I == {i \in 1 .. Len(spotBids) : spotBids[i].option = o}
<1>1. IsFiniteSet(I)
  <2>1. IsFiniteSet(1 .. Len(spotBids))
    BY FS_Interval
  <2>2. QED
    BY <2>1, FS_Subset
<1>2. BidBag[o] = Cardinality(I)
  BY DEF BidBag
<1> HIDE DEF I
<1>3. Cardinality(I) \in Nat /\ (I = {} => Cardinality(I) = 0)
  BY <1>1, FS_CardinalityType, FS_EmptySet
<1>4. I # {} => \E i \in 1 .. Len(spotBids) : spotBids[i].option = o
  BY DEF I
<1>5. QED
  BY <1>2, <1>3, <1>4

(* Bidding once more adds one to the bag, on the option bid on.                *)
LEMMA BidBagAppend ==
    ASSUME spotBids \in Seq(Bid), NEW bid \in Bid, spotBids' = Append(spotBids, bid)
    PROVE  BidBag' = [BidBag EXCEPT ![bid.option] = @ + 1]
<1> DEFINE n == Len(spotBids)
           I(o) == {i \in 1 .. n : spotBids[i].option = o}
           J(o) == {i \in 1 .. n + 1 : spotBids'[i].option = o}
<1>1. n \in Nat /\ Len(spotBids') = n + 1 /\ spotBids'[n + 1] = bid
      /\ \A i \in 1 .. n : spotBids'[i] = spotBids[i]
  OBVIOUS
<1>2. ASSUME NEW o \in Option
      PROVE  BidBag'[o] = IF o = bid.option THEN BidBag[o] + 1 ELSE BidBag[o]
  <2>1. J(o) = IF o = bid.option THEN I(o) \cup {n + 1} ELSE I(o)
    BY <1>1
  <2>2. IsFiniteSet(I(o)) /\ n + 1 \notin I(o)
    <3>1. IsFiniteSet(1 .. n)
      BY <1>1, FS_Interval
    <3>2. QED
      BY <1>1, <3>1, FS_Subset
  <2>3. BidBag[o] = Cardinality(I(o)) /\ BidBag'[o] = Cardinality(J(o))
    BY <1>1 DEF BidBag
  <2> HIDE DEF I, J
  <2>4. Cardinality(I(o) \cup {n + 1}) = Cardinality(I(o)) + 1
    BY <2>2, FS_AddElement
  <2>5. QED
    BY <2>1, <2>3, <2>4
<1>3. BidBag' = [o \in Option |-> BidBag'[o]] /\ DOMAIN BidBag = Option
  BY DEF BidBag
<1>4. QED
  BY <1>2, <1>3

(* The units of the bids, and their number: no option's bids are more.         *)
LEMMA BagUnits ==
    ASSUME NEW d \in BiddingRule, NEW b \in [Option -> Nat]
    PROVE  /\ UnitsOf(d, b) \in Int /\ SumFunction(b) \in Nat
           /\ \A o \in Option : b[o] <= SumFunction(b)
<1> DEFINE u == [o \in Option |-> b[o] * d.capacity[o.type]]
<1>1. \A o \in Option : u[o] \in Int
  <2>1. \A o \in Option : d.capacity[o.type] \in Int
    BY DEF BiddingRule, Option
  <2>2. QED
    BY <2>1
<1>2. UnitsOf(d, b) = SumFunctionOnSet(u, Option)
  BY DEF UnitsOf, SumFunction
<1>3. SumFunction(b) = SumFunctionOnSet(b, Option)
  BY DEF SumFunction
<1> HIDE DEF u
<1>4. SumFunctionOnSet(u, Option) \in Int /\ SumFunctionOnSet(b, Option) \in Nat
  BY <1>1, OptionFinite, SumInt, SumNat
<1>5. ASSUME NEW o \in Option PROVE b[o] <= SumFunctionOnSet(b, Option)
  <2>1. \A p \in Option : b[p] \in Int
    OBVIOUS
  <2>2. SumFunctionOnSet(b, Option) = b[o] + SumFunctionOnSet(b, Option \ {o})
    BY <2>1, OptionFinite, SumSplit
  <2>3. IsFiniteSet(Option \ {o})
    BY OptionFinite, FS_Subset
  <2>4. SumFunctionOnSet(b, Option \ {o}) \in Nat
    BY <2>3, SumNat
  <2>5. QED
    BY <2>2, <2>4
<1>6. QED
  BY <1>2, <1>3, <1>4, <1>5

(* Where each bid is a unit at least there are no more bids than units.        *)
LEMMA BagSums ==
    ASSUME NEW d \in BiddingRule, NEW b \in [Option -> Nat],
           \A o \in Option : b[o] = 0 \/ d.capacity[o.type] > 0
    PROVE  SumFunction(b) <= UnitsOf(d, b)
<1> DEFINE u == [o \in Option |-> b[o] * d.capacity[o.type]]
<1>1. \A o \in Option : d.capacity[o.type] \in Int
  BY DEF BiddingRule, Option
<1>2. \A o \in Option : u[o] \in Nat /\ b[o] \in Nat /\ b[o] <= u[o]
  <2> SUFFICES ASSUME NEW o \in Option, NEW m \in Nat, NEW c \in Int, m = 0 \/ c > 0
               PROVE  m * c \in Nat /\ m <= m * c
    BY <1>1
  <2>1. CASE m = 0
    BY <2>1
  <2>2. CASE c > 0
    <3>1. m * c = m + m * (c - 1) /\ m * (c - 1) \in Nat
      BY <2>2
    <3>2. QED
      BY <3>1
  <2>3. QED
    BY <2>1, <2>2
<1>3. UnitsOf(d, b) = SumFunctionOnSet(u, Option)
  BY DEF UnitsOf, SumFunction
<1>4. SumFunction(b) = SumFunctionOnSet(b, Option)
  BY DEF SumFunction
<1> HIDE DEF u
<1>5. SumFunctionOnSet(b, Option) <= SumFunctionOnSet(u, Option)
  BY <1>2, OptionFinite, SumMonotone
<1>6. QED
  BY <1>3, <1>4, <1>5

LEMMA BagSumsAppend ==
    ASSUME NEW d \in BiddingRule, NEW b \in [Option -> Nat], NEW o \in Option
    PROVE  LET more == [b EXCEPT ![o] = @ + 1]
           IN  /\ UnitsOf(d, more) = UnitsOf(d, b) + d.capacity[o.type]
               /\ SumFunction(more) = SumFunction(b) + 1
<1> DEFINE more == [b EXCEPT ![o] = @ + 1]
           u == [p \in Option |-> b[p] * d.capacity[p.type]]
           v == [p \in Option |-> more[p] * d.capacity[p.type]]
<1>1. \A p \in Option : d.capacity[p.type] \in Int
  BY DEF BiddingRule, Option
<1>2. \A p \in Option : more[p] = IF p = o THEN b[p] + 1 ELSE b[p]
  OBVIOUS
<1>3. \A p \in Option : b[p] \in Int /\ more[p] \in Int /\ (p # o => more[p] = b[p])
  BY <1>2
<1>4. /\ UnitsOf(d, b) = SumFunctionOnSet(u, Option)
      /\ UnitsOf(d, more) = SumFunctionOnSet(v, Option)
  BY DEF UnitsOf, SumFunction
<1>5. /\ SumFunction(b) = SumFunctionOnSet(b, Option)
      /\ SumFunction(more) = SumFunctionOnSet(more, Option)
  BY DEF SumFunction
<1>6. \A p \in Option : u[p] \in Int /\ v[p] \in Int /\ (p # o => v[p] = u[p])
  BY <1>1, <1>3
<1>7. v[o] = u[o] + d.capacity[o.type]
  <2>1. v[o] = more[o] * d.capacity[o.type] /\ u[o] = b[o] * d.capacity[o.type]
    OBVIOUS
  <2>2. b[o] \in Int /\ d.capacity[o.type] \in Int /\ more[o] = b[o] + 1
    BY <1>1, <1>2
  <2> HIDE DEF u, v, more
  <2>3. \A m, c \in Int : (m + 1) * c = m * c + c
    OBVIOUS
  <2>4. QED
    BY <2>1, <2>2, <2>3
<1>8. d.capacity[o.type] \in Int /\ more[o] = b[o] + 1
  BY <1>1, <1>2
<1> HIDE DEF u, v, more
<1>9. SumFunctionOnSet(v, Option) = SumFunctionOnSet(u, Option) - u[o] + v[o]
  <2>1. ASSUME NEW f, NEW g,
               \A p \in Option : f[p] \in Int /\ g[p] \in Int /\ (p # o => g[p] = f[p])
        PROVE  SumFunctionOnSet(g, Option) = SumFunctionOnSet(f, Option) - f[o] + g[o]
    BY <2>1, OptionFinite, SumChange
  <2>2. QED
    BY <1>6, <2>1
<1>10. SumFunctionOnSet(more, Option) = SumFunctionOnSet(b, Option) - b[o] + more[o]
  BY <1>3, OptionFinite, SumChange
<1>11. /\ SumFunctionOnSet(u, Option) \in Int /\ SumFunctionOnSet(b, Option) \in Int
       /\ u[o] \in Int /\ b[o] \in Int
  BY <1>3, <1>6, OptionFinite, SumInt
<1>12. QED
  BY <1>4, <1>5, <1>7, <1>8, <1>9, <1>10, <1>11 DEF more

LEMMA NoBidsSums ==
    ASSUME NEW d \in BiddingRule
    PROVE  UnitsOf(d, NoBids) = 0 /\ SumFunction(NoBids) = 0
<1> DEFINE u == [o \in Option |-> NoBids[o] * d.capacity[o.type]]
<1>1. \A o \in Option : d.capacity[o.type] \in Int
  BY DEF BiddingRule, Option
<1>2. \A o \in Option : u[o] = 0 /\ NoBids[o] = 0
  BY <1>1 DEF NoBids
<1>3. UnitsOf(d, NoBids) = SumFunctionOnSet(u, Option)
  BY DEF UnitsOf, SumFunction
<1>4. SumFunction(NoBids) = SumFunctionOnSet(NoBids, Option)
  BY DEF SumFunction, NoBids
<1> HIDE DEF u
<1>5. QED
  BY <1>2, <1>3, <1>4, OptionFinite, SumZero

-----------------------------------------------------------------------------
(* While the loop runs, the bids' units and what is left make up what was      *)
(* asked, and all bids are on options that are neither too dear nor priced out *)
(* of all proportion.  Where bids take something off the change, one without   *)
(* which they would not do was made when nothing is left, and there are no     *)
(* more bids than units asked for.                                             *)
OutcomeInv ==
    /\ TypeOK
    /\ ChangeAccounted
    /\ pc = "bidding" =>
          \A i \in 1 .. Len(spotBids) :
              LET o == spotBids[i].option
              IN  /\ o \in Options(rule, pricing)
                  /\ Affordable(rule, pricing, o) /\ Sane(rule, pricing, o)
    /\ pc = "bidding" /\ TakesOff(rule) =>
          /\ SumFunction(BidBag) <= asked
          /\ change <= 0 =>
                \E last \in Option :
                    BidBag[last] > 0 /\ change + rule.capacity[last.type] > 0
    /\ ReturnsAnOutcome

(* Each bid made is a unit at least, then.                                     *)
LEMMA BidsCount ==
    ASSUME OutcomeInv, pc = "bidding", TakesOff(rule)
    PROVE  /\ \A o \in Option : BidBag[o] = 0 \/ rule.capacity[o.type] > 0
           /\ SumFunction(BidBag) <= UnitsOf(rule, BidBag)
<1>1. /\ rule \in BiddingRule /\ BidBag \in [Option -> Nat]
      /\ \A o \in Option :
            BidBag[o] > 0 => \E i \in 1 .. Len(spotBids) : spotBids[i].option = o
  BY CallAssumption, BidBagNat DEF OutcomeInv, TypeOK
<1>2. ASSUME NEW o \in Option, BidBag[o] # 0
      PROVE  rule.capacity[o.type] > 0
  <2>1. BidBag[o] > 0
    BY <1>1, <1>2
  <2>2. o \in Options(rule, pricing)
    BY <1>1, <2>1 DEF OutcomeInv
  <2>3. o.type \in rule.types
    BY <2>2 DEF Options
  <2>4. QED
    BY <2>3 DEF TakesOff
<1>3. QED
  BY <1>1, <1>2, BagSums

LEMMA BagOfNone == ASSUME spotBids = <<>> PROVE BidBag = NoBids
<1>1. \A o \in Option : {i \in 1 .. Len(spotBids) : spotBids[i].option = o} = {}
  OBVIOUS
<1>2. QED
  BY <1>1, FS_EmptySet DEF BidBag, NoBids

LEMMA InitOutcome == Init => OutcomeInv
<1> SUFFICES ASSUME Init PROVE OutcomeInv
  OBVIOUS
<1>1. TypeOK
  BY CallAssumption DEF Init, TypeOK
<1>2. rule \in BiddingRule /\ BidBag = NoBids /\ asked \in Nat /\ asked > 0
  BY CallAssumption, BagOfNone DEF Init
<1>3. UnitsOf(rule, BidBag) = 0 /\ SumFunction(BidBag) = 0
  BY <1>2, NoBidsSums
<1>4. QED
  BY <1>1, <1>2, <1>3 DEF Init, OutcomeInv, ChangeAccounted, ReturnsAnOutcome

(* The bids made are one of the lists the outcomes are drawn from.             *)
LEMMA BagIsList ==
    ASSUME OutcomeInv, pc = "bidding", TakesOff(rule)
    PROVE  LET options    == Options(rule, pricing)
               affordable == {o \in options : Affordable(rule, pricing, o)}
               sane       == {o \in affordable : Sane(rule, pricing, o)}
           IN  BidBag \in BidLists(sane, asked)
<1> DEFINE sane == {o \in {p \in Options(rule, pricing) : Affordable(rule, pricing, p)} :
                      Sane(rule, pricing, o)}
<1>1. BidBag \in [Option -> Nat]
      /\ \A o \in Option :
            BidBag[o] > 0 => \E i \in 1 .. Len(spotBids) : spotBids[i].option = o
  BY BidBagNat DEF OutcomeInv, TypeOK
<1>2. rule \in BiddingRule /\ asked \in Nat
  BY CallAssumption DEF OutcomeInv, TypeOK
<1>3. SumFunction(BidBag) <= asked
  BY DEF OutcomeInv
<1>4. BidBag \in [Option -> 0 .. asked]
  <2>1. \A o \in Option : BidBag[o] <= SumFunction(BidBag)
    BY <1>1, <1>2, BagUnits
  <2>2. SumFunction(BidBag) \in Nat
    BY <1>1, <1>2, BagUnits
  <2>3. \A o \in Option : BidBag[o] \in 0 .. asked
    BY <1>1, <1>2, <1>3, <2>1, <2>2
  <2>4. QED
    BY <1>1, <2>3
<1>5. \A o \in Option \ sane : BidBag[o] = 0
  BY <1>1 DEF OutcomeInv
<1>6. QED
  BY <1>3, <1>4, <1>5 DEF BidLists

LEMMA BidOnOutcome ==
    ASSUME OutcomeInv, TypeOK', NEW o \in Option, BidOn(o)
    PROVE  OutcomeInv'
<1> DEFINE bid == [option |-> o, price |-> BidPrice(rule, pricing, o)]
           options    == Options(rule, pricing)
           affordable == {p \in options : Affordable(rule, pricing, p)}
           sane       == {p \in affordable : Sane(rule, pricing, p)}
           cap        == rule.capacity[o.type]
<1>1. /\ rule \in BiddingRule /\ pricing \in Pricing /\ spotBids \in Seq(Bid)
      /\ asked \in Nat /\ asked > 0 /\ change \in Int
  BY CallAssumption DEF OutcomeInv, TypeOK
<1>2. /\ pc = "bidding" /\ change > 0 /\ o \in options
      /\ UNCHANGED <<rule, pricing, asked>>
  BY DEF BidOn
<1>3. cap \in Int
  BY <1>1 DEF BiddingRule, Option
<1>4. /\ BidBag \in [Option -> Nat]
      /\ UnitsOf(rule, BidBag) \in Int /\ SumFunction(BidBag) \in Nat
      /\ UnitsOf(rule, BidBag) + change = asked
      /\ TakesOff(rule) => SumFunction(BidBag) <= UnitsOf(rule, BidBag)
  BY <1>1, <1>2, BidBagNat, BagUnits, BidsCount DEF OutcomeInv, ChangeAccounted
<1>5. CASE Affordable(rule, pricing, o) /\ bid.price > SaneBid
  <2>1. spotBids' = <<>> /\ pc' = "returned"
    BY <1>5 DEF BidOn, Return
  <2>2. BidBag' = NoBids
    <3>1. \A p \in Option : {i \in 1 .. Len(spotBids') : spotBids'[i].option = p} = {}
      BY <2>1
    <3>2. QED
      BY <3>1, FS_EmptySet DEF BidBag, NoBids
  <2>3. o \in affordable /\ o \notin sane
    <3>1. bid.price \in Int /\ SaneBid \in Int
      BY <1>1, BidPriceInt, OptionsAssumption
    <3>2. QED
      BY <1>2, <1>5, <3>1 DEF Sane
  <2>4. NoBids \in BidOutcomes(rule, pricing, asked)
    BY <2>3 DEF BidOutcomes
  <2>5. QED
    BY <1>2, <2>1, <2>2, <2>4 DEF OutcomeInv, ChangeAccounted, ReturnsAnOutcome
<1>6. CASE Affordable(rule, pricing, o) /\ ~(bid.price > SaneBid)
  <2>1. /\ change' = change - cap /\ pc' = "bidding"
        /\ spotBids' = Append(spotBids, bid)
    BY <1>2, <1>6 DEF BidOn
  <2>2. bid.price \in Int /\ SaneBid \in Int /\ bid \in Bid
    BY <1>1, BidPriceInt, OptionsAssumption DEF Bid
  <2>3. Sane(rule, pricing, o)
    BY <1>6, <2>2 DEF Sane
  <2>4. BidBag' = [BidBag EXCEPT ![o] = @ + 1]
    BY <1>1, <2>1, <2>2, BidBagAppend
  <2>5. /\ UnitsOf(rule, BidBag') = UnitsOf(rule, BidBag) + cap
        /\ SumFunction(BidBag') = SumFunction(BidBag) + 1
    BY <1>1, <1>4, <2>4, BagSumsAppend
  <2>6. ChangeAccounted'
    BY <1>1, <1>2, <1>3, <1>4, <2>1, <2>5 DEF ChangeAccounted
  <2>7. TakesOff(rule) => SumFunction(BidBag') <= asked'
    BY <1>1, <1>2, <1>4, <2>5
  <2>8. BidBag'[o] > 0 /\ change' + rule'.capacity[o.type] > 0
    BY <1>1, <1>2, <1>3, <1>4, <2>1, <2>4
  <2>9. \A i \in 1 .. Len(spotBids') :
           LET p == spotBids'[i].option
           IN  /\ p \in Options(rule', pricing')
               /\ Affordable(rule', pricing', p) /\ Sane(rule', pricing', p)
    <3>1. \A i \in 1 .. Len(spotBids') :
             spotBids'[i] = bid \/ \E j \in 1 .. Len(spotBids) : spotBids'[i] = spotBids[j]
      BY <1>1, <2>1, <2>2
    <3>2. /\ o \in Options(rule', pricing')
          /\ Affordable(rule', pricing', o) /\ Sane(rule', pricing', o)
      BY <1>2, <1>6, <2>3
    <3>3. \A j \in 1 .. Len(spotBids) :
             LET p == spotBids[j].option
             IN  /\ p \in Options(rule', pricing')
                 /\ Affordable(rule', pricing', p) /\ Sane(rule', pricing', p)
      BY <1>2 DEF OutcomeInv
    <3>4. QED
      BY <3>1, <3>2, <3>3
  <2>10. TakesOff(rule') <=> TakesOff(rule)
    BY <1>2
  <2>11. pc' = "bidding" /\ ~ (pc' = "returned") /\ TypeOK'
    BY <2>1
  <2> HIDE DEF cap
  <2>12. QED
    BY <2>6, <2>7, <2>8, <2>9, <2>10, <2>11 DEF OutcomeInv, ReturnsAnOutcome
<1>7. CASE ~ Affordable(rule, pricing, o)
  <2>1. pc' = "returned" /\ spotBids' = spotBids
    BY <1>7 DEF BidOn, Return
  <2>2. BidBag' = BidBag
    BY <2>1 DEF BidBag
  <2>3. TakesOff(rule) => BidBag \in BidLists(sane, asked)
    BY <1>2, BagIsList
  <2>4. affordable # options
    BY <1>2, <1>7
  <2>5. UnitsOf(rule, BidBag) < asked
    BY <1>1, <1>2, <1>4
  <2>6. TakesOff(rule) => BidBag \in BidOutcomes(rule, pricing, asked)
    BY <2>3, <2>4, <2>5 DEF BidOutcomes
  <2>7. QED
    BY <1>2, <2>1, <2>2, <2>6 DEF OutcomeInv, ChangeAccounted, ReturnsAnOutcome
<1>8. QED
  BY <1>5, <1>6, <1>7

LEMMA ChangeMetOutcome ==
    ASSUME OutcomeInv, TypeOK', ChangeMet
    PROVE  OutcomeInv'
<1> DEFINE options    == Options(rule, pricing)
           affordable == {p \in options : Affordable(rule, pricing, p)}
           sane       == {p \in affordable : Sane(rule, pricing, p)}
<1>1. /\ pc = "bidding" /\ change <= 0 /\ pc' = "returned"
      /\ UNCHANGED <<rule, pricing, asked, change, spotBids>>
  BY DEF ChangeMet, Return
<1>2. /\ rule \in BiddingRule /\ asked \in Nat /\ change \in Int
      /\ BidBag \in [Option -> Nat]
  BY CallAssumption, BidBagNat DEF OutcomeInv, TypeOK
<1>3. UnitsOf(rule, BidBag) \in Int /\ UnitsOf(rule, BidBag) + change = asked
  BY <1>1, <1>2, BagUnits DEF OutcomeInv, ChangeAccounted
<1>4. BidBag' = BidBag
  BY <1>1 DEF BidBag
<1>5. ASSUME TakesOff(rule)
      PROVE  BidBag \in BidOutcomes(rule, pricing, asked)
  <2>1. PICK last \in Option : BidBag[last] > 0 /\ change + rule.capacity[last.type] > 0
    BY <1>1, <1>5 DEF OutcomeInv
  <2>2. rule.capacity[last.type] \in Int
    BY <1>2 DEF BiddingRule, Option
  <2>3. Covers(rule, BidBag, asked)
    BY <1>1, <1>2, <1>3, <2>1, <2>2 DEF Covers
  <2>4. BidBag \in BidLists(sane, asked)
    BY <1>1, <1>5, BagIsList
  <2>5. QED
    BY <2>3, <2>4 DEF BidOutcomes
<1>6. QED
  BY <1>1, <1>4, <1>5 DEF OutcomeInv, ChangeAccounted, ReturnsAnOutcome

LEMMA NextOutcome == OutcomeInv /\ TypeOK' /\ [Next]_vars => OutcomeInv'
<1> SUFFICES ASSUME OutcomeInv, TypeOK', [Next]_vars
             PROVE  OutcomeInv'
  OBVIOUS
<1>1. CASE NoOption
  BY <1>1 DEF NoOption, OutcomeInv, ChangeAccounted, ReturnsAnOutcome
<1>2. CASE UNCHANGED vars
  <2>1. BidBag' = BidBag
    BY <1>2 DEF vars, BidBag
  <2>2. QED
    BY <1>2, <2>1 DEF vars, OutcomeInv, ChangeAccounted, ReturnsAnOutcome
<1>3. QED
  BY <1>1, <1>2, BidOnOutcome, ChangeMetOutcome DEF Next

LEMMA OutcomeInvariance == Spec => []OutcomeInv
BY InitOutcome, NextOutcome, TypeCorrect, PTL DEF Spec

(* The bids made are charged against the change exactly, for every rule, those *)
(* with negative capacities included, and every price: nothing is asked for    *)
(* twice and nothing is forgotten.                                             *)
THEOREM BidsAccounted == Spec => []ChangeAccounted
<1>1. OutcomeInv => ChangeAccounted
  BY DEF OutcomeInv
<1> QED
  BY <1>1, OutcomeInvariance, PTL

(* What determineSpotBids returns is always one of the outcomes that the       *)
(* iteration's model draws from: no bid to spare, none too dear, none insane.  *)
THEOREM ReturnsOnlyOutcomes == Spec => []ReturnsAnOutcome
<1>1. OutcomeInv => ReturnsAnOutcome
  BY DEF OutcomeInv
<1> QED
  BY <1>1, OutcomeInvariance, PTL

-----------------------------------------------------------------------------
(* The requests that the calls return for a region, put in order and submitted *)
(* (module RegionQueue), for any worker types, numbers of requests and limit.  *)

(* Induction up to a number, as a fact about sets.                             *)
LEMMA UpTo ==
    ASSUME NEW N \in Nat, NEW Good, 0 \in Good,
           \A n \in 0 .. N - 1 : n \in Good => n + 1 \in Good
    PROVE  0 .. N \subseteq Good
<1> DEFINE Fine == {T \in SUBSET (1 .. N) : \A n \in 0 .. N : T = 1 .. n => n \in Good}
<1>1. IsFiniteSet(1 .. N)
  BY FS_Interval
<1>2. ASSUME NEW T \in SUBSET (1 .. N), \A U \in SUBSET T : U # T => U \in Fine
      PROVE  T \in Fine
  <2> SUFFICES ASSUME NEW n \in 0 .. N, T = 1 .. n PROVE n \in Good
    OBVIOUS
  <2>1. CASE n = 0
    BY <2>1
  <2>2. CASE n # 0
    <3>1. n - 1 \in 0 .. N - 1 /\ n - 1 \in 0 .. N /\ (n - 1) + 1 = n
      BY <2>2
    <3>2. 1 .. n - 1 \in SUBSET T /\ 1 .. n - 1 # T
      <4>1. n \in T /\ n \notin 1 .. n - 1
        BY <2>2
      <4>2. QED
        BY <4>1
    <3>3. n - 1 \in Good
      BY <1>2, <3>1, <3>2
    <3>4. QED
      BY <3>1, <3>3
  <2>3. QED
    BY <2>1, <2>2
<1> HIDE DEF Fine
<1>3. SUBSET (1 .. N) \subseteq Fine
  <2>1. PICK S : S = 1 .. N
    OBVIOUS
  <2>2. IsFiniteSet(S)
    BY <1>1, <2>1
  <2>3. \A T \in SUBSET S : (\A U \in SUBSET T : U # T => U \in Fine) => T \in Fine
    BY <1>2, <2>1
  <2>4. SUBSET S \subseteq Fine
    BY <2>2, <2>3, SubsetInduction
  <2>5. QED
    BY <2>1, <2>4
<1>4. ASSUME NEW n \in 0 .. N PROVE n \in Good
  <2>1. 1 .. n \in SUBSET (1 .. N)
    OBVIOUS
  <2>2. 1 .. n \in Fine
    BY <1>3, <2>1
  <2>3. QED
    BY <2>2 DEF Fine
<1>5. QED
  BY <1>4

-----------------------------------------------------------------------------
(* How many of the first m requests are for w.                                 *)
OfWorker(s, m, w) == {j \in 1 .. m : s[j].worker = w}
CountTo(s, m, w)  == Cardinality(OfWorker(s, m, w))

LEMMA CountNat ==
    ASSUME NEW s, NEW m \in Nat, NEW w
    PROVE  CountTo(s, m, w) \in Nat /\ IsFiniteSet(OfWorker(s, m, w))
<1>1. IsFiniteSet(1 .. m) /\ OfWorker(s, m, w) \in SUBSET (1 .. m)
  BY FS_Interval DEF OfWorker
<1>2. QED
  BY <1>1, FS_Subset, FS_CardinalityType DEF CountTo

LEMMA CountNone == ASSUME NEW s, NEW w PROVE CountTo(s, 0, w) = 0
<1>1. OfWorker(s, 0, w) = {}
  BY DEF OfWorker
<1>2. QED
  BY <1>1, FS_EmptySet DEF CountTo

LEMMA CountNext ==
    ASSUME NEW s, NEW m \in Nat, NEW w
    PROVE  CountTo(s, m + 1, w)
             = IF s[m + 1].worker = w THEN CountTo(s, m, w) + 1 ELSE CountTo(s, m, w)
<1>1. CASE s[m + 1].worker = w
  <2>1. /\ OfWorker(s, m + 1, w) = OfWorker(s, m, w) \cup {m + 1}
        /\ m + 1 \notin OfWorker(s, m, w)
    BY <1>1 DEF OfWorker
  <2>2. QED
    BY <1>1, <2>1, CountNat, FS_AddElement DEF CountTo
<1>2. CASE s[m + 1].worker # w
  <2>1. OfWorker(s, m + 1, w) = OfWorker(s, m, w)
    BY <1>2 DEF OfWorker
  <2>2. QED
    BY <1>2, <2>1 DEF CountTo
<1>3. QED
  BY <1>1, <1>2

(* Later requests make no difference.                                          *)
LEMMA CountSame ==
    ASSUME NEW s, NEW t, NEW m \in Nat, NEW w, \A j \in 1 .. m : s[j] = t[j]
    PROVE  CountTo(s, m, w) = CountTo(t, m, w)
<1>1. OfWorker(s, m, w) = OfWorker(t, m, w)
  BY DEF OfWorker
<1>2. QED
  BY <1>1 DEF CountTo

(* A worker type's own requests: the recursion that picks them ...             *)
OwnStep(F, s, w, n) ==
    IF n = 0 THEN <<>>
    ELSE IF s[n].worker = w THEN Append(F[n - 1], s[n]) ELSE F[n - 1]

Own(F, s, w, m) == F = [n \in 0 .. m |-> OwnStep(F, s, w, n)]

(* ... defines a function, ...                                                 *)
LEMMA OwnExists ==
    ASSUME NEW s, NEW w, NEW N \in Nat
    PROVE  \E F : Own(F, s, w, N)
<1> DEFINE Good == {n \in 0 .. N : \E F : Own(F, s, w, n)}
<1>1. 0 \in Good
  <2> DEFINE F == [n \in 0 .. 0 |-> <<>>]
  <2>1. F = [n \in 0 .. 0 |-> OwnStep(F, s, w, n)]
    BY DEF OwnStep
  <2>2. QED
    BY <2>1 DEF Own
<1>2. ASSUME NEW n \in 0 .. N - 1, n \in Good PROVE n + 1 \in Good
  <2>1. PICK F : Own(F, s, w, n)
    BY <1>2
  <2> DEFINE G == [i \in 0 .. n + 1 |->
                     IF i = n + 1 THEN OwnStep(F, s, w, n + 1) ELSE F[i]]
  <2>2. ASSUME NEW i \in 0 .. n + 1 PROVE G[i] = OwnStep(G, s, w, i)
    <3>1. i # 0 => G[i - 1] = F[i - 1]
      OBVIOUS
    <3>2. G[i] = OwnStep(F, s, w, i)
      BY <2>1 DEF Own
    <3> HIDE DEF G
    <3>3. QED
      BY <3>1, <3>2 DEF OwnStep
  <2>3. G = [i \in 0 .. n + 1 |-> OwnStep(G, s, w, i)]
    <3>1. G = [i \in 0 .. n + 1 |-> G[i]]
      OBVIOUS
    <3> HIDE DEF G
    <3>2. QED
      BY <2>2, <3>1
  <2> HIDE DEF G
  <2>4. Own(G, s, w, n + 1)
    BY <2>3 DEF Own
  <2>5. QED
    BY <2>4
<1> HIDE DEF Good
<1>3. 0 .. N \subseteq Good
  BY <1>1, <1>2, UpTo
<1>4. QED
  BY <1>3 DEF Good

LEMMA OfIsOwn ==
    ASSUME NEW s, NEW w, Len(s) \in Nat
    PROVE  \E F : Own(F, s, w, Len(s)) /\ Of(s, w) = F[Len(s)]
<1> DEFINE F == CHOOSE F : Own(F, s, w, Len(s))
<1>1. Own(F, s, w, Len(s))
  BY OwnExists
<1>2. Of(s, w) = F[Len(s)]
  BY DEF Of, Own, OwnStep
<1>3. QED
  BY <1>1, <1>2

(* ... whose value are the requests of w among s, each as often as in s.       *)
OwnFacts(own, s, m, w) ==
    /\ Len(own) = CountTo(s, m, w)
    /\ \A i \in 1 .. Len(own) : /\ own[i].worker = w
                                /\ \E j \in 1 .. m : own[i] = s[j]

Apart(s, m) == \A i, j \in 1 .. m : s[i] = s[j] => i = j

LEMMA OfFacts ==
    ASSUME NEW R, NEW s \in Seq(R), NEW w
    PROVE  /\ Of(s, w) \in Seq(R)
           /\ OwnFacts(Of(s, w), s, Len(s), w)
           /\ Apart(s, Len(s)) => Apart(Of(s, w), Len(Of(s, w)))
<1> DEFINE N == Len(s)
<1>1. N \in Nat /\ \A j \in 1 .. N : s[j] \in R
  BY ElementOfSeq
<1> PICK F : Own(F, s, w, N) /\ Of(s, w) = F[N]
  BY <1>1, OfIsOwn
<1> DEFINE Fine(n) == /\ F[n] \in Seq(R)
                      /\ OwnFacts(F[n], s, n, w)
                      /\ Apart(s, n) => Apart(F[n], Len(F[n]))
           Good    == {n \in 0 .. N : Fine(n)}
<1> HIDE DEF N
<1>2. 0 \in Good
  <2>1. F[0] = <<>>
    BY <1>1 DEF Own, OwnStep
  <2>2. Fine(0)
    BY <2>1, CountNone DEF OwnFacts, Apart
  <2>3. QED
    BY <1>1, <2>2
<1>3. ASSUME NEW n \in 0 .. N - 1, n \in Good PROVE n + 1 \in Good
  <2>1. /\ n \in Nat /\ n + 1 \in 0 .. N /\ n + 1 \in 1 .. N /\ s[n + 1] \in R
        /\ F[n] \in Seq(R) /\ OwnFacts(F[n], s, n, w)
        /\ Apart(s, n) => Apart(F[n], Len(F[n]))
    BY <1>1, <1>3
  <2>2. F[n + 1] = IF s[n + 1].worker = w THEN Append(F[n], s[n + 1]) ELSE F[n]
    <3>1. n + 1 \in 0 .. N /\ n + 1 # 0 /\ (n + 1) - 1 = n
      BY <2>1
    <3>2. F[n + 1] = OwnStep(F, s, w, n + 1)
      BY <3>1 DEF Own
    <3>3. QED
      BY <3>1, <3>2 DEF OwnStep
  <2>3. Apart(s, n + 1) => Apart(s, n)
    BY <2>1 DEF Apart
  <2>4. CASE s[n + 1].worker # w
    <3>1. F[n + 1] = F[n] /\ CountTo(s, n + 1, w) = CountTo(s, n, w)
      BY <2>1, <2>2, <2>4, CountNext
    <3>2. OwnFacts(F[n + 1], s, n + 1, w)
      BY <2>1, <3>1 DEF OwnFacts
    <3>3. QED
      BY <2>1, <2>3, <3>1, <3>2
  <2>5. CASE s[n + 1].worker = w
    <3> PICK a : a = F[n]
      OBVIOUS
    <3> PICK b : b = F[n + 1]
      OBVIOUS
    <3> PICK x : x = s[n + 1]
      OBVIOUS
    <3>1. /\ b \in Seq(R) /\ Len(b) = Len(a) + 1 /\ Len(a) \in Nat
          /\ \A i \in 1 .. Len(a) : b[i] = a[i]
          /\ b[Len(a) + 1] = x
      BY <2>1, <2>2, <2>5, AppendProperties
    <3>2. /\ Len(a) = CountTo(s, n, w)
          /\ \A i \in 1 .. Len(a) : /\ a[i].worker = w
                                    /\ \E j \in 1 .. n : a[i] = s[j]
      BY <2>1 DEF OwnFacts
    <3>3. \A i \in 1 .. Len(b) : i \in 1 .. Len(a) \/ i = Len(a) + 1
      BY <3>1
    <3>4. CountTo(s, n + 1, w) = CountTo(s, n, w) + 1
      BY <2>1, <2>5, CountNext
    <3>5. \A i \in 1 .. Len(b) : b[i].worker = w
      BY <2>5, <3>1, <3>2, <3>3
    <3>6. ASSUME NEW i \in 1 .. Len(b) PROVE \E j \in 1 .. n + 1 : b[i] = s[j]
      <4>1. CASE i \in 1 .. Len(a)
        BY <2>1, <3>1, <3>2, <4>1
      <4>2. CASE i = Len(a) + 1
        BY <2>1, <3>1, <4>2
      <4>3. QED
        BY <3>3, <4>1, <4>2
    <3>7. OwnFacts(b, s, n + 1, w)
      BY <3>1, <3>2, <3>4, <3>5, <3>6 DEF OwnFacts
    <3>8. ASSUME Apart(s, n + 1) PROVE Apart(b, Len(b))
      <4>1. \A i \in 1 .. Len(a) : a[i] # x
        BY <2>1, <3>2, <3>8 DEF Apart
      <4>2. Apart(a, Len(a))
        BY <2>1, <2>3, <3>8
      <4>3. QED
        BY <3>1, <3>3, <4>1, <4>2 DEF Apart
    <3>9. QED
      BY <2>1, <3>1, <3>7, <3>8
  <2>6. QED
    BY <2>4, <2>5
<1> HIDE DEF Good
<1>4. 0 .. N \subseteq Good
  BY <1>1, <1>2, <1>3, UpTo
<1>5. N \in Good
  BY <1>1, <1>4
<1>6. QED
  BY <1>5 DEF Good, N

-----------------------------------------------------------------------------
(* Sequences as lists of things: what is in one is in the other.               *)
Within(s, t) == \A i \in 1 .. Len(s) : \E j \in 1 .. Len(t) : s[i] = t[j]

(* One that is as long as the other, and within it without repetition, has all *)
(* of it.                                                                      *)
LEMMA AllOfIt ==
    ASSUME NEW s, NEW t, Len(s) \in Nat, Len(t) \in Nat, Apart(s, Len(s)),
           Within(s, t), Len(s) >= Len(t)
    PROVE  Len(s) = Len(t) /\ Within(t, s)
<1> DEFINE S == 1 .. Len(s)
           T == 1 .. Len(t)
           f == [i \in S |-> CHOOSE j \in T : s[i] = t[j]]
<1>1. \A i \in S : f[i] \in T /\ s[i] = t[f[i]]
  BY DEF Within
<1>2. IsFiniteSet(S) /\ IsFiniteSet(T) /\ Cardinality(S) = Len(s)
      /\ Cardinality(T) = Len(t)
  <2>1. ASSUME NEW n \in Nat PROVE IsFiniteSet(1 .. n) /\ Cardinality(1 .. n) = n
    <3>1. 1 \in Int /\ n \in Int
      OBVIOUS
    <3>2. /\ IsFiniteSet(1 .. n)
          /\ Cardinality(1 .. n) = IF 1 > n THEN 0 ELSE n - 1 + 1
      BY <3>1, FS_Interval, Zenon
    <3> PICK c : c = Cardinality(1 .. n)
      OBVIOUS
    <3>3. c = n
      BY <3>2
    <3>4. QED
      BY <3>2, <3>3
  <2>2. QED
    BY <2>1
<1>3. f \in Injection(S, T)
  <2>1. f \in [S -> T]
    BY <1>1
  <2>2. \A i, j \in S : f[i] = f[j] => i = j
    BY <1>1 DEF Apart
  <2> HIDE DEF f, S, T
  <2>3. QED
    BY <2>1, <2>2 DEF Injection, IsInjective
<1> HIDE DEF f, S, T
<1>4. Len(s) <= Len(t)
  BY <1>2, <1>3, FS_Injection
<1>5. f \in Surjection(S, T)
  BY <1>2, <1>3, <1>4, FS_Injection
<1>6. \A j \in T : \E i \in S : t[j] = s[i]
  BY <1>1, <1>5 DEF Surjection
<1>7. QED
  BY <1>4, <1>6 DEF Within, S, T

-----------------------------------------------------------------------------
(* The passes over the names.                                                  *)
LEMMA NamesFacts ==
    /\ Len(Names) \in Nat \ {0} /\ DOMAIN Names = 1 .. Len(Names)
    /\ \A n \in 1 .. Len(Names) : Names[n] \in WorkerType
    /\ \A w \in WorkerType : \E n \in 1 .. Len(Names) : w = Names[n]
    /\ \A m, n \in 1 .. Len(Names) : Names[m] = Names[n] => m = n
    /\ \A n \in 1 .. Len(Names) : RankOf(Names[n]) = n
<1>1. Names \in Seq(WorkerType) /\ Names # <<>>
  BY QueueAssumption DEF WorkerType
<1>2. Len(Names) \in Nat \ {0} /\ DOMAIN Names = 1 .. Len(Names)
  BY <1>1
<1>3. \A n \in 1 .. Len(Names) : Names[n] \in WorkerType
  BY <1>2 DEF WorkerType, Range
<1>4. \A w \in WorkerType : \E n \in 1 .. Len(Names) : w = Names[n]
  BY <1>2 DEF WorkerType, Range
<1>5. \A m, n \in 1 .. Len(Names) : Names[m] = Names[n] => m = n
  BY <1>2, QueueAssumption DEF IsInjective
<1>6. \A n \in 1 .. Len(Names) : RankOf(Names[n]) = n
  BY <1>2, <1>5 DEF RankOf
<1>7. QED
  BY <1>2, <1>3, <1>4, <1>5, <1>6

Counted(s, w) == CountTo(s, Len(s), w)
Round(s, i)   == CountTo(s, i - 1, s[i].worker)

(* In the k-th pass, counted from nought, at the t-th name: those before it    *)
(* have had k + 1 turns and the others k, unless they have no requests left.   *)
Passed(own, done, t, k) ==
    \A n \in 1 .. Len(Names) :
        /\ n < t => /\ Counted(done, Names[n]) <= k + 1
                    /\ own[Names[n]] # <<>> => Counted(done, Names[n]) = k + 1
        /\ n >= t => /\ Counted(done, Names[n]) <= k
                     /\ own[Names[n]] # <<>> => Counted(done, Names[n]) = k

RoundsSoFar(done, t, k) ==
    \A i \in 1 .. Len(done) :
        /\ Round(done, i) <= k
        /\ Round(done, i) = k =>
             \E n \in 1 .. Len(Names) : n < t /\ done[i].worker = Names[n]

InOrder(done) ==
    \A i, j \in 1 .. Len(done) :
        i < j => \/ Round(done, i) < Round(done, j)
                 \/ /\ Round(done, i) = Round(done, j)
                    /\ \E m, n \in 1 .. Len(Names) :
                          m < n /\ done[i].worker = Names[m] /\ done[j].worker = Names[n]

LEMMA RoundNat ==
    ASSUME NEW s, Len(s) \in Nat
    PROVE  /\ \A i \in 1 .. Len(s) : Round(s, i) \in Nat
           /\ \A w : Counted(s, w) \in Nat
<1>1. \A i \in 1 .. Len(s) : i - 1 \in Nat
  OBVIOUS
<1>2. QED
  BY <1>1, CountNat DEF Round, Counted

(* One more request makes a round of its own and leaves those before it alone. *)
LEMMA RoundsAppend ==
    ASSUME NEW R, NEW s \in Seq(R), NEW x \in R
    PROVE  /\ Len(Append(s, x)) = Len(s) + 1 /\ Len(s) \in Nat
           /\ \A i \in 1 .. Len(s) : /\ Round(Append(s, x), i) = Round(s, i)
                                     /\ Append(s, x)[i] = s[i]
           /\ Append(s, x)[Len(s) + 1] = x
           /\ Round(Append(s, x), Len(s) + 1) = Counted(s, x.worker)
           /\ \A w : Counted(Append(s, x), w)
                       = IF x.worker = w THEN Counted(s, w) + 1 ELSE Counted(s, w)
<1> PICK a : a = Append(s, x)
  OBVIOUS
<1>1. /\ Len(a) = Len(s) + 1 /\ Len(s) \in Nat /\ a[Len(s) + 1] = x
      /\ \A i \in 1 .. Len(s) : a[i] = s[i]
  BY AppendProperties
<1>2. ASSUME NEW m \in 0 .. Len(s), NEW w PROVE CountTo(a, m, w) = CountTo(s, m, w)
  <2>1. m \in Nat /\ \A j \in 1 .. m : a[j] = s[j]
    BY <1>1
  <2>2. QED
    BY <2>1, CountSame
<1>3. ASSUME NEW i \in 1 .. Len(s) PROVE Round(a, i) = Round(s, i)
  <2>1. i - 1 \in 0 .. Len(s) /\ a[i] = s[i]
    BY <1>1
  <2>2. QED
    BY <1>2, <2>1 DEF Round
<1>4. Len(s) \in 0 .. Len(s)
  BY <1>1
<1>5. Round(a, Len(s) + 1) = Counted(s, x.worker)
  <2>1. (Len(s) + 1) - 1 = Len(s)
    BY <1>1
  <2>2. QED
    BY <1>1, <1>2, <1>4, <2>1 DEF Round, Counted
<1>6. ASSUME NEW w
      PROVE  Counted(a, w) = IF x.worker = w THEN Counted(s, w) + 1 ELSE Counted(s, w)
  <2> PICK m : m = Len(s)
    OBVIOUS
  <2>1. /\ m \in Nat /\ Len(a) = m + 1 /\ a[m + 1] = x
        /\ CountTo(a, m, w) = Counted(s, w)
    BY <1>1, <1>2, <1>4 DEF Counted
  <2>2. CountTo(a, m + 1, w)
          = IF a[m + 1].worker = w THEN CountTo(a, m, w) + 1 ELSE CountTo(a, m, w)
    BY <2>1, CountNext
  <2>3. QED
    BY <2>1, <2>2 DEF Counted
<1>7. QED
  BY <1>1, <1>3, <1>5, <1>6

(* A turn of a worker type that has a request left ...                         *)
LEMMA Popped ==
    ASSUME NEW R, NEW done \in Seq(R), NEW x \in R,
           NEW t \in 1 .. Len(Names), NEW k \in Nat, x.worker = Names[t],
           NEW own, NEW left, own[Names[t]] # <<>>,
           \A n \in 1 .. Len(Names) : n # t => left[Names[n]] = own[Names[n]],
           Passed(own, done, t, k), RoundsSoFar(done, t, k), InOrder(done)
    PROVE  /\ Passed(left, Append(done, x), t + 1, k)
           /\ RoundsSoFar(Append(done, x), t + 1, k)
           /\ InOrder(Append(done, x))
<1> PICK more : more = Append(done, x)
  OBVIOUS
<1>1. /\ Len(more) = Len(done) + 1 /\ Len(done) \in Nat
      /\ \A i \in 1 .. Len(done) : Round(more, i) = Round(done, i) /\ more[i] = done[i]
      /\ more[Len(done) + 1] = x
      /\ Round(more, Len(done) + 1) = Counted(done, x.worker)
      /\ \A w : Counted(more, w)
                  = IF x.worker = w THEN Counted(done, w) + 1 ELSE Counted(done, w)
  BY RoundsAppend
<1>2. /\ \A n \in 1 .. Len(Names) : n \in Nat /\ (Names[n] = Names[t] => n = t)
      /\ \A w : Counted(done, w) \in Nat
      /\ t \in Nat
  BY <1>1, NamesFacts, RoundNat
<1>3. Counted(done, Names[t]) = k
  BY <1>2 DEF Passed
<1>4. Passed(left, more, t + 1, k)
  <2> SUFFICES ASSUME NEW n \in 1 .. Len(Names)
               PROVE  /\ n < t + 1 =>
                           /\ Counted(more, Names[n]) <= k + 1
                           /\ left[Names[n]] # <<>> => Counted(more, Names[n]) = k + 1
                      /\ n >= t + 1 =>
                           /\ Counted(more, Names[n]) <= k
                           /\ left[Names[n]] # <<>> => Counted(more, Names[n]) = k
    BY DEF Passed
  <2>1. CASE n = t
    <3>1. Counted(more, Names[n]) = k + 1
      BY <1>1, <1>3, <2>1
    <3>2. QED
      BY <1>2, <2>1, <3>1
  <2>2. CASE n # t
    <3>1. Counted(more, Names[n]) = Counted(done, Names[n])
      BY <1>1, <1>2, <2>2
    <3>2. left[Names[n]] = own[Names[n]]
      BY <2>2
    <3>3. n < t + 1 <=> n < t
      BY <1>2, <2>2
    <3>4. QED
      BY <1>2, <2>2, <3>1, <3>2, <3>3 DEF Passed
  <2>3. QED
    BY <2>1, <2>2
<1>5. \A i \in 1 .. Len(more) : i \in 1 .. Len(done) \/ i = Len(done) + 1
  BY <1>1
<1>6. Round(more, Len(done) + 1) = k
  BY <1>1, <1>3
<1>7. RoundsSoFar(more, t + 1, k)
  <2> SUFFICES ASSUME NEW i \in 1 .. Len(more)
               PROVE  /\ Round(more, i) <= k
                      /\ Round(more, i) = k =>
                           \E n \in 1 .. Len(Names) : n < t + 1 /\ more[i].worker = Names[n]
    BY DEF RoundsSoFar
  <2>1. CASE i = Len(done) + 1
    <3>1. more[i].worker = Names[t] /\ t < t + 1
      BY <1>1, <1>2, <2>1
    <3>2. QED
      BY <1>6, <2>1, <3>1
  <2>2. CASE i \in 1 .. Len(done)
    <3>1. Round(more, i) = Round(done, i) /\ more[i] = done[i]
      BY <1>1, <2>2
    <3>2. \A n \in 1 .. Len(Names) : n < t => n < t + 1
      BY <1>2
    <3>3. QED
      BY <2>2, <3>1, <3>2 DEF RoundsSoFar
  <2>3. QED
    BY <1>5, <2>1, <2>2
<1>8. InOrder(more)
  <2> SUFFICES ASSUME NEW i \in 1 .. Len(more), NEW j \in 1 .. Len(more), i < j
               PROVE  \/ Round(more, i) < Round(more, j)
                      \/ /\ Round(more, i) = Round(more, j)
                         /\ \E m, n \in 1 .. Len(Names) :
                               /\ m < n /\ more[i].worker = Names[m]
                               /\ more[j].worker = Names[n]
    BY DEF InOrder
  <2>1. i \in 1 .. Len(done)
    BY <1>1, <1>5
  <2>2. Round(more, i) = Round(done, i) /\ more[i] = done[i]
    BY <1>1, <2>1
  <2>3. CASE j \in 1 .. Len(done)
    <3>1. Round(more, j) = Round(done, j) /\ more[j] = done[j]
      BY <1>1, <2>3
    <3>2. QED
      BY <2>1, <2>2, <2>3, <3>1 DEF InOrder
  <2>4. CASE j = Len(done) + 1
    <3>1. Round(more, j) = k /\ more[j].worker = Names[t]
      BY <1>1, <1>6, <2>4
    <3>2. /\ Round(done, i) <= k /\ Round(done, i) \in Nat
          /\ Round(done, i) = k =>
               \E n \in 1 .. Len(Names) : n < t /\ done[i].worker = Names[n]
      BY <1>1, <2>1, RoundNat DEF RoundsSoFar
    <3>3. CASE Round(done, i) = k
      BY <2>2, <3>1, <3>2, <3>3
    <3>4. CASE Round(done, i) # k
      BY <2>2, <3>1, <3>2, <3>4
    <3>5. QED
      BY <3>3, <3>4
  <2>5. QED
    BY <1>5, <2>3, <2>4
<1>9. QED
  BY <1>4, <1>7, <1>8

(* ... or has none, and the end of a pass.                                     *)
LEMMA Skipped ==
    ASSUME NEW done, Len(done) \in Nat,
           NEW t \in 1 .. Len(Names), NEW k \in Nat, NEW own, own[Names[t]] = <<>>,
           Passed(own, done, t, k), RoundsSoFar(done, t, k)
    PROVE  Passed(own, done, t + 1, k) /\ RoundsSoFar(done, t + 1, k)
<1>1. /\ \A n \in 1 .. Len(Names) : n \in Nat /\ (n < t + 1 <=> n < t \/ n = t)
      /\ \A w : Counted(done, w) \in Nat
      /\ t \in Nat
  BY NamesFacts, RoundNat
<1>2. \A n \in 1 .. Len(Names) : n < t => n < t + 1
  BY <1>1
<1>3. RoundsSoFar(done, t + 1, k)
  BY <1>2 DEF RoundsSoFar
<1>4. ASSUME NEW n \in 1 .. Len(Names)
      PROVE  /\ n < t + 1 =>
                  /\ Counted(done, Names[n]) <= k + 1
                  /\ own[Names[n]] # <<>> => Counted(done, Names[n]) = k + 1
             /\ n >= t + 1 =>
                  /\ Counted(done, Names[n]) <= k
                  /\ own[Names[n]] # <<>> => Counted(done, Names[n]) = k
  <2>1. CASE n = t
    <3>1. Counted(done, Names[n]) <= k
      BY <1>1, <2>1 DEF Passed
    <3>2. QED
      BY <1>1, <2>1, <3>1
  <2>2. CASE n # t
    BY <1>1, <2>2 DEF Passed
  <2>3. QED
    BY <2>1, <2>2
<1>5. QED
  BY <1>3, <1>4 DEF Passed

LEMMA Wrapped ==
    ASSUME NEW done, Len(done) \in Nat, NEW k \in Nat, NEW own,
           Passed(own, done, Len(Names) + 1, k), RoundsSoFar(done, Len(Names) + 1, k)
    PROVE  Passed(own, done, 1, k + 1) /\ RoundsSoFar(done, 1, k + 1)
<1>1. \A n \in 1 .. Len(Names) : n \in Nat /\ n < Len(Names) + 1 /\ n >= 1 /\ ~ (n < 1)
  BY NamesFacts
<1>2. /\ \A i \in 1 .. Len(done) : Round(done, i) \in Nat
      /\ \A w : Counted(done, w) \in Nat
  BY RoundNat
<1>3. Passed(own, done, 1, k + 1)
  BY <1>1, <1>2 DEF Passed
<1>4. RoundsSoFar(done, 1, k + 1)
  BY <1>2 DEF RoundsSoFar
<1>5. QED
  BY <1>3, <1>4

-----------------------------------------------------------------------------
(* Whoever has requests left at a turn has had at most one turn less than any. *)
Accounted(own, done, given) ==
    \A w \in WorkerType :
        Counted(done, w) + Len(own[w]) = Len(Of(given, w))

FairAt(s, m, given) ==
    \A v, w \in WorkerType :
        CountTo(s, m, w) < Len(Of(given, w)) => CountTo(s, m, v) <= CountTo(s, m, w) + 1

LEMMA PassedIsFair ==
    ASSUME NEW done, Len(done) \in Nat, NEW t \in Nat, NEW k \in Nat,
           NEW own, \A w \in WorkerType : Len(own[w]) \in Nat, NEW given,
           Passed(own, done, t, k), Accounted(own, done, given)
    PROVE  FairAt(done, Len(done), given)
<1> SUFFICES ASSUME NEW v \in WorkerType, NEW w \in WorkerType,
                    Counted(done, w) < Len(Of(given, w))
             PROVE  Counted(done, v) <= Counted(done, w) + 1
  BY DEF FairAt, Counted
<1>1. PICK m \in 1 .. Len(Names) : v = Names[m]
  BY NamesFacts
<1>2. PICK n \in 1 .. Len(Names) : w = Names[n]
  BY NamesFacts
<1>3. Counted(done, v) \in Nat /\ Counted(done, w) \in Nat /\ m \in Nat /\ n \in Nat
  BY NamesFacts, RoundNat
<1>4. own[w] # <<>>
  <2>1. Counted(done, w) + Len(own[w]) = Len(Of(given, w)) /\ Len(own[w]) \in Nat
    BY DEF Accounted
  <2>2. Len(own[w]) # 0
    BY <1>3, <2>1
  <2>3. QED
    BY <2>2
<1>5. Counted(done, w) = k \/ Counted(done, w) = k + 1
  BY <1>2, <1>3, <1>4 DEF Passed
<1>6. Counted(done, v) <= k + 1
  BY <1>1, <1>3 DEF Passed
<1>7. QED
  BY <1>3, <1>5, <1>6

-----------------------------------------------------------------------------
(* No request is in two places: each is still with its worker type or in the   *)
(* output, once.                                                               *)
Unmixed(own, done, given) ==
    /\ Apart(done, Len(done)) /\ Within(done, given)
    /\ \A w \in WorkerType :
          /\ Apart(own[w], Len(own[w]))
          /\ \A i \in 1 .. Len(own[w]) :
                /\ own[w][i].worker = w
                /\ \E j \in 1 .. Len(given) : own[w][i] = given[j]
                /\ \A j \in 1 .. Len(done) : done[j] # own[w][i]

LEMMA GivenFacts ==
    ASSUME NEW given \in Inputs
    PROVE  given \in Seq(Request) /\ Apart(given, Len(given))
<1>1. PICK n \in 1 .. MaxBids : \E ws \in [1 .. n -> WorkerType] :
         given = [i \in 1 .. n |-> [worker |-> ws[i], bid |-> i]]
  <2>1. PICK ws \in UNION {[1 .. n -> WorkerType] : n \in 1 .. MaxBids} :
           given = [i \in DOMAIN ws |-> [worker |-> ws[i], bid |-> i]]
    BY DEF Inputs
  <2>2. QED
    BY <2>1
<1> PICK ws \in [1 .. n -> WorkerType] :
         given = [i \in 1 .. n |-> [worker |-> ws[i], bid |-> i]]
  BY <1>1
<1>2. n \in Nat /\ \A i \in 1 .. n : i \in 1 .. MaxBids
  <2>1. MaxBids \in Nat
    BY QueueAssumption
  <2>2. QED
    BY <2>1
<1>3. \A i \in 1 .. n : given[i] \in Request /\ given[i].bid = i
  BY <1>2 DEF Request
<1>4. given \in Seq(Request) /\ Len(given) = n
  BY <1>2, <1>3
<1>5. QED
  BY <1>3, <1>4 DEF Apart

(* The first n of a list, all but the last of it, and the last.                *)
LEMMA FirstOnes ==
    ASSUME NEW R, NEW s, NEW n \in Nat, \A i \in 1 .. n : s[i] \in R
    PROVE  /\ SubSeq(s, 1, n) \in Seq(R) /\ Len(SubSeq(s, 1, n)) = n
           /\ \A i \in 1 .. n : SubSeq(s, 1, n)[i] = s[i]
<1>1. 1 \in Int /\ n \in Int
  OBVIOUS
<1>2. /\ SubSeq(s, 1, n) \in Seq(R)
      /\ Len(SubSeq(s, 1, n)) = IF 1 <= n THEN n - 1 + 1 ELSE 0
      /\ \A i \in 1 .. n - 1 + 1 : SubSeq(s, 1, n)[i] = s[1 + i - 1]
  BY <1>1, SubSeqProperties
<1> PICK F : F = SubSeq(s, 1, n)
  OBVIOUS
<1>3. F \in Seq(R) /\ Len(F) = n /\ \A i \in 1 .. n : F[i] = s[i]
  BY <1>2
<1>4. QED
  BY <1>3

LEMMA FrontLast ==
    ASSUME NEW R, NEW s \in Seq(R), s # <<>>
    PROVE  /\ Len(s) \in Nat \ {0} /\ Last(s) = s[Len(s)] /\ Last(s) \in R
           /\ Front(s) \in Seq(R) /\ Len(Front(s)) = Len(s) - 1
           /\ \A i \in 1 .. Len(s) - 1 : Front(s)[i] = s[i]
<1>1. Len(s) \in Nat \ {0} /\ \A i \in 1 .. Len(s) : s[i] \in R
  BY EmptySeq, ElementOfSeq
<1> PICK n : n = Len(s) - 1
  OBVIOUS
<1>2. n \in Nat /\ \A i \in 1 .. n : s[i] \in R
  BY <1>1
<1> PICK F : F = SubSeq(s, 1, n)
  OBVIOUS
<1>3. F \in Seq(R) /\ Len(F) = n /\ \A i \in 1 .. n : F[i] = s[i]
  BY <1>2, FirstOnes
<1>4. Front(s) = F
  BY DEF Front
<1>5. Last(s) = s[Len(s)] /\ s[Len(s)] \in R
  BY <1>1 DEF Last
<1>6. QED
  BY <1>1, <1>3, <1>4, <1>5

(* Before the first pass.                                                      *)
LEMMA BeforePasses ==
    ASSUME NEW given \in Inputs,
           NEW own, own = [w \in WorkerType |-> Of(given, w)]
    PROVE  /\ own \in [WorkerType -> Seq(Request)]
           /\ Unmixed(own, <<>>, given) /\ Accounted(own, <<>>, given)
           /\ Passed(own, <<>>, 1, 0) /\ RoundsSoFar(<<>>, 1, 0)
           /\ InOrder(<<>>) /\ \A m \in 0 .. Len(<<>>) : FairAt(<<>>, m, given)
<1>1. given \in Seq(Request) /\ Apart(given, Len(given))
  BY GivenFacts
<1>2. ASSUME NEW w \in WorkerType
      PROVE  /\ own[w] = Of(given, w) /\ own[w] \in Seq(Request)
             /\ Apart(own[w], Len(own[w]))
             /\ \A i \in 1 .. Len(own[w]) : own[w][i].worker = w
             /\ \A i \in 1 .. Len(own[w]) : \E j \in 1 .. Len(given) : own[w][i] = given[j]
  BY <1>1, OfFacts DEF OwnFacts
<1>3. own \in [WorkerType -> Seq(Request)]
  BY <1>2
<1>4. Len(<<>>) = 0 /\ \A w : Counted(<<>>, w) = 0
  BY CountNone DEF Counted
<1>5. Unmixed(own, <<>>, given)
  BY <1>2, <1>4 DEF Unmixed, Apart, Within
<1>6. Accounted(own, <<>>, given)
  <2>1. \A w \in WorkerType : Len(own[w]) \in Nat
    BY <1>2
  <2>2. QED
    BY <1>2, <1>4, <2>1 DEF Accounted
<1>7. Passed(own, <<>>, 1, 0)
  BY <1>4 DEF Passed
<1>8. RoundsSoFar(<<>>, 1, 0) /\ InOrder(<<>>)
  BY <1>4 DEF RoundsSoFar, InOrder
<1>9. FairAt(<<>>, 0, given)
  <2>1. \A w : CountTo(<<>>, 0, w) = 0
    BY CountNone
  <2>2. QED
    BY <2>1 DEF FairAt
<1>10. QED
  BY <1>3, <1>4, <1>5, <1>6, <1>7, <1>8, <1>9

(* What is popped goes to the output and nothing else changes.                 *)
Pops(own, done, w, x, left, more) ==
    /\ own[w] # <<>> /\ x = Last(own[w])
    /\ left = [own EXCEPT ![w] = Front(own[w])]
    /\ more = Append(done, x)

LEMMA Moved ==
    ASSUME NEW given, Len(given) \in Nat,
           NEW own \in [WorkerType -> Seq(Request)],
           NEW done \in Seq(Request), NEW w \in WorkerType,
           NEW x, NEW left, NEW more, Pops(own, done, w, x, left, more),
           Unmixed(own, done, given), Accounted(own, done, given)
    PROVE  /\ x \in Request /\ x.worker = w
           /\ left \in [WorkerType -> Seq(Request)]
           /\ Unmixed(left, more, given) /\ Accounted(left, more, given)
<1> USE DEF Pops
<1> PICK s : s = own[w]
  OBVIOUS
<1> PICK f : f = Front(s)
  OBVIOUS
<1>1. s \in Seq(Request) /\ s # <<>>
  OBVIOUS
<1>2. /\ Len(s) \in Nat \ {0} /\ x = s[Len(s)] /\ x \in Request
      /\ f \in Seq(Request) /\ Len(f) = Len(s) - 1
      /\ \A i \in 1 .. Len(s) - 1 : f[i] = s[i]
  BY <1>1, FrontLast
<1>3. /\ left \in [WorkerType -> Seq(Request)] /\ left[w] = f
      /\ \A v \in WorkerType : v # w => left[v] = own[v]
  BY <1>2
<1>4. /\ Apart(s, Len(s))
      /\ \A i \in 1 .. Len(s) : /\ s[i].worker = w
                                /\ \E j \in 1 .. Len(given) : s[i] = given[j]
                                /\ \A j \in 1 .. Len(done) : done[j] # s[i]
  BY DEF Unmixed
<1>5. /\ Len(s) \in 1 .. Len(s)
      /\ \A i \in 1 .. Len(f) : i \in 1 .. Len(s) /\ i # Len(s) /\ f[i] = s[i]
  BY <1>2
<1>6. /\ x.worker = w /\ \E j \in 1 .. Len(given) : x = given[j]
      /\ \A j \in 1 .. Len(done) : done[j] # x
  BY <1>2, <1>4, <1>5
<1>7. /\ Apart(f, Len(f))
      /\ \A i \in 1 .. Len(f) : /\ f[i].worker = w /\ f[i] # x
                                /\ \E j \in 1 .. Len(given) : f[i] = given[j]
                                /\ \A j \in 1 .. Len(done) : done[j] # f[i]
  <2>1. ASSUME NEW i \in 1 .. Len(f) PROVE f[i] # x
    <3> PICK j : j = Len(s)
      OBVIOUS
    <3>1. i \in 1 .. Len(s) /\ j \in 1 .. Len(s) /\ i # j /\ f[i] = s[i] /\ x = s[j]
      BY <1>2, <1>5
    <3>2. QED
      BY <1>4, <3>1 DEF Apart
  <2>2. Apart(f, Len(f))
    BY <1>4, <1>5 DEF Apart
  <2>3. QED
    BY <1>4, <1>5, <2>1, <2>2
<1>8. /\ Len(more) = Len(done) + 1 /\ Len(done) \in Nat /\ more[Len(done) + 1] = x
      /\ \A i \in 1 .. Len(done) : more[i] = done[i]
      /\ \A v : Counted(more, v) = IF x.worker = v THEN Counted(done, v) + 1
                                                   ELSE Counted(done, v)
  BY <1>2, RoundsAppend
<1>9. \A j \in 1 .. Len(more) : j \in 1 .. Len(done) \/ j = Len(done) + 1
  BY <1>8
<1>10. Apart(more, Len(more)) /\ Within(more, given)
  <2>1. Apart(done, Len(done)) /\ Within(done, given)
    BY DEF Unmixed
  <2>2. QED
    BY <1>6, <1>8, <1>9, <2>1 DEF Apart, Within
<1>11. ASSUME NEW v \in WorkerType
       PROVE  /\ Apart(left[v], Len(left[v]))
              /\ \A i \in 1 .. Len(left[v]) :
                    /\ left[v][i].worker = v
                    /\ \E j \in 1 .. Len(given) : left[v][i] = given[j]
                    /\ \A j \in 1 .. Len(more) : more[j] # left[v][i]
  <2>1. CASE v = w
    BY <1>3, <1>7, <1>8, <1>9, <2>1
  <2>2. CASE v # w
    <3> PICK a : a = own[v]
      OBVIOUS
    <3>1. left[v] = a
      BY <1>3, <2>2
    <3>2. /\ Apart(a, Len(a))
          /\ \A i \in 1 .. Len(a) : /\ a[i].worker = v
                                    /\ \E j \in 1 .. Len(given) : a[i] = given[j]
                                    /\ \A j \in 1 .. Len(done) : done[j] # a[i]
      BY DEF Unmixed
    <3>3. \A i \in 1 .. Len(a) : a[i] # x
      BY <1>6, <2>2, <3>2
    <3>4. QED
      BY <1>8, <1>9, <3>1, <3>2, <3>3
  <2>3. QED
    BY <2>1, <2>2
<1>12. Accounted(left, more, given)
  <2> SUFFICES ASSUME NEW v \in WorkerType
               PROVE  Counted(more, v) + Len(left[v]) = Len(Of(given, v))
    BY DEF Accounted
  <2>1. /\ Counted(done, v) + Len(own[v]) = Len(Of(given, v))
        /\ Counted(done, v) \in Nat
    BY <1>8, RoundNat DEF Accounted
  <2>2. CASE v = w
    <3>1. Counted(more, v) = Counted(done, v) + 1 /\ Len(left[v]) = Len(own[v]) - 1
      BY <1>2, <1>3, <1>6, <1>8, <2>2
    <3>2. Len(own[v]) \in Nat
      BY <1>2, <2>2
    <3>3. QED
      BY <2>1, <3>1, <3>2
  <2>3. CASE v # w
    BY <1>3, <1>6, <1>8, <2>1, <2>3
  <2>4. QED
    BY <2>2, <2>3
<1>13. Unmixed(left, more, given)
  BY <1>10, <1>11 DEF Unmixed
<1>14. QED
  BY <1>2, <1>3, <1>6, <1>12, <1>13

-----------------------------------------------------------------------------
(* What holds between two turns.                                               *)
Sorting(own, done, given) ==
    /\ Unmixed(own, done, given) /\ Accounted(own, done, given)
    /\ InOrder(done)
    /\ \A m \in 0 .. Len(done) : FairAt(done, m, given)

Turns(own, done, t) ==
    \E k \in Nat : Passed(own, done, t, k) /\ RoundsSoFar(done, t, k)

(* A turn with a request to pop ...                                            *)
LEMMA TurnTaken ==
    ASSUME NEW given, Len(given) \in Nat,
           NEW own \in [WorkerType -> Seq(Request)],
           NEW done \in Seq(Request),
           NEW t \in 1 .. Len(Names), NEW w, w = Names[t],
           NEW x, NEW left, NEW more, Pops(own, done, w, x, left, more),
           Sorting(own, done, given), Turns(own, done, t)
    PROVE  /\ left \in [WorkerType -> Seq(Request)]
           /\ more \in Seq(Request)
           /\ Sorting(left, more, given) /\ Turns(left, more, t + 1)
<1>1. w \in WorkerType
  BY NamesFacts
<1>2. /\ Unmixed(own, done, given) /\ Accounted(own, done, given) /\ InOrder(done)
      /\ \A m \in 0 .. Len(done) : FairAt(done, m, given)
  BY DEF Sorting
<1>3. PICK k \in Nat : Passed(own, done, t, k) /\ RoundsSoFar(done, t, k)
  BY DEF Turns
<1>4. /\ x \in Request /\ x.worker = w
      /\ left \in [WorkerType -> Seq(Request)]
      /\ Unmixed(left, more, given) /\ Accounted(left, more, given)
  BY <1>1, <1>2, Moved
<1>5. /\ more \in Seq(Request) /\ Len(more) = Len(done) + 1 /\ Len(done) \in Nat
      /\ \A i \in 1 .. Len(done) : more[i] = done[i]
  <2>1. more = Append(done, x)
    BY DEF Pops
  <2>2. QED
    BY <1>4, <2>1, AppendProperties, LenProperties
<1>6. Passed(left, more, t + 1, k) /\ RoundsSoFar(more, t + 1, k) /\ InOrder(more)
  <2>1. \A n \in 1 .. Len(Names) : n # t => left[Names[n]] = own[Names[n]]
    BY NamesFacts DEF Pops
  <2>2. own[Names[t]] # <<>> /\ more = Append(done, x)
    BY DEF Pops
  <2>3. QED
    BY <1>2, <1>3, <1>4, <2>1, <2>2, Popped
<1>7. ASSUME NEW m \in 0 .. Len(more) PROVE FairAt(more, m, given)
  <2>1. CASE m = Len(more)
    <3>1. t + 1 \in Nat /\ Len(more) \in Nat
      BY <1>5, NamesFacts
    <3>2. \A v \in WorkerType : Len(left[v]) \in Nat
      BY <1>4
    <3>3. FairAt(more, Len(more), given)
      BY <1>3, <1>4, <1>6, <3>1, <3>2, PassedIsFair
    <3>4. QED
      BY <2>1, <3>3
  <2>2. CASE m \in 0 .. Len(done)
    <3>1. m \in Nat /\ \A j \in 1 .. m : more[j] = done[j]
      BY <1>5, <2>2
    <3>2. ASSUME NEW v PROVE CountTo(more, m, v) = CountTo(done, m, v)
      BY <3>1, CountSame
    <3>3. QED
      BY <1>2, <2>2, <3>2 DEF FairAt
  <2>3. QED
    BY <1>5, <2>1, <2>2
<1>8. QED
  BY <1>3, <1>4, <1>5, <1>6, <1>7 DEF Sorting, Turns

(* ... and any turn.                                                           *)
TakesTurn(own, done, t, left, more, next) ==
    LET w == Names[t] IN
    /\ left = [own EXCEPT ![w] = IF own[w] = <<>> THEN own[w] ELSE Front(own[w])]
    /\ more = IF own[w] = <<>> THEN done ELSE Append(done, Last(own[w]))
    /\ next = IF t = Len(Names) THEN 1 ELSE t + 1

LEMMA TurnDone ==
    ASSUME NEW given, Len(given) \in Nat,
           NEW own \in [WorkerType -> Seq(Request)],
           NEW done \in Seq(Request),
           NEW t \in 1 .. Len(Names), NEW left, NEW more, NEW next,
           TakesTurn(own, done, t, left, more, next),
           Sorting(own, done, given), Turns(own, done, t)
    PROVE  /\ left \in [WorkerType -> Seq(Request)]
           /\ more \in Seq(Request) /\ next \in 1 .. Len(Names)
           /\ Sorting(left, more, given) /\ Turns(left, more, next)
<1>1. Len(Names) \in Nat \ {0} /\ t \in Nat
  <2>1. Len(Names) \in Nat \ {0}
    BY NamesFacts
  <2>2. QED
    BY <2>1
<1> PICK w : w = Names[t]
  OBVIOUS
<1>2. next \in 1 .. Len(Names)
  BY <1>1 DEF TakesTurn
<1>3. /\ left \in [WorkerType -> Seq(Request)]
      /\ more \in Seq(Request)
      /\ Sorting(left, more, given) /\ Turns(left, more, t + 1)
  <2>1. CASE own[w] = <<>>
    <3>1. left = own /\ more = done
      BY <2>1 DEF TakesTurn
    <3>2. PICK k \in Nat : Passed(own, done, t, k) /\ RoundsSoFar(done, t, k)
      BY DEF Turns
    <3>3. own[Names[t]] = <<>> /\ Len(done) \in Nat
      BY <2>1
    <3>4. Passed(own, done, t + 1, k) /\ RoundsSoFar(done, t + 1, k)
      BY <3>2, <3>3, Skipped
    <3>5. Turns(own, done, t + 1)
      BY <3>2, <3>4 DEF Turns
    <3>6. QED
      BY <3>1, <3>5
  <2>2. CASE own[w] # <<>>
    <3> PICK x : x = Last(own[w])
      OBVIOUS
    <3>1. Pops(own, done, w, x, left, more)
      BY <2>2 DEF Pops, TakesTurn
    <3>2. QED
      BY <3>1, TurnTaken
  <2>3. QED
    BY <2>1, <2>2
<1>4. Turns(left, more, next)
  <2>1. CASE t = Len(Names)
    <3>1. PICK k \in Nat : Passed(left, more, Len(Names) + 1, k)
                           /\ RoundsSoFar(more, Len(Names) + 1, k)
      BY <1>3, <2>1 DEF Turns
    <3>2. Len(more) \in Nat
      BY <1>3, LenProperties
    <3>3. Passed(left, more, 1, k + 1) /\ RoundsSoFar(more, 1, k + 1)
      BY <3>1, <3>2, Wrapped
    <3>4. k + 1 \in Nat /\ next = 1
      BY <2>1, <3>1 DEF TakesTurn
    <3>5. QED
      BY <3>3, <3>4 DEF Turns
  <2>2. CASE t # Len(Names)
    BY <1>3, <2>2 DEF TakesTurn
  <2>3. QED
    BY <2>1, <2>2
<1>5. QED
  BY <1>2, <1>3, <1>4

-----------------------------------------------------------------------------
(* The inductive invariant: the state of the round robin, nothing lost once it *)
(* has ended, and the requests tried and to be tried as a part of the output.  *)
RoundRobin ==
    order = "round-robin" =>
        /\ Sorting(byName, output, input)
        /\ stage = "ordering" => Turns(byName, output, turn)

Lined(tried, rest, done) ==
    /\ Len(tried) + Len(rest) <= Len(done)
    /\ \A i \in 1 .. Len(tried) : tried[i] = done[i]
    /\ \A i \in 1 .. Len(rest) : rest[i] = done[Len(tried) + i]

Tracked ==
    /\ stage \in {"ordering", "ordered"} => attempted = <<>>
    /\ stage \in {"submitting", "done"} => Lined(attempted, inRegion, output)

QueueInv == QueueTypeOK /\ RoundRobin /\ Reordered /\ Tracked

LEMMA QueueBegins ==
    ASSUME QueueInit PROVE QueueInv
<1>1. /\ input \in Inputs /\ order \in {"random", "round-robin"}
      /\ byName = [w \in WorkerType |-> Of(input, w)]
      /\ turn = 1 /\ output = <<>> /\ inRegion = <<>> /\ attempted = <<>>
      /\ hadSuccess = FALSE /\ stage = "ordering"
  BY DEF QueueInit
<1>2. /\ byName \in [WorkerType -> Seq(Request)]
      /\ Unmixed(byName, <<>>, input) /\ Accounted(byName, <<>>, input)
      /\ Passed(byName, <<>>, 1, 0) /\ RoundsSoFar(<<>>, 1, 0)
      /\ InOrder(<<>>) /\ \A m \in 0 .. Len(<<>>) : FairAt(<<>>, m, input)
  BY <1>1, BeforePasses
<1>3. 1 \in 1 .. Len(Names)
  BY NamesFacts
<1>4. QueueTypeOK
  <2>1. <<>> \in Seq(Request) /\ FALSE \in BOOLEAN
    OBVIOUS
  <2>2. QED
    BY <1>1, <1>2, <1>3, <2>1 DEF QueueTypeOK
<1>5. RoundRobin
  <2>1. Sorting(byName, <<>>, input)
    BY <1>2 DEF Sorting
  <2>2. Turns(byName, <<>>, 1)
    BY <1>2 DEF Turns
  <2>3. QED
    BY <1>1, <2>1, <2>2 DEF RoundRobin
<1>6. Reordered /\ Tracked
  BY <1>1 DEF Reordered, Tracked
<1>7. QED
  BY <1>4, <1>5, <1>6 DEF QueueInv

(* A list of the input's requests, each once, that is no shorter.              *)
LEMMA NothingLost ==
    ASSUME NEW given \in Seq(Request), NEW done \in Seq(Request),
           Apart(done, Len(done)), Within(done, given), Len(done) >= Len(given)
    PROVE  Len(done) = Len(given) /\ Range(done) = Range(given)
<1>1. Len(done) \in Nat /\ Len(given) \in Nat
  BY LenProperties
<1>2. Len(done) = Len(given) /\ Within(given, done)
  BY <1>1, AllOfIt
<1>3. DOMAIN done = 1 .. Len(done) /\ DOMAIN given = 1 .. Len(given)
  BY LenProperties
<1>4. ASSUME NEW x \in Range(done) PROVE x \in Range(given)
  <2>1. PICK i \in 1 .. Len(done) : x = done[i]
    BY <1>3 DEF Range
  <2>2. PICK j \in 1 .. Len(given) : x = given[j]
    BY <2>1 DEF Within
  <2>3. QED
    BY <1>3, <2>2 DEF Range
<1>5. ASSUME NEW x \in Range(given) PROVE x \in Range(done)
  <2>1. PICK i \in 1 .. Len(given) : x = given[i]
    BY <1>3 DEF Range
  <2>2. PICK j \in 1 .. Len(done) : x = done[j]
    BY <1>2, <2>1 DEF Within
  <2>3. QED
    BY <1>3, <2>2 DEF Range
<1>6. QED
  BY <1>2, <1>4, <1>5

(* A request that is submitted moves from one part to the other.               *)
LEMMA LinedNext ==
    ASSUME NEW R, NEW tried \in Seq(R), NEW rest \in Seq(R), NEW done \in Seq(R),
           rest # <<>>, Lined(tried, rest, done)
    PROVE  /\ Append(tried, Head(rest)) \in Seq(R) /\ Tail(rest) \in Seq(R)
           /\ Lined(Append(tried, Head(rest)), Tail(rest), done)
<1> PICK x : x = Head(rest)
  OBVIOUS
<1> PICK a : a = Append(tried, x)
  OBVIOUS
<1> PICK b : b = Tail(rest)
  OBVIOUS
<1>1. /\ Len(tried) \in Nat /\ Len(rest) \in Nat \ {0} /\ Len(done) \in Nat
      /\ x \in R /\ x = rest[1]
  BY HeadTailProperties, EmptySeq, LenProperties
<1>2. /\ b \in Seq(R) /\ Len(b) = Len(rest) - 1
      /\ \A i \in 1 .. Len(b) : b[i] = rest[i + 1]
  BY HeadTailProperties
<1>3. /\ a \in Seq(R) /\ Len(a) = Len(tried) + 1 /\ a[Len(tried) + 1] = x
      /\ \A i \in 1 .. Len(tried) : a[i] = tried[i]
  BY <1>1, AppendProperties
<1>4. /\ Len(tried) + Len(rest) <= Len(done)
      /\ \A i \in 1 .. Len(tried) : tried[i] = done[i]
      /\ \A i \in 1 .. Len(rest) : rest[i] = done[Len(tried) + i]
  BY DEF Lined
<1>5. Len(a) + Len(b) <= Len(done)
  BY <1>1, <1>2, <1>3, <1>4
<1>6. ASSUME NEW i \in 1 .. Len(a) PROVE a[i] = done[i]
  <2>1. CASE i = Len(tried) + 1
    <3>1. 1 \in 1 .. Len(rest)
      BY <1>1
    <3>2. rest[1] = done[Len(tried) + 1]
      BY <1>4, <3>1
    <3>3. QED
      BY <1>1, <1>3, <2>1, <3>2
  <2>2. CASE i \in 1 .. Len(tried)
    BY <1>3, <1>4, <2>2
  <2>3. QED
    BY <1>1, <1>3, <2>1, <2>2
<1>7. ASSUME NEW i \in 1 .. Len(b) PROVE b[i] = done[Len(a) + i]
  <2>1. i + 1 \in 1 .. Len(rest) /\ Len(a) + i = Len(tried) + (i + 1)
    BY <1>1, <1>2, <1>3
  <2>2. QED
    BY <1>2, <1>4, <2>1
<1>8. QED
  BY <1>2, <1>3, <1>5, <1>6, <1>7 DEF Lined

-----------------------------------------------------------------------------
(* Each step keeps the invariant. A turn of the round robin:                   *)
LEMMA QueueVisit ==
    ASSUME QueueInv, Visit PROVE QueueInv'
<1>1. /\ input \in Inputs /\ order = "round-robin" /\ stage = "ordering"
      /\ byName \in [WorkerType -> Seq(Request)]
      /\ turn \in 1 .. Len(Names) /\ output \in Seq(Request)
      /\ UNCHANGED <<input, order, inRegion, attempted, hadSuccess>>
  BY DEF QueueInv, QueueTypeOK, Visit
<1>2. TakesTurn(byName, output, turn, byName', output', turn')
  BY DEF Visit, TakesTurn
<1>3. Sorting(byName, output, input) /\ Turns(byName, output, turn)
  BY <1>1 DEF QueueInv, RoundRobin
<1>4. input \in Seq(Request) /\ Len(input) \in Nat
  BY <1>1, GivenFacts, LenProperties
<1>5. /\ byName' \in [WorkerType -> Seq(Request)]
      /\ output' \in Seq(Request) /\ turn' \in 1 .. Len(Names)
      /\ Sorting(byName', output', input) /\ Turns(byName', output', turn')
  BY <1>1, <1>2, <1>3, <1>4, TurnDone
<1>6. stage' = IF turn' = 1 /\ Len(output') >= Len(input) THEN "ordered" ELSE stage
  BY DEF Visit
<1>7. QueueTypeOK'
  BY <1>1, <1>5, <1>6 DEF QueueInv, QueueTypeOK
<1>8. RoundRobin'
  BY <1>1, <1>5 DEF RoundRobin
<1>9. Reordered'
  <2>1. CASE Len(output') >= Len(input)
    <3>1. Apart(output', Len(output')) /\ Within(output', input)
      BY <1>5 DEF Sorting, Unmixed
    <3>2. Len(output') = Len(input) /\ Range(output') = Range(input)
      BY <1>4, <1>5, <2>1, <3>1, NothingLost
    <3>3. QED
      BY <1>1, <3>2 DEF Reordered
  <2>2. CASE ~ (Len(output') >= Len(input))
    BY <1>1, <1>6, <2>2 DEF Reordered
  <2>3. QED
    BY <2>1, <2>2
<1>10. Tracked'
  BY <1>1, <1>6 DEF QueueInv, Tracked
<1>11. QED
  BY <1>7, <1>8, <1>9, <1>10 DEF QueueInv

(* a random order is an arrangement of the requests;                           *)
LEMMA QueueRandomize ==
    ASSUME QueueInv, Randomize PROVE QueueInv'
<1>1. /\ input \in Inputs /\ order = "random" /\ stage = "ordering"
      /\ UNCHANGED <<input, order, byName, turn, inRegion, attempted, hadSuccess>>
      /\ stage' = "ordered"
  BY DEF QueueInv, QueueTypeOK, Randomize
<1>2. input \in Seq(Request) /\ Apart(input, Len(input))
  BY <1>1, GivenFacts
<1> PICK n : n = Len(input)
  OBVIOUS
<1>3. n \in Nat /\ DOMAIN input = 1 .. n /\ \A i \in 1 .. n : input[i] \in Request
  BY <1>2, LenProperties, ElementOfSeq
<1>4. PICK p \in [1 .. n -> 1 .. n] :
         IsInjective(p) /\ output' = [i \in DOMAIN input |-> input[p[i]]]
  BY DEF Randomize, Orders
<1>5. /\ output' \in Seq(Request) /\ Len(output') = n
      /\ \A i \in 1 .. n : output'[i] = input[p[i]] /\ p[i] \in 1 .. n
  <2>1. output' = [i \in 1 .. n |-> input[p[i]]] /\ \A i \in 1 .. n : p[i] \in 1 .. n
    BY <1>3, <1>4
  <2>2. output' \in [1 .. n -> Request]
    BY <1>3, <2>1
  <2>3. QED
    BY <1>3, <2>1, <2>2
<1>6. \A i, j \in 1 .. n : p[i] = p[j] => i = j
  BY <1>4 DEF IsInjective
<1>7. Apart(output', Len(output')) /\ Within(output', input)
  BY <1>2, <1>5, <1>6 DEF Apart, Within
<1>8. Len(output') = Len(input) /\ Range(output') = Range(input)
  <2>1. Len(output') >= Len(input)
    BY <1>3, <1>5
  <2>2. QED
    BY <1>2, <1>5, <1>7, <2>1, NothingLost
<1>9. QueueTypeOK'
  BY <1>1, <1>5 DEF QueueInv, QueueTypeOK
<1>10. RoundRobin' /\ Tracked' /\ Reordered'
  BY <1>1, <1>8 DEF QueueInv, RoundRobin, Tracked, Reordered
<1>11. QED
  BY <1>9, <1>10 DEF QueueInv

(* the queue is the front of the output;                                       *)
LEMMA QueueCut ==
    ASSUME QueueInv, Cut PROVE QueueInv'
<1>1. /\ output \in Seq(Request) /\ stage = "ordered" /\ stage' = "submitting"
      /\ UNCHANGED <<input, order, byName, turn, output, attempted, hadSuccess>>
      /\ attempted = <<>>
  BY DEF QueueInv, QueueTypeOK, Cut, Tracked
<1> PICK n : n = Len(output)
  OBVIOUS
<1>2. /\ n \in Nat /\ SpawnLimit \in Nat \ {0}
      /\ \A i \in 1 .. n : output[i] \in Request
  BY <1>1, LenProperties, ElementOfSeq, QueueAssumption
<1>3. /\ inRegion' \in Seq(Request) /\ Len(inRegion') <= n
      /\ \A i \in 1 .. Len(inRegion') : inRegion'[i] = output[i]
  <2>1. CASE n <= SpawnLimit
    <3>1. inRegion' = output
      BY <2>1 DEF Cut
    <3>2. QED
      BY <1>1, <1>2, <3>1
  <2>2. CASE ~ (n <= SpawnLimit)
    <3> PICK q : q = SubSeq(output, 1, SpawnLimit)
      OBVIOUS
    <3>1. inRegion' = q
      BY <2>2 DEF Cut
    <3>2. SpawnLimit \in Nat /\ \A i \in 1 .. SpawnLimit : output[i] \in Request
      BY <1>2, <2>2
    <3>3. /\ q \in Seq(Request) /\ Len(q) = SpawnLimit
          /\ \A i \in 1 .. SpawnLimit : q[i] = output[i]
      BY <3>2, FirstOnes
    <3>4. QED
      BY <1>2, <2>2, <3>1, <3>3
  <2>3. QED
    BY <2>1, <2>2
<1>4. Lined(<<>>, inRegion', output)
  <2>1. Len(inRegion') \in Nat
    BY <1>3, LenProperties
  <2>2. \A i \in 1 .. Len(inRegion') : Len(<<>>) + i = i
    BY <2>1
  <2>3. QED
    BY <1>2, <1>3, <2>1, <2>2 DEF Lined
<1>5. QueueTypeOK'
  BY <1>1, <1>3 DEF QueueInv, QueueTypeOK
<1>6. RoundRobin' /\ Tracked' /\ Reordered'
  BY <1>1, <1>4 DEF QueueInv, RoundRobin, Tracked, Reordered
<1>7. QED
  BY <1>5, <1>6 DEF QueueInv

(* a request is submitted;                                                     *)
LEMMA QueueSubmit ==
    ASSUME QueueInv, NEW success \in BOOLEAN, Submit(success) PROVE QueueInv'
<1>1. /\ output \in Seq(Request) /\ attempted \in Seq(Request)
      /\ inRegion \in Seq(Request) /\ inRegion # <<>> /\ stage = "submitting"
      /\ attempted' = Append(attempted, Head(inRegion)) /\ inRegion' = Tail(inRegion)
      /\ UNCHANGED <<input, order, byName, turn, output, stage>>
      /\ Lined(attempted, inRegion, output)
  BY DEF QueueInv, QueueTypeOK, Submit, Tracked
<1>2. /\ attempted' \in Seq(Request) /\ inRegion' \in Seq(Request)
      /\ Lined(attempted', inRegion', output)
  BY <1>1, LinedNext
<1>3. hadSuccess' \in BOOLEAN
  BY DEF QueueInv, QueueTypeOK, Submit
<1>4. QueueTypeOK'
  BY <1>1, <1>2, <1>3 DEF QueueInv, QueueTypeOK
<1>5. RoundRobin' /\ Tracked' /\ Reordered'
  BY <1>1, <1>2 DEF QueueInv, RoundRobin, Tracked, Reordered
<1>6. QED
  BY <1>4, <1>5 DEF QueueInv

LEMMA QueueStep ==
    ASSUME QueueInv, [QueueNext]_(queueVars) PROVE QueueInv'
<1>1. CASE Randomize
  BY <1>1, QueueRandomize
<1>2. CASE Visit
  BY <1>2, QueueVisit
<1>3. CASE Cut
  BY <1>3, QueueCut
<1>4. ASSUME NEW success \in BOOLEAN, Submit(success) PROVE QueueInv'
  BY <1>4, QueueSubmit
<1>5. CASE Finish
  BY <1>5 DEF QueueInv, RoundRobin, Tracked, QueueTypeOK, Reordered, Finish
<1>6. CASE UNCHANGED queueVars
  BY <1>6 DEF QueueInv, RoundRobin, Tracked, QueueTypeOK, Reordered, queueVars
<1>7. QED
  BY <1>1, <1>2, <1>3, <1>4, <1>5, <1>6 DEF QueueNext

LEMMA QueueInvariant == QueueSpec => []QueueInv
<1>1. QueueInit => QueueInv
  BY QueueBegins
<1>2. QueueInv /\ [QueueNext]_(queueVars) => QueueInv'
  BY QueueStep
<1>3. QED
  BY <1>1, <1>2, PTL DEF QueueSpec

-----------------------------------------------------------------------------
LEMMA RoundsInOrder ==
    ASSUME QueueInv PROVE InRounds
<1> SUFFICES ASSUME order = "round-robin",
                    NEW i \in DOMAIN output, NEW j \in DOMAIN output, i < j
             PROVE  \/ RoundOf(output, i) < RoundOf(output, j)
                    \/ /\ RoundOf(output, i) = RoundOf(output, j)
                       /\ RankOf(output[i].worker) < RankOf(output[j].worker)
  BY DEF InRounds
<1>1. InOrder(output) /\ output \in Seq(Request)
  BY DEF QueueInv, RoundRobin, Sorting, QueueTypeOK
<1>2. i \in 1 .. Len(output) /\ j \in 1 .. Len(output)
  BY <1>1, LenProperties
<1>3. \A n : RoundOf(output, n) = Round(output, n)
  BY DEF RoundOf, Round, CountTo, OfWorker
<1>4. CASE Round(output, i) < Round(output, j)
  BY <1>3, <1>4
<1>5. ASSUME Round(output, i) = Round(output, j),
             NEW m \in 1 .. Len(Names), NEW n \in 1 .. Len(Names), m < n,
             output[i].worker = Names[m], output[j].worker = Names[n]
      PROVE  /\ RoundOf(output, i) = RoundOf(output, j)
             /\ RankOf(output[i].worker) < RankOf(output[j].worker)
  <2>1. RankOf(Names[m]) = m /\ RankOf(Names[n]) = n
    BY NamesFacts
  <2>2. QED
    BY <1>3, <1>5, <2>1
<1>6. QED
  BY <1>1, <1>2, <1>4, <1>5 DEF InOrder

LEMMA SharesAreFair ==
    ASSUME QueueInv PROVE FairShare
<1> SUFFICES ASSUME order = "round-robin",
                    NEW v \in WorkerType, NEW w \in WorkerType,
                    Len(Of(attempted, w)) < Len(Of(input, w))
             PROVE  Len(Of(attempted, v)) <= Len(Of(attempted, w)) + 1
  BY DEF FairShare
<1>1. /\ attempted \in Seq(Request) /\ output \in Seq(Request)
      /\ \A m \in 0 .. Len(output) : FairAt(output, m, input)
  BY DEF QueueInv, RoundRobin, Sorting, QueueTypeOK
<1> PICK m : m = Len(attempted)
  OBVIOUS
<1>2. m \in 0 .. Len(output) /\ \A i \in 1 .. m : attempted[i] = output[i]
  <2>1. CASE attempted = <<>>
    BY <1>1, <2>1
  <2>2. CASE Lined(attempted, inRegion, output)
    <3>1. inRegion \in Seq(Request)
      BY DEF QueueInv, QueueTypeOK
    <3>2. Len(attempted) \in Nat /\ Len(inRegion) \in Nat /\ Len(output) \in Nat
      BY <1>1, <3>1, LenProperties
    <3>3. QED
      BY <2>2, <3>2 DEF Lined
  <2>3. QED
    BY <2>1, <2>2 DEF QueueInv, QueueTypeOK, Tracked
<1>3. ASSUME NEW u PROVE Len(Of(attempted, u)) = CountTo(output, m, u)
  <2>1. Len(Of(attempted, u)) = CountTo(attempted, m, u)
    BY <1>1, OfFacts DEF OwnFacts
  <2>2. m \in Nat
    BY <1>2
  <2>3. QED
    BY <1>2, <2>1, <2>2, CountSame
<1>4. FairAt(output, m, input)
  BY <1>1, <1>2
<1>5. QED
  BY <1>3, <1>4 DEF FairAt

(* For all worker types, numbers of requests and limits: the queue of a region *)
(* has the shape the code takes for granted.                                   *)
THEOREM QueueTyped == QueueSpec => []QueueTypeOK
<1>1. QueueInv => QueueTypeOK
  BY DEF QueueInv
<1>2. QED
  BY <1>1, QueueInvariant, PTL

(* Ordering the requests of a region, round robin or at random, loses none and *)
(* doubles none.                                                               *)
THEOREM NoRequestLost == QueueSpec => []Reordered
<1>1. QueueInv => Reordered
  BY DEF QueueInv
<1>2. QED
  BY <1>1, QueueInvariant, PTL

(* roundRobinRequests puts the requests in rounds, each in the order of the    *)
(* worker types' names.                                                        *)
THEOREM RoundsFollowNames == QueueSpec => []InRounds
<1>1. QueueInv => InRounds
  BY RoundsInOrder
<1>2. QED
  BY <1>1, QueueInvariant, PTL

(* Wherever the submission of a region's requests stands, stops or is cut off, *)
(* no worker type has had two attempts more than one with requests left.       *)
THEOREM NobodyPushedOut == QueueSpec => []FairShare
<1>1. QueueInv => FairShare
  BY SharesAreFair
<1>2. QED
  BY <1>1, QueueInvariant, PTL
==============================================================================
