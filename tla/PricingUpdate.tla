---------------------------- MODULE PricingUpdate ----------------------------
(* AwsManager.update (lib/aws-manager.js), as several iterations may be in it  *)
(* at once: each call asks every region in parallel and replaces the state     *)
(* that all iterations bid by when the last region has answered.               *)
(*                                                                             *)
(* The check against a last update that is meant to spare requests compares    *)
(* with a time that no call sets, and never holds.                             *)
EXTENDS Integers, FiniteSets, SequencesExt

CONSTANTS
    Caller,         \* calls of update() that may be under way at once
    ManagedRegions, \* regions with an EC2 client
    InstanceType, Zone,
    Report          \* what EC2 may report of a region: zones, price points

Option == InstanceType \X Zone

ASSUME PricingAssumption ==
    \A report \in Report :
        /\ report.available \subseteq Zone
        /\ report.history \in Seq([option : Option, price : Nat \ {0}])

NoPrice == 0

VARIABLES
    asking,         \* the calls under way
    fetched,        \* what each has got so far, by region
    availableAZ,    \* AwsManager's zones
    pricing         \* AwsManager's prices

pricingVars == <<asking, fetched, availableAZ, pricing>>

Nothing == [r \in {} |-> {}]

PricingInit ==
    /\ asking = {}
    /\ fetched = [c \in Caller |-> Nothing]
    /\ availableAZ = Nothing /\ pricing = Nothing

(* _findMaxPrices: of the points of a type in an available zone, a higher one  *)
(* replaces the one before.                                                    *)
FindMaxPrices(report) ==
    FoldLeft(LAMBDA prices, point :
                IF /\ point.option[2] \in report.available
                   /\ \/ prices[point.option] = NoPrice
                      \/ prices[point.option] < point.price
                THEN [prices EXCEPT ![point.option] = point.price] ELSE prices,
             [o \in Option |-> NoPrice], report.history)

-----------------------------------------------------------------------------
BeginUpdate(c) ==
    /\ c \notin asking
    /\ asking' = asking \cup {c}
    /\ fetched' = [fetched EXCEPT ![c] = Nothing]
    /\ UNCHANGED <<availableAZ, pricing>>

(* Mutant: a region's answer is used as it comes in.                           *)
FetchAndAssign(c, r, report) ==
    /\ c \in asking /\ r \in ManagedRegions \ DOMAIN fetched[c]
    /\ fetched' = [fetched EXCEPT ![c] =
                     [s \in DOMAIN @ \cup {r} |-> IF s = r THEN report ELSE @[s]]]
    /\ pricing' = [s \in DOMAIN pricing \cup {r} |->
                     IF s = r THEN FindMaxPrices(report) ELSE pricing[s]]
    /\ availableAZ' = [s \in DOMAIN pricing \cup {r} |->
                     IF s = r THEN report.available ELSE availableAZ[s]]
    /\ UNCHANGED asking

(* A region has answered, its zones and all the pages of its price history.    *)
Fetch(c, r, report) ==
    /\ c \in asking /\ r \in ManagedRegions \ DOMAIN fetched[c]
    /\ fetched' = [fetched EXCEPT ![c] =
                     [s \in DOMAIN @ \cup {r} |-> IF s = r THEN report ELSE @[s]]]
    /\ UNCHANGED <<asking, availableAZ, pricing>>

(* Both are replaced in one go once all regions have answered.                 *)
EndUpdate(c) ==
    /\ c \in asking /\ DOMAIN fetched[c] = ManagedRegions
    /\ availableAZ' = [r \in ManagedRegions |-> fetched[c][r].available]
    /\ pricing' = [r \in ManagedRegions |-> FindMaxPrices(fetched[c][r])]
    /\ asking' = asking \ {c}
    /\ fetched' = [fetched EXCEPT ![c] = Nothing]

(* The calls of `callers` are given up, at a request that fails or takes more  *)
(* than four minutes, or with the process.                                     *)
Forget(callers) ==
    /\ asking' = asking \ callers
    /\ fetched' = [c \in Caller |-> IF c \in callers THEN Nothing ELSE fetched[c]]

-----------------------------------------------------------------------------
PricingTypeOK ==
    /\ asking \subseteq Caller
    /\ \A c \in Caller : /\ DOMAIN fetched[c] \subseteq ManagedRegions
                         /\ \A r \in DOMAIN fetched[c] : fetched[c][r] \in Report
    /\ DOMAIN pricing \in {{}, ManagedRegions}
    /\ DOMAIN availableAZ = DOMAIN pricing
    /\ \A r \in DOMAIN pricing :
          availableAZ[r] \in SUBSET Zone /\ pricing[r] \in [Option -> Nat]

(* The highest price reported for an option in an available zone.              *)
HighestPrice(report, o) ==
    LET points == {i \in DOMAIN report.history : report.history[i].option = o}
    IN  IF points = {} \/ o[2] \notin report.available THEN NoPrice
        ELSE Max({report.history[i].price : i \in points})

(* Iterations that overlap bid by zones and prices of one and the same call of *)
(* update(), for all regions, and by the highest of the prices it got, however *)
(* the regions' answers to several calls mix and whatever their order in time. *)
PricesFromOneCall ==
    [][ /\ pricing' # pricing \/ availableAZ' # availableAZ
        /\ pricing' # Nothing
        =>
          \E c \in Caller :
              /\ DOMAIN fetched[c] = ManagedRegions
              /\ DOMAIN pricing' = ManagedRegions
              /\ \A r \in ManagedRegions :
                    /\ availableAZ'[r] = fetched[c][r].available
                    /\ \A o \in Option :
                          pricing'[r][o] = HighestPrice(fetched[c][r], o) ]_pricingVars
=============================================================================
