----------------------------- MODULE LaunchSpec -----------------------------
(* How a worker type's definition becomes the launch specification of an       *)
(* instance (lib/worker-type.js), and what is checked of a definition before   *)
(* it is stored and before it is bid for (lib/worker-type.js,                  *)
(* lib/aws-manager.js).                                                        *)
(*                                                                             *)
(* A definition has layers of EC2 parameters: a general one, and one for each  *)
(* region, availability zone and instance type it lists.  userData and secrets *)
(* go through the same cascade as launchSpec and no property tells them apart. *)
EXTENDS Integers, FiniteSets, Sequences

CONSTANTS
    Region, Zone, InstanceType,
    RegionOf,           \* the region EC2 has a zone in
    FallbackZone,       \* the zone "a" of a region, by name
    ManagedRegions,     \* regions with an EC2 client
    Value,              \* values of parameters
    Falsy,              \* those JavaScript takes for false
    Images,             \* the account: images that exist in a region
    SecurityGroups,     \* and its security groups
    Definitions         \* definitions a client may submit

ManagedKeys == {"KeyName", "InstanceType", "Placement", "UserData"}
AllowedKeys == ManagedKeys \cup {"ImageId", "SecurityGroups", "SubnetId"}
Key         == AllowedKeys \cup {"Unknown"}

IsLayer(f) == DOMAIN f \subseteq Key /\ f \in [DOMAIN f -> Value]

(* The parts of a definition that launching reads.                             *)
IsDefinition(d) ==
    /\ d = [launchSpec        |-> d.launchSpec,
            regions           |-> d.regions,
            availabilityZones |-> d.availabilityZones,
            instanceTypes     |-> d.instanceTypes]
    /\ IsLayer(d.launchSpec)
    /\ DOMAIN d.availabilityZones = 1 .. Len(d.availabilityZones)
    /\ \A i \in DOMAIN d.regions :
          d.regions[i].region \in Region /\ IsLayer(d.regions[i].launchSpec)
    /\ \A i \in DOMAIN d.availabilityZones :
          /\ d.availabilityZones[i].availabilityZone \in Zone
          /\ d.availabilityZones[i].region \in Region
          /\ IsLayer(d.availabilityZones[i].launchSpec)
    /\ \A i \in DOMAIN d.instanceTypes :
          /\ d.instanceTypes[i].instanceType \in InstanceType
          /\ d.instanceTypes[i].capacity \in Int
          /\ IsLayer(d.instanceTypes[i].launchSpec)

ASSUME LaunchSpecAssumption ==
    /\ RegionOf \in [Zone -> Region]
    /\ FallbackZone \in [Region -> Zone]
    /\ ManagedRegions \subseteq Region
    /\ Falsy \subseteq Value
    /\ \A d \in Definitions : IsDefinition(d)
    /\ Images \in [Region -> SUBSET Value]
    /\ SecurityGroups \in [Region -> SUBSET Value]

Bid == [region : Region, type : InstanceType, zone : Zone]

Given(layer, key) == key \in DOMAIN layer /\ layer[key] \notin Falsy

(* lodash.assign: what the source has wins.                                    *)
Assign(object, source) ==
    [key \in DOMAIN object \cup DOMAIN source |->
        IF key \in DOMAIN source THEN source[key] ELSE object[key]]

Unset == [key \in {} |-> 0]

-----------------------------------------------------------------------------
(* The entries of a definition that a bid selects, by position.                *)
RegionEntries(d, bid) == {i \in DOMAIN d.regions : d.regions[i].region = bid.region}
ZoneEntries(d, bid) ==
    {i \in DOMAIN d.availabilityZones :
        d.availabilityZones[i].availabilityZone = bid.zone}
TypeEntries(d, bid) ==
    {i \in DOMAIN d.instanceTypes : d.instanceTypes[i].instanceType = bid.type}

Unique(entries) == \A i, j \in entries : i = j
Chosen(entries) == CHOOSE i \in entries : TRUE

RegionLayer(d, bid) == d.regions[Chosen(RegionEntries(d, bid))].launchSpec
TypeLayer(d, bid)   == d.instanceTypes[Chosen(TypeEntries(d, bid))].launchSpec
ZoneLayer(d, bid) ==
    IF ZoneEntries(d, bid) = {} THEN Unset
    ELSE d.availabilityZones[Chosen(ZoneEntries(d, bid))].launchSpec

(* General, then region, then zone if it is listed, then instance type.        *)
Cascade(d, bid) ==
    Assign(Assign(Assign(d.launchSpec, RegionLayer(d, bid)), ZoneLayer(d, bid)),
           TypeLayer(d, bid))

(* The bid selects one region and one type, and one zone if any are listed.    *)
Selects(d, bid) ==
    /\ RegionEntries(d, bid) # {} /\ Unique(RegionEntries(d, bid))
    /\ Len(d.availabilityZones) # 0 => ZoneEntries(d, bid) # {}
    /\ Unique(ZoneEntries(d, bid))
    /\ TypeEntries(d, bid) # {} /\ Unique(TypeEntries(d, bid))

(* Keys stand in the layers they belong to.                                    *)
WellPlaced(d, bid) ==
    /\ Given(RegionLayer(d, bid), "ImageId")
    /\ ~Given(d.launchSpec, "InstanceType") /\ ~Given(RegionLayer(d, bid), "InstanceType")
    /\ ~Given(d.launchSpec, "ImageId") /\ ~Given(TypeLayer(d, bid), "ImageId")

(* The merged specification is one EC2 takes.                                  *)
WellFormed(spec) ==
    /\ ~Given(spec, "UserData")
    /\ Given(spec, "ImageId")
    /\ DOMAIN spec \subseteq AllowedKeys
    /\ ~(Given(spec, "SubnetId") /\ Given(spec, "SecurityGroups"))

(* createLaunchSpec does not throw.                                            *)
CanCreate(d, bid) ==
    /\ Selects(d, bid)
    /\ WellPlaced(d, bid)
    /\ WellFormed(Cascade(d, bid))
    /\ d.instanceTypes[Chosen(TypeEntries(d, bid))].capacity # 0

(* What it returns, KeyName, InstanceType, Placement and UserData apart, which *)
(* it overwrites with the bid's.                                               *)
CreateLaunchSpec(d, bid) ==
    LET spec == Cascade(d, bid)
    IN  [key \in DOMAIN spec \ ManagedKeys |-> spec[key]]

-----------------------------------------------------------------------------
(* The zones listed under a region's name, in their order.                     *)
ZonesListed(d, r) ==
    {d.availabilityZones[i].availabilityZone :
        i \in {j \in DOMAIN d.availabilityZones : d.availabilityZones[j].region = r}}

(* Mutant: only the zone "a" of each region is tested.                         *)
FallbackZonesTested(d, r) == {FallbackZone[r]}

ZonesTested(d, r) ==
    IF ZonesListed(d, r) = {} THEN {FallbackZone[r]} ELSE ZonesListed(d, r)

TypesListed(d)   == {d.instanceTypes[i].instanceType : i \in DOMAIN d.instanceTypes}
RegionsListed(d) == {d.regions[i].region : i \in DOMAIN d.regions}

TestBids(d) ==
    {bid \in Bid : /\ bid.region \in RegionsListed(d)
                   /\ bid.type \in TypesListed(d)
                   /\ bid.zone \in ZonesTested(d, bid.region)}

TestLaunchSpecs(d) == \A bid \in TestBids(d) : CanCreate(d, bid)

(* testLaunchSpecs returns one specification for a region and a type, that of  *)
(* the zone tested last.                                                       *)
LastZone(d, r) ==
    LET under == {i \in DOMAIN d.availabilityZones : d.availabilityZones[i].region = r}
    IN  IF under = {} THEN FallbackZone[r]
        ELSE d.availabilityZones[CHOOSE i \in under : \A j \in under : j <= i]
                .availabilityZone

(* amiExists and sgExists, for what a specification names.                     *)
AmiExists(r, image) == image \in Images[r]
SgExists(r, groups) == groups \in SecurityGroups[r]

InAccount(spec, r) ==
    /\ AmiExists(r, spec["ImageId"])
    /\ Given(spec, "SecurityGroups") => SgExists(r, spec["SecurityGroups"])

(* Mutant: the images of the first instance type stand for all.                *)
CanLaunchFirstType(d) ==
    /\ TestLaunchSpecs(d)
    /\ \A r \in RegionsListed(d) \cap ManagedRegions :
          d.instanceTypes # <<>> =>
              LET t == d.instanceTypes[1].instanceType
              IN  InAccount(CreateLaunchSpec(d, [region |-> r, type |-> t,
                                                 zone |-> LastZone(d, r)]),
                            r)

WorkerTypeCanLaunch(d) ==
    /\ TestLaunchSpecs(d)
    /\ \A r \in RegionsListed(d) \cap ManagedRegions, t \in TypesListed(d) :
          InAccount(CreateLaunchSpec(d, [region |-> r, type |-> t,
                                         zone |-> LastZone(d, r)]),
                    r)

(* Where determineSpotBids may bid, whatever the prices: in the zones listed   *)
(* under the region's name if there are any, and else in all zones of EC2's.   *)
BidsFor(d) ==
    {bid \in Bid :
        /\ bid.region \in RegionsListed(d) \cap ManagedRegions
        /\ bid.type \in TypesListed(d)
        /\ RegionOf[bid.zone] = bid.region
        /\ ZonesListed(d, bid.region) # {} =>
              bid.zone \in ZonesListed(d, bid.region)}

-----------------------------------------------------------------------------
(* A region's zone "a" is not listed under the name of another region.         *)
FallbackInPlace(d) ==
    \A r \in RegionsListed(d), i \in DOMAIN d.availabilityZones :
        d.availabilityZones[i].availabilityZone = FallbackZone[r] =>
            d.availabilityZones[i].region = r

(* Zones have nothing to say about what is looked up in the account.           *)
ZonesNeutral(d) ==
    \A i \in DOMAIN d.availabilityZones :
        {"ImageId", "SecurityGroups"} \cap
            DOMAIN d.availabilityZones[i].launchSpec = {}

(* What would be looked up for each bid is in the account.                     *)
FromChecked(d) ==
    FallbackInPlace(d) /\ ZonesNeutral(d) =>
        \A bid \in BidsFor(d) : InAccount(CreateLaunchSpec(d, bid), bid.region)
=============================================================================
