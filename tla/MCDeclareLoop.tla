---------------------------- MODULE MCDeclareLoop ----------------------------
(* A few definitions around the rules, two clients with a file each.           *)
EXTENDS DeclareLoop, Functions, TLC

MCRegionOf     == "r1a" :> "r1" @@ "r1b" :> "r1" @@ "r2a" :> "r2"
MCFallbackZone == "r1" :> "r1a" @@ "r2" :> "r2a"
MCImages       == "r1" :> {"ami1"} @@ "r2" :> {"ami2"}
MCGroups       == "r1" :> {"sg1"} @@ "r2" :> {"sg1"}

LOCAL Image(v)  == "ImageId" :> v
LOCAL Groups(v) == "SecurityGroups" :> v
LOCAL Typo      == "Unknown" :> "net"

LOCAL InRegion(r, layer) == [region |-> r, launchSpec |-> layer]
LOCAL InZone(z, r, layer) ==
    [availabilityZone |-> z, region |-> r, launchSpec |-> layer]
LOCAL OfType(t, n, layer) ==
    [instanceType |-> t, capacity |-> n, launchSpec |-> layer]

(* One region, no zones: bids in all of them.                                  *)
LOCAL Open ==
    [launchSpec |-> Unset, regions |-> <<InRegion("r1", Image("ami1"))>>,
     availabilityZones |-> <<>>, instanceTypes |-> <<OfType("t1", 1, Unset)>>]

(* Two regions, one of them managed, zones, one with a subnet of its own, and  *)
(* a capacity that is accepted for not being 0.                                *)
LOCAL Zoned ==
    [launchSpec |-> Unset,
     regions |-> <<InRegion("r1", Image("ami1")), InRegion("r2", Image("ami2"))>>,
     availabilityZones |-> <<InZone("r1a", "r1", Unset),
                             InZone("r1b", "r1", "SubnetId" :> "net"),
                             InZone("r2a", "r2", Unset)>>,
     instanceTypes |-> <<OfType("t1", 1, Unset), OfType("t2", -1, Unset)>>]

(* Wrong in one zone, in one type, in one region, or everywhere.               *)
LOCAL Wrong ==
    {[Zoned EXCEPT !.availabilityZones[2].launchSpec = Typo],
     [Zoned EXCEPT !.availabilityZones[3].region = "r1"],
     [Open EXCEPT !.instanceTypes = Append(@, OfType("t2", 2, Groups("sg2")))],
     [Zoned EXCEPT !.instanceTypes[1].capacity = 0],
     [Open EXCEPT !.instanceTypes[1].launchSpec = Image("")],
     [Open EXCEPT !.regions[1].launchSpec = Image("ami2")],
     [Open EXCEPT !.launchSpec = Image("ami1")]}

MCDefinitions == {Open, Zoned} \cup Wrong

LOCAL File(d, min, what) ==
    [definition |-> d, minCapacity |-> min, description |-> what]

MCOmitted == -1

LOCAL Good == <<File(Open, 0, "old"), File(Open, 0, "new"),
                File(Zoned, 1, "new"), File(Open, MCOmitted, "new")>>

MCBody == Range(Good) \cup {File(d, 0, "bad") : d \in Wrong}

(* Two that agree but for the description, two that differ, two of which one   *)
(* leaves the minimum out, or two wrong ones.                                  *)
MCFiles ==
    {"c1" :> Good[1] @@ "c2" :> Good[2], "c1" :> Good[1] @@ "c2" :> Good[3],
     "c1" :> Good[3] @@ "c2" :> Good[4]}
        \cup {"c1" :> b @@ "c2" :> b : b \in MCBody \ Range(Good)}
==============================================================================
