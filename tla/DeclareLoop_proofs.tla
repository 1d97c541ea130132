------------------------- MODULE DeclareLoop_proofs -------------------------
(* What the tests before a definition is stored are worth, for any regions,    *)
(* zones, definitions and numbers of callers.                                  *)
EXTENDS DeclareLoop, TLAPS

(* The zone "a" of a region, where a definition that lists no zones is tested, *)
(* stands for all of its zones, unless another region lists it: the test       *)
(* passes only if no zones are listed at all, and then no layer depends on the *)
(* zone.                                                                       *)
THEOREM TestsCoverBids ==
    ASSUME NEW d, IsDefinition(d), TestLaunchSpecs(d), FallbackInPlace(d),
           NEW bid \in BidsFor(d)
    PROVE  CanCreate(d, bid)
<1> DEFINE r == bid.region
<1>1. /\ bid \in Bid /\ r \in Region /\ r \in RegionsListed(d)
      /\ bid.type \in TypesListed(d)
      /\ bid.zone \in Zone /\ bid.type \in InstanceType
      /\ ZonesListed(d, r) # {} => bid.zone \in ZonesListed(d, r)
  BY DEF BidsFor, Bid
<1>2. CASE ZonesListed(d, r) # {}
  BY <1>1, <1>2 DEF TestLaunchSpecs, TestBids, ZonesTested
<1>3. CASE ZonesListed(d, r) = {}
  <2> DEFINE tested == [region |-> r, type |-> bid.type, zone |-> FallbackZone[r]]
  <2>1. tested \in Bid
    BY <1>1, LaunchSpecAssumption DEF Bid
  <2>2. tested \in TestBids(d)
    BY <1>1, <1>3, <2>1 DEF TestBids, ZonesTested
  <2>3. CanCreate(d, tested)
    BY <2>2 DEF TestLaunchSpecs
  <2>4. \A i \in DOMAIN d.availabilityZones :
           d.availabilityZones[i].availabilityZone # FallbackZone[r]
    <3>1. \A i \in DOMAIN d.availabilityZones : d.availabilityZones[i].region # r
      BY <1>3 DEF ZonesListed
    <3>2. QED
      BY <3>1, <1>1 DEF FallbackInPlace
  <2>5. Len(d.availabilityZones) = 0
    BY <2>3, <2>4 DEF CanCreate, Selects, ZoneEntries
  <2>6. DOMAIN d.availabilityZones = {}
    BY <2>5 DEF IsDefinition
  <2>7. ZoneEntries(d, bid) = {} /\ ZoneEntries(d, tested) = {}
    BY <2>6 DEF ZoneEntries
  <2>8. /\ RegionEntries(d, tested) = RegionEntries(d, bid)
        /\ TypeEntries(d, tested) = TypeEntries(d, bid)
    BY DEF RegionEntries, TypeEntries
  <2>9. /\ RegionLayer(d, tested) = RegionLayer(d, bid)
        /\ TypeLayer(d, tested) = TypeLayer(d, bid)
        /\ ZoneLayer(d, tested) = ZoneLayer(d, bid)
    BY <2>7, <2>8 DEF RegionLayer, TypeLayer, ZoneLayer
  <2>10. Cascade(d, tested) = Cascade(d, bid)
    BY <2>9 DEF Cascade
  <2>11. Selects(d, bid)
    BY <2>3, <2>5, <2>7, <2>8 DEF CanCreate, Selects
  <2>12. WellPlaced(d, bid)
    BY <2>3, <2>9 DEF CanCreate, WellPlaced
  <2>13. QED
    BY <2>3, <2>8, <2>10, <2>11, <2>12 DEF CanCreate
<1>4. QED
  BY <1>2, <1>3

(* A zone has no say in keys that no zone's layer gives.                       *)
LEMMA ZoneKeepsOut ==
    ASSUME NEW d, ZonesNeutral(d), NEW bid, NEW key \in {"ImageId", "SecurityGroups"}
    PROVE  key \notin DOMAIN ZoneLayer(d, bid)
<1>1. CASE ZoneEntries(d, bid) = {}
  BY <1>1 DEF ZoneLayer, Unset
<1>2. CASE ZoneEntries(d, bid) # {}
  <2>1. Chosen(ZoneEntries(d, bid)) \in ZoneEntries(d, bid)
    BY <1>2 DEF Chosen
  <2>2. Chosen(ZoneEntries(d, bid)) \in DOMAIN d.availabilityZones
    BY <2>1 DEF ZoneEntries
  <2>3. QED
    BY <1>2, <2>2 DEF ZoneLayer, ZonesNeutral
<1>3. QED
  BY <1>1, <1>2

LEMMA SameInAllZones ==
    ASSUME NEW d, ZonesNeutral(d),
           NEW a, NEW b, a.region = b.region, a.type = b.type,
           NEW key \in {"ImageId", "SecurityGroups"}
    PROVE  /\ key \in DOMAIN CreateLaunchSpec(d, a)
                  <=> key \in DOMAIN CreateLaunchSpec(d, b)
           /\ key \in DOMAIN CreateLaunchSpec(d, a) =>
                  CreateLaunchSpec(d, a)[key] = CreateLaunchSpec(d, b)[key]
<1>1. RegionLayer(d, a) = RegionLayer(d, b) /\ TypeLayer(d, a) = TypeLayer(d, b)
  <2>1. RegionEntries(d, a) = RegionEntries(d, b) /\ TypeEntries(d, a) = TypeEntries(d, b)
    BY DEF RegionEntries, TypeEntries
  <2>2. QED
    BY <2>1 DEF RegionLayer, TypeLayer
<1>2. key \notin DOMAIN ZoneLayer(d, a) /\ key \notin DOMAIN ZoneLayer(d, b)
  BY ZoneKeepsOut
<1> DEFINE inner == Assign(d.launchSpec, RegionLayer(d, a))
           type  == TypeLayer(d, a)
<1>3. ASSUME NEW zone, key \notin DOMAIN zone
      PROVE  LET spec == Assign(Assign(inner, zone), type)
             IN  /\ key \in DOMAIN spec <=> key \in DOMAIN inner \cup DOMAIN type
                 /\ key \in DOMAIN spec =>
                       spec[key] = IF key \in DOMAIN type THEN type[key] ELSE inner[key]
  <2> HIDE DEF inner, type
  <2>1. key \in DOMAIN Assign(inner, zone) <=> key \in DOMAIN inner
    BY <1>3 DEF Assign
  <2>2. key \in DOMAIN inner => Assign(inner, zone)[key] = inner[key]
    BY <1>3 DEF Assign
  <2> DEFINE middle == Assign(inner, zone)
  <2> HIDE DEF middle
  <2>3. LET spec == Assign(middle, type)
        IN  /\ key \in DOMAIN spec <=> key \in DOMAIN middle \cup DOMAIN type
            /\ key \in DOMAIN spec =>
                  spec[key] = IF key \in DOMAIN type THEN type[key] ELSE middle[key]
    BY DEF Assign
  <2>4. QED
    BY <2>1, <2>2, <2>3 DEF middle
<1>4. /\ Cascade(d, a) = Assign(Assign(inner, ZoneLayer(d, a)), type)
      /\ Cascade(d, b) = Assign(Assign(inner, ZoneLayer(d, b)), type)
  BY <1>1 DEF Cascade
<1> HIDE DEF inner, type
<1>5. /\ key \in DOMAIN Cascade(d, a) <=> key \in DOMAIN inner \cup DOMAIN type
      /\ key \in DOMAIN Cascade(d, a) =>
            Cascade(d, a)[key] = IF key \in DOMAIN type THEN type[key] ELSE inner[key]
  BY <1>2, <1>3, <1>4
<1>6. /\ key \in DOMAIN Cascade(d, b) <=> key \in DOMAIN inner \cup DOMAIN type
      /\ key \in DOMAIN Cascade(d, b) =>
            Cascade(d, b)[key] = IF key \in DOMAIN type THEN type[key] ELSE inner[key]
  BY <1>2, <1>3, <1>4
<1>7. key \notin ManagedKeys
  BY DEF ManagedKeys
<1>8. QED
  BY <1>5, <1>6, <1>7 DEF CreateLaunchSpec

(* A specification that can be created has an image.                           *)
LEMMA ImageGiven ==
    ASSUME NEW d, NEW bid, CanCreate(d, bid)
    PROVE  "ImageId" \in DOMAIN CreateLaunchSpec(d, bid)
BY DEF CanCreate, WellFormed, Given, CreateLaunchSpec, ManagedKeys

(* One look for each region and instance type, in the zone tested last, is a   *)
(* look for every bid, as long as zones have no image or groups of their own.  *)
THEOREM LooksCoverBids ==
    ASSUME NEW d, IsDefinition(d), WorkerTypeCanLaunch(d)
    PROVE  FromChecked(d)
<1> SUFFICES ASSUME FallbackInPlace(d), ZonesNeutral(d), NEW bid \in BidsFor(d)
             PROVE  InAccount(CreateLaunchSpec(d, bid), bid.region)
  BY DEF FromChecked
<1> DEFINE last == [region |-> bid.region, type |-> bid.type,
                    zone |-> LastZone(d, bid.region)]
           spec == CreateLaunchSpec(d, bid)
           seen == CreateLaunchSpec(d, last)
<1>1. bid.region \in RegionsListed(d) \cap ManagedRegions /\ bid.type \in TypesListed(d)
  BY DEF BidsFor
<1>2. InAccount(seen, bid.region)
  BY <1>1 DEF WorkerTypeCanLaunch
<1>3. "ImageId" \in DOMAIN spec
  BY TestsCoverBids, ImageGiven DEF WorkerTypeCanLaunch
<1>4. \A key \in {"ImageId", "SecurityGroups"} :
         /\ key \in DOMAIN spec <=> key \in DOMAIN seen
         /\ key \in DOMAIN spec => spec[key] = seen[key]
  BY SameInAllZones
<1> HIDE DEF spec, seen
<1>5. InAccount(spec, bid.region)
  BY <1>2, <1>3, <1>4 DEF InAccount, Given
<1>6. QED
  BY <1>5 DEF spec

-----------------------------------------------------------------------------
(* A call that is about to write has passed the test, and so has what is       *)
(* stored.                                                                     *)
Accepted(d) == d \in Definitions /\ WorkerTypeCanLaunch(d)

IInv ==
    /\ file \in [Client -> Body]
    /\ DOMAIN call = Client
    /\ \A c \in Client : "at" \in DOMAIN call[c]
    /\ \A c \in Client :
          call[c].at \in {"insert", "load", "modify"} =>
              Accepted(file[c].definition)
    /\ DOMAIN table = Name
    /\ \A n \in Name : table[n] # Absent => Accepted(table[n].definition)

LEMMA InitIInv == Init => IInv
<1> SUFFICES ASSUME Init PROVE IInv
  OBVIOUS
<1>1. file \in [Client -> Body]
  BY ApiAssumption DEF Init, ApiInit
<1>2. \A c \in Client : call[c] = NoCall
  BY DEF Init, ApiInit
<1>3. QED
  BY <1>1, <1>2 DEF Init, ApiInit, IInv, NoCall

(* Whatever the date and the minimum, the definition is the file's.            *)
LEMMA NewDefinition ==
    ASSUME IInv, NEW c \in Client
    PROVE  New(c).definition = file[c].definition
<1>1. file[c] = [definition |-> file[c].definition, minCapacity |-> file[c].minCapacity,
                 description |-> file[c].description]
  BY ApiAssumption DEF IInv
<1>2. "definition" \in DOMAIN file[c]
  BY <1>1
<1>3. QED
  BY <1>1, <1>2 DEF New, Assign

LEMMA ModifiedDefinition ==
    ASSUME IInv, NEW c \in Client, NEW old
    PROVE  Modified(c, old).definition = file[c].definition
<1>1. file[c] = [definition |-> file[c].definition, minCapacity |-> file[c].minCapacity,
                 description |-> file[c].description]
  BY ApiAssumption DEF IInv
<1>2. "definition" \in DOMAIN file[c]
  BY <1>1
<1>3. QED
  BY <1>1, <1>2 DEF Modified, Assign
(* A step that leaves the table or writes one definition that was accepted,    *)
(* and moves one call, on towards a write only if its file was accepted.       *)
LEMMA CallStep ==
    ASSUME IInv, UNCHANGED file,
           NEW n, NEW entity,
           table' = table \/ table' = [table EXCEPT ![n] = entity],
           entity # Absent => Accepted(entity.definition),
           NEW c \in Client, NEW new, call' = [call EXCEPT ![c] = new],
           "at" \in DOMAIN new,
           new.at \in {"insert", "load", "modify"} => Accepted(file[c].definition)
    PROVE  IInv'
<1>1. /\ DOMAIN call' = Client
      /\ \A b \in Client : call'[b] = IF b = c THEN new ELSE call[b]
  BY DEF IInv
<1>2. /\ DOMAIN table' = Name
      /\ \A m \in Name : table'[m] = table[m] \/ table'[m] = entity
  BY DEF IInv
<1>3. \A b \in Client : "at" \in DOMAIN call'[b]
  BY <1>1 DEF IInv
<1>4. \A b \in Client :
         call'[b].at \in {"insert", "load", "modify"} => Accepted(file[b].definition)
  BY <1>1 DEF IInv
<1>5. \A m \in Name : table'[m] # Absent => Accepted(table'[m].definition)
  BY <1>2 DEF IInv
<1>6. QED
  BY <1>1, <1>2, <1>3, <1>4, <1>5 DEF IInv, Accepted

(* The same, without a write.                                                  *)
LEMMA TableKept ==
    ASSUME IInv, UNCHANGED <<file, table>>,
           NEW c \in Client, NEW new, call' = [call EXCEPT ![c] = new],
           "at" \in DOMAIN new,
           new.at \in {"insert", "load", "modify"} => Accepted(file[c].definition)
    PROVE  IInv'
BY CallStep

LEMMA Quietly == ASSUME IInv, UNCHANGED <<file, table, call>> PROVE IInv'
BY DEF IInv, Accepted

LEMMA Answered ==
    ASSUME IInv, UNCHANGED <<file, table>>, NEW c \in Client,
           NEW status, NEW entity, Answer(c, status, entity)
    PROVE  IInv'
<1> DEFINE new == [at |-> "reply", status |-> status, entity |-> entity]
<1>1. "at" \in DOMAIN new /\ new.at = "reply"
  OBVIOUS
<1>2. call' = [call EXCEPT ![c] = new]
  BY DEF Answer
<1>3. QED
  BY <1>1, <1>2, TableKept

LEMMA Advanced ==
    ASSUME IInv, UNCHANGED <<file, table>>, NEW c \in Client,
           NEW at, Advance(c, at),
           at \in {"insert", "load", "modify"} => Accepted(file[c].definition)
    PROVE  IInv'
<1> DEFINE new == [call[c] EXCEPT !.at = at]
<1>1. "at" \in DOMAIN new /\ new.at = at
  BY DEF IInv
<1>2. call' = [call EXCEPT ![c] = new]
  BY DEF Advance
<1>3. QED
  BY <1>1, <1>2, TableKept

(* A call that wrote, or found, an entity goes on to publish it.               *)
LEMMA Publishing ==
    ASSUME IInv, NEW c \in Client, NEW entity,
           call' = [call EXCEPT ![c].at = "publish", ![c].entity = entity]
    PROVE  \E new : /\ call' = [call EXCEPT ![c] = new]
                    /\ "at" \in DOMAIN new /\ new.at = "publish"
<1> DEFINE new == [[call[c] EXCEPT !.at = "publish"] EXCEPT !.entity = entity]
<1>1. call' = [call EXCEPT ![c] = new]
  BY DEF IInv
<1>2. "at" \in DOMAIN new /\ new.at = "publish"
  BY DEF IInv
<1>3. QED
  BY <1>1, <1>2

(* Definitions are accepted before their calls come to be.                     *)
LEMMA ReceiveIInv ==
    ASSUME IInv, NEW c \in Client, NEW op \in Op, NEW n \in Name, NEW date \in Date,
           Receive(c, op, n, date)
    PROVE  IInv'
<1> DEFINE new == [op |-> op, name |-> n, date |-> date, entity |-> Absent,
                   at |-> CASE op = "create" -> "insert"
                            [] op = "update" -> "load"
                            [] op = "remove" -> "remove"]
<1>1. call' = [call EXCEPT ![c] = new] /\ UNCHANGED <<file, table>>
  BY DEF Receive
<1>2. "at" \in DOMAIN new
  OBVIOUS
<1>3. new.at \in {"insert", "load", "modify"} => op # "remove"
  BY DEF Op
<1>4. op # "remove" => Accepted(file[c].definition)
  BY ApiAssumption DEF Receive, IInv, Accepted
<1>5. QED
  BY <1>1, <1>2, <1>3, <1>4, TableKept

LEMMA ProceedIInv ==
    ASSUME IInv, NEW c \in Client, Proceed(c)
    PROVE  IInv'
<1>1. CASE Insert(c)
  <2> DEFINE n == call[c].name
  <2>1. Accepted(file[c].definition) /\ UNCHANGED file
    BY <1>1 DEF Insert, IInv
  <2>2. CASE Answer(c, "error", Absent) /\ UNCHANGED table
    BY <2>1, <2>2, Answered
  <2>3. CASE Advance(c, "load") /\ UNCHANGED table
    BY <2>1, <2>3, Advanced
  <2>4. CASE /\ Store(n, New(c))
             /\ call' = [call EXCEPT ![c].at = "publish", ![c].entity = New(c)]
    <3>1. Accepted(New(c).definition)
      BY <2>1, NewDefinition
    <3>2. PICK new : /\ call' = [call EXCEPT ![c] = new]
                     /\ "at" \in DOMAIN new /\ new.at = "publish"
      BY <2>4, Publishing
    <3>3. QED
      BY <2>1, <2>4, <3>1, <3>2, CallStep DEF Store
  <2>5. QED
    BY <1>1, <2>2, <2>3, <2>4 DEF Insert
<1>2. CASE Compare(c)
  <2>1. CASE \E status : Answer(c, status, Absent)
    BY <1>2, <2>1, Answered DEF Compare
  <2>2. CASE call' = [call EXCEPT ![c].at = "publish", ![c].entity = table[call[c].name]]
    <3>1. PICK new : /\ call' = [call EXCEPT ![c] = new]
                     /\ "at" \in DOMAIN new /\ new.at = "publish"
      BY <2>2, Publishing
    <3>2. QED
      BY <1>2, <3>1, TableKept DEF Compare
  <2>3. QED
    BY <1>2, <2>1, <2>2 DEF Compare
<1>3. CASE Load(c)
  <2>1. Accepted(file[c].definition) /\ UNCHANGED <<file, table>>
    BY <1>3 DEF Load, IInv
  <2>2. QED
    BY <1>3, <2>1, Answered, Advanced DEF Load
<1>4. CASE Modify(c)
  <2> DEFINE n == call[c].name
             e == Modified(c, table[n])
  <2>1. Accepted(file[c].definition) /\ UNCHANGED file
    BY <1>4 DEF Modify, IInv
  <2>2. CASE Answer(c, "error", Absent) /\ UNCHANGED table
    BY <2>1, <2>2, Answered
  <2>3. CASE /\ Store(n, e)
             /\ call' = [call EXCEPT ![c].at = "publish", ![c].entity = e]
    <3>1. Accepted(e.definition)
      BY <2>1, ModifiedDefinition
    <3>2. PICK new : /\ call' = [call EXCEPT ![c] = new]
                     /\ "at" \in DOMAIN new /\ new.at = "publish"
      BY <2>3, Publishing
    <3>3. QED
      BY <2>1, <2>3, <3>1, <3>2, CallStep DEF Store
  <2>4. QED
    BY <1>4, <2>2, <2>3 DEF Modify
<1>5. CASE Remove(c)
  <2> DEFINE new == [call[c] EXCEPT !.at = "publish"]
  <2>1. "at" \in DOMAIN new /\ new.at = "publish"
    BY DEF IInv
  <2>2. /\ call' = [call EXCEPT ![c] = new] /\ UNCHANGED file
        /\ table' = [table EXCEPT ![call[c].name] = Absent]
    BY <1>5 DEF Remove, Advance
  <2>3. QED
    BY <2>1, <2>2, CallStep
<1>6. CASE Publish(c)
  BY <1>6, Answered, Advanced DEF Publish
<1>7. CASE Declare(c)
  BY <1>7, Answered DEF Declare
<1>8. CASE Reply(c)
  <2>1. "at" \in DOMAIN NoCall /\ NoCall.at = "none"
    BY DEF NoCall
  <2>2. QED
    BY <1>8, <2>1, TableKept DEF Reply
<1>9. QED
  BY <1>1, <1>2, <1>3, <1>4, <1>5, <1>6, <1>7, <1>8 DEF Proceed

LEMMA CallFaultIInv ==
    ASSUME IInv, NEW c \in Client, CallFault(c)
    PROVE  IInv'
<1> DEFINE n   == call[c].name
           new == [at |-> "reply", status |-> "error", entity |-> Absent]
<1>1. /\ call' = [call EXCEPT ![c] = new] /\ UNCHANGED file
      /\ "at" \in DOMAIN new /\ new.at = "reply"
  BY DEF CallFault, Answer
<1>2. CASE UNCHANGED table
  BY <1>1, <1>2, TableKept
<1>3. CASE call[c].at = "insert" /\ Store(n, New(c))
  <2>1. Accepted(New(c).definition)
    BY <1>3, NewDefinition DEF IInv
  <2>2. QED
    BY <1>1, <1>3, <2>1, CallStep DEF Store
<1>4. CASE call[c].at = "modify" /\ Store(n, Modified(c, table[n]))
  <2>1. Accepted(Modified(c, table[n]).definition)
    BY <1>4, ModifiedDefinition DEF IInv
  <2>2. QED
    BY <1>1, <1>4, <2>1, CallStep DEF Store
<1>5. CASE table' = [table EXCEPT ![n] = Absent]
  BY <1>1, <1>5, CallStep
<1>6. QED
  BY <1>2, <1>3, <1>4, <1>5 DEF CallFault

LEMMA NextIInv == IInv /\ [Next]_vars => IInv'
<1> SUFFICES ASSUME IInv, [Next]_vars PROVE IInv'
  OBVIOUS
<1>1. CASE ApiNext
  <2>1. ASSUME NEW c \in Client, Reject(c) PROVE IInv'
    BY <2>1, Answered DEF Reject
  <2>2. QED
    BY <1>1, <2>1, ReceiveIInv, ProceedIInv, CallFaultIInv DEF ApiNext
<1>2. CASE Loop
  BY <1>2, Quietly DEF Loop, StartRound, RoundDone, Scan, SendLands, apiVars
<1>3. CASE RoundFault
  BY <1>3, Quietly DEF RoundFault
<1>4. CASE Crash
  BY <1>4, Quietly DEF Crash
<1>5. CASE Tick
  BY <1>5, Quietly DEF Tick
<1>6. CASE UNCHANGED vars
  BY <1>6, Quietly DEF vars, apiVars
<1>7. QED
  BY <1>1, <1>2, <1>3, <1>4, <1>5, <1>6 DEF Next

(* Whatever calls interleave and fail, each bid for a stored definition has a  *)
(* launch specification, unless (FallbackInPlace) a region's zone "a" is listed *)
(* under another region.                                                       *)
THEOREM StoredDefinitionsLaunch == Spec => []StoredLaunches
<1>1. IInv => StoredLaunches
  <2> SUFFICES ASSUME IInv, NEW n \in Name, table[n] # Absent,
                      FallbackInPlace(table[n].definition),
                      NEW bid \in BidsFor(table[n].definition)
               PROVE  CanCreate(table[n].definition, bid)
    BY DEF StoredLaunches
  <2>1. Accepted(table[n].definition)
    BY DEF IInv
  <2>2. /\ IsDefinition(table[n].definition)
        /\ TestLaunchSpecs(table[n].definition)
    BY <2>1, LaunchSpecAssumption DEF Accepted, WorkerTypeCanLaunch
  <2>3. QED
    BY <2>2, TestsCoverBids
<1>2. QED
  BY <1>1, InitIInv, NextIInv, PTL DEF Spec

(* Whatever calls interleave and fail, what is stored was looked up in the     *)
(* account for every bid, unless (ZonesNeutral) a zone has an image or groups  *)
(* of its own or a region's zone "a" is listed under another region.           *)
THEOREM StoredDefinitionsChecked == Spec => []StoredFromChecked
<1>1. IInv => StoredFromChecked
  BY LaunchSpecAssumption, LooksCoverBids DEF IInv, StoredFromChecked, Accepted
<1>2. QED
  BY <1>1, InitIInv, NextIInv, PTL DEF Spec

-----------------------------------------------------------------------------
(* What a call may be: how far it is follows from what it does.                *)
Pending ==
    [op : Op, name : Name, date : Date, entity : Entity \cup {Absent}, at : Await]
Answers ==
    [at : {"reply"}, status : {"ok", "conflict", "error"}, entity : Entity \cup {Absent}]

InOrder(k) ==
    /\ k.at = "insert"  => k.op = "create"
    /\ k.at = "load"    => k.op \in {"create", "update"}
    /\ k.at = "modify"  => k.op = "update"
    /\ k.at = "remove"  => k.op = "remove"
    /\ k.at = "declare" => k.op # "remove"
    /\ k.op = "remove"  => k.entity = Absent
    /\ k.at \in {"publish", "declare"} /\ k.op # "remove" => k.entity \in Entity

CallOK(k) ==
    \/ k = NoCall
    \/ k \in Answers
    \/ k \in Pending /\ InOrder(k)

QueueEntry == [description : {b.description : b \in Body} \cup {""}, left : 0 .. Lifetime]

TypeInv ==
    /\ file \in [Client -> Body]
    /\ table \in [Name -> Entity \cup {Absent}]
    /\ DOMAIN call = Client
    /\ \A c \in Client : CallOK(call[c])
    /\ queue \in [Name -> QueueEntry]
    /\ calls \in 0 .. MaxCalls /\ faults \in 0 .. MaxFaults /\ failed \in BOOLEAN
    /\ wait \in 0 .. Period
    /\ round \in {"none", "scanning"} /\ unread \subseteq Name
    /\ sends \subseteq [name : Name, entity : Entity]

(* A call's place tells what it is.                                            *)
LEMMA CallKinds ==
    ASSUME TypeInv, NEW c \in Client
    PROVE  /\ call[c].at = "none" <=> call[c] = NoCall
           /\ call[c].at = "reply" <=> call[c] \in Answers
           /\ call[c].at \in Await => /\ call[c] \in Pending /\ InOrder(call[c])
                                    
           /\ call[c].at \in Await \cup {"none", "reply"}
BY DEF TypeInv, CallOK, NoCall, Answers, Pending, Await

(* The entities that calls store.                                              *)
LEMMA FileShape ==
    ASSUME TypeInv, NEW c \in Client
    PROVE  /\ file[c] = [definition |-> file[c].definition, minCapacity |-> file[c].minCapacity,
                         description |-> file[c].description]
           /\ file[c] \in Body /\ file[c].definition \in Definitions
           /\ DOMAIN file[c] = {"definition", "minCapacity", "description"}
<1>1. file[c] \in Body
  BY DEF TypeInv
<1>2. /\ file[c] = [definition |-> file[c].definition, minCapacity |-> file[c].minCapacity,
                    description |-> file[c].description]
      /\ file[c].definition \in Definitions
  BY <1>1, ApiAssumption
<1>3. QED
  BY <1>1, <1>2

LEMMA AssignDate ==
    ASSUME NEW a, NEW b, NEW e, NEW date
    PROVE  Assign([definition |-> a, minCapacity |-> b, description |-> e],
                  [lastModified |-> date])
             = [definition |-> a, minCapacity |-> b, description |-> e,
                lastModified |-> date]
BY DEF Assign

LEMMA NewIs ==
    ASSUME TypeInv, NEW c \in Client
    PROVE  New(c) = [definition   |-> file[c].definition,
                     minCapacity  |-> file[c].minCapacity,
                     description  |-> file[c].description,
                     lastModified |-> call[c].date]
<1> PICK a, b, e : file[c] = [definition |-> a, minCapacity |-> b, description |-> e]
  BY FileShape
<1>1. New(c) = [definition |-> a, minCapacity |-> b, description |-> e,
                lastModified |-> call[c].date]
  BY AssignDate DEF New
<1>2. QED
  BY <1>1

LEMMA ModifiedIs ==
    ASSUME TypeInv, NEW c \in Client, NEW old
    PROVE  Modified(c, old)
             = [definition   |-> file[c].definition,
                minCapacity  |-> IF file[c].minCapacity = Omitted THEN old.minCapacity
                                 ELSE file[c].minCapacity,
                description  |-> file[c].description,
                lastModified |-> call[c].date]
<1> PICK a, b, e : file[c] = [definition |-> a, minCapacity |-> b, description |-> e]
  BY FileShape
<1> DEFINE min == IF b = Omitted THEN old.minCapacity ELSE b
<1>1. [file[c] EXCEPT !.minCapacity = IF @ = Omitted THEN old.minCapacity ELSE @]
        = [definition |-> a, minCapacity |-> min, description |-> e]
  OBVIOUS
<1>2. Modified(c, old) = [definition |-> a, minCapacity |-> min, description |-> e,
                          lastModified |-> call[c].date]
  BY <1>1, AssignDate DEF Modified
<1>3. QED
  BY <1>2

LEMMA StoredEntities ==
    ASSUME TypeInv, NEW c \in Client, call[c].at \in Await
    PROVE  /\ New(c) \in Entity
           /\ \A old \in Entity : Modified(c, old) \in Entity
<1>1. call[c].date \in Date
  BY CallKinds DEF Pending
<1>2. /\ file[c].definition \in Definitions
      /\ file[c].minCapacity \in {b.minCapacity : b \in Body}
      /\ file[c].description \in {b.description : b \in Body}
  BY FileShape
<1>3. New(c) \in Entity
  BY <1>1, <1>2, NewIs DEF Entity
<1>4. ASSUME NEW old \in Entity PROVE Modified(c, old) \in Entity
  <2>1. old.minCapacity \in {b.minCapacity : b \in Body}
    BY DEF Entity
  <2>2. QED
    BY <1>1, <1>2, <2>1, ModifiedIs DEF Entity
<1>5. QED
  BY <1>3, <1>4

LEMMA EntityPresent == \A e \in Entity : e # Absent
<1> SUFFICES ASSUME NEW e \in Entity, e = Absent PROVE FALSE
  OBVIOUS
<1>1. e.lastModified \in Date /\ 0 \notin Date /\ Absent.lastModified = 0
  BY ApiAssumption DEF Entity, Absent
<1>2. QED
  BY <1>1

LEMMA DeclarationTyped ==
    ASSUME NEW e \in Entity
    PROVE  Declaration(e) \in QueueEntry /\ Declaration(e).left = Lifetime
<1> DEFINE D == {b.description : b \in Body} \cup {""}
<1>1. e.description \in D
  BY DEF Entity
<1>2. Declaration(e) = [description |-> e.description, left |-> Lifetime]
  BY DEF Declaration
<1>3. QueueEntry = [description : D, left : 0 .. Lifetime] /\ Lifetime \in 0 .. Lifetime
  BY ApiAssumption DEF QueueEntry
<1> HIDE DEF D
<1>4. QED
  BY <1>1, <1>2, <1>3

LEMMA UnknownTyped == Unknown \in QueueEntry
<1> DEFINE D == {b.description : b \in Body} \cup {""}
<1>1. Unknown.description \in D /\ Unknown.left \in 0 .. Lifetime
  BY ApiAssumption DEF Unknown
<1>2. Unknown = [description |-> Unknown.description, left |-> Unknown.left]
  BY DEF Unknown
<1>3. QueueEntry = [description : D, left : 0 .. Lifetime]
  BY DEF QueueEntry
<1> HIDE DEF D
<1>4. QED
  BY <1>1, <1>2, <1>3

LEMMA AgedTyped ==
    ASSUME NEW q \in QueueEntry, ~(q.left <= 1)
    PROVE  [q EXCEPT !.left = @ - 1] \in QueueEntry /\ q.left - 1 > 0
<1> DEFINE D == {b.description : b \in Body} \cup {""}
<1>1. QueueEntry = [description : D, left : 0 .. Lifetime] /\ Lifetime \in Nat
  BY ApiAssumption DEF QueueEntry
<1> HIDE DEF D
<1>2. q.description \in D /\ q.left \in 0 .. Lifetime /\ q.left - 1 \in 0 .. Lifetime
      /\ q.left - 1 > 0
  BY <1>1
<1>3. [q EXCEPT !.left = @ - 1] = [description |-> q.description, left |-> q.left - 1]
  BY <1>1
<1>4. QED
  BY <1>1, <1>2, <1>3

(* A step of a call: it is moved to a place of its kind, and what it writes is *)
(* of the right type.                                                          *)
LEMMA CallStepTyped ==
    ASSUME TypeInv, UNCHANGED <<file, loopVars>>,
           NEW c \in Client, NEW new, call' = [call EXCEPT ![c] = new],
           calls' \in 0 .. MaxCalls, CallOK(new),
           table' \in [Name -> Entity \cup {Absent}],
           queue' \in [Name -> QueueEntry],
           faults' \in 0 .. MaxFaults, failed' \in BOOLEAN
    PROVE  TypeInv'
<1>1. /\ DOMAIN call' = Client
      /\ \A b \in Client : call'[b] = IF b = c THEN new ELSE call[b]
  BY DEF TypeInv
<1>2. \A b \in Client : CallOK(call'[b])
  BY <1>1 DEF TypeInv
<1>3. QED
  BY <1>1, <1>2 DEF TypeInv, loopVars

(* The same, for a step that moves the call and nothing else.                  *)
LEMMA MoveTyped ==
    ASSUME TypeInv, UNCHANGED <<file, table, queue, calls, faults, failed, loopVars>>,
           NEW c \in Client, NEW new, call' = [call EXCEPT ![c] = new], CallOK(new)
    PROVE  TypeInv'
BY CallStepTyped DEF TypeInv

LEMMA AnswerTyped ==
    ASSUME NEW status \in {"ok", "conflict", "error"}, NEW e \in Entity \cup {Absent}
    PROVE  CallOK([at |-> "reply", status |-> status, entity |-> e])
BY DEF CallOK, Answers

LEMMA AdvanceTyped ==
    ASSUME TypeInv, NEW c \in Client, call[c].at \in Await, NEW at \in Await,
           NEW e \in Entity \cup {Absent},
           InOrder([[call[c] EXCEPT !.at = at] EXCEPT !.entity = e])
    PROVE  CallOK([[call[c] EXCEPT !.at = at] EXCEPT !.entity = e])
<1>1. call[c] \in Pending
  BY CallKinds
<1>2. QED
  BY <1>1 DEF CallOK, Pending

LEMMA ReceiveTyped ==
    ASSUME TypeInv, UNCHANGED loopVars,
           NEW c \in Client, NEW op \in Op, NEW n \in Name, NEW date \in Date,
           Receive(c, op, n, date)
    PROVE  TypeInv'
<1> DEFINE at  == CASE op = "create" -> "insert"
                    [] op = "update" -> "load"
                    [] op = "remove" -> "remove"
           new == [op |-> op, name |-> n, date |-> date, entity |-> Absent, at |-> at]
<1>1. /\ call' = [call EXCEPT ![c] = new] /\ calls' = calls + 1 /\ calls < MaxCalls
      /\ UNCHANGED <<file, table, queue, faults, failed>>
  BY DEF Receive
<1>2. calls \in Nat /\ calls' \in 1 .. MaxCalls
  BY <1>1, ApiAssumption DEF TypeInv
<1>3. at \in Await /\ (at = "insert" <=> op = "create") /\ (at = "load" <=> op = "update")
      /\ (at = "remove" <=> op = "remove") /\ at \notin {"modify", "publish", "declare"}
  BY DEF Op, Await
<1> HIDE DEF at
<1>4. new \in Pending /\ InOrder(new)
  BY <1>1, <1>3 DEF Pending, InOrder
<1>5. CallOK(new)
  BY <1>4 DEF CallOK
<1> HIDE DEF new
<1>6. /\ calls' \in 0 .. MaxCalls /\ faults' \in 0 .. MaxFaults /\ failed' \in BOOLEAN
      /\ table' \in [Name -> Entity \cup {Absent}]
      /\ queue' \in [Name -> QueueEntry] /\ UNCHANGED file
  BY <1>1, <1>2 DEF TypeInv
<1>7. QED
  BY <1>1, <1>5, <1>6, CallStepTyped

LEMMA ProceedTyped ==
    ASSUME TypeInv, UNCHANGED loopVars, NEW c \in Client, Proceed(c)
    PROVE  TypeInv'
<1> DEFINE n == call[c].name
           At(at) == [call[c] EXCEPT !.at = at]
           Holding(at, e) == [[call[c] EXCEPT !.at = at] EXCEPT !.entity = e]
<1>1. call[c].at \in Await =>
         /\ call[c] \in Pending /\ InOrder(call[c])
         /\ n \in Name /\ table[n] \in Entity \cup {Absent}
  BY CallKinds DEF TypeInv, Pending
<1>2. ASSUME call[c].at \in Await, NEW status \in {"ok", "conflict", "error"},
             NEW e \in Entity \cup {Absent}, Answer(c, status, e),
             UNCHANGED <<file, table, queue, calls, faults, failed>>
      PROVE  TypeInv'
  BY <1>2, AnswerTyped, MoveTyped DEF Answer
<1>3. ASSUME call[c].at \in Await, NEW at \in Await, Advance(c, at),
             InOrder(At(at)),
             UNCHANGED <<file, table, queue, calls, faults, failed>>
      PROVE  TypeInv'
  <2>1. CallOK(At(at))
    BY <1>1, <1>3 DEF CallOK, Pending
  <2>2. QED
    BY <1>3, <2>1, MoveTyped DEF Advance
<1>4. ASSUME call[c].at \in Await, NEW e \in Entity, InOrder(Holding("publish", e)),
             call' = [call EXCEPT ![c].at = "publish", ![c].entity = e],
             \/ UNCHANGED table
             \/ Store(n, e),
             UNCHANGED <<file, queue, calls, faults, failed>>
      PROVE  TypeInv'
  <2>1. PICK k : k = Holding("publish", e)
    OBVIOUS
  <2>2. call' = [call EXCEPT ![c] = k]
    BY <1>4, <2>1 DEF TypeInv
  <2>3. CallOK(k)
    BY <1>4, <2>1, AdvanceTyped DEF Await
  <2>4. CallOK(k) /\ calls' \in 0 .. MaxCalls
    BY <1>4, <2>3, ApiAssumption DEF CallOK, TypeInv
  <2>5. table' \in [Name -> Entity \cup {Absent}]
    BY <1>1, <1>4 DEF TypeInv, Store
  <2>6. QED
    BY <1>4, <2>2, <2>4, <2>5, CallStepTyped DEF TypeInv
<1>5. CASE Insert(c)
  <2> USE <1>5 DEF Insert
  <2>1. call[c].at \in Await /\ call[c].op = "create"
    BY <1>1 DEF Await, InOrder
  <2>2. CASE Answer(c, "error", Absent) /\ UNCHANGED table
    BY <1>2, <2>1, <2>2
  <2>3. CASE Store(n, New(c)) /\ call' = [call EXCEPT ![c].at = "publish", ![c].entity = New(c)]
    <3>1. InOrder(Holding("publish", New(c)))
      BY <1>1, <2>1, StoredEntities DEF InOrder, Pending
    <3>2. QED
      BY <1>4, <2>1, <2>3, <3>1, StoredEntities
  <2>4. CASE Advance(c, "load") /\ UNCHANGED table
    <3>1. InOrder(At("load")) /\ "load" \in Await
      BY <1>1, <2>1 DEF InOrder, Pending, Await
    <3>2. QED
      BY <1>3, <2>1, <2>4, <3>1
  <2>5. QED
    BY <2>2, <2>3, <2>4
<1>6. CASE Compare(c)
  <2> USE <1>6 DEF Compare
  <2>1. call[c].at \in Await /\ call[c].op = "create"
    BY DEF Await
  <2>2. CASE \E status \in {"error", "conflict"} : Answer(c, status, Absent)
    BY <1>2, <2>1, <2>2
  <2>3. CASE /\ table[n] # Absent
             /\ call' = [call EXCEPT ![c].at = "publish", ![c].entity = table[n]]
    <3>1. InOrder(Holding("publish", table[n])) /\ table[n] \in Entity
      BY <1>1, <2>1, <2>3 DEF InOrder, Pending
    <3>2. QED
      BY <1>4, <2>1, <2>3, <3>1
  <2>4. QED
    BY <2>2, <2>3
<1>7. CASE Load(c)
  <2> USE <1>7 DEF Load
  <2>1. call[c].at \in Await /\ InOrder(At("modify")) /\ "modify" \in Await
    BY <1>1 DEF Await, InOrder, Pending
  <2>2. QED
    BY <1>2, <1>3, <2>1
<1>8. CASE Modify(c)
  <2> USE <1>8 DEF Modify
  <2>1. call[c].at \in Await /\ call[c].op = "update"
    BY <1>1 DEF Await, InOrder
  <2>2. CASE Answer(c, "error", Absent) /\ UNCHANGED table
    BY <1>2, <2>1, <2>2
  <2>3. CASE /\ table[n] # Absent /\ Store(n, Modified(c, table[n]))
             /\ call' = [call EXCEPT ![c].at = "publish", ![c].entity = Modified(c, table[n])]
    <3>1. Modified(c, table[n]) \in Entity
      BY <1>1, <2>1, <2>3, StoredEntities
    <3>2. InOrder(Holding("publish", Modified(c, table[n])))
      BY <1>1, <2>1, <3>1 DEF InOrder, Pending
    <3>3. QED
      BY <1>4, <2>1, <2>3, <3>1, <3>2
  <2>4. QED
    BY <2>2, <2>3
<1>9. CASE Remove(c)
  <2> USE <1>9 DEF Remove
  <2>1. call[c].at \in Await /\ call[c].op = "remove"
    BY <1>1 DEF Await, InOrder
  <2>2. PICK k : k = At("publish")
    OBVIOUS
  <2>3. CallOK(k) /\ call' = [call EXCEPT ![c] = k]
    BY <1>1, <2>1, <2>2 DEF CallOK, Pending, InOrder, Await, Advance
  <2>4. CallOK(k) /\ calls' \in 0 .. MaxCalls
    BY <2>3, ApiAssumption DEF CallOK, TypeInv
  <2>5. table' \in [Name -> Entity \cup {Absent}]
    BY DEF TypeInv
  <2>6. QED
    BY <2>3, <2>4, <2>5, CallStepTyped DEF TypeInv
<1>10. CASE Publish(c)
  <2> USE <1>10 DEF Publish
  <2>1. call[c].at \in Await
    BY DEF Await
  <2>2. call[c].op # "remove" => InOrder(At("declare")) /\ "declare" \in Await
    BY <1>1, <2>1 DEF Await, InOrder, Pending
  <2>3. QED
    BY <1>2, <1>3, <2>1, <2>2
<1>11. CASE Declare(c)
  <2> USE <1>11 DEF Declare
  <2>1. call[c].at \in Await /\ call[c].entity \in Entity
    BY <1>1 DEF Await, InOrder
  <2>2. PICK k : k = [at |-> "reply", status |-> "ok", entity |-> call[c].entity]
    OBVIOUS
  <2>3. CallOK(k) /\ call' = [call EXCEPT ![c] = k]
    BY <2>1, <2>2, AnswerTyped DEF Answer
  <2>4. CallOK(k) /\ calls' \in 0 .. MaxCalls
    BY <2>3, ApiAssumption DEF CallOK, TypeInv
  <2>5. queue' \in [Name -> QueueEntry]
    BY <1>1, <2>1, DeclarationTyped DEF TypeInv
  <2>6. QED
    BY <2>3, <2>4, <2>5, CallStepTyped DEF TypeInv
<1>12. CASE Reply(c)
  <2>1. CallOK(NoCall)
    BY DEF CallOK
  <2>2. QED
    BY <1>12, <2>1, MoveTyped DEF Reply
<1>13. QED
  BY <1>5, <1>6, <1>7, <1>8, <1>9, <1>10, <1>11, <1>12 DEF Proceed


LEMMA CallFaultTyped ==
    ASSUME TypeInv, UNCHANGED loopVars, NEW c \in Client, CallFault(c)
    PROVE  TypeInv'
<1> DEFINE n == call[c].name
<1> PICK k : k = [at |-> "reply", status |-> "error", entity |-> Absent]
  OBVIOUS
<1>1. /\ call' = [call EXCEPT ![c] = k] /\ call[c].at \in Await /\ failed' = TRUE
      /\ faults < MaxFaults /\ faults' = faults + 1 /\ UNCHANGED <<file, calls>>
  BY DEF CallFault, Answer, Fault
<1>2. CallOK(k) /\ calls' \in 0 .. MaxCalls
  BY <1>1, AnswerTyped, ApiAssumption DEF CallOK, TypeInv
<1>3. faults' \in 0 .. MaxFaults /\ failed' \in BOOLEAN
  BY <1>1, ApiAssumption DEF TypeInv
<1>4. n \in Name /\ InOrder(call[c]) /\ table[n] \in Entity \cup {Absent}
  BY <1>1, CallKinds DEF Pending, TypeInv
<1>5. /\ table' \in [Name -> Entity \cup {Absent}]
      /\ queue' \in [Name -> QueueEntry]
  <2>1. CASE UNCHANGED <<table, queue>>
    BY <2>1 DEF TypeInv
  <2>2. CASE \E e \in Entity : Store(n, e) /\ UNCHANGED queue
    BY <1>4, <2>2 DEF TypeInv, Store
  <2>3. CASE table' = [table EXCEPT ![n] = Absent] /\ UNCHANGED queue
    BY <2>3 DEF TypeInv
  <2>4. CASE /\ call[c].at = "declare" /\ UNCHANGED table
             /\ queue' = [queue EXCEPT ![n] = Declaration(call[c].entity)]
    <3>1. call[c].entity \in Entity
      BY <1>4, <2>4 DEF InOrder
    <3>2. QED
      BY <2>4, <3>1, DeclarationTyped DEF TypeInv
  <2>5. QED
    BY <1>1, <1>4, <2>1, <2>2, <2>3, <2>4, StoredEntities DEF CallFault
<1>6. QED
  BY <1>1, <1>2, <1>3, <1>5, CallStepTyped

LEMMA LoopTyped ==
    ASSUME TypeInv, Loop \/ RoundFault \/ Crash \/ Tick \/ UNCHANGED vars
    PROVE  TypeInv'
<1> DEFINE Calm == UNCHANGED <<file, table, call, calls>>
<1>1. Calm /\ \A c \in Client : CallOK(call'[c])
  BY DEF Loop, StartRound, RoundDone, Scan, SendLands, RoundFault, Crash, Tick, vars,
         apiVars, CallOK, TypeInv
<1>2. /\ faults' \in 0 .. MaxFaults /\ failed' \in BOOLEAN
  <2>1. faults' = faults \/ (faults < MaxFaults /\ faults' = faults + 1)
    BY DEF Loop, StartRound, RoundDone, Scan, SendLands, RoundFault, Crash, Tick, vars,
        apiVars, Fault
  <2>2. failed' = failed \/ failed' = TRUE
    BY DEF Loop, StartRound, RoundDone, Scan, SendLands, RoundFault, Crash, Tick, vars,
        apiVars
  <2>3. faults' \in 0 .. MaxFaults
    BY <2>1, ApiAssumption DEF TypeInv
  <2>4. failed' \in BOOLEAN
    BY <2>2 DEF TypeInv
  <2>5. QED
    BY <2>3, <2>4
<1>3. wait' \in 0 .. Period /\ round' \in {"none", "scanning"}
  BY PeriodAssumption
  DEF Loop, StartRound, RoundDone, Scan, SendLands, RoundFault, Crash, Tick, vars,
      loopVars, EndRound, TypeInv
<1>4. unread' \subseteq Name
  BY DEF Loop, StartRound, RoundDone, Scan, SendLands, RoundFault, Crash, Tick, vars,
      loopVars, EndRound, TypeInv
<1>5. sends' \subseteq [name : Name, entity : Entity]
  <2>1. \A n \in Name : table[n] # Absent =>
           [name |-> n, entity |-> table[n]] \in [name : Name, entity : Entity]
    BY DEF TypeInv
  <2>2. ASSUME NEW n \in Name, Scan(n) PROVE sends' \subseteq [name : Name, entity : Entity]
    BY <2>1, <2>2 DEF Scan, TypeInv
  <2>3. QED
    BY <2>2 DEF Loop, StartRound, RoundDone, SendLands, RoundFault, Crash, Tick, vars,
         loopVars, TypeInv
<1>6. queue' \in [Name -> QueueEntry]
  <2>1. ASSUME NEW s \in sends, Land(s) PROVE queue' \in [Name -> QueueEntry]
    BY <2>1, DeclarationTyped DEF Land, TypeInv
  <2>2. CASE Tick
    BY <2>2, UnknownTyped, AgedTyped DEF Tick, TypeInv
  <2>3. QED
    BY <2>1, <2>2 DEF Loop, StartRound, RoundDone, Scan, SendLands, RoundFault, Crash,
         vars, apiVars, TypeInv
<1>7. QED
  BY <1>1, <1>2, <1>3, <1>4, <1>5, <1>6 DEF TypeInv

LEMMA InitTyped == Init => TypeInv
<1> SUFFICES ASSUME Init PROVE TypeInv
  OBVIOUS
<1>2. queue \in [Name -> QueueEntry]
  BY UnknownTyped DEF Init, ApiInit
<1>3. file \in [Client -> Body]
  BY ApiAssumption DEF Init, ApiInit
<1>4. calls \in 0 .. MaxCalls /\ faults \in 0 .. MaxFaults /\ wait \in 0 .. Period
  BY ApiAssumption, PeriodAssumption DEF Init, ApiInit
<1>5. failed \in BOOLEAN
  BY DEF Init, ApiInit
<1>6. QED
  BY <1>2, <1>3, <1>4, <1>5 DEF Init, ApiInit, TypeInv, CallOK

LEMMA NextTyped == TypeInv /\ [Next]_vars => TypeInv'
<1> SUFFICES ASSUME TypeInv, [Next]_vars PROVE TypeInv'
  OBVIOUS
<1>1. CASE ApiNext /\ UNCHANGED loopVars
  <2>1. ASSUME NEW c \in Client, Reject(c) PROVE TypeInv'
    BY <1>1, <2>1, AnswerTyped, MoveTyped DEF Reject, Answer
  <2>2. QED
    BY <1>1, <2>1, ReceiveTyped, ProceedTyped, CallFaultTyped DEF ApiNext
<1>2. CASE Loop \/ RoundFault \/ Crash \/ Tick \/ UNCHANGED vars
  BY <1>2, LoopTyped
<1>3. QED
  BY <1>1, <1>2 DEF Next

LEMMA TypeInvariance == Spec => []TypeInv
BY InitTyped, NextTyped, PTL DEF Spec

(* Calls, table, queue and declarations are always of the right types.         *)
THEOREM TypeCorrect == Spec => []TypeOK
<1>1. TypeInv => TypeOK
  <2> SUFFICES ASSUME TypeInv PROVE TypeOK
    OBVIOUS
  <2>1. ASSUME NEW c \in Client
        PROVE  \/ call[c] = NoCall
               \/ /\ call[c].at = "reply"
                  /\ call[c].status \in {"ok", "conflict", "error"}
                  /\ call[c].entity \in Entity \cup {Absent}
               \/ /\ call[c].op \in Op /\ call[c].name \in Name
                  /\ call[c].date \in Date /\ call[c].at \in Await
                  /\ call[c].entity \in Entity \cup {Absent}
    BY DEF TypeInv, CallOK, Answers, Pending
  <2>2. QED
    BY <2>1 DEF TypeInv, TypeOK, ApiTypeOK, QueueEntry
<1>2. QED
  BY <1>1, TypeInvariance, PTL

-----------------------------------------------------------------------------
(* Declarations.  As long as nothing failed, a stored worker type is known to  *)
(* the queue until after the next round, unless a call is about to declare it; *)
(* what a round has dealt with was declared in that round.                     *)
Declaring(c, n) ==
    call[c].at \in {"publish", "declare"} /\ call[c].op # "remove" /\ call[c].name = n

LapseInv ==
    /\ round = "scanning" => wait = 0
    /\ ~failed =>
          \A n \in Name : table[n] # Absent =>
             \/ \E c \in Client : Declaring(c, n)
             \/ /\ queue[n].left > wait
                /\ round = "scanning" /\ n \notin unread
                      /\ (\A s \in sends : s.name # n) => queue[n].left = Lifetime

(* What a call stores it goes on to declare, and what it declares lasts.       *)
LEMMA CallDeclares ==
    ASSUME TypeInv, NEW c \in Client, Proceed(c)
    PROVE  /\ \A b \in Client \ {c} : call'[b] = call[b]
           /\ \A m \in Name : table'[m] # Absent /\ table[m] = Absent => Declaring(c, m)'
           /\ \A m \in Name : queue'[m] = queue[m] \/ queue'[m].left = Lifetime
           /\ \A m \in Name : Declaring(c, m) =>
                 Declaring(c, m)' \/ queue'[m].left = Lifetime
<1> PICK n : n = call[c].name
  OBVIOUS
<1> DEFINE Written == \A m \in Name : table'[m] # Absent /\ table[m] = Absent => Declaring(c, m)'
           Lasting == \A m \in Name : queue'[m] = queue[m] \/ queue'[m].left = Lifetime
           Said    == \A m \in Name : Declaring(c, m) =>
                        Declaring(c, m)' \/ queue'[m].left = Lifetime
<1>1. DOMAIN call = Client /\ DOMAIN table = Name /\ DOMAIN queue = Name
  BY DEF TypeInv
<1>2. \A b \in Client \ {c} : call'[b] = call[b]
  BY <1>1
  DEF Proceed, Insert, Compare, Load, Modify, Remove, Publish, Declare, Reply, Answer, Advance
<1>3. call[c].at \in Await => call[c] \in Pending /\ InOrder(call[c]) /\ n \in Name
  BY CallKinds DEF Pending
<1>4. ASSUME NEW e, call[c].at \in Await, call[c].op # "remove",
             call' = [call EXCEPT ![c].at = "publish", ![c].entity = e]
      PROVE  Declaring(c, n)'
  <2>1. call'[c] = [[call[c] EXCEPT !.at = "publish"] EXCEPT !.entity = e]
    BY <1>1, <1>4
  <2>2. call'[c].at = "publish" /\ call'[c].op = call[c].op /\ call'[c].name = n
    BY <1>3, <1>4, <2>1 DEF Pending
  <2>3. QED
    BY <1>4, <2>2 DEF Declaring
<1> SUFFICES Written /\ Lasting /\ Said
  BY <1>2
<1>5. CASE Insert(c)
  <2>1. call[c].at = "insert" /\ call[c].at \in Await /\ call[c].op = "create"
    BY <1>3, <1>5 DEF Insert, InOrder, Await
  <2>2. UNCHANGED queue /\ \A m : ~Declaring(c, m)
    BY <1>5, <2>1 DEF Insert, Declaring
  <2>3. CASE UNCHANGED table
    BY <2>2, <2>3
  <2>4. CASE /\ table' = [table EXCEPT ![n] = New(c)]
             /\ call' = [call EXCEPT ![c].at = "publish", ![c].entity = New(c)]
    <3>1. Declaring(c, n)'
      BY <1>4, <2>1, <2>4
    <3>2. \A m \in Name : m # n => table'[m] = table[m]
      BY <1>1, <2>4
    <3>3. QED
      BY <2>2, <3>1, <3>2
  <2>5. QED
    BY <1>5, <2>3, <2>4 DEF Insert, Store
<1>6. CASE Compare(c)
  BY <1>6 DEF Compare, Declaring
<1>7. CASE Load(c)
  BY <1>7 DEF Load, Declaring
<1>8. CASE Modify(c)
  <2>1. UNCHANGED queue /\ \A m : ~Declaring(c, m)
    BY <1>8 DEF Modify, Declaring
  <2>2. \A m \in Name : table'[m] # Absent => table[m] # Absent
    BY <1>1, <1>8 DEF Modify, Store
  <2>3. QED
    BY <2>1, <2>2
<1>9. CASE Remove(c)
  <2>1. UNCHANGED queue /\ \A m : ~Declaring(c, m)
    BY <1>9 DEF Remove, Declaring
  <2>2. \A m \in Name : table'[m] # Absent => table[m] # Absent
    BY <1>1, <1>9 DEF Remove
  <2>3. QED
    BY <2>1, <2>2
<1>10. CASE Publish(c)
  <2>1. UNCHANGED <<table, queue>> /\ call[c] \in Pending /\ call[c].at \in Await
    BY <1>3, <1>10 DEF Publish, Await
  <2>2. call[c].op # "remove" => Declaring(c, n)'
    <3> SUFFICES ASSUME call[c].op # "remove" PROVE Declaring(c, n)'
      OBVIOUS
    <3>1. call'[c] = [call[c] EXCEPT !.at = "declare"]
      BY <1>1, <1>10 DEF Publish, Advance
    <3>2. QED
      BY <2>1, <3>1 DEF Declaring, Pending
  <2>3. \A m : Declaring(c, m) => call[c].op # "remove" /\ m = n
    BY DEF Declaring
  <2>4. QED
    BY <2>1, <2>2, <2>3
<1>11. CASE Declare(c)
  <2>1. /\ queue' = [queue EXCEPT ![n] = Declaration(call[c].entity)] /\ UNCHANGED table
        /\ call[c].at \in Await
    BY <1>11 DEF Declare, Await
  <2>2. n \in Name /\ Declaration(call[c].entity).left = Lifetime
    BY <1>3, <2>1 DEF Declaration
  <2>3. QED
    BY <1>1, <2>1, <2>2 DEF Declaring
<1>12. CASE Reply(c)
  BY <1>12 DEF Reply, Declaring
<1>13. QED
  BY <1>5, <1>6, <1>7, <1>8, <1>9, <1>10, <1>11, <1>12 DEF Proceed

LEMMA TimesTyped ==
    ASSUME TypeInv
    PROVE  /\ wait \in 0 .. Period /\ Lifetime \in Nat /\ Period \in Nat
           /\ \A n \in Name : queue[n].left \in Nat
<1>1. \A n \in Name : queue[n] \in QueueEntry
  BY DEF TypeInv
<1>2. wait \in 0 .. Period /\ Lifetime \in Nat /\ Period \in Nat
  BY ApiAssumption, PeriodAssumption DEF TypeInv
<1>3. \A q \in QueueEntry : q.left \in 0 .. Lifetime
  BY DEF QueueEntry
<1>4. QED
  BY <1>1, <1>2, <1>3

LEMMA CallLapses ==
    ASSUME TypeInv, TypeInv', LapseInv, Period < Lifetime, UNCHANGED loopVars,
           NEW c \in Client, Proceed(c)
    PROVE  LapseInv'
<1>1. UNCHANGED <<wait, round, unread, sends, failed>>
  BY DEF loopVars, Proceed, Insert, Compare, Load, Modify, Remove, Publish, Declare, Reply
<1>2. wait \in Nat /\ Lifetime \in Nat /\ wait < Lifetime
  BY ApiAssumption, PeriodAssumption DEF TypeInv
<1>3. SUFFICES ASSUME ~failed, NEW n \in Name, table'[n] # Absent
               PROVE  \/ \E b \in Client : Declaring(b, n)'
                      \/ /\ queue'[n].left > wait
                         /\ round = "scanning" /\ n \notin unread
                               /\ (\A s \in sends : s.name # n) =>
                                     queue'[n].left = Lifetime
  BY <1>1 DEF LapseInv
<1>4. CASE table[n] = Absent
  BY <1>3, <1>4, CallDeclares
<1>5. CASE \E b \in Client : Declaring(b, n)
  <2>1. PICK b \in Client : Declaring(b, n)
    BY <1>5
  <2>2. CASE b = c
    BY <1>2, <2>1, <2>2, CallDeclares
  <2>3. CASE b # c
    <3>1. Declaring(b, n)'
      BY <2>1, <2>3, CallDeclares DEF Declaring
    <3>2. QED
      BY <3>1
  <2>4. QED
    BY <2>2, <2>3
<1>6. CASE table[n] # Absent /\ ~ \E b \in Client : Declaring(b, n)
  <2>1. queue'[n] = queue[n] \/ queue'[n].left = Lifetime
    BY CallDeclares
  <2>2. QED
    BY <1>2, <1>3, <1>6, <2>1 DEF LapseInv
<1>7. QED
  BY <1>4, <1>5, <1>6

LEMMA RestLapses ==
    ASSUME TypeInv, LapseInv, Period < Lifetime,
           Loop \/ RoundFault \/ Crash \/ Tick
    PROVE  LapseInv'
<1>1. /\ wait \in Nat /\ Lifetime \in Nat /\ Period \in Nat /\ Period < Lifetime
      /\ \A n \in Name : queue[n].left \in Nat
  BY TimesTyped
<1>2. UNCHANGED <<table, call>> /\ DOMAIN queue = Name
  BY DEF Loop, StartRound, RoundDone, Scan, SendLands, RoundFault, Crash, Tick, apiVars, TypeInv
<1>3. CASE StartRound
  BY <1>2, <1>3 DEF StartRound, apiVars, LapseInv, Declaring
<1>4. ASSUME NEW n \in Name, Scan(n) PROVE LapseInv'
  <2>1. UNCHANGED <<table, call, queue, failed, wait, round>> /\ round = "scanning"
    BY <1>4 DEF Scan, apiVars
  <2>2. /\ unread' = unread \ {n} /\ sends \subseteq sends'
        /\ table[n] # Absent => \E s \in sends' : s.name = n
    <3> DEFINE s == [name |-> n, entity |-> table[n]]
    <3>1. /\ unread' = unread \ {n}
          /\ sends' = IF table[n] = Absent THEN sends ELSE sends \cup {s}
      BY <1>4 DEF Scan
    <3>2. s.name = n
      OBVIOUS
    <3> HIDE DEF s
    <3>3. QED
      BY <3>1, <3>2
  <2>3. \A m \in Name : table[m] # Absent /\ m \notin unread'
                           /\ (\A s \in sends' : s.name # m) =>
                              m \notin unread /\ (\A s \in sends : s.name # m)
    BY <2>2
  <2>4. QED
    BY <2>1, <2>3 DEF LapseInv, Declaring
<1>5. ASSUME NEW s \in sends, SendLands(s) PROVE LapseInv'
  <2>1. /\ UNCHANGED <<table, call, failed, wait, round, unread>>
        /\ sends' = sends \ {s}
        /\ queue' = [queue EXCEPT ![s.name] = Declaration(s.entity)]
    BY <1>5 DEF SendLands, Land
  <2>2. \A m \in Name : (queue'[m] = queue[m] /\ m # s.name) \/ queue'[m].left = Lifetime
    BY <1>2, <2>1 DEF Declaration
  <2>3. wait < Lifetime
    BY <1>1 DEF TypeInv
  <2>4. QED
    BY <1>1, <2>1, <2>2, <2>3 DEF LapseInv, Declaring
<1>6. CASE RoundDone
  <2>1. /\ UNCHANGED <<table, call, queue, failed>> /\ round' = "none" /\ wait' = Period
        /\ round = "scanning" /\ unread = {} /\ sends = {}
    BY <1>6 DEF RoundDone, EndRound, apiVars
  <2>2. QED
    BY <1>1, <2>1 DEF LapseInv, Declaring
<1>7. CASE RoundFault
  <2>1. failed' = TRUE /\ round' = "none"
    BY <1>7 DEF RoundFault, EndRound
  <2>2. QED
    BY <2>1 DEF LapseInv
<1>8. CASE Crash
  <2>1. /\ UNCHANGED <<table, call, queue, failed>> /\ round' = "none" /\ wait' = 0
    BY <1>8 DEF Crash
  <2>2. \A n \in Name : queue[n].left > wait => queue[n].left > 0
    BY <1>1
  <2>3. QED
    BY <2>1, <2>2 DEF LapseInv, Declaring
<1>9. CASE Tick
  <2>1. /\ UNCHANGED <<table, failed, round>> /\ round = "none" /\ wait > 0 /\ wait' = wait - 1
        /\ \A n \in Name : queue'[n] = IF queue[n].left <= 1 THEN Unknown
                                      ELSE [queue[n] EXCEPT !.left = @ - 1]
    BY <1>9 DEF Tick, Quiet
  <2>2. \A c \in Client, n \in Name : ~Declaring(c, n)
    BY <1>9 DEF Tick, Quiet, NoCall, Declaring
  <2>3. \A n \in Name : queue[n].left > wait => queue'[n].left > wait'
    <3> SUFFICES ASSUME NEW n \in Name, queue[n].left > wait PROVE queue'[n].left > wait'
      OBVIOUS
    <3>1. queue[n] \in QueueEntry /\ ~(queue[n].left <= 1)
      BY <1>1, <2>1 DEF TypeInv
    <3>2. queue'[n].left = queue[n].left - 1
      BY <2>1, <3>1 DEF QueueEntry
    <3>3. QED
      BY <1>1, <2>1, <3>2
  <2>4. QED
    BY <2>1, <2>2, <2>3 DEF LapseInv
<1>10. QED
  BY <1>3, <1>4, <1>5, <1>6, <1>7, <1>8, <1>9 DEF Loop

LEMMA NextLapses ==
    ASSUME Period < Lifetime, TypeInv, TypeInv', LapseInv, [Next]_vars
    PROVE  LapseInv'
<1>1. ASSUME UNCHANGED loopVars, NEW c \in Client, NEW op \in Op, NEW n \in Name,
             NEW date \in Date, Receive(c, op, n, date)
      PROVE  LapseInv'
  <2>1. /\ UNCHANGED <<table, queue, failed, wait, round, unread, sends>>
        /\ call[c] = NoCall /\ \A b \in Client \ {c} : call'[b] = call[b]
    BY <1>1 DEF Receive, loopVars, TypeInv
  <2>2. \A b \in Client, m \in Name : Declaring(b, m) => Declaring(b, m)'
    BY <2>1 DEF Declaring, NoCall
  <2>3. QED
    BY <2>1, <2>2 DEF LapseInv
<1>2. ASSUME UNCHANGED loopVars, NEW c \in Client, Reject(c) PROVE LapseInv'
  <2>1. /\ UNCHANGED <<table, queue, failed, wait, round, unread, sends>>
        /\ call[c] = NoCall /\ \A b \in Client \ {c} : call'[b] = call[b]
    BY <1>2 DEF Reject, Answer, loopVars, TypeInv
  <2>2. \A b \in Client, m \in Name : Declaring(b, m) => Declaring(b, m)'
    BY <2>1 DEF Declaring, NoCall
  <2>3. QED
    BY <2>1, <2>2 DEF LapseInv
<1>3. ASSUME UNCHANGED loopVars, NEW c \in Client, CallFault(c) PROVE LapseInv'
  BY <1>3 DEF CallFault, LapseInv, loopVars
<1>4. CASE UNCHANGED vars
  BY <1>4 DEF vars, apiVars, loopVars, LapseInv, Declaring
<1>5. QED
  BY <1>1, <1>2, <1>3, <1>4, CallLapses, RestLapses DEF Next, ApiNext

(* The rounds are in time: as long as nothing failed, whatever calls interleave *)
(* with them and however often the loop is restarted, no stored worker type is *)
(* forgotten by the queue.                                                     *)
THEOREM RoundsInTime ==
    ASSUME Period < Lifetime
    PROVE  Spec => []LapsesOnlyAfterFailure
<1>1. Init => LapseInv
  BY DEF Init, ApiInit, LapseInv
<1>2. TypeInv /\ TypeInv' /\ LapseInv /\ [Next]_vars => LapseInv'
  BY NextLapses
<1>3. TypeInv /\ LapseInv => LapsesOnlyAfterFailure
  <2>1. ASSUME TypeInv, LapseInv, ~failed, \A c \in Client : call[c] = NoCall,
               NEW n \in Name, table[n] # Absent
        PROVE  queue[n].left > 0
    <3>1. \A c \in Client : ~Declaring(c, n)
      BY <2>1 DEF Declaring, NoCall
    <3>2. queue[n].left > wait /\ wait \in Nat /\ queue[n].left \in Nat
      BY <2>1, <3>1, TimesTyped DEF LapseInv
    <3>3. QED
      BY <3>2
  <2>2. QED
    BY <2>1 DEF LapsesOnlyAfterFailure
<1>4. QED
  BY <1>1, <1>2, <1>3, TypeInvariance, PTL DEF Spec

-----------------------------------------------------------------------------
(* The refinement: each call takes effect on the table at one instant.         *)
Abstract == [c \in Client |-> AbstractCall(c)]

(* A step of one client's call is one of its abstract call.                    *)
LEMMA OthersKept ==
    ASSUME TypeInv, UNCHANGED file, NEW c \in Client, NEW new,
           call' = [call EXCEPT ![c] = new]
    PROVE  /\ call'[c] = new
           /\ \A k : AbstractCall(c)' = k => Abstract' = [Abstract EXCEPT ![c] = k]
<1>1. DOMAIN call = Client
  BY DEF TypeInv
<1>2. call'[c] = new /\ \A b \in Client \ {c} : call'[b] = call[b]
  BY <1>1
<1>3. \A b \in Client \ {c} : AbstractCall(b)' = AbstractCall(b)
  BY <1>2 DEF AbstractCall
<1>4. ASSUME NEW k, AbstractCall(c)' = k
      PROVE  Abstract' = [Abstract EXCEPT ![c] = k]
  <2>1. Abstract' = [b \in Client |-> AbstractCall(b)']
    BY DEF Abstract
  <2>2. [Abstract EXCEPT ![c] = k] = [b \in Client |-> IF b = c THEN k ELSE AbstractCall(b)]
    BY DEF Abstract
  <2>3. \A b \in Client : AbstractCall(b)' = IF b = c THEN k ELSE AbstractCall(b)
    BY <1>3, <1>4
  <2>4. QED
    BY <2>1, <2>2, <2>3
<1>5. QED
  BY <1>2, <1>4

(* How far a call is, abstractly.                                              *)
LEMMA Phases ==
    ASSUME TypeInv, NEW c \in Client
    PROVE  /\ Abstract[c] = AbstractCall(c)
           /\ call[c] = NoCall => AbstractCall(c) = [phase |-> "none"]
           /\ call[c].at \in {"publish", "declare"} =>
                 AbstractCall(c) = [phase |-> "done", status |-> "ok", entity |-> call[c].entity]
           /\ call[c].at = "reply" =>
                 AbstractCall(c) = [phase |-> "done", status |-> call[c].status,
                                    entity |-> call[c].entity]
           /\ call[c].at \in {"insert", "load", "modify", "remove"} =>
                 AbstractCall(c) = [phase |-> "called", op |-> call[c].op, name |-> call[c].name,
                                    body |-> file[c], date |-> call[c].date]
<1>1. call[c] = NoCall => call[c].at = "none"
  BY DEF NoCall
<1>2. QED
  BY <1>1 DEF Abstract, AbstractCall

(* An answer is one in the abstract table.                                     *)
LEMMA Answering ==
    ASSUME TypeInv, TypeInv', UNCHANGED file, NEW c \in Client, NEW status, NEW e,
           Answer(c, status, e)
    PROVE  Table!Done(c, status, e)
<1> DEFINE new == [at |-> "reply", status |-> status, entity |-> e]
<1>1. call' = [call EXCEPT ![c] = new]
  BY DEF Answer
<1>2. call'[c] = new
  BY <1>1, OthersKept
<1>3. AbstractCall(c)' = [phase |-> "done", status |-> status, entity |-> e]
  BY <1>2 DEF AbstractCall, NoCall
<1>4. QED
  BY <1>1, <1>3, OthersKept DEF Table!Done, Abstract

(* So is going on to publish what was stored or found.                         *)
LEMMA PublishingIsDone ==
    ASSUME TypeInv, UNCHANGED file, NEW c \in Client, call[c].at \in Await, NEW e,
           call' = [call EXCEPT ![c].at = "publish", ![c].entity = e]
    PROVE  Table!Done(c, "ok", e)
<1> DEFINE new == [[call[c] EXCEPT !.at = "publish"] EXCEPT !.entity = e]
<1>1. call' = [call EXCEPT ![c] = new]
  BY DEF TypeInv
<1>2. call'[c] = new
  BY <1>1, OthersKept
<1>3. call'[c].at = "publish" /\ call'[c].entity = e
  <2>1. call[c] \in Pending
    BY CallKinds
  <2>2. QED
    BY <1>2, <2>1 DEF Pending
<1>4. AbstractCall(c)' = [phase |-> "done", status |-> "ok", entity |-> e]
  <2>1. NoCall.at = "none"
    BY DEF NoCall
  <2>2. call'[c] # NoCall
    BY <1>3, <2>1
  <2>3. QED
    BY <1>3, <2>2 DEF AbstractCall
<1>5. QED
  BY <1>1, <1>4, OthersKept DEF Table!Done, Abstract

(* Other steps of a call are none of the abstract one.                         *)
LEMMA Unseen ==
    ASSUME TypeInv, UNCHANGED <<file, table>>, NEW c \in Client, NEW new,
           call' = [call EXCEPT ![c] = new], AbstractCall(c)' = AbstractCall(c)
    PROVE  UNCHANGED Table!vars
<1>1. Abstract' = [Abstract EXCEPT ![c] = AbstractCall(c)]
  BY OthersKept
<1>2. Abstract' = Abstract
  BY <1>1 DEF Abstract
<1>3. QED
  BY <1>2 DEF Table!vars, Abstract

(* The definition a call stores is the one the abstract call does.             *)
LEMMA StoredIs ==
    ASSUME TypeInv, NEW c \in Client, call[c].at \in {"insert", "modify"}, NEW old,
           old # Table!Absent
    PROVE  /\ call[c].at = "insert" =>
                 New(c) = Table!Effect(AbstractCall(c), Table!Absent)
           /\ call[c].at = "modify" =>
                 Modified(c, old) = Table!Effect(AbstractCall(c), old)
<1>1. AbstractCall(c) = [phase |-> "called", op |-> call[c].op, name |-> call[c].name,
                         body |-> file[c], date |-> call[c].date]
  BY Phases
<1>2. InOrder(call[c])
  BY CallKinds DEF Await
<1>3. PICK r : r = AbstractCall(c)
  OBVIOUS
<1>4. r.body = file[c] /\ r.date = call[c].date /\ r.op = call[c].op
  BY <1>1, <1>3
<1>5. call[c].at = "insert" => New(c) = Table!Effect(r, Table!Absent)
  BY <1>2, <1>4, NewIs DEF InOrder, Table!Effect, Table!Stored
<1>6. call[c].at = "modify" => Modified(c, old) = Table!Effect(r, old)
  BY <1>2, <1>4, ModifiedIs DEF InOrder, Table!Effect, Table!Stored
<1>7. QED
  BY <1>3, <1>5, <1>6

LEMMA ProceedRefines ==
    ASSUME TypeInv, TypeInv', NEW c \in Client, Proceed(c)
    PROVE  [Table!Next]_Table!vars
<1> DEFINE n == call[c].name
           a == AbstractCall(c)
<1>1. UNCHANGED file
  BY DEF Proceed, Insert, Compare, Load, Modify, Remove, Publish, Declare, Reply
<1>2. Abstract[c] = a
  BY Phases
<1>3. call[c].at \in Await => /\ call[c] \in Pending /\ InOrder(call[c])
                             /\ n \in Name /\ table[n] \in Entity \cup {Absent}
  BY CallKinds DEF Pending, TypeInv
<1>4. call[c].at \in {"insert", "load", "modify", "remove"} =>
         a.phase = "called" /\ a.op = call[c].op /\ a.name = n /\ a.body = file[c]
  BY Phases
<1>5. Absent = Table!Absent
  BY DEF Absent, Table!Absent
<1>6. (\E k \in Client : Table!TakeEffect(k) \/ Table!Refuse(k) \/ Table!Return(k)
                          \/ Table!GiveUp(k)) => [Table!Next]_Table!vars
  BY DEF Table!Next
<1> HIDE DEF a
<1>7. ASSUME Answer(c, "error", Absent), UNCHANGED table
      PROVE  [Table!Next]_Table!vars
  <2>1. Table!Done(c, "error", Table!Absent)
    BY <1>1, <1>5, <1>7, Answering
  <2>2. Table!GiveUp(c)
    BY <1>7, <2>1 DEF Table!GiveUp
  <2>3. QED
    BY <1>6, <2>2
<1>8. ASSUME NEW at, call[c].at \in Await, Advance(c, at), UNCHANGED table,
             \/ call[c].at \in {"insert", "load"} /\ at \in {"load", "modify"}
             \/ call[c].at = "publish" /\ at = "declare"
      PROVE  [Table!Next]_Table!vars
  <2> PICK new : new = [call[c] EXCEPT !.at = at]
    OBVIOUS
  <2>1. call' = [call EXCEPT ![c] = new]
    BY <1>8 DEF Advance
  <2>2. call'[c] = new
    BY <1>1, <2>1, OthersKept
  <2>3. /\ new.at = at /\ new.op = call[c].op /\ new.name = n /\ new.date = call[c].date
        /\ new.entity = call[c].entity
    BY <1>3, <1>8 DEF Pending
  <2>4. AbstractCall(c)' = AbstractCall(c)
    <3>1. NoCall.at = "none"
      BY DEF NoCall
    <3>2. call'[c] # NoCall /\ call[c] # NoCall
      BY <1>8, <2>2, <2>3, <3>1
    <3>3. QED
      BY <1>1, <1>8, <2>2, <2>3, <3>2 DEF AbstractCall
  <2>5. QED
    BY <1>1, <1>8, <2>1, <2>4, Unseen
<1>9. CASE Insert(c)
  <2>1. call[c].at = "insert" /\ call[c].at \in Await /\ call[c].op = "create"
    BY <1>3, <1>9 DEF Insert, InOrder, Await
  <2>2. CASE Answer(c, "error", Absent) /\ UNCHANGED table
    BY <1>7, <2>2
  <2>3. CASE Advance(c, "load") /\ UNCHANGED table
    BY <1>8, <2>1, <2>3
  <2>4. CASE /\ table[n] = Absent /\ table' = [table EXCEPT ![n] = New(c)]
             /\ call' = [call EXCEPT ![c].at = "publish", ![c].entity = New(c)]
    <3>1. New(c) = Table!Effect(a, Table!Absent)
      <4>1. New(c) \in Entity
        BY <2>1, StoredEntities
      <4>2. New(c) # Table!Absent
        BY <1>5, <4>1, EntityPresent
      <4>3. QED
        BY <2>1, <4>2, StoredIs DEF a
    <3>2. Table!Done(c, "ok", New(c))
      <4> PICK e : e = New(c)
        OBVIOUS
      <4>1. Table!Done(c, "ok", e)
        BY <1>1, <2>1, <2>4, PublishingIsDone
      <4>2. QED
        BY <4>1 DEF Table!Done
    <3>3. Table!TakeEffect(c)
      BY <1>2, <1>4, <1>5, <2>1, <2>4, <3>1, <3>2 DEF Table!TakeEffect, Abstract
    <3>4. QED
      BY <1>6, <3>3
  <2>5. QED
    BY <1>9, <2>2, <2>3, <2>4 DEF Insert, Store
<1>10. CASE Compare(c)
  <2>1. /\ call[c].at = "load" /\ call[c].at \in Await /\ call[c].op = "create"
        /\ UNCHANGED table
    BY <1>10 DEF Compare, Await
  <2>2. CASE Answer(c, "error", Absent)
    BY <1>7, <2>1, <2>2
  <2>3. CASE table[n] # Absent /\ ~Matches(table[n], file[c]) /\ Answer(c, "conflict", Absent)
    <3>1. Table!Done(c, "conflict", Table!Absent)
      BY <1>1, <1>5, <2>3, Answering
    <3>2. ~Table!Agrees(table[a.name], a)
      BY <1>4, <2>1, <2>3 DEF Matches, Table!Agrees
    <3>3. Table!Refuse(c)
      BY <1>2, <1>4, <1>5, <2>1, <2>3, <3>1, <3>2 DEF Table!Refuse, Abstract
    <3>4. QED
      BY <1>6, <3>3
  <2>4. CASE /\ table[n] # Absent /\ Matches(table[n], file[c])
             /\ call' = [call EXCEPT ![c].at = "publish", ![c].entity = table[n]]
    <3>1. Table!Effect(a, table[n]) = table[n]
      BY <1>4, <1>5, <2>1, <2>4 DEF Table!Effect
    <3>2. Table!Done(c, "ok", table[n])
      <4> PICK e : e = table[n]
        OBVIOUS
      <4>1. Table!Done(c, "ok", e)
        BY <1>1, <2>1, <2>4, PublishingIsDone
      <4>2. QED
        BY <4>1 DEF Table!Done
    <3>3. Table!Agrees(table[n], a)
      BY <1>4, <2>1, <2>4 DEF Matches, Table!Agrees
    <3>4. table' = [table EXCEPT ![n] = table[n]]
      BY <2>1 DEF TypeInv
    <3>5. Table!TakeEffect(c)
      BY <1>2, <1>4, <2>1, <3>1, <3>2, <3>3, <3>4 DEF Table!TakeEffect, Abstract
    <3>6. QED
      BY <1>6, <3>5
  <2>5. QED
    BY <1>10, <2>2, <2>3, <2>4 DEF Compare
<1>11. CASE Load(c)
  <2>1. call[c].at = "load" /\ call[c].at \in Await /\ UNCHANGED table
    BY <1>11 DEF Load, Await
  <2>2. QED
    BY <1>7, <1>8, <1>11, <2>1 DEF Load
<1>12. CASE Modify(c)
  <2>1. call[c].at = "modify" /\ call[c].at \in Await /\ call[c].op = "update"
    BY <1>3, <1>12 DEF Modify, InOrder, Await
  <2>2. CASE table[n] = Absent
    BY <1>7, <1>12, <2>2 DEF Modify
  <2>3. CASE table[n] # Absent
    <3>1. PICK e : e = Modified(c, table[n])
      OBVIOUS
    <3>2. /\ table' = [table EXCEPT ![n] = e]
          /\ call' = [call EXCEPT ![c].at = "publish", ![c].entity = e]
      BY <1>12, <2>3, <3>1 DEF Modify, Store
    <3>3. e = Table!Effect(a, table[n])
      BY <1>5, <2>1, <2>3, <3>1, StoredIs DEF a
    <3>4. Table!Done(c, "ok", e)
      BY <1>1, <2>1, <3>2, PublishingIsDone
    <3>5. Table!TakeEffect(c)
      BY <1>2, <1>4, <1>5, <2>1, <2>3, <3>2, <3>3, <3>4 DEF Table!TakeEffect, Abstract
    <3>6. QED
      BY <1>6, <3>5
  <2>4. QED
    BY <2>2, <2>3
<1>13. CASE Remove(c)
  <2>1. call[c].at = "remove" /\ call[c].at \in Await /\ call[c].op = "remove"
    BY <1>3, <1>13 DEF Remove, InOrder, Await
  <2>2. table' = [table EXCEPT ![n] = Absent]
    BY <1>13 DEF Remove
  <2>3. Table!Done(c, "ok", Table!Absent)
    <3> PICK new : new = [call[c] EXCEPT !.at = "publish"]
      OBVIOUS
    <3>1. call' = [call EXCEPT ![c] = new]
      BY <1>13 DEF Remove, Advance
    <3>2. call'[c] = new
      BY <1>1, <3>1, OthersKept
    <3>3. new.at = "publish" /\ new.entity = Absent
      BY <1>3, <2>1 DEF InOrder, Pending
    <3>4. NoCall.at = "none"
      BY DEF NoCall
    <3>5. AbstractCall(c)' = [phase |-> "done", status |-> "ok", entity |-> Table!Absent]
      BY <1>5, <3>2, <3>3, <3>4 DEF AbstractCall
    <3>6. QED
      BY <1>1, <3>1, <3>5, OthersKept DEF Table!Done, Abstract
  <2>4. Table!Effect(a, table[n]) = Table!Absent
    BY <1>4, <2>1 DEF Table!Effect
  <2>5. Table!TakeEffect(c)
    BY <1>2, <1>4, <1>5, <2>1, <2>2, <2>3, <2>4 DEF Table!TakeEffect, Abstract
  <2>6. QED
    BY <1>6, <2>5
<1>14. CASE Publish(c)
  <2>1. call[c].at = "publish" /\ call[c].at \in Await /\ UNCHANGED table
    BY <1>14 DEF Publish, Await
  <2>2. CASE call[c].op = "remove"
    <3> PICK new : new = [at |-> "reply", status |-> "ok", entity |-> Absent]
      OBVIOUS
    <3>1. call' = [call EXCEPT ![c] = new]
      BY <1>14, <2>2 DEF Publish, Answer
    <3>2. call'[c] = new
      BY <1>1, <3>1, OthersKept
    <3>3. AbstractCall(c) = [phase |-> "done", status |-> "ok", entity |-> Absent]
      BY <1>3, <2>1, <2>2, Phases DEF InOrder
    <3>4. AbstractCall(c)' = [phase |-> "done", status |-> "ok", entity |-> Absent]
      BY <3>2 DEF AbstractCall, NoCall
    <3>5. QED
      BY <1>1, <2>1, <3>1, <3>3, <3>4, Unseen
  <2>3. CASE call[c].op # "remove"
    BY <1>8, <1>14, <2>1, <2>3 DEF Publish
  <2>4. QED
    BY <2>2, <2>3
<1>15. CASE Declare(c)
  <2>1. call[c].at = "declare" /\ UNCHANGED table
    BY <1>15 DEF Declare
  <2> PICK new : new = [at |-> "reply", status |-> "ok", entity |-> call[c].entity]
    OBVIOUS
  <2>2. call' = [call EXCEPT ![c] = new]
    BY <1>15 DEF Declare, Answer
  <2>3. call'[c] = new
    BY <1>1, <2>2, OthersKept
  <2>4. AbstractCall(c) = [phase |-> "done", status |-> "ok", entity |-> call[c].entity]
    BY <2>1, Phases
  <2>5. AbstractCall(c)' = [phase |-> "done", status |-> "ok", entity |-> call[c].entity]
    BY <2>3 DEF AbstractCall, NoCall
  <2>6. QED
    BY <1>1, <2>1, <2>2, <2>4, <2>5, Unseen
<1>16. CASE Reply(c)
  <2>1. call[c].at = "reply" /\ call' = [call EXCEPT ![c] = NoCall] /\ UNCHANGED table
    BY <1>16 DEF Reply
  <2>2. a.phase = "done"
    BY <2>1, Phases DEF a
  <2>3. AbstractCall(c)' = Table!NoCall
    BY <1>1, <2>1, OthersKept DEF AbstractCall, Table!NoCall
  <2>4. Table!Return(c)
    BY <1>1, <1>2, <2>1, <2>2, <2>3, OthersKept DEF Table!Return, Abstract
  <2>5. QED
    BY <1>6, <2>4
<1>17. QED
  BY <1>9, <1>10, <1>11, <1>12, <1>13, <1>14, <1>15, <1>16 DEF Proceed

LEMMA CallFaultRefines ==
    ASSUME TypeInv, TypeInv', NEW c \in Client, CallFault(c)
    PROVE  [Table!Next]_Table!vars
<1> DEFINE n == call[c].name
           a == AbstractCall(c)
<1>1. UNCHANGED file /\ Answer(c, "error", Absent) /\ call[c].at \in Await
  BY DEF CallFault
<1>2. Abstract[c] = a /\ Absent = Table!Absent
  BY Phases DEF Absent, Table!Absent
<1>3. InOrder(call[c])
  BY <1>1, CallKinds
<1>4. call[c].at \in {"insert", "load", "modify", "remove"} =>
         a.phase = "called" /\ a.op = call[c].op /\ a.name = n
  BY Phases
<1>5. Table!Done(c, "error", Table!Absent)
  BY <1>1, <1>2, Answering
<1> HIDE DEF a
<1>6. CASE UNCHANGED table
  <2>1. Table!GiveUp(c)
    BY <1>5, <1>6 DEF Table!GiveUp
  <2>2. QED
    BY <2>1 DEF Table!Next
<1>7. CASE /\ call[c].at = "insert" /\ table[n] = Absent
           /\ table' = [table EXCEPT ![n] = New(c)]
  <2>1. New(c) \in Entity
    BY <1>1, StoredEntities
  <2>2. New(c) = Table!Effect(a, Table!Absent)
    BY <1>2, <1>7, <2>1, EntityPresent, StoredIs DEF a
  <2>3. Table!GiveUp(c)
    BY <1>2, <1>3, <1>4, <1>5, <1>7, <2>2 DEF InOrder, Table!GiveUp, Abstract
  <2>4. QED
    BY <2>3 DEF Table!Next
<1>8. CASE /\ call[c].at = "modify" /\ table[n] # Absent
           /\ table' = [table EXCEPT ![n] = Modified(c, table[n])]
  <2>1. Modified(c, table[n]) = Table!Effect(a, table[n])
    BY <1>2, <1>8, StoredIs DEF a
  <2>2. Table!GiveUp(c)
    BY <1>2, <1>3, <1>4, <1>5, <1>8, <2>1 DEF InOrder, Table!GiveUp, Abstract
  <2>3. QED
    BY <2>2 DEF Table!Next
<1>9. CASE call[c].at = "remove" /\ table' = [table EXCEPT ![n] = Absent]
  <2>1. Table!Effect(a, table[n]) = Absent
    BY <1>2, <1>3, <1>4, <1>9 DEF InOrder, Table!Effect
  <2>2. Table!GiveUp(c)
    BY <1>2, <1>3, <1>4, <1>5, <1>9, <2>1 DEF InOrder, Table!GiveUp, Abstract
  <2>3. QED
    BY <2>2 DEF Table!Next
<1>10. QED
  BY <1>6, <1>7, <1>8, <1>9 DEF CallFault, Store

LEMMA ReceiveRefines ==
    ASSUME TypeInv, TypeInv', NEW c \in Client, NEW op \in Op, NEW n \in Name, NEW date \in Date,
           Receive(c, op, n, date)
    PROVE  [Table!Next]_Table!vars
<1> PICK new : /\ call' = [call EXCEPT ![c] = new]
               /\ new.op = op /\ new.name = n /\ new.date = date
               /\ new.at \in {"insert", "load", "remove"}
  <2> DEFINE at == CASE op = "create" -> "insert"
                     [] op = "update" -> "load"
                     [] op = "remove" -> "remove"
             k  == [op |-> op, name |-> n, date |-> date, entity |-> Absent, at |-> at]
  <2>1. at \in {"insert", "load", "remove"}
    BY DEF Op
  <2>2. call' = [call EXCEPT ![c] = k]
    BY DEF Receive
  <2> HIDE DEF at
  <2>3. k.op = op /\ k.name = n /\ k.date = date /\ k.at \in {"insert", "load", "remove"}
    BY <2>1
  <2> HIDE DEF k
  <2>4. QED
    BY <2>2, <2>3
<1>1. call[c] = NoCall /\ UNCHANGED <<file, table>>
  BY DEF Receive, TypeInv
<1>2. call'[c] = new
  BY <1>1, OthersKept
<1>3. PICK r : r = [phase |-> "called", op |-> op, name |-> n, body |-> file[c],
                    date |-> date]
  OBVIOUS
<1>4. NoCall.at = "none"
  BY DEF NoCall
<1>5. AbstractCall(c)' = r
  BY <1>1, <1>2, <1>3, <1>4 DEF AbstractCall
<1>6. Abstract' = [Abstract EXCEPT ![c] = r]
  BY <1>1, <1>5, OthersKept
<1>7. Abstract'[c] = r /\ Abstract[c] = Table!NoCall
  BY <1>1, <1>5, Phases DEF Abstract, Table!NoCall
<1>8. r \in Table!Request
  <2>1. op \in {"create", "update", "remove"} /\ file[c] \in Body /\ date \in Nat \ {0}
    BY ApiAssumption DEF Op, TypeInv
  <2> PICK body : body = file[c]
    OBVIOUS
  <2>2. r = [phase |-> "called", op |-> op, name |-> n, body |-> body, date |-> date]
    BY <1>3
  <2>3. body \in Body
    BY <2>1
  <2>4. QED
    BY <2>1, <2>2, <2>3 DEF Table!Request
<1>9. Table!Call(c)
  BY <1>1, <1>6, <1>7, <1>8 DEF Table!Call, Abstract
<1>10. QED
  BY <1>9 DEF Table!Next

(* The same, of every step: it is one of the table, or none.                   *)
LEMMA NextRefines == TypeInv /\ TypeInv' /\ [Next]_vars => [Table!Next]_Table!vars
<1> SUFFICES ASSUME TypeInv, TypeInv', [Next]_vars PROVE [Table!Next]_Table!vars
  OBVIOUS
<1>1. ASSUME NEW c \in Client, Reject(c) PROVE [Table!Next]_Table!vars
  <2>1. Table!Done(c, "error", Table!Absent)
    BY <1>1, Answering DEF Reject, Absent, Table!Absent
  <2>2. Table!GiveUp(c)
    BY <1>1, <2>1 DEF Reject, Table!GiveUp
  <2>3. QED
    BY <2>2 DEF Table!Next
<1>2. CASE UNCHANGED <<file, table, call>>
  <2>1. \A c \in Client : AbstractCall(c)' = AbstractCall(c)
    BY <1>2 DEF AbstractCall
  <2>2. UNCHANGED Table!vars
    BY <1>2, <2>1 DEF Table!vars
  <2>3. QED
    BY <2>2
<1>3. QED
  BY <1>1, <1>2, ReceiveRefines, ProceedRefines, CallFaultRefines
  DEF Next, ApiNext, Loop, StartRound, RoundDone, Scan, SendLands, RoundFault, Crash,
      Tick, vars, apiVars

(* However many callers, and however their calls interleave and fail: each has *)
(* its effect on the table at one instant, and is told what it met there.      *)
THEOREM CallsAreAtomic == Spec => KeepsTable
<1>1. Init => Table!Init
  <2> SUFFICES ASSUME Init PROVE Table!Init
    OBVIOUS
  <2>1. \A c \in Client : AbstractCall(c) = Table!NoCall
    BY DEF Init, ApiInit, AbstractCall, Table!NoCall
  <2>2. QED
    BY <2>1 DEF Init, ApiInit, Table!Init, Absent, Table!Absent
<1>2. QED
  BY <1>1, NextRefines, TypeInvariance, PTL DEF Spec, KeepsTable, Table!Spec

=============================================================================
