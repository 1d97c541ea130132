------------------------- MODULE Provisioner_proofs -------------------------
(* Type correctness of the Provisioner and the safety of its rogue killer, for *)
(* any number of worker types, definitions, prices, faults and edits.          *)
EXTENDS Provisioner, UnitLemmas

USE DEF services, process, bounds

-----------------------------------------------------------------------------
(* Tables are the functions from some names to definitions.                    *)

LEMMA TableOf ==
    ASSUME NEW names \in SUBSET WorkerType, NEW f \in [names -> Definitions]
    PROVE  f \in Tables
BY DEF Tables

LEMMA TableIs ==
    ASSUME NEW f \in Tables
    PROVE  f \in [DOMAIN f -> Definitions] /\ DOMAIN f \in SUBSET WorkerType
<1>1. PICK names \in SUBSET WorkerType : f \in [names -> Definitions]
  BY DEF Tables
<1> QED
  BY <1>1

LEMMA EmptyTable == <<>> \in Tables
<1>1. <<>> \in [{} -> Definitions] /\ {} \in SUBSET WorkerType
  OBVIOUS
<1> QED
  BY <1>1, TableOf

(* Counts stay counts when one of them changes.                                *)
LEMMA CountsChange ==
    ASSUME NEW count \in Counts, NEW w \in WorkerType, NEW t \in InstanceType,
           NEW n \in Nat
    PROVE  [count EXCEPT ![w][t] = n] \in Counts
BY DEF Counts

LEMMA CountsNat ==
    ASSUME NEW count \in Counts, NEW w \in WorkerType, NEW t \in InstanceType
    PROVE  count[w][t] \in Nat
BY DEF Counts

LEMMA NoInstancesCounts == NoInstances \in Counts
BY DEF NoInstances, Counts

LEMMA OneMoreCounts ==
    ASSUME NEW count \in Counts, NEW s \in Spawns
    PROVE  OneMore(count, s) \in Counts
<1>1. s.worker \in WorkerType /\ s.option.type \in InstanceType
  BY DEF Spawns, Option
<1>2. count[s.worker][s.option.type] + 1 \in Nat
  BY <1>1, CountsNat
<1> QED
  BY <1>1, <1>2, CountsChange DEF OneMore

(* There are finitely many options, and any set of submitted requests is       *)
(* finite.                                                                     *)
LEMMA OptionFinite == IsFiniteSet(Option)
<1> DEFINE f == [p \in Zone \X InstanceType |-> [zone |-> p[1], type |-> p[2]]]
<1>1. IsFiniteSet(Zone \X InstanceType)
  BY FS_Product, OptionsAssumption
<1>2. f \in [Zone \X InstanceType -> Option]
  BY DEF Option
<1>3. ASSUME NEW o \in Option
      PROVE  \E p \in Zone \X InstanceType : f[p] = o
  <2>1. <<o.zone, o.type>> \in Zone \X InstanceType
    BY DEF Option
  <2>2. f[<<o.zone, o.type>>] = o
    BY <2>1 DEF Option
  <2> QED
    BY <2>1, <2>2
<1>4. f \in Surjection(Zone \X InstanceType, Option)
  BY <1>2, <1>3 DEF Surjection
<1> QED
  BY <1>1, <1>4, FS_Surjection

LEMMA SpawnsFinite == IsFiniteSet(Spawns)
<1>3. IsFiniteSet(WorkerType \X Option)
  BY OptionFinite, FS_Product, ProvisionerAssumption
<1> DEFINE g == [p \in WorkerType \X Option |-> [worker |-> p[1], option |-> p[2]]]
<1>4. g \in [WorkerType \X Option -> Spawns]
  BY DEF Spawns
<1>5. ASSUME NEW s \in Spawns
      PROVE  \E p \in WorkerType \X Option : g[p] = s
  <2>1. <<s.worker, s.option>> \in WorkerType \X Option
    BY DEF Spawns
  <2>2. g[<<s.worker, s.option>>] = s
    BY <2>1 DEF Spawns
  <2> QED
    BY <2>1, <2>2
<1>6. g \in Surjection(WorkerType \X Option, Spawns)
  BY <1>4, <1>5 DEF Surjection
<1> QED
  BY <1>3, <1>6, FS_Surjection

(* Every list of bids the loop may return is a count per option.               *)
LEMMA OutcomesAreCounts ==
    ASSUME NEW d, NEW prices, NEW change, NEW b \in BidOutcomes(d, prices, change)
    PROVE  b \in [Option -> Nat]
<1>1. NoBids \in [Option -> Nat]
  BY DEF NoBids
<1>2. ASSUME NEW S, b \in BidLists(S, change)
      PROVE  b \in [Option -> Nat]
  <2>1. b \in [Option -> 0 .. change]
    BY <1>2 DEF BidLists
  <2>2. 0 .. change \subseteq Nat
    OBVIOUS
  <2> QED
    BY <2>1, <2>2
<1>3. b = NoBids \/ \E S : b \in BidLists(S, change)
  BY DEF BidOutcomes
<1> QED
  BY <1>1, <1>2, <1>3

-----------------------------------------------------------------------------
(* Type correctness.                                                           *)

(* Forgetting an iteration's locals leaves them well typed.                    *)
LEMMA ForgottenLocals ==
    ASSUME ForgetLocals
    PROVE  /\ loaded' \in Tables
           /\ waiting' = {} /\ todo' = {} /\ reading' = {}
           /\ bids' \in [WorkerType -> [Option -> Nat]]
           /\ inflight' = {}
           /\ quota' \in [Region -> Nat]
           /\ hadSuccess' = FALSE
BY EmptyTable DEF ForgetLocals, NoPlan, NoBids

LEMMA SucceedTypes ==
    ASSUME TypeOK, Succeed, pricing' = pricing
    PROVE  ProcessOK'
BY ForgottenLocals, ProvisionerAssumption DEF TypeOK, ProcessOK, Succeed

LEMMA FailTypes ==
    ASSUME TypeOK, pc # "down", failures < MaxFailures, Fail, pricing' = pricing
    PROVE  ProcessOK'
BY ForgottenLocals, ProvisionerAssumption DEF TypeOK, ProcessOK, Fail

LEMMA AfterRogueKillerTypes ==
    ASSUME TypeOK, AfterRogueKiller, pricing' = pricing
    PROVE  ProcessOK'
<1>1. CASE Succeed
  BY <1>1, SucceedTypes
<1>2. CASE ~ Succeed
  BY <1>2 DEF AfterRogueKiller, TypeOK, ProcessOK
<1> QED
  BY <1>1, <1>2

(* A failed process never fails again before it is restarted, and only an      *)
(* iteration in its rogue killer waits for terminate calls.                    *)
FailuresBelow == pc # "down" => failures < MaxFailures
KillerWaits   == waiting # {} => pc = "killing"

(* Every step keeps the types.                                                 *)
LEMMA StepTypes == TypeOK /\ FailuresBelow /\ [Next]_vars => TypeOK'
<1> SUFFICES ASSUME TypeOK, FailuresBelow, [Next]_vars
             PROVE  TypeOK'
  OBVIOUS
<1> USE DEF TypeOK
<1>1. CASE LoadAll
  BY <1>1 DEF LoadAll, ServicesOK, ProcessOK, BoundsOK
<1>2. CASE UpdatePricing
  BY <1>2 DEF UpdatePricing, ServicesOK, ProcessOK, BoundsOK
<1>3. CASE ListExtant
  <2>1. ProcessOK'
    <3>1. CASE Rogues = {}
      BY <1>3, <3>1, AfterRogueKillerTypes DEF ListExtant
    <3>2. CASE Rogues # {}
      BY <1>3, <3>2 DEF ListExtant, ProcessOK
    <3> QED
      BY <3>1, <3>2
  <2> QED
    BY <1>3, <2>1 DEF ListExtant, Rogues, ServicesOK, BoundsOK
<1>4. CASE EnsureKeyPair
  <2>1. DOMAIN loaded \subseteq WorkerType
    BY TableIs DEF ProcessOK
  <2> QED
    BY <1>4, <2>1 DEF EnsureKeyPair, ServicesOK, ProcessOK, BoundsOK
<1>5. ASSUME NEW w \in WorkerType, ReadQueue(w)
      PROVE  TypeOK'
  <2>1. [worker |-> w, tasks |-> tasks[w]] \in [worker : WorkerType, tasks : Nat]
    BY DEF ServicesOK
  <2> QED
    BY <1>5, <2>1 DEF ReadQueue, ServicesOK, ProcessOK, BoundsOK
<1>6. ASSUME NEW w \in WorkerType, FilterWorker(w)
      PROVE  TypeOK'
  BY <1>6 DEF FilterWorker, ServicesOK, ProcessOK, BoundsOK, NoBids
<1>7. ASSUME NEW r \in reading, ReadStats(r.worker, r.tasks)
      PROVE  TypeOK'
  <2>1. r.worker \in WorkerType
    BY DEF ProcessOK
  <2>2. unseen' \in Counts
    BY <1>7, <2>1, NoInstancesCounts DEF ReadStats, ServicesOK, Counts
  <2>3. bids' \in [WorkerType -> [Option -> Nat]] /\ hadSuccess' \in BOOLEAN
    <3>1. bids \in [WorkerType -> [Option -> Nat]] /\ hadSuccess \in BOOLEAN
      BY DEF ProcessOK
    <3>2. \/ UNCHANGED <<bids, hadSuccess>>
          \/ hadSuccess' = TRUE /\ UNCHANGED bids
          \/ /\ hadSuccess' = TRUE
             /\ \E b \in BidOutcomes(loaded[r.worker].bidding, pricing,
                                     ChangeFor(r.worker, r.tasks)) :
                   bids' = [bids EXCEPT ![r.worker] = b]
      BY <1>7 DEF ReadStats
    <3>3. ASSUME NEW b \in BidOutcomes(loaded[r.worker].bidding, pricing,
                                      ChangeFor(r.worker, r.tasks)),
                 bids' = [bids EXCEPT ![r.worker] = b]
          PROVE  bids' \in [WorkerType -> [Option -> Nat]]
      <4>1. b \in [Option -> Nat]
        BY OutcomesAreCounts
      <4> QED
        BY <3>1, <3>3, <4>1
    <3> QED
      BY <3>1, <3>2, <3>3
  <2> QED
    BY <1>7, <2>2, <2>3 DEF ReadStats, ServicesOK, ProcessOK, BoundsOK
<1>8. CASE DemandKnown
  <2>1. ProcessOK'
    <3>1. CASE Fail
      BY <1>8, <3>1, FailTypes DEF DemandKnown, FailuresBelow
    <3>2. CASE Succeed
      BY <1>8, <3>2, SucceedTypes DEF DemandKnown
    <3>3. CASE ~ Fail /\ ~ Succeed
      BY <1>8, <3>3 DEF DemandKnown, ProcessOK
    <3> QED
      BY <3>1, <3>2, <3>3
  <2> QED
    BY <1>8, <2>1 DEF DemandKnown, ServicesOK, BoundsOK
<1>9. CASE FilterDone
  BY <1>9, ProvisionerAssumption DEF FilterDone, ServicesOK, ProcessOK, BoundsOK
<1>10. ASSUME NEW w \in WorkerType, NEW o \in Option, StartSpawn(w, o)
      PROVE  TypeOK'
  <2>1. bids' \in [WorkerType -> [Option -> Nat]]
    <3>1. bids[w] \in [Option -> Nat] /\ bids[w][o] - 1 \in Nat
      BY <1>10 DEF StartSpawn, ProcessOK
    <3> QED
      BY <1>10, <3>1 DEF StartSpawn, ProcessOK
  <2>2. quota' \in [Region -> Nat]
    <3>1. RegionOfOption(o) \in Region
      BY OptionsAssumption DEF Option, RegionOfOption
    <3>2. quota[RegionOfOption(o)] - 1 \in Nat
      BY <1>10, <3>1 DEF StartSpawn, ProcessOK
    <3> QED
      BY <1>10, <3>1, <3>2 DEF StartSpawn, ProcessOK
  <2>3. inflight' \subseteq Spawns
    BY <1>10 DEF StartSpawn, ProcessOK, Spawns
  <2> QED
    BY <1>10, <2>1, <2>2, <2>3 DEF StartSpawn, ServicesOK, ProcessOK, BoundsOK
<1>11. ASSUME NEW s \in inflight, SpawnLands(s)
      PROVE  TypeOK'
  <2>1. OneMore(pending, s) \in Counts
    BY OneMoreCounts DEF ServicesOK, ProcessOK
  <2> QED
    BY <1>11, <2>1 DEF SpawnLands, ServicesOK, ProcessOK, BoundsOK
<1>12. CASE SpawnDone
  <2>1. ProcessOK'
    <3>1. CASE Fail
      BY <1>12, <3>1, FailTypes DEF SpawnDone, FailuresBelow
    <3>2. CASE Succeed
      BY <1>12, <3>2, SucceedTypes DEF SpawnDone
    <3> QED
      BY <1>12, <3>1, <3>2 DEF SpawnDone
  <2> QED
    BY <1>12, <2>1 DEF SpawnDone, ServicesOK, BoundsOK
<1>13. CASE Restart
  BY <1>13, ProvisionerAssumption DEF Restart, ServicesOK, ProcessOK, BoundsOK
<1>14. CASE IterationFault
  <2>1. ProcessOK'
    BY <1>14, FailTypes DEF IterationFault, FailuresBelow
  <2> QED
    BY <1>14, <2>1, ProvisionerAssumption DEF IterationFault, Fault, ServicesOK, BoundsOK
<1>15. CASE Crash
  <2>1. PICK carried \in SUBSET inflight :
          late' = [w \in WorkerType |-> [t \in InstanceType |->
                     late[w][t] + Cardinality({s \in carried :
                                      s.worker = w /\ s.option.type = t})]]
    BY <1>15 DEF Crash
  <2>2. ASSUME NEW w \in WorkerType, NEW t \in InstanceType
        PROVE  late[w][t] + Cardinality({s \in carried :
                                s.worker = w /\ s.option.type = t}) \in Nat
    <3>1. {s \in carried : s.worker = w /\ s.option.type = t} \in SUBSET Spawns
      BY <2>1 DEF ProcessOK
    <3>2. IsFiniteSet({s \in carried : s.worker = w /\ s.option.type = t})
      BY <3>1, SpawnsFinite, FS_Subset
    <3>3. Cardinality({s \in carried : s.worker = w /\ s.option.type = t}) \in Nat
      BY <3>2, FS_CardinalityType
    <3> QED
      BY <3>3, CountsNat DEF ServicesOK
  <2>3. late' \in Counts
    BY <2>1, <2>2 DEF Counts
  <2>4. ServicesOK'
    BY <1>15, <2>3 DEF Crash, ServicesOK
  <2>5. ProcessOK'
    BY <1>15, ForgottenLocals DEF Crash, ProcessOK
  <2> QED
    BY <1>15, <2>4, <2>5, ProvisionerAssumption DEF Crash, Fault, BoundsOK
<1>16. CASE ListFault
  <2>1. ProcessOK'
    BY <1>16, AfterRogueKillerTypes DEF ListFault
  <2> QED
    BY <1>16, <2>1, ProvisionerAssumption DEF ListFault, Fault, ServicesOK, BoundsOK
<1>17. CASE DemandFault
  BY <1>17, ProvisionerAssumption
  DEF DemandFault, Fault, ServicesOK, ProcessOK, BoundsOK
<1>18. ASSUME NEW w \in WorkerType, KillFault(w)
      PROVE  TypeOK'
  <2>1. ProcessOK'
    <3>1. CASE w \in waiting
      BY <1>18, <3>1, AfterRogueKillerTypes DEF KillFault
    <3>2. CASE w \notin waiting
      BY <1>18, <3>2 DEF KillFault, ProcessOK
    <3> QED
      BY <3>1, <3>2
  <2>2. killing' \subseteq WorkerType
    BY <1>18 DEF KillFault, ServicesOK
  <2> QED
    BY <1>18, <2>1, <2>2, ProvisionerAssumption
    DEF KillFault, Fault, ServicesOK, BoundsOK
<1>19. ASSUME NEW s \in inflight, SpawnFault(s)
      PROVE  TypeOK'
  <2>1. OneMore(pending, s) \in Counts /\ OneMore(late, s) \in Counts
    BY OneMoreCounts DEF ServicesOK, ProcessOK
  <2> QED
    BY <1>19, <2>1, ProvisionerAssumption
    DEF SpawnFault, Fault, ServicesOK, ProcessOK, BoundsOK
<1>20. ASSUME NEW w \in WorkerType, NEW d \in Definitions, CreateType(w, d)
      PROVE  TypeOK'
  <2>1. table \in [DOMAIN table -> Definitions] /\ DOMAIN table \in SUBSET WorkerType
    BY TableIs DEF ServicesOK
  <2>2. table' \in [DOMAIN table \cup {w} -> Definitions]
    BY <1>20, <2>1 DEF CreateType
  <2>3. table' \in Tables
    BY <2>1, <2>2, TableOf
  <2> QED
    BY <1>20, <2>3, ProvisionerAssumption
    DEF CreateType, Edit, ServicesOK, ProcessOK, BoundsOK
<1>21. ASSUME NEW w \in WorkerType, NEW d \in Definitions, UpdateType(w, d)
      PROVE  TypeOK'
  <2>1. table \in [DOMAIN table -> Definitions] /\ DOMAIN table \in SUBSET WorkerType
    BY TableIs DEF ServicesOK
  <2>2. table' \in [DOMAIN table -> Definitions]
    BY <1>21, <2>1 DEF UpdateType
  <2>3. table' \in Tables
    BY <2>1, <2>2, TableOf
  <2> QED
    BY <1>21, <2>3, ProvisionerAssumption
    DEF UpdateType, Edit, ServicesOK, ProcessOK, BoundsOK
<1>22. ASSUME NEW w \in WorkerType, RemoveType(w)
      PROVE  TypeOK'
  <2>1. table \in [DOMAIN table -> Definitions] /\ DOMAIN table \in SUBSET WorkerType
    BY TableIs DEF ServicesOK
  <2>2. table' \in [DOMAIN table \ {w} -> Definitions]
    BY <1>22, <2>1 DEF RemoveType, Restrict
  <2>3. table' \in Tables
    BY <2>1, <2>2, TableOf
  <2> QED
    BY <1>22, <2>3, ProvisionerAssumption
    DEF RemoveType, Edit, ServicesOK, ProcessOK, BoundsOK
<1>23. ASSUME NEW i \in Image, Deregister(i)
      PROVE  TypeOK'
  BY <1>23, ProvisionerAssumption
  DEF Deregister, Edit, ServicesOK, ProcessOK, BoundsOK
<1>24. ASSUME NEW w \in WorkerType, KillLands(w)
      PROVE  TypeOK'
  <2>1. ProcessOK'
    <3>1. CASE waiting = {w}
      BY <1>24, <3>1, AfterRogueKillerTypes DEF KillLands
    <3>2. CASE waiting # {w}
      BY <1>24, <3>2 DEF KillLands, ProcessOK
    <3> QED
      BY <3>1, <3>2
  <2>2. pending' \in Counts /\ running' \in Counts
    BY <1>24, NoInstancesCounts DEF KillLands, ServicesOK, Counts
  <2> QED
    BY <1>24, <2>1, <2>2 DEF KillLands, ServicesOK, BoundsOK
<1>25. ASSUME NEW w \in WorkerType, NEW t \in InstanceType, LateLands(w, t)
      PROVE  TypeOK'
  <2>1. late[w][t] - 1 \in Nat /\ pending[w][t] + 1 \in Nat /\ unseen[w][t] + 1 \in Nat
    BY <1>25, CountsNat DEF LateLands, ServicesOK
  <2>2. ServicesOK'
    BY <1>25, <2>1, CountsChange DEF LateLands, ServicesOK
  <2> QED
    BY <1>25, <2>2 DEF LateLands, ProcessOK, BoundsOK
<1>26. ASSUME NEW w \in WorkerType, NEW t \in InstanceType, Boot(w, t)
      PROVE  TypeOK'
  <2>1. pending[w][t] - 1 \in Nat /\ running[w][t] + 1 \in Nat
    BY <1>26, CountsNat DEF Boot, ServicesOK
  <2>2. ServicesOK'
    BY <1>26, <2>1, CountsChange DEF Boot, ServicesOK
  <2> QED
    BY <1>26, <2>2 DEF Boot, ProcessOK, BoundsOK
<1>27. ASSUME NEW w \in WorkerType, NEW t \in InstanceType, Gone(w, t)
      PROVE  TypeOK'
  <2>1. /\ pending[w][t] > 0 => pending[w][t] - 1 \in Nat
        /\ running[w][t] > 0 => running[w][t] - 1 \in Nat
    BY CountsNat DEF ServicesOK
  <2>2. ServicesOK'
    BY <1>27, <2>1, CountsChange DEF Gone, ServicesOK
  <2> QED
    BY <1>27, <2>2, ProvisionerAssumption DEF Gone, ProcessOK, BoundsOK
<1>28. ASSUME NEW w \in WorkerType, Arrive(w)
      PROVE  TypeOK'
  BY <1>28, ProvisionerAssumption DEF Arrive, ServicesOK, ProcessOK, BoundsOK
<1>29. ASSUME NEW w \in WorkerType, Claim(w)
      PROVE  TypeOK'
  BY <1>29 DEF Claim, ServicesOK, ProcessOK, BoundsOK
<1>30. CASE UNCHANGED vars
  BY <1>30 DEF vars, ServicesOK, ProcessOK, BoundsOK
<1> QED
  BY <1>1, <1>2, <1>3, <1>4, <1>5, <1>6, <1>7, <1>8, <1>9, <1>10, <1>11,
     <1>12, <1>13, <1>14, <1>15, <1>16, <1>17, <1>18, <1>19, <1>20, <1>21,
     <1>22, <1>23, <1>24, <1>25, <1>26, <1>27, <1>28, <1>29, <1>30
  DEF Next, Step, Faults, Api, Environment

LEMMA InitTypes == Init => TypeOK /\ FailuresBelow /\ KillerWaits
<1> SUFFICES ASSUME Init PROVE TypeOK /\ FailuresBelow /\ KillerWaits
  OBVIOUS
<1>1. ServicesOK
  BY NoInstancesCounts DEF Init, ServicesOK
<1>2. ProcessOK
  <2>1. bids \in [WorkerType -> [Option -> Nat]] /\ quota \in [Region -> Nat]
    BY DEF Init, NoPlan, NoBids
  <2>2. loaded \in Tables
    BY EmptyTable DEF Init
  <2>3. /\ pc = "idle" /\ pricing \in Pricings /\ hadSuccess = FALSE
        /\ waiting = {} /\ todo = {} /\ reading = {} /\ inflight = {}
        /\ failures = 0
    BY DEF Init
  <2>4. failures \in 0 .. MaxFailures
    BY <2>3, ProvisionerAssumption
  <2> QED
    BY <2>1, <2>2, <2>3, <2>4 DEF ProcessOK
<1>3. BoundsOK /\ FailuresBelow /\ KillerWaits
  BY ProvisionerAssumption DEF Init, BoundsOK, FailuresBelow, KillerWaits
<1> QED
  BY <1>1, <1>2, <1>3 DEF TypeOK

LEMMA StepWaits == KillerWaits /\ [Next]_vars => KillerWaits'
<1> SUFFICES ASSUME KillerWaits, [Next]_vars
             PROVE  KillerWaits'
  OBVIOUS
<1>1. CASE waiting' = {}
  BY <1>1 DEF KillerWaits
<1>2. CASE pc' = "killing"
  BY <1>2 DEF KillerWaits
<1>3. CASE waiting' = waiting /\ (pc' = pc \/ pc # "killing")
  BY <1>3 DEF KillerWaits
<1>4. Step => \/ waiting' = {} \/ pc' = "killing"
              \/ waiting' = waiting /\ (pc' = pc \/ pc # "killing")
  BY DEF Step, LoadAll, UpdatePricing, ListExtant, AfterRogueKiller, Succeed,
         Fail, ForgetLocals, EnsureKeyPair, ReadQueue, FilterWorker, ReadStats,
         DemandKnown, FilterDone, StartSpawn, SpawnLands, SpawnDone, Restart
<1>5. ASSUME Faults
      PROVE  KillerWaits'
  <2>1. ASSUME NEW w \in WorkerType, KillFault(w)
        PROVE  KillerWaits'
    <3>1. CASE w \in waiting
      BY <2>1, <3>1 DEF KillFault, AfterRogueKiller, Succeed, ForgetLocals, KillerWaits
    <3>2. CASE w \notin waiting
      BY <2>1, <3>2 DEF KillFault, KillerWaits
    <3> QED
      BY <3>1, <3>2
  <2>2. ASSUME NEW s \in inflight, SpawnFault(s)
        PROVE  KillerWaits'
    BY <2>2 DEF SpawnFault, KillerWaits
  <2>3. CASE IterationFault \/ Crash \/ ListFault
    BY <2>3 DEF IterationFault, Crash, ListFault, AfterRogueKiller, Succeed, Fail,
                ForgetLocals, KillerWaits
  <2>4. CASE DemandFault
    BY <2>4 DEF DemandFault, KillerWaits
  <2> QED
    BY <1>5, <2>1, <2>2, <2>3, <2>4 DEF Faults
<1>6. Api => waiting' = waiting /\ pc' = pc
  BY DEF Api, CreateType, UpdateType, RemoveType
<1>7. ASSUME NEW w \in WorkerType, KillLands(w)
      PROVE  KillerWaits'
  <2>1. CASE waiting = {w}
    BY <1>7, <2>1 DEF KillLands, AfterRogueKiller, Succeed, ForgetLocals, KillerWaits
  <2>2. CASE waiting # {w}
    BY <1>7, <2>2 DEF KillLands, KillerWaits
  <2> QED
    BY <2>1, <2>2
<1>8. ASSUME Environment, \A w \in WorkerType : ~ KillLands(w)
      PROVE  waiting' = waiting /\ pc' = pc
  BY <1>8 DEF Environment, Deregister, Arrive, Claim, LateLands, Boot, Gone
<1>9. UNCHANGED vars => waiting' = waiting /\ pc' = pc
  BY DEF vars
<1> QED
  BY <1>1, <1>2, <1>3, <1>4, <1>5, <1>6, <1>7, <1>8, <1>9 DEF Next

(* The failure count reaches its limit only in the step that ends the process. *)
LEMMA StepFailures ==
    TypeOK /\ FailuresBelow /\ KillerWaits /\ [Next]_vars => FailuresBelow'
<1> SUFFICES ASSUME TypeOK, FailuresBelow, KillerWaits, [Next]_vars
             PROVE  FailuresBelow'
  OBVIOUS
<1>1. failures \in Nat /\ MaxFailures \in Nat \ {0}
  BY ProvisionerAssumption DEF TypeOK, ProcessOK
<1>2. CASE Fail
  BY <1>1, <1>2 DEF Fail, FailuresBelow
<1>3. CASE failures' = 0
  BY <1>1, <1>3 DEF FailuresBelow
<1>4. CASE pc' = "down"
  BY <1>4 DEF FailuresBelow
<1>5. CASE failures' = failures /\ pc # "down"
  BY <1>5 DEF FailuresBelow
<1>6. CASE failures' = failures /\ pc' = pc
  BY <1>6 DEF FailuresBelow
<1>7. Step => \/ Fail
              \/ failures' = 0
              \/ failures' = failures /\ pc # "down"
              \/ failures' = failures /\ pc' = pc
  BY DEF Step, LoadAll, UpdatePricing, ListExtant, AfterRogueKiller, Succeed,
         EnsureKeyPair, ReadQueue, FilterWorker, ReadStats, DemandKnown,
         FilterDone, StartSpawn, SpawnLands, SpawnDone, Restart
<1>8. ASSUME NEW w \in WorkerType, KillFault(w)
      PROVE  failures' = 0 \/ (failures' = failures /\ (pc # "down" \/ pc' = pc))
  BY <1>8 DEF KillFault, AfterRogueKiller, Succeed, KillerWaits
<1>9. Faults => \/ Fail
                \/ failures' = 0
                \/ pc' = "down"
                \/ (failures' = failures /\ (pc # "down" \/ pc' = pc))
  BY <1>8 DEF Faults, IterationFault, Crash, ListFault, AfterRogueKiller,
              Succeed, DemandFault, SpawnFault
<1>10. Api => failures' = failures /\ pc' = pc
  BY DEF Api, CreateType, UpdateType, RemoveType
<1>11. ASSUME NEW w \in WorkerType, KillLands(w)
       PROVE  failures' = 0 \/ (failures' = failures /\ (pc # "down" \/ pc' = pc))
  BY <1>11 DEF KillLands, AfterRogueKiller, Succeed, KillerWaits
<1>12. Environment => \/ failures' = 0
                      \/ (failures' = failures /\ (pc # "down" \/ pc' = pc))
  BY <1>11 DEF Environment, Deregister, Arrive, Claim, LateLands, Boot, Gone
<1>13. UNCHANGED vars => failures' = failures /\ pc' = pc
  BY DEF vars
<1> QED
  BY <1>2, <1>3, <1>4, <1>5, <1>6, <1>7, <1>9, <1>10, <1>12, <1>13 DEF Next

(* Whatever happens, the program's state stays well formed, and the failure    *)
(* count of the iteration never passes its limit.                              *)
THEOREM TypeCorrect == Spec => []TypeOK
<1>1. Init => TypeOK /\ FailuresBelow /\ KillerWaits
  BY InitTypes
<1>2. /\ TypeOK /\ FailuresBelow /\ KillerWaits /\ [Next]_vars
      => TypeOK' /\ FailuresBelow' /\ KillerWaits'
  BY StepTypes, StepFailures, StepWaits
<1> QED
  BY <1>1, <1>2, PTL DEF Spec

-----------------------------------------------------------------------------
(* The rogue killer kills only what was removed.  Any instance, and any request*)
(* given up, has a name that is or was in the table: it came from a bid, a bid *)
(* from the iteration's copy, and the copy from the table.  So an instance     *)
(* whose name is missing from a copy of the table was removed, and it stays so *)
(* while the copy is listed against the instances, for nothing is submitted    *)
(* then.                                                                       *)

Known      == DOMAIN table \cup removed
Present(w) == \E t \in InstanceType :
                  pending[w][t] > 0 \/ running[w][t] > 0 \/ late[w][t] > 0

InstancesKnown == \A w \in WorkerType : Present(w) => w \in Known
CopyKnown      == DOMAIN loaded \subseteq Known
WorkFromCopy   ==
    /\ todo \subseteq DOMAIN loaded
    /\ \A r \in reading : r.worker \in DOMAIN loaded
    /\ \A w \in WorkerType : \A o \in Option : bids[w][o] > 0 => w \in DOMAIN loaded
    /\ \A s \in inflight : s.worker \in DOMAIN loaded
SubmitsLast    == inflight # {} => pc = "spawn"
MissingRemoved ==
    pc \in {"update", "list"} =>
      \A w \in WorkerType : Present(w) => w \in DOMAIN loaded \cup removed

StartsFresh    ==
    pc \in {"idle", "down"} =>
      todo = {} /\ reading = {} /\ bids = NoPlan /\ inflight = {}

RogueInv ==
    /\ StartsFresh
    /\ InstancesKnown /\ CopyKnown /\ WorkFromCopy /\ SubmitsLast
    /\ MissingRemoved /\ KillsOnlyRemoved

(* Names are never forgotten.                                                  *)
LEMMA StepKnown ==
    ASSUME [Next]_vars
    PROVE  Known \subseteq Known' /\ removed \subseteq removed'
<1>1. CASE UNCHANGED <<table, removed>>
  BY <1>1 DEF Known
<1>2. ASSUME NEW w \in WorkerType, NEW d \in Definitions,
             CreateType(w, d) \/ UpdateType(w, d)
      PROVE  Known \subseteq Known' /\ removed \subseteq removed'
  <2>1. DOMAIN table \subseteq DOMAIN table' /\ removed' = removed
    BY <1>2 DEF CreateType, UpdateType
  <2> QED
    BY <2>1 DEF Known
<1>3. ASSUME NEW w \in WorkerType, RemoveType(w)
      PROVE  Known \subseteq Known' /\ removed \subseteq removed'
  <2>1. DOMAIN table' = DOMAIN table \ {w} /\ removed' = removed \cup {w}
    BY <1>3 DEF RemoveType, Restrict
  <2> QED
    BY <2>1 DEF Known
<1>4. CASE Api
  BY <1>2, <1>3, <1>4 DEF Api
<1>5. Step => UNCHANGED <<table, removed>>
  BY DEF Step, LoadAll, UpdatePricing, ListExtant, EnsureKeyPair, ReadQueue,
         FilterWorker, ReadStats, DemandKnown, FilterDone, StartSpawn, SpawnLands,
         SpawnDone, Restart
<1>6. Faults => UNCHANGED <<table, removed>>
  BY DEF Faults, IterationFault, Crash, ListFault, DemandFault, KillFault, SpawnFault
<1>7. Environment => UNCHANGED <<table, removed>>
  BY DEF Environment, Deregister, KillLands, Arrive, Claim, LateLands, Boot, Gone
<1>8. UNCHANGED vars => UNCHANGED <<table, removed>>
  BY DEF vars
<1> QED
  BY <1>1, <1>4, <1>5, <1>6, <1>7, <1>8 DEF Next

(* Instances appear only for requests the iteration submits or gave up on.     *)
LEMMA StepPresent ==
    ASSUME TypeOK, [Next]_vars, NEW w \in WorkerType, Present(w)'
    PROVE  Present(w) \/ \E s \in inflight : s.worker = w
<1> USE DEF TypeOK, ServicesOK, ProcessOK, Present
<1>1. CASE UNCHANGED <<pending, running, late>>
  BY <1>1
<1>2. ASSUME NEW s \in inflight, SpawnLands(s) \/ SpawnFault(s)
      PROVE  Present(w) \/ s.worker = w
  <2>1. s.worker \in WorkerType /\ s.option.type \in InstanceType
    BY DEF Spawns, Option
  <2>2. ASSUME s.worker # w, NEW count \in Counts
        PROVE  OneMore(count, s)[w] = count[w]
    BY <2>1, <2>2 DEF OneMore, Counts
  <2>3. CASE s.worker # w
    <3>1. pending'[w] = pending[w] /\ late'[w] = late[w] /\ running' = running
      BY <1>2, <2>2, <2>3 DEF SpawnLands, SpawnFault
    <3> QED
      BY <3>1
  <2> QED
    BY <2>3
<1>3. CASE Crash
  <2>1. PICK carried \in SUBSET inflight :
          late' = [x \in WorkerType |-> [t \in InstanceType |->
                     late[x][t] + Cardinality({s \in carried :
                                      s.worker = x /\ s.option.type = t})]]
    BY <1>3 DEF Crash
  <2>2. UNCHANGED <<pending, running>>
    BY <1>3 DEF Crash
  <2>3. CASE \E s \in inflight : s.worker = w
    BY <2>3
  <2>4. CASE \A s \in inflight : s.worker # w
    <3>1. ASSUME NEW t \in InstanceType
          PROVE  late'[w][t] = late[w][t]
      <4>1. {s \in carried : s.worker = w /\ s.option.type = t} = {}
        BY <2>1, <2>4
      <4>2. Cardinality({s \in carried : s.worker = w /\ s.option.type = t}) = 0
        BY <4>1, FS_EmptySet
      <4>3. late[w][t] \in Nat
        BY CountsNat
      <4> QED
        BY <2>1, <4>2, <4>3
    <3> QED
      BY <2>2, <3>1
  <2> QED
    BY <2>3, <2>4
<1>4. ASSUME NEW x \in WorkerType, KillLands(x)
      PROVE  Present(w)
  <2>1. ASSUME NEW t \in InstanceType
        PROVE  /\ pending'[w][t] > 0 => pending[w][t] > 0
               /\ running'[w][t] > 0 => running[w][t] > 0
    BY <1>4, CountsNat DEF KillLands, NoInstances, Counts
  <2> QED
    BY <1>4, <2>1 DEF KillLands
<1>5. ASSUME NEW x \in WorkerType, NEW u \in InstanceType,
             LateLands(x, u) \/ Boot(x, u) \/ Gone(x, u)
      PROVE  Present(w)
  <2>1. CASE x # w
    <3>1. pending'[w] = pending[w] /\ running'[w] = running[w] /\ late'[w] = late[w]
      BY <1>5, <2>1 DEF LateLands, Boot, Gone, Counts
    <3> QED
      BY <3>1
  <2>2. CASE x = w
    BY <1>5, <2>2 DEF LateLands, Boot, Gone
  <2> QED
    BY <2>1, <2>2
<1>6. Step => \/ UNCHANGED <<pending, running, late>>
              \/ \E s \in inflight : SpawnLands(s)
  BY DEF Step, LoadAll, UpdatePricing, ListExtant, EnsureKeyPair, ReadQueue,
         FilterWorker, ReadStats, DemandKnown, FilterDone, StartSpawn,
         SpawnDone, Restart
<1>7. Faults => \/ UNCHANGED <<pending, running, late>> \/ Crash
                \/ \E s \in inflight : SpawnFault(s)
  BY DEF Faults, IterationFault, ListFault, DemandFault, KillFault
<1>8. Api => UNCHANGED <<pending, running, late>>
  BY DEF Api, CreateType, UpdateType, RemoveType
<1>9. Environment => \/ UNCHANGED <<pending, running, late>>
                     \/ \E x \in WorkerType : KillLands(x)
                     \/ \E x \in WorkerType, u \in InstanceType :
                          LateLands(x, u) \/ Boot(x, u) \/ Gone(x, u)
  BY DEF Environment, Deregister, Arrive, Claim
<1>10. UNCHANGED vars => UNCHANGED <<pending, running, late>>
  BY DEF vars
<1> QED
  BY <1>1, <1>2, <1>3, <1>4, <1>5, <1>6, <1>7, <1>8, <1>9, <1>10 DEF Next

(* The iteration starts afresh, copies the table, keeps its copy or kills.     *)
LEMMA StepCopy ==
    ASSUME KillerWaits, [Next]_vars
    PROVE  \/ ForgetLocals /\ pc' \in {"idle", "down"}
           \/ LoadAll
           \/ loaded' = loaded /\ pc' = pc
           \/ loaded' = loaded /\ pc' = "list" /\ pc = "update"
           \/ loaded' = loaded /\ pc' \notin {"idle", "down", "update", "list"}
           \/ Restart
<1>1. AfterRogueKiller => \/ ForgetLocals /\ pc' \in {"idle", "down"}
                          \/ loaded' = loaded /\ pc' = "keypair"
  BY DEF AfterRogueKiller, Succeed
<1>2. Fail \/ Succeed => ForgetLocals /\ pc' \in {"idle", "down"}
  BY DEF Fail, Succeed
<1>3. CASE Step
  BY <1>1, <1>2, <1>3
  DEF Step, UpdatePricing, ListExtant, EnsureKeyPair, ReadQueue, FilterWorker,
      ReadStats, DemandKnown, FilterDone, StartSpawn, SpawnLands, SpawnDone
<1>4. CASE Faults
  <2>1. ASSUME NEW w \in WorkerType, KillFault(w)
        PROVE  \/ ForgetLocals /\ pc' \in {"idle", "down"}
               \/ loaded' = loaded /\ pc' = "keypair"
               \/ loaded' = loaded /\ pc' = pc
    <3>1. CASE w \in waiting
      BY <1>1, <2>1, <3>1 DEF KillFault
    <3>2. CASE w \notin waiting
      BY <2>1, <3>2 DEF KillFault
    <3> QED
      BY <3>1, <3>2
  <2> QED
    BY <1>1, <1>2, <1>4, <2>1
    DEF Faults, IterationFault, Crash, ListFault, DemandFault, SpawnFault
<1>5. CASE Api
  BY <1>5 DEF Api, CreateType, UpdateType, RemoveType
<1>6. CASE Environment
  <2>1. ASSUME NEW w \in WorkerType, KillLands(w)
        PROVE  \/ ForgetLocals /\ pc' \in {"idle", "down"}
               \/ loaded' = loaded /\ pc' = "keypair"
               \/ loaded' = loaded /\ pc' = pc
    <3>1. CASE waiting = {w}
      BY <1>1, <2>1, <3>1 DEF KillLands
    <3>2. CASE waiting # {w}
      BY <2>1, <3>2 DEF KillLands
    <3> QED
      BY <3>1, <3>2
  <2> QED
    BY <1>1, <1>6, <2>1 DEF Environment, Deregister, Arrive, Claim, LateLands, Boot, Gone
<1>7. CASE UNCHANGED vars
  BY <1>7 DEF vars
<1> QED
  BY <1>3, <1>4, <1>5, <1>6, <1>7 DEF Next

LEMMA ForgottenWork ==
    ASSUME ForgetLocals
    PROVE  WorkFromCopy' /\ CopyKnown' /\ SubmitsLast'
BY DEF ForgetLocals, NoPlan, NoBids, WorkFromCopy, CopyKnown, SubmitsLast

(* All the iteration works on is in its copy of the table.                     *)
LEMMA StepWork ==
    ASSUME TypeOK, RogueInv, KillerWaits, [Next]_vars
    PROVE  WorkFromCopy' /\ SubmitsLast'
<1> USE DEF RogueInv
<1>1. CASE ForgetLocals
  BY <1>1, ForgottenWork
<1>2. CASE UNCHANGED <<pc, loaded, todo, reading, bids, inflight>>
  BY <1>2 DEF WorkFromCopy, SubmitsLast
<1>3. AfterRogueKiller => \/ ForgetLocals
                          \/ /\ UNCHANGED <<loaded, todo, reading, bids, inflight>>
                             /\ pc' = "keypair"
  BY DEF AfterRogueKiller, Succeed
<1>4. ASSUME UNCHANGED <<loaded, todo, reading, bids, inflight>>, pc # "spawn"
      PROVE  WorkFromCopy' /\ SubmitsLast'
  BY <1>4 DEF WorkFromCopy, SubmitsLast
<1>5. CASE LoadAll
  BY <1>5 DEF LoadAll, StartsFresh, NoPlan, NoBids, WorkFromCopy, SubmitsLast
<1>6. CASE UpdatePricing
  BY <1>4, <1>6 DEF UpdatePricing
<1>7. CASE ListExtant
  <2>1. CASE Rogues = {}
    BY <1>1, <1>3, <1>4, <1>7, <2>1 DEF ListExtant
  <2>2. CASE Rogues # {}
    BY <1>4, <1>7, <2>2 DEF ListExtant
  <2> QED
    BY <2>1, <2>2
<1>8. CASE EnsureKeyPair
  BY <1>8 DEF EnsureKeyPair, WorkFromCopy, SubmitsLast
<1>9. ASSUME NEW w \in WorkerType, ReadQueue(w)
      PROVE  WorkFromCopy' /\ SubmitsLast'
  BY <1>9 DEF ReadQueue, WorkFromCopy, SubmitsLast
<1>10. ASSUME NEW r \in reading, ReadStats(r.worker, r.tasks)
       PROVE  WorkFromCopy' /\ SubmitsLast'
  <2>1. /\ UNCHANGED <<pc, loaded, todo, inflight>> /\ reading' = {}
        /\ \/ UNCHANGED bids
           \/ \E b : bids' = [bids EXCEPT ![r.worker] = b]
    BY <1>10 DEF ReadStats
  <2>2. r.worker \in DOMAIN loaded /\ bids \in [WorkerType -> [Option -> Nat]]
    BY DEF WorkFromCopy, TypeOK, ProcessOK
  <2>3. ASSUME NEW w \in WorkerType, NEW o \in Option, bids'[w][o] > 0
        PROVE  w \in DOMAIN loaded
    <3>1. CASE w = r.worker
      BY <2>2, <3>1
    <3>2. CASE w # r.worker
      <4>1. bids'[w] = bids[w]
        BY <2>1, <2>2, <3>2
      <4> QED
        BY <2>3, <4>1 DEF WorkFromCopy
    <3> QED
      BY <3>1, <3>2
  <2> QED
    BY <2>1, <2>3 DEF WorkFromCopy, SubmitsLast
<1>11. CASE DemandKnown
  <2>1. CASE Fail \/ Succeed
    BY <1>1, <2>1 DEF Fail, Succeed
  <2>2. CASE ~ Fail /\ ~ Succeed
    <3>1. /\ UNCHANGED <<loaded, reading, bids, inflight>>
          /\ pc = "types"
          /\ todo' = {w \in WorkerType : bids[w] # NoBids}
      BY <1>11, <2>2 DEF DemandKnown
    <3>2. ASSUME NEW w \in WorkerType, bids[w] # NoBids
          PROVE  w \in DOMAIN loaded
      <4>1. bids[w] \in [Option -> Nat]
        BY DEF TypeOK, ProcessOK
      <4>2. PICK o \in Option : bids[w][o] # 0
        BY <3>2, <4>1 DEF NoBids
      <4>3. bids[w][o] > 0
        BY <4>1, <4>2
      <4> QED
        BY <4>3 DEF WorkFromCopy
    <3> QED
      BY <3>1, <3>2 DEF WorkFromCopy, SubmitsLast
  <2> QED
    BY <2>1, <2>2
<1>12. ASSUME NEW w \in WorkerType, FilterWorker(w)
       PROVE  WorkFromCopy' /\ SubmitsLast'
  <2>1. /\ UNCHANGED <<pc, loaded, reading, inflight>> /\ todo' = todo \ {w}
        /\ bids' = bids \/ bids' = [bids EXCEPT ![w] = NoBids]
    BY <1>12 DEF FilterWorker
  <2>2. ASSUME NEW x \in WorkerType, NEW o \in Option
        PROVE  bids'[x][o] = bids[x][o] \/ bids'[x][o] = 0
    BY <2>1 DEF NoBids, TypeOK, ProcessOK
  <2> QED
    BY <2>1, <2>2 DEF WorkFromCopy, SubmitsLast
<1>13. CASE FilterDone
  BY <1>13 DEF FilterDone, WorkFromCopy, SubmitsLast
<1>14. ASSUME NEW w \in WorkerType, NEW o \in Option, StartSpawn(w, o)
       PROVE  WorkFromCopy' /\ SubmitsLast'
  <2>1. /\ UNCHANGED <<pc, loaded, todo, reading>> /\ pc = "spawn"
        /\ bids[w][o] > 0 /\ bids' = [bids EXCEPT ![w][o] = @ - 1]
        /\ inflight' = inflight \cup {[worker |-> w, option |-> o]}
    BY <1>14 DEF StartSpawn
  <2>2. ASSUME NEW x \in WorkerType, NEW p \in Option, bids'[x][p] > 0
        PROVE  bids[x][p] > 0
    BY <2>1, <2>2 DEF TypeOK, ProcessOK
  <2> QED
    BY <2>1, <2>2 DEF WorkFromCopy, SubmitsLast
<1>15. ASSUME NEW s \in inflight, SpawnLands(s) \/ SpawnFault(s)
       PROVE  WorkFromCopy' /\ SubmitsLast'
  <2>1. UNCHANGED <<pc, loaded, todo, reading, bids>> /\ inflight' \subseteq inflight
    BY <1>15 DEF SpawnLands, SpawnFault
  <2> QED
    BY <2>1 DEF WorkFromCopy, SubmitsLast
<1>16. CASE SpawnDone \/ IterationFault \/ Crash
  BY <1>1, <1>16 DEF SpawnDone, IterationFault, Crash, Fail, Succeed
<1>17. CASE Restart
  BY <1>4, <1>17 DEF Restart
<1>18. CASE ListFault
  BY <1>1, <1>3, <1>4, <1>18 DEF ListFault
<1>19. CASE DemandFault
  <2>1. UNCHANGED <<pc, loaded, bids, inflight>>
    BY <1>19 DEF DemandFault
  <2>2. todo' \subseteq todo /\ reading' \subseteq reading
    BY <1>19 DEF DemandFault
  <2> QED
    BY <2>1, <2>2 DEF WorkFromCopy, SubmitsLast
<1>20. ASSUME NEW w \in WorkerType, KillFault(w)
       PROVE  WorkFromCopy' /\ SubmitsLast'
  <2>1. CASE w \in waiting
    <3>1. pc # "spawn"
      BY <2>1 DEF KillerWaits
    <3> QED
      BY <1>1, <1>3, <1>4, <1>20, <2>1, <3>1 DEF KillFault
  <2>2. CASE w \notin waiting
    BY <1>2, <1>20, <2>2 DEF KillFault
  <2> QED
    BY <2>1, <2>2
<1>21. ASSUME NEW w \in WorkerType, KillLands(w)
       PROVE  WorkFromCopy' /\ SubmitsLast'
  <2>1. CASE waiting = {w}
    <3>1. pc # "spawn"
      BY <2>1 DEF KillerWaits
    <3> QED
      BY <1>1, <1>3, <1>4, <1>21, <2>1, <3>1 DEF KillLands
  <2>2. CASE waiting # {w}
    BY <1>2, <1>21, <2>2 DEF KillLands
  <2> QED
    BY <2>1, <2>2
<1>22. CASE Api
  BY <1>2, <1>22 DEF Api, CreateType, UpdateType, RemoveType
<1>23. ASSUME Environment, \A w \in WorkerType : ~ KillLands(w)
       PROVE  UNCHANGED <<pc, loaded, todo, reading, bids, inflight>>
  BY <1>23 DEF Environment, Deregister, Arrive, Claim, LateLands, Boot, Gone
<1>24. CASE UNCHANGED vars
  BY <1>2, <1>24 DEF vars
<1> QED
  BY <1>2, <1>5, <1>6, <1>7, <1>8, <1>9, <1>10, <1>11, <1>12, <1>13, <1>14, <1>15,
     <1>16, <1>17, <1>18, <1>19, <1>20, <1>21, <1>22, <1>23, <1>24
  DEF Next, Step, Faults

(* Between iterations there is nothing left to work on.                        *)
LEMMA StepFresh ==
    ASSUME TypeOK, RogueInv, KillerWaits, [Next]_vars
    PROVE  StartsFresh'
<1>1. CASE ForgetLocals
  BY <1>1 DEF ForgetLocals, StartsFresh
<1>2. CASE pc' \notin {"idle", "down"}
  BY <1>2 DEF StartsFresh
<1>3. CASE Restart
  BY <1>3 DEF Restart, StartsFresh, RogueInv
<1>4. CASE LoadAll
  BY <1>2, <1>4 DEF LoadAll
<1>5. CASE pc' = pc /\ pc \in {"idle", "down"} /\ ~ ForgetLocals
  <2>1. /\ todo = {} /\ reading = {} /\ bids = NoPlan /\ inflight = {}
        /\ waiting = {}
    BY <1>5 DEF RogueInv, StartsFresh, KillerWaits
  <2>2. CASE UNCHANGED <<todo, reading, bids, inflight>>
    BY <2>1, <2>2 DEF StartsFresh
  <2>3. ~ Step
    BY <1>5, <2>1
    DEF Step, LoadAll, UpdatePricing, ListExtant, EnsureKeyPair, ReadQueue,
        FilterWorker, DemandKnown, FilterDone, StartSpawn, SpawnDone, Restart
  <2>4. ASSUME NEW w \in WorkerType, KillFault(w)
        PROVE  UNCHANGED <<todo, reading, bids, inflight>>
    BY <2>1, <2>4 DEF KillFault
  <2>5. Faults => UNCHANGED <<todo, reading, bids, inflight>>
    BY <1>5, <2>1, <2>4
    DEF Faults, IterationFault, Fail, Crash, ListFault, DemandFault
  <2>6. Api => UNCHANGED <<todo, reading, bids, inflight>>
    BY DEF Api, CreateType, UpdateType, RemoveType
  <2>7. ASSUME NEW w \in WorkerType, KillLands(w)
        PROVE  UNCHANGED <<todo, reading, bids, inflight>>
    BY <2>1, <2>7 DEF KillLands
  <2>8. Environment => UNCHANGED <<todo, reading, bids, inflight>>
    BY <2>7 DEF Environment, Deregister, Arrive, Claim, LateLands, Boot, Gone
  <2>9. UNCHANGED vars => UNCHANGED <<todo, reading, bids, inflight>>
    BY DEF vars
  <2> QED
    BY <2>2, <2>3, <2>5, <2>6, <2>8, <2>9 DEF Next
<1> QED
  BY <1>1, <1>2, <1>3, <1>4, <1>5, StepCopy

(* Instances keep a known name, and the copy names only known worker types.    *)
LEMMA StepNames ==
    ASSUME TypeOK, RogueInv, KillerWaits, [Next]_vars
    PROVE  InstancesKnown' /\ CopyKnown'
<1>1. Known \subseteq Known'
  BY StepKnown
<1>2. ASSUME NEW w \in WorkerType, Present(w)'
      PROVE  w \in Known'
  <2>1. Present(w) \/ \E s \in inflight : s.worker = w
    BY <1>2, StepPresent
  <2> QED
    BY <1>1, <2>1 DEF RogueInv, InstancesKnown, CopyKnown, WorkFromCopy
<1>3. CopyKnown'
  <2>1. CASE ForgetLocals
    BY <2>1, ForgottenWork
  <2>2. CASE LoadAll
    BY <2>2 DEF LoadAll, CopyKnown, Known
  <2>3. CASE loaded' = loaded
    BY <1>1, <2>3 DEF RogueInv, CopyKnown
  <2> QED
    BY <2>1, <2>2, <2>3, StepCopy DEF Restart
<1> QED
  BY <1>2, <1>3 DEF InstancesKnown

(* Between the copy and the list nothing is submitted, so what has instances   *)
(* and is not in the copy was removed.                                         *)
LEMMA StepMissing ==
    ASSUME TypeOK, RogueInv, KillerWaits, [Next]_vars
    PROVE  MissingRemoved'
<1>1. SUFFICES ASSUME pc' \in {"update", "list"},
                      NEW w \in WorkerType, Present(w)'
               PROVE  w \in DOMAIN loaded' \cup removed'
  BY DEF MissingRemoved
<1>2. removed \subseteq removed'
  BY StepKnown
<1>3. CASE LoadAll
  <2>1. /\ loaded' = table /\ removed' = removed
        /\ UNCHANGED <<pending, running, late>>
    BY <1>3 DEF LoadAll
  <2>2. Present(w)
    BY <1>1, <2>1 DEF Present
  <2> QED
    BY <2>1, <2>2 DEF RogueInv, InstancesKnown, Known
<1>4. CASE loaded' = loaded /\ pc \in {"update", "list"}
  <2>1. inflight = {}
    BY <1>4 DEF RogueInv, SubmitsLast
  <2>2. Present(w)
    BY <1>1, <2>1, StepPresent
  <2> QED
    BY <1>2, <1>4, <2>2 DEF RogueInv, MissingRemoved
<1> QED
  BY <1>1, <1>3, <1>4, StepCopy DEF Restart

(* The rogues of a list are names that were removed.                           *)
LEMMA StepKills ==
    ASSUME TypeOK, RogueInv, [Next]_vars
    PROVE  KillsOnlyRemoved'
<1>1. removed \subseteq removed'
  BY StepKnown
<1>2. CASE killing' \subseteq killing
  BY <1>1, <1>2 DEF RogueInv, KillsOnlyRemoved
<1>3. CASE ListExtant
  <2>1. ASSUME NEW w \in Rogues
        PROVE  w \in removed
    <3>1. PICK t \in InstanceType : pending[w][t] + running[w][t] > 0
      BY DEF Rogues, HasInstance
    <3>2. w \in WorkerType /\ w \notin DOMAIN loaded
      BY DEF Rogues
    <3>3. pending[w][t] > 0 \/ running[w][t] > 0
      BY <3>1, <3>2, CountsNat DEF TypeOK, ServicesOK
    <3> QED
      BY <1>3, <3>2, <3>3 DEF ListExtant, RogueInv, MissingRemoved, Present
  <2> QED
    BY <1>1, <1>3, <2>1 DEF ListExtant, RogueInv, KillsOnlyRemoved
<1>4. Step => ListExtant \/ killing' = killing
  BY DEF Step, LoadAll, UpdatePricing, EnsureKeyPair, ReadQueue, FilterWorker,
         ReadStats, DemandKnown, FilterDone, StartSpawn, SpawnLands, SpawnDone,
         Restart
<1>5. ASSUME NEW w \in WorkerType, KillFault(w)
      PROVE  killing' \subseteq killing
  BY <1>5 DEF KillFault
<1>6. Faults => killing' \subseteq killing
  BY <1>5 DEF Faults, IterationFault, Crash, ListFault, DemandFault, SpawnFault
<1>7. Api => killing' = killing
  BY DEF Api, CreateType, UpdateType, RemoveType
<1>8. Environment => killing' \subseteq killing
  BY DEF Environment, Deregister, KillLands, Arrive, Claim, LateLands, Boot, Gone
<1>9. UNCHANGED vars => killing' = killing
  BY DEF vars
<1> QED
  BY <1>2, <1>3, <1>4, <1>6, <1>7, <1>8, <1>9 DEF Next

LEMMA InitRogueInv == Init => RogueInv
BY DEF Init, RogueInv, StartsFresh, InstancesKnown, CopyKnown, WorkFromCopy,
       SubmitsLast, MissingRemoved, KillsOnlyRemoved, Present, NoInstances,
       NoPlan, NoBids

(* The rogue killer never kills the instances of a worker type that was not    *)
(* removed, whatever the API does between the scan of the table and the list   *)
(* of the instances, whichever calls fail, and however late requests land.     *)
THEOREM OnlyRemovedKilled == Spec => []KillsOnlyRemoved
<1> DEFINE Inv == TypeOK /\ FailuresBelow /\ KillerWaits /\ RogueInv
<1>1. Init => Inv
  BY InitTypes, InitRogueInv
<1>2. Inv /\ [Next]_vars => Inv'
  <2> SUFFICES ASSUME Inv, [Next]_vars
               PROVE  Inv'
    OBVIOUS
  <2>1. TypeOK' /\ FailuresBelow' /\ KillerWaits'
    BY StepTypes, StepFailures, StepWaits
  <2>2. RogueInv'
    BY StepFresh, StepNames, StepWork, StepMissing, StepKills DEF RogueInv
  <2> QED
    BY <2>1, <2>2
<1>3. Inv => KillsOnlyRemoved
  BY DEF RogueInv
<1> QED
  BY <1>1, <1>2, <1>3, PTL DEF Spec

-----------------------------------------------------------------------------
(* Sums of capacity units.                                                     *)

LEMMA TypesFinite == IsFiniteSet(InstanceType)
BY OptionsAssumption

LEMMA TypeSumChange ==
    ASSUME NEW u \in InstanceType, NEW f, NEW g,
           \A t \in InstanceType : f[t] \in Nat /\ g[t] \in Nat /\ (t # u => g[t] = f[t])
    PROVE  SumFunctionOnSet(g, InstanceType)
             = SumFunctionOnSet(f, InstanceType) - f[u] + g[u]
<1>1. \A t \in InstanceType : f[t] \in Int /\ g[t] \in Int /\ (t # u => g[t] = f[t])
  OBVIOUS
<1>2. QED
  BY <1>1, SumChange, TypesFinite

LEMMA OptionSumChange ==
    ASSUME NEW u \in Option, NEW f, NEW g,
           \A o \in Option : f[o] \in Nat /\ g[o] \in Nat /\ (o # u => g[o] = f[o])
    PROVE  SumFunctionOnSet(g, Option) = SumFunctionOnSet(f, Option) - f[u] + g[u]
<1>1. \A o \in Option : f[o] \in Int /\ g[o] \in Int /\ (o # u => g[o] = f[o])
  OBVIOUS
<1>2. QED
  BY <1>1, SumChange, OptionFinite

LEMMA DefinitionParts ==
    ASSUME NEW d \in Definition
    PROVE  /\ d.scaling \in ScalingRule
           /\ d.bidding.capacity \in [InstanceType -> Nat \ {0}]
           /\ \A t \in InstanceType : d.bidding.capacity[t] \in Nat
<1>1. /\ d.bidding.capacity \in [InstanceType -> Int \ {0}]
      /\ \A t \in InstanceType : d.bidding.capacity[t] > 0
      /\ d.scaling \in ScalingRule
  BY DEF Definition, CountingRule, BiddingRule
<1> QED
  BY <1>1

LEMMA ProductNat == ASSUME NEW a \in Nat, NEW b \in Nat PROVE a * b \in Nat
BY SMT

(* The units of counted instances are a natural number, ...                    *)
LEMMA UnitsNat ==
    ASSUME NEW d \in Definition, NEW count \in [InstanceType -> Nat]
    PROVE  CapacityUnits(d, count) \in Nat
<1> DEFINE f == [t \in InstanceType |-> count[t] * d.bidding.capacity[t]]
<1>1. \A t \in InstanceType : f[t] \in Nat
  BY DefinitionParts, ProductNat
<1>2. CapacityUnits(d, count) = SumFunctionOnSet(f, InstanceType)
  BY DEF CapacityUnits, SumFunction
<1> HIDE DEF f
<1> QED
  BY <1>1, <1>2, SumNat, OptionsAssumption

(* ... and change with the count of each type.                                 *)
LEMMA UnitsChange ==
    ASSUME NEW d \in Definition, NEW u \in InstanceType,
           NEW count \in [InstanceType -> Nat], NEW new \in [InstanceType -> Nat],
           \A t \in InstanceType : t # u => new[t] = count[t]
    PROVE  CapacityUnits(d, new)
             = CapacityUnits(d, count) - count[u] * d.bidding.capacity[u]
                 + new[u] * d.bidding.capacity[u]
<1> DEFINE f == [t \in InstanceType |-> count[t] * d.bidding.capacity[t]]
           g == [t \in InstanceType |-> new[t] * d.bidding.capacity[t]]
<1>1. \A t \in InstanceType :
        f[t] \in Nat /\ g[t] \in Nat /\ (t # u => g[t] = f[t])
  BY DefinitionParts, ProductNat
<1>2. /\ CapacityUnits(d, count) = SumFunctionOnSet(f, InstanceType)
      /\ CapacityUnits(d, new) = SumFunctionOnSet(g, InstanceType)
  BY DEF CapacityUnits, SumFunction
<1>3. f[u] = count[u] * d.bidding.capacity[u] /\ g[u] = new[u] * d.bidding.capacity[u]
  OBVIOUS
<1> HIDE DEF f, g
<1>4. SumFunctionOnSet(g, InstanceType) = SumFunctionOnSet(f, InstanceType) - f[u] + g[u]
  BY <1>1, TypeSumChange
<1> QED
  BY <1>2, <1>3, <1>4

(* One instance more, or one less.                                             *)
LEMMA UnitsMore ==
    ASSUME NEW d \in Definition, NEW u \in InstanceType,
           NEW count \in [InstanceType -> Nat], NEW new \in [InstanceType -> Nat],
           \A t \in InstanceType : t # u => new[t] = count[t],
           new[u] = count[u] + 1
    PROVE  CapacityUnits(d, new) = CapacityUnits(d, count) + d.bidding.capacity[u]
<1>1. /\ d.bidding.capacity[u] \in Nat /\ count[u] \in Nat
      /\ CapacityUnits(d, count) \in Nat
  BY DefinitionParts, UnitsNat
<1>2. CapacityUnits(d, new)
        = CapacityUnits(d, count) - count[u] * d.bidding.capacity[u]
            + new[u] * d.bidding.capacity[u]
  BY UnitsChange
<1>3. new[u] * d.bidding.capacity[u]
        = count[u] * d.bidding.capacity[u] + d.bidding.capacity[u]
  BY <1>1
<1>4. count[u] * d.bidding.capacity[u] \in Nat
  BY <1>1, ProductNat
<1> QED
  BY <1>1, <1>2, <1>3, <1>4

LEMMA UnitsPlus ==
    ASSUME NEW d \in Definition, NEW total \in [InstanceType -> Nat],
           NEW count \in [InstanceType -> Nat], NEW more \in [InstanceType -> Nat],
           \A t \in InstanceType : total[t] = count[t] + more[t]
    PROVE  CapacityUnits(d, total) = CapacityUnits(d, count) + CapacityUnits(d, more)
<1> DEFINE f == [t \in InstanceType |-> count[t] * d.bidding.capacity[t]]
           g == [t \in InstanceType |-> more[t] * d.bidding.capacity[t]]
           h == [t \in InstanceType |-> total[t] * d.bidding.capacity[t]]
<1>1. ASSUME NEW t \in InstanceType
      PROVE  f[t] \in Nat /\ g[t] \in Nat /\ h[t] = f[t] + g[t]
  <2>1. count[t] \in Nat /\ more[t] \in Nat /\ d.bidding.capacity[t] \in Nat
    BY DefinitionParts
  <2>2. f[t] \in Nat /\ g[t] \in Nat
    BY <2>1, ProductNat
  <2>3. (count[t] + more[t]) * d.bidding.capacity[t]
          = count[t] * d.bidding.capacity[t] + more[t] * d.bidding.capacity[t]
    BY <2>1
  <2> QED
    BY <2>2, <2>3
<1>2. /\ CapacityUnits(d, count) = SumFunctionOnSet(f, InstanceType)
      /\ CapacityUnits(d, more) = SumFunctionOnSet(g, InstanceType)
      /\ CapacityUnits(d, total) = SumFunctionOnSet(h, InstanceType)
  BY DEF CapacityUnits, SumFunction
<1> HIDE DEF f, g, h
<1> QED
  BY <1>1, <1>2, SumPlus, OptionsAssumption

LEMMA UnitsZero ==
    ASSUME NEW d \in Definition, NEW count,
           \A t \in InstanceType : count[t] = 0
    PROVE  CapacityUnits(d, count) = 0
<1> DEFINE f == [t \in InstanceType |-> count[t] * d.bidding.capacity[t]]
<1>1. \A t \in InstanceType : f[t] = 0
  <2>1. \A n \in Nat : 0 * n = 0
    OBVIOUS
  <2> QED
    BY <2>1, DefinitionParts
<1>2. CapacityUnits(d, count) = SumFunctionOnSet(f, InstanceType)
  BY DEF CapacityUnits, SumFunction
<1> HIDE DEF f
<1> QED
  BY <1>1, <1>2, SumZero, OptionsAssumption

(* The same for lists of bids.                                                 *)
LEMMA BidUnitsNat ==
    ASSUME NEW d \in Definition, NEW b \in [Option -> Nat]
    PROVE  UnitsOf(d.bidding, b) \in Nat
<1> DEFINE f == [o \in Option |-> b[o] * d.bidding.capacity[o.type]]
<1>1. ASSUME NEW o \in Option
      PROVE  f[o] \in Nat
  <2>1. o.type \in InstanceType
    BY DEF Option
  <2> QED
    BY <2>1, DefinitionParts, ProductNat
<1>2. UnitsOf(d.bidding, b) = SumFunctionOnSet(f, Option)
  BY DEF UnitsOf, SumFunction
<1> HIDE DEF f
<1> QED
  BY <1>1, <1>2, SumNat, OptionFinite

LEMMA BidUnitsLess ==
    ASSUME NEW d \in Definition, NEW b \in [Option -> Nat], NEW o \in Option, b[o] > 0
    PROVE  /\ [b EXCEPT ![o] = @ - 1] \in [Option -> Nat]
           /\ UnitsOf(d.bidding, b)
                = UnitsOf(d.bidding, [b EXCEPT ![o] = @ - 1]) + d.bidding.capacity[o.type]
<1> DEFINE less == [b EXCEPT ![o] = @ - 1]
           f == [p \in Option |-> b[p] * d.bidding.capacity[p.type]]
           g == [p \in Option |-> less[p] * d.bidding.capacity[p.type]]
<1>1. /\ less \in [Option -> Nat]
      /\ less[o] = b[o] - 1
      /\ \A p \in Option : p # o => less[p] = b[p]
  OBVIOUS
<1> HIDE DEF less
<1>2. ASSUME NEW p \in Option
      PROVE  f[p] \in Nat /\ g[p] \in Nat /\ (p # o => g[p] = f[p])
  <2>1. p.type \in InstanceType
    BY DEF Option
  <2>2. b[p] \in Nat /\ less[p] \in Nat /\ d.bidding.capacity[p.type] \in Nat
    BY <1>1, <2>1, DefinitionParts
  <2> QED
    BY <1>1, <2>2, ProductNat
<1>3. /\ UnitsOf(d.bidding, b) = SumFunctionOnSet(f, Option)
      /\ UnitsOf(d.bidding, less) = SumFunctionOnSet(g, Option)
  BY DEF UnitsOf, SumFunction
<1>4. f[o] = g[o] + d.bidding.capacity[o.type]
  <2>1. o.type \in InstanceType
    BY DEF Option
  <2>2. /\ b[o] \in Nat /\ less[o] \in Nat /\ b[o] = less[o] + 1
        /\ d.bidding.capacity[o.type] \in Nat
    BY <1>1, <2>1, DefinitionParts
  <2>3. (less[o] + 1) * d.bidding.capacity[o.type]
          = less[o] * d.bidding.capacity[o.type] + d.bidding.capacity[o.type]
    BY <2>2
  <2> QED
    BY <2>2, <2>3
<1> HIDE DEF f, g
<1>5. SumFunctionOnSet(g, Option) = SumFunctionOnSet(f, Option) - f[o] + g[o]
  BY <1>2, OptionSumChange
<1>6. /\ SumFunctionOnSet(f, Option) \in Nat /\ SumFunctionOnSet(g, Option) \in Nat
      /\ f[o] \in Nat /\ g[o] \in Nat
  BY <1>2, SumNat, OptionFinite
<1>7. d.bidding.capacity[o.type] \in Nat
  BY DefinitionParts DEF Option
<1>8. UnitsOf(d.bidding, b) = UnitsOf(d.bidding, less) + d.bidding.capacity[o.type]
  BY <1>3, <1>4, <1>5, <1>6, <1>7
<1> QED
  BY <1>1, <1>8 DEF less

LEMMA NoBidsUnits ==
    ASSUME NEW d \in Definition
    PROVE  NoBids \in [Option -> Nat] /\ UnitsOf(d.bidding, NoBids) = 0
<1> DEFINE f == [o \in Option |-> NoBids[o] * d.bidding.capacity[o.type]]
<1>1. ASSUME NEW o \in Option
      PROVE  f[o] = 0
  <2>1. o.type \in InstanceType
    BY DEF Option
  <2>2. d.bidding.capacity[o.type] \in Nat
    BY <2>1, DefinitionParts
  <2> QED
    BY <2>2 DEF NoBids
<1>2. UnitsOf(d.bidding, NoBids) = SumFunctionOnSet(f, Option)
  BY DEF UnitsOf, SumFunction
<1> HIDE DEF f
<1>3. UnitsOf(d.bidding, NoBids) = 0
  BY <1>1, <1>2, SumZero, OptionFinite
<1> QED
  BY <1>3 DEF NoBids

(* And for the requests of a worker type that are being submitted.             *)
Submitted(d, w, spawns) ==
    SumFunction([s \in {r \in spawns : r.worker = w} |-> d.bidding.capacity[s.option.type]])

LEMMA SubmittedNat ==
    ASSUME NEW d \in Definition, NEW w, NEW spawns \in SUBSET Spawns
    PROVE  Submitted(d, w, spawns) \in Nat
<1> DEFINE S == {r \in spawns : r.worker = w}
           f == [s \in S |-> d.bidding.capacity[s.option.type]]
<1>1. IsFiniteSet(S)
  <2>1. S \subseteq Spawns
    OBVIOUS
  <2> QED
    BY <2>1, SpawnsFinite, FS_Subset
<1>2. \A s \in S : f[s] \in Nat
  <2>1. \A s \in S : s.option.type \in InstanceType
    BY DEF Spawns, Option
  <2> QED
    BY <2>1, DefinitionParts
<1>3. Submitted(d, w, spawns) = SumFunctionOnSet(f, S)
  BY DEF Submitted, SumFunction
<1> HIDE DEF f, S
<1> QED
  BY <1>1, <1>2, <1>3, SumNat

LEMMA NoneSubmitted == ASSUME NEW d, NEW w PROVE Submitted(d, w, {}) = 0
<1> DEFINE f == [s \in {} |-> d.bidding.capacity[s.option.type]]
<1>1. {r \in {} : r.worker = w} = {}
  OBVIOUS
<1>2. Submitted(d, w, {}) = SumFunctionOnSet(f, {})
  BY <1>1 DEF Submitted, SumFunction
<1> HIDE DEF f
<1> QED
  BY <1>2, SumEmpty

LEMMA OneSubmitted ==
    ASSUME NEW d \in Definition, NEW w, NEW spawns \in SUBSET Spawns,
           NEW s \in Spawns, s \notin spawns
    PROVE  Submitted(d, w, spawns \cup {s})
             = Submitted(d, w, spawns)
                 + (IF s.worker = w THEN d.bidding.capacity[s.option.type] ELSE 0)
<1> DEFINE S == {r \in spawns : r.worker = w}
           T == {r \in spawns \cup {s} : r.worker = w}
           f == [r \in S |-> d.bidding.capacity[r.option.type]]
           g == [r \in T |-> d.bidding.capacity[r.option.type]]
<1>1. IsFiniteSet(S)
  <2>1. S \subseteq Spawns
    OBVIOUS
  <2> QED
    BY <2>1, SpawnsFinite, FS_Subset
<1>2. \A r \in T : r.option.type \in InstanceType
  BY DEF Spawns, Option
<1>3. /\ \A r \in T : g[r] \in Nat
      /\ \A r \in S : f[r] \in Nat /\ g[r] = f[r]
  BY <1>2, DefinitionParts
<1>4. /\ Submitted(d, w, spawns) = SumFunctionOnSet(f, S)
      /\ Submitted(d, w, spawns \cup {s}) = SumFunctionOnSet(g, T)
  BY DEF Submitted, SumFunction
<1>5. s.worker = w => T = S \cup {s} /\ s \notin S /\ g[s] = d.bidding.capacity[s.option.type]
  OBVIOUS
<1>6. s.worker # w => T = S
  OBVIOUS
<1> HIDE DEF f, g, S, T
<1>7. SumFunctionOnSet(g, S) = SumFunctionOnSet(f, S)
  BY <1>1, <1>3, SumSame
<1>8. SumFunctionOnSet(f, S) \in Nat
  BY <1>1, <1>3, SumNat
<1>9. CASE s.worker = w
  <2>1. SumFunctionOnSet(g, S \cup {s}) = g[s] + SumFunctionOnSet(g, S)
    BY <1>1, <1>3, <1>5, <1>9, SumAdd
  <2>2. g[s] \in Nat
    BY <1>3, <1>5, <1>9
  <2> QED
    BY <1>4, <1>5, <1>7, <1>8, <1>9, <2>1, <2>2
<1>10. CASE s.worker # w
  BY <1>4, <1>6, <1>7, <1>8, <1>10
<1> QED
  BY <1>9, <1>10

-----------------------------------------------------------------------------
(* Bids fit into the room.                                                     *)

MostUnits(d) == Max({0} \cup {d.bidding.capacity[t] : t \in d.bidding.types})

LEMMA MostUnitsIs ==
    ASSUME NEW d \in Definition
    PROVE  /\ MostUnits(d) \in Nat
           /\ \A t \in d.bidding.types : d.bidding.capacity[t] <= MostUnits(d)
<1> DEFINE c == d.bidding.capacity
           A == {c[t] : t \in InstanceType}
           S == {0} \cup {c[t] : t \in d.bidding.types}
<1>1. c \in [InstanceType -> Nat \ {0}] /\ d.bidding.types \subseteq InstanceType
  BY DefinitionParts DEF Definition, CountingRule, BiddingRule
<1>2. MostUnits(d) = Max(S)
  BY DEF MostUnits
<1> HIDE DEF c
<1>3. c \in Surjection(InstanceType, A)
  BY <1>1 DEF Surjection
<1>4. IsFiniteSet(S)
  <2>1. IsFiniteSet(A)
    BY <1>3, TypesFinite, FS_Surjection
  <2>2. S \subseteq A \cup {0}
    BY <1>1
  <2> HIDE DEF A, S
  <2> QED
    BY <2>1, <2>2, FS_AddElement, FS_Subset
<1>5. S # {} /\ S \subseteq Nat
  BY <1>1
<1>6. \A t \in d.bidding.types : c[t] \in S
  OBVIOUS
<1> HIDE DEF S
<1>7. Max(S) \in S /\ \A y \in S : y <= Max(S)
  BY <1>4, <1>5, MaxIsMost
<1> QED
  BY <1>2, <1>5, <1>6, <1>7 DEF c

LEMMA RoomIs ==
    ASSUME NEW d \in Definition
    PROVE  /\ Room(d) = Ceiling(d.scaling) + MostUnits(d)
           /\ Room(d) \in Nat /\ Ceiling(d.scaling) \in Nat
<1>1. Ceiling(d.scaling) \in Nat
  BY DefinitionParts DEF Ceiling, ScalingRule
<1>2. Room(d) = Ceiling(d.scaling) + MostUnits(d)
  BY DEF Room, MostUnits
<1> QED
  BY <1>1, <1>2, MostUnitsIs

(* Whatever a call returns is on options it had.                               *)
LEMMA OnlyOptions ==
    ASSUME NEW d, NEW prices, NEW change, NEW b \in BidOutcomes(d, prices, change),
           NEW o \in Option, b[o] > 0
    PROVE  o \in Options(d, prices)
<1> DEFINE options    == Options(d, prices)
           affordable == {x \in options : Affordable(d, prices, x)}
           sane       == {x \in affordable : Sane(d, prices, x)}
<1>1. b # NoBids
  BY DEF NoBids
<1>2. b \in BidLists(sane, change)
  BY <1>1 DEF BidOutcomes
<1>3. o \in sane
  BY <1>2 DEF BidLists
<1> QED
  BY <1>3

(* Whatever a call returns exceeds what it was asked for by less than one      *)
(* instance.                                                                   *)
LEMMA OutcomeFits ==
    ASSUME NEW d \in Definition, NEW prices, NEW change \in Nat,
           NEW b \in BidOutcomes(d.bidding, prices, change),
           UnitsOf(d.bidding, b) > 0
    PROVE  UnitsOf(d.bidding, b) < change + MostUnits(d)
<1>1. b \in [Option -> Nat]
  BY OutcomesAreCounts
<1>2. UnitsOf(d.bidding, b) \in Nat /\ MostUnits(d) \in Nat
  BY <1>1, BidUnitsNat, MostUnitsIs
<1>3. CASE Covers(d.bidding, b, change)
  <2>1. PICK last \in Option :
           b[last] > 0 /\ UnitsOf(d.bidding, b) - d.bidding.capacity[last.type] < change
    BY <1>3 DEF Covers
  <2>2. last.type \in InstanceType /\ last.type \in d.bidding.types
    <3>1. last.type \in InstanceType
      BY DEF Option
    <3>2. last \in Options(d.bidding, prices)
      BY <2>1, OnlyOptions
    <3> QED
      BY <3>1, <3>2 DEF Options
  <2>3. /\ d.bidding.capacity[last.type] \in Nat
        /\ d.bidding.capacity[last.type] <= MostUnits(d)
    BY <2>2, DefinitionParts, MostUnitsIs
  <2> QED
    BY <1>2, <2>1, <2>3
<1>4. CASE UnitsOf(d.bidding, b) < change
  BY <1>2, <1>4
<1>5. CASE b = NoBids
  BY <1>5, NoBidsUnits
<1>6. Covers(d.bidding, b, change) \/ UnitsOf(d.bidding, b) < change \/ b = NoBids
  BY DEF BidOutcomes
<1> QED
  BY <1>3, <1>4, <1>5, <1>6

-----------------------------------------------------------------------------
(* What the ledger's variables become when the instances, the bids or the      *)
(* requests of one worker type change.                                         *)

UnitsIn(defs, count) ==
    [w \in WorkerType |->
       IF w \in DOMAIN defs THEN CapacityUnits(defs[w], count[w]) ELSE 0]

PlannedIn(defs, plan, spawns) ==
    [w \in WorkerType |->
       IF w \in DOMAIN defs
       THEN UnitsOf(defs[w].bidding, plan[w]) + Submitted(defs[w], w, spawns)
       ELSE 0]

Plans == [WorkerType -> [Option -> Nat]]

LEMMA TableDefines ==
    ASSUME NEW defs \in Tables, NEW w \in DOMAIN defs
    PROVE  w \in WorkerType /\ defs[w] \in Definition
BY TableIs, ProvisionerAssumption

LEMMA OneChanged ==
    ASSUME NEW f \in [WorkerType -> Nat], NEW g \in [WorkerType -> Nat],
           NEW w \in WorkerType, \A x \in WorkerType : x # w => g[x] = f[x],
           NEW n, g[w] = n
    PROVE  g = [f EXCEPT ![w] = n]
OBVIOUS

LEMMA UnitsInNat ==
    ASSUME NEW defs \in Tables, NEW count \in Counts
    PROVE  UnitsIn(defs, count) \in [WorkerType -> Nat]
<1> SUFFICES ASSUME NEW w \in WorkerType, w \in DOMAIN defs
             PROVE  CapacityUnits(defs[w], count[w]) \in Nat
  BY DEF UnitsIn
<1>1. defs[w] \in Definition /\ count[w] \in [InstanceType -> Nat]
  BY TableDefines DEF Counts
<1> QED
  BY <1>1, UnitsNat

(* One count of `more` is one higher than in `count`.                          *)
Increments(count, more, w, u) ==
    \A x \in WorkerType, t \in InstanceType :
        more[x][t] = IF x = w /\ t = u THEN count[x][t] + 1 ELSE count[x][t]

LEMMA IncrementIs ==
    ASSUME NEW count \in Counts, NEW w \in WorkerType, NEW u \in InstanceType
    PROVE  Increments(count, [count EXCEPT ![w][u] = @ + 1], w, u)
BY DEF Increments, Counts

LEMMA DecrementIs ==
    ASSUME NEW count \in Counts, NEW w \in WorkerType, NEW u \in InstanceType
    PROVE  Increments([count EXCEPT ![w][u] = @ - 1], count, w, u)
<1>1. count[w][u] \in Nat
  BY CountsNat
<1> QED
  BY <1>1 DEF Increments, Counts

LEMMA UnitsInMore ==
    ASSUME NEW defs \in Tables, NEW count \in Counts, NEW more \in Counts,
           NEW w \in WorkerType, NEW u \in InstanceType,
           Increments(count, more, w, u)
    PROVE  /\ w \in DOMAIN defs =>
                 UnitsIn(defs, more)
                   = [UnitsIn(defs, count) EXCEPT ![w] = @ + defs[w].bidding.capacity[u]]
           /\ w \notin DOMAIN defs => UnitsIn(defs, more) = UnitsIn(defs, count)
<1>1. \A x \in WorkerType : x # w => more[x] = count[x]
  <2> SUFFICES ASSUME NEW x \in WorkerType, x # w
               PROVE  more[x] = count[x]
    OBVIOUS
  <2>1. \A t \in InstanceType : more[x][t] = count[x][t]
    BY DEF Increments
  <2>2. more[x] \in [InstanceType -> Nat] /\ count[x] \in [InstanceType -> Nat]
    BY DEF Counts
  <2> QED
    BY <2>1, <2>2
<1>2. CASE w \in DOMAIN defs
  <2>1. defs[w] \in Definition
    BY <1>2, TableDefines
  <2>2. /\ count[w] \in [InstanceType -> Nat] /\ more[w] \in [InstanceType -> Nat]
        /\ \A t \in InstanceType : t # u => more[w][t] = count[w][t]
        /\ more[w][u] = count[w][u] + 1
    BY DEF Counts, Increments
  <2>3. CapacityUnits(defs[w], more[w])
          = CapacityUnits(defs[w], count[w]) + defs[w].bidding.capacity[u]
    BY <2>1, <2>2, UnitsMore
  <2>4. \A x \in WorkerType : x # w => UnitsIn(defs, more)[x] = UnitsIn(defs, count)[x]
    BY <1>1 DEF UnitsIn
  <2>5. UnitsIn(defs, more)[w]
          = UnitsIn(defs, count)[w] + defs[w].bidding.capacity[u]
    BY <1>2, <2>3 DEF UnitsIn
  <2>6. /\ UnitsIn(defs, more) \in [WorkerType -> Nat]
        /\ UnitsIn(defs, count) \in [WorkerType -> Nat]
    BY UnitsInNat
  <2>7. UnitsIn(defs, more)
          = [UnitsIn(defs, count) EXCEPT
               ![w] = UnitsIn(defs, count)[w] + defs[w].bidding.capacity[u]]
    BY <2>4, <2>5, <2>6, OneChanged
  <2> QED
    BY <1>2, <2>7
<1>3. CASE w \notin DOMAIN defs
  BY <1>1, <1>3 DEF UnitsIn
<1> QED
  BY <1>2, <1>3

LEMMA UnitsInNone ==
    ASSUME NEW defs \in Tables, NEW count \in Counts, NEW w \in WorkerType
    PROVE  LET none == [count EXCEPT ![w] = NoInstances[w]]
           IN  /\ w \in DOMAIN defs =>
                     UnitsIn(defs, none) = [UnitsIn(defs, count) EXCEPT ![w] = 0]
               /\ w \notin DOMAIN defs => UnitsIn(defs, none) = UnitsIn(defs, count)
<1> DEFINE none == [count EXCEPT ![w] = NoInstances[w]]
<1>1. \A x \in WorkerType : x # w => none[x] = count[x]
  BY DEF Counts
<1>2. none[w] = NoInstances[w] /\ \A t \in InstanceType : none[w][t] = 0
  BY DEF Counts, NoInstances
<1> HIDE DEF none
<1>3. CASE w \in DOMAIN defs
  <2>1. CapacityUnits(defs[w], none[w]) = 0
    BY <1>2, <1>3, TableDefines, UnitsZero
  <2>2. \A x \in WorkerType : x # w => UnitsIn(defs, none)[x] = UnitsIn(defs, count)[x]
    BY <1>1 DEF UnitsIn
  <2>3. UnitsIn(defs, none)[w] = 0
    BY <1>3, <2>1 DEF UnitsIn
  <2>4. none \in Counts
    BY NoInstancesCounts DEF none, Counts
  <2>5. UnitsIn(defs, none) = [UnitsIn(defs, count) EXCEPT ![w] = 0]
    BY <2>2, <2>3, <2>4, UnitsInNat, OneChanged
  <2> QED
    BY <1>3, <2>5 DEF none
<1>4. CASE w \notin DOMAIN defs
  BY <1>1, <1>4 DEF UnitsIn, none
<1> QED
  BY <1>3, <1>4 DEF none

LEMMA PlannedInNat ==
    ASSUME NEW defs \in Tables, NEW plan \in Plans, NEW spawns \in SUBSET Spawns
    PROVE  PlannedIn(defs, plan, spawns) \in [WorkerType -> Nat]
<1> SUFFICES ASSUME NEW w \in WorkerType, w \in DOMAIN defs
             PROVE  UnitsOf(defs[w].bidding, plan[w]) + Submitted(defs[w], w, spawns) \in Nat
  BY DEF PlannedIn
<1>1. defs[w] \in Definition /\ plan[w] \in [Option -> Nat]
  BY TableDefines DEF Plans
<1> QED
  BY <1>1, BidUnitsNat, SubmittedNat

LEMMA NothingPlanned ==
    ASSUME NEW defs \in Tables
    PROVE  PlannedIn(defs, NoPlan, {}) = [w \in WorkerType |-> 0]
<1> SUFFICES ASSUME NEW w \in WorkerType, w \in DOMAIN defs
             PROVE  UnitsOf(defs[w].bidding, NoPlan[w]) + Submitted(defs[w], w, {}) = 0
  BY DEF PlannedIn
<1>1. UnitsOf(defs[w].bidding, NoBids) = 0
  BY TableDefines, NoBidsUnits
<1>2. Submitted(defs[w], w, {}) = 0
  BY NoneSubmitted
<1> QED
  BY <1>1, <1>2 DEF NoPlan

(* New bids for one worker type.                                               *)
LEMMA PlannedInBids ==
    ASSUME NEW defs \in Tables, NEW plan \in Plans, NEW w \in DOMAIN defs,
           NEW b \in [Option -> Nat]
    PROVE  PlannedIn(defs, [plan EXCEPT ![w] = b], {})
             = [PlannedIn(defs, plan, {}) EXCEPT ![w] = UnitsOf(defs[w].bidding, b)]
<1> DEFINE new == [plan EXCEPT ![w] = b]
<1>1. w \in WorkerType /\ defs[w] \in Definition
  BY TableDefines
<1>2. new[w] = b /\ \A x \in WorkerType : x # w => new[x] = plan[x]
  BY <1>1 DEF Plans
<1>3. UnitsOf(defs[w].bidding, b) \in Nat /\ Submitted(defs[w], w, {}) = 0
  BY <1>1, BidUnitsNat, NoneSubmitted
<1> HIDE DEF new
<1>4. PlannedIn(defs, new, {})
        = [PlannedIn(defs, plan, {}) EXCEPT ![w] = UnitsOf(defs[w].bidding, b)]
  <2>1. \A x \in WorkerType : x # w => PlannedIn(defs, new, {})[x] = PlannedIn(defs, plan, {})[x]
    BY <1>2 DEF PlannedIn
  <2>2. PlannedIn(defs, new, {})[w] = UnitsOf(defs[w].bidding, b) + Submitted(defs[w], w, {})
    BY <1>1, <1>2 DEF PlannedIn
  <2>3. PlannedIn(defs, new, {})[w] = UnitsOf(defs[w].bidding, b)
    BY <1>3, <2>2
  <2>4. new \in Plans
    BY <1>1 DEF new, Plans
  <2> QED
    BY <1>1, <2>1, <2>3, <2>4, PlannedInNat, OneChanged
<1> QED
  BY <1>4 DEF new

(* A bid becomes a request: as much is planned as before.                      *)
TakesBid(plan, new, w, o) ==
    \A x \in WorkerType, p \in Option :
        new[x][p] = IF x = w /\ p = o THEN plan[x][p] - 1 ELSE plan[x][p]

LEMMA PlannedInSubmit ==
    ASSUME NEW defs \in Tables, NEW plan \in Plans, NEW new \in Plans,
           NEW spawns \in SUBSET Spawns, NEW s \in Spawns, s \notin spawns,
           s.worker \in DOMAIN defs, plan[s.worker][s.option] > 0,
           TakesBid(plan, new, s.worker, s.option)
    PROVE  PlannedIn(defs, new, spawns \cup {s}) = PlannedIn(defs, plan, spawns)
<1> DEFINE w    == s.worker
           o    == s.option
           less == [plan[w] EXCEPT ![o] = @ - 1]
<1>1. /\ w \in WorkerType /\ defs[w] \in Definition /\ plan[w] \in [Option -> Nat]
      /\ o \in Option
  BY TableDefines DEF Plans, Spawns
<1>2. new[w] = less
  <2>1. \A p \in Option : new[w][p] = less[p]
    BY <1>1 DEF TakesBid
  <2>2. new[w] \in [Option -> Nat] /\ less \in [Option -> Int]
    BY <1>1 DEF Plans
  <2> HIDE DEF less
  <2> QED
    BY <2>1, <2>2
<1>3. ASSUME NEW x \in WorkerType, x # w
      PROVE  new[x] = plan[x]
  <2>1. \A p \in Option : new[x][p] = plan[x][p]
    BY <1>1, <1>3 DEF TakesBid
  <2>2. new[x] \in [Option -> Nat] /\ plan[x] \in [Option -> Nat]
    BY DEF Plans
  <2> QED
    BY <2>1, <2>2
<1>4. \A x \in DOMAIN defs :
        Submitted(defs[x], x, spawns \cup {s})
          = Submitted(defs[x], x, spawns)
              + (IF x = w THEN defs[w].bidding.capacity[o.type] ELSE 0)
  <2> SUFFICES ASSUME NEW x \in DOMAIN defs
               PROVE  Submitted(defs[x], x, spawns \cup {s})
                        = Submitted(defs[x], x, spawns)
                            + (IF x = w THEN defs[w].bidding.capacity[o.type] ELSE 0)
    OBVIOUS
  <2>1. Submitted(defs[x], x, spawns \cup {s})
          = Submitted(defs[x], x, spawns)
              + (IF s.worker = x THEN defs[x].bidding.capacity[s.option.type] ELSE 0)
    BY TableDefines, OneSubmitted
  <2> QED
    BY <2>1
<1>5. /\ less \in [Option -> Nat]
      /\ UnitsOf(defs[w].bidding, plan[w])
           = UnitsOf(defs[w].bidding, less) + defs[w].bidding.capacity[o.type]
  BY <1>1, BidUnitsLess
<1>6. /\ UnitsOf(defs[w].bidding, less) \in Nat
      /\ defs[w].bidding.capacity[o.type] \in Nat
      /\ \A x \in DOMAIN defs : Submitted(defs[x], x, spawns) \in Nat
  BY <1>1, <1>5, TableDefines, BidUnitsNat, SubmittedNat, DefinitionParts DEF Option
<1> HIDE DEF w, o, less
<1> SUFFICES ASSUME NEW x \in WorkerType, x \in DOMAIN defs
             PROVE  UnitsOf(defs[x].bidding, new[x]) + Submitted(defs[x], x, spawns \cup {s})
                      = UnitsOf(defs[x].bidding, plan[x]) + Submitted(defs[x], x, spawns)
  BY DEF PlannedIn
<1>7. CASE x = w
  <2>1. Submitted(defs[w], w, spawns \cup {s})
          = Submitted(defs[w], w, spawns) + defs[w].bidding.capacity[o.type]
    BY <1>4, <1>7
  <2>2. Submitted(defs[w], w, spawns) \in Nat
    BY <1>6, <1>7
  <2> QED
    BY <1>2, <1>5, <1>6, <1>7, <2>1, <2>2
<1>8. CASE x # w
  <2>1. Submitted(defs[x], x, spawns \cup {s}) = Submitted(defs[x], x, spawns) + 0
    BY <1>4, <1>8
  <2>2. Submitted(defs[x], x, spawns) \in Nat
    BY <1>6
  <2>3. Submitted(defs[x], x, spawns \cup {s}) = Submitted(defs[x], x, spawns)
    BY <2>1, <2>2
  <2> QED
    BY <1>3, <1>8, <2>3
<1> QED
  BY <1>7, <1>8

(* A request is answered.                                                      *)
LEMMA PlannedInAnswer ==
    ASSUME NEW defs \in Tables, NEW plan \in Plans, NEW spawns \in SUBSET Spawns,
           NEW s \in spawns, s.worker \in DOMAIN defs
    PROVE  /\ PlannedIn(defs, plan, spawns \ {s})
                = [PlannedIn(defs, plan, spawns) EXCEPT
                     ![s.worker] = @ - defs[s.worker].bidding.capacity[s.option.type]]
           /\ defs[s.worker].bidding.capacity[s.option.type] \in Nat \ {0}
           /\ defs[s.worker].bidding.capacity[s.option.type]
                <= PlannedIn(defs, plan, spawns)[s.worker]
<1> DEFINE w    == s.worker
           c    == defs[w].bidding.capacity[s.option.type]
           rest == spawns \ {s}
<1>1. /\ w \in WorkerType /\ defs[w] \in Definition /\ s \in Spawns
      /\ plan[w] \in [Option -> Nat]
  BY TableDefines DEF Plans
<1>2. c \in Nat \ {0}
  BY <1>1, DefinitionParts DEF Spawns, Option
<1>3. rest \in SUBSET Spawns /\ s \notin rest /\ spawns = rest \cup {s}
  OBVIOUS
<1>4. \A x \in DOMAIN defs :
        Submitted(defs[x], x, spawns)
          = Submitted(defs[x], x, rest) + (IF x = w THEN c ELSE 0)
  <2> HIDE DEF rest
  <2> SUFFICES ASSUME NEW x \in DOMAIN defs
               PROVE  Submitted(defs[x], x, rest \cup {s})
                        = Submitted(defs[x], x, rest) + (IF x = w THEN c ELSE 0)
    BY <1>3
  <2>1. Submitted(defs[x], x, rest \cup {s})
          = Submitted(defs[x], x, rest)
              + (IF s.worker = x THEN defs[x].bidding.capacity[s.option.type] ELSE 0)
    BY <1>1, <1>3, TableDefines, OneSubmitted
  <2> QED
    BY <2>1
<1>5. /\ UnitsOf(defs[w].bidding, plan[w]) \in Nat
      /\ \A x \in DOMAIN defs : Submitted(defs[x], x, rest) \in Nat
  BY <1>1, <1>3, TableDefines, BidUnitsNat, SubmittedNat
<1> HIDE DEF w, c, rest
<1>6. PlannedIn(defs, plan, rest) = [PlannedIn(defs, plan, spawns) EXCEPT ![w] = @ - c]
  <2>1. ASSUME NEW x \in WorkerType, x # w
        PROVE  PlannedIn(defs, plan, rest)[x] = PlannedIn(defs, plan, spawns)[x]
    <3>1. x \in DOMAIN defs => Submitted(defs[x], x, spawns) = Submitted(defs[x], x, rest)
      BY <1>4, <1>5, <2>1
    <3> QED
      BY <3>1 DEF PlannedIn
  <2>2. /\ PlannedIn(defs, plan, rest)[w]
             = UnitsOf(defs[w].bidding, plan[w]) + Submitted(defs[w], w, rest)
        /\ PlannedIn(defs, plan, spawns)[w]
             = UnitsOf(defs[w].bidding, plan[w]) + Submitted(defs[w], w, spawns)
    BY <1>1 DEF PlannedIn, w
  <2>3. Submitted(defs[w], w, spawns) = Submitted(defs[w], w, rest) + c
    BY <1>4 DEF w
  <2>4. PlannedIn(defs, plan, rest)[w] = PlannedIn(defs, plan, spawns)[w] - c
    BY <1>2, <1>5, <2>2, <2>3 DEF w
  <2> QED
    BY <1>1, <2>1, <2>4 DEF PlannedIn
<1>7. c <= PlannedIn(defs, plan, spawns)[w]
  <2>1. /\ Submitted(defs[w], w, spawns) = Submitted(defs[w], w, rest) + c
        /\ Submitted(defs[w], w, rest) \in Nat
    BY <1>4, <1>5 DEF w
  <2>2. PlannedIn(defs, plan, spawns)[w]
          = UnitsOf(defs[w].bidding, plan[w]) + Submitted(defs[w], w, spawns)
    BY <1>1 DEF PlannedIn, w
  <2> QED
    BY <1>2, <1>5, <2>1, <2>2
<1> QED
  BY <1>2, <1>6, <1>7 DEF w, c, rest

-----------------------------------------------------------------------------
(* An iteration makes at most one plan for each worker type: while there is    *)
(* still a queue to be read for it, it has no bids.                            *)
OnePlan ==
    /\ pc \in {"idle", "down"} => loaded = <<>>
    /\ pc \notin {"types", "filter", "spawn"} => bids = NoPlan
    /\ reading # {} => pc = "types"
    /\ pc = "types" => \A w \in todo : bids[w] = NoBids
    /\ \A r \in reading : bids[r.worker] = NoBids /\ r.worker \notin todo

LEMMA InitOnePlan == Init => OnePlan
BY DEF Init, OnePlan

LEMMA StepOnePlan ==
    ASSUME TypeOK, KillerWaits, OnePlan, [Next]_vars
    PROVE  OnePlan'
<1>1. CASE ForgetLocals
  BY <1>1 DEF ForgetLocals, OnePlan, NoPlan, NoBids
<1>2. CASE UNCHANGED <<pc, loaded, todo, reading, bids>>
  BY <1>2 DEF OnePlan
<1>3. AfterRogueKiller => \/ ForgetLocals
                          \/ /\ UNCHANGED <<loaded, todo, reading, bids>>
                             /\ pc' = "keypair"
  BY DEF AfterRogueKiller, Succeed
<1>4. ASSUME UNCHANGED <<loaded, todo, reading, bids>>,
             pc \notin {"types", "filter", "spawn"}, pc' \notin {"idle", "down"},
             pc' \notin {"types", "filter", "spawn"}
      PROVE  OnePlan'
  BY <1>4 DEF OnePlan
<1>5. CASE LoadAll
  BY <1>5 DEF LoadAll, OnePlan
<1>6. CASE UpdatePricing
  BY <1>6 DEF UpdatePricing, OnePlan
<1>7. CASE ListExtant \/ ListFault
  <2>1. CASE AfterRogueKiller
    BY <1>1, <1>3, <1>4, <1>7, <2>1 DEF ListExtant, ListFault
  <2>2. CASE ~ AfterRogueKiller
    BY <1>4, <1>7, <2>2 DEF ListExtant, ListFault
  <2> QED
    BY <2>1, <2>2
<1>8. CASE EnsureKeyPair
  <2>1. DOMAIN loaded \subseteq WorkerType
    BY TableIs DEF TypeOK, ProcessOK
  <2> QED
    BY <1>8, <2>1 DEF EnsureKeyPair, OnePlan, NoPlan
<1>9. ASSUME NEW w \in WorkerType, ReadQueue(w)
      PROVE  OnePlan'
  BY <1>9 DEF ReadQueue, OnePlan
<1>10. ASSUME NEW r \in reading, ReadStats(r.worker, r.tasks)
       PROVE  OnePlan'
  <2>1. /\ pc = "types" /\ pc' = pc /\ todo' = todo /\ loaded' = loaded
        /\ reading' = {} /\ r.worker \notin todo
        /\ UNCHANGED bids \/ \E b : bids' = [bids EXCEPT ![r.worker] = b]
    BY <1>10 DEF ReadStats, OnePlan
  <2>2. ASSUME NEW w \in todo
        PROVE  bids'[w] = bids[w]
    <3>1. w \in WorkerType /\ bids \in [WorkerType -> [Option -> Nat]] /\ w # r.worker
      BY <2>1 DEF TypeOK, ProcessOK
    <3> QED
      BY <2>1, <3>1
  <2> QED
    BY <2>1, <2>2 DEF OnePlan
<1>11. CASE DemandKnown
  <2>1. CASE Fail \/ Succeed
    BY <1>1, <2>1 DEF Fail, Succeed
  <2>2. CASE ~ (Fail \/ Succeed)
    BY <1>11, <2>2 DEF DemandKnown, OnePlan
  <2> QED
    BY <2>1, <2>2
<1>12. ASSUME NEW w \in WorkerType, FilterWorker(w)
       PROVE  OnePlan'
  BY <1>12 DEF FilterWorker, OnePlan
<1>13. CASE FilterDone
  BY <1>13 DEF FilterDone, OnePlan
<1>14. ASSUME NEW w \in WorkerType, NEW o \in Option, StartSpawn(w, o)
       PROVE  OnePlan'
  BY <1>14 DEF StartSpawn, OnePlan
<1>15. ASSUME NEW s \in inflight, SpawnLands(s) \/ SpawnFault(s)
       PROVE  UNCHANGED <<pc, loaded, todo, reading, bids>>
  BY <1>15 DEF SpawnLands, SpawnFault
<1>16. CASE SpawnDone \/ IterationFault \/ Crash
  BY <1>1, <1>16 DEF SpawnDone, IterationFault, Crash, Fail, Succeed
<1>17. CASE Restart
  BY <1>17 DEF Restart, OnePlan
<1>18. CASE DemandFault
  BY <1>18 DEF DemandFault, OnePlan
<1>19. ASSUME NEW w \in WorkerType, KillFault(w)
       PROVE  OnePlan'
  <2>1. CASE w \in waiting
    BY <1>1, <1>3, <1>4, <1>19, <2>1 DEF KillFault, KillerWaits
  <2>2. CASE w \notin waiting
    BY <1>2, <1>19, <2>2 DEF KillFault
  <2> QED
    BY <2>1, <2>2
<1>20. ASSUME NEW w \in WorkerType, KillLands(w)
       PROVE  OnePlan'
  <2>1. CASE waiting = {w}
    BY <1>1, <1>3, <1>4, <1>20, <2>1 DEF KillLands, KillerWaits
  <2>2. CASE waiting # {w}
    BY <1>2, <1>20, <2>2 DEF KillLands
  <2> QED
    BY <2>1, <2>2
<1>21. Api => UNCHANGED <<pc, loaded, todo, reading, bids>>
  BY DEF Api, CreateType, UpdateType, RemoveType
<1>22. ASSUME Environment, \A w \in WorkerType : ~ KillLands(w)
       PROVE  UNCHANGED <<pc, loaded, todo, reading, bids>>
  BY <1>22 DEF Environment, Deregister, Arrive, Claim, LateLands, Boot, Gone
<1>23. UNCHANGED vars => UNCHANGED <<pc, loaded, todo, reading, bids>>
  BY DEF vars
<1> QED
  BY <1>2, <1>5, <1>6, <1>7, <1>8, <1>9, <1>10, <1>11, <1>12, <1>13, <1>14,
     <1>15, <1>16, <1>17, <1>18, <1>19, <1>20, <1>21, <1>22, <1>23
  DEF Next, Step, Faults

-----------------------------------------------------------------------------
(* The ledger of the loaded worker types, counted without a bound, and what    *)
(* CapacityLedger_proofs proves of it.                                         *)
Measured == INSTANCE CapacityLedger_proofs WITH
    Amount <- Nat, units <- LoadedUnits, room <- LoadedRoom,
    planned <- LoadedPlanned, unseen <- LoadedUnseen

Instances == [w \in WorkerType |-> AllInstances(w)]

RoomIn(defs) == [w \in WorkerType |-> IF w \in DOMAIN defs THEN Room(defs[w]) ELSE 0]

LEMMA RoomInNat ==
    ASSUME NEW defs \in Tables
    PROVE  RoomIn(defs) \in [WorkerType -> Nat]
<1> SUFFICES ASSUME NEW w \in WorkerType, w \in DOMAIN defs
             PROVE  Room(defs[w]) \in Nat
  BY DEF RoomIn
<1> QED
  BY TableDefines, RoomIs

LEMMA CountsSum ==
    ASSUME NEW p \in Counts, NEW r \in Counts
    PROVE  [w \in WorkerType |-> [t \in InstanceType |-> p[w][t] + r[w][t]]] \in Counts
BY DEF Counts

LedgerFacts ==
    /\ Instances \in Counts /\ unseen \in Counts
    /\ loaded \in Tables /\ bids \in Plans /\ inflight \in SUBSET Spawns
    /\ LoadedUnits = UnitsIn(loaded, Instances)
    /\ LoadedRoom = RoomIn(loaded)
    /\ LoadedPlanned = PlannedIn(loaded, bids, inflight)
    /\ LoadedUnseen = UnitsIn(loaded, unseen)
    /\ LoadedUnits \in [WorkerType -> Nat] /\ LoadedRoom \in [WorkerType -> Nat]
    /\ LoadedPlanned \in [WorkerType -> Nat] /\ LoadedUnseen \in [WorkerType -> Nat]

LEMMA CountsSumMore ==
    ASSUME NEW p \in Counts, NEW q \in Counts, NEW r \in Counts,
           NEW w \in WorkerType, NEW u \in InstanceType, Increments(p, q, w, u)
    PROVE  Increments([x \in WorkerType |-> [t \in InstanceType |-> p[x][t] + r[x][t]]],
                      [x \in WorkerType |-> [t \in InstanceType |-> q[x][t] + r[x][t]]],
                      w, u)
<1>1. \A x \in WorkerType, t \in InstanceType : p[x][t] \in Nat /\ r[x][t] \in Nat
  BY CountsNat
<1> QED
  BY <1>1 DEF Increments

LEMMA LessOf ==
    ASSUME NEW f \in [WorkerType -> Nat], NEW w \in WorkerType, NEW c \in Nat, c <= f[w]
    PROVE  /\ \A x \in WorkerType : [f EXCEPT ![w] = @ - c][x] <= f[x]
           /\ f[w] - c \in Nat
OBVIOUS

LEMMA LedgerValues == TypeOK => LedgerFacts
<1> SUFFICES ASSUME TypeOK PROVE LedgerFacts
  OBVIOUS
<1>1. /\ pending \in Counts /\ running \in Counts /\ unseen \in Counts
      /\ loaded \in Tables /\ bids \in Plans /\ inflight \in SUBSET Spawns
  BY DEF TypeOK, ServicesOK, ProcessOK, Plans
<1>2. Instances \in Counts
  BY <1>1, CountsSum DEF Instances, AllInstances
<1>3. /\ LoadedUnits = UnitsIn(loaded, Instances)
      /\ LoadedUnseen = UnitsIn(loaded, unseen)
  BY DEF LoadedUnits, LoadedUnseen, UnitsIn, ByLoaded, Instances
<1>4. /\ LoadedRoom = RoomIn(loaded)
      /\ LoadedPlanned = PlannedIn(loaded, bids, inflight)
  BY DEF LoadedRoom, LoadedPlanned, RoomIn, PlannedIn, ByLoaded, Planned, Submitted
<1>5. /\ UnitsIn(loaded, Instances) \in [WorkerType -> Nat]
      /\ UnitsIn(loaded, unseen) \in [WorkerType -> Nat]
  BY <1>1, <1>2, UnitsInNat
<1>6. /\ RoomIn(loaded) \in [WorkerType -> Nat]
      /\ PlannedIn(loaded, bids, inflight) \in [WorkerType -> Nat]
  BY <1>1, RoomInNat, PlannedInNat
<1> QED
  BY <1>1, <1>2, <1>3, <1>4, <1>5, <1>6 DEF LedgerFacts

LEMMA LedgerValuesNext == TypeOK' => LedgerFacts'
BY LedgerValues, PTL

(* Nothing the ledger measures changes.                                        *)
LEMMA MeasuredSame ==
    ASSUME TypeOK, TypeOK', UNCHANGED <<loaded, bids, inflight, unseen>>,
           Instances' = Instances
    PROVE  UNCHANGED Measured!vars
BY LedgerValues, LedgerValuesNext DEF LedgerFacts, Measured!vars

(* The iteration is over.                                                      *)
LEMMA MeasuredEnd ==
    ASSUME ForgetLocals
    PROVE  Measured!End
<1>1. DOMAIN loaded' = {}
  BY DEF ForgetLocals
<1> QED
  BY <1>1 DEF Measured!End, Measured!Empty, LoadedUnits, LoadedRoom, LoadedPlanned,
              LoadedUnseen, ByLoaded

LEMMA MeasuredBegin ==
    ASSUME TypeOK, TypeOK', StartsFresh, OnePlan, LoadAll
    PROVE  Measured!Begin
<1>1. loaded = <<>> /\ bids = NoPlan /\ inflight = {} /\ bids' = NoPlan /\ inflight' = {}
  BY DEF LoadAll, StartsFresh, OnePlan
<1>2. DOMAIN loaded = {}
  BY <1>1
<1>3. /\ LoadedUnits = Measured!Empty /\ LoadedRoom = Measured!Empty
      /\ LoadedPlanned = Measured!Empty
  BY <1>2 DEF Measured!Empty, LoadedUnits, LoadedRoom, LoadedPlanned, ByLoaded
<1>4. LoadedPlanned' = Measured!Empty
  BY <1>1, LedgerValuesNext, NothingPlanned DEF LedgerFacts, Measured!Empty
<1> QED
  BY <1>3, <1>4, LedgerValuesNext DEF LedgerFacts, Measured!Begin, Measured!Ledgers

(* Choosing the bids of a worker type is planning: the units there are, and    *)
(* those of the bids, fit into its room.                                       *)
LEMMA MeasuredPlan ==
    ASSUME TypeOK, TypeOK', WorkFromCopy, SubmitsLast, OnePlan,
           NEW r \in reading, ReadStats(r.worker, r.tasks)
    PROVE  \E w \in WorkerType, n \in Nat : Measured!Plan(w, n)
<1> DEFINE w == r.worker
           d == loaded[w]
           n == LoadedPlanned'[w]
<1>1. /\ w \in WorkerType /\ w \in DOMAIN loaded /\ r.tasks \in Nat
      /\ d \in Definition
      /\ bids[w] = NoBids /\ inflight = {}
  <2>1. /\ w \in WorkerType /\ r.tasks \in Nat /\ w \in DOMAIN loaded
        /\ loaded \in Tables /\ bids[w] = NoBids
    BY DEF TypeOK, ProcessOK, WorkFromCopy, OnePlan
  <2>2. pc = "types"
    BY DEF OnePlan
  <2> QED
    BY <2>1, <2>2, TableDefines DEF SubmitsLast
<1>2. /\ loaded' = loaded /\ inflight' = inflight
      /\ UNCHANGED <<pending, running>>
      /\ unseen' = [unseen EXCEPT ![w] = NoInstances[w]]
      /\ \/ bids' = bids
         \/ /\ ChangeFor(w, r.tasks) > 0
            /\ \E b \in BidOutcomes(d.bidding, pricing, ChangeFor(w, r.tasks)) :
                  bids' = [bids EXCEPT ![w] = b]
  <2>1. \/ bids' = bids
        \/ /\ ~ (ChangeFor(w, r.tasks) <= 0)
           /\ \E b \in BidOutcomes(d.bidding, pricing, ChangeFor(w, r.tasks)) :
                 bids' = [bids EXCEPT ![w] = b]
    BY DEF ReadStats
  <2>2. ChangeFor(w, r.tasks) \in Int
    <3>1. /\ d.scaling \in ScalingRule
          /\ running[w] \in [InstanceType -> Nat] /\ pending[w] \in [InstanceType -> Nat]
      BY <1>1, DefinitionParts DEF TypeOK, ServicesOK, Counts
    <3>2. CapacityUnits(d, running[w]) \in Nat /\ CapacityUnits(d, pending[w]) \in Nat
      BY <1>1, <3>1, UnitsNat
    <3> QED
      BY <1>1, <3>1, <3>2, CapacityChangeInt DEF ChangeFor
  <2> QED
    BY <2>1, <2>2 DEF ReadStats
<1>3. Instances' = Instances
  BY <1>2 DEF Instances, AllInstances
<1>4. LedgerFacts /\ LedgerFacts'
  BY LedgerValues, LedgerValuesNext
<1>5. LoadedUnits' = LoadedUnits /\ LoadedRoom' = LoadedRoom
  BY <1>2, <1>3, <1>4 DEF LedgerFacts
<1>6. LoadedUnseen' = [LoadedUnseen EXCEPT ![w] = 0]
  BY <1>1, <1>2, <1>4, UnitsInNone DEF LedgerFacts
<1>7. LoadedPlanned[w] = 0
  <2>1. UnitsOf(d.bidding, NoBids) = 0 /\ Submitted(d, w, {}) = 0
    BY <1>1, NoBidsUnits, NoneSubmitted
  <2> QED
    BY <1>1, <1>4, <2>1 DEF LedgerFacts, PlannedIn
<1>8. n \in Nat
  BY <1>1, <1>4 DEF LedgerFacts
<1>9. CASE bids' = bids
  <2>1. LoadedPlanned' = LoadedPlanned
    BY <1>2, <1>4, <1>9 DEF LedgerFacts
  <2>2. n = 0 /\ LoadedPlanned' = [LoadedPlanned EXCEPT ![w] = n]
    BY <1>1, <1>4, <1>7, <2>1 DEF LedgerFacts
  <2> HIDE DEF w, d, n
  <2>3. Measured!Plan(w, n)
    BY <1>5, <1>6, <1>7, <2>2 DEF Measured!Plan
  <2> QED
    BY <1>1, <1>8, <2>3
<1>10. ASSUME ChangeFor(w, r.tasks) > 0,
              NEW b \in BidOutcomes(d.bidding, pricing, ChangeFor(w, r.tasks)),
              bids' = [bids EXCEPT ![w] = b]
       PROVE  Measured!Plan(w, n)
  <2>1. b \in [Option -> Nat]
    BY OutcomesAreCounts
  <2>2. LoadedPlanned' = [LoadedPlanned EXCEPT ![w] = UnitsOf(d.bidding, b)]
    <3>1. /\ loaded \in Tables /\ bids \in Plans
          /\ LoadedPlanned = PlannedIn(loaded, bids, {})
          /\ LoadedPlanned' = PlannedIn(loaded, bids', {})
      BY <1>1, <1>2, <1>4 DEF LedgerFacts
    <3>2. PlannedIn(loaded, [bids EXCEPT ![w] = b], {})
            = [PlannedIn(loaded, bids, {}) EXCEPT ![w] = UnitsOf(d.bidding, b)]
      BY <1>1, <2>1, <3>1, PlannedInBids
    <3> QED
      BY <1>10, <3>1, <3>2
  <2>3. n = UnitsOf(d.bidding, b)
    BY <1>1, <1>4, <2>2 DEF LedgerFacts
  <2>4. n > 0 => LoadedUnits[w] + n < LoadedRoom[w]
    <3> SUFFICES ASSUME n > 0
                 PROVE  LoadedUnits[w] + n < LoadedRoom[w]
      OBVIOUS
    <3> DEFINE up     == CapacityUnits(d, running[w])
               asked  == CapacityUnits(d, pending[w])
               change == ChangeFor(w, r.tasks)
    <3>1. /\ d.scaling \in ScalingRule
          /\ running[w] \in [InstanceType -> Nat] /\ pending[w] \in [InstanceType -> Nat]
      BY <1>1, DefinitionParts DEF TypeOK, ServicesOK, Counts
    <3>2. up \in Nat /\ asked \in Nat
      BY <1>1, <3>1, UnitsNat
    <3>3. change = DetermineCapacityChange(d.scaling, up, asked, r.tasks)
      BY DEF ChangeFor
    <3>4. LoadedUnits[w] = asked + up
      <4>1. LoadedUnits[w] = CapacityUnits(d, AllInstances(w))
        BY <1>1 DEF LoadedUnits, ByLoaded
      <4>2. /\ AllInstances(w) \in [InstanceType -> Nat]
            /\ \A t \in InstanceType : AllInstances(w)[t] = pending[w][t] + running[w][t]
        BY <3>1 DEF AllInstances
      <4> QED
        BY <1>1, <3>1, <4>1, <4>2, UnitsPlus
    <3>5. LoadedRoom[w] = Room(d)
      BY <1>1 DEF LoadedRoom, ByLoaded
    <3>6. change \in Nat
      BY <1>1, <1>10, <3>1, <3>2, <3>3, CapacityChangeInt
    <3>7. n < change + MostUnits(d)
      BY <1>1, <2>3, <3>6, OutcomeFits
    <3> HIDE DEF w, d, n, up, asked, change
    <3>8. up + asked + change <= Ceiling(d.scaling)
      BY <1>1, <3>1, <3>2, <3>3, ChangeStaysBelowCeiling
    <3>9. /\ Room(d) = Ceiling(d.scaling) + MostUnits(d)
          /\ Ceiling(d.scaling) \in Nat /\ MostUnits(d) \in Nat
      BY <1>1, RoomIs, MostUnitsIs
    <3> QED
      BY <1>8, <3>2, <3>4, <3>5, <3>6, <3>7, <3>8, <3>9
  <2>5. LoadedPlanned' = [LoadedPlanned EXCEPT ![w] = n]
    BY <2>2, <2>3
  <2> HIDE DEF w, d, n
  <2> QED
    BY <1>5, <1>6, <1>7, <2>4, <2>5 DEF Measured!Plan
<1> HIDE DEF n
<1> QED
  BY <1>1, <1>2, <1>8, <1>9, <1>10

(* A worker type that cannot be launched loses its plan.                       *)
LEMMA MeasuredDrop ==
    ASSUME TypeOK, TypeOK', WorkFromCopy, SubmitsLast,
           NEW w \in WorkerType, FilterWorker(w)
    PROVE  Measured!Drop \/ UNCHANGED Measured!vars
<1>1. /\ UNCHANGED <<loaded, inflight, unseen, pending, running>>
      /\ inflight = {}
      /\ bids' = bids \/ bids' = [bids EXCEPT ![w] = NoBids]
      /\ w \in DOMAIN loaded
  BY DEF FilterWorker, SubmitsLast, WorkFromCopy
<1>2. Instances' = Instances
  BY <1>1 DEF Instances, AllInstances
<1>3. CASE bids' = bids
  BY <1>1, <1>2, <1>3, MeasuredSame
<1>4. CASE bids' = [bids EXCEPT ![w] = NoBids]
  <2>1. LedgerFacts /\ LedgerFacts'
    BY LedgerValues, LedgerValuesNext
  <2>2. /\ loaded \in Tables /\ bids \in Plans
        /\ LoadedPlanned = PlannedIn(loaded, bids, {})
        /\ LoadedPlanned' = PlannedIn(loaded, bids', {})
        /\ LoadedPlanned \in [WorkerType -> Nat] /\ LoadedPlanned' \in [WorkerType -> Nat]
    BY <1>1, <2>1 DEF LedgerFacts
  <2>3. UNCHANGED <<LoadedUnits, LoadedRoom, LoadedUnseen>>
    BY <1>1, <1>2, <2>1 DEF LedgerFacts
  <2>4. loaded[w] \in Definition
    BY <1>1, <2>2, TableDefines
  <2>5. NoBids \in [Option -> Nat] /\ UnitsOf(loaded[w].bidding, NoBids) = 0
    BY <2>4, NoBidsUnits
  <2>6. PlannedIn(loaded, [bids EXCEPT ![w] = NoBids], {})
          = [PlannedIn(loaded, bids, {}) EXCEPT ![w] = UnitsOf(loaded[w].bidding, NoBids)]
    BY <1>1, <2>2, <2>5, PlannedInBids
  <2>7. LoadedPlanned' = [LoadedPlanned EXCEPT ![w] = 0]
    BY <1>4, <2>2, <2>5, <2>6
  <2>8. \A x \in WorkerType : LoadedPlanned'[x] <= LoadedPlanned[x]
    BY <2>2, <2>7
  <2> QED
    BY <2>2, <2>3, <2>8 DEF Measured!Drop, Measured!Ledgers
<1> QED
  BY <1>1, <1>3, <1>4

(* A bid that becomes a request stays planned.                                 *)
LEMMA MeasuredSubmit ==
    ASSUME TypeOK, TypeOK', WorkFromCopy,
           NEW w \in WorkerType, NEW o \in Option, StartSpawn(w, o)
    PROVE  UNCHANGED Measured!vars
<1> DEFINE s == [worker |-> w, option |-> o]
<1>1. /\ UNCHANGED <<loaded, unseen, pending, running>>
      /\ bids[w][o] > 0
      /\ bids' = [bids EXCEPT ![w][o] = @ - 1]
      /\ inflight' = inflight \cup {s}
      /\ w \in DOMAIN loaded
  BY DEF StartSpawn, WorkFromCopy
<1>2. s \notin inflight
  BY DEF StartSpawn, BusyRegions
<1>3. Instances' = Instances
  BY <1>1 DEF Instances, AllInstances
<1>4. LedgerFacts /\ LedgerFacts'
  BY LedgerValues, LedgerValuesNext
<1>5. UNCHANGED <<LoadedUnits, LoadedRoom, LoadedUnseen>>
  BY <1>1, <1>3, <1>4 DEF LedgerFacts
<1>6. /\ loaded \in Tables /\ bids \in Plans /\ inflight \in SUBSET Spawns
      /\ LoadedPlanned = PlannedIn(loaded, bids, inflight)
      /\ LoadedPlanned' = PlannedIn(loaded, bids', inflight')
  BY <1>1, <1>4 DEF LedgerFacts
<1>t. loaded \in Tables /\ bids \in Plans /\ inflight \in SUBSET Spawns
  BY <1>6
<1>7. TakesBid(bids, bids', w, o)
  BY <1>1, <1>t DEF TakesBid, Plans
<1>8. s \in Spawns /\ s.worker = w /\ s.option = o /\ bids' \in Plans
  BY <1>4 DEF Spawns, LedgerFacts
<1> HIDE DEF s
<1>9. PICK new : new = bids'
  OBVIOUS
<1>10. PlannedIn(loaded, new, inflight \cup {s}) = PlannedIn(loaded, bids, inflight)
  BY <1>1, <1>2, <1>7, <1>8, <1>9, <1>t, PlannedInSubmit
<1> QED
  BY <1>1, <1>5, <1>6, <1>9, <1>10 DEF Measured!vars

(* A request that is answered launches what was planned, or is dropped.        *)
LEMMA MeasuredAnswer ==
    ASSUME TypeOK, TypeOK', WorkFromCopy,
           NEW s \in inflight, SpawnLands(s) \/ SpawnFault(s)
    PROVE  \/ \E w \in WorkerType, n \in Nat : Measured!Launch(w, n)
           \/ Measured!Drop
<1> DEFINE w == s.worker
           u == s.option.type
           c == loaded[w].bidding.capacity[u]
<1>1. /\ UNCHANGED <<loaded, bids, unseen, running>>
      /\ inflight' = inflight \ {s}
      /\ pending' = pending \/ pending' = [pending EXCEPT ![w][u] = @ + 1]
  BY DEF SpawnLands, SpawnFault, OneMore
<1>2. LedgerFacts /\ LedgerFacts'
  BY LedgerValues, LedgerValuesNext
<1>3. /\ w \in DOMAIN loaded /\ s \in Spawns
      /\ loaded \in Tables /\ bids \in Plans /\ inflight \in SUBSET Spawns
      /\ LoadedPlanned = PlannedIn(loaded, bids, inflight)
      /\ LoadedPlanned' = PlannedIn(loaded, bids, inflight \ {s})
      /\ LoadedPlanned \in [WorkerType -> Nat] /\ LoadedPlanned' \in [WorkerType -> Nat]
  BY <1>1, <1>2 DEF LedgerFacts, WorkFromCopy
<1>4. w \in WorkerType /\ u \in InstanceType
  BY <1>3 DEF Spawns, Option
<1>5. /\ PlannedIn(loaded, bids, inflight \ {s})
           = [PlannedIn(loaded, bids, inflight) EXCEPT ![w] = @ - c]
      /\ c \in Nat \ {0} /\ c <= PlannedIn(loaded, bids, inflight)[w]
  BY <1>3, PlannedInAnswer
<1>6. UNCHANGED <<LoadedRoom, LoadedUnseen>>
  BY <1>1, <1>2 DEF LedgerFacts
<1> HIDE DEF w, u, c
<1>t. LoadedPlanned \in [WorkerType -> Nat] /\ LoadedPlanned' \in [WorkerType -> Nat]
  BY <1>3
<1>7. LoadedPlanned' = [LoadedPlanned EXCEPT ![w] = @ - c] /\ c <= LoadedPlanned[w]
  BY <1>3, <1>5
<1>c. c \in Nat \ {0}
  BY <1>5
<1>8. CASE pending' = pending
  <2>1. Instances' = Instances
    BY <1>1, <1>8 DEF Instances, AllInstances
  <2>2. LoadedUnits' = LoadedUnits
    BY <1>1, <1>2, <2>1 DEF LedgerFacts
  <2>3. \A x \in WorkerType : LoadedPlanned'[x] <= LoadedPlanned[x]
    BY <1>4, <1>7, <1>c, <1>t, LessOf
  <2>4. Measured!Drop
    BY <1>3, <1>6, <2>2, <2>3 DEF Measured!Drop, Measured!Ledgers
  <2> QED
    BY <2>4
<1>9. CASE pending' = [pending EXCEPT ![w][u] = @ + 1]
  <2>1. Increments(Instances, Instances', w, u)
    <3>1. pending \in Counts /\ running \in Counts /\ pending' \in Counts
      BY DEF TypeOK, ServicesOK
    <3>2. PICK p : p = pending'
      OBVIOUS
    <3>3. Increments(pending, p, w, u)
      BY <1>4, <1>9, <3>1, <3>2, IncrementIs
    <3> QED
      BY <1>1, <1>4, <3>1, <3>2, <3>3, CountsSumMore DEF Instances, AllInstances
  <2>2. /\ Instances \in Counts /\ Instances' \in Counts
        /\ LoadedUnits = UnitsIn(loaded, Instances)
        /\ LoadedUnits' = UnitsIn(loaded, Instances')
        /\ LoadedUnits \in [WorkerType -> Nat]
    BY <1>1, <1>2 DEF LedgerFacts
  <2>3. PICK more : more = Instances'
    OBVIOUS
  <2>4. UnitsIn(loaded, more) = [UnitsIn(loaded, Instances) EXCEPT ![w] = @ + c]
    <3>1. loaded \in Tables /\ w \in DOMAIN loaded
      BY <1>3
    <3>2. more \in Counts /\ Instances \in Counts
      BY <2>2, <2>3
    <3>3. Increments(Instances, more, w, u)
      BY <2>1, <2>3
    <3> QED
      BY <1>4, <3>1, <3>2, <3>3, UnitsInMore DEF c
  <2>5. LoadedUnits' = [LoadedUnits EXCEPT ![w] = @ + c]
    <3>1. LoadedUnits' = UnitsIn(loaded, more) /\ LoadedUnits = UnitsIn(loaded, Instances)
      BY <2>2, <2>3
    <3> QED
      BY <2>4, <3>1
  <2>6. LoadedUnits[w] + c \in Nat /\ LoadedPlanned[w] - c \in Nat /\ 0 < c
    <3>1. LoadedUnits \in [WorkerType -> Nat]
      BY <2>2
    <3> QED
      BY <1>4, <1>7, <1>c, <1>t, <3>1, LessOf
  <2>7. Measured!Launch(w, c)
    BY <1>6, <1>7, <2>5, <2>6 DEF Measured!Launch
  <2> QED
    BY <1>4, <1>5, <2>7
<1> QED
  BY <1>1, <1>8, <1>9

(* An instance that boots is counted as before.                                *)
LEMMA MeasuredBoot ==
    ASSUME TypeOK, TypeOK', NEW w \in WorkerType, NEW t \in InstanceType, Boot(w, t)
    PROVE  UNCHANGED Measured!vars
<1>1. pending \in Counts /\ running \in Counts
  BY DEF TypeOK, ServicesOK
<1>2. /\ UNCHANGED <<loaded, bids, inflight, unseen>>
      /\ pending[w][t] > 0
      /\ pending' = [pending EXCEPT ![w][t] = @ - 1]
      /\ running' = [running EXCEPT ![w][t] = @ + 1]
  BY DEF Boot
<1>3. \A x \in WorkerType, u \in InstanceType :
        pending'[x][u] + running'[x][u] = pending[x][u] + running[x][u]
  <2>1. PICK p, r : p = pending' /\ r = running'
    OBVIOUS
  <2>2. Increments(p, pending, w, t) /\ Increments(running, r, w, t)
    BY <1>1, <1>2, <2>1, IncrementIs, DecrementIs
  <2>3. p \in Counts /\ r \in Counts
    BY <2>1 DEF TypeOK, ServicesOK
  <2>4. \A x \in WorkerType, u \in InstanceType :
          /\ p[x][u] \in Nat /\ r[x][u] \in Nat
          /\ pending[x][u] \in Nat /\ running[x][u] \in Nat
    BY <1>1, <2>3, CountsNat
  <2> QED
    BY <2>1, <2>2, <2>4 DEF Increments
<1>4. Instances' = Instances
  BY <1>3 DEF Instances, AllInstances
<1> QED
  BY <1>2, <1>4, MeasuredSame

(* A request that lands after its caller gave up on it is not planned.         *)
LEMMA MeasuredLate ==
    ASSUME TypeOK, TypeOK', NEW w \in WorkerType, NEW t \in InstanceType, LateLands(w, t)
    PROVE  (\E n \in Nat : Measured!Appear(w, n)) \/ UNCHANGED Measured!vars
<1>1. /\ UNCHANGED <<loaded, bids, inflight, running>>
      /\ pending' = [pending EXCEPT ![w][t] = @ + 1]
      /\ unseen' = [unseen EXCEPT ![w][t] = @ + 1]
      /\ pending \in Counts /\ running \in Counts /\ pending' \in Counts
  BY DEF LateLands, TypeOK, ServicesOK
<1>2. LedgerFacts /\ LedgerFacts'
  BY LedgerValues, LedgerValuesNext
<1>3. PICK p, more, seen : p = pending' /\ more = Instances' /\ seen = unseen'
  OBVIOUS
<1>4. Increments(pending, p, w, t)
  BY <1>1, <1>3, IncrementIs
<1>5. Increments(Instances, more, w, t)
  <2>1. p \in Counts
    BY <1>1, <1>3
  <2> DEFINE sum(f) == [x \in WorkerType |-> [u \in InstanceType |-> f[x][u] + running[x][u]]]
  <2>2. Increments(sum(pending), sum(p), w, t)
    BY <1>1, <1>4, <2>1, CountsSumMore
  <2>3. Instances = sum(pending) /\ more = sum(p)
    BY <1>1, <1>3 DEF Instances, AllInstances
  <2> QED
    BY <2>2, <2>3
<1>6. Increments(unseen, seen, w, t)
  BY <1>1, <1>2, <1>3, IncrementIs DEF LedgerFacts
<1>7. /\ loaded \in Tables
      /\ Instances \in Counts /\ more \in Counts /\ unseen \in Counts /\ seen \in Counts
  BY <1>2, <1>3 DEF LedgerFacts
<1>8. /\ LoadedUnits = UnitsIn(loaded, Instances) /\ LoadedUnits' = UnitsIn(loaded, more)
      /\ LoadedUnseen = UnitsIn(loaded, unseen) /\ LoadedUnseen' = UnitsIn(loaded, seen)
  BY <1>1, <1>2, <1>3 DEF LedgerFacts
<1>9. UNCHANGED <<LoadedRoom, LoadedPlanned>>
  BY <1>1, <1>2 DEF LedgerFacts
<1>10. CASE w \notin DOMAIN loaded
  <2>1. UnitsIn(loaded, more) = UnitsIn(loaded, Instances)
    BY <1>5, <1>7, <1>10, UnitsInMore
  <2>2. UnitsIn(loaded, seen) = UnitsIn(loaded, unseen)
    BY <1>6, <1>7, <1>10, UnitsInMore
  <2> QED
    BY <1>8, <1>9, <2>1, <2>2 DEF Measured!vars
<1>11. CASE w \in DOMAIN loaded
  <2> DEFINE c == loaded[w].bidding.capacity[t]
  <2>1. UnitsIn(loaded, more) = [UnitsIn(loaded, Instances) EXCEPT ![w] = @ + c]
    BY <1>5, <1>7, <1>11, UnitsInMore
  <2>2. UnitsIn(loaded, seen) = [UnitsIn(loaded, unseen) EXCEPT ![w] = @ + c]
    BY <1>6, <1>7, <1>11, UnitsInMore
  <2>3. c \in Nat
    BY <1>7, <1>11, TableDefines, DefinitionParts
  <2> HIDE DEF c
  <2>4. /\ LoadedUnits' = [LoadedUnits EXCEPT ![w] = @ + c]
        /\ LoadedUnseen' = [LoadedUnseen EXCEPT ![w] = @ + c]
    BY <1>8, <2>1, <2>2
  <2>5. LoadedUnits[w] + c \in Nat /\ LoadedUnseen[w] + c \in Nat
    <3>1. LoadedUnits[w] \in Nat /\ LoadedUnseen[w] \in Nat
      BY <1>2 DEF LedgerFacts
    <3> QED
      BY <2>3, <3>1
  <2> QED
    BY <1>9, <2>3, <2>4, <2>5 DEF Measured!Appear
<1> QED
  BY <1>10, <1>11

(* An instance that goes away.                                                 *)
LEMMA MeasuredGone ==
    ASSUME TypeOK, TypeOK', NEW w \in WorkerType, NEW t \in InstanceType, Gone(w, t)
    PROVE  (\E n \in Nat : Measured!Lose(w, n)) \/ UNCHANGED Measured!vars
<1>1. /\ UNCHANGED <<loaded, bids, inflight, unseen>>
      /\ \/ running' = running /\ pending' = [pending EXCEPT ![w][t] = @ - 1]
         \/ pending' = pending /\ running' = [running EXCEPT ![w][t] = @ - 1]
      /\ pending \in Counts /\ running \in Counts
      /\ pending' \in Counts /\ running' \in Counts
  BY DEF Gone, TypeOK, ServicesOK
<1>2. LedgerFacts /\ LedgerFacts'
  BY LedgerValues, LedgerValuesNext
<1>3. PICK p, r, fewer : p = pending' /\ r = running' /\ fewer = Instances'
  OBVIOUS
<1>4. Increments(fewer, Instances, w, t)
  <2>1. \A x \in WorkerType, u \in InstanceType :
          /\ p[x][u] \in Nat /\ r[x][u] \in Nat
          /\ pending[x][u] \in Nat /\ running[x][u] \in Nat
    BY <1>1, <1>3, CountsNat
  <2>2. /\ \A x \in WorkerType, u \in InstanceType : fewer[x][u] = p[x][u] + r[x][u]
        /\ \A x \in WorkerType, u \in InstanceType :
             Instances[x][u] = pending[x][u] + running[x][u]
    BY <1>3 DEF Instances, AllInstances
  <2>3. CASE r = running /\ p = [pending EXCEPT ![w][t] = @ - 1]
    <3>1. Increments(p, pending, w, t)
      BY <1>1, <2>3, DecrementIs
    <3> QED
      BY <2>1, <2>2, <2>3, <3>1 DEF Increments
  <2>4. CASE p = pending /\ r = [running EXCEPT ![w][t] = @ - 1]
    <3>1. Increments(r, running, w, t)
      BY <1>1, <2>4, DecrementIs
    <3> QED
      BY <2>1, <2>2, <2>4, <3>1 DEF Increments
  <2> QED
    BY <1>1, <1>3, <2>3, <2>4
<1>5. /\ loaded \in Tables /\ Instances \in Counts /\ fewer \in Counts
      /\ LoadedUnits = UnitsIn(loaded, Instances) /\ LoadedUnits' = UnitsIn(loaded, fewer)
  BY <1>1, <1>2, <1>3 DEF LedgerFacts
<1>6. LoadedUnits \in [WorkerType -> Nat] /\ LoadedUnits' \in [WorkerType -> Nat]
  BY <1>2 DEF LedgerFacts
<1>7. UNCHANGED <<LoadedRoom, LoadedPlanned, LoadedUnseen>>
  BY <1>1, <1>2 DEF LedgerFacts
<1>8. CASE w \notin DOMAIN loaded
  <2>1. UnitsIn(loaded, Instances) = UnitsIn(loaded, fewer)
    BY <1>4, <1>5, <1>8, UnitsInMore
  <2> QED
    BY <1>5, <1>7, <2>1 DEF Measured!vars
<1>9. CASE w \in DOMAIN loaded
  <2> DEFINE c == loaded[w].bidding.capacity[t]
  <2>1. UnitsIn(loaded, Instances) = [UnitsIn(loaded, fewer) EXCEPT ![w] = @ + c]
    BY <1>4, <1>5, <1>9, UnitsInMore
  <2>2. c \in Nat \ {0}
    BY <1>5, <1>9, TableDefines, DefinitionParts
  <2> HIDE DEF c
  <2>3. LoadedUnits = [LoadedUnits' EXCEPT ![w] = @ + c]
    BY <1>5, <2>1
  <2>4. PICK new : new = LoadedUnits'
    OBVIOUS
  <2>5. new \in [WorkerType -> Nat]
    BY <1>6, <2>4
  <2>6. /\ \A x \in WorkerType : x # w => new[x] = LoadedUnits[x]
        /\ LoadedUnits[w] = new[w] + c
    BY <2>3, <2>4, <2>5
  <2>7. new = [LoadedUnits EXCEPT ![w] = new[w]]
    BY <1>6, <2>5, <2>6, OneChanged
  <2>8. new[w] \in Nat /\ new[w] < LoadedUnits[w]
    BY <2>2, <2>5, <2>6
  <2> QED
    BY <1>7, <2>4, <2>7, <2>8 DEF Measured!Lose
<1> QED
  BY <1>8, <1>9

(* All instances of a name are terminated.                                     *)
LEMMA MeasuredKill ==
    ASSUME TypeOK, TypeOK', NEW w \in WorkerType, KillLands(w), ~ ForgetLocals
    PROVE  (\E n \in Nat : Measured!Lose(w, n)) \/ UNCHANGED Measured!vars
<1>1. /\ UNCHANGED <<loaded, bids, inflight, unseen>>
      /\ pending' = [pending EXCEPT ![w] = NoInstances[w]]
      /\ running' = [running EXCEPT ![w] = NoInstances[w]]
      /\ pending \in Counts /\ running \in Counts
  BY DEF KillLands, AfterRogueKiller, Succeed, TypeOK, ServicesOK
<1>2. LedgerFacts /\ LedgerFacts'
  BY LedgerValues, LedgerValuesNext
<1>3. PICK none : none = Instances'
  OBVIOUS
<1>4. /\ loaded \in Tables /\ Instances \in Counts /\ none \in Counts
      /\ LoadedUnits = UnitsIn(loaded, Instances) /\ LoadedUnits' = UnitsIn(loaded, none)
      /\ LoadedUnits \in [WorkerType -> Nat]
  BY <1>1, <1>2, <1>3 DEF LedgerFacts
<1>5. UNCHANGED <<LoadedRoom, LoadedPlanned, LoadedUnseen>>
  BY <1>1, <1>2 DEF LedgerFacts
<1>6. none = [Instances EXCEPT ![w] = NoInstances[w]]
  <2> DEFINE zero == [Instances EXCEPT ![w] = NoInstances[w]]
  <2>1. /\ \A x \in WorkerType, t \in InstanceType : none[x][t] = pending'[x][t] + running'[x][t]
        /\ \A x \in WorkerType, t \in InstanceType :
             Instances[x][t] = pending[x][t] + running[x][t]
    BY <1>3 DEF Instances, AllInstances
  <2>2. \A x \in WorkerType, t \in InstanceType :
          none[x][t] = IF x = w THEN 0 ELSE Instances[x][t]
    BY <1>1, <2>1 DEF Counts, NoInstances
  <2>3. \A x \in WorkerType, t \in InstanceType :
          zero[x][t] = IF x = w THEN 0 ELSE Instances[x][t]
    BY <1>4 DEF Counts, NoInstances
  <2>4. zero \in Counts
    BY <1>4, NoInstancesCounts DEF Counts
  <2> HIDE DEF zero
  <2>5. \A x \in WorkerType, t \in InstanceType : none[x][t] = zero[x][t]
    BY <2>2, <2>3
  <2>6. none = zero
    BY <1>4, <2>4, <2>5 DEF Counts
  <2> QED
    BY <2>6 DEF zero
<1>7. CASE w \notin DOMAIN loaded
  <2>1. UnitsIn(loaded, none) = UnitsIn(loaded, Instances)
    BY <1>4, <1>6, <1>7, UnitsInNone
  <2> QED
    BY <1>4, <1>5, <2>1 DEF Measured!vars
<1>8. CASE w \in DOMAIN loaded
  <2>1. UnitsIn(loaded, none) = [UnitsIn(loaded, Instances) EXCEPT ![w] = 0]
    BY <1>4, <1>6, <1>8, UnitsInNone
  <2>2. LoadedUnits' = [LoadedUnits EXCEPT ![w] = 0]
    BY <1>4, <2>1
  <2>t. LoadedUnits \in [WorkerType -> Nat]
    BY <1>4
  <2>3. CASE LoadedUnits[w] = 0
    <3>1. LoadedUnits' = LoadedUnits
      BY <2>2, <2>3, <2>t
    <3> QED
      BY <1>5, <3>1 DEF Measured!vars
  <2>4. CASE LoadedUnits[w] # 0
    <3>1. 0 < LoadedUnits[w]
      BY <2>4, <2>t
    <3> QED
      BY <1>5, <2>2, <3>1 DEF Measured!Lose
  <2> QED
    BY <2>3, <2>4
<1> QED
  BY <1>7, <1>8

-----------------------------------------------------------------------------
(* Everything the steps of the provisioner need to keep the ledger.            *)
PlanInv == TypeOK /\ FailuresBelow /\ KillerWaits /\ RogueInv /\ OnePlan

LEMMA PlanInvariance == Spec => []PlanInv
<1>1. Init => PlanInv
  BY InitTypes, InitRogueInv, InitOnePlan DEF PlanInv
<1>2. PlanInv /\ [Next]_vars => PlanInv'
  <2> SUFFICES ASSUME PlanInv, [Next]_vars
               PROVE  PlanInv'
    OBVIOUS
  <2>1. TypeOK /\ FailuresBelow /\ KillerWaits /\ RogueInv /\ OnePlan
    BY DEF PlanInv
  <2>2. TypeOK' /\ FailuresBelow' /\ KillerWaits' /\ OnePlan'
    BY <2>1, StepTypes, StepFailures, StepWaits, StepOnePlan
  <2>3. RogueInv'
    BY <2>1, StepFresh, StepNames, StepWork, StepMissing, StepKills DEF RogueInv
  <2> QED
    BY <2>2, <2>3 DEF PlanInv
<1> QED
  BY <1>1, <1>2, PTL DEF Spec

LEMMA InitMeasured == Init => Measured!Init
<1> SUFFICES ASSUME Init PROVE Measured!Init
  OBVIOUS
<1>1. DOMAIN loaded = {}
  BY DEF Init
<1> QED
  BY <1>1 DEF Measured!Init, Measured!Empty, LoadedUnits, LoadedRoom, LoadedPlanned,
              LoadedUnseen, ByLoaded

(* Every step of the provisioner is one of the ledger's, or changes nothing    *)
(* that it measures.                                                           *)
LEMMA StepMeasured ==
    ASSUME PlanInv, PlanInv', [Next]_vars
    PROVE  Measured!Next \/ UNCHANGED Measured!vars
<1>i. /\ TypeOK /\ TypeOK' /\ KillerWaits /\ OnePlan /\ WorkFromCopy /\ SubmitsLast
      /\ StartsFresh
  BY DEF PlanInv, RogueInv
<1>1. CASE ForgetLocals
  BY <1>1, MeasuredEnd DEF Measured!Next
<1>2. CASE UNCHANGED <<loaded, bids, inflight, unseen, pending, running>>
  <2>1. Instances' = Instances
    BY <1>2 DEF Instances, AllInstances
  <2> QED
    BY <1>2, <1>i, <2>1, MeasuredSame
<1>3. AfterRogueKiller => ForgetLocals \/ UNCHANGED <<loaded, bids, inflight>>
  BY DEF AfterRogueKiller, Succeed
<1>4. CASE LoadAll
  BY <1>4, <1>i, MeasuredBegin DEF Measured!Next
<1>5. CASE UpdatePricing \/ EnsureKeyPair \/ FilterDone \/ Restart
  BY <1>2, <1>5 DEF UpdatePricing, EnsureKeyPair, FilterDone, Restart
<1>6. CASE ListExtant \/ ListFault
  BY <1>1, <1>2, <1>3, <1>6 DEF ListExtant, ListFault
<1>7. ASSUME NEW w \in WorkerType, ReadQueue(w)
      PROVE  UNCHANGED <<loaded, bids, inflight, unseen, pending, running>>
  BY <1>7 DEF ReadQueue
<1>8. ASSUME NEW w \in WorkerType, FilterWorker(w)
      PROVE  Measured!Next \/ UNCHANGED Measured!vars
  BY <1>8, <1>i, MeasuredDrop DEF Measured!Next
<1>9. ASSUME NEW r \in reading, ReadStats(r.worker, r.tasks)
      PROVE  Measured!Next
  BY <1>9, <1>i, MeasuredPlan DEF Measured!Next
<1>10. CASE DemandKnown
  <2>1. CASE Fail \/ Succeed
    BY <1>1, <2>1 DEF Fail, Succeed
  <2>2. CASE ~ (Fail \/ Succeed)
    BY <1>2, <1>10, <2>2 DEF DemandKnown
  <2> QED
    BY <2>1, <2>2
<1>11. ASSUME NEW w \in WorkerType, NEW o \in Option, StartSpawn(w, o)
       PROVE  UNCHANGED Measured!vars
  BY <1>11, <1>i, MeasuredSubmit
<1>12. ASSUME NEW s \in inflight, SpawnLands(s) \/ SpawnFault(s)
       PROVE  Measured!Next
  BY <1>12, <1>i, MeasuredAnswer DEF Measured!Next
<1>13. CASE SpawnDone \/ IterationFault \/ Crash
  BY <1>1, <1>13 DEF SpawnDone, IterationFault, Crash, Fail, Succeed
<1>14. CASE DemandFault
  BY <1>2, <1>14 DEF DemandFault
<1>15. ASSUME NEW w \in WorkerType, KillFault(w)
       PROVE  ForgetLocals \/ UNCHANGED <<loaded, bids, inflight, unseen, pending, running>>
  <2>1. CASE w \in waiting
    BY <1>3, <1>15, <2>1 DEF KillFault
  <2>2. CASE w \notin waiting
    BY <1>15, <2>2 DEF KillFault
  <2> QED
    BY <2>1, <2>2
<1>16. ASSUME NEW w \in WorkerType, KillLands(w)
       PROVE  Measured!Next \/ UNCHANGED Measured!vars
  BY <1>1, <1>16, <1>i, MeasuredKill DEF Measured!Next
<1>17. ASSUME NEW w \in WorkerType, NEW t \in InstanceType,
              LateLands(w, t) \/ Boot(w, t) \/ Gone(w, t)
       PROVE  Measured!Next \/ UNCHANGED Measured!vars
  BY <1>17, <1>i, MeasuredLate, MeasuredBoot, MeasuredGone DEF Measured!Next
<1>18. CASE Api
  BY <1>2, <1>18 DEF Api, CreateType, UpdateType, RemoveType
<1>19. ASSUME NEW w \in WorkerType, Arrive(w) \/ Claim(w)
       PROVE  UNCHANGED <<loaded, bids, inflight, unseen, pending, running>>
  BY <1>19 DEF Arrive, Claim
<1>20. ASSUME NEW i \in Image, Deregister(i)
       PROVE  UNCHANGED <<loaded, bids, inflight, unseen, pending, running>>
  BY <1>20 DEF Deregister
<1>21. CASE UNCHANGED vars
  BY <1>2, <1>21 DEF vars
<1> QED
  BY <1>1, <1>2, <1>4, <1>5, <1>6, <1>7, <1>8, <1>9, <1>10, <1>11, <1>12, <1>13,
     <1>14, <1>15, <1>16, <1>17, <1>18, <1>19, <1>20, <1>21
  DEF Next, Step, Faults, Environment

(* The ledger's own inductive invariant, of what the provisioner measures.     *)
LEMMA MeasuredInvariance == Spec => []Measured!IInv
<1>1. Init => Measured!IInv
  <2>1. Init => Measured!Init
    BY InitMeasured
  <2>2. Measured!Init => Measured!IInv
    BY Measured!InitIInv
  <2> QED
    BY <2>1, <2>2
<1>2. ASSUME PlanInv, PlanInv', Measured!IInv, [Next]_vars
      PROVE  Measured!IInv'
  <2>1. Measured!Next \/ UNCHANGED Measured!vars
    BY <1>2, StepMeasured
  <2> QED
    BY <1>2, <2>1, Measured!NextIInv
<1> QED
  BY <1>1, <1>2, PlanInvariance, PTL DEF Spec

(* From the moment its bids are chosen to the last request, a worker type's    *)
(* instances and outstanding bids stay below its ceiling and one instance,     *)
(* whatever boots, dies, fails or is edited meanwhile: what counting instances *)
(* and pending requests in workerTypeStats, the two limits of                  *)
(* determineCapacityChange and the stopping rule of determineSpotBids come to  *)
(* together.                                                                   *)
THEOREM PlansWithinCeiling == Spec => []PlanWithinCeiling
<1>1. TypeOK /\ Measured!IInv => PlanWithinCeiling
  <2> SUFFICES ASSUME TypeOK, Measured!IInv, NEW w \in DOMAIN loaded, Planned(w) > 0
               PROVE  CapacityUnits(loaded[w], AllInstances(w)) + Planned(w)
                        < Room(loaded[w]) + CapacityUnits(loaded[w], unseen[w])
    BY DEF PlanWithinCeiling
  <2>1. w \in WorkerType
    BY TableIs DEF TypeOK, ProcessOK
  <2>2. LoadedPlanned[w] > 0 => LoadedUnits[w] + LoadedPlanned[w] < LoadedRoom[w] + LoadedUnseen[w]
    BY <2>1 DEF Measured!IInv, Measured!PlanFits
  <2>3. /\ LoadedPlanned[w] = Planned(w) /\ LoadedRoom[w] = Room(loaded[w])
        /\ LoadedUnits[w] = CapacityUnits(loaded[w], AllInstances(w))
        /\ LoadedUnseen[w] = CapacityUnits(loaded[w], unseen[w])
    BY <2>1 DEF LoadedPlanned, LoadedRoom, LoadedUnits, LoadedUnseen, ByLoaded
  <2> QED
    BY <2>2, <2>3
<1>2. PlanInv => TypeOK
  BY DEF PlanInv
<1> QED
  BY <1>1, <1>2, PlanInvariance, MeasuredInvariance, PTL

(* The provisioner implements the ledger, if the ledger knows all numbers:     *)
(* every step of it counts and plans once, launches what was planned, drops    *)
(* plans, or observes.                                                         *)
THEOREM LedgerKept ==
    ASSUME Amounts = Nat
    PROVE  Spec => KeepsLedger
<1>1. Init => Ledger!Init
  BY InitMeasured DEF Measured!Init, Ledger!Init, Measured!Empty, Ledger!Empty
<1>2. ASSUME PlanInv, PlanInv', [Next]_vars
      PROVE  [Ledger!Next]_Ledger!vars
  <2>1. Measured!Next \/ UNCHANGED Measured!vars
    BY <1>2, StepMeasured
  <2>2. Measured!Next => Ledger!Next
    BY DEF Measured!Next, Measured!Plan, Measured!Launch, Measured!Lose, Measured!Appear,
           Measured!Drop, Measured!Begin, Measured!End, Measured!Empty, Measured!Ledgers,
           Ledger!Next, Ledger!Plan, Ledger!Launch, Ledger!Lose, Ledger!Appear,
           Ledger!Drop, Ledger!Begin, Ledger!End, Ledger!Empty, Ledger!Ledgers
  <2>3. UNCHANGED Measured!vars => UNCHANGED Ledger!vars
    BY DEF Measured!vars, Ledger!vars
  <2> QED
    BY <2>1, <2>2, <2>3
<1> QED
  BY <1>1, <1>2, PlanInvariance, PTL DEF Spec, KeepsLedger, Ledger!Spec
==============================================================================
