SPECIFICATION Spec
CONSTANTS
    RatioDen = 2
    Region = {"r1", "r2"}
    Zone = {"z1", "z2"}
    InstanceType = {"small", "large"}
    ManagedRegions = {"r1", "r2"}
    RegionOf <- MCRegionOf
    BrokenCombos = {}
    SaneBid = 10
    MaxPrice = 5
    WorkerType = {"a"}
    Image = {"ami1", "ami2"}
    Definitions <- TwoDefinitions
    Pricings <- SteadyPricing
    SpawnLimit = 2
    MaxFailures = 2
    MaxEdits = 3
    MaxFaults = 1
    MaxTasks = 2
    MaxLosses = 1
    Amounts <- MCAmounts
INVARIANTS
    TypeOK
    KillsOnlyRemoved
    PlanWithinCeiling
PROPERTIES
    KeepsLedger
