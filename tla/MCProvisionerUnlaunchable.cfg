SPECIFICATION Spec
CONSTANTS
    RatioDen = 2
    Region = {"r1"}
    Zone = {"z1"}
    InstanceType = {"small", "large"}
    ManagedRegions = {"r1"}
    RegionOf <- MCRegionOf
    BrokenCombos = {}
    SaneBid = 10
    MaxPrice = 5
    WorkerType = {"a"}
    Image = {"ami1", "ami2"}
    Definitions <- TwoDefinitions
    Pricings <- SteadyPricing
    SpawnLimit = 2
    MaxFailures = 2
    MaxEdits = 1
    MaxFaults = 0
    MaxTasks = 2
    MaxLosses = 0
    Amounts <- MCAmounts
INVARIANT
    UnlaunchableIgnored
