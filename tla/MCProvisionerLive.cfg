SPECIFICATION Spec
CONSTANTS
    RatioDen = 2
    Region = {"r1"}
    Zone = {"z1"}
    InstanceType = {"small", "large"}
    ManagedRegions = {"r1"}
    RegionOf <- MCRegionOf
    BrokenCombos = {}
    SaneBid = 10
    MaxPrice = 5
    WorkerType = {"a", "b"}
    Image = {"ami1", "ami2"}
    Definitions <- KeptDefinitions
    Pricings <- SteadyPricing
    SpawnLimit = 1
    MaxFailures = 2
    MaxEdits = 1
    MaxFaults = 1
    MaxTasks = 1
    MaxLosses = 2
    Amounts <- MCAmounts
PROPERTIES
    RemovedDrained
    BacklogClaimed
    MinimumKept
