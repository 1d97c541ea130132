SPECIFICATION Spec
CONSTANTS
    Caller = {"i1", "i2"}
    ManagedRegions = {"r1", "r2"}
    InstanceType = {"t1"}
    Zone = {"z1", "z2"}
    Report <- MCReport
    WorkerType = {"a"}
    Maximum = 1
    Largest = 2
    MaxFailures = 2
    MaxEdits = 3
    MaxFaults = 2
INVARIANTS
    TypeOK
    OverlapBounded
    NewestKillsOnlyRemoved
PROPERTIES
    PricesFromOneCall
    RemovedDrained
