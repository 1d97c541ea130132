SPECIFICATION Spec
CONSTANTS
    Region = {"r1", "r2"}
    Zone = {"r1a", "r1b", "r2a"}
    InstanceType = {"t1", "t2"}
    RegionOf <- MCRegionOf
    FallbackZone <- MCFallbackZone
    ManagedRegions = {"r1"}
    Value = {"ami1", "ami2", "sg1", "sg2", "net", ""}
    Falsy = {""}
    Images <- MCImages
    SecurityGroups <- MCGroups
    Definitions <- MCDefinitions
    Client = {"c1", "c2"}
    Name = {"a"}
    Body <- MCBody
    Files <- MCFiles
    Omitted <- MCOmitted
    Date = {1, 2}
    Lifetime = 3
    Period = 2
    MaxCalls = 3
    MaxFaults = 1
INVARIANTS
    TypeOK
    StoredLaunches
    StoredFromChecked
    LapsesOnlyAfterFailure
PROPERTIES
    KeepsTable
    QueueCatchesUp
