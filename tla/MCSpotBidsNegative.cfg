SPECIFICATION Spec
CONSTANTS
    Region = {"east", "west"}
    Zone = {"a1", "a2", "b1"}
    InstanceType = {"small", "large"}
    ManagedRegions = {"east", "west"}
    RegionOf <- MCRegionOf
    BrokenCombos <- MCBrokenCombos
    SaneBid = 10
    MaxPrice = 8
    Rules <- MCNegativeRules
    Pricings <- MCPricings
    MaxChange = 4
    MaxPasses = 4
INVARIANT
    BidsByUnits
CHECK_DEADLOCK FALSE
