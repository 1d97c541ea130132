SPECIFICATION Spec
CONSTANTS
    RatioDen = 2
    Rules <- MCRules
    InstanceUnits = 2
    MaxTasks = 4
    MaxLosses = 2
INVARIANTS
    TypeOK
    CapacityBounded
PROPERTIES
    AnsweredOnce
    MinimumRestored
    BacklogClaimed
CHECK_DEADLOCK FALSE
