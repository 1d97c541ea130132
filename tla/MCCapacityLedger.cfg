SPECIFICATION Spec
CONSTANTS
    WorkerType = {"a"}
    Amount = {0, 1, 2, 3, 4}
INVARIANTS
    TypeOK
    PlanFits
