SPECIFICATION Spec
CONSTANTS
    Client = {c1, c2}
    SpawnToken = {"s1"}
    ApiToken = {"a1"}
    Content = {"k1", "k2"}
    MaxFaults = 0
INVARIANT
    NotUsedRepeatedly
