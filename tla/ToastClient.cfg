SPECIFICATION Spec
CONSTANTS
    Capacity = 3
    Rate = 1
    Cost = 2
    Callers = {r1, r2}
    Ids = {i1, i2, i3}
    None = none
    MaxRetries = 1
    GateTimeout = 2
    SleepCap = 1
    HttpTimeout = 1
    Life = 3
    Margin = 1
    MinLife = 1
    MaxRevokes = 1
INVARIANTS GrantsObeyRate CachedTokenLives
PROPERTIES EveryCallEnds
