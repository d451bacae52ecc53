CONSTANTS
    k1 = k1
    k2 = k2
    Key = {k1, k2}
    MaxTime = 3
    Horizon = 2
    MaxCommands = 3
    MaxStops = 1
    Nil = Nil
SPECIFICATION Spec
INVARIANTS TypeOK ExpiryIndexed
PROPERTIES NeverEarly ExpiryHappens
CHECK_DEADLOCK FALSE
