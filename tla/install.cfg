CONSTANTS
    k1 = k1
    k2 = k2
    m1 = m1
    r1 = r1
    r2 = r2
    Key = {k1, k2}
    Member = {m1}
    MinScore = 0
    MaxScore = 3
    Text = Text
    Nil = Nil
    Replica = {r1, r2}
    Command <- LocalCommands
    MaxLog = 3
    MaxTime = 2
    MaxRestarts = 1
    MaxInstalls = 1
    MaxLocal = 1
SPECIFICATION Spec
INVARIANTS SlotFromLog FirstPassExact
CHECK_DEADLOCK FALSE
SYMMETRY Replicas
