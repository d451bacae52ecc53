CONSTANTS
    k1 = k1
    k2 = k2
    m1 = m1
    r1 = r1
    r2 = r2
    Key = {k1}
    Member = {}
    MinScore = 0
    MaxScore = 3
    Text = Text
    Nil = Nil
    Replica = {r1, r2}
    Command <- CounterCommands
    MaxLog = 3
    MaxTime = 1
    MaxRestarts = 1
    MaxInstalls = 0
    MaxLocal = 0
SPECIFICATION Spec
INVARIANT ReplicasAgree
CHECK_DEADLOCK FALSE
