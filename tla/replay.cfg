CONSTANTS
    k1 = k1
    k2 = k2
    m1 = m1
    r1 = r1
    r2 = r2
    Key = {k1, k2}
    Member = {m1}
    MinScore = 0
    MaxScore = 3
    Text = Text
    Nil = Nil
    Replica = {r1}
    Command <- ReplayCommands
    MaxLog = 4
    MaxTime = 1
    MaxRestarts = 2
    MaxInstalls = 0
    MaxLocal = 0
SPECIFICATION Spec
INVARIANTS TypeOK SlotFromLog FirstPassExact
PROPERTIES PlaybackEnds
CHECK_DEADLOCK FALSE
