CONSTANTS
    Key = {0, 1, 2, 3}
    Value = {a, b}
    Nil = Nil
    NoBytes = NoBytes
    EncodeKey <- MCEncodeKey
    SamePrefix <- MCSamePrefix
    Reader = {r1}
    MaxOps = 3
    MaxFaults = 1
SPECIFICATION Spec
INVARIANTS AckedVisible RangesRight
PROPERTY ImplementsBatches
CHECK_DEADLOCK FALSE
