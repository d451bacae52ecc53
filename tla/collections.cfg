CONSTANTS
    Key = {1, 2}
    Member <- MCMember
    Blank = Blank
    Nil = Nil
    MinSeq <- MCMinSeq
    MaxSeq = 2
    ByteBits = 2
    OffsetBits = 3
    KeysOf <- MCKeysOf
    Value <- MCValue
    ScanModes <- MCScanModes
    Zero = 1
    MaxTime = 2
    MaxSize = 2
    MaxOps = 3
    ScanOps = 2
SPECIFICATION Spec
INVARIANTS TypeOK ReadsAgree ScanComplete
PROPERTIES FlushEmpties MoveConserves ExpiryKept ScanEnds
CHECK_DEADLOCK FALSE
