SPECIFICATION MCSpec
CONSTANTS
    Base = 8
    MaxPayloadLen = 20
    SeqSize = 8
    Servers <- MCServers
    LoginsTo <- MCLoginsTo
    Requests <- MCRequests
    Tables <- MCTables
    Lists <- MCLists
    Shapes <- MCShapes
    MaxSessions = 2
    MaxStmts = 1
    MaxAhead = 1
    MaxLong = 1
    MysqlTexts <- MCMysqlTexts
    MariadbTexts <- MCMariadbTexts
    MaxGtid = 4
    Positions <- MCPositions
INVARIANTS InStep LoginRight DataArrives GtidExact
CHECK_DEADLOCK FALSE
