SPECIFICATION Spec
CONSTANTS
  n1 = n1
  n2 = n2
  c1 = c1
  c2 = c2
  c3 = c3
  Node = {n1, n2}
  Client = {c1, c2, c3}
  None = None
  k1 = k1
  k2 = k2
  Key = {k1, k2}
  Home <- MCHome
  Command <- MCCommand
  Utf8 <- MCUtf8
  CMDList = {"INCR"}
  MaxOps = 3
  MaxFaults = 1
INVARIANTS SyncedOnce KeyConverges DeliveredOnce SubscribersGetAll
PROPERTY Answered
CHECK_DEADLOCK FALSE
