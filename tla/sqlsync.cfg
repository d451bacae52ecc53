SPECIFICATION Spec
CONSTANTS
  n1 = n1
  n2 = n2
  c1 = c1
  c2 = c2
  Homes <- MCHomes
  Node = {n1, n2}
  Client = {c1, c2}
  None = None
  DBConn = {d1, d2}
  MaxAlive = 2
  MaxOps = 3
  MaxFaults = 1
  MaxUpset = 1
INVARIANTS AppliedAtMost Converges
PROPERTY Settles
CHECK_DEADLOCK FALSE
