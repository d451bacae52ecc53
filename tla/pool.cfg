SPECIFICATION Spec
CONSTANTS
  Clients = {c1, c2, c3}
  minAlive = 2
  maxAlive = 2
  maxIdle = 2
  MaxNewConnectionAtOnce = 5
INVARIANTS TypeOK Accounted AliveBounded LossBounded
PROPERTY GetConnReturns
