SPECIFICATION ProxySpec
CONSTANTS
  Clients = {c1, s1, s2}
  Senders = {s1, s2}
  minAlive = 2
  maxAlive = 2
  maxIdle = 2
  MaxNewConnectionAtOnce = 5
  GetConnRetry = 2
PROPERTY ServedWhileSpare
CHECK_DEADLOCK FALSE
