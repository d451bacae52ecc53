SPECIFICATION Spec
CONSTANTS
  Key = {k1, k2}
  Reader = {r1}
  MaxValue = 1
  SetBufSize = 3
  MaxCommands = 4
  Nil = Nil
  NoBytes = NoBytes
INVARIANT CommandsCoherent
PROPERTY StaleEnds
CHECK_DEADLOCK FALSE
