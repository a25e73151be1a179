SPECIFICATION Spec
CONSTANTS
  s1 = s1
  s2 = s2
  c1 = c1
  c2 = c2
  k1 = k1
  k2 = k2
  Sends <- MCSends
  Conns <- MCConns
  Keys <- MCKeys
  Nil = Nil
  MaxPending = 2
  MaxPerKey = 2
  MaxPublishes = 3
SYMMETRY RuntimeSymmetry
CHECK_DEADLOCK FALSE
INVARIANTS TypeOK SendCaptured OneSend PrepareEnds ServedUnlessDisplaced StoppedIsQuiet TimerCovers
