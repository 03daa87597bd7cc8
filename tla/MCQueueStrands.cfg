CONSTANTS
  m1 = m1
  m2 = m2
  m3 = m3
  m4 = m4
  Message = {m1, m2, m3, m4}
  NoTurn = NoTurn
  Policies = {"queue"}
  QueueDepth = 3
  MaxPending = 4
  Faults = {}
  MaxRepeats = 0
  MaxStops = 0
  MaxStarts = 1
SPECIFICATION FairSpec
PROPERTIES
  QueuedTurnsProceed
CHECK_DEADLOCK FALSE
