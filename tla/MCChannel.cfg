CONSTANTS
  m1 = m1
  m2 = m2
  m3 = m3
  Message = {m1, m2, m3}
  NoTurn = NoTurn
  Policies = {"reject", "queue", "interrupt"}
  QueueDepth = 2
  MaxPending = 3
  Faults = {"session", "acquire", "throw", "database", "crash", "unrecoverable"}
  MaxRepeats = 1
  MaxStops = 1
  MaxStarts = 2
SPECIFICATION FairSpec
INVARIANTS
  TypeOK
  QueueMatchesStore
  OneTurnExecutes
  OneRunPerDelivery
  CompletedTextWasLaunched
  ClaimIsHeld
PROPERTIES
  ClaimsEnd
CHECK_DEADLOCK FALSE
