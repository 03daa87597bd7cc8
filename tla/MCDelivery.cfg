CONSTANTS
  Binding = {b1}
  Warning = {w1}
  Host = {h1, h2}
  NoRow = NoRow
  MaxRetries = 1
  MaxStarts = 2
SPECIFICATION FairSpec
INVARIANTS
  TypeOK
  NoUnaskedResend
  DeliveredWasAccepted
PROPERTIES
  ImplementsOutbox
  DeliveriesSettle
  DeliveriesAttempted
