CONSTANTS
  j1 = j1
  j2 = j2
  Job = {j1, j2}
  Once = {}
  Repeat <- RepeatNever
  Ticker = {g, c}
  Legacy = {}
  Supervisor = {g}
  Editor = {}
  NoJob = NoJob
  NoLock = NoLock
  Faults = {"slow"}
  MaxOccurrence = 1
  MaxEdits = 0
  MaxStarts = 1
  MaxThrows = 0
SPECIFICATION Spec
INVARIANTS
  AtMostOncePerOccurrence
