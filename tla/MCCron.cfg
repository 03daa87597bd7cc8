CONSTANTS
  j1 = j1
  j2 = j2
  Job = {j1}
  Once = {}
  Repeat <- RepeatOnce
  Ticker = {g, c}
  Legacy = {c}
  Supervisor = {g}
  Editor = {u}
  NoJob = NoJob
  NoLock = NoLock
  Faults = {"throw"}
  MaxOccurrence = 1
  MaxEdits = 1
  MaxStarts = 2
  MaxThrows = 1
SPECIFICATION FairSpec
INVARIANTS
  TypeOK
  AtMostOncePerOccurrence
  RepeatIsRespected
PROPERTIES
  DueJobsRun
