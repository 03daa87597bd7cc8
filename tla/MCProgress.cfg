CONSTANTS
  t1 = t1
  s1 = s1
  s2 = s2
  s3 = s3
  h1 = h1
  h2 = h2
  NoHost = NoHost
  Task = {t1}
  Step = {s1, s2}
  Host = {h1, h2}
  Foreground = {h1}
  Mortal = {h1}
  Synthesis = {}
  RestartSafe = {s1}
  AutoRetry = {s1, s2}
  MaxAttempts = 2
  MaxProfileConcurrent = 1
  MaxTaskConcurrent = 1
  MaxLinks = 0
  MaxHostGen = 3
  Outcomes = {"succeeded", "spending_denied", "failed", "uncertain", "cancelled"}
  Faults = {"crash"}
  Operations = {"retry"}
  TaskOf <- OneTask
  DependsOn <- Parallel
  OnExhausted <- FailOrAsk
SPECIFICATION FairSpec
INVARIANTS
  ConcurrencyLimits
PROPERTIES
  TaskProgress
  RunningAttemptsEnd
