CONSTANTS
  t1 = t1
  s1 = s1
  s2 = s2
  s3 = s3
  h1 = h1
  h2 = h2
  NoHost = NoHost
  Task = {t1}
  Step = {s1, s2, s3}
  Host = {h1, h2}
  Foreground = {h1}
  Mortal = {h2}
  Synthesis = {s3}
  RestartSafe = {}
  AutoRetry = {}
  MaxAttempts = 1
  MaxProfileConcurrent = 2
  MaxTaskConcurrent = 2
  MaxLinks = 1
  MaxHostGen = 2
  Outcomes = {"succeeded", "empty", "waiting_for_approval"}
  Faults = {"crash", "no_executor", "limit", "shutdown"}
  Operations = {"pause", "resume", "cancel"}
  TaskOf <- FanOutTask
  DependsOn <- FanOut
  OnExhausted <- FanOutPolicies
SPECIFICATION Spec
INVARIANTS
  DependencyOrder
  SettledTaskIsQuiet
  SettledTaskStopsAttempts
  StepAttemptAgreement
  CompletedTaskSettlesSteps
PROPERTIES
  ImplementsLifecycle
