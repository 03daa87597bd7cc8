CONSTANTS
  w1 = w1
  w2 = w2
  y1 = y1
  o1 = o1
  o2 = o2
  worker = worker
  synthesis = synthesis
  other = other
  rootA = rootA
  rootB = rootB
  task = task
  session = session
  NoStep = NoStep
  Request = {w1, w2, y1}
  Runtime = {o1, o2}
  Scope = {task, session}
  Step = {worker, synthesis, other}
  Root = {rootA, rootB}
  OwnerOf <- Owners
  ScopesOf <- ScopeSets
  StepOf <- StepsOf
  Cost <- Costs
  Limit <- Limits
  Threshold <- Thresholds
  RootOf <- Roots
  RootsIn <- RootSets
  TaskScope = {task}
  Tokens <- TokenCounts
  Synthesis = {synthesis, other}
  MaxOverrun = 1
SPECIFICATION Spec
INVARIANTS
  TypeOK
  BalancesMatch
  LimitHolds
  SentIsCovered
  SentIsNeverReleased
  SynthesisIsFunded
  WarningIsRecorded
CHECK_DEADLOCK FALSE
