SPECIFICATION Spec
CONSTANTS
  Node <- GrowNode
  DependsOn <- GrowDeps
  Manual = {}
  Matrix = {"grow"}
  FromState = {"grow"}
  Item = {i1}
  Values <- GrowValues
  Flatten = FALSE
  MaxCopies = 2
  NoItem = NoItem
  ObjectValue = ObjectValue
  Executor <- MCExecutor
  Caller = {c1}
  RunCall = RunCall
  ApiCalls <- OneCall
  c1 = c1
  c2 = c2
  MaxResumed = 1
  Outcomes <- GrowFails
  NumSteps = 1
  Outputs <- GrowOutputs
  Managed = {}
  AutoTrigger = FALSE
  MayCrash = TRUE
  NoTask = NoTask
  NoState = NoState
  NoWrite = NoWrite
INVARIANTS StartsAfterDependencies SleepsOnCurrentTasks
CHECK_DEADLOCK FALSE
