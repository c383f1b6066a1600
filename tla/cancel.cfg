SPECIFICATION Spec
CONSTANTS
  Node <- SoloNode
  DependsOn <- SoloDeps
  Manual = {}
  Matrix = {}
  FromState = {}
  Item = {i1}
  Values <- SoloDeps
  Flatten = FALSE
  MaxCopies = 1
  NoItem = NoItem
  ObjectValue = ObjectValue
  Executor <- MCExecutor
  Caller = {c1}
  RunCall = RunCall
  ApiCalls <- OneCall
  c1 = c1
  c2 = c2
  MaxResumed = 1
  Outcomes <- SoloFails
  NumSteps = 1
  Outputs <- SoloDeps
  Managed = {}
  AutoTrigger = FALSE
  MayCrash = FALSE
  NoTask = NoTask
  NoState = NoState
  NoWrite = NoWrite
PROPERTIES CanceledIsFinal
CHECK_DEADLOCK FALSE
