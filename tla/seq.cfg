SPECIFICATION FairSpec
CONSTANTS
  Node <- FanNode
  DependsOn <- LastDeps
  Manual = {"fan"}
  Matrix = {"fan", "pair"}
  FromState = {"fan"}
  Item = {i1, i2, i3}
  Values <- FanValues
  Flatten = FALSE
  MaxCopies = 2
  NoItem = NoItem
  ObjectValue = ObjectValue
  Executor <- MCExecutor
  Caller = {}
  RunCall = RunCall
  ApiCalls <- NoCalls
  c1 = c1
  c2 = c2
  MaxResumed = 1
  Outcomes <- FanFails
  NumSteps = 1
  Outputs <- FanOutputs
  Managed = {}
  AutoTrigger = TRUE
  MayCrash = FALSE
  NoTask = NoTask
  NoState = NoState
  NoWrite = NoWrite
INVARIANTS TypeOK RunStatusAgrees FinishedMastersAgree FinishedMatrixMatchesState OneTaskPerItem
PROPERTIES RunCompletes
CHECK_DEADLOCK FALSE
