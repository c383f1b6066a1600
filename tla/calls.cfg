SPECIFICATION FairSpec
CONSTANTS
  Node <- GateNode
  DependsOn <- GateNone
  Manual = {"gate"}
  Matrix = {}
  FromState = {}
  Item = {i1}
  Values <- GateNone
  Flatten = FALSE
  MaxCopies = 1
  NoItem = NoItem
  ObjectValue = ObjectValue
  Executor <- MCExecutor
  Caller = {c1, c2}
  RunCall = RunCall
  ApiCalls <- StartCancel
  c1 = c1
  c2 = c2
  MaxResumed = 1
  Outcomes <- GateAll
  NumSteps = 2
  Outputs <- GateNone
  Managed = {"gate"}
  AutoTrigger = FALSE
  MayCrash = FALSE
  NoTask = NoTask
  NoState = NoState
  NoWrite = NoWrite
INVARIANTS RunningHasOwner
PROPERTIES RunningTasksEnd
CHECK_DEADLOCK FALSE
