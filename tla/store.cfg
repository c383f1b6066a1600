SPECIFICATION Spec
CONSTANTS
  Process = {p1, p2}
  TaskId = {t1, t2}
  Value = {v1, v2}
  p1 = p1
  p2 = p2
  t1 = t1
  t2 = t2
  v1 = v1
  v2 = v2
  Legacy = {}
  MaxItems = 1
  Run = Run
  State = State
  Missing = Missing
  Torn = Torn
INVARIANTS IndexNamesTasks AcknowledgedTasksListed
PROPERTIES ImplementsStore
SYMMETRY Symmetry
