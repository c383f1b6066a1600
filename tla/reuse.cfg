SPECIFICATION Spec
CONSTANTS
    File = {1, 2, 3, 4, 5}
    Group = {"api", "."}
    GroupOf <- SourceTree
    Root = "."
    Method = "directory"
    Sanitized <- Plain
    MaxFiles = 2
    MinSize = 2
    MaxEvaluations = 3
INVARIANTS
    NewFilesGetNewTasks
CHECK_DEADLOCK FALSE
