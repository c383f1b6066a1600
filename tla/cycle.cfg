SPECIFICATION Spec
CONSTANTS
    Package = {"a", "b"}
    Root = "root"
    Plain = "plain"
    Steps = 2
INVARIANTS
    CyclesAreRefused
CHECK_DEADLOCK FALSE
