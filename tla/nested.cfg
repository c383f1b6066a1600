SPECIFICATION Spec
CONSTANTS
    Package = {"a", "b"}
    Root = "root"
    Plain = "plain"
    Steps = 2
PROPERTIES
    RunEnds
CHECK_DEADLOCK FALSE
