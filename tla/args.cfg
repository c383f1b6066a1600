SPECIFICATION Spec
CONSTANTS
    Package = {"a", "b"}
    Root = "root"
    Plain = "plain"
    Steps = 2
INVARIANTS
    ArgumentsArePassed
CHECK_DEADLOCK FALSE
