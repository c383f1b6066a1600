SPECIFICATION Spec
CONSTANTS
    pro = pro
    free = free

    t2 = t2
    t1 = t1
    Task = {t1, t2}
    Package = {free, pro}
    Pro = {pro}
    File = {"yaml", "script"}
    Required = {"yaml"}
    None = None
    MaxResolutions = 3
    MaxFaults = 1
INVARIANTS
    OneWriter
PROPERTIES
    ReturnsThePackage
    ResolutionsEnd
CHECK_DEADLOCK FALSE
