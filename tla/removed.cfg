SPECIFICATION Spec
CONSTANTS
    pro = pro
    free = free
    t2 = t2
    t1 = t1
    Task = {t1, t2}
    Package = {free, pro}
    Pro = {pro}
    File = {"yaml", "script"}
    Required = {"yaml"}
    None = None
    MaxResolutions = 2
    MaxFaults = 0
PROPERTIES
    ExtractedFilesStay
CHECK_DEADLOCK FALSE
