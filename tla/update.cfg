SPECIFICATION Spec
CONSTANTS
    p = p
    q = q
    skill = skill
    guide = guide
    Proc = {p, q}
    Updaters = {p}
    Component = {skill, guide}
    Skills = {skill}
    Writes <- SkillAndGuide
    MaxVersion = 1
    MaxRuns <- OneAgain
    MaxFaults = 2
    NoLock = NoLock
    Torn = Torn
INVARIANTS
    OneHolder
    ReportIsTrue
    RecordIsCurrent
PROPERTIES
    CommandsEnd
CHECK_DEADLOCK FALSE
