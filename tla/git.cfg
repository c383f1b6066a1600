SPECIFICATION Spec
CONSTANTS
    t1 = t1
    t2 = t2
    Task = {t1, t2}
    Attempt = {1, 2, 3}
    TaskOf <- OneRetried
    Asks = {t1}
    MaxCommits <- OneCommits
    MaxPushes = 2
    NoAttempt = NoAttempt
    NoBranch = NoBranch
INVARIANTS
    WorktreesAreRemoved
    CompletedBranchIsTheWork
    PublishedBranchIsTheWork
PROPERTIES
    AttemptsEnd
CHECK_DEADLOCK FALSE
