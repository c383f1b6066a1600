SPECIFICATION Spec
CONSTANTS
    w1 = w1
    w2 = w2
    fileA = fileA
    fileB = fileB
    newC = newC
    newD = newD
    Thread = {w1, w2}
    StateKey = {k}
    Value = {v}
    NoThread = NoThread
    Absent = Absent
    NoCall = NoCall
    Unseen = Unseen
    File = {fileA, fileB}
    NewPath = {newC, newD}
    Change <- Again
    NoFile = NoFile
    Missing = Missing
    Torn = Torn
INVARIANTS
    ChangesOnDisk
CHECK_DEADLOCK FALSE
