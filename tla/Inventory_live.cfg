SPECIFICATION FairSpec
CONSTANTS
    Note = {n1}
    Folder = {f1}
    Sweep = {s1}
    Req = {r1, r2}
    NoFolder = NoFolder
    NoSweep = NoSweep
    NoNote = NoNote
    MaxAttempts = 2
    MaxTime = 2
PROPERTY Terminates
CHECK_DEADLOCK FALSE
