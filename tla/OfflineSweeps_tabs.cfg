SPECIFICATION FairSpec
CONSTANTS
    Sweep = {s1}
    Note = {n1}
    Folder = {f1}
    Tab = {t1, t2}
    Session = {x1, x2}
    NoSweep = NoSweep
    NoFolder = NoFolder
    NoSession = NoSession
INVARIANT TypeOK
PROPERTIES DeliversFinished PushEnds
