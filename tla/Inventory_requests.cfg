SPECIFICATION SweepsSpec
CONSTANTS
    Note = {n1, n2}
    Folder = {f1, f2}
    Sweep = {s1}
    Req = {r1, r2}
    NoFolder = NoFolder
    NoSweep = NoSweep
    NoNote = NoNote
    MaxAttempts = 2
    MaxTime = 1
    ScreenSweep = {r1, r2}
    ScreenNote = {x1}
    Call = {n1, n2}
    NoScreenSweep = NoScreenSweep
    NoScreenNote = NoScreenNote
    Length = 2
    MaxPages = 3
    Page = {x1}
    Stroke = {x1}
    Old = {s1}
    Broken = {}
    Save = {s1}
    NoEdit = NoEdit
    MaxUndo = 1
    MaxQueued = 2
SYMMETRY Symmetric
CONSTRAINT Followed
INVARIANTS TypeOK UniqueNumbers Gapless AnswerIsTheNumber SightedIsNumbered NoSightedNoteMissing ListIsRecorded
    BackUndoesNext QuietEditKept
PROPERTIES NumberStable CompletedSweepKept NoPageSkipped
CHECK_DEADLOCK FALSE
