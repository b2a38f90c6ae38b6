SPECIFICATION ServicesSpec
CONSTANTS
    Voter = {u1, u2}
    Option = {n1, n2, n3}
    Req = {r1, r2}
    NoVoter = NoVoter
    MayFail = TRUE
    Note = {n1, n2, n3}
    Concert = {c1}
    Edit = {r1, r2}
    NoConcert = NoConcert
    NoNote = NoNote
    MaxProgram = 2
    MaxSent = 2
    Setlist = {u1, u2}
    Pdf = {r1, r2}
    Job = {o1}
    NoSetlist = NoSetlist
    NoList = NoList
SYMMETRY Symmetric
CONSTRAINT Followed
INVARIANTS TypeOK LastBallotStored SingleChoice EveryRowWasSent LastSentStored SavedIsPlayable
CHECK_DEADLOCK FALSE
