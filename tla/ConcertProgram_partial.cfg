SPECIFICATION ConcertSpec
CONSTANTS
    Note = {n1, n2}
    Concert = {c1}
    Edit = {r1, r2}
    NoConcert = NoConcert
    NoNote = NoNote
    MaxProgram = 2
    MaxSent = 2
INVARIANT NoPartialWrite
CHECK_DEADLOCK FALSE
