SPECIFICATION Spec
CONSTANTS
    Sweep = {s1, s2}
    Note = {n1}
    Folder = {f1}
    Tab = {t1, t2}
    Session = {x1}
    NoSweep = NoSweep
    NoFolder = NoFolder
    NoSession = NoSession
SYMMETRY Symmetric
INVARIANT FinishedIsQueued
