\* Three builds in a row, two of them at once; one process id is used twice.
CONSTANTS
    Builds = {b1, b2, b3}
    Pids = {p1, p2}
    NoBuild = NoBuild
    MaxLive = 2
    MaxEdits = 2
SPECIFICATION Spec
SYMMETRY BuildSymmetry
INVARIANTS LiveTempKept VisibleHasDb FreshIsNeverOld NothingLeftBehind
CHECK_DEADLOCK FALSE
