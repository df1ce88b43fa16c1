CONSTANTS
    Builds = {b1, b2}
    Pids = {p1, p2}
    NoBuild = NoBuild
    MaxLive = 1
    MaxEdits = 1
SPECIFICATION Spec
INVARIANTS PriorIndexIntact
CHECK_DEADLOCK FALSE
