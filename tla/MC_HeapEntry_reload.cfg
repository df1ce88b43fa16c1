CONSTANTS
    Loads = {l1, l2}
    NoLoad = NoLoad
    MaxFileEdits = 1
    MaxUnloads = 0
SPECIFICATION Spec
INVARIANTS HoldersShare
CHECK_DEADLOCK FALSE
