\* A split glob with one file, and another source; the ring holds two events,
\* so that a client that was away for three must start over.
CONSTANTS
    m = m
    c = c
    a = a
    Entries = {m, c, a}
    NoParent = NoParent
    ParentOf <- OneChild
    DiskBacked = {c}
    Capacity = 2
    MaxChanges <- OneOfEach
    MaxFaults = 1
SPECIFICATION Spec
INVARIANTS IdleShowsAnnounced 
 
CHECK_DEADLOCK FALSE
