\* Three sources compete for one slot: two can wait.  One child in the slot,
\* two whose late events are still to come.
CONSTANTS
    Sources = {s1, s2, s3}
    Pids = {p1, p2, p3}
    NoPid = NoPid
    NoSource = NoSource
    Concurrency = 1
SPECIFICATION PoolSpec
INVARIANTS SlotsMatchChildren
PROPERTIES NoOvertaking ShutdownIsFinal QueueDrains ShutdownCompletes
