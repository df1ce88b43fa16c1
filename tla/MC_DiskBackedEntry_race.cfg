\* One source, two touches in flight, two children for one slot.
CONSTANTS
    Sources = {s1}
    Pids = {p1, p2}
    NoPid = NoPid
    NoSource = NoSource
    Concurrency = 1
    Touches = {t1, t2}
SPECIFICATION Spec
INVARIANTS ReplacedIndexNotServed
PROPERTIES NoSpawnStorm SuccessIsVisible
SYMMETRY Symmetry
CHECK_DEADLOCK FALSE
