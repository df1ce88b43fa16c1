CONSTANTS
    Sources = {s1}
    Requests = {r1}
    Workers = {w1, w2}
    Indexes = {0}
    NoWorker = NoWorker
    NoSource = NoSource
    NoRequest = NoRequest
    Assign <- AllOnOne
    Quads <- TwoQuads
    MaxResidentQuads = 2
    MaxEdits = 1
    MaxInbox = 1
    Watched = {s1}
    MaxEpoch = 1
SPECIFICATION Spec
SYMMETRY Symmetry
INVARIANTS MemoIsLive MirrorHasRecipe FreshAfterQuietInvalidate
PROPERTIES UnloadStays
CHECK_DEADLOCK FALSE
