\* Two queries and a load on one index whose worker can be replaced once, or
\* one query and an edit.
CONSTANTS
    Sources = {s1}
    Requests = {r1, r2}
    Workers = {w1, w2}
    Indexes = {0}
    NoWorker = NoWorker
    NoSource = NoSource
    NoRequest = NoRequest
    Assign <- AllOnOne
    Quads <- TwoQuads
    MaxResidentQuads = 2
    MaxEdits = 1
    Watched = {s1}
    MaxInbox = 1
SPECIFICATION BoundedSpec
INVARIANTS BooksAgree
PROPERTIES CallsRefined NoRespawn QuerySettles
CHECK_DEADLOCK FALSE
