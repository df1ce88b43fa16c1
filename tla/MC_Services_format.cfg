CONSTANTS
    Requests = {"r1", "r2"}
    Processes = {"serve", "shell"}
    ProcessOf <- MCProcessOf
    Version <- MCVersion
    Sources = {"live", "pin"}
    TokenKind <- MCTokenKind
    Ttl <- MCTtl
    Cap <- MCCap
    NoCap = 9
    MaxBytes = 2
    MaxEntry = 2
    BodySizes = {1, 2, 3}
    Queries = {"q", "now"}
    Volatile = {"now"}
    MaxClock = 1
    MaxEdits = 1
    MaxFileEdits = 2
    Tabs = {"t1", "t2"}
    Slugs = {"a", "b"}
    Bodies = {"x"}
    ParameterLists = {"none"}
    Descriptions = {}
    NoSlug = Nothing
    NoEntry = Nothing
    NoDescription = Nothing
    MaxRequests = 1
    MaxWrites = 2
    MaxHandEdits = 1
    Ids = {"a", "b"}
    Scopes = {"HEAD", "side"}
    Commits <- MCCommits
    ParentsOf <- MCParents
    Heads <- MCHeads
    Touching <- MCTouching
    Eligible = {"a"}
    PageSize = 1
    Nothing = Nothing
    MaxPending = 2
    Inputs = {"a", "b"}
    Texts = {"", "q"}
    Unscoped <- MCUnscoped
    MaxRuns = 3
    Loads = {"l1", "l2"}
    NoLoad = Nothing
    MaxUnloads = 1
    ConfigPaths = {"a", "b", "c"}
    Content <- MCTrees
    Malformed <- MCMalformed
    ShaOf <- MCShaOf
    GitDirs <- MCGitDirs
SPECIFICATION ServicesSpec
INVARIANTS FormatRoundTrips
CHECK_DEADLOCK FALSE
