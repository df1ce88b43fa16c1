CONSTANTS Requests = {r1,r2}
Processes = {"serve"}
ProcessOf <- MCProcessOf
Version <- MCVersion
Sources = {"live","pin"}
TokenKind <- MCTokenKind
Ttl <- MCTtl
Cap <- MCCap
NoCap = 9
MaxBytes = 3
MaxEntry = 2
BodySizes = {1,2}
Queries = {"q","now"}
Volatile = {"now"}
MaxClock = 1
MaxEdits = 1
SPECIFICATION CacheSpec
INVARIANT ReloadedMisses
CHECK_DEADLOCK FALSE
