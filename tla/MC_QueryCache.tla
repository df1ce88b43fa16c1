---------------------------- MODULE MC_QueryCache ----------------------------
EXTENDS QueryCache, TLC
MCProcessOf == [r \in Requests |-> "serve"]
MCVersion == ("serve" :> "new")
MCTokenKind == ("live" :> "stat" @@ "pin" :> "sha")
MCTtl == ("live" :> 0 @@ "pin" :> 1)
MCCap == ("live" :> 2 @@ "pin" :> 9)
==============================================================================
