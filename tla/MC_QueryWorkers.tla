--------------------------- MODULE MC_QueryWorkers ---------------------------
(* One source, whose store has two quads.                                  *)
EXTENDS QueryWorkers
AllOnOne == CHOOSE f \in [Sources -> Indexes] : \A s, t \in Sources : f[s] = f[t]
TwoQuads == [s \in Sources |-> 2]

(* Either all requests are asked of files that no longer change, or one is *)
(* asked while they are edited and their stores invalidated.               *)
BoundedInit ==
    \/ PoolStart(Requests, MaxEdits)
    \/ PoolStart({CHOOSE r \in Requests : TRUE}, 0)
BoundedSpec == BoundedInit /\ [][PoolNext]_poolVars /\ PoolFairness
=============================================================================
