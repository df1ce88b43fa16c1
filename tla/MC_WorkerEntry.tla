--------------------------- MODULE MC_WorkerEntry ---------------------------
(* One source, whose index has two threads to run on.                     *)
EXTENDS WorkerEntry
AllOnOne == CHOOSE f \in [Sources -> Indexes] : \A s, t \in Sources : f[s] = f[t]
TwoQuads == [s \in Sources |-> 2]
Symmetry == Permutations(Requests) \cup Permutations(Workers)
=============================================================================
