--------------------------- MODULE MC_AtomicBuild ---------------------------
(* Three builds of one index, edits while they run, kills between any two *)
(* of their steps.                                                        *)
EXTENDS AtomicBuild, TLC
BuildSymmetry == Permutations(Builds) \cup Permutations(Pids)
=============================================================================
