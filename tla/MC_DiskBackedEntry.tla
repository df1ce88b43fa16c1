------------------------ MODULE MC_DiskBackedEntry ------------------------
(* Two touches of one source, or two sources that share one build slot.   *)
(* Sources, children and touches are each interchangeable.                *)
EXTENDS DiskBackedEntry
Symmetry == Permutations(Sources) \cup Permutations(Pids) \cup Permutations(Touches)
=============================================================================
