------------------------ MODULE MC_SourceStateStream ------------------------
(* A split glob m with one file c, and a source a.                        *)
EXTENDS SourceStateStream
CONSTANTS m, c, a
OneChild == [e \in Entries |-> IF e = c THEN m ELSE NoParent]
OneOfEach == [e \in Entries |-> 1]
=============================================================================
