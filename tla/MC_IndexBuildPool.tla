-------------------------- MODULE MC_IndexBuildPool --------------------------
(* Three sources, one slot, three child processes.                         *)
EXTENDS IndexBuildPool
=============================================================================
