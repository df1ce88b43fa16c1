---------------------------- MODULE MC_HeapEntry ----------------------------
EXTENDS HeapEntry, TLC
=============================================================================
