---------------------------- MODULE MC_SavedQueries ----------------------------
EXTENDS SavedQueries
================================================================================
