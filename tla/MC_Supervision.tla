--------------------------- MODULE MC_Supervision ---------------------------
\* Every entry point.
EXTENDS Supervision
MC_Kinds == EntryPoints
=============================================================================
