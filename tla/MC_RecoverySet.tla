-------------------------- MODULE MC_RecoverySet ---------------------------
\* Two catalog files, so that a set may be saved in part.
EXTENDS RecoverySet
CONSTANTS a, b
MC_Catalog == <<a, b>>
MC_Symmetry == Permutations(Procs)
=============================================================================
