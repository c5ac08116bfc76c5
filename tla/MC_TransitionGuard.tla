------------------------ MODULE MC_TransitionGuard --------------------------
(* TLC instance of TransitionGuard: controllers and marker names are        *)
(* interchangeable.                                                         *)
EXTENDS TransitionGuard, TLC

Symmetry == Permutations(Procs) \cup Permutations(Names)
=============================================================================
