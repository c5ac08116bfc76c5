------------------------------ MODULE MC_Loop -------------------------------
\* A task that is implemented and one that is only checked.
EXTENDS Loop
MC_Mode == [t \in Tasks |-> IF t = "feature" THEN "bounded" ELSE "manual"]
=============================================================================
