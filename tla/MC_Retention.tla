---------------------------- MODULE MC_Retention ----------------------------
\* Three releases, and three recovery sets made one after the other.
EXTENDS Retention
MC_Releases == 0..2
MC_Ids == 1..3
=============================================================================
