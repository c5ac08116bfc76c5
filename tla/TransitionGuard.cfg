\* Three controllers, two marker names: enough for a transition, a worker and
\* a reader at once, with the evidence of one earlier worker left behind.
SPECIFICATION Spec
CONSTANTS
  Procs = {p1, p2, p3}
  Names = {n1, n2}
  NoName = NoName
  NoProc = NoProc
SYMMETRY Symmetry
INVARIANT EvidenceSurvives
PROPERTY ImplementsExclusion
