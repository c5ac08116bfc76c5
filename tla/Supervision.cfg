SPECIFICATION FairSpec
CONSTANTS
  Kinds <- MC_Kinds
  MaxStops = 1
INVARIANTS ConfirmedIsGone SuccessIsWhole TerminalComesBack
PROPERTIES Returns
CHECK_DEADLOCK FALSE
