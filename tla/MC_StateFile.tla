---------------------------- MODULE MC_StateFile ----------------------------
(* One unlocked reader, one ledger operation and a loop transaction over     *)
(* the same document.                                                        *)
EXTENDS StateFile

CONSTANTS r, a, c

MC_Kind == [p \in Procs |-> CASE p = r -> "reader" [] p = a -> "ledger"
                              [] OTHER -> "loop"]
=============================================================================
