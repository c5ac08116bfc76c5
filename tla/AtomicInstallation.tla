------------------------ MODULE AtomicInstallation --------------------------
(***************************************************************************)
(* What the whole-installation transaction promises to everything that     *)
(* looks at the selected files (docs/adr/0098): the installation is wholly *)
(* the previous one or wholly the new one, or a barrier keeps ordinary     *)
(* work away from it.  It comes out from behind the barrier as a terminal  *)
(* record says, and never changes in front of it.                          *)
(***************************************************************************)
VARIABLES shown,   \* what ordinary work can see: "old", "new" or "barred"
          verdict  \* direction of the terminal record, or "none"

vars == <<shown, verdict>>

TypeOK ==
  /\ shown \in {"old", "new", "barred"}
  /\ verdict \in {"none", "forward", "reverse"}

Init == shown = "old" /\ verdict = "none"

Raise ==
  /\ shown # "barred"
  /\ shown' = "barred"
  /\ UNCHANGED verdict

\* A terminal record is only written, or reopened, behind the barrier.
Decide ==
  /\ shown = "barred"
  /\ verdict' \in {"none", "forward", "reverse"}
  /\ UNCHANGED shown

\* Checking a rollback before the barrier goes up reopens the record.
Reopen ==
  /\ shown # "barred"
  /\ verdict' = "none"
  /\ UNCHANGED shown

Lower ==
  /\ shown = "barred"
  /\ \/ verdict = "forward" /\ shown' = "new"
     \/ verdict = "reverse" /\ shown' = "old"
  /\ UNCHANGED verdict

Next == Raise \/ Decide \/ Reopen \/ Lower

Spec == Init /\ [][Next]_vars
=============================================================================
