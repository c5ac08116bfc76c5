-------------------------- MODULE RuntimeExclusion --------------------------
(***************************************************************************)
(* What the runtime transition guard promises to the controllers that      *)
(* cooperate through it (internal/transition): ordinary work -- a          *)
(* controller's own processing, or a native process group it launched --   *)
(* never overlaps a runtime transition, and no work is admitted while an   *)
(* interrupted publication is pending.                                     *)
(***************************************************************************)
CONSTANTS Works,    \* identities of admitted ordinary work
          Writers,  \* controllers able to hold the exclusive side
          NoWriter  \* nobody holds it

VARIABLES work,     \* the work that may be touching the installation now
          writer,   \* the controller granted the transition, or NoWriter
          barrier   \* a publication is pending

vars == <<work, writer, barrier>>

TypeOK ==
  /\ work \subseteq Works
  /\ writer \in Writers \cup {NoWriter}
  /\ barrier \in BOOLEAN

Init ==
  /\ work = {}
  /\ writer = NoWriter
  /\ barrier = FALSE

StartWork(n) ==
  /\ writer = NoWriter
  /\ ~barrier
  /\ work' = work \cup {n}
  /\ UNCHANGED <<writer, barrier>>

\* Work ends on its own, or a machine crash ends several of them together.
EndWork ==
  /\ \E rest \in SUBSET work : work' = rest
  /\ UNCHANGED <<writer, barrier>>

StartWrite(p) ==
  /\ writer = NoWriter
  /\ work = {}
  /\ writer' = p
  /\ UNCHANGED <<work, barrier>>

\* The barrier moves only in the hands of the writer.
MoveBarrier ==
  /\ writer # NoWriter
  /\ barrier' \in BOOLEAN
  /\ UNCHANGED <<work, writer>>

\* The writer closes or dies; the barrier stays as it left it.
EndWrite ==
  /\ writer # NoWriter
  /\ writer' = NoWriter
  /\ UNCHANGED <<work, barrier>>

Next ==
  \/ \E n \in Works : StartWork(n)
  \/ EndWork
  \/ \E p \in Writers : StartWrite(p)
  \/ MoveBarrier
  \/ EndWrite

Spec == Init /\ [][Next]_vars
=============================================================================
