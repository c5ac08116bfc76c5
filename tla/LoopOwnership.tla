--------------------------- MODULE LoopOwnership ----------------------------
(***************************************************************************)
(* What the loop controllers of one checkout promise together              *)
(* (internal/loop): a task is open from its first checkpoint until a       *)
(* checkpoint says with certainty that its work is over; one task is open  *)
(* at a time; native work belongs to the open task and is over before the  *)
(* task is closed; and paid attempts are limited for the whole life of a   *)
(* task, however often controllers die.                                    *)
(***************************************************************************)
EXTENDS Naturals

CONSTANTS Tasks, MaxAttempts

VARIABLES open,     \* the tasks whose work may be unfinished
          working,  \* the tasks a native group may be working for
          spent     \* paid implementer launches of each task

vars == <<open, working, spent>>

Init ==
  /\ open = {} /\ working = {}
  /\ spent = [t \in Tasks |-> 0]

Open(t) ==
  /\ open = {}
  /\ open' = {t}
  /\ UNCHANGED <<working, spent>>

\* A check or a reviewer.
Launch(t) ==
  /\ t \in open /\ working = {}
  /\ working' = {t}
  /\ UNCHANGED <<open, spent>>

Implement(t) ==
  /\ t \in open /\ working = {}
  /\ spent[t] < MaxAttempts
  /\ working' = {t}
  /\ spent' = [spent EXCEPT ![t] = @ + 1]
  /\ UNCHANGED open

WorkEnds ==
  /\ working' = {}
  /\ UNCHANGED <<open, spent>>

Close(t) ==
  /\ t \in open /\ working = {}
  /\ open' = {}
  /\ UNCHANGED <<working, spent>>

Next ==
  \/ \E t \in Tasks : Open(t) \/ Launch(t) \/ Implement(t) \/ Close(t)
  \/ WorkEnds

Spec == Init /\ [][Next]_vars
=============================================================================
