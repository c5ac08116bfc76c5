-------------------------- MODULE BudgetExecution ---------------------------
(***************************************************************************)
(* internal/budget: controllers that admit, run and account for native     *)
(* invocations through one durable ledger, .factory/budget.json.           *)
(*                                                                         *)
(* Every change of the ledger is one locked read-modify-publish of the     *)
(* whole file, so it is one action; it may fail before or after the rename *)
(* that commits it.  Everything else interleaves: other controllers, the   *)
(* native process groups (which outlive a controller that dies), the       *)
(* activity markers a controller leaves in the transition guard, and the   *)
(* operator who repairs what an unclean end left behind.                   *)
(*                                                                         *)
(* A reservation names its controller by process number, and whether that  *)
(* controller lives is asked of the operating system by number alone.  So  *)
(* a controller is its number here: it may start again, and any process    *)
(* may be given the number once the controller has ended.                  *)
(*                                                                         *)
(* Cost thresholds and the enabled switch, which only add reasons to       *)
(* refuse an admission, are left out.  Times are in abstract units.        *)
(***************************************************************************)
EXTENDS Integers, Sequences, FiniteSets, FiniteSetsExt

CONSTANTS
  Procs,           \* process numbers controllers run under
  Requests,        \* what can be asked for: records of a session and a task
  Timeouts,        \* execution allowances a controller may bring
  MaxAttempts, MaxSessionRuns, MaxConcurrent, SessionSeconds,
  Grace,           \* longest cleanup after an allowance has run out
  MaxFaults        \* bound on crashes and failed calls in a behaviour

ASSUME RequestsAssumption == Requests # {}
ASSUME LimitsAssumption ==
  /\ {MaxAttempts, MaxSessionRuns, MaxConcurrent, SessionSeconds} \subseteq Nat \ {0}
  /\ Timeouts \subseteq Nat \ {0}
  /\ Grace \in Nat /\ MaxFaults \in Nat

VARIABLES
  ledger,    \* the reservations, oldest first
  pc,        \* how far each controller's Run has come
  run,       \* the row it was admitted with, 0 before admission
  request,   \* what it was asked for
  result,    \* what supervision reported
  clean,     \* its work is terminal: Close may remove the activity marker
  markers,   \* rows (0: none) behind the markers that were left in place
  children,  \* rows (0: a preflight probe) whose native group may be running
  faults,    \* crashes and failures so far
  alive,     \* numbers in use by a process, a controller or another one
  orphans    \* history: active rows whose controller has ended

owners == <<alive, orphans>>
vars == <<ledger, pc, run, request, result, clean, markers, children, faults, owners>>

Row == [session : {r.session : r \in Requests}, task : {r.task : r \in Requests},
        owner : Procs, reserved : Nat, elapsed : Nat,
        status : {"active", "completed"}, outcome : {"running", "ended"},
        pid : BOOLEAN]
Stages == {"idle", "guarded", "checked", "admitted", "spawned", "published",
           "ended", "closing"}

\* spawned: a native process was started; sure: its group's exit was seen;
\* doubt: the publication of its identity failed but may have committed.
Result == [spawned : BOOLEAN, sure : BOOLEAN, doubt : BOOLEAN, elapsed : Nat]
NoResult == [spawned |-> FALSE, sure |-> TRUE, doubt |-> FALSE, elapsed |-> 0]
NoRequest == CHOOSE r \in Requests : TRUE

\* validateRecord: a ledger holding anything else is refused by every reader.
Valid(row) == IF row.status = "active" THEN row.outcome = "running" \/ row.pid
                                       ELSE row.outcome # "running"

\* The types, and the one relation between them that the code enforces: what
\* any sequence of failures leaves in the ledger can be read again
\* (history.go:119-194, lifecycle.go:209-262).
TypeOK ==
  /\ ledger \in Seq(Row) /\ \A i \in DOMAIN ledger : Valid(ledger[i])
  /\ pc \in [Procs -> Stages]
  /\ run \in [Procs -> 0..Len(ledger)]
  /\ request \in [Procs -> Requests]
  /\ result \in [Procs -> Result]
  /\ clean \in [Procs -> BOOLEAN]
  /\ markers \in SUBSET (0..Len(ledger))
  /\ children \in SUBSET (0..Len(ledger))
  /\ faults \in 0..MaxFaults
  /\ alive \in SUBSET Procs /\ orphans \in SUBSET DOMAIN ledger

Init ==
  /\ ledger = <<>>
  /\ pc = [p \in Procs |-> "idle"]
  /\ run = [p \in Procs |-> 0]
  /\ request = [p \in Procs |-> NoRequest]
  /\ result = [p \in Procs |-> NoResult]
  /\ clean = [p \in Procs |-> TRUE]
  /\ markers = {}
  /\ children = {}
  /\ faults = 0
  /\ alive = {} /\ orphans = {}

-----------------------------------------------------------------------------
(* Planning.                                                               *)

Active   == {i \in DOMAIN ledger : ledger[i].status = "active"}
Of(r)    == {i \in DOMAIN ledger : ledger[i].session = r.session}
Same(r)  == {i \in Of(r) : ledger[i].task = r.task}

\* Mutant: an active reservation is charged for what it has used so far.
Mutant_Charge(i) == ledger[i].elapsed

Charge(i) == IF ledger[i].status = "active" THEN ledger[i].reserved
                                            ELSE ledger[i].elapsed
Charged(r) == MapThenSumSet(Charge, Of(r))
Remaining(r) == IF SessionSeconds > Charged(r) THEN SessionSeconds - Charged(r) ELSE 0

\* Mutant: a reservation whose owner is gone does not count.
Mutant_Blocks(i, inUse) == ledger[i].outcome # "running"

\* A reservation nobody answers for: its exit is unconfirmed, or no process has
\* the number of its owner (a signal 0 finds one, whichever process it is).
Blocks(i, inUse) == ledger[i].outcome # "running" \/ ledger[i].owner \notin inUse

\* MakePlan reports no blocker while these numbers are in use.
Admissible(r, inUse) ==
  /\ \A i \in Active : ~Blocks(i, inUse)
  /\ Cardinality(Same(r)) < MaxAttempts
  /\ Cardinality(Of(r)) < MaxSessionRuns
  /\ Remaining(r) > 0
  /\ Cardinality(Active) < MaxConcurrent

-----------------------------------------------------------------------------
(* One Run of a controller.                                                *)

Goto(p, stage) == pc' = [pc EXCEPT ![p] = stage]

\* Run's local state goes with it.
Forget(p) ==
  /\ Goto(p, "idle")
  /\ run' = [run EXCEPT ![p] = 0]
  /\ request' = [request EXCEPT ![p] = NoRequest]
  /\ result' = [result EXCEPT ![p] = NoResult]
  /\ clean' = [clean EXCEPT ![p] = TRUE]
Fault == faults < MaxFaults /\ faults' = faults + 1

\* A controller begins, under a new number or one that was used before: a
\* read-only plan without the lock, then the shared transition guard, whose
\* marker exists from here to Close.
Start(p, r) ==
  /\ pc[p] = "idle"
  /\ alive' = alive \cup {p}
  /\ Admissible(r, alive')
  /\ Goto(p, "guarded")
  /\ request' = [request EXCEPT ![p] = r]
  /\ UNCHANGED <<ledger, run, result, clean, markers, children, faults, orphans>>

\* Native probes succeed, fail, or leave a group whose exit is not confirmed.
Preflight(p) ==
  /\ pc[p] = "guarded"
  /\ \/ Goto(p, "checked") /\ UNCHANGED <<clean, children, faults>>
     \/ Goto(p, "closing") /\ Fault /\ UNCHANGED <<clean, children>>
     \/ /\ Goto(p, "closing") /\ Fault
        /\ clean' = [clean EXCEPT ![p] = FALSE]
        /\ children' = children \cup {0}
  /\ UNCHANGED <<ledger, run, request, result, markers, owners>>

Allowance(r, timeout) == IF timeout < Remaining(r) THEN timeout ELSE Remaining(r)

Reservation(p, seconds) ==
  [session |-> request[p].session, task |-> request[p].task, owner |-> p,
   reserved |-> seconds, elapsed |-> 0, status |-> "active",
   outcome |-> "running", pid |-> FALSE]

\* The new row: executionAdmission refuses an allowance that is no duration.
Reserve(p) ==
  /\ \E timeout \in Timeouts : \E seconds \in 1..timeout :
       /\ seconds = Allowance(request[p], timeout)
       /\ ledger' = Append(ledger, Reservation(p, seconds))
  /\ run' = [run EXCEPT ![p] = Len(ledger) + 1]
  /\ clean' = [clean EXCEPT ![p] = FALSE]

\* Mutant: trusts the plan made before the lock.
Mutant_Admit(p) ==
  /\ pc[p] = "checked"
  /\ Reserve(p)
  /\ Goto(p, "admitted")
  /\ UNCHANGED <<request, result, markers, children, faults, owners>>

\* The plan is made again under the lock; the reservation it allows is
\* published.  A failed publication may have committed.
Admit(p) ==
  /\ pc[p] = "checked"
  /\ \/ /\ ~Admissible(request[p], alive)
        /\ Goto(p, "closing")
        /\ UNCHANGED <<ledger, run, clean, faults>>
     \/ /\ Admissible(request[p], alive)
        /\ Reserve(p)
        /\ \/ Goto(p, "admitted") /\ UNCHANGED faults
           \/ Goto(p, "closing") /\ Fault
     \/ /\ Admissible(request[p], alive)
        /\ Goto(p, "closing") /\ Fault
        /\ UNCHANGED <<ledger, run, clean>>
  /\ UNCHANGED <<request, result, markers, children, owners>>

\* The native group starts, or it is certain that none did.
Spawn(p) ==
  /\ pc[p] = "admitted"
  /\ \/ /\ Goto(p, "spawned")
        /\ children' = children \cup {run[p]}
        /\ result' = [result EXCEPT ![p].spawned = TRUE]
        /\ UNCHANGED faults
     \/ Goto(p, "ended") /\ Fault /\ UNCHANGED <<children, result>>
  /\ UNCHANGED <<ledger, run, request, clean, markers, owners>>

\* ownerRecord: only the owner's active row is patched (it always finds one).
Owned(p) == ledger[run[p]].owner = p /\ ledger[run[p]].status = "active"

\* A failed publication of the process identity ends the run: the group is
\* signalled.  One that may have committed keeps the marker.
PublishPID(p) ==
  /\ pc[p] = "spawned"
  /\ Owned(p)
  /\ Goto(p, "published")
  /\ \/ ledger' = [ledger EXCEPT ![run[p]].pid = TRUE] /\ UNCHANGED <<result, faults>>
     \/ Fault /\ UNCHANGED <<ledger, result>>
     \/ /\ Fault
        /\ ledger' = [ledger EXCEPT ![run[p]].pid = TRUE]
        /\ result' = [result EXCEPT ![p].doubt = TRUE]
  /\ UNCHANGED <<run, request, clean, markers, children, owners>>

\* supervise: the leader ends by itself, times out or is interrupted, the group
\* is signalled and observed; its exit is confirmed within the grace, or not.
Supervise(p) ==
  /\ pc[p] = "published"
  /\ Goto(p, "ended")
  /\ \E elapsed \in 0..(ledger[run[p]].reserved + Grace) :
       \/ /\ result' = [result EXCEPT ![p].sure = TRUE, ![p].elapsed = elapsed]
          /\ children' = children \ {run[p]}
          /\ UNCHANGED faults
       \/ /\ result' = [result EXCEPT ![p].sure = FALSE, ![p].elapsed = elapsed]
          /\ Fault
          /\ UNCHANGED children
  /\ UNCHANGED <<ledger, run, request, clean, markers, owners>>

\* Mutant: a reaped leader is taken for the end of its group.
Mutant_FinalReaped(row, r) ==
  [row EXCEPT !.elapsed = r.elapsed, !.outcome = "ended",
              !.pid = @ \/ r.spawned, !.status = "completed"]

\* The row as Finalize leaves it: uncertain work keeps its reservation.
Final(row, r) ==
  [row EXCEPT !.elapsed = r.elapsed, !.outcome = "ended",
              !.pid = @ \/ r.spawned,
              !.status = IF r.spawned /\ ~r.sure THEN "active" ELSE "completed"]

\* Mutant: a run that was finalized is clean.
Mutant_Finalize(p) ==
  /\ pc[p] = "ended"
  /\ Owned(p)
  /\ Goto(p, "closing")
  /\ \/ /\ ledger' = [ledger EXCEPT ![run[p]] = Final(@, result[p])]
        /\ clean' = [clean EXCEPT ![p] = TRUE]
        /\ UNCHANGED faults
     \/ Fault /\ UNCHANGED <<ledger, clean>>
  /\ UNCHANGED <<run, request, result, markers, children, owners>>

\* A row that was completed, on disk and without doubt, makes the end clean.
Finalize(p) ==
  /\ pc[p] = "ended"
  /\ Owned(p)
  /\ Goto(p, "closing")
  /\ \/ /\ ledger' = [ledger EXCEPT ![run[p]] = Final(@, result[p])]
        /\ clean' = [clean EXCEPT ![p] = ledger'[run[p]].status = "completed" /\ ~result[p].doubt]
        /\ UNCHANGED faults
     \/ Fault /\ UNCHANGED <<ledger, clean>>
     \/ /\ Fault
        /\ ledger' = [ledger EXCEPT ![run[p]] = Final(@, result[p])]
        /\ UNCHANGED clean
  /\ UNCHANGED <<run, request, result, markers, children, owners>>

\* guard.Close: the marker of terminal work is removed, any other stays.
Close(p) ==
  /\ pc[p] = "closing"
  /\ Forget(p)
  /\ \/ clean[p] /\ UNCHANGED <<markers, faults>>
     \/ ~clean[p] /\ markers' = markers \cup {run[p]} /\ UNCHANGED faults
     \/ clean[p] /\ Fault /\ markers' = markers \cup {run[p]}
  /\ UNCHANGED <<ledger, children, owners>>

-----------------------------------------------------------------------------
(* Around the controllers.                                                 *)

LeftBy(p) == {i \in Active : ledger[i].owner = p}

\* A controller process ends: its number is free, its active rows stay.
Gone(p) ==
  /\ alive' = alive \ {p}
  /\ orphans' = orphans \cup LeftBy(p)
  /\ UNCHANGED <<ledger, children>>

\* A controller dies: its marker stays, its native group goes on.
Crash(p) ==
  /\ pc[p] # "idle"
  /\ Fault
  /\ Forget(p)
  /\ Gone(p)
  /\ markers' = markers \cup {run[p]}

\* A controller process that has returned from Run ends.
Exit(p) ==
  /\ pc[p] = "idle" /\ ~(LeftBy(p) \subseteq orphans)
  /\ Gone(p)
  /\ UNCHANGED <<pc, run, request, result, clean, markers, faults>>

\* The number of a controller that has ended is given to another process, or
\* that process ends.  Only a number the ledger names makes a difference.
Renumber(p) ==
  /\ pc[p] = "idle" /\ LeftBy(p) # {} /\ LeftBy(p) \subseteq orphans
  /\ alive' = IF p \in alive THEN alive \ {p} ELSE alive \cup {p}
  /\ UNCHANGED <<ledger, pc, run, request, result, clean, markers, children, faults, orphans>>

ChildExit(i) ==
  /\ i \in children
  /\ children' = children \ {i}
  /\ UNCHANGED <<ledger, pc, run, request, result, clean, markers, faults, owners>>

\* docs/BUDGETS.md:144-151: with no budget command running and the group known
\* to be stopped, the operator completes the record at its full reservation.
Repair(i) ==
  /\ \A p \in Procs : pc[p] = "idle"
  /\ i \in Active /\ Blocks(i, alive) /\ i \notin children
  /\ ledger' = [ledger EXCEPT ![i].status = "completed", ![i].outcome = "ended",
                              ![i].elapsed = ledger[i].reserved]
  /\ UNCHANGED <<pc, run, request, result, clean, markers, children, faults, owners>>

\* ... and removes the marker of work that is known to be over.
Reconcile(i) ==
  /\ i \in markers \ (children \cup Active)
  /\ markers' = markers \ {i}
  /\ UNCHANGED <<ledger, pc, run, request, result, clean, children, faults, owners>>

Step(p) ==
  \/ Preflight(p) \/ Admit(p) \/ Spawn(p) \/ PublishPID(p) \/ Supervise(p)
  \/ Finalize(p) \/ Close(p)

Next ==
  \/ \E p \in Procs :
       \/ \E r \in Requests : Start(p, r)
       \/ Step(p) \/ Crash(p) \/ Exit(p) \/ Renumber(p)
  \/ \E i \in 0..Len(ledger) : ChildExit(i) \/ Reconcile(i)
  \/ \E i \in DOMAIN ledger : Repair(i)

Spec == Init /\ [][Next]_vars

\* Every wait of a controller is bounded by an allowance or a cleanup deadline,
\* and its process ends some time after Run has returned.
FairSpec == Spec /\ \A p \in Procs : WF_vars(Step(p)) /\ WF_vars(Exit(p))

-----------------------------------------------------------------------------
(* Properties.                                                             *)

\* However controllers race between their unlocked plan and the lock, no limit
\* of the configuration is exceeded (lifecycle.go:34-100, plan.go:14-140).
LimitsHold ==
  /\ \A r \in Requests : Cardinality(Same(r)) <= MaxAttempts
                        /\ Cardinality(Of(r)) <= MaxSessionRuns
  /\ Cardinality(Active) <= MaxConcurrent

\* A session's time is overdrawn only by the cleanup of the invocations that
\* were running together at its end: reservations are squeezed into what the
\* finished runs really used (plan.go:55-60, lifecycle.go:88).
TimeIsBudgeted ==
  \A r \in Requests : Charged(r) <= SessionSeconds + MaxConcurrent * Grace

\* A native group that may still be running keeps an active reservation: no
\* failure, crash or repair lets the ledger forget it (lifecycle.go:205-240).
NativeIsReserved == \A i \in children \ {0} : i \in Active

\* Every active reservation, and every native group, is covered by activity
\* evidence, so no runtime transition starts beside it: a running controller's
\* marker or one that was left in place (runner.go:86-120).
ActiveHasEvidence ==
  \A i \in Active \cup children :
    i \in markers \/ \E p \in Procs : pc[p] # "idle" /\ run[p] = i

\* An orphan whose number has been given to another process.
Taken(i) == i \in orphans /\ ledger[i].owner \in alive

\* docs/BUDGETS.md:126-131: while a native group runs whose controller is gone,
\* no further invocation is admitted, unless another process has been given
\* the controller's number (plan.go:70-85, lifecycle.go:205-240).
OrphanBlocksAdmission ==
  [][Len(ledger') > Len(ledger) => \A i \in children \ {0} : i \in orphans => Taken(i)]_vars

\* A reservation is not held for ever in silence: from some point on it is
\* completed, or a plan names it as a blocker whenever no other process has the
\* number of its controller (runner.go:156-230, plan.go:70-85).
ReservationResolves ==
  \A i \in 1..(MaxSessionRuns * Cardinality({r.session : r \in Requests})) :
    <>[](i \notin Active \/ Blocks(i, alive) \/ Taken(i))

\* docs/BUDGETS.md:129-131: a record that remains active after an unclean
\* death fails closed, so no invocation is admitted beside it.  Refuted: a
\* process that is given the dead controller's number answers for it
\* (plan.go:143-156).
OrphanFailsClosed ==
  [][Len(ledger') > Len(ledger) => Active \cap orphans = {}]_vars
=============================================================================
