-------------------------------- MODULE Loop --------------------------------
(***************************************************************************)
(* internal/loop: controllers that check, or implement, check and review,  *)
(* a task, and keep a checkpoint of each task in .factory/loops.json.      *)
(*                                                                         *)
(* Run holds the loop lock from its second look at the checkpoints to its  *)
(* last save, so what one invocation knows (mem) belongs to the one        *)
(* process inside the lock.  Around it everything interleaves: edits of    *)
(* the checkout, other budget runs, native groups that outlive their       *)
(* supervisor, deadlines, signals, deaths, and the operator who recovers.  *)
(*                                                                         *)
(* The checkout is two fingerprints: its source, and everything that must  *)
(* not change under a task (HEAD, tests and protected paths, policy,       *)
(* prompt).  A check is known by its code: 0 passed, others are failures   *)
(* with different output, -1 was cut short.  Time is in abstract units.    *)
(***************************************************************************)
EXTENDS Integers, FiniteSets

CONSTANTS
  Procs,           \* controller processes
  Tasks,           \* session and task of a request
  Mode,            \* Mode[t]: "manual" or "bounded"
  Sources, Safety, \* fingerprints the checkout may have
  Codes,           \* how a check ends by itself
  MaxAttempts, NoProgressLimit, Timeout,
  MaxFaults,       \* bound on deaths and failed calls in a behaviour
  NoRow, NoMem     \* no checkpoint; nobody inside the lock

ASSUME CodesAssumption == 0 \in Codes /\ Codes \subseteq Nat
ASSUME LimitsAssumption ==
  /\ {MaxAttempts, NoProgressLimit, Timeout} \subseteq Nat \ {0}
  /\ MaxFaults \in Nat
ASSUME ModeAssumption == Mode \in [Tasks -> {"manual", "bounded"}]
ASSUME CheckoutAssumption == Tasks # {} /\ Sources # {} /\ Safety # {}

VARIABLES
  pc,        \* how far each controller's Run has come
  request,   \* what it was asked for: a task, and whether to resume it
  mem,       \* the invocation inside the lock
  disk,      \* the published checkpoint of each task
  checkout,  \* the fingerprints the checkout has now
  groups,    \* native groups that may be running: a task and what they do
  budget,    \* tasks whose budget reservation of a loop is active
  left,      \* an activity marker was left in the transition guard
  launched,  \* implementer launches of each task (history, to one past MaxAttempts)
  started,   \* controllers that were started: a process runs one command
  faults     \* deaths and failed calls so far

vars == <<pc, request, mem, disk, checkout, groups, budget, left, launched, started, faults>>

Kinds == {"check", "model", "probe"}
Group(t, kind) == [task |-> t, kind |-> kind]

\* The sources a checkpoint has a passing check and an approving review of.
\* Unfavourable evidence is read by nobody and left out.
Evidence == [passed : SUBSET Sources, approved : SUBSET Sources]
NoEvidence == [passed |-> {}, approved |-> {}]
Outcomes == {"running", "handoff", "interrupted", "manual_passed", "manual_failed",
             "approved", "attempt_limit", "no_progress", "repeated_failure"}
Row == [status : {"active", "stopped", "completed"}, outcome : Outcomes,
        uncertain : BOOLEAN, pid : BOOLEAN, attempts : 0..MaxAttempts,
        stalled : 0..NoProgressLimit, elapsed : 0..Timeout,
        safety : Safety, source : Sources, evidence : Evidence]
ASSUME NoRowAssumption == NoRow \notin Row

\* The invocation: its row, the clock (earlier invocations included), a pending
\* signal, what an earlier look at the checkout found, how the last check and
\* invocation ended, the failures seen, and what to return with.
Mem == [row : Row, clock : 0..Timeout, signalled : BOOLEAN, before : Sources,
        role : {"implementer", "reviewer"},
        code : Codes \cup {-1}, answer : {"ok", "bad", "approve", "repair"},
        seen : SUBSET (Sources \X Codes), outcome : Outcomes, clean : BOOLEAN]

Outside == {"idle", "guarded"}
Stages == Outside \cup
  {"admitted", "begin", "loop", "attempt", "invoke", "launch", "running", "answered",
   "implemented", "check", "starting", "spawn", "spawned", "checking", "evidence",
   "recheck", "judge", "reviewed", "accept", "decide", "finish", "close"}

TypeOK ==
  /\ pc \in [Procs -> Stages]
  /\ request \in [Procs -> [task : Tasks, resume : BOOLEAN]]
  /\ mem \in Mem \cup {NoMem}
  /\ disk \in [Tasks -> Row \cup {NoRow}]
  /\ checkout \in [source : Sources, safety : Safety]
  /\ groups \subseteq [task : Tasks, kind : Kinds]
  /\ budget \subseteq Tasks
  /\ left \in BOOLEAN
  /\ launched \in [Tasks -> 0..(MaxAttempts + 1)]
  /\ started \subseteq Procs /\ faults \in 0..MaxFaults
  /\ \A p, q \in Procs : pc[p] \notin Outside /\ pc[q] \notin Outside => p = q

NoRequest == [task |-> CHOOSE t \in Tasks : TRUE, resume |-> FALSE]

Init ==
  /\ pc = [p \in Procs |-> "idle"]
  /\ request = [p \in Procs |-> NoRequest]
  /\ mem = NoMem
  /\ disk = [t \in Tasks |-> NoRow]
  /\ checkout = [source |-> CHOOSE s \in Sources : TRUE, safety |-> CHOOSE s \in Safety : TRUE]
  /\ groups = {} /\ budget = {} /\ left = FALSE
  /\ launched = [t \in Tasks |-> 0]
  /\ started = {} /\ faults = 0

-----------------------------------------------------------------------------
(* What the stages are made of.                                             *)

Rows == {t \in Tasks : disk[t] # NoRow}
T(p) == request[p].task
Manual(p) == Mode[T(p)] = "manual"
Fault == faults < MaxFaults /\ faults' = faults + 1
Go(p, stage) == pc' = [pc EXCEPT ![p] = stage]

\* ctx.Err(): a signal has come, or the total time is used up.
Done == mem.signalled \/ mem.clock >= Timeout

\* Mutant: a stopped checkpoint blocks nobody, certain or not.
Mutant_Blocked ==
  budget # {} \/ \E t \in Rows : disk[t].status = "active"

\* makeManualPlan reports a blocker.
Blocked ==
  budget # {} \/ \E t \in Rows : disk[t].status = "active" \/ disk[t].uncertain

\* The next stage inside the lock, with the row as it is then in memory.
Turn(p, stage, row) == Go(p, stage) /\ mem' = [mem EXCEPT !.row = row]
Finish(p, outcome, row) ==
  Go(p, "finish") /\ mem' = [mem EXCEPT !.row = row, !.outcome = outcome]
HandOff(p, row) == Finish(p, "handoff", row)
Doubt(row) == [row EXCEPT !.uncertain = TRUE]
Unconfirmed(row) == [row EXCEPT !.uncertain = TRUE, !.pid = TRUE]

\* A failed publication: nothing more is written by this invocation, and the
\* checkpoint may or may not have been replaced.
Poisoned(p, row) ==
  /\ disk' \in {disk, [disk EXCEPT ![T(p)] = row]}
  /\ Turn(p, "close", row)

\* m.save(ctx): it needs time left, and time may run out in the middle.
Save(p, row, Then, Refused) ==
  LET timed == [row EXCEPT !.elapsed = mem.clock]
  IN  \/ ~Done /\ disk' = [disk EXCEPT ![T(p)] = timed] /\ Then /\ UNCHANGED faults
      \/ Done /\ Refused /\ UNCHANGED <<disk, faults>>
      \/ Poisoned(p, timed) /\ (Fault \/ (Done /\ UNCHANGED faults))

\* m.fresh: a stable look at the checkout, which must still be the task's, and,
\* where expected says so, unchanged.  Its git and grep probes are native groups
\* too; when the end of one cannot be confirmed, only an error is reported.
Fresh(p, expected, Then) ==
  \/ /\ ~Done /\ checkout.safety = mem.row.safety /\ checkout.source \in expected
     /\ Then /\ UNCHANGED <<groups, faults>>
  \/ /\ Done \/ checkout.safety # mem.row.safety \/ checkout.source \notin expected
     /\ HandOff(p, mem.row) /\ UNCHANGED <<groups, faults>>
  \/ /\ Fault /\ groups' \in {groups, groups \cup {Group(T(p), "probe")}}
     /\ HandOff(p, mem.row)
Seen(row) == [row EXCEPT !.source = checkout.source]

-----------------------------------------------------------------------------
(* Admission.                                                               *)

\* The unlocked plan, then the shared guard.
Start(p) ==
  /\ pc[p] = "idle" /\ ~Blocked
  /\ p \notin started /\ started' = started \cup {p}
  /\ \E t \in Tasks, resume \in BOOLEAN :
       request' = [request EXCEPT ![p] = [task |-> t, resume |-> resume]]
  /\ Go(p, "guarded")
  /\ UNCHANGED <<mem, disk, checkout, groups, budget, left, launched, faults>>

Forget(p) == Go(p, "idle") /\ request' = [request EXCEPT ![p] = NoRequest]

NewMem == [row |-> [status |-> "active", outcome |-> "running", uncertain |-> FALSE,
                    pid |-> FALSE, attempts |-> 0, stalled |-> 0, elapsed |-> 0,
                    safety |-> checkout.safety, source |-> checkout.source,
                    evidence |-> NoEvidence],
           clock |-> 0, signalled |-> FALSE, before |-> checkout.source,
           role |-> "implementer", code |-> 0, answer |-> "bad", seen |-> {}, outcome |-> "running",
           clean |-> FALSE]

\* Store.Lock does not wait, and the plan is made again under the lock; another
\* command's budget run may block it at any time.
Lock(p) ==
  /\ pc[p] = "guarded"
  /\ \/ Forget(p) /\ UNCHANGED mem
     \/ /\ ~Blocked /\ \A q \in Procs : pc[q] \in Outside
        /\ Go(p, "admitted") /\ mem' = NewMem /\ UNCHANGED request
  /\ UNCHANGED <<disk, checkout, groups, budget, left, launched, started, faults>>

\* AssessResume, of a checkpoint that admission found neither active nor uncertain.
Resumable(p, row) ==
  /\ Manual(p) /\ row.outcome \in {"manual_passed", "manual_failed"}
  /\ row.source = checkout.source /\ row.safety = checkout.safety
  /\ row.elapsed < Timeout

\* The row to begin with: none when the request is refused.
Admitted(p) ==
  LET old == disk[T(p)] IN
  IF request[p].resume
  THEN IF old # NoRow /\ Resumable(p, old) THEN {[old EXCEPT !.status = "active"]} ELSE {}
  ELSE IF old = NoRow THEN {NewMem.row} ELSE {}

\* The first look at the checkout.  A refusal after it keeps the marker.
Observe(p) ==
  /\ pc[p] = "admitted"
  /\ \/ \E row \in Admitted(p) :
          Go(p, "begin") /\ mem' = [NewMem EXCEPT !.row = row, !.clock = row.elapsed,
                                                  !.signalled = mem.signalled]
     \/ (Admitted(p) = {} \/ mem.signalled) /\ Turn(p, "close", mem.row)
  /\ UNCHANGED <<request, disk, checkout, groups, budget, left, launched, started, faults>>

ObserveFails(p) ==
  /\ pc[p] = "admitted" /\ Fault
  /\ groups' \in {groups, groups \cup {Group(T(p), "probe")}}
  /\ Turn(p, "close", mem.row)
  /\ UNCHANGED <<request, disk, checkout, budget, left, launched, started>>

Begin(p) ==
  /\ pc[p] = "begin"
  /\ Save(p, mem.row, Turn(p, IF Manual(p) THEN "check" ELSE "loop", mem.row),
                      Turn(p, "close", mem.row))
  /\ UNCHANGED <<request, checkout, groups, budget, left, launched, started>>

-----------------------------------------------------------------------------
(* Bounded iteration.                                                       *)

\* Mutant: the attempt is counted when it has been made.
Mutant_Counted(row) == row

Counted(row) == [row EXCEPT !.attempts = @ + 1]

Iterate(p) ==
  /\ pc[p] = "loop"
  /\ IF mem.row.attempts >= MaxAttempts
     THEN Finish(p, "attempt_limit", mem.row) /\ UNCHANGED <<groups, faults>>
     ELSE Fresh(p, Sources,
            /\ Go(p, "attempt")
            /\ mem' = [mem EXCEPT !.row = Counted(Seen(mem.row)),
                                  !.before = checkout.source, !.role = "implementer"])
  /\ UNCHANGED <<request, disk, checkout, budget, left, launched, started>>

SaveAttempt(p) ==
  /\ pc[p] = "attempt"
  /\ Save(p, mem.row, Turn(p, "invoke", mem.row), Turn(p, "close", mem.row))
  /\ UNCHANGED <<request, checkout, groups, budget, left, launched, started>>

SaveRole(p) ==
  /\ pc[p] = "invoke"
  /\ Save(p, mem.row, Turn(p, "launch", mem.row), HandOff(p, mem.row))
  /\ UNCHANGED <<request, checkout, groups, budget, left, launched, started>>

\* The budget runner admits the invocation and starts the native group.
Launch(p) ==
  /\ pc[p] = "launch" /\ ~Done
  /\ Turn(p, "running", mem.row)
  /\ budget' = budget \cup {T(p)}
  /\ groups' = groups \cup {Group(T(p), "model")}
  /\ launched' = IF mem.role = "implementer"
                 THEN [launched EXCEPT ![T(p)] = IF @ > MaxAttempts THEN @ ELSE @ + 1]
                 ELSE launched
  /\ UNCHANGED <<request, disk, checkout, left, started, faults>>

\* It is blocked or refused before a reservation, with readable accounting.
LaunchRefused(p) ==
  /\ pc[p] = "launch"
  /\ HandOff(p, mem.row)
  /\ UNCHANGED <<request, disk, checkout, groups, budget, left, launched, started, faults>>

\* Mutant: only an active reservation is a reason for doubt.
Mutant_Reconciled(row, process, reserved) ==
  [row EXCEPT !.uncertain = reserved, !.pid = process]

\* m.reconcile: a process known from the failure or from the reservation, or a
\* reservation still active.
Reconciled(row, process, reserved) ==
  [row EXCEPT !.uncertain = process \/ reserved, !.pid = process]

\* It fails in between: a native probe's end is unconfirmed, or the reservation
\* is published but nothing started.  An unreadable ledger is a doubt as well.
LaunchFails(p) ==
  /\ pc[p] = "launch" /\ Fault
  /\ \/ /\ groups' = groups \cup {Group(T(p), "model")} /\ UNCHANGED budget
        /\ HandOff(p, Reconciled(mem.row, TRUE, FALSE))
     \/ /\ budget' = budget \cup {T(p)} /\ UNCHANGED groups
        /\ HandOff(p, Reconciled(mem.row, FALSE, TRUE))
     \/ UNCHANGED <<groups, budget>> /\ HandOff(p, Doubt(mem.row))
  /\ UNCHANGED <<request, disk, checkout, left, launched, started>>

\* The invocation ended and is accounted for.
Ended(p) ==
  /\ pc[p] = "running"
  /\ groups' = groups \ {Group(T(p), "model")}
  /\ budget' = budget \ {T(p)}
  /\ Go(p, "answered")
  /\ \E answer \in {"ok", "bad"} : mem' = [mem EXCEPT !.answer = answer]
  /\ UNCHANGED <<request, disk, checkout, left, launched, started, faults>>

\* Its exit is unconfirmed, or the end could not be recorded.
EndFails(p) ==
  /\ pc[p] = "running" /\ Fault
  /\ \/ UNCHANGED <<groups, budget>> /\ HandOff(p, Reconciled(mem.row, TRUE, TRUE))
     \/ /\ groups' = groups \ {Group(T(p), "model")}
        /\ budget' \in {budget, budget \ {T(p)}}
        /\ LET reserved == T(p) \in budget' IN
           \E row \in {Reconciled(mem.row, reserved, reserved), Doubt(mem.row)} : HandOff(p, row)
  /\ UNCHANGED <<request, disk, checkout, left, launched, started>>

\* The save after an invocation is given cleanup time when time had run out.
SaveAnswer(p) ==
  /\ pc[p] = "answered"
  /\ LET row == [mem.row EXCEPT !.elapsed = mem.clock]
         stage == IF mem.role = "implementer" THEN "implemented" ELSE "reviewed"
     IN  \/ /\ disk' = [disk EXCEPT ![T(p)] = row]
            /\ IF mem.answer = "ok" /\ ~Done THEN Turn(p, stage, row) ELSE HandOff(p, row)
            /\ UNCHANGED faults
         \/ Done /\ HandOff(p, row) /\ UNCHANGED <<disk, faults>>
         \/ Poisoned(p, row) /\ (Fault \/ (Done /\ UNCHANGED faults))
  /\ UNCHANGED <<request, checkout, groups, budget, left, launched, started>>

\* From the second attempt on, an unchanged source counts against the task.
Stalled(row) ==
  IF row.attempts = 1 THEN row.stalled
  ELSE IF mem.before = checkout.source THEN row.stalled + 1 ELSE 0

Implemented(p) ==
  /\ pc[p] = "implemented"
  /\ Fresh(p, Sources,
       LET row == [Seen(mem.row) EXCEPT !.stalled = Stalled(mem.row)] IN
       IF row.attempts > 1 /\ row.stalled >= NoProgressLimit
       THEN Finish(p, "no_progress", row) ELSE Turn(p, "check", row))
  /\ UNCHANGED <<request, disk, checkout, budget, left, launched, started>>

-----------------------------------------------------------------------------
(* The deterministic check.                                                 *)

\* No budget run may be active, of this loop or of another command, nor the
\* ledger unreadable; then the checkout is looked at again.
Check(p) ==
  /\ pc[p] = "check"
  /\ \/ ~Done /\ HandOff(p, Doubt(mem.row)) /\ UNCHANGED <<groups, faults>>
     \/ /\ budget = {} \/ Done
        /\ Fresh(p, Sources, /\ Go(p, "starting")
                             /\ mem' = [mem EXCEPT !.row = Seen(mem.row),
                                                   !.before = checkout.source])
  /\ UNCHANGED <<request, disk, checkout, budget, left, launched, started>>

SaveCheck(p) ==
  /\ pc[p] = "starting"
  /\ Save(p, mem.row, Turn(p, "spawn", mem.row), HandOff(p, mem.row))
  /\ UNCHANGED <<request, checkout, groups, budget, left, launched, started>>

\* native.ExecuteCheck starts the group, or reports that it could not.
Spawn(p) ==
  /\ pc[p] = "spawn"
  /\ \/ ~Done /\ Turn(p, "spawned", mem.row) /\ groups' = groups \cup {Group(T(p), "check")}
     \/ HandOff(p, mem.row) /\ UNCHANGED groups
  /\ UNCHANGED <<request, disk, checkout, budget, left, launched, started, faults>>

\* The identity is published before the check is given its input; where that
\* fails, the group is killed.
PublishPID(p) ==
  LET known == [mem.row EXCEPT !.pid = TRUE, !.elapsed = mem.clock]
      gone  == groups \ {Group(T(p), "check")}
  IN  /\ pc[p] = "spawned"
      /\ \/ /\ ~Done /\ disk' = [disk EXCEPT ![T(p)] = known]
            /\ Turn(p, "checking", known) /\ UNCHANGED <<groups, faults>>
         \/ /\ Done /\ HandOff(p, mem.row) /\ groups' = gone /\ UNCHANGED <<disk, faults>>
         \/ /\ Done /\ Fault /\ HandOff(p, Unconfirmed(mem.row)) /\ UNCHANGED <<groups, disk>>
         \/ /\ Poisoned(p, known) /\ groups' \in {groups, gone}
            /\ Fault \/ (Done /\ groups' = gone /\ UNCHANGED faults)
      /\ UNCHANGED <<request, checkout, budget, left, launched, started>>

\* Mutant: the leader's exit is taken for the group's.
Mutant_CheckFails(p) ==
  /\ pc[p] = "checking" /\ Fault
  /\ groups' \in {groups, groups \ {Group(T(p), "check")}}
  /\ HandOff(p, [mem.row EXCEPT !.pid = FALSE])
  /\ UNCHANGED <<request, disk, checkout, budget, left, launched, started>>

\* The group's end is unconfirmed.
CheckFails(p) ==
  /\ pc[p] = "checking" /\ Fault
  /\ groups' \in {groups, groups \ {Group(T(p), "check")}}
  /\ HandOff(p, Unconfirmed(mem.row))
  /\ UNCHANGED <<request, disk, checkout, budget, left, launched, started>>

Checked(p) ==
  /\ pc[p] = "checking"
  /\ groups' = groups \ {Group(T(p), "check")}
  /\ \E code \in Codes \cup {-1} :
       LET row == [mem.row EXCEPT !.pid = FALSE,
                     !.evidence.passed = IF code = 0 THEN @ \cup {mem.before} ELSE @]
       IN  Go(p, "evidence") /\ mem' = [mem EXCEPT !.row = row, !.code = code]
  /\ UNCHANGED <<request, disk, checkout, budget, left, launched, started, faults>>

SaveEvidence(p) ==
  /\ pc[p] = "evidence"
  /\ \/ Save(p, mem.row, Turn(p, "recheck", mem.row), Turn(p, "close", mem.row))
     \/ Done /\ HandOff(p, mem.row) /\ UNCHANGED <<disk, faults>>
  /\ UNCHANGED <<request, checkout, groups, budget, left, launched, started>>

\* Mutant: what the check saw is not compared with what is there now.
Mutant_Recheck(p) ==
  /\ pc[p] = "recheck"
  /\ Fresh(p, Sources, IF mem.code = -1 THEN HandOff(p, Seen(mem.row))
                       ELSE Turn(p, "judge", Seen(mem.row)))
  /\ UNCHANGED <<request, disk, checkout, budget, left, launched, started>>

Recheck(p) ==
  /\ pc[p] = "recheck"
  /\ Fresh(p, {mem.before}, IF mem.code = -1 THEN HandOff(p, Seen(mem.row))
                            ELSE Turn(p, "judge", Seen(mem.row)))
  /\ UNCHANGED <<request, disk, checkout, budget, left, launched, started>>

\* The failure's digest also needs time left.
Judge(p) ==
  /\ pc[p] = "judge"
  /\ LET failure == <<mem.before, mem.code>> IN
     \/ Done /\ Turn(p, "close", mem.row)
     \/ Manual(p) /\ Finish(p, IF mem.code = 0 THEN "manual_passed" ELSE "manual_failed", mem.row)
     \/ ~Manual(p) /\ mem.code = 0 /\ Go(p, "invoke") /\ mem' = [mem EXCEPT !.role = "reviewer"]
     \/ ~Manual(p) /\ mem.code # 0 /\ failure \in mem.seen /\ Finish(p, "repeated_failure", mem.row)
     \/ /\ ~Manual(p) /\ mem.code # 0 /\ failure \notin mem.seen
        /\ Go(p, "loop") /\ mem' = [mem EXCEPT !.seen = @ \cup {failure}]
  /\ UNCHANGED <<request, disk, checkout, groups, budget, left, launched, started, faults>>

-----------------------------------------------------------------------------
(* The review, and the end.                                                 *)

\* Still what was checked; a verdict outside the contract is no verdict.
Reviewed(p) ==
  /\ pc[p] = "reviewed"
  /\ Fresh(p, {mem.before},
       \/ HandOff(p, Seen(mem.row))
       \/ \E verdict \in {"approve", "repair"} :
            LET row == [Seen(mem.row) EXCEPT
                          !.evidence.approved = IF verdict = "approve" THEN @ \cup {mem.before} ELSE @]
            IN  Go(p, "accept") /\ mem' = [mem EXCEPT !.row = row, !.answer = verdict])
  /\ UNCHANGED <<request, disk, checkout, budget, left, launched, started>>

SaveReview(p) ==
  /\ pc[p] = "accept"
  /\ Save(p, mem.row, Turn(p, "decide", mem.row), Turn(p, "close", mem.row))
  /\ UNCHANGED <<request, checkout, groups, budget, left, launched, started>>

Decide(p) ==
  /\ pc[p] = "decide"
  /\ \/ Done /\ HandOff(p, mem.row)
     \/ ~Done /\ mem.answer = "approve" /\ Finish(p, "approved", mem.row)
     \/ ~Done /\ mem.answer = "repair" /\ Turn(p, "loop", mem.row)
  /\ UNCHANGED <<request, disk, checkout, groups, budget, left, launched, started, faults>>

\* Mutant: any certain terminal checkpoint will do.
Mutant_Harmless(row) == ~row.uncertain /\ ~row.pid

\* What qualifies a terminal checkpoint for removing the activity marker.
Harmless(row) ==
  /\ ~row.uncertain /\ ~row.pid
  /\ row.outcome \in {"manual_passed", "manual_failed", "approved", "attempt_limit",
                      "no_progress", "repeated_failure"}

\* m.finish: a signal overrides the outcome; the save has its own time.
Final(p) ==
  LET outcome == IF mem.signalled THEN "interrupted" ELSE mem.outcome
  IN  [mem.row EXCEPT !.outcome = outcome, !.elapsed = mem.clock,
                      !.status = IF outcome = "approved" THEN "completed" ELSE "stopped"]

Terminate(p) ==
  /\ pc[p] = "finish"
  /\ \/ /\ disk' = [disk EXCEPT ![T(p)] = Final(p)]
        /\ Go(p, "close") /\ mem' = [mem EXCEPT !.row = Final(p), !.clean = Harmless(Final(p))]
        /\ UNCHANGED faults
     \/ Fault /\ Poisoned(p, Final(p))
  /\ UNCHANGED <<request, checkout, groups, budget, left, launched, started>>

\* The lock is released, then the guard, whose marker stays unless all is over.
Close(p) ==
  /\ pc[p] = "close"
  /\ Forget(p) /\ mem' = NoMem
  /\ \/ left' = (left \/ ~mem.clean) /\ UNCHANGED faults
     \/ Fault /\ left' = TRUE
  /\ UNCHANGED <<disk, checkout, groups, budget, launched, started>>

-----------------------------------------------------------------------------
(* Around the controllers.                                                  *)

\* A controller dies: groups, reservation, checkpoint and marker stay.
Crash(p) ==
  /\ pc[p] # "idle" /\ Fault
  /\ Forget(p)
  /\ mem' = IF pc[p] \in Outside THEN mem ELSE NoMem
  /\ left' = TRUE
  /\ UNCHANGED <<disk, checkout, groups, budget, launched, started>>

Timed == Stages \ (Outside \cup {"admitted", "begin", "close"})

Tick(p) ==
  /\ pc[p] \in Timed /\ mem.clock < Timeout
  /\ mem' = [mem EXCEPT !.clock = @ + 1]
  /\ UNCHANGED <<pc, request, disk, checkout, groups, budget, left, launched, started, faults>>

Signal(p) ==
  /\ pc[p] \notin Outside \cup {"close"} /\ ~mem.signalled
  /\ mem' = [mem EXCEPT !.signalled = TRUE]
  /\ UNCHANGED <<pc, request, disk, checkout, groups, budget, left, launched, started, faults>>

\* The implementer, the user, or anything else that writes the checkout.
Edit ==
  /\ checkout' \in [source : Sources, safety : Safety]
  /\ UNCHANGED <<pc, request, mem, disk, groups, budget, left, launched, started, faults>>

\* A group ends that nobody supervises any more.
Supervised(g) == \E p \in Procs : /\ pc[p] \in {"running", "spawned", "checking"}
                                  /\ T(p) = g.task /\ g.kind # "probe"
GroupExit(g) ==
  /\ g \in groups /\ ~Supervised(g)
  /\ groups' = groups \ {g}
  /\ UNCHANGED <<pc, request, mem, disk, checkout, budget, left, launched, started, faults>>

\* docs/BUDGETS.md, docs/LOOPS.md: with no factory command running and the
\* recorded groups stopped, first the reservation, then the checkpoint.
Stopped(t) == (\A p \in Procs : pc[p] = "idle") /\
              Group(t, "check") \notin groups /\ Group(t, "model") \notin groups

RepairBudget(t) ==
  /\ t \in budget /\ Stopped(t)
  /\ budget' = budget \ {t}
  /\ UNCHANGED <<pc, request, mem, disk, checkout, groups, left, launched, started, faults>>

Recover(t) ==
  /\ t \in Rows /\ (disk[t].status = "active" \/ disk[t].uncertain)
  /\ Stopped(t) /\ t \notin budget
  /\ disk' = [disk EXCEPT ![t].status = "stopped", ![t].uncertain = FALSE,
                          ![t].outcome = "interrupted", ![t].elapsed = Timeout]
  /\ UNCHANGED <<pc, request, mem, checkout, groups, budget, left, launched, started, faults>>

-----------------------------------------------------------------------------
Step(p) ==
  \/ Lock(p) \/ Observe(p) \/ ObserveFails(p) \/ Begin(p)
  \/ Iterate(p) \/ SaveAttempt(p) \/ SaveRole(p) \/ Launch(p) \/ LaunchRefused(p)
  \/ LaunchFails(p) \/ Ended(p) \/ EndFails(p) \/ SaveAnswer(p) \/ Implemented(p)
  \/ Check(p) \/ SaveCheck(p) \/ Spawn(p) \/ PublishPID(p) \/ CheckFails(p)
  \/ Checked(p) \/ SaveEvidence(p) \/ Recheck(p) \/ Judge(p)
  \/ Reviewed(p) \/ SaveReview(p) \/ Decide(p) \/ Terminate(p) \/ Close(p)

Next ==
  \/ \E p \in Procs : Start(p) \/ Step(p) \/ Crash(p) \/ Tick(p) \/ Signal(p)
  \/ Edit
  \/ \E g \in groups : GroupExit(g)
  \/ \E t \in Tasks : RepairBudget(t) \/ Recover(t)

Spec == Init /\ [][Next]_vars

\* Every step of a controller is a bounded call.  Nothing is assumed of edits,
\* other commands, groups, signals, or the operator.
FairSpec == Spec /\ \A p \in Procs : WF_vars(Step(p))

-----------------------------------------------------------------------------
(* Properties.                                                              *)

\* manual_run.go:316-337, bounded.go:82-107: a stopped checkpoint that calls its
\* content passed has a passing check of that very content, and one that calls it
\* approved an approving review as well.
VerdictIsProven ==
  \A t \in Rows : disk[t].status # "active" =>
    /\ disk[t].outcome \in {"manual_passed", "approved"} =>
         disk[t].source \in disk[t].evidence.passed
    /\ disk[t].status = "completed" => disk[t].source \in disk[t].evidence.approved

\* manual_run.go:147-155: a native group has a live controller in the guard or a
\* marker that was left there, even where the checkpoint says nothing of it.
GroupsAreMarked ==
  groups # {} => (left \/ \E p \in Procs : pc[p] \notin Outside /\ ~mem.clean)

\* Each controller promises LoopOwnership for the groups its checkpoints record.
Own == INSTANCE LoopOwnership WITH
  open    <- {t \in Rows : disk[t].status = "active" \/ disk[t].uncertain},
  working <- {g.task : g \in {h \in groups : h.kind # "probe"}},
  spent   <- launched
OneTaskAtATime == Own!Spec

\* The stages in the order an attempt goes through them, the last one first.
Place ==
  [idle |-> 0, close |-> 1, finish |-> 2, loop |-> 3, decide |-> 4, accept |-> 5, reviewed |-> 6,
   judge |-> 11, recheck |-> 12, evidence |-> 13, checking |-> 14, spawned |-> 15, spawn |-> 16,
   starting |-> 17, check |-> 18, implemented |-> 19, answered |-> 20, running |-> 21,
   launch |-> 22, invoke |-> 23, attempt |-> 24, begin |-> 25, admitted |-> 26, guarded |-> 27]
Invoking == {"invoke", "launch", "running", "answered"}

\* How many stages controller p has before it at most, 28 for each attempt not made yet.
\* The reviewer is invoked after the check.
StagesLeft(p) ==
  LET attempts == IF pc[p] \in {"idle", "guarded", "admitted", "begin"} THEN 0
                  ELSE mem.row.attempts
      reviewing == pc[p] \in Invoking /\ mem.role = "reviewer"
  IN  IF pc[p] = "idle" THEN 0
      ELSE Place[pc[p]] + 28 * (MaxAttempts - attempts) - (IF reviewing THEN 13 ELSE 0)

\* bounded.go:24-117: whatever reviewers and failing checks ask for, each stage a
\* controller enters brings it nearer to its end, and no other controller, no edit and
\* no clock takes it back.
RunsAdvance ==
  [][\A p \in Procs : pc[p] # "idle" =>
       \/ StagesLeft(p)' < StagesLeft(p)
       \/ pc'[p] = pc[p] /\ StagesLeft(p)' = StagesLeft(p)]_vars

\* The same as a liveness property: every controller that was started comes to an end.
RunsEnd == \A p \in Procs : pc[p] # "idle" ~> pc[p] = "idle"
=============================================================================
