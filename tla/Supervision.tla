---------------------------- MODULE Supervision ----------------------------
(***************************************************************************)
(* internal/native: one call that starts a process group, supervises it    *)
(* and answers whether the group is over.  The supervisor is a process of  *)
(* several threads: the call itself (pc), the wait for the leader, the     *)
(* readers of its output, the writer of its input and, at a terminal, the  *)
(* watcher of stops.  They run beside the group: its leader, a descendant, *)
(* and a process that left the group, which holds the pipes all the same.  *)
(* The group a cooperating Go runtime has of its own has left in that      *)
(* sense: the runtime may end by itself, after its own cleanup has failed, *)
(* while that group is alive, and nothing here looks for it.               *)
(*                                                                         *)
(* Deadlines are events.  A killed process may take for ever to die.       *)
(***************************************************************************)
EXTENDS Naturals

CONSTANTS
  Kinds,    \* the entry points taken
  MaxStops  \* bound on stops from the terminal

EntryPoints == {"command", "unbounded", "cooperative", "hooks", "inherited", "foreground", "handoff"}
ASSUME SupervisionAssumption == Kinds \subseteq EntryPoints /\ MaxStops \in Nat

VARIABLES
  kind, darwin,
  ctx,      \* the call's context: live, timeout or interrupted
  cleanup,  \* the cleanup deadline: off, on or over
  pc,       \* the call
  s,        \* its variables
  leader, how, \* the leader, and how it ended
  child, away, \* a descendant, and a process that left the group
  killed,   \* members with a pending SIGKILL
  waited,   \* the leader's status was collected
  reader, feeder, \* the threads on the pipes
  stop,     \* what made the capture stop
  flood,    \* the other output went over its limit
  fg,       \* who has the terminal
  watcher, stopping, suspended, continued, stops \* job control

vars == <<kind, darwin, ctx, cleanup, pc, s, leader, how, child, away, killed, waited,
          reader, feeder, stop, flood, fg, watcher, stopping, suspended, continued, stops>>
group == <<leader, how, child, away, killed>>
pipes == <<reader, feeder, stop, flood>>
jobs == <<fg, watcher, stopping, suspended, continued, stops>>

Piped == kind \notin {"inherited", "foreground", "handoff"}
Timed == kind \in {"command", "cooperative", "hooks"}
Cooperative == kind \in {"cooperative", "handoff"}
Terminal == kind \in {"foreground", "handoff"}
Consuming == kind = "hooks"
Counted == kind \in {"command", "unbounded", "cooperative"}

Running == {"running", "stopped"}
Present == leader \in Running \cup {"zombie"} \/ child = "running"
Holders == leader \in Running \/ child = "running" \/ away = "running"
Closed == pc \in {"reap", "drain", "observe", "unwind", "returned"}

CallTypes ==
  /\ kind \in Kinds /\ darwin \in BOOLEAN /\ waited \in BOOLEAN
  /\ ctx \in {"live", "timeout", "interrupted"} /\ cleanup \in {"off", "on", "over"}
  /\ pc \in {"launch", "publish", "wait", "terminate", "cooperate", "kill"} \cup
            {"reap", "drain", "observe", "unwind", "returned"}
GroupTypes ==
  /\ leader \in Running \cup {"none", "zombie", "reaped"} /\ how \in {"none", "zero", "nonzero", "signal"}
  /\ child \in {"none", "running", "gone"} /\ away \in {"none", "running", "gone"}
  /\ killed \subseteq {"leader", "child"}
PipeTypes ==
  /\ reader \in {"off", "at work", "done"} /\ feeder \in {"off", "at work", "done"}
  /\ stop \in {"none", "limit", "error", "job", "complete"} /\ flood \in BOOLEAN
JobTypes ==
  /\ fg \in {"self", "group", "shell"}
  /\ watcher \in {"off", "watching", "yield", "parked", "resume", "ended"} /\ stops \in 0..MaxStops
  /\ stopping \in BOOLEAN /\ suspended \in BOOLEAN /\ continued \in BOOLEAN
TypeOK == CallTypes /\ GroupTypes /\ PipeTypes /\ JobTypes

Init ==
  /\ kind \in Kinds /\ darwin \in BOOLEAN
  /\ ctx = "live" /\ cleanup = "off" /\ pc = "launch"
  /\ s = [outcome |-> "launch_error", failed |-> FALSE, reaped |-> FALSE, early |-> FALSE,
          acknowledged |-> FALSE, refused |-> FALSE, drained |-> FALSE, natural |-> FALSE,
          unconfirmed |-> FALSE]
  /\ leader = "none" /\ how = "none" /\ child = "none" /\ away = "none" /\ killed = {}
  /\ waited = FALSE /\ reader = "off" /\ feeder = "off" /\ stop = "none" /\ flood = FALSE
  /\ fg = "self" /\ watcher = "off" /\ stopping = FALSE /\ suspended = FALSE
  /\ continued = FALSE /\ stops = 0

-----------------------------------------------------------------------------
(* The call.                                                                *)

At(place) == pc = place /\ ~suspended
Goto(place, t) == pc' = place /\ s' = t /\ UNCHANGED <<kind, darwin, ctx, waited>>

\* A context that ended, or a failed start; the terminal may have been handed over.
Decline ==
  /\ At("launch")
  /\ Goto("unwind", [s EXCEPT !.failed = TRUE, !.outcome = IF ctx = "live" THEN @ ELSE ctx])
  /\ fg' \in (IF Terminal /\ ctx = "live" THEN {"self", "group"} ELSE {fg})
  /\ watcher' = "ended"
  /\ UNCHANGED <<cleanup, group, pipes, stopping, suspended, continued, stops>>

\* The leader starts in a group of its own, at a terminal in its foreground.
Launch ==
  /\ At("launch") /\ ctx = "live" /\ Goto("publish", s)
  /\ leader' = "running"
  /\ reader' = IF Piped THEN "at work" ELSE "done"
  /\ fg' = IF Terminal THEN "group" ELSE fg
  /\ watcher' = IF Terminal THEN "watching" ELSE "ended"
  /\ UNCHANGED <<cleanup, how, child, away, killed, feeder, stop, flood, stopping, suspended, continued, stops>>

\* The way to the end of the group.  A cooperating runtime is asked first, under
\* the cleanup deadline.
Ending(t) ==
  LET u == [t EXCEPT !.early = t.reaped, !.acknowledged = t.reaped] IN
  IF Cooperative
  THEN Goto(IF t.reaped THEN "kill" ELSE "terminate", u) /\ cleanup' = "on"
  ELSE Goto("kill", u) /\ UNCHANGED cleanup

\* onSpawn, then the input unless the context has ended.
Publish ==
  /\ At("publish")
  /\ \/ feeder' = "done" /\ Ending([s EXCEPT !.failed = TRUE])
     \/ ctx # "live" /\ feeder' = "done" /\ Ending([s EXCEPT !.outcome = ctx])
     \/ /\ ctx = "live"
        /\ feeder' = IF Piped THEN "at work" ELSE "done"
        /\ Goto("wait", [s EXCEPT !.outcome = "completed"]) /\ UNCHANGED cleanup
  /\ UNCHANGED <<group, reader, stop, flood, jobs>>

\* What the capture reports.
Stopped(t) ==
  CASE stop = "limit" -> [t EXCEPT !.outcome = "output_limit"]
    [] stop \in {"error", "job"} -> [t EXCEPT !.outcome = "failed", !.failed = TRUE]
    [] OTHER -> t

\* The leader ends, the context ends, or the capture stops, in any order.
Wait ==
  /\ At("wait")
  /\ \/ waited /\ Ending([s EXCEPT !.reaped = TRUE])
     \/ ctx # "live" /\ Ending([s EXCEPT !.outcome = ctx])
     \/ stop # "none" /\ Ending(Stopped(s))
  /\ UNCHANGED <<group, pipes, jobs>>

\* cooperate: SIGTERM, then a limited wait.
Terminate ==
  /\ At("terminate")
  /\ Goto("cooperate", s) \/ Goto("kill", [s EXCEPT !.refused = TRUE])
  /\ UNCHANGED <<cleanup, group, pipes, jobs>>
Cooperate ==
  /\ At("cooperate")
  /\ \/ waited /\ Goto("kill", [s EXCEPT !.reaped = TRUE, !.acknowledged = TRUE])
     \/ Goto("kill", s)
  /\ UNCHANGED <<cleanup, group, pipes, jobs>>

\* SIGKILL to the group, which may be refused; nothing is left to refuse it when
\* the group is gone, except on Darwin.
Kill ==
  /\ At("kill")
  /\ cleanup' = IF cleanup = "off" THEN "on" ELSE cleanup
  /\ \/ /\ killed' = {m \in {"leader"} : leader \in Running} \cup {m \in {"child"} : child = "running"}
        /\ Goto("reap", s)
     \/ /\ Present \/ darwin
        /\ Goto("reap", [s EXCEPT !.refused = TRUE]) /\ UNCHANGED killed
  /\ UNCHANGED <<leader, how, child, away, pipes, jobs>>

Reap ==
  /\ At("reap")
  /\ \/ (s.reaped \/ waited) /\ Goto("drain", [s EXCEPT !.reaped = TRUE])
     \/ ~s.reaped /\ cleanup = "over" /\ Goto("drain", s)
  /\ UNCHANGED <<cleanup, group, pipes, jobs>>

\* Mutant: what the capture met after the leader's exit is not looked at.
Mutant_Final(t) == t

\* The capture's last word, whatever ended the wait.
Final(t) ==
  CASE stop = "limit" -> [t EXCEPT !.outcome = "output_limit"]
    [] stop \in {"error", "job"} -> [t EXCEPT !.failed = TRUE, !.outcome = IF @ = "completed" THEN "failed" ELSE @]
    [] OTHER -> t

\* Mutant: the output is read to its end, however long that takes.
Mutant_Drain ==
  /\ At("drain") /\ reader = "done" /\ feeder = "done"
  /\ Goto("observe", [Final(s) EXCEPT !.drained = TRUE])
  /\ UNCHANGED <<cleanup, group, pipes, jobs>>

\* "natural" is reconcileDarwinExit.
Drain ==
  /\ At("drain")
  /\ LET whole == reader = "done" /\ feeder = "done"
         t == Final(s)
     IN  /\ whole \/ cleanup = "over"
         /\ Goto("observe", [t EXCEPT !.drained = whole,
              !.natural = darwin /\ s.refused /\ s.early /\ t.outcome = "completed" /\ whole
                            /\ how # "signal" /\ ctx = "live"])
  /\ UNCHANGED <<cleanup, group, pipes, jobs>>

Confirmed == [s EXCEPT !.outcome = IF @ = "completed" /\ how # "zero" THEN "failed" ELSE @]
Unconfirmed == [s EXCEPT !.unconfirmed = TRUE, !.failed = TRUE,
                         !.outcome = IF @ = "completed" THEN "failed" ELSE @]

\* The signal, reap and drain phases.
Doubtful == (s.refused /\ ~s.natural) \/ ~s.reaped \/ ~s.drained

\* Mutant: a forced runtime passes for one that has answered.
Mutant_Acknowledged == TRUE

\* The "cooperation" phase: the runtime ended by itself, in time.
Acknowledged == Cooperative => s.acknowledged /\ how # "signal"

\* groupStopped polls until the group is absent or the cleanup deadline is over.
Observe ==
  /\ At("observe")
  /\ \/ Doubtful /\ Goto("unwind", Unconfirmed)
     \/ /\ ~Doubtful
        /\ \/ cleanup = "over" /\ Goto("unwind", Unconfirmed)
           \/ /\ ~Present /\ cleanup # "over"
              /\ Goto("unwind", IF Acknowledged /\ (s.natural => ctx = "live") THEN Confirmed ELSE Unconfirmed)
  /\ UNCHANGED <<cleanup, group, pipes, jobs>>

\* The terminal is taken back, or that fails; executeCommand applies the limit of
\* the other output.
Leave(lost) ==
  Goto("returned", [s EXCEPT !.outcome = IF flood THEN "output_limit" ELSE @,
                             !.failed = @ \/ flood \/ lost])

\* Mutant: the terminal is taken back before the watcher has ended.
Mutant_Unwind ==
  /\ At("unwind")
  /\ \/ Leave(FALSE) /\ fg' = IF Terminal THEN "self" ELSE fg
     \/ Terminal /\ Leave(TRUE) /\ UNCHANGED fg
  /\ UNCHANGED <<cleanup, group, pipes, watcher, stopping, suspended, continued, stops>>

\* The deferred calls: the watcher ends, then the terminal is taken back.
Unwind ==
  /\ At("unwind") /\ watcher = "ended"
  /\ \/ Leave(FALSE) /\ fg' = IF Terminal THEN "self" ELSE fg
     \/ Terminal /\ Leave(TRUE) /\ UNCHANGED fg
  /\ UNCHANGED <<cleanup, group, pipes, watcher, stopping, suspended, continued, stops>>

Supervise ==
  \/ Decline \/ Launch \/ Publish \/ Wait \/ Terminate \/ Cooperate \/ Kill \/ Reap \/ Drain
  \/ Observe \/ Unwind

-----------------------------------------------------------------------------
(* The other threads.                                                       *)

Call == UNCHANGED <<kind, darwin, ctx, cleanup, pc, s>>

\* Cmd.Wait, without waiting for the pipes.
Collect ==
  /\ leader = "zombie" /\ ~suspended
  /\ leader' = "reaped" /\ waited' = TRUE
  /\ Call /\ UNCHANGED <<how, child, away, killed, pipes, jobs>>

\* The pipe has an end when nobody holds it, or when it is closed here.
Read ==
  /\ reader = "at work" /\ ~suspended
  /\ ~Holders \/ pc \in {"observe", "unwind", "returned"}
  /\ reader' = "done"
  /\ Call /\ UNCHANGED <<group, waited, feeder, stop, flood, jobs>>

Feed ==
  /\ feeder = "at work" /\ ~suspended
  /\ ~Holders \/ Closed \/ leader \in Running
  /\ feeder' = "done"
  /\ Call /\ UNCHANGED <<group, waited, reader, stop, flood, jobs>>

\* capture.Write: more than the limit, or what the consumer makes of the output.
Overrun ==
  /\ reader = "at work" /\ ~suspended /\ Holders
  /\ reader' = "done" /\ stop' \in (IF Consuming THEN {"limit", "error", "complete"} ELSE {"limit"})
  /\ Call /\ UNCHANGED <<group, waited, feeder, flood, jobs>>

\* commandCapture.Write, and probeQuota: the context is cancelled.
Flood ==
  /\ Counted /\ reader = "at work" /\ ~suspended /\ Holders
  /\ ~flood /\ flood' = TRUE /\ ctx' = IF ctx = "live" THEN "interrupted" ELSE ctx
  /\ UNCHANGED <<kind, darwin, cleanup, pc, s, group, waited, reader, feeder, stop, jobs>>

\* watchJobControl.  A stop is seen once; the terminal goes back, then the
\* supervisor stops itself.  Each of these calls may fail, and ends the watch.
Unwatched == ctx # "live" \/ waited \/ pc = "unwind"
Failed == watcher' = "ended" /\ stop' = IF stop = "none" THEN "job" ELSE stop
Watch ==
  /\ watcher = "watching" /\ ~suspended
  /\ \/ Unwatched /\ watcher' = "ended" /\ UNCHANGED <<fg, stop>>
     \/ leader = "stopped" /\ fg' = "self" /\ watcher' = "yield" /\ UNCHANGED stop
     \/ Failed /\ UNCHANGED fg
  /\ Call /\ UNCHANGED <<group, waited, reader, feeder, flood, stopping, suspended, continued, stops>>

Yield ==
  /\ watcher = "yield" /\ ~suspended /\ continued' = FALSE
  /\ \/ watcher' = "parked" /\ stopping' = TRUE /\ UNCHANGED stop
     \/ Failed /\ UNCHANGED stopping
  /\ Call /\ UNCHANGED <<group, waited, reader, feeder, flood, fg, suspended, stops>>

Park ==
  /\ watcher = "parked" /\ ~suspended
  /\ \/ continued /\ ctx = "live" /\ watcher' = "resume"
     \/ Unwatched /\ watcher' = "ended"
  /\ Call /\ UNCHANGED <<group, waited, pipes, fg, stopping, suspended, continued, stops>>

\* takeForeground only takes what the shell has given back; then SIGCONT.
Resume ==
  /\ watcher = "resume" /\ ~suspended
  /\ \/ /\ fg' = IF fg = "self" THEN "group" ELSE fg
        /\ leader' = IF leader = "stopped" THEN "running" ELSE leader
        /\ watcher' = "watching" /\ UNCHANGED stop
     \/ Failed /\ fg' \in {fg} \cup {g \in {"group"} : fg = "self"} /\ UNCHANGED leader
  /\ Call /\ UNCHANGED <<how, child, away, killed, waited, reader, feeder, flood>>
  /\ UNCHANGED <<stopping, suspended, continued, stops>>

Threads == Collect \/ Read \/ Feed \/ Watch \/ Yield \/ Park \/ Resume

-----------------------------------------------------------------------------
(* The group, the user and the clocks.                                      *)

\* By itself or by a signal, whatever it leaves behind.
LeaderExit ==
  /\ leader = "running" /\ leader' = "zombie" /\ how' \in {"zero", "nonzero", "signal"}
  /\ Call /\ UNCHANGED <<child, away, killed, waited, pipes, jobs>>

Die ==
  /\ \/ "leader" \in killed /\ leader \in Running /\ leader' = "zombie" /\ how' = "signal" /\ UNCHANGED child
     \/ "child" \in killed /\ child = "running" /\ child' = "gone" /\ UNCHANGED <<leader, how>>
  /\ Call /\ UNCHANGED <<away, killed, waited, pipes, jobs>>

Fork ==
  /\ leader = "running" /\ "leader" \notin killed
  /\ \/ child = "none" /\ child' = "running" /\ UNCHANGED away
     \/ away = "none" /\ away' = "running" /\ UNCHANGED child
  /\ Call /\ UNCHANGED <<leader, how, killed, waited, pipes, jobs>>

OtherExit ==
  /\ \/ child = "running" /\ child' = "gone" /\ UNCHANGED away
     \/ away = "running" /\ away' = "gone" /\ UNCHANGED child
  /\ Call /\ UNCHANGED <<leader, how, killed, waited, pipes, jobs>>

\* Control-Z, or a read from the background.
TerminalStop ==
  /\ Terminal /\ leader = "running" /\ stops < MaxStops
  /\ leader' = "stopped" /\ stops' = stops + 1
  /\ Call /\ UNCHANGED <<how, child, away, killed, waited, pipes, fg, watcher, stopping, suspended, continued>>

\* SIGSTOP arrives, and the shell takes the terminal.
Suspend ==
  /\ stopping /\ stopping' = FALSE /\ suspended' = TRUE /\ fg' = "shell"
  /\ Call /\ UNCHANGED <<group, waited, pipes, watcher, continued, stops>>

\* fg or bg.
Continue ==
  /\ suspended /\ suspended' = FALSE /\ continued' = TRUE
  /\ fg' \in {"self", "shell"}
  /\ Call /\ UNCHANGED <<group, waited, pipes, watcher, stopping, stops>>

Cancel ==
  /\ ctx = "live" /\ ctx' = "interrupted"
  /\ UNCHANGED <<kind, darwin, cleanup, pc, s, group, waited, pipes, jobs>>
Deadline ==
  /\ Timed /\ pc # "launch" /\ ctx = "live" /\ ctx' = "timeout"
  /\ UNCHANGED <<kind, darwin, cleanup, pc, s, group, waited, pipes, jobs>>
CleanupOver ==
  /\ cleanup = "on" /\ cleanup' = "over"
  /\ UNCHANGED <<kind, darwin, ctx, pc, s, group, waited, pipes, jobs>>

Next ==
  \/ Supervise \/ Threads \/ Overrun \/ Flood
  \/ LeaderExit \/ Die \/ Fork \/ OtherExit \/ TerminalStop \/ Suspend \/ Continue
  \/ Cancel \/ Deadline \/ CleanupOver

Spec == Init /\ [][Next]_vars

\* The threads run and the deadlines expire; the user resumes what was stopped.
\* Nothing is asked of the group.
FairSpec ==
  /\ Spec
  /\ WF_vars(Supervise) /\ WF_vars(Collect) /\ WF_vars(Read) /\ WF_vars(Feed)
  /\ WF_vars(Watch) /\ WF_vars(Yield) /\ WF_vars(Park) /\ WF_vars(Resume)
  /\ WF_vars(Deadline) /\ WF_vars(CleanupOver) /\ WF_vars(Suspend) /\ WF_vars(Continue)

-----------------------------------------------------------------------------
(* Properties.                                                              *)

Returned == pc = "returned" /\ leader # "none"

\* execute.go:382-423: an answer without the mark of uncertainty means that the
\* leader is reaped and its group gone, and that a runtime ended by itself: it was
\* neither forced nor signalled.  What it left in groups of its own is not claimed.
ConfirmedIsGone ==
  Returned /\ ~s.unconfirmed =>
    leader = "reaped" /\ child # "running" /\ (Cooperative => how # "signal" /\ "leader" \notin killed)

\* execute.go:292-380: success is the leader's own exit with status zero, with the
\* whole of its output taken and nothing refused of it, whichever came first.
SuccessIsWhole ==
  Returned /\ s.outcome = "completed" /\ ~s.failed =>
    how = "zero" /\ stop \notin {"limit", "error"} /\ ~flood /\ reader = "done"

\* inherited.go:61-79, 104-179: when the call is over the terminal is not left to
\* the group without an error, whatever stopped, resumed and failed meanwhile.
TerminalComesBack == pc = "returned" => fg # "group" \/ s.failed

\* execute.go:308-368: once its time is limited, by an allowance or a cancellation,
\* a call ends, whoever is still alive and whatever he holds.
Returns == (pc # "launch" /\ (Timed \/ ctx # "live")) ~> (pc = "returned")
=============================================================================
