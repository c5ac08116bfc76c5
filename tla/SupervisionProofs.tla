-------------------------- MODULE SupervisionProofs --------------------------
(***************************************************************************)
(* Proofs about Supervision, for every entry point and however often the   *)
(* terminal stops the group: a confirmed answer means that the group is    *)
(* gone and a runtime was not forced, success is the whole of it, and the  *)
(* terminal comes back.                                                    *)
(***************************************************************************)
EXTENDS Supervision, TLAPS

Outcomes == {"launch_error", "completed", "timeout", "interrupted", "output_limit", "failed"}
Calls ==
  [outcome : Outcomes, failed : BOOLEAN, reaped : BOOLEAN, early : BOOLEAN, acknowledged : BOOLEAN,
   refused : BOOLEAN, drained : BOOLEAN, natural : BOOLEAN, unconfirmed : BOOLEAN]

Over == {"unwind", "returned"}

\* Nothing runs before the launch, and nothing ever does after one that was declined.
LaunchInv ==
  /\ pc = "launch" => leader = "none" /\ watcher = "off"
  /\ leader = "none" => pc = "launch" \/ (pc \in Over /\ s.failed)

\* What is known of the leader's end: a status that was collected.
ExitInv ==
  /\ leader \in {"zombie", "reaped"} <=> how # "none"
  /\ s.reaped => waited
  /\ waited => leader = "reaped"

\* The group is killed once, after a runtime had its time to answer; one that did was
\* reaped before, and is not among the killed.
Asking == {"launch", "publish", "wait", "terminate", "cooperate", "kill"}
ForcedInv ==
  /\ pc \in Asking => killed = {}
  /\ s.acknowledged => waited /\ "leader" \notin killed

\* groupStopped was asked after the last process that could fork had been reaped.
GoneInv ==
  pc \in Over /\ leader # "none" /\ ~s.unconfirmed =>
    leader = "reaped" /\ child # "running" /\ (Cooperative => how # "signal" /\ "leader" \notin killed)

\* A capture that was drained has no reader left to change its verdict.
DrainInv ==
  /\ s.drained => reader = "done" /\ pc \in {"observe"} \cup Over
  /\ s.drained /\ s.outcome = "completed" /\ ~s.failed => stop \notin {"limit", "error"}
  /\ pc \in Over /\ leader # "none" /\ s.outcome = "completed" /\ ~s.failed => s.drained /\ how = "zero"
  /\ pc = "returned" /\ s.outcome = "completed" /\ ~s.failed => ~flood

\* The terminal changes hands in the watcher, which ends before the call does.
TerminalInv ==
  /\ ~Terminal => fg # "group" /\ watcher \in {"off", "ended"}
  /\ pc = "returned" => watcher = "ended" /\ (fg # "group" \/ s.failed)

IInv ==
  /\ TypeOK /\ s \in Calls
  /\ LaunchInv /\ ExitInv /\ ForcedInv /\ GoneInv /\ DrainInv /\ TerminalInv
-----------------------------------------------------------------------------
LEMMA InitInv == Init => IInv
<1> SUFFICES ASSUME Init  PROVE IInv
  OBVIOUS
<1>1. CallTypes /\ GroupTypes
  BY DEF Init, CallTypes, GroupTypes
<1>2. PipeTypes
  BY DEF Init, PipeTypes
<1>3. JobTypes
  <2>1. stops \in 0..MaxStops
    BY SupervisionAssumption DEF Init
  <2> QED  BY <2>1 DEF Init, JobTypes
<1>4. s \in Calls
  BY DEF Init, Calls, Outcomes
<1>5. LaunchInv /\ ExitInv /\ ForcedInv
  BY DEF Init, LaunchInv, ExitInv, ForcedInv
<1>6. GoneInv /\ DrainInv /\ TerminalInv
  BY DEF Init, GoneInv, DrainInv, TerminalInv, Over
<1> QED  BY <1>1, <1>2, <1>3, <1>4, <1>5, <1>6 DEF IInv, TypeOK

\* What a step leaves alone keeps its type.
LEMMA Types ==
  /\ GroupTypes /\ UNCHANGED group => GroupTypes'
  /\ PipeTypes /\ UNCHANGED pipes => PipeTypes'
  /\ JobTypes /\ UNCHANGED jobs => JobTypes'
BY DEF GroupTypes, group, PipeTypes, pipes, JobTypes, jobs

\* A step of the call that leaves the group, the pipes and the terminal to themselves:
\* it is enough to look at the call.
LEMMA GotoInv ==
  ASSUME IInv, NEW place \in {"wait", "terminate", "cooperate", "kill", "reap", "drain", "observe", "unwind"},
         NEW t \in Calls, pc \notin {"launch"} \cup Over, Goto(place, t), cleanup' \in {"off", "on", "over"},
         UNCHANGED <<leader, how, child, away, reader, stop, flood, jobs>>,
         feeder' \in {"off", "at work", "done"}, killed' \subseteq {"leader", "child"},
         t.reaped => waited, place \in Asking => killed' = {},
         t.acknowledged => waited /\ "leader" \notin killed',
         t.drained => reader = "done" /\ place \in {"observe", "unwind"},
         t.drained /\ t.outcome = "completed" /\ ~t.failed => stop \notin {"limit", "error"},
         place = "unwind" /\ t.outcome = "completed" /\ ~t.failed => t.drained /\ how = "zero",
         place = "unwind" /\ ~t.unconfirmed =>
           leader = "reaped" /\ child # "running" /\ (Cooperative => how # "signal" /\ "leader" \notin killed')
  PROVE  IInv'
<1>1. s' = t /\ pc' = place /\ UNCHANGED <<kind, darwin, ctx, waited>>
  BY DEF Goto
<1>2. CallTypes'
  BY <1>1 DEF IInv, TypeOK, CallTypes
<1>3. GroupTypes'
  BY DEF IInv, TypeOK, GroupTypes
<1>4. PipeTypes' /\ JobTypes'
  BY Types DEF IInv, TypeOK, PipeTypes
<1>5. LaunchInv' /\ ExitInv' /\ ForcedInv'
  BY <1>1 DEF IInv, LaunchInv, ExitInv, ForcedInv, Over
<1>6. GoneInv' /\ TerminalInv'
  BY <1>1 DEF IInv, GoneInv, TerminalInv, Cooperative, Terminal, Over, jobs
<1>7. DrainInv'
  BY <1>1 DEF IInv, DrainInv, Over
<1> QED  BY <1>1, <1>2, <1>3, <1>4, <1>5, <1>6, <1>7 DEF IInv, TypeOK
\* launch: a context that ended before, or a start that failed.
LEMMA DeclineInv ==
  ASSUME IInv, Decline
  PROVE  IInv'
<1> DEFINE t == [s EXCEPT !.failed = TRUE, !.outcome = IF ctx = "live" THEN s.outcome ELSE ctx]
<1>1. /\ pc = "launch" /\ pc' = "unwind" /\ s' = t /\ watcher' = "ended"
      /\ UNCHANGED <<kind, darwin, ctx, waited, cleanup, group, pipes, stopping, suspended, continued, stops>>
      /\ fg' \in (IF Terminal /\ ctx = "live" THEN {"self", "group"} ELSE {fg})
  BY DEF Decline, At, Goto
<1>2. /\ t \in Calls /\ t.failed /\ t.reaped = s.reaped /\ t.drained = s.drained
      /\ t.acknowledged = s.acknowledged
  BY DEF IInv, TypeOK, CallTypes, Calls, Outcomes
<1> HIDE DEF t
<1>3. leader = "none" /\ ~s.drained
  BY <1>1 DEF IInv, LaunchInv, DrainInv, Over
<1>4. CallTypes'
  BY <1>1 DEF IInv, TypeOK, CallTypes
<1>5. GroupTypes' /\ PipeTypes'
  BY <1>1, Types DEF IInv, TypeOK
<1>6. JobTypes'
  <2>1. fg' \in {"self", "group", "shell"}
    BY <1>1 DEF IInv, TypeOK, JobTypes
  <2> QED  BY <1>1, <2>1 DEF IInv, TypeOK, JobTypes
<1>7. LaunchInv' /\ ExitInv' /\ ForcedInv' /\ GoneInv' /\ DrainInv'
  BY <1>1, <1>2, <1>3 DEF IInv, LaunchInv, ExitInv, ForcedInv, Asking, GoneInv, DrainInv, Over, group, pipes
<1>8. TerminalInv'
  BY <1>1 DEF IInv, TerminalInv, Terminal
<1> QED  BY <1>1, <1>2, <1>4, <1>5, <1>6, <1>7, <1>8 DEF IInv, TypeOK

\* launch: the leader starts, at a terminal in its foreground.
LEMMA LaunchKept ==
  ASSUME IInv, Launch
  PROVE  IInv'
<1>1. /\ pc = "launch" /\ pc' = "publish" /\ s' = s /\ leader' = "running"
      /\ reader' = (IF Piped THEN "at work" ELSE "done")
      /\ fg' = (IF Terminal THEN "group" ELSE fg)
      /\ watcher' = (IF Terminal THEN "watching" ELSE "ended")
      /\ UNCHANGED <<kind, darwin, ctx, waited, cleanup, how, child, away, killed, feeder, stop, flood>>
      /\ UNCHANGED <<stopping, suspended, continued, stops>>
  BY DEF Launch, At, Goto
<1>2. leader = "none" /\ ~s.drained
  BY <1>1 DEF IInv, LaunchInv, DrainInv, Over
<1>3. CallTypes' /\ GroupTypes'
  BY <1>1 DEF IInv, TypeOK, CallTypes, GroupTypes, Running
<1>4. PipeTypes' /\ JobTypes'
  BY <1>1 DEF IInv, TypeOK, PipeTypes, JobTypes
<1>5. LaunchInv' /\ ExitInv' /\ ForcedInv' /\ GoneInv' /\ DrainInv'
  BY <1>1, <1>2 DEF IInv, LaunchInv, ExitInv, ForcedInv, Asking, GoneInv, DrainInv, Over
<1>6. TerminalInv'
  BY <1>1 DEF IInv, TerminalInv, Terminal
<1> QED  BY <1>1, <1>3, <1>4, <1>5, <1>6 DEF IInv, TypeOK

\* Whichever way the end of the group begins, nothing is known of the group yet.
LEMMA EndingInv ==
  ASSUME IInv, NEW t \in Calls, pc \in {"publish", "wait"}, Ending(t), UNCHANGED <<group, jobs>>,
         t.reaped => waited, ~t.drained,
         UNCHANGED <<reader, stop, flood>>, feeder' \in {"off", "at work", "done"}
  PROVE  IInv'
<1> DEFINE u == [t EXCEPT !.early = t.reaped, !.acknowledged = t.reaped]
<1>1. u \in Calls /\ u.reaped = t.reaped /\ u.acknowledged = t.reaped /\ u.drained = t.drained
  BY DEF Calls
<1>2. \E place \in {"terminate", "kill"} : Goto(place, u) /\ cleanup' \in {cleanup, "on"}
  BY DEF Ending
<1>3. killed' = {} /\ cleanup' \in {"off", "on", "over"}
  BY <1>2 DEF IInv, TypeOK, CallTypes, ForcedInv, Asking, group
<1> HIDE DEF u
<1> QED  BY <1>1, <1>2, <1>3, GotoInv DEF group, Over

\* Wait: the leader, the context or the capture, in any order.
LEMMA WaitInv ==
  ASSUME IInv, Wait
  PROVE  IInv'
<1>1. /\ pc = "wait" /\ UNCHANGED <<group, jobs, reader, stop, flood>> /\ ~s.drained /\ s \in Calls
      /\ feeder' \in {"off", "at work", "done"} /\ (s.reaped => waited)
  BY DEF Wait, At, IInv, DrainInv, ExitInv, Over, TypeOK, PipeTypes, pipes
<1>2. CASE waited /\ Ending([s EXCEPT !.reaped = TRUE])
  <2> DEFINE t == [s EXCEPT !.reaped = TRUE]
  <2>1. t \in Calls /\ ~t.drained
    BY <1>1 DEF Calls
  <2> HIDE DEF t
  <2> QED  BY <1>1, <1>2, <2>1, EndingInv DEF t
<1>3. CASE ctx # "live" /\ Ending([s EXCEPT !.outcome = ctx])
  <2> DEFINE t == [s EXCEPT !.outcome = ctx]
  <2>1. ctx \in Outcomes
    BY <1>3 DEF IInv, TypeOK, CallTypes, Outcomes
  <2>2. t \in Calls /\ ~t.drained /\ t.reaped = s.reaped
    BY <1>1, <2>1 DEF Calls
  <2> HIDE DEF t
  <2> QED  BY <1>1, <1>3, <2>2, EndingInv DEF t
<1>4. CASE Ending(Stopped(s))
  <2> DEFINE t == Stopped(s)
  <2>1. t \in Calls /\ ~t.drained /\ t.reaped = s.reaped
    BY <1>1 DEF Calls, Stopped, Outcomes
  <2> HIDE DEF t
  <2> QED  BY <1>1, <1>4, <2>1, EndingInv DEF t
<1> QED  BY <1>2, <1>3, <1>4 DEF Wait

\* onSpawn, and the input.
LEMMA PublishInv ==
  ASSUME IInv, Publish
  PROVE  IInv'
<1>1. /\ pc = "publish" /\ UNCHANGED <<group, jobs, reader, stop, flood>> /\ ~s.drained /\ s \in Calls
      /\ feeder' \in {"off", "at work", "done"} /\ (s.reaped => waited)
  BY DEF Publish, At, IInv, DrainInv, ExitInv, Over, TypeOK, PipeTypes
<1>2. CASE Ending([s EXCEPT !.failed = TRUE])
  <2> DEFINE t == [s EXCEPT !.failed = TRUE]
  <2>1. t \in Calls /\ ~t.drained /\ t.reaped = s.reaped
    BY <1>1 DEF Calls
  <2> HIDE DEF t
  <2> QED  BY <1>1, <1>2, <2>1, EndingInv DEF t
<1>3. CASE ctx # "live" /\ Ending([s EXCEPT !.outcome = ctx])
  <2> DEFINE t == [s EXCEPT !.outcome = ctx]
  <2>1. ctx \in Outcomes
    BY <1>3 DEF IInv, TypeOK, CallTypes, Outcomes
  <2>2. t \in Calls /\ ~t.drained /\ t.reaped = s.reaped
    BY <1>1, <2>1 DEF Calls
  <2> HIDE DEF t
  <2> QED  BY <1>1, <1>3, <2>2, EndingInv DEF t
<1>4. CASE Goto("wait", [s EXCEPT !.outcome = "completed"]) /\ UNCHANGED cleanup
  <2> DEFINE t == [s EXCEPT !.outcome = "completed"]
  <2>1. t \in Calls /\ ~t.drained /\ t.reaped = s.reaped /\ t.acknowledged = s.acknowledged
    BY <1>1 DEF Calls, Outcomes
  <2>2. killed' = {} /\ cleanup' \in {"off", "on", "over"} /\ (s.acknowledged => waited)
    BY <1>1, <1>4 DEF IInv, TypeOK, CallTypes, ForcedInv, Asking, group
  <2> HIDE DEF t
  <2> QED  BY <1>1, <1>4, <2>1, <2>2, GotoInv DEF t, group, Over
<1> QED  BY <1>2, <1>3, <1>4 DEF Publish

\* cooperate: asking costs nothing but time.
LEMMA CooperationInv ==
  ASSUME IInv, Terminate \/ Cooperate
  PROVE  IInv'
<1>1. /\ pc \in {"terminate", "cooperate"} /\ ~s.drained /\ s \in Calls /\ (s.reaped => waited)
      /\ UNCHANGED <<leader, how, child, away, killed, reader, feeder, stop, flood, jobs, cleanup>>
  BY DEF Terminate, Cooperate, At, IInv, DrainInv, ExitInv, Over, group, pipes
<1>2. /\ feeder' \in {"off", "at work", "done"} /\ killed' = {} /\ (s.acknowledged => waited)
      /\ cleanup' \in {"off", "on", "over"}
  BY <1>1 DEF IInv, TypeOK, CallTypes, ForcedInv, Asking, PipeTypes
<1>3. PICK place \in {"cooperate", "kill"}, t \in Calls :
        Goto(place, t) /\ ~t.drained /\ (t.reaped => waited) /\ (t.acknowledged => waited)
  <2>1. CASE Goto("cooperate", s) \/ Goto("kill", s)
    BY <1>1, <1>2, <2>1
  <2>2. CASE Goto("kill", [s EXCEPT !.refused = TRUE])
    <3> DEFINE t == [s EXCEPT !.refused = TRUE]
    <3>1. t \in Calls /\ ~t.drained /\ t.reaped = s.reaped /\ t.acknowledged = s.acknowledged
      BY <1>1 DEF Calls
    <3> HIDE DEF t
    <3> QED  BY <1>1, <1>2, <2>2, <3>1 DEF t
  <2>3. CASE waited /\ Goto("kill", [s EXCEPT !.reaped = TRUE, !.acknowledged = TRUE])
    <3> DEFINE t == [s EXCEPT !.reaped = TRUE, !.acknowledged = TRUE]
    <3>1. t \in Calls /\ ~t.drained
      BY <1>1 DEF Calls
    <3> HIDE DEF t
    <3> QED  BY <1>1, <2>3, <3>1 DEF t
  <2> QED  BY <2>1, <2>2, <2>3 DEF Terminate, Cooperate
<1> QED  BY <1>1, <1>2, <1>3, GotoInv DEF Over

\* The signal to the group, sent or refused.
LEMMA KillInv ==
  ASSUME IInv, Kill
  PROVE  IInv'
<1>1. /\ pc = "kill" /\ ~s.drained /\ s \in Calls /\ (s.reaped => waited)
      /\ UNCHANGED <<leader, how, child, away, reader, feeder, stop, flood, jobs>>
  BY DEF Kill, At, IInv, DrainInv, ExitInv, Over, pipes
<1>2. /\ feeder' \in {"off", "at work", "done"} /\ killed' \subseteq {"leader", "child"}
      /\ cleanup' \in {"off", "on", "over"} /\ (s.acknowledged => waited /\ "leader" \notin killed')
  BY <1>1 DEF Kill, IInv, TypeOK, CallTypes, GroupTypes, PipeTypes, ExitInv, ForcedInv, Running
<1>3. PICK t \in Calls : Goto("reap", t) /\ ~t.drained /\ (t.reaped => waited) /\ t.acknowledged = s.acknowledged
  <2>1. CASE Goto("reap", s)
    BY <1>1, <2>1
  <2>2. CASE Goto("reap", [s EXCEPT !.refused = TRUE])
    <3> DEFINE t == [s EXCEPT !.refused = TRUE]
    <3>1. t \in Calls /\ ~t.drained /\ t.reaped = s.reaped /\ t.acknowledged = s.acknowledged
      BY <1>1 DEF Calls
    <3> HIDE DEF t
    <3> QED  BY <1>1, <1>2, <2>2, <3>1 DEF t
  <2> QED  BY <2>1, <2>2 DEF Kill
<1> QED  BY <1>1, <1>2, <1>3, GotoInv DEF Over, Asking

\* The leader is reaped, or the cleanup deadline is over.
LEMMA ReapInv ==
  ASSUME IInv, Reap
  PROVE  IInv'
<1>1. /\ pc = "reap" /\ ~s.drained /\ s \in Calls /\ (s.reaped => waited)
      /\ UNCHANGED <<leader, how, child, away, killed, reader, feeder, stop, flood, jobs, cleanup>>
  BY DEF Reap, At, IInv, DrainInv, ExitInv, Over, group, pipes
<1>2. /\ feeder' \in {"off", "at work", "done"} /\ killed' \subseteq {"leader", "child"}
      /\ cleanup' \in {"off", "on", "over"} /\ (s.acknowledged => waited /\ "leader" \notin killed')
  BY <1>1 DEF IInv, TypeOK, CallTypes, GroupTypes, PipeTypes, ForcedInv
<1>3. PICK t \in Calls : Goto("drain", t) /\ ~t.drained /\ (t.reaped => waited) /\ t.acknowledged = s.acknowledged
  <2>1. CASE Goto("drain", s)
    BY <1>1, <2>1
  <2>2. CASE waited /\ Goto("drain", [s EXCEPT !.reaped = TRUE])
    <3> DEFINE t == [s EXCEPT !.reaped = TRUE]
    <3>1. t \in Calls /\ ~t.drained /\ t.acknowledged = s.acknowledged
      BY <1>1 DEF Calls
    <3> HIDE DEF t
    <3> QED  BY <1>1, <2>2, <3>1 DEF t
  <2> QED  BY <1>1, <2>1, <2>2 DEF Reap
<1> QED  BY <1>1, <1>2, <1>3, GotoInv DEF Over, Asking
\* The capture's last word, taken when its readers are done or their time is over.
LEMMA DrainKept ==
  ASSUME IInv, Drain
  PROVE  IInv'
<1> DEFINE whole == reader = "done" /\ feeder = "done"
           t == Final(s)
           natural == darwin /\ s.refused /\ s.early /\ t.outcome = "completed" /\ whole
                            /\ how # "signal" /\ ctx = "live"
           u == [t EXCEPT !.drained = whole, !.natural = natural]
<1>1. /\ pc = "drain" /\ s \in Calls /\ (s.reaped => waited) /\ stop \in {"none", "limit", "error", "job", "complete"}
      /\ UNCHANGED <<leader, how, child, away, killed, reader, feeder, stop, flood, jobs, cleanup>>
      /\ Goto("observe", u)
  BY DEF Drain, At, IInv, TypeOK, PipeTypes, ExitInv, group, pipes
<1>2. /\ feeder' \in {"off", "at work", "done"} /\ killed' \subseteq {"leader", "child"}
      /\ cleanup' \in {"off", "on", "over"} /\ (s.acknowledged => waited /\ "leader" \notin killed')
  BY <1>1 DEF IInv, TypeOK, CallTypes, GroupTypes, PipeTypes, ForcedInv
<1>3. /\ t \in Calls /\ t.reaped = s.reaped /\ t.acknowledged = s.acknowledged
      /\ t.outcome = "completed" /\ ~t.failed => stop \notin {"limit", "error"}
  BY <1>1 DEF Final, Calls, Outcomes
<1>4. natural \in BOOLEAN /\ whole \in BOOLEAN /\ (whole => reader = "done")
  OBVIOUS
<1> HIDE DEF t, natural, whole
<1>5. /\ u \in Calls /\ u.reaped = t.reaped /\ u.acknowledged = t.acknowledged /\ u.drained = whole /\ u.outcome = t.outcome
      /\ u.failed = t.failed
  BY <1>3, <1>4 DEF Calls
<1> HIDE DEF u
<1> QED  BY <1>1, <1>2, <1>3, <1>4, <1>5, GotoInv DEF Over, Asking

\* groupStopped: with every phase free of doubt and the group absent, the leader was the
\* last to leave it.
LEMMA ObserveInv ==
  ASSUME IInv, Observe
  PROVE  IInv'
<1>1. /\ pc = "observe" /\ s \in Calls /\ (s.reaped => waited) /\ (waited => leader = "reaped")
      /\ UNCHANGED <<leader, how, child, away, killed, reader, feeder, stop, flood, jobs, cleanup>>
      /\ s.drained => reader = "done"
      /\ s.drained /\ s.outcome = "completed" /\ ~s.failed => stop \notin {"limit", "error"}
  BY DEF Observe, At, IInv, DrainInv, ExitInv, group, pipes
<1>2. /\ feeder' \in {"off", "at work", "done"} /\ killed' \subseteq {"leader", "child"}
      /\ cleanup' \in {"off", "on", "over"} /\ (s.acknowledged => waited /\ "leader" \notin killed')
  BY <1>1 DEF IInv, TypeOK, CallTypes, GroupTypes, PipeTypes, ForcedInv
<1>3. CASE Goto("unwind", Unconfirmed)
  <2> DEFINE t == Unconfirmed
  <2>1. t \in Calls /\ t.reaped = s.reaped /\ t.acknowledged = s.acknowledged /\ t.drained = s.drained /\ t.failed /\ t.unconfirmed
    BY <1>1 DEF Unconfirmed, Calls, Outcomes
  <2> HIDE DEF t
  <2> QED  BY <1>1, <1>2, <1>3, <2>1, GotoInv DEF t, Over, Asking
<1>4. CASE ~Doubtful /\ ~Present /\ Acknowledged /\ Goto("unwind", Confirmed)
  <2> DEFINE t == Confirmed
  <2>1. /\ t \in Calls /\ t.reaped = s.reaped /\ t.acknowledged = s.acknowledged /\ t.drained = s.drained /\ t.failed = s.failed
        /\ t.outcome = "completed" => s.outcome = "completed" /\ how = "zero"
    BY <1>1 DEF Confirmed, Calls, Outcomes
  <2>2. s.reaped /\ s.drained /\ leader = "reaped" /\ child # "running"
    BY <1>1, <1>4 DEF Doubtful, Present
  <2>3. Cooperative => how # "signal" /\ "leader" \notin killed'
    BY <1>2, <1>4 DEF Acknowledged
  <2> HIDE DEF t
  <2> QED  BY <1>1, <1>2, <1>4, <2>1, <2>2, <2>3, GotoInv DEF t, Over, Asking
<1> QED  BY <1>3, <1>4 DEF Observe

\* The deferred calls: the terminal is taken back from a watcher that has ended.
LEMMA UnwindInv ==
  ASSUME IInv, Unwind
  PROVE  IInv'
<1>1. PICK lost \in BOOLEAN :
        /\ pc = "unwind" /\ watcher = "ended" /\ Leave(lost)
        /\ fg' = "self" \/ (UNCHANGED fg /\ (Terminal => lost))
        /\ UNCHANGED <<cleanup, group, pipes, watcher, stopping, suspended, continued, stops>>
  BY DEF Unwind, At
<1> DEFINE t == [s EXCEPT !.outcome = IF flood THEN "output_limit" ELSE s.outcome,
                          !.failed = s.failed \/ flood \/ lost]
<1>2. pc' = "returned" /\ s' = t /\ UNCHANGED <<kind, darwin, ctx, waited>>
  BY <1>1 DEF Leave, Goto
<1>3. /\ t \in Calls /\ t.reaped = s.reaped /\ t.drained = s.drained /\ t.unconfirmed = s.unconfirmed
      /\ t.acknowledged = s.acknowledged
      /\ s.failed \/ lost => t.failed
      /\ t.outcome = "completed" => ~flood /\ s.outcome = "completed"
      /\ ~t.failed => ~s.failed
  <2>1. s \in Calls /\ flood \in BOOLEAN
    BY DEF IInv, TypeOK, PipeTypes
  <2> QED  BY <2>1 DEF Calls, Outcomes
<1> HIDE DEF t
<1>4. CallTypes'
  BY <1>1, <1>2 DEF IInv, TypeOK, CallTypes
<1>5. GroupTypes' /\ PipeTypes'
  BY <1>1, Types DEF IInv, TypeOK
<1>6. JobTypes'
  BY <1>1 DEF IInv, TypeOK, JobTypes
<1>7. LaunchInv' /\ ExitInv' /\ ForcedInv'
  BY <1>1, <1>2, <1>3 DEF IInv, LaunchInv, ExitInv, ForcedInv, Asking, Over, group
<1>8. GoneInv' /\ DrainInv'
  BY <1>1, <1>2, <1>3 DEF IInv, GoneInv, DrainInv, Cooperative, Over, group, pipes
<1>9. TerminalInv'
  BY <1>1, <1>2, <1>3 DEF IInv, TerminalInv, Terminal
<1> QED  BY <1>2, <1>3, <1>4, <1>5, <1>6, <1>7, <1>8, <1>9 DEF IInv, TypeOK

-----------------------------------------------------------------------------
\* Cmd.Wait collects the leader.
LEMMA CollectInv ==
  ASSUME IInv, Collect
  PROVE  IInv'
<1>1. /\ leader = "zombie" /\ leader' = "reaped" /\ waited' = TRUE
      /\ UNCHANGED <<kind, darwin, ctx, cleanup, pc, s, how, child, away, killed, pipes, jobs>>
  BY DEF Collect, Call
<1>2. CallTypes' /\ GroupTypes'
  BY <1>1 DEF IInv, TypeOK, CallTypes, GroupTypes
<1>3. PipeTypes' /\ JobTypes'
  BY <1>1, Types DEF IInv, TypeOK
<1>4. LaunchInv' /\ ExitInv' /\ ForcedInv' /\ TerminalInv'
  BY <1>1 DEF IInv, LaunchInv, ExitInv, ForcedInv, TerminalInv, Terminal, Over, jobs
<1>5. GoneInv' /\ DrainInv'
  BY <1>1 DEF IInv, GoneInv, DrainInv, Cooperative, Over, pipes
<1> QED  BY <1>1, <1>2, <1>3, <1>4, <1>5 DEF IInv, TypeOK

\* The threads on the pipes: a reader that is done never comes back.
LEMMA PipeInv ==
  ASSUME IInv, Read \/ Feed \/ Overrun \/ Flood
  PROVE  IInv'
<1>1. /\ UNCHANGED <<kind, darwin, cleanup, pc, s, group, waited, jobs>>
      /\ PipeTypes' /\ ctx' \in {"live", "timeout", "interrupted"}
      /\ reader' \in {reader, "done"} /\ (reader \in {"done", "off"} => UNCHANGED <<stop, flood>>)
  BY DEF Read, Feed, Overrun, Flood, Call, pipes, IInv, TypeOK, PipeTypes, CallTypes
<1>2. CallTypes' /\ GroupTypes' /\ JobTypes'
  BY <1>1, Types DEF IInv, TypeOK, CallTypes
<1>3. LaunchInv' /\ ExitInv' /\ ForcedInv' /\ TerminalInv' /\ GoneInv'
  BY <1>1 DEF IInv, LaunchInv, ExitInv, ForcedInv, TerminalInv, GoneInv, Cooperative, Terminal, Over, jobs, group
<1>4. DrainInv'
  BY <1>1 DEF IInv, DrainInv, LaunchInv, Over, group
<1> QED  BY <1>1, <1>2, <1>3, <1>4 DEF IInv, TypeOK
\* Job control: only a watcher that resumes gives the terminal to the group, and one that
\* has ended does nothing more.
LEMMA JobInv ==
  ASSUME IInv, UNCHANGED <<kind, darwin, ctx, cleanup, pc, s, how, child, away, killed, waited>>,
         UNCHANGED <<reader, feeder, flood>>, stop' \in {stop, "job"},
         JobTypes', leader' = leader \/ {leader, leader'} \subseteq Running,
         watcher \in {"off", "ended"} => UNCHANGED <<watcher, stop>>,
         fg' = "group" => fg = "group" \/ watcher = "resume"
  PROVE  IInv'
<1>1. CallTypes' /\ GroupTypes'
  BY DEF IInv, TypeOK, CallTypes, GroupTypes, Running
<1>2. PipeTypes'
  BY DEF IInv, TypeOK, PipeTypes
<1>3. LaunchInv' /\ ExitInv' /\ ForcedInv' /\ GoneInv'
  BY DEF IInv, LaunchInv, ExitInv, ForcedInv, GoneInv, Cooperative, Over, Running
<1>4. DrainInv' /\ TerminalInv'
  BY DEF IInv, DrainInv, TerminalInv, LaunchInv, Terminal, Over, Running
<1> QED  BY <1>1, <1>2, <1>3, <1>4 DEF IInv, TypeOK

LEMMA JobsInv ==
  ASSUME IInv, Watch \/ Yield \/ Park \/ Resume \/ TerminalStop \/ Suspend \/ Continue
  PROVE  IInv'
<1>1. /\ UNCHANGED <<kind, darwin, ctx, cleanup, pc, s, how, child, away, killed, waited>>
      /\ UNCHANGED <<reader, feeder, flood>> /\ stop' \in {stop, "job"}
      /\ leader' = leader \/ {leader, leader'} \subseteq Running
      /\ watcher \in {"off", "ended"} => UNCHANGED <<watcher, stop>>
      /\ fg' = "group" => fg = "group" \/ watcher = "resume"
  BY DEF Watch, Yield, Park, Resume, TerminalStop, Suspend, Continue, Call, Failed, Unwatched, group, pipes, Running
<1>2. JobTypes'
  <2>1. CASE Watch \/ Yield
    BY <2>1 DEF Watch, Yield, Failed, IInv, TypeOK, JobTypes
  <2>2. CASE Park \/ Resume
    BY <2>2 DEF Park, Resume, Failed, IInv, TypeOK, JobTypes
  <2>3. CASE TerminalStop
    <3>1. stops' \in 0..MaxStops
      BY <2>3, SupervisionAssumption DEF TerminalStop, IInv, TypeOK, JobTypes
    <3> QED  BY <2>3, <3>1 DEF TerminalStop, IInv, TypeOK, JobTypes
  <2>4. CASE Suspend \/ Continue
    BY <2>4 DEF Suspend, Continue, IInv, TypeOK, JobTypes
  <2> QED  BY <2>1, <2>2, <2>3, <2>4
<1> QED  BY <1>1, <1>2, JobInv

\* The processes: only a running leader forks, and one that has ended stays as it ended.
LEMMA ProcessInv ==
  ASSUME IInv, LeaderExit \/ Die \/ Fork \/ OtherExit
  PROVE  IInv'
<1>1. UNCHANGED <<kind, darwin, ctx, cleanup, pc, s, killed, waited, pipes, jobs>>
  BY DEF LeaderExit, Die, Fork, OtherExit, Call
<1>2. /\ GroupTypes'
      /\ leader \notin Running => UNCHANGED <<leader, how>> /\ child' \in {child, "gone"}
      /\ leader \in Running => UNCHANGED <<leader, how>> \/ (leader' = "zombie" /\ how' # "none")
      /\ child' = "running" => child = "running" \/ leader \in Running
  BY DEF LeaderExit, Die, Fork, OtherExit, IInv, TypeOK, GroupTypes, Running
<1>3. CallTypes' /\ PipeTypes' /\ JobTypes'
  BY <1>1, Types DEF IInv, TypeOK, CallTypes
<1>4. LaunchInv'
  BY <1>1, <1>2 DEF IInv, TypeOK, GroupTypes, LaunchInv, Running, Over, jobs
<1>5. ExitInv' /\ ForcedInv'
  BY <1>1, <1>2 DEF IInv, TypeOK, GroupTypes, ExitInv, ForcedInv, Running
<1>6. GoneInv'
  BY <1>1, <1>2 DEF IInv, TypeOK, GroupTypes, GoneInv, Running, Cooperative, Over
<1>7. DrainInv' /\ TerminalInv'
  BY <1>1, <1>2 DEF IInv, LaunchInv, ExitInv, DrainInv, TerminalInv, Terminal, Over, Running, pipes, jobs
<1> QED  BY <1>1, <1>2, <1>3, <1>4, <1>5, <1>6, <1>7 DEF IInv, TypeOK

\* The clocks and whoever cancels.
LEMMA ClockInv ==
  ASSUME IInv, Cancel \/ Deadline \/ CleanupOver
  PROVE  IInv'
<1>1. /\ UNCHANGED <<kind, darwin, pc, s, group, waited, pipes, jobs>>
      /\ ctx' \in {"live", "timeout", "interrupted"} /\ cleanup' \in {"off", "on", "over"}
  BY DEF Cancel, Deadline, CleanupOver, IInv, TypeOK, CallTypes
<1>2. TypeOK'
  BY <1>1, Types DEF IInv, TypeOK, CallTypes
<1>3. LaunchInv' /\ ExitInv' /\ ForcedInv' /\ GoneInv' /\ DrainInv' /\ TerminalInv'
  BY <1>1 DEF IInv, LaunchInv, ExitInv, ForcedInv, GoneInv, DrainInv, TerminalInv, Cooperative, Terminal, group, pipes, jobs
<1> QED  BY <1>1, <1>2, <1>3 DEF IInv

LEMMA StutterInv == IInv /\ UNCHANGED vars => IInv'
<1> SUFFICES ASSUME IInv, UNCHANGED vars  PROVE IInv'
  OBVIOUS
<1>1. UNCHANGED <<kind, darwin, ctx, cleanup, pc, s, group, waited, pipes, jobs>>
  BY DEF vars, group, pipes, jobs
<1>2. TypeOK'
  BY <1>1, Types DEF IInv, TypeOK, CallTypes
<1>3. LaunchInv' /\ ExitInv' /\ ForcedInv' /\ GoneInv' /\ DrainInv' /\ TerminalInv'
  BY <1>1 DEF IInv, LaunchInv, ExitInv, ForcedInv, GoneInv, DrainInv, TerminalInv, Cooperative, Terminal, group, pipes, jobs
<1> QED  BY <1>1, <1>2, <1>3 DEF IInv

\* Every thread, process, signal and deadline keeps the invariant.
LEMMA NextInv == IInv /\ [Next]_vars => IInv'
<1> SUFFICES ASSUME IInv, [Next]_vars  PROVE IInv'
  OBVIOUS
<1>1. CASE Supervise
  BY <1>1, DeclineInv, LaunchKept, PublishInv, WaitInv, CooperationInv, KillInv, ReapInv, DrainKept,
     ObserveInv, UnwindInv DEF Supervise
<1>2. CASE Threads \/ Overrun \/ Flood
  BY <1>2, CollectInv, PipeInv, JobsInv DEF Threads
<1>3. CASE LeaderExit \/ Die \/ Fork \/ OtherExit
  BY <1>3, ProcessInv
<1>4. CASE TerminalStop \/ Suspend \/ Continue
  BY <1>4, JobsInv
<1>5. CASE Cancel \/ Deadline \/ CleanupOver
  BY <1>5, ClockInv
<1>6. CASE UNCHANGED vars
  BY <1>6, StutterInv
<1> QED  BY <1>1, <1>2, <1>3, <1>4, <1>5, <1>6 DEF Next

-----------------------------------------------------------------------------
\* internal/native: what every interleaving of the call, its threads, the group and the
\* clocks leaves true.
THEOREM Invariant == Spec => []IInv
<1>1. Init => IInv
  BY InitInv
<1>2. IInv /\ [Next]_vars => IInv'
  BY NextInv
<1> QED  BY <1>1, <1>2, PTL DEF Spec

\* The call, the group, the pipes and the terminal of internal/native keep their types.
THEOREM TypeCorrect == Spec => []TypeOK
<1>1. IInv => TypeOK
  BY DEF IInv
<1> QED  BY <1>1, Invariant, PTL

\* execute.go:382-423: a call that does not say it is uncertain has seen the leader reaped,
\* nobody of the group is alive, then or ever after, and a runtime that was asked to end was
\* neither killed nor signalled.  The groups a runtime has of its own are not spoken of.
THEOREM GroupIsGone == Spec => []ConfirmedIsGone
<1>1. IInv => ConfirmedIsGone
  BY DEF IInv, GoneInv, ConfirmedIsGone, Returned, Over
<1> QED  BY <1>1, Invariant, PTL

\* execute.go:292-380: whichever of the exit, the limits, the deadlines and the cancellation
\* comes first, a success is the whole of it.
THEOREM SuccessIsEarned == Spec => []SuccessIsWhole
<1>1. IInv => SuccessIsWhole
  BY DEF IInv, DrainInv, SuccessIsWhole, Returned, Over
<1> QED  BY <1>1, Invariant, PTL

\* inherited.go:61-79, 104-179: the group does not keep the terminal without an error,
\* however often it was stopped and resumed and whichever of the calls failed.
THEOREM TerminalReturned == Spec => []TerminalComesBack
<1>1. IInv => TerminalComesBack
  BY DEF IInv, TerminalInv, TerminalComesBack
<1> QED  BY <1>1, Invariant, PTL
=============================================================================
