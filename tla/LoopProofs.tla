----------------------------- MODULE LoopProofs ------------------------------
(***************************************************************************)
(* Proofs about Loop, for every number of controllers, tasks, attempts,    *)
(* limits, deaths and failed calls: a verdict has its evidence, a native   *)
(* group is never unmarked, together the controllers implement             *)
(* LoopOwnership, and each of them comes nearer to its end by every step.  *)
(***************************************************************************)
EXTENDS Loop, TLAPS

Natives == [task : Tasks, kind : Kinds]
Manuals == {"manual_passed", "manual_failed"}
Reviews == {"reviewed", "accept", "decide"}
Work(gs) == {g \in gs : g.kind # "probe"}
Open(row) == row.status = "active" \/ row.uncertain
OpenTasks == {t \in Rows : Open(disk[t])}

\* What a stage of the invocation may rely on: the row is the open checkpoint, no attempt
\* was made before it was counted, and evidence is of what was looked at.
Sound(stage, m, made) ==
  /\ m \in Mem
  /\ m.clean => stage = "close"
  /\ stage # "close" => m.row.status = "active"
  /\ stage \in {"begin"} \cup Timed => made <= m.row.attempts
  /\ stage \in {"attempt", "invoke", "launch"} /\ m.role = "implementer" => made < m.row.attempts
  /\ \/ stage = "implemented"
     \/ stage \in {"attempt", "invoke", "launch", "running", "answered"} /\ m.role = "implementer"
     => m.row.attempts # 0
  /\ stage \notin {"finish", "close"} => m.row.stalled < NoProgressLimit
  /\ stage = "judge" => m.code # -1
  /\ stage \in {"evidence", "recheck", "judge"} /\ m.code = 0 => m.before \in m.row.evidence.passed
  /\ stage = "judge" => m.row.source = m.before
  /\ stage = "attempt" => m.role = "implementer"
  /\ stage \in Reviews => m.role = "reviewer"
  /\ stage \in {"invoke", "launch", "running", "answered"} \cup Reviews /\ m.role = "reviewer" =>
       m.row.source = m.before /\ m.before \in m.row.evidence.passed
  /\ stage \in {"accept", "decide"} /\ m.answer = "approve" => m.before \in m.row.evidence.approved
  /\ stage = "finish" =>
       /\ m.outcome \in Manuals => m.row.stalled < NoProgressLimit
       /\ m.outcome \in {"manual_passed", "approved"} => m.row.source \in m.row.evidence.passed
       /\ m.outcome = "approved" => m.row.source \in m.row.evidence.approved

\* The native group a stage supervises.
Expected(stage, t) ==
  {g \in Natives : /\ g.task = t
                   /\ \/ stage = "running" /\ g.kind = "model"
                      \/ stage \in {"spawned", "checking"} /\ g.kind = "check"}

\* A model or a check that may be running is supervised, or the row is in doubt.
Owned(stage, m, t, gs) ==
  /\ stage \notin {"finish", "close"} => Work(gs) \subseteq Expected(stage, t)
  /\ stage = "finish" /\ Work(gs) # {} => m.row.uncertain

\* The tasks native work is done for.
WorkTasks == {g.task : g \in Work(groups)}

\* An attempt about to be made is one the checkpoint counts already.
Paid(stage, m, made, row) ==
  stage \in {"invoke", "launch"} /\ m.role = "implementer" => made < row.attempts

\* The same of every group, probes included, where no marker was left.
Marked(stage, m, t, gs) ==
  /\ stage \notin {"finish", "close"} => gs \subseteq Expected(stage, t)
  /\ stage = "finish" /\ m.outcome # "handoff" => gs = {}
  /\ stage = "close" /\ m.clean => gs = {}

\* Who is inside the lock, and what it knows of the task it was asked for.
InsideInv ==
  \A p \in Procs : pc[p] \notin Outside =>
    /\ Sound(pc[p], mem, launched[T(p)])
    /\ Owned(pc[p], mem, T(p), groups)
    /\ pc[p] \in {"admitted", "begin"} => OpenTasks = {}
    /\ pc[p] \in Timed => T(p) \in Rows /\ disk[T(p)].status = "active"
    /\ Paid(pc[p], mem, launched[T(p)], disk[T(p)])
    /\ ~left => Marked(pc[p], mem, T(p), groups)

\* The checkpoints: attempts were counted before they were made.
RowInv ==
  \A t \in Tasks :
    /\ t \notin Rows => launched[t] = 0
    /\ t \in Rows => /\ launched[t] <= disk[t].attempts
                     /\ disk[t].outcome \in Manuals => disk[t].stalled < NoProgressLimit

\* One task is open, and native work belongs to it.
OwnershipInv ==
  /\ \A t, u \in OpenTasks : t = u
  /\ \A g \in Work(groups) : g.task \in OpenTasks

\* With nobody inside, a marker or nothing is left.
MarkerInv == ~left /\ (\A p \in Procs : pc[p] \in Outside) => groups = {}

IInv == TypeOK /\ InsideInv /\ RowInv /\ OwnershipInv /\ MarkerInv /\ VerdictIsProven
-----------------------------------------------------------------------------
\* Nothing changes in what the controllers promise.
LEMMA OwnStutter ==
  ASSUME OpenTasks' = OpenTasks, WorkTasks' = WorkTasks, launched' = launched
  PROVE  [Own!Next]_(Own!vars)
BY DEF Own!vars, OpenTasks, Open, WorkTasks, Work

\* Under one open task, native work begins or ends, or neither.
LEMMA OwnWork ==
  ASSUME NEW t \in Tasks, t \in OpenTasks, OpenTasks' = OpenTasks, launched' = launched,
         WorkTasks \in {{}, {t}}, WorkTasks' \in {{}, {t}}
  PROVE  [Own!Next]_(Own!vars)
<1>1. CASE WorkTasks' = WorkTasks
  BY <1>1, OwnStutter
<1>2. CASE WorkTasks = {} /\ WorkTasks' = {t}
  <2>1. Own!Launch(t)
    BY <1>2 DEF Own!Launch, OpenTasks, Open, WorkTasks, Work
  <2> QED  BY <2>1 DEF Own!Next
<1>3. CASE WorkTasks' = {}
  <2>1. Own!WorkEnds
    BY <1>3 DEF Own!WorkEnds, OpenTasks, Open, WorkTasks, Work
  <2> QED  BY <2>1 DEF Own!Next
<1> QED  BY <1>1, <1>2, <1>3

\* Native work begins under the open task: a check, a reviewer, or a counted implementer.
LEMMA OwnLaunch ==
  ASSUME NEW t \in Tasks, t \in OpenTasks, OpenTasks' = OpenTasks, WorkTasks = {}, WorkTasks' = {t},
         \/ launched' = launched
         \/ launched[t] < MaxAttempts /\ launched' = [launched EXCEPT ![t] = launched[t] + 1]
  PROVE  [Own!Next]_(Own!vars)
<1>1. CASE launched' = launched
  <2>1. Own!Launch(t)
    BY <1>1 DEF Own!Launch, OpenTasks, Open, WorkTasks, Work
  <2> QED  BY <2>1 DEF Own!Next
<1>2. CASE launched[t] < MaxAttempts /\ launched' = [launched EXCEPT ![t] = launched[t] + 1]
  <2>1. Own!Implement(t)
    BY <1>2 DEF Own!Implement, OpenTasks, Open, WorkTasks, Work
  <2> QED  BY <2>1 DEF Own!Next
<1> QED  BY <1>1, <1>2

\* A task is opened when none is, or closed when its work is over.
LEMMA OwnTurns ==
  ASSUME NEW t \in Tasks, WorkTasks = {}, WorkTasks' = {}, launched' = launched,
         {OpenTasks, OpenTasks'} = {{}, {t}}
  PROVE  [Own!Next]_(Own!vars)
<1>1. CASE OpenTasks = {} /\ OpenTasks' = {t}
  <2>1. Own!Open(t)
    BY <1>1 DEF Own!Open, OpenTasks, Open, WorkTasks, Work
  <2> QED  BY <2>1 DEF Own!Next
<1>2. CASE OpenTasks = {t} /\ OpenTasks' = {}
  <2>1. Own!Close(t)
    BY <1>2 DEF Own!Close, OpenTasks, Open, WorkTasks, Work
  <2> QED  BY <2>1 DEF Own!Next
<1> QED  BY <1>1, <1>2

LEMMA InitInv == Init => IInv /\ Own!Init
<1> SUFFICES ASSUME Init  PROVE IInv /\ Own!Init
  OBVIOUS
<1>1. NoRequest \in [task : Tasks, resume : BOOLEAN] /\ checkout \in [source : Sources, safety : Safety]
  BY CheckoutAssumption DEF Init, NoRequest
<1>2. Rows = {} /\ Work(groups) = {} /\ OpenTasks = {} /\ WorkTasks = {}
  BY DEF Init, Rows, Work, OpenTasks, WorkTasks
<1>3. TypeOK
  <2>1. pc \in [Procs -> Stages] /\ \A p \in Procs : pc[p] \in Outside
    BY DEF Init, Stages, Outside
  <2>2. request \in [Procs -> [task : Tasks, resume : BOOLEAN]] /\ mem \in Mem \cup {NoMem}
    BY <1>1 DEF Init
  <2>3. disk \in [Tasks -> Row \cup {NoRow}] /\ left \in BOOLEAN /\ budget \subseteq Tasks
    BY DEF Init
  <2>4. launched \in [Tasks -> 0..(MaxAttempts + 1)] /\ started \subseteq Procs /\ faults \in 0..MaxFaults
    BY LimitsAssumption DEF Init
  <2>5. groups \subseteq [task : Tasks, kind : Kinds]
    BY DEF Init
  <2> QED  BY <1>1, <2>1, <2>2, <2>3, <2>4, <2>5 DEF TypeOK
<1>4. InsideInv /\ RowInv /\ OwnershipInv /\ MarkerInv /\ VerdictIsProven
  BY <1>2 DEF Init, InsideInv, RowInv, OwnershipInv, MarkerInv, VerdictIsProven, Outside
<1>5. Own!Init
  BY <1>2 DEF Init, Own!Init, OpenTasks, Open, WorkTasks, Work
<1> QED  BY <1>3, <1>4, <1>5 DEF IInv

\* What the invariant says of the controller inside the lock.
LEMMA Known ==
  ASSUME IInv, NEW p \in Procs, pc[p] \notin Outside
  PROVE  /\ Sound(pc[p], mem, launched[T(p)]) /\ mem \in Mem /\ mem.row \in Row
         /\ Owned(pc[p], mem, T(p), groups)
         /\ pc[p] \in {"admitted", "begin"} => OpenTasks = {}
         /\ pc[p] \in Timed =>
              T(p) \in Rows /\ disk[T(p)] \in Row /\ disk[T(p)].status = "active" /\ OpenTasks = {T(p)}
         /\ Paid(pc[p], mem, launched[T(p)], disk[T(p)])
         /\ ~left => Marked(pc[p], mem, T(p), groups)
         /\ \A q \in Procs : pc[q] \notin Outside => q = p
         /\ T(p) \in Tasks /\ launched[T(p)] \in 0..(MaxAttempts + 1) /\ pc[p] \in Stages
<1>1. /\ Sound(pc[p], mem, launched[T(p)]) /\ Owned(pc[p], mem, T(p), groups)
      /\ pc[p] \in {"admitted", "begin"} => OpenTasks = {}
      /\ pc[p] \in Timed => T(p) \in Rows /\ disk[T(p)].status = "active"
      /\ Paid(pc[p], mem, launched[T(p)], disk[T(p)])
      /\ ~left => Marked(pc[p], mem, T(p), groups)
  BY DEF IInv, InsideInv
<1>2. mem \in Mem /\ mem.row \in Row
  BY <1>1 DEF Sound, Mem
<1>3. /\ T(p) \in Tasks /\ launched[T(p)] \in 0..(MaxAttempts + 1) /\ pc[p] \in Stages
      /\ \A q \in Procs : pc[q] \notin Outside => q = p
  BY DEF IInv, TypeOK, T
<1>4. ASSUME pc[p] \in Timed
      PROVE  disk[T(p)] \in Row /\ OpenTasks = {T(p)}
  <2>1. disk[T(p)] \in Row /\ T(p) \in OpenTasks
    BY <1>1, <1>4, <1>3 DEF IInv, TypeOK, Rows, OpenTasks, Open
  <2> QED  BY <2>1 DEF IInv, OwnershipInv
<1> QED  BY <1>1, <1>2, <1>3, <1>4

\* A step of the only controller inside the lock leaves the others where they are.
LEMMA OnlyStep ==
  ASSUME IInv, NEW p \in Procs, \A q \in Procs \ {p} : pc[q] \in Outside, NEW stage \in Stages \ Outside, Go(p, stage),
         UNCHANGED <<request, checkout, left, started>>,
         disk' \in [Tasks -> Row \cup {NoRow}], groups' \subseteq Natives, budget' \subseteq Tasks,
         launched' \in [Tasks -> 0..(MaxAttempts + 1)], faults' \in 0..MaxFaults,
         Sound(stage, mem', launched'[T(p)]), Owned(stage, mem', T(p), groups'),
         stage \in {"admitted", "begin"} => OpenTasks' = {},
         stage \in Timed => T(p) \in Rows' /\ disk'[T(p)].status = "active",
         Paid(stage, mem', launched'[T(p)], disk'[T(p)]),
         ~left => Marked(stage, mem', T(p), groups'),
         RowInv', OwnershipInv', VerdictIsProven'
  PROVE  IInv'
<1>1. /\ pc' \in [Procs -> Stages] /\ pc'[p] = stage
      /\ \A q \in Procs \ {p} : pc'[q] = pc[q] /\ pc[q] \in Outside
  BY DEF Go, IInv, TypeOK
<1>2. \A q \in Procs : T(q)' = T(q)
  BY DEF T
<1>3. TypeOK'
  <2>1. mem' \in Mem \cup {NoMem}
    BY DEF Sound
  <2>2. request' \in [Procs -> [task : Tasks, resume : BOOLEAN]] /\ started' \subseteq Procs
    BY DEF IInv, TypeOK
  <2>3. checkout' \in [source : Sources, safety : Safety] /\ left' \in BOOLEAN
    BY DEF IInv, TypeOK
  <2>4. \A q, r \in Procs : pc'[q] \notin Outside /\ pc'[r] \notin Outside => q = r
    BY <1>1
  <2> QED  BY <1>1, <2>1, <2>2, <2>3, <2>4 DEF TypeOK, Natives
<1>4. InsideInv'
  <2> SUFFICES ASSUME NEW q \in Procs, pc'[q] \notin Outside
               PROVE  /\ Sound(pc'[q], mem', launched'[T(q)])
                      /\ Owned(pc'[q], mem', T(q), groups')
                      /\ pc'[q] \in {"admitted", "begin"} => OpenTasks' = {}
                      /\ pc'[q] \in Timed => T(q) \in Rows' /\ disk'[T(q)].status = "active"
                      /\ Paid(pc'[q], mem', launched'[T(q)], disk'[T(q)])
                      /\ ~left => Marked(pc'[q], mem', T(q), groups')
    BY <1>2 DEF InsideInv, Sound, Owned, Paid, Marked, Expected, Work, T
  <2>1. q = p /\ pc'[q] = stage
    BY <1>1
  <2> QED  BY <2>1
<1>5. MarkerInv'
  BY <1>1 DEF MarkerInv
<1> QED  BY <1>3, <1>4, <1>5 DEF IInv
LEMMA InsideStep ==
  ASSUME IInv, NEW p \in Procs, pc[p] \notin Outside, NEW stage \in Stages \ Outside, Go(p, stage),
         UNCHANGED <<request, checkout, left, started>>,
         disk' \in [Tasks -> Row \cup {NoRow}], groups' \subseteq Natives, budget' \subseteq Tasks,
         launched' \in [Tasks -> 0..(MaxAttempts + 1)], faults' \in 0..MaxFaults,
         Sound(stage, mem', launched'[T(p)]), Owned(stage, mem', T(p), groups'),
         stage \in {"admitted", "begin"} => OpenTasks' = {},
         stage \in Timed => T(p) \in Rows' /\ disk'[T(p)].status = "active",
         Paid(stage, mem', launched'[T(p)], disk'[T(p)]),
         ~left => Marked(stage, mem', T(p), groups'),
         RowInv', OwnershipInv', VerdictIsProven'
  PROVE  IInv'
<1>1. \A q \in Procs \ {p} : pc[q] \in Outside
  BY Known
<1> QED
  <2> HIDE DEF IInv, RowInv, OwnershipInv, VerdictIsProven, Sound, Owned, Paid, Marked, Go
  <2> QED  BY <1>1, OnlyStep

-----------------------------------------------------------------------------
(* The stages between the first save and the last.                          *)

\* What such a step leaves alone, and what it may do to the rest.
Around(p) ==
  /\ UNCHANGED <<request, checkout, left, started, launched>>
  /\ faults' \in 0..MaxFaults /\ budget' \subseteq Tasks
  /\ groups' \subseteq groups \cup {g \in Natives : g.task = T(p)}

\* A row it may publish.
Good(p, row) ==
  /\ row \in Row /\ row.status = "active"
  /\ launched[T(p)] <= row.attempts /\ row.stalled < NoProgressLimit

Kept(p, row) == disk' = disk \/ (Good(p, row) /\ disk' = [disk EXCEPT ![T(p)] = row])

LEMMA TurnInv ==
  ASSUME IInv, NEW p \in Procs, pc[p] \in Timed, NEW stage \in Timed \cup {"close"}, Go(p, stage),
         Around(p), NEW row, Kept(p, row),
         Sound(stage, mem', launched[T(p)]), Owned(stage, mem', T(p), groups'),
         Paid(stage, mem', launched[T(p)], disk'[T(p)]),
         ~left => Marked(stage, mem', T(p), groups')
  PROVE  IInv' /\ [Own!Next]_(Own!vars)
<1>1. /\ pc[p] \notin Outside /\ stage \in Stages \ Outside /\ stage \notin {"admitted", "begin"}
      /\ T(p) \in Tasks /\ T(p)' = T(p)
  BY Known DEF Timed, Stages, Outside, Around, T
<1>2. /\ T(p) \in Rows /\ disk[T(p)] \in Row /\ disk[T(p)].status = "active" /\ OpenTasks = {T(p)}
      /\ disk \in [Tasks -> Row \cup {NoRow}]
  BY <1>1, Known DEF IInv, TypeOK
<1>3. /\ disk' \in [Tasks -> Row \cup {NoRow}]
      /\ disk'[T(p)] \in Row /\ disk'[T(p)].status = "active"
      /\ \A t \in Tasks \ {T(p)} : disk'[t] = disk[t]
  BY <1>1, <1>2 DEF Kept, Good
<1>4. Rows' = Rows /\ OpenTasks' = OpenTasks /\ T(p) \in Rows'
  BY <1>1, <1>2, <1>3, NoRowAssumption DEF Rows, OpenTasks, Open
<1>5. launched' = launched /\ groups \subseteq Natives /\ groups' \subseteq Natives
  BY DEF Around, IInv, TypeOK, Natives
<1>6. RowInv'
  <2> SUFFICES ASSUME NEW t \in Tasks
               PROVE  /\ t \notin Rows' => launched[t] = 0
                      /\ t \in Rows' => /\ launched[t] <= disk'[t].attempts
                                        /\ disk'[t].outcome \in Manuals => disk'[t].stalled < NoProgressLimit
    BY <1>5 DEF RowInv
  <2>1. CASE disk'[t] = disk[t]
    BY <2>1, <1>4 DEF IInv, RowInv
  <2>2. CASE t = T(p) /\ Good(p, row) /\ disk' = [disk EXCEPT ![T(p)] = row]
    BY <2>2, <1>2, <1>4 DEF Good
  <2> QED  BY <2>1, <2>2, <1>3 DEF Kept
<1>7. \A g \in Work(groups') : g.task = T(p)
  BY <1>2 DEF Around, Work, IInv, OwnershipInv
<1>8. OwnershipInv'
  BY <1>2, <1>4, <1>7 DEF OwnershipInv, Work
<1>9. VerdictIsProven'
  <2> SUFFICES ASSUME NEW t \in Rows', disk'[t].status # "active"
               PROVE  /\ disk'[t].outcome \in {"manual_passed", "approved"} =>
                           disk'[t].source \in disk'[t].evidence.passed
                      /\ disk'[t].status = "completed" => disk'[t].source \in disk'[t].evidence.approved
    BY DEF VerdictIsProven
  <2>1. t \in Tasks \ {T(p)} /\ t \in Rows
    BY <1>3, <1>4 DEF Rows
  <2>2. disk'[t] = disk[t]
    BY <2>1, <1>3
  <2> QED  BY <2>1, <2>2 DEF VerdictIsProven, IInv
<1>10. WorkTasks \in {{}, {T(p)}} /\ WorkTasks' \in {{}, {T(p)}}
  <2>1. \A g \in Work(groups) : g.task = T(p)
    BY <1>2 DEF IInv, OwnershipInv
  <2>2. WorkTasks \subseteq {T(p)} /\ WorkTasks' \subseteq {T(p)}
    BY <2>1, <1>7 DEF WorkTasks, Work
  <2> QED  BY <2>2
<1>11. [Own!Next]_(Own!vars)
  BY <1>1, <1>2, <1>4, <1>5, <1>10, OwnWork
<1>12. launched' \in [Tasks -> 0..(MaxAttempts + 1)] /\ launched'[T(p)] = launched[T(p)]
  BY <1>5 DEF IInv, TypeOK
<1>13. UNCHANGED <<request, checkout, left, started>> /\ budget' \subseteq Tasks /\ faults' \in 0..MaxFaults
  BY DEF Around
<1>14. IInv'
  <2> HIDE DEF IInv, RowInv, OwnershipInv, VerdictIsProven, Sound, Owned, Paid, Marked, Go
  <2> QED  BY <1>1, <1>3, <1>4, <1>5, <1>6, <1>8, <1>9, <1>12, <1>13, InsideStep
<1> QED  BY <1>11, <1>14
\* Before the end, the row in memory may be published, with the time it has now.
LEMMA Current ==
  ASSUME IInv, NEW p \in Procs, pc[p] \in Timed \ {"finish"}
  PROVE  /\ pc[p] \notin Outside /\ mem \in Mem /\ mem.clock \in 0..Timeout /\ ~mem.clean
         /\ Good(p, mem.row) /\ Good(p, [mem.row EXCEPT !.elapsed = mem.clock])
         /\ Sound(pc[p], mem, launched[T(p)])
         /\ Work(groups) \subseteq Expected(pc[p], T(p))
         /\ ~left => groups \subseteq Expected(pc[p], T(p))
         /\ groups \subseteq Natives /\ T(p) \in Tasks /\ disk \in [Tasks -> Row \cup {NoRow}]
<1>1. pc[p] \notin Outside /\ pc[p] \notin {"begin", "close", "finish"}
  BY DEF Timed, Outside
<1>2. /\ mem \in Mem /\ mem.row \in Row /\ Sound(pc[p], mem, launched[T(p)])
      /\ Owned(pc[p], mem, T(p), groups) /\ (~left => Marked(pc[p], mem, T(p), groups))
      /\ T(p) \in Tasks
  BY <1>1, Known
<1>3. mem.clock \in 0..Timeout /\ mem.clean \in BOOLEAN
  BY <1>2 DEF Mem
<1>4. ~mem.clean /\ Good(p, mem.row)
  BY <1>1, <1>2, <1>3 DEF Sound, Good
<1>5. Good(p, [mem.row EXCEPT !.elapsed = mem.clock])
  BY <1>3, <1>4 DEF Good, Row
<1>6. Work(groups) \subseteq Expected(pc[p], T(p)) /\ (~left => groups \subseteq Expected(pc[p], T(p)))
  BY <1>1, <1>2 DEF Owned, Marked
<1>7. groups \subseteq Natives /\ disk \in [Tasks -> Row \cup {NoRow}]
  BY DEF IInv, TypeOK, Natives
<1> QED  BY <1>1, <1>2, <1>3, <1>4, <1>5, <1>6, <1>7

\* A hand-off says that the row is in doubt where a model or a check may be running.
LEMMA HandOffInv ==
  ASSUME IInv, NEW p \in Procs, pc[p] \in Timed \ {"finish"}, NEW row, Good(p, row),
         HandOff(p, row), Around(p), NEW kept, Kept(p, kept),
         Work(groups') # {} => row.uncertain
  PROVE  IInv' /\ [Own!Next]_(Own!vars)
<1>1. mem \in Mem /\ ~mem.clean
  BY Current
<1>2. Go(p, "finish") /\ mem' = [mem EXCEPT !.row = row, !.outcome = "handoff"]
  BY DEF HandOff, Finish
<1>3. /\ mem' \in Mem /\ mem'.row = row /\ mem'.outcome = "handoff" /\ ~mem'.clean
  BY <1>1, <1>2 DEF Good, Mem, Outcomes
<1>4. Sound("finish", mem', launched[T(p)])
  BY <1>3 DEF Sound, Good, Timed, Stages, Outside, Reviews, Manuals
<1>5. Owned("finish", mem', T(p), groups') /\ Marked("finish", mem', T(p), groups')
  BY <1>3 DEF Owned, Marked
<1>6. "finish" \in Timed
  BY DEF Timed, Stages, Outside
<1> QED
  <2> HIDE DEF IInv, Sound, Owned, Marked, Go, Around, Kept, Good
  <2> QED  BY <1>2, <1>4, <1>5, <1>6, TurnInv DEF Paid

\* Leaving without another save: the open checkpoint stays.
LEMMA LeaveInv ==
  ASSUME IInv, NEW p \in Procs, pc[p] \in Timed \ {"finish"}, NEW row, Good(p, row),
         Turn(p, "close", row), Around(p), NEW kept, Kept(p, kept)
  PROVE  IInv' /\ [Own!Next]_(Own!vars)
<1>1. mem \in Mem /\ ~mem.clean
  BY Current
<1>2. Go(p, "close") /\ mem' = [mem EXCEPT !.row = row]
  BY DEF Turn
<1>3. mem' \in Mem /\ ~mem'.clean
  BY <1>1, <1>2 DEF Good, Mem
<1>4. Sound("close", mem', launched[T(p)])
  BY <1>3 DEF Sound, Timed, Stages, Outside, Reviews
<1>5. Owned("close", mem', T(p), groups') /\ Marked("close", mem', T(p), groups')
  BY <1>3 DEF Owned, Marked
<1> QED
  <2> HIDE DEF IInv, Sound, Owned, Marked, Go, Around, Kept, Good
  <2> QED  BY <1>2, <1>4, <1>5, TurnInv DEF Paid

LEMMA PoisonedInv ==
  ASSUME IInv, NEW p \in Procs, pc[p] \in Timed \ {"finish"}, NEW row, Good(p, row),
         Poisoned(p, row), Around(p)
  PROVE  IInv' /\ [Own!Next]_(Own!vars)
<1>1. Kept(p, row) /\ Turn(p, "close", row)
  BY DEF Poisoned, Kept
<1> QED
  <2> HIDE DEF IInv, Turn, Around, Kept, Good
  <2> QED  BY <1>1, LeaveInv

\* A save that publishes the row, is refused, or fails.
LEMMA SaveInv ==
  ASSUME IInv, NEW p \in Procs, pc[p] \in {"attempt", "invoke", "starting", "evidence", "accept"},
         NEW stage \in {"invoke", "launch", "spawn", "recheck", "decide"},
         Save(p, mem.row, Turn(p, stage, mem.row), HandOff(p, mem.row) \/ Turn(p, "close", mem.row)),
         UNCHANGED <<request, checkout, groups, budget, left, launched, started>>,
         Sound(stage, mem, launched[T(p)])
  PROVE  IInv' /\ [Own!Next]_(Own!vars)
<1> DEFINE timed == [mem.row EXCEPT !.elapsed = mem.clock]
<1>1. pc[p] \in Timed \ {"finish"} /\ stage \in Timed
  BY DEF Timed, Stages, Outside
<1>2. /\ mem \in Mem /\ Good(p, mem.row) /\ Good(p, timed)
      /\ Work(groups) = {} /\ (~left => groups = {}) /\ groups \subseteq Natives
  BY <1>1, Current DEF Expected
<1>3. faults' \in 0..MaxFaults
  BY LimitsAssumption DEF Save, Fault, IInv, TypeOK
<1>4. budget' \subseteq Tasks
  BY DEF IInv, TypeOK
<1>5. Around(p)
  BY <1>3, <1>4 DEF Around
<1>6. Work(groups') = {}
  BY <1>2
<1>7. CASE disk' = [disk EXCEPT ![T(p)] = timed] /\ Turn(p, stage, mem.row)
  <2>1. Kept(p, timed)
    BY <1>2, <1>7 DEF Kept
  <2>2. Go(p, stage) /\ mem' = mem
    BY <1>2, <1>7 DEF Turn, Mem
  <2>3. Owned(stage, mem', T(p), groups') /\ (~left => Marked(stage, mem', T(p), groups'))
    BY <1>2 DEF Owned, Marked, Expected
  <2>4. Sound(stage, mem', launched[T(p)])
    BY <2>2
  <2>5. Paid(stage, mem', launched[T(p)], disk'[T(p)])
    <3>1. disk'[T(p)] = timed /\ timed.attempts = mem.row.attempts
      BY <1>1, <1>2, <1>7, Current DEF Good, Row
    <3> QED  BY <2>4, <2>2, <3>1 DEF Paid, Sound
  <2> HIDE DEF IInv, Sound, Owned, Paid, Marked, Go, Around, Kept, Good, timed
  <2> QED  BY <1>1, <1>5, <2>1, <2>2, <2>3, <2>4, <2>5, TurnInv
<1>8. CASE disk' = disk /\ HandOff(p, mem.row)
  <2>1. Kept(p, timed)
    BY <1>8 DEF Kept
  <2> HIDE DEF IInv, HandOff, Around, Kept, Good, timed
  <2> QED  BY <1>1, <1>2, <1>5, <1>6, <1>8, <2>1, HandOffInv
<1>9. CASE disk' = disk /\ Turn(p, "close", mem.row)
  <2>1. Kept(p, timed)
    BY <1>9 DEF Kept
  <2> HIDE DEF IInv, Turn, Around, Kept, Good, timed
  <2> QED  BY <1>1, <1>2, <1>5, <1>9, <2>1, LeaveInv
<1>10. CASE Poisoned(p, timed)
  <2> HIDE DEF IInv, Poisoned, Around, Good, timed
  <2> QED  BY <1>1, <1>2, <1>5, <1>10, PoisonedInv
<1> QED  BY <1>7, <1>8, <1>9, <1>10 DEF Save

\* A look at the checkout that is refused, or fails.
LEMMA StaleInv ==
  ASSUME IInv, NEW p \in Procs, pc[p] \in {"loop", "implemented", "check", "recheck", "reviewed"},
         HandOff(p, mem.row), groups' \in {groups, groups \cup {Group(T(p), "probe")}},
         faults' = faults \/ Fault, UNCHANGED <<request, disk, checkout, budget, left, launched, started>>
  PROVE  IInv' /\ [Own!Next]_(Own!vars)
<1>1. pc[p] \in Timed \ {"finish"}
  BY DEF Timed, Stages, Outside
<1>2. Good(p, mem.row) /\ Work(groups) = {} /\ T(p) \in Tasks /\ Kept(p, mem.row)
  BY <1>1, Current DEF Expected, Kept
<1>3. faults' \in 0..MaxFaults /\ budget' \subseteq Tasks
  BY LimitsAssumption DEF Fault, IInv, TypeOK
<1>4. Around(p)
  BY <1>2, <1>3 DEF Around, Natives, Group, Kinds
<1>5. Work(groups') = {}
  BY <1>2 DEF Work, Group
<1> QED
  <2> HIDE DEF IInv, HandOff, Around, Kept, Good
  <2> QED  BY <1>1, <1>2, <1>4, <1>5, HandOffInv
LEMMA SaveAttemptInv ==
  ASSUME IInv, NEW p \in Procs, SaveAttempt(p)  PROVE IInv' /\ [Own!Next]_(Own!vars)
<1>1. pc[p] = "attempt" /\ pc[p] \in Timed \ {"finish"}
  BY DEF SaveAttempt, Timed, Stages, Outside
<1>2. Sound("invoke", mem, launched[T(p)])
  BY <1>1, Current DEF Sound, Timed, Stages, Outside, Reviews
<1>3. Save(p, mem.row, Turn(p, "invoke", mem.row), HandOff(p, mem.row) \/ Turn(p, "close", mem.row))
  BY DEF SaveAttempt, Save
<1>4. UNCHANGED <<request, checkout, groups, budget, left, launched, started>>
  BY DEF SaveAttempt
<1> QED
  <2> HIDE DEF IInv, Sound, Save, Turn, HandOff
  <2> QED  BY <1>1, <1>2, <1>3, <1>4, SaveInv

LEMMA SaveRoleInv ==
  ASSUME IInv, NEW p \in Procs, SaveRole(p)  PROVE IInv' /\ [Own!Next]_(Own!vars)
<1>1. pc[p] = "invoke" /\ pc[p] \in Timed \ {"finish"}
  BY DEF SaveRole, Timed, Stages, Outside
<1>2. Sound("launch", mem, launched[T(p)])
  BY <1>1, Current DEF Sound, Timed, Stages, Outside, Reviews
<1>3. Save(p, mem.row, Turn(p, "launch", mem.row), HandOff(p, mem.row) \/ Turn(p, "close", mem.row))
  BY DEF SaveRole, Save
<1>4. UNCHANGED <<request, checkout, groups, budget, left, launched, started>>
  BY DEF SaveRole
<1> QED
  <2> HIDE DEF IInv, Sound, Save, Turn, HandOff
  <2> QED  BY <1>1, <1>2, <1>3, <1>4, SaveInv

LEMMA SaveCheckInv ==
  ASSUME IInv, NEW p \in Procs, SaveCheck(p)  PROVE IInv' /\ [Own!Next]_(Own!vars)
<1>1. pc[p] = "starting" /\ pc[p] \in Timed \ {"finish"}
  BY DEF SaveCheck, Timed, Stages, Outside
<1>2. Sound("spawn", mem, launched[T(p)])
  BY <1>1, Current DEF Sound, Timed, Stages, Outside, Reviews
<1>3. Save(p, mem.row, Turn(p, "spawn", mem.row), HandOff(p, mem.row) \/ Turn(p, "close", mem.row))
  BY DEF SaveCheck, Save
<1>4. UNCHANGED <<request, checkout, groups, budget, left, launched, started>>
  BY DEF SaveCheck
<1> QED
  <2> HIDE DEF IInv, Sound, Save, Turn, HandOff
  <2> QED  BY <1>1, <1>2, <1>3, <1>4, SaveInv

LEMMA SaveReviewInv ==
  ASSUME IInv, NEW p \in Procs, SaveReview(p)  PROVE IInv' /\ [Own!Next]_(Own!vars)
<1>1. pc[p] = "accept" /\ pc[p] \in Timed \ {"finish"}
  BY DEF SaveReview, Timed, Stages, Outside
<1>2. Sound("decide", mem, launched[T(p)])
  BY <1>1, Current DEF Sound, Timed, Stages, Outside, Reviews
<1>3. Save(p, mem.row, Turn(p, "decide", mem.row), HandOff(p, mem.row) \/ Turn(p, "close", mem.row))
  BY DEF SaveReview, Save
<1>4. UNCHANGED <<request, checkout, groups, budget, left, launched, started>>
  BY DEF SaveReview
<1> QED
  <2> HIDE DEF IInv, Sound, Save, Turn, HandOff
  <2> QED  BY <1>1, <1>2, <1>3, <1>4, SaveInv

LEMMA SaveEvidenceInv ==
  ASSUME IInv, NEW p \in Procs, SaveEvidence(p)  PROVE IInv' /\ [Own!Next]_(Own!vars)
<1>1. pc[p] = "evidence" /\ pc[p] \in Timed \ {"finish"}
  BY DEF SaveEvidence, Timed, Stages, Outside
<1>2. Sound("recheck", mem, launched[T(p)])
  BY <1>1, Current DEF Sound, Timed, Stages, Outside, Reviews
<1>3. Save(p, mem.row, Turn(p, "recheck", mem.row), HandOff(p, mem.row) \/ Turn(p, "close", mem.row))
  BY DEF SaveEvidence, Save
<1>4. UNCHANGED <<request, checkout, groups, budget, left, launched, started>>
  BY DEF SaveEvidence
<1> QED
  <2> HIDE DEF IInv, Sound, Save, Turn, HandOff
  <2> QED  BY <1>1, <1>2, <1>3, <1>4, SaveInv

\* From a stage without a group to another one, with nothing published.
LEMMA QuietInv ==
  ASSUME IInv, NEW p \in Procs, pc[p] \in Timed \ {"finish", "running", "spawned", "checking"},
         NEW stage \in Timed, Go(p, stage),
         UNCHANGED <<request, disk, checkout, groups, budget, left, launched, started, faults>>,
         Sound(stage, mem', launched[T(p)]), Paid(stage, mem', launched[T(p)], disk[T(p)])
  PROVE  IInv' /\ [Own!Next]_(Own!vars)
<1>1. pc[p] \in Timed \ {"finish"}
  OBVIOUS
<1>2. Work(groups) = {} /\ (~left => groups = {})
  BY <1>1, Current DEF Expected
<1>3. Around(p) /\ Kept(p, mem.row)
  BY DEF Around, Kept, IInv, TypeOK
<1>4. Owned(stage, mem', T(p), groups') /\ (~left => Marked(stage, mem', T(p), groups'))
  BY <1>2 DEF Owned, Marked
<1> QED
  <2>1. Paid(stage, mem', launched[T(p)], disk'[T(p)])
    OBVIOUS
  <2> HIDE DEF IInv, Sound, Owned, Paid, Marked, Go, Around, Kept
  <2> QED  BY <1>1, <1>3, <1>4, <2>1, TurnInv
\* A look at the checkout that is not refused is a quiet step.
LEMMA IterateInv ==
  ASSUME IInv, NEW p \in Procs, Iterate(p)  PROVE IInv' /\ [Own!Next]_(Own!vars)
<1>1. /\ pc[p] = "loop" /\ pc[p] \in Timed \ {"finish", "running", "spawned", "checking"}
      /\ {"attempt", "finish"} \subseteq Timed
      /\ UNCHANGED <<request, disk, checkout, budget, left, launched, started>>
  BY DEF Iterate, Timed, Stages, Outside
<1>2. /\ mem \in Mem /\ Good(p, mem.row) /\ ~mem.clean /\ Sound("loop", mem, launched[T(p)])
      /\ checkout \in [source : Sources, safety : Safety] /\ launched[T(p)] \in Nat
  BY <1>1, Current DEF IInv, TypeOK
<1>3. CASE Finish(p, "attempt_limit", mem.row) /\ UNCHANGED <<groups, faults>>
  <2>1. Sound("finish", mem', launched[T(p)])
    BY <1>2, <1>3 DEF Finish, Sound, Good, Mem, Outcomes, Timed, Stages, Outside, Reviews, Manuals
  <2>2. Go(p, "finish") /\ UNCHANGED <<groups, faults>>
    BY <1>3 DEF Finish
  <2> HIDE DEF IInv, Sound, Go
  <2> QED  BY <1>1, <2>1, <2>2, QuietInv DEF Paid
<1>4. CASE /\ mem.row.attempts < MaxAttempts /\ Go(p, "attempt") /\ UNCHANGED <<groups, faults>>
           /\ mem' = [mem EXCEPT !.row = Counted(Seen(mem.row)),
                                 !.before = checkout.source, !.role = "implementer"]
  <2> DEFINE row == Counted(Seen(mem.row))
  <2>1. row \in Row /\ row.status = "active" /\ row.stalled < NoProgressLimit
        /\ row.attempts = mem.row.attempts + 1
    <3>1. mem.row.attempts + 1 \in 0..MaxAttempts /\ Seen(mem.row) \in Row
      BY <1>2, <1>4, LimitsAssumption DEF Good, Row, Seen
    <3>2. row = [Seen(mem.row) EXCEPT !.attempts = mem.row.attempts + 1]
      BY <1>2 DEF Good, Row, Counted, Seen
    <3> QED  BY <1>2, <3>1, <3>2 DEF Good, Row, Seen
  <2>2. /\ mem' \in Mem /\ mem'.row = row /\ mem'.role = "implementer" /\ ~mem'.clean
    BY <1>2, <1>4, <2>1 DEF Mem
  <2>3. launched[T(p)] < row.attempts /\ row.attempts # 0
    BY <1>2, <2>1 DEF Good, Row
  <2> HIDE DEF row
  <2>4. Sound("attempt", mem', launched[T(p)])
    BY <2>1, <2>2, <2>3, <1>2 DEF Sound, Row, Timed, Stages, Outside, Reviews
  <2> HIDE DEF IInv, Sound, Go
  <2> QED  BY <1>1, <1>4, <2>4, QuietInv DEF Paid
<1>5. CASE /\ HandOff(p, mem.row) /\ groups' \in {groups, groups \cup {Group(T(p), "probe")}}
           /\ faults' = faults \/ Fault
  <2> HIDE DEF IInv, HandOff, Group, Fault
  <2> QED  BY <1>1, <1>5, StaleInv
<1> QED
  <2>1. mem.row.attempts \in Nat /\ MaxAttempts \in Nat
    BY <1>2, LimitsAssumption DEF Good, Row
  <2> QED  BY <1>3, <1>4, <1>5, <2>1 DEF Iterate, Fresh

LEMMA ImplementedInv ==
  ASSUME IInv, NEW p \in Procs, Implemented(p)  PROVE IInv' /\ [Own!Next]_(Own!vars)
<1> DEFINE row == [Seen(mem.row) EXCEPT !.stalled = Stalled(mem.row)]
<1>1. /\ pc[p] = "implemented" /\ pc[p] \in Timed \ {"finish", "running", "spawned", "checking"}
      /\ {"check", "finish"} \subseteq Timed
      /\ UNCHANGED <<request, disk, checkout, budget, left, launched, started>>
  BY DEF Implemented, Timed, Stages, Outside
<1>2. /\ mem \in Mem /\ Good(p, mem.row) /\ ~mem.clean /\ mem.row.attempts # 0
      /\ checkout \in [source : Sources, safety : Safety] /\ launched[T(p)] \in Nat
  BY <1>1, Current DEF IInv, TypeOK, Sound
<1>3. /\ row \in Row /\ row.status = "active" /\ row.attempts = mem.row.attempts
      /\ row.attempts > 1 \/ row.stalled < NoProgressLimit
  <2>1. Stalled(mem.row) \in 0..NoProgressLimit
    BY <1>2, LimitsAssumption DEF Stalled, Good, Row
  <2>2. mem.row.attempts > 1 \/ Stalled(mem.row) < NoProgressLimit
    BY <1>2, LimitsAssumption DEF Stalled, Good, Row
  <2> QED  BY <1>2, <2>1, <2>2 DEF Good, Row, Seen
<1>4. launched[T(p)] <= row.attempts /\ row.stalled \in Nat /\ NoProgressLimit \in Nat
  BY <1>2, <1>3, LimitsAssumption DEF Good, Row
<1> HIDE DEF row
<1>5. CASE Finish(p, "no_progress", row) /\ UNCHANGED <<groups, faults>>
  <2>1. mem' \in Mem /\ mem'.row = row /\ mem'.outcome = "no_progress" /\ ~mem'.clean
    BY <1>2, <1>3, <1>5 DEF Finish, Mem, Outcomes
  <2>2. Sound("finish", mem', launched[T(p)])
    BY <2>1, <1>3, <1>4 DEF Sound, Timed, Stages, Outside, Reviews, Manuals
  <2>3. Go(p, "finish") /\ UNCHANGED <<groups, faults>>
    BY <1>5 DEF Finish
  <2> HIDE DEF IInv, Sound, Go
  <2> QED  BY <1>1, <2>2, <2>3, QuietInv DEF Paid
<1>6. CASE /\ ~(row.attempts > 1 /\ row.stalled >= NoProgressLimit)
           /\ Turn(p, "check", row) /\ UNCHANGED <<groups, faults>>
  <2>1. mem' \in Mem /\ mem'.row = row /\ ~mem'.clean
    BY <1>2, <1>3, <1>6 DEF Turn, Mem
  <2>2. row.stalled < NoProgressLimit
    BY <1>3, <1>4, <1>6
  <2>3. Sound("check", mem', launched[T(p)])
    BY <2>1, <2>2, <1>3, <1>4 DEF Sound, Timed, Stages, Outside, Reviews
  <2>4. Go(p, "check") /\ UNCHANGED <<groups, faults>>
    BY <1>6 DEF Turn
  <2> HIDE DEF IInv, Sound, Go
  <2> QED  BY <1>1, <2>3, <2>4, QuietInv DEF Paid
<1>7. CASE /\ HandOff(p, mem.row) /\ groups' \in {groups, groups \cup {Group(T(p), "probe")}}
           /\ faults' = faults \/ Fault
  <2> HIDE DEF IInv, HandOff, Group, Fault
  <2> QED  BY <1>1, <1>7, StaleInv
<1> QED  BY <1>5, <1>6, <1>7 DEF Implemented, Fresh, row
LEMMA Doubtful ==
  ASSUME NEW p \in Procs, NEW row, Good(p, row), checkout \in [source : Sources, safety : Safety],
         NEW process \in BOOLEAN, NEW reserved \in BOOLEAN
  PROVE  /\ Good(p, Doubt(row)) /\ Doubt(row).uncertain
         /\ Good(p, Unconfirmed(row)) /\ Unconfirmed(row).uncertain
         /\ Good(p, Reconciled(row, process, reserved))
         /\ Reconciled(row, process, reserved).uncertain = (process \/ reserved)
         /\ Good(p, Seen(row)) /\ Seen(row).source = checkout.source
         /\ Seen(row).evidence = row.evidence
<1>1. Good(p, Doubt(row)) /\ Doubt(row).uncertain
  BY DEF Good, Row, Doubt
<1>2. Good(p, Unconfirmed(row)) /\ Unconfirmed(row).uncertain
  BY DEF Good, Row, Unconfirmed
<1>3. Good(p, Seen(row)) /\ Seen(row).source = checkout.source /\ Seen(row).evidence = row.evidence
  BY DEF Good, Row, Seen
<1>4. /\ Good(p, Reconciled(row, process, reserved))
      /\ Reconciled(row, process, reserved).uncertain = (process \/ reserved)
  <2>1. \A doubt \in BOOLEAN : /\ Good(p, [row EXCEPT !.uncertain = doubt, !.pid = process])
                               /\ [row EXCEPT !.uncertain = doubt, !.pid = process].uncertain = doubt
    BY DEF Good, Row
  <2>2. (process \/ reserved) \in BOOLEAN
    OBVIOUS
  <2> HIDE DEF Good
  <2> QED  BY <2>1, <2>2 DEF Reconciled
<1> QED  BY <1>1, <1>2, <1>3, <1>4

LEMMA CheckInv ==
  ASSUME IInv, NEW p \in Procs, Check(p)  PROVE IInv' /\ [Own!Next]_(Own!vars)
<1>1. /\ pc[p] = "check" /\ pc[p] \in Timed \ {"finish", "running", "spawned", "checking"}
      /\ "starting" \in Timed
      /\ UNCHANGED <<request, disk, checkout, budget, left, launched, started>>
  BY DEF Check, Timed, Stages, Outside
<1>2. /\ mem \in Mem /\ Good(p, mem.row) /\ ~mem.clean /\ Work(groups) = {}
      /\ checkout \in [source : Sources, safety : Safety]
  BY <1>1, Current DEF IInv, TypeOK, Expected
<1>3. Good(p, Doubt(mem.row)) /\ Good(p, Seen(mem.row))
  BY <1>2, Doubtful
<1>4. CASE HandOff(p, Doubt(mem.row)) /\ UNCHANGED <<groups, faults>>
  <2>1. Around(p) /\ Kept(p, mem.row)
    BY <1>1, <1>4 DEF Around, Kept, IInv, TypeOK
  <2>2. Work(groups') = {}
    BY <1>2, <1>4
  <2> HIDE DEF IInv, Around, Kept, Good, HandOff, Doubt
  <2> QED  BY <1>1, <1>3, <1>4, <2>1, <2>2, HandOffInv
<1>5. CASE /\ Go(p, "starting") /\ UNCHANGED <<groups, faults>>
           /\ mem' = [mem EXCEPT !.row = Seen(mem.row), !.before = checkout.source]
  <2>1. mem' \in Mem /\ mem'.row = Seen(mem.row) /\ ~mem'.clean
    BY <1>2, <1>3, <1>5 DEF Mem, Good
  <2>2. Sound("starting", mem', launched[T(p)])
    BY <2>1, <1>3 DEF Sound, Good, Timed, Stages, Outside, Reviews
  <2> HIDE DEF IInv, Sound, Go
  <2> QED  BY <1>1, <1>5, <2>2, QuietInv DEF Paid
<1>6. CASE /\ HandOff(p, mem.row) /\ groups' \in {groups, groups \cup {Group(T(p), "probe")}}
           /\ faults' = faults \/ Fault
  <2> HIDE DEF IInv, HandOff, Group, Fault
  <2> QED  BY <1>1, <1>6, StaleInv
<1> QED  BY <1>4, <1>5, <1>6 DEF Check, Fresh

LEMMA RecheckInv ==
  ASSUME IInv, NEW p \in Procs, Recheck(p)  PROVE IInv' /\ [Own!Next]_(Own!vars)
<1>1. /\ pc[p] = "recheck" /\ pc[p] \in Timed \ {"finish", "running", "spawned", "checking"}
      /\ "judge" \in Timed
      /\ UNCHANGED <<request, disk, checkout, budget, left, launched, started>>
  BY DEF Recheck, Timed, Stages, Outside
<1>2. /\ mem \in Mem /\ Good(p, mem.row) /\ ~mem.clean /\ Work(groups) = {}
      /\ mem.code = 0 => mem.before \in mem.row.evidence.passed
      /\ checkout \in [source : Sources, safety : Safety]
  BY <1>1, Current DEF IInv, TypeOK, Expected, Sound
<1>3. /\ Good(p, Seen(mem.row)) /\ Seen(mem.row).source = checkout.source
      /\ Seen(mem.row).evidence = mem.row.evidence
  BY <1>2, Doubtful
<1>4. CASE HandOff(p, Seen(mem.row)) /\ UNCHANGED <<groups, faults>>
  <2>1. Around(p) /\ Kept(p, mem.row)
    BY <1>1, <1>4 DEF Around, Kept, IInv, TypeOK
  <2>2. Work(groups') = {}
    BY <1>2, <1>4
  <2> HIDE DEF IInv, Around, Kept, Good, HandOff, Seen
  <2> QED  BY <1>1, <1>3, <1>4, <2>1, <2>2, HandOffInv
<1>5. CASE /\ checkout.source = mem.before /\ mem.code # -1
           /\ Turn(p, "judge", Seen(mem.row)) /\ UNCHANGED <<groups, faults>>
  <2>1. /\ Go(p, "judge") /\ mem' \in Mem /\ mem'.row = Seen(mem.row) /\ ~mem'.clean
        /\ mem'.before = mem.before /\ mem'.code = mem.code
    BY <1>2, <1>3, <1>5 DEF Mem, Good, Turn
  <2>2. Sound("judge", mem', launched[T(p)])
    BY <2>1, <1>2, <1>3, <1>5 DEF Sound, Good, Timed, Stages, Outside, Reviews
  <2> HIDE DEF IInv, Sound, Go
  <2> QED  BY <1>1, <1>5, <2>1, <2>2, QuietInv DEF Paid
<1>6. CASE /\ HandOff(p, mem.row) /\ groups' \in {groups, groups \cup {Group(T(p), "probe")}}
           /\ faults' = faults \/ Fault
  <2> HIDE DEF IInv, HandOff, Group, Fault
  <2> QED  BY <1>1, <1>6, StaleInv
<1> QED  BY <1>4, <1>5, <1>6 DEF Recheck, Fresh

LEMMA ReviewedInv ==
  ASSUME IInv, NEW p \in Procs, Reviewed(p)  PROVE IInv' /\ [Own!Next]_(Own!vars)
<1>1. /\ pc[p] = "reviewed" /\ pc[p] \in Timed \ {"finish", "running", "spawned", "checking"}
      /\ "accept" \in Timed
      /\ UNCHANGED <<request, disk, checkout, budget, left, launched, started>>
  BY DEF Reviewed, Timed, Stages, Outside
<1>2. /\ mem \in Mem /\ Good(p, mem.row) /\ ~mem.clean /\ Work(groups) = {}
      /\ mem.role = "reviewer" /\ mem.row.source = mem.before /\ mem.before \in mem.row.evidence.passed
      /\ mem.before \in Sources
      /\ checkout \in [source : Sources, safety : Safety]
  BY <1>1, Current DEF IInv, TypeOK, Expected, Sound, Reviews, Mem
<1>3. /\ Good(p, Seen(mem.row)) /\ Seen(mem.row).source = checkout.source
      /\ Seen(mem.row).evidence = mem.row.evidence
  BY <1>2, Doubtful
<1>4. CASE HandOff(p, Seen(mem.row)) /\ UNCHANGED <<groups, faults>>
  <2>1. Around(p) /\ Kept(p, mem.row)
    BY <1>1, <1>4 DEF Around, Kept, IInv, TypeOK
  <2>2. Work(groups') = {}
    BY <1>2, <1>4
  <2> HIDE DEF IInv, Around, Kept, Good, HandOff, Seen
  <2> QED  BY <1>1, <1>3, <1>4, <2>1, <2>2, HandOffInv
<1>5. ASSUME checkout.source = mem.before, UNCHANGED <<groups, faults>>, Go(p, "accept"),
             NEW verdict \in {"approve", "repair"},
             mem' = [mem EXCEPT !.answer = verdict,
                       !.row = [Seen(mem.row) EXCEPT !.evidence.approved =
                                  IF verdict = "approve" THEN @ \cup {mem.before} ELSE @]]
      PROVE  IInv' /\ [Own!Next]_(Own!vars)
  <2> DEFINE approved == IF verdict = "approve" THEN mem.row.evidence.approved \cup {mem.before}
                         ELSE mem.row.evidence.approved
             row == [Seen(mem.row) EXCEPT !.evidence = [@ EXCEPT !.approved = approved]]
  <2>1. /\ approved \in SUBSET Sources /\ (verdict = "approve" => mem.before \in approved)
        /\ Seen(mem.row).evidence \in Evidence
    BY <1>2, <1>3 DEF Good, Row, Evidence
  <2>2. row = [Seen(mem.row) EXCEPT !.evidence.approved =
                 IF verdict = "approve" THEN @ \cup {mem.before} ELSE @]
    BY <1>3
  <2> HIDE DEF approved
  <2>3. Good(p, row) /\ row.source = checkout.source /\ row.evidence.approved = approved
        /\ row.evidence.passed = mem.row.evidence.passed
    BY <1>3, <2>1 DEF Good, Row, Evidence
  <2>4. /\ mem' \in Mem /\ mem'.row = row /\ mem'.answer = verdict /\ ~mem'.clean
        /\ mem'.before = mem.before /\ mem'.role = mem.role
    BY <1>2, <1>5, <2>2, <2>3 DEF Mem, Good
  <2> HIDE DEF row
  <2>5. Sound("accept", mem', launched[T(p)])
    BY <2>1, <2>3, <2>4, <1>2, <1>5 DEF Sound, Good, Timed, Stages, Outside, Reviews
  <2> HIDE DEF IInv, Sound, Go
  <2> QED  BY <1>1, <1>5, <2>5, QuietInv DEF Paid
<1>6. CASE /\ HandOff(p, mem.row) /\ groups' \in {groups, groups \cup {Group(T(p), "probe")}}
           /\ faults' = faults \/ Fault
  <2> HIDE DEF IInv, HandOff, Group, Fault
  <2> QED  BY <1>1, <1>6, StaleInv
<1> QED  BY <1>4, <1>5, <1>6 DEF Reviewed, Fresh
LEMMA JudgeInv ==
  ASSUME IInv, NEW p \in Procs, Judge(p)  PROVE IInv' /\ [Own!Next]_(Own!vars)
<1> DEFINE failure == <<mem.before, mem.code>>
<1>1. /\ pc[p] = "judge" /\ pc[p] \in Timed \ {"finish", "running", "spawned", "checking"}
      /\ {"invoke", "finish", "loop"} \subseteq Timed
      /\ UNCHANGED <<request, disk, checkout, groups, budget, left, launched, started, faults>>
  BY DEF Judge, Timed, Stages, Outside
<1>2. /\ mem \in Mem /\ Good(p, mem.row) /\ ~mem.clean
      /\ mem.code \in Codes /\ mem.before \in Sources /\ mem.seen \subseteq Sources \X Codes
      /\ mem.row.source = mem.before /\ (mem.code = 0 => mem.before \in mem.row.evidence.passed)
  BY <1>1, Current DEF Sound, Mem
<1>3. \A outcome \in {"manual_passed", "manual_failed", "repeated_failure"} :
        Finish(p, outcome, mem.row) /\ (outcome = "manual_passed" => mem.code = 0)
        => IInv' /\ [Own!Next]_(Own!vars)
  <2> TAKE outcome \in {"manual_passed", "manual_failed", "repeated_failure"}
  <2> HAVE Finish(p, outcome, mem.row) /\ (outcome = "manual_passed" => mem.code = 0)
  <2>1. mem' \in Mem /\ mem'.row = mem.row /\ mem'.outcome = outcome /\ ~mem'.clean
    BY <1>2 DEF Finish, Mem, Outcomes
  <2>2. Sound("finish", mem', launched[T(p)])
    BY <2>1, <1>2 DEF Sound, Good, Timed, Stages, Outside, Reviews, Manuals
  <2>3. Go(p, "finish")
    BY DEF Finish
  <2> HIDE DEF IInv, Sound, Go
  <2> QED  BY <1>1, <2>2, <2>3, QuietInv DEF Paid
<1>4. CASE Turn(p, "close", mem.row)
  <2>1. Around(p) /\ Kept(p, mem.row)
    BY <1>1 DEF Around, Kept, IInv, TypeOK
  <2> HIDE DEF IInv, Turn, Around, Kept, Good
  <2> QED  BY <1>1, <1>2, <1>4, <2>1, LeaveInv
<1>5. CASE Finish(p, IF mem.code = 0 THEN "manual_passed" ELSE "manual_failed", mem.row)
  <2> HIDE DEF IInv, Finish
  <2>1. CASE mem.code = 0
    BY <1>3, <1>5, <2>1
  <2>2. CASE mem.code # 0
    BY <1>3, <1>5, <2>2
  <2> QED  BY <2>1, <2>2
<1>6. CASE mem.code = 0 /\ Go(p, "invoke") /\ mem' = [mem EXCEPT !.role = "reviewer"]
  <2>1. /\ mem' \in Mem /\ mem'.row = mem.row /\ mem'.role = "reviewer" /\ ~mem'.clean
        /\ mem'.before = mem.before
    BY <1>2, <1>6 DEF Mem
  <2>2. Sound("invoke", mem', launched[T(p)])
    BY <2>1, <1>2, <1>6 DEF Sound, Good, Timed, Stages, Outside, Reviews
  <2> HIDE DEF IInv, Sound, Go
  <2> QED  BY <1>1, <1>6, <2>1, <2>2, QuietInv DEF Paid
<1>7. CASE Finish(p, "repeated_failure", mem.row)
  BY <1>3, <1>7
<1>8. CASE Go(p, "loop") /\ mem' = [mem EXCEPT !.seen = @ \cup {failure}]
  <2>1. mem' \in Mem /\ mem'.row = mem.row /\ ~mem'.clean
    BY <1>2, <1>8 DEF Mem
  <2>2. Sound("loop", mem', launched[T(p)])
    BY <2>1, <1>2 DEF Sound, Good, Timed, Stages, Outside, Reviews
  <2> HIDE DEF IInv, Sound, Go
  <2> QED  BY <1>1, <1>8, <2>2, QuietInv DEF Paid
<1> QED  BY <1>4, <1>5, <1>6, <1>7, <1>8 DEF Judge

LEMMA DecideInv ==
  ASSUME IInv, NEW p \in Procs, Decide(p)  PROVE IInv' /\ [Own!Next]_(Own!vars)
<1>1. /\ pc[p] = "decide" /\ pc[p] \in Timed \ {"finish", "running", "spawned", "checking"}
      /\ {"finish", "loop"} \subseteq Timed
      /\ UNCHANGED <<request, disk, checkout, groups, budget, left, launched, started, faults>>
  BY DEF Decide, Timed, Stages, Outside
<1>2. /\ mem \in Mem /\ Good(p, mem.row) /\ ~mem.clean /\ Work(groups) = {}
      /\ mem.row.source = mem.before /\ mem.before \in mem.row.evidence.passed
      /\ mem.answer = "approve" => mem.before \in mem.row.evidence.approved
  BY <1>1, Current DEF Sound, Expected, Reviews
<1>3. CASE HandOff(p, mem.row)
  <2>1. Around(p) /\ Kept(p, mem.row)
    BY <1>1 DEF Around, Kept, IInv, TypeOK
  <2>2. Work(groups') = {}
    BY <1>1, <1>2
  <2> HIDE DEF IInv, Around, Kept, Good, HandOff
  <2> QED  BY <1>1, <1>2, <1>3, <2>1, <2>2, HandOffInv
<1>4. CASE mem.answer = "approve" /\ Finish(p, "approved", mem.row)
  <2>1. mem' \in Mem /\ mem'.row = mem.row /\ mem'.outcome = "approved" /\ ~mem'.clean
    BY <1>2, <1>4 DEF Finish, Mem, Outcomes
  <2>2. Sound("finish", mem', launched[T(p)])
    BY <2>1, <1>2, <1>4 DEF Sound, Good, Timed, Stages, Outside, Reviews, Manuals
  <2>3. Go(p, "finish")
    BY <1>4 DEF Finish
  <2> HIDE DEF IInv, Sound, Go
  <2> QED  BY <1>1, <2>2, <2>3, QuietInv DEF Paid
<1>5. CASE Turn(p, "loop", mem.row)
  <2>1. Go(p, "loop") /\ mem' \in Mem /\ mem'.row = mem.row /\ ~mem'.clean
    BY <1>2, <1>5 DEF Turn, Mem
  <2>2. Sound("loop", mem', launched[T(p)])
    BY <2>1, <1>2 DEF Sound, Good, Timed, Stages, Outside, Reviews
  <2> HIDE DEF IInv, Sound, Go
  <2> QED  BY <1>1, <2>1, <2>2, QuietInv DEF Paid
<1> QED  BY <1>3, <1>4, <1>5 DEF Decide

LEMMA LaunchRefusedInv ==
  ASSUME IInv, NEW p \in Procs, LaunchRefused(p)  PROVE IInv' /\ [Own!Next]_(Own!vars)
<1>1. pc[p] \in Timed \ {"finish"} /\ HandOff(p, mem.row)
  BY DEF LaunchRefused, Timed, Stages, Outside
<1>2. Good(p, mem.row) /\ Work(groups') = {}
  BY <1>1, Current DEF LaunchRefused, Expected
<1>3. Around(p) /\ Kept(p, mem.row)
  BY DEF LaunchRefused, Around, Kept, IInv, TypeOK
<1> QED
  <2> HIDE DEF IInv, Around, Kept, Good, HandOff
  <2> QED  BY <1>1, <1>2, <1>3, HandOffInv

LEMMA FaultBound ==
  ASSUME IInv, Fault \/ UNCHANGED faults
  PROVE  faults' \in 0..MaxFaults
BY LimitsAssumption DEF Fault, IInv, TypeOK

LEMMA LaunchFailsInv ==
  ASSUME IInv, NEW p \in Procs, LaunchFails(p)  PROVE IInv' /\ [Own!Next]_(Own!vars)
<1>1. pc[p] = "launch" /\ pc[p] \in Timed \ {"finish"}
  BY DEF LaunchFails, Timed, Stages, Outside
<1>2. /\ Good(p, mem.row) /\ Work(groups) = {} /\ T(p) \in Tasks
      /\ checkout \in [source : Sources, safety : Safety]
  BY <1>1, Current DEF Expected, IInv, TypeOK
<1>3. /\ Good(p, Reconciled(mem.row, TRUE, FALSE)) /\ Reconciled(mem.row, TRUE, FALSE).uncertain
      /\ Good(p, Reconciled(mem.row, FALSE, TRUE)) /\ Reconciled(mem.row, FALSE, TRUE).uncertain
      /\ Good(p, Doubt(mem.row)) /\ Doubt(mem.row).uncertain
  BY <1>2, Doubtful
<1>4. /\ Kept(p, mem.row) /\ faults' \in 0..MaxFaults
      /\ UNCHANGED <<request, checkout, left, started, launched>>
  BY FaultBound DEF LaunchFails, Kept
<1>5. Around(p)
  <2>1. budget \subseteq Tasks /\ Group(T(p), "model") \in {g \in Natives : g.task = T(p)}
    BY <1>2 DEF IInv, TypeOK, Natives, Group, Kinds
  <2>2. budget' \in {budget, budget \cup {T(p)}} /\ groups' \in {groups, groups \cup {Group(T(p), "model")}}
    <3> HIDE DEF HandOff
    <3> QED  BY DEF LaunchFails
  <2> QED  BY <1>2, <1>4, <2>1, <2>2 DEF Around
<1>6. PICK row : Good(p, row) /\ row.uncertain /\ HandOff(p, row)
  <2> HIDE DEF Good, HandOff, Reconciled, Doubt
  <2> QED  BY <1>3 DEF LaunchFails
<1> QED
  <2> HIDE DEF IInv, Around, Kept, Good, HandOff
  <2> QED  BY <1>1, <1>4, <1>5, <1>6, HandOffInv

LEMMA EndedInv ==
  ASSUME IInv, NEW p \in Procs, Ended(p)  PROVE IInv' /\ [Own!Next]_(Own!vars)
<1>1. pc[p] = "running" /\ pc[p] \in Timed \ {"finish"} /\ "answered" \in Timed
  BY DEF Ended, Timed, Stages, Outside
<1>2. /\ mem \in Mem /\ Good(p, mem.row) /\ ~mem.clean /\ Sound("running", mem, launched[T(p)])
      /\ groups \subseteq Natives /\ Work(groups) \subseteq Expected("running", T(p))
      /\ ~left => groups \subseteq Expected("running", T(p))
  BY <1>1, Current
<1>3. PICK answer \in {"ok", "bad"} : mem' = [mem EXCEPT !.answer = answer]
  BY DEF Ended
<1>4. /\ mem' \in Mem /\ mem'.row = mem.row /\ mem'.role = mem.role /\ mem'.before = mem.before
      /\ ~mem'.clean
  BY <1>2, <1>3 DEF Mem
<1>5. Sound("answered", mem', launched[T(p)])
  BY <1>2, <1>4 DEF Sound, Good, Timed, Stages, Outside, Reviews
<1>6. Work(groups') = {} /\ (~left => groups' = {})
  BY <1>2 DEF Ended, Work, Expected, Natives, Group
<1>7. Owned("answered", mem', T(p), groups') /\ (~left => Marked("answered", mem', T(p), groups'))
  BY <1>6 DEF Owned, Marked
<1>8. Go(p, "answered") /\ Around(p) /\ Kept(p, mem.row)
  BY DEF Ended, Around, Kept, IInv, TypeOK
<1> QED
  <2> HIDE DEF IInv, Sound, Owned, Marked, Go, Around, Kept
  <2> QED  BY <1>1, <1>5, <1>7, <1>8, TurnInv DEF Paid

LEMMA EndFailsInv ==
  ASSUME IInv, NEW p \in Procs, EndFails(p)  PROVE IInv' /\ [Own!Next]_(Own!vars)
<1>1. pc[p] = "running" /\ pc[p] \in Timed \ {"finish"}
  BY DEF EndFails, Timed, Stages, Outside
<1>2. /\ Good(p, mem.row) /\ groups \subseteq Natives /\ Work(groups) \subseteq Expected("running", T(p))
      /\ T(p) \in Tasks /\ checkout \in [source : Sources, safety : Safety]
  BY <1>1, Current DEF IInv, TypeOK
<1>3. /\ Kept(p, mem.row) /\ faults' \in 0..MaxFaults
      /\ UNCHANGED <<request, checkout, left, started, launched>>
  BY FaultBound DEF EndFails, Kept
<1>4. Around(p)
  <2>1. budget' \in {budget, budget \ {T(p)}} /\ groups' \subseteq groups /\ budget \subseteq Tasks
    BY DEF EndFails, IInv, TypeOK
  <2> QED  BY <1>3, <2>1 DEF Around
<1>5. PICK row : Good(p, row) /\ HandOff(p, row) /\ (Work(groups') # {} => row.uncertain)
  <2>1. CASE HandOff(p, Reconciled(mem.row, TRUE, TRUE))
    BY <1>2, <2>1, Doubtful
  <2>2. CASE /\ groups' = groups \ {Group(T(p), "model")}
             /\ LET reserved == T(p) \in budget' IN
                \E row \in {Reconciled(mem.row, reserved, reserved), Doubt(mem.row)} : HandOff(p, row)
    <3> DEFINE reserved == T(p) \in budget'
    <3>1. Work(groups') = {}
      BY <1>2, <2>2 DEF Work, Expected, Natives, Group
    <3>2. reserved \in BOOLEAN
      OBVIOUS
    <3> HIDE DEF reserved
    <3>3. Good(p, Reconciled(mem.row, reserved, reserved)) /\ Good(p, Doubt(mem.row))
      BY <1>2, <3>2, Doubtful
    <3>4. PICK row \in {Reconciled(mem.row, reserved, reserved), Doubt(mem.row)} : HandOff(p, row)
      BY <2>2 DEF reserved
    <3>5. Good(p, row)
      BY <3>3, <3>4
    <3> QED  BY <3>1, <3>4, <3>5
  <2> QED  BY <2>1, <2>2 DEF EndFails
<1> QED
  <2> HIDE DEF IInv, Around, Kept, Good, HandOff
  <2> QED  BY <1>1, <1>3, <1>4, <1>5, HandOffInv
LEMMA SaveAnswerInv ==
  ASSUME IInv, NEW p \in Procs, SaveAnswer(p)  PROVE IInv' /\ [Own!Next]_(Own!vars)
<1> DEFINE row == [mem.row EXCEPT !.elapsed = mem.clock]
           stage == IF mem.role = "implementer" THEN "implemented" ELSE "reviewed"
<1>1. /\ pc[p] = "answered" /\ pc[p] \in Timed \ {"finish"}
      /\ stage \in Timed /\ stage \in {"implemented", "reviewed"}
  BY DEF SaveAnswer, Timed, Stages, Outside
<1>2. /\ mem \in Mem /\ Good(p, row) /\ ~mem.clean /\ Sound("answered", mem, launched[T(p)])
      /\ Work(groups) = {} /\ (~left => groups = {}) /\ Good(p, mem.row)
  BY <1>1, Current DEF Expected
<1>3. faults' \in 0..MaxFaults
  BY FaultBound DEF SaveAnswer
<1>4. Around(p) /\ Work(groups') = {}
  BY <1>2, <1>3 DEF SaveAnswer, Around, IInv, TypeOK
<1>5. /\ row.attempts = mem.row.attempts /\ row.status = mem.row.status
      /\ row.source = mem.row.source /\ row.evidence = mem.row.evidence
  BY <1>2 DEF Good, Row
<1> HIDE DEF row, stage
<1>6. CASE disk' = [disk EXCEPT ![T(p)] = row] /\ Turn(p, stage, row)
  <2>1. Kept(p, row)
    BY <1>2, <1>6 DEF Kept
  <2>2. /\ Go(p, stage) /\ mem' \in Mem /\ mem'.row = row /\ mem'.role = mem.role
        /\ mem'.before = mem.before /\ ~mem'.clean
    BY <1>2, <1>6 DEF Turn, Mem, Good
  <2>3. Sound(stage, mem', launched[T(p)])
    <3>1. mem.role \in {"implementer", "reviewer"}
      BY <1>2 DEF Mem
    <3>2. CASE mem.role = "implementer"
      <4>1. stage = "implemented" /\ row.attempts # 0
        BY <1>2, <1>5, <3>2 DEF stage, Sound
      <4> QED  BY <4>1, <2>2, <1>2, <1>5 DEF Sound, Good, Timed, Stages, Outside, Reviews
    <3>3. CASE mem.role = "reviewer"
      <4>1. stage = "reviewed" /\ row.source = mem.before /\ mem.before \in row.evidence.passed
        BY <1>2, <1>5, <3>3 DEF stage, Sound
      <4> QED  BY <4>1, <2>2, <1>2, <1>5, <3>3 DEF Sound, Good, Timed, Stages, Outside, Reviews
    <3> QED  BY <3>1, <3>2, <3>3
  <2>4. Owned(stage, mem', T(p), groups') /\ (~left => Marked(stage, mem', T(p), groups'))
    BY <1>1, <1>2, <1>4 DEF Owned, Marked, SaveAnswer
  <2> HIDE DEF IInv, Sound, Owned, Marked, Go, Around, Kept, Good
  <2> QED  BY <1>1, <1>4, <2>1, <2>2, <2>3, <2>4, TurnInv DEF Paid
<1>7. CASE disk' \in {disk, [disk EXCEPT ![T(p)] = row]} /\ HandOff(p, row)
  <2>1. Kept(p, row)
    BY <1>2, <1>7 DEF Kept
  <2> HIDE DEF IInv, Around, Kept, Good, HandOff
  <2> QED  BY <1>1, <1>2, <1>4, <1>7, <2>1, HandOffInv
<1>8. CASE Poisoned(p, row)
  <2> HIDE DEF IInv, Around, Good, Poisoned
  <2> QED  BY <1>1, <1>2, <1>4, <1>8, PoisonedInv
<1> QED
  <2> HIDE DEF HandOff, Poisoned, Turn
  <2> QED  BY <1>6, <1>7, <1>8 DEF SaveAnswer, row, stage

LEMMA SpawnInv ==
  ASSUME IInv, NEW p \in Procs, Spawn(p)  PROVE IInv' /\ [Own!Next]_(Own!vars)
<1>1. pc[p] = "spawn" /\ pc[p] \in Timed \ {"finish"} /\ "spawned" \in Timed
  BY DEF Spawn, Timed, Stages, Outside
<1>2. /\ mem \in Mem /\ Good(p, mem.row) /\ ~mem.clean /\ T(p) \in Tasks
      /\ Work(groups) = {} /\ (~left => groups = {})
      /\ Group(T(p), "check") \in Natives
  BY <1>1, Current DEF Expected, Group, Natives, Kinds
<1>3. Around(p) /\ Kept(p, mem.row)
  BY <1>2 DEF Spawn, Around, Kept, IInv, TypeOK, Group
<1>4. CASE Turn(p, "spawned", mem.row) /\ groups' = groups \cup {Group(T(p), "check")}
  <2>1. Go(p, "spawned") /\ mem' = mem
    BY <1>2, <1>4 DEF Turn, Mem
  <2>2. Sound("spawned", mem', launched[T(p)])
    BY <1>2, <2>1 DEF Sound, Good, Timed, Stages, Outside, Reviews
  <2>3. Owned("spawned", mem', T(p), groups') /\ (~left => Marked("spawned", mem', T(p), groups'))
    BY <1>2, <1>4 DEF Owned, Marked, Work, Expected, Group
  <2> HIDE DEF IInv, Sound, Owned, Marked, Go, Around, Kept
  <2> QED  BY <1>1, <1>3, <2>1, <2>2, <2>3, TurnInv DEF Paid
<1>5. CASE HandOff(p, mem.row) /\ UNCHANGED groups
  <2>1. Work(groups') = {}
    BY <1>2, <1>5
  <2> HIDE DEF IInv, Around, Kept, Good, HandOff
  <2> QED  BY <1>1, <1>2, <1>3, <1>5, <2>1, HandOffInv
<1> QED  BY <1>4, <1>5 DEF Spawn

LEMMA PublishPIDInv ==
  ASSUME IInv, NEW p \in Procs, PublishPID(p)  PROVE IInv' /\ [Own!Next]_(Own!vars)
<1> DEFINE known == [mem.row EXCEPT !.pid = TRUE, !.elapsed = mem.clock]
           gone == groups \ {Group(T(p), "check")}
<1>1. pc[p] = "spawned" /\ pc[p] \in Timed \ {"finish"} /\ "checking" \in Timed
  BY DEF PublishPID, Timed, Stages, Outside
<1>2. /\ mem \in Mem /\ mem.clock \in 0..Timeout /\ Good(p, mem.row) /\ ~mem.clean
      /\ groups \subseteq Natives /\ Work(groups) \subseteq Expected("spawned", T(p))
      /\ ~left => groups \subseteq Expected("spawned", T(p))
  BY <1>1, Current
<1>3. Good(p, known)
  BY <1>2 DEF Good, Row
<1>4. Good(p, Unconfirmed(mem.row)) /\ Unconfirmed(mem.row).uncertain
  BY <1>2, Doubtful DEF IInv, TypeOK
<1>5. Work(gone) = {}
  BY <1>2 DEF Work, Expected, Natives, Group
<1>6. /\ groups' \in {groups, gone} /\ faults' \in 0..MaxFaults
      /\ UNCHANGED <<request, checkout, budget, left, launched, started>>
  BY FaultBound DEF PublishPID
<1>7. Around(p)
  BY <1>6 DEF Around, IInv, TypeOK
<1> HIDE DEF known
<1>8. CASE /\ disk' = [disk EXCEPT ![T(p)] = known] /\ Turn(p, "checking", known)
           /\ UNCHANGED groups
  <2>1. Kept(p, known)
    BY <1>3, <1>8 DEF Kept
  <2>2. Go(p, "checking") /\ mem' \in Mem /\ mem'.row = known /\ ~mem'.clean
    BY <1>2, <1>3, <1>8 DEF Turn, Mem, Good
  <2>3. Sound("checking", mem', launched[T(p)])
    BY <1>3, <2>2 DEF Sound, Good, Timed, Stages, Outside, Reviews
  <2>4. Owned("checking", mem', T(p), groups') /\ (~left => Marked("checking", mem', T(p), groups'))
    BY <1>2, <1>8 DEF Owned, Marked, Work, Expected
  <2> HIDE DEF IInv, Sound, Owned, Marked, Go, Around, Kept
  <2> QED  BY <1>1, <1>7, <2>1, <2>2, <2>3, <2>4, TurnInv DEF Paid
<1>9. CASE disk' = disk /\ HandOff(p, mem.row) /\ groups' = gone
  <2>1. Kept(p, mem.row) /\ Work(groups') = {}
    BY <1>5, <1>9 DEF Kept
  <2> HIDE DEF IInv, Around, Kept, Good, HandOff
  <2> QED  BY <1>1, <1>2, <1>7, <1>9, <2>1, HandOffInv
<1>10. CASE disk' = disk /\ HandOff(p, Unconfirmed(mem.row))
  <2>1. Kept(p, mem.row)
    BY <1>10 DEF Kept
  <2> HIDE DEF IInv, Around, Kept, Good, HandOff, Unconfirmed
  <2> QED  BY <1>1, <1>4, <1>7, <1>10, <2>1, HandOffInv
<1>11. CASE Poisoned(p, known)
  <2> HIDE DEF IInv, Around, Good, Poisoned
  <2> QED  BY <1>1, <1>3, <1>7, <1>11, PoisonedInv
<1> QED
  <2> HIDE DEF HandOff, Poisoned, Turn
  <2> QED  BY <1>8, <1>9, <1>10, <1>11 DEF PublishPID, known

LEMMA CheckFailsInv ==
  ASSUME IInv, NEW p \in Procs, CheckFails(p)  PROVE IInv' /\ [Own!Next]_(Own!vars)
<1>1. pc[p] = "checking" /\ pc[p] \in Timed \ {"finish"} /\ HandOff(p, Unconfirmed(mem.row))
  BY DEF CheckFails, Timed, Stages, Outside
<1>2. Good(p, mem.row) /\ checkout \in [source : Sources, safety : Safety] /\ budget \subseteq Tasks
  BY <1>1, Current DEF IInv, TypeOK
<1>3. Good(p, Unconfirmed(mem.row)) /\ Unconfirmed(mem.row).uncertain
  BY <1>2, Doubtful
<1>4. faults' \in 0..MaxFaults
  BY FaultBound DEF CheckFails
<1>5. Around(p) /\ Kept(p, mem.row)
  BY <1>2, <1>4 DEF CheckFails, Around, Kept
<1> QED
  <2> HIDE DEF IInv, Around, Kept, Good, HandOff, Unconfirmed
  <2> QED  BY <1>1, <1>3, <1>5, HandOffInv

LEMMA CheckedInv ==
  ASSUME IInv, NEW p \in Procs, Checked(p)  PROVE IInv' /\ [Own!Next]_(Own!vars)
<1>1. pc[p] = "checking" /\ pc[p] \in Timed \ {"finish"} /\ "evidence" \in Timed
  BY DEF Checked, Timed, Stages, Outside
<1>2. /\ mem \in Mem /\ Good(p, mem.row) /\ ~mem.clean /\ mem.before \in Sources
      /\ groups \subseteq Natives /\ Work(groups) \subseteq Expected("checking", T(p))
      /\ ~left => groups \subseteq Expected("checking", T(p))
  BY <1>1, Current DEF Mem
<1>3. PICK code \in Codes \cup {-1} :
        mem' = [mem EXCEPT !.code = code,
                  !.row = [mem.row EXCEPT !.pid = FALSE,
                             !.evidence.passed = IF code = 0 THEN @ \cup {mem.before} ELSE @]]
  BY DEF Checked
<1> DEFINE passed == IF code = 0 THEN mem.row.evidence.passed \cup {mem.before}
                     ELSE mem.row.evidence.passed
           row == [mem.row EXCEPT !.pid = FALSE, !.evidence = [@ EXCEPT !.passed = passed]]
<1>4. /\ passed \in SUBSET Sources /\ (code = 0 => mem.before \in passed)
      /\ mem.row.evidence \in Evidence
  BY <1>2 DEF Good, Row, Evidence
<1>5. row = [mem.row EXCEPT !.pid = FALSE,
               !.evidence.passed = IF code = 0 THEN @ \cup {mem.before} ELSE @]
  OBVIOUS
<1> HIDE DEF passed
<1>6. Good(p, row) /\ row.evidence.passed = passed
  BY <1>2, <1>4 DEF Good, Row, Evidence
<1>7. /\ mem' \in Mem /\ mem'.row = row /\ mem'.code = code /\ ~mem'.clean
      /\ mem'.before = mem.before
  BY <1>2, <1>3, <1>5, <1>6 DEF Mem, Good
<1> HIDE DEF row
<1>8. Sound("evidence", mem', launched[T(p)])
  BY <1>4, <1>6, <1>7 DEF Sound, Good, Timed, Stages, Outside, Reviews
<1>9. Work(groups') = {} /\ (~left => groups' = {})
  BY <1>2 DEF Checked, Work, Expected, Natives, Group
<1>10. Owned("evidence", mem', T(p), groups') /\ (~left => Marked("evidence", mem', T(p), groups'))
  BY <1>9 DEF Owned, Marked
<1>11. Go(p, "evidence") /\ Around(p) /\ Kept(p, mem.row)
  BY DEF Checked, Around, Kept, IInv, TypeOK
<1> QED
  <2> HIDE DEF IInv, Sound, Owned, Marked, Go, Around, Kept
  <2> QED  BY <1>1, <1>8, <1>10, <1>11, TurnInv DEF Paid
-----------------------------------------------------------------------------
(* The paid invocation, and the stages around the timed ones.               *)

\* A model starts where nothing of the kind is running, and the checkpoint has counted
\* the implementer's attempt.
LEMMA LaunchInv ==
  ASSUME IInv, NEW p \in Procs, Launch(p)  PROVE IInv' /\ [Own!Next]_(Own!vars)
<1>1. pc[p] = "launch" /\ pc[p] \in Timed \ {"finish"} /\ "running" \in Timed /\ pc[p] \notin Outside
  BY DEF Launch, Timed, Stages, Outside
<1>2. /\ mem \in Mem /\ Good(p, mem.row) /\ ~mem.clean /\ T(p) \in Tasks
      /\ Sound("launch", mem, launched[T(p)])
      /\ Work(groups) = {} /\ (~left => groups = {}) /\ groups \subseteq Natives
      /\ disk \in [Tasks -> Row \cup {NoRow}]
  BY <1>1, Current DEF Expected
<1>3. /\ T(p) \in Rows /\ disk[T(p)] \in Row /\ disk[T(p)].status = "active" /\ OpenTasks = {T(p)}
      /\ Paid("launch", mem, launched[T(p)], disk[T(p)])
      /\ launched[T(p)] \in Nat /\ MaxAttempts \in Nat
      /\ launched \in [Tasks -> 0..(MaxAttempts + 1)]
  BY <1>1, Known, LimitsAssumption DEF IInv, TypeOK
<1>4. /\ Go(p, "running") /\ mem' = mem /\ groups' = groups \cup {Group(T(p), "model")}
      /\ UNCHANGED <<request, disk, checkout, left, started, faults>>
      /\ budget' = budget \cup {T(p)}
  BY <1>2 DEF Launch, Turn, Mem
<1>5. launched' = IF mem.role = "implementer" THEN [launched EXCEPT ![T(p)] = launched[T(p)] + 1]
                  ELSE launched
  <2>1. CASE mem.role = "implementer"
    <3>1. launched[T(p)] < mem.row.attempts /\ mem.row.attempts \in 0..MaxAttempts
      BY <1>2, <2>1 DEF Sound, Good, Row
    <3>2. ~(launched[T(p)] > MaxAttempts)
      BY <1>3, <3>1
    <3> QED  BY <2>1, <3>2 DEF Launch
  <2>2. CASE mem.role # "implementer"
    BY <2>2 DEF Launch
  <2> QED  BY <2>1, <2>2
<1>6. /\ launched' \in [Tasks -> 0..(MaxAttempts + 1)]
      /\ launched'[T(p)] <= mem.row.attempts /\ launched'[T(p)] <= disk[T(p)].attempts
      /\ \A t \in Tasks \ {T(p)} : launched'[t] = launched[t]
  <2>1. CASE mem.role = "implementer"
    <3>1. /\ launched[T(p)] < mem.row.attempts /\ launched[T(p)] < disk[T(p)].attempts
          /\ mem.row.attempts \in 0..MaxAttempts /\ disk[T(p)].attempts \in 0..MaxAttempts
      BY <1>2, <1>3, <2>1 DEF Sound, Good, Row, Paid
    <3>2. launched[T(p)] + 1 \in 0..(MaxAttempts + 1)
      BY <1>3, <3>1
    <3> QED  BY <1>2, <1>3, <1>5, <2>1, <3>1, <3>2
  <2>2. CASE mem.role # "implementer"
    BY <1>2, <1>3, <1>5, <2>2 DEF Good, IInv, RowInv
  <2> QED  BY <2>1, <2>2
<1>7. /\ Group(T(p), "model") \in Natives /\ groups' \subseteq Natives /\ budget' \subseteq Tasks
      /\ faults' \in 0..MaxFaults
  BY <1>2, <1>4 DEF IInv, TypeOK, Natives, Group, Kinds
<1>8. Work(groups') = {Group(T(p), "model")}
  BY <1>2, <1>4 DEF Work, Group
<1>9. Sound("running", mem', launched'[T(p)])
  <2>1. mem.role \in {"implementer", "reviewer"}
    BY <1>2 DEF Mem
  <2> QED  BY <1>2, <1>4, <1>6, <2>1 DEF Sound, Good, Timed, Stages, Outside, Reviews
<1>10. Owned("running", mem', T(p), groups') /\ (~left => Marked("running", mem', T(p), groups'))
  <2>1. Group(T(p), "model") \in Expected("running", T(p))
    BY <1>7 DEF Expected, Group
  <2>2. Work(groups') \subseteq Expected("running", T(p)) /\ (~left => groups' \subseteq Expected("running", T(p)))
    BY <1>2, <1>4, <1>8, <2>1
  <2> QED  BY <2>2 DEF Owned, Marked
<1>11. Rows' = Rows /\ OpenTasks' = OpenTasks
  BY <1>4 DEF Rows, OpenTasks, Open
<1>12. RowInv'
  <2> SUFFICES ASSUME NEW t \in Tasks
               PROVE  /\ t \notin Rows => launched'[t] = 0
                      /\ t \in Rows => /\ launched'[t] <= disk[t].attempts
                                       /\ disk[t].outcome \in Manuals => disk[t].stalled < NoProgressLimit
    BY <1>4, <1>11 DEF RowInv
  <2>1. CASE t = T(p)
    BY <1>3, <1>6, <2>1 DEF IInv, RowInv
  <2>2. CASE t # T(p)
    BY <1>6, <2>2 DEF IInv, RowInv
  <2> QED  BY <2>1, <2>2
<1>13. OwnershipInv' /\ VerdictIsProven'
  <2>1. OwnershipInv'
    BY <1>3, <1>8, <1>11 DEF OwnershipInv, Group
  <2>2. VerdictIsProven'
    BY <1>4, <1>11 DEF VerdictIsProven, IInv
  <2> QED  BY <2>1, <2>2
<1>14. IInv'
  <2>1. disk' \in [Tasks -> Row \cup {NoRow}] /\ UNCHANGED <<request, checkout, left, started>>
    BY <1>2, <1>4
  <2>2. "running" \in Stages \ Outside /\ "running" \notin {"admitted", "begin"}
    BY DEF Stages, Outside
  <2>3. T(p) \in Rows' /\ disk'[T(p)].status = "active"
    BY <1>3, <1>4, <1>11
  <2>4. Paid("running", mem', launched'[T(p)], disk'[T(p)])
    BY DEF Paid
  <2> HIDE DEF IInv, RowInv, OwnershipInv, VerdictIsProven, Sound, Owned, Marked, Paid, Go
  <2> QED  BY <1>1, <1>4, <1>6, <1>7, <1>9, <1>10, <1>12, <1>13, <2>1, <2>2, <2>3, <2>4, InsideStep
<1>15. WorkTasks = {} /\ WorkTasks' = {T(p)}
  BY <1>2, <1>8 DEF WorkTasks, Group
<1>16. \/ launched' = launched
       \/ launched[T(p)] < MaxAttempts /\ launched' = [launched EXCEPT ![T(p)] = launched[T(p)] + 1]
  <2>1. CASE mem.role = "implementer"
    <3>1. launched[T(p)] < mem.row.attempts /\ mem.row.attempts \in 0..MaxAttempts
      BY <1>2, <2>1 DEF Sound, Good, Row
    <3> QED  BY <1>3, <1>5, <2>1, <3>1
  <2>2. CASE mem.role # "implementer"
    BY <1>5, <2>2
  <2> QED  BY <2>1, <2>2
<1>17. [Own!Next]_(Own!vars)
  BY <1>2, <1>3, <1>11, <1>15, <1>16, OwnLaunch
<1> QED
  <2> HIDE DEF IInv
  <2> QED  BY <1>14, <1>17
\* One row changes: what the other tasks' checkpoints and attempts say stays true.
LEMMA OneRow ==
  ASSUME IInv, NEW t \in Tasks, NEW row \in Row, disk' = [disk EXCEPT ![t] = row],
         launched' = launched, launched[t] <= row.attempts,
         row.outcome \in Manuals => row.stalled < NoProgressLimit,
         row.status # "active" =>
           /\ row.outcome \in {"manual_passed", "approved"} => row.source \in row.evidence.passed
           /\ row.status = "completed" => row.source \in row.evidence.approved,
         OpenTasks \subseteq {t}, groups' \subseteq Natives,
         Work(groups') # {} => Open(row), \A g \in Work(groups') : g.task = t
  PROVE  /\ RowInv' /\ OwnershipInv' /\ VerdictIsProven'
         /\ disk' \in [Tasks -> Row \cup {NoRow}] /\ t \in Rows' /\ disk'[t] = row
         /\ OpenTasks' = IF Open(row) THEN {t} ELSE {}
<1>1. /\ disk \in [Tasks -> Row \cup {NoRow}] /\ disk'[t] = row /\ row # NoRow
      /\ \A u \in Tasks \ {t} : disk'[u] = disk[u]
  BY NoRowAssumption DEF IInv, TypeOK
<1>2. disk' \in [Tasks -> Row \cup {NoRow}]
  BY <1>1
<1>3. t \in Rows' /\ \A u \in Tasks \ {t} : u \in Rows' <=> u \in Rows
  BY <1>1 DEF Rows
<1>4. RowInv'
  <2> SUFFICES ASSUME NEW u \in Tasks
               PROVE  /\ u \notin Rows' => launched[u] = 0
                      /\ u \in Rows' => /\ launched[u] <= disk'[u].attempts
                                        /\ disk'[u].outcome \in Manuals => disk'[u].stalled < NoProgressLimit
    BY DEF RowInv
  <2>1. CASE u = t
    BY <1>1, <1>3, <2>1
  <2>2. CASE u # t
    BY <1>1, <1>3, <2>2 DEF IInv, RowInv
  <2> QED  BY <2>1, <2>2
<1>5. OpenTasks' = IF Open(row) THEN {t} ELSE {}
  <2>1. \A u \in Tasks : u \in OpenTasks' <=> u \in Rows' /\ (disk'[u].status = "active" \/ disk'[u].uncertain)
    BY DEF OpenTasks, Open, Rows
  <2>2. \A u \in Tasks \ {t} : u \notin OpenTasks'
    BY <1>1, <1>3, <2>1 DEF OpenTasks, Open
  <2>3. t \in OpenTasks' <=> Open(row)
    BY <1>1, <1>3, <2>1 DEF Open
  <2>4. OpenTasks' \subseteq Tasks
    BY DEF OpenTasks, Rows
  <2> QED  BY <2>2, <2>3, <2>4
<1>6. OwnershipInv'
  BY <1>5 DEF OwnershipInv
<1>7. VerdictIsProven'
  <2> SUFFICES ASSUME NEW u \in Rows', disk'[u].status # "active"
               PROVE  /\ disk'[u].outcome \in {"manual_passed", "approved"} =>
                           disk'[u].source \in disk'[u].evidence.passed
                      /\ disk'[u].status = "completed" => disk'[u].source \in disk'[u].evidence.approved
    BY DEF VerdictIsProven
  <2>1. CASE u = t
    BY <1>1, <2>1
  <2>2. CASE u # t
    <3>1. u \in Tasks
      BY DEF Rows
    <3>2. disk'[u] = disk[u] /\ u \in Rows
      BY <1>1, <1>3, <2>2, <3>1
    <3> QED  BY <3>2 DEF IInv, VerdictIsProven
  <2> QED  BY <2>1, <2>2
<1> QED  BY <1>1, <1>2, <1>3, <1>4, <1>5, <1>6, <1>7

\* Nothing is published: what the checkpoints say stays true.
LEMMA NoRowChanges ==
  ASSUME IInv, disk' = disk, launched' = launched, Work(groups') \subseteq Work(groups)
  PROVE  /\ RowInv' /\ OwnershipInv' /\ VerdictIsProven' /\ OpenTasks' = OpenTasks /\ Rows' = Rows
         /\ disk' \in [Tasks -> Row \cup {NoRow}] /\ launched' \in [Tasks -> 0..(MaxAttempts + 1)]
         /\ [Own!Next]_(Own!vars)
<1>1. OpenTasks' = OpenTasks /\ Rows' = Rows
  BY DEF OpenTasks, Open, Rows
<1>2. RowInv'
  BY <1>1 DEF IInv, RowInv
<1>3. OwnershipInv'
  BY <1>1 DEF IInv, OwnershipInv
<1>4. VerdictIsProven'
  BY <1>1 DEF IInv, VerdictIsProven
<1>5. disk' \in [Tasks -> Row \cup {NoRow}] /\ launched' \in [Tasks -> 0..(MaxAttempts + 1)]
  BY DEF IInv, TypeOK
<1>6. [Own!Next]_(Own!vars)
  <2>1. CASE Work(groups) = {}
    <3>1. WorkTasks' = {} /\ WorkTasks = {}
      BY <2>1 DEF WorkTasks
    <3> QED  BY <1>1, <3>1, OwnStutter
  <2>2. CASE Work(groups) # {}
    <3>1. PICK g \in Work(groups) : g.task \in Tasks
      BY <2>2 DEF Work, IInv, TypeOK
    <3>2. \A h \in Work(groups) : h.task = g.task /\ g.task \in OpenTasks
      BY <3>1 DEF IInv, OwnershipInv
    <3>3. WorkTasks \in {{}, {g.task}} /\ WorkTasks' \in {{}, {g.task}}
      BY <3>2 DEF WorkTasks
    <3> QED  BY <1>1, <3>1, <3>2, <3>3, OwnWork
  <2> QED  BY <2>1, <2>2
<1> QED  BY <1>1, <1>2, <1>3, <1>4, <1>5, <1>6
LEMMA BeginInv ==
  ASSUME IInv, NEW p \in Procs, Begin(p)  PROVE IInv' /\ [Own!Next]_(Own!vars)
<1> DEFINE timed == [mem.row EXCEPT !.elapsed = mem.clock]
<1>1. /\ pc[p] = "begin" /\ pc[p] \notin Outside /\ {"check", "loop", "close"} \subseteq Stages \ Outside
      /\ {"check", "loop"} \subseteq Timed /\ "close" \notin Timed
      /\ UNCHANGED <<request, checkout, groups, budget, left, launched, started>>
  BY DEF Begin, Timed, Stages, Outside
<1>2. /\ mem \in Mem /\ mem.row \in Row /\ OpenTasks = {} /\ T(p) \in Tasks
      /\ Sound("begin", mem, launched[T(p)]) /\ Owned("begin", mem, T(p), groups)
      /\ ~left => Marked("begin", mem, T(p), groups)
  BY <1>1, Known
<1>3. mem.clock \in 0..Timeout /\ ~mem.clean /\ Good(p, mem.row)
  BY <1>2 DEF Mem, Sound, Good
<1>4. Good(p, timed)
  BY <1>3 DEF Good, Row
<1>5. Work(groups) = {} /\ (~left => groups = {}) /\ groups' \subseteq Natives
  BY <1>1, <1>2 DEF Owned, Marked, Expected, IInv, TypeOK, Natives
<1>6. faults' \in 0..MaxFaults /\ budget' \subseteq Tasks
  <2>1. Fault \/ UNCHANGED faults
    <3> HIDE DEF Turn
    <3> QED  BY DEF Begin, Save
  <2> QED  BY <1>1, <2>1, FaultBound DEF IInv, TypeOK
<1>7. WorkTasks = {} /\ WorkTasks' = {} /\ launched' \in [Tasks -> 0..(MaxAttempts + 1)]
  BY <1>1, <1>5 DEF WorkTasks, Work, IInv, TypeOK
<1> DEFINE stage == IF Manual(p) THEN "check" ELSE "loop"
<1>8. stage \in {"check", "loop"}
  OBVIOUS
<1> HIDE DEF timed, stage
<1>9. ASSUME NEW next \in {"check", "loop", "close"}, NEW row, Good(p, row), Turn(p, next, row),
             (disk' = disk /\ next = "close") \/ (disk' = [disk EXCEPT ![T(p)] = timed])
      PROVE  IInv' /\ [Own!Next]_(Own!vars)
  <2>1. next \in Stages \ Outside /\ next \notin {"admitted", "begin"} /\ (next \in Timed => next # "close")
    BY <1>1
  <2>0. Go(p, next) /\ mem' \in Mem /\ mem'.row = row /\ ~mem'.clean
    BY <1>2, <1>3, <1>9 DEF Turn, Mem, Good
  <2>2. Sound(next, mem', launched'[T(p)])
    BY <1>1, <1>9, <2>0 DEF Sound, Good, Timed, Stages, Outside, Reviews
  <2>3. Owned(next, mem', T(p), groups') /\ (~left => Marked(next, mem', T(p), groups'))
    BY <1>1, <1>5, <1>9, <2>0 DEF Owned, Marked
  <2>4. Paid(next, mem', launched'[T(p)], disk'[T(p)])
    BY DEF Paid
  <2>5. CASE disk' = disk /\ next = "close"
    <3>1. Work(groups') \subseteq Work(groups)
      BY <1>1
    <3>2. /\ RowInv' /\ OwnershipInv' /\ VerdictIsProven' /\ [Own!Next]_(Own!vars)
          /\ disk' \in [Tasks -> Row \cup {NoRow}]
      <4> HIDE DEF IInv, RowInv, OwnershipInv, VerdictIsProven
      <4> QED  BY <1>1, <2>5, <3>1, NoRowChanges
    <3>3. next \notin Timed
      BY <1>1, <2>5
    <3> HIDE DEF IInv, RowInv, OwnershipInv, VerdictIsProven, Sound, Owned, Paid, Marked, Go
    <3> QED  BY <1>1, <1>5, <1>6, <1>7, <1>9, <2>0, <2>1, <2>2, <2>3, <2>4, <3>2, <3>3, InsideStep
  <2>6. CASE disk' = [disk EXCEPT ![T(p)] = timed]
    <3>1. /\ timed \in Row /\ launched[T(p)] <= timed.attempts /\ timed.stalled < NoProgressLimit
          /\ timed.status = "active" /\ Open(timed)
      BY <1>4 DEF Good, Open
    <3>2. Work(groups') = {}
      BY <1>1, <1>5
    <3>3. /\ RowInv' /\ OwnershipInv' /\ VerdictIsProven' /\ disk' \in [Tasks -> Row \cup {NoRow}]
          /\ T(p) \in Rows' /\ disk'[T(p)] = timed /\ OpenTasks' = IF Open(timed) THEN {T(p)} ELSE {}
      <4> HIDE DEF IInv, RowInv, OwnershipInv, VerdictIsProven
      <4> QED  BY <1>1, <1>2, <1>5, <2>6, <3>1, <3>2, OneRow
    <3>4. [Own!Next]_(Own!vars)
      BY <1>1, <1>2, <1>7, <3>1, <3>3, OwnTurns
    <3>5. IInv'
      <4> HIDE DEF IInv, RowInv, OwnershipInv, VerdictIsProven, Sound, Owned, Paid, Marked, Go
      <4> QED  BY <1>1, <1>5, <1>6, <1>7, <1>9, <2>0, <2>1, <2>2, <2>3, <2>4, <3>1, <3>3, InsideStep
    <3> QED  BY <3>4, <3>5
  <2> QED  BY <1>9, <2>5, <2>6
<1>11. CASE disk' = [disk EXCEPT ![T(p)] = timed] /\ Turn(p, stage, mem.row)
  <2> HIDE DEF Turn, Good, IInv
  <2> QED  BY <1>3, <1>8, <1>9, <1>11
<1>12. CASE disk' = disk /\ Turn(p, "close", mem.row)
  <2> HIDE DEF Turn, Good, IInv
  <2> QED  BY <1>3, <1>9, <1>12
<1>13. CASE Poisoned(p, timed)
  <2>1. disk' = disk \/ disk' = [disk EXCEPT ![T(p)] = timed]
    BY <1>13 DEF Poisoned
  <2>2. Turn(p, "close", timed)
    BY <1>13 DEF Poisoned
  <2> HIDE DEF Turn, Good, IInv
  <2> QED  BY <1>4, <1>9, <2>1, <2>2
<1> QED
  <2> HIDE DEF Turn
  <2> QED  BY <1>11, <1>12, <1>13 DEF Begin, Save, timed, stage
\* The last save: what it says is true, and where it is not in doubt the work is over.
LEMMA TerminateInv ==
  ASSUME IInv, NEW p \in Procs, Terminate(p)  PROVE IInv' /\ [Own!Next]_(Own!vars)
<1> DEFINE outcome == IF mem.signalled THEN "interrupted" ELSE mem.outcome
           status == IF outcome = "approved" THEN "completed" ELSE "stopped"
           row == [mem.row EXCEPT !.outcome = outcome, !.elapsed = mem.clock, !.status = status]
<1>1. /\ pc[p] = "finish" /\ pc[p] \notin Outside /\ pc[p] \in Timed
      /\ "close" \in Stages \ Outside /\ "close" \notin {"admitted", "begin"} \cup Timed
      /\ UNCHANGED <<request, checkout, groups, budget, left, launched, started>>
  BY DEF Terminate, Timed, Stages, Outside
<1>2. /\ mem \in Mem /\ mem.row \in Row /\ T(p) \in Tasks /\ OpenTasks = {T(p)}
      /\ Sound("finish", mem, launched[T(p)]) /\ Owned("finish", mem, T(p), groups)
      /\ ~left => Marked("finish", mem, T(p), groups)
  BY <1>1, Known
<1>3. /\ mem.clock \in 0..Timeout /\ ~mem.clean /\ outcome \in Outcomes
      /\ status \in {"stopped", "completed"}
  BY <1>2 DEF Mem, Sound, Outcomes
<1>4. /\ launched[T(p)] <= mem.row.attempts
      /\ outcome \in Manuals => mem.row.stalled < NoProgressLimit
      /\ outcome \in {"manual_passed", "approved"} => mem.row.source \in mem.row.evidence.passed
      /\ outcome = "approved" => mem.row.source \in mem.row.evidence.approved
  BY <1>1, <1>2 DEF Sound, Manuals
<1>5. status = "completed" => outcome = "approved"
  OBVIOUS
<1>6. row = Final(p)
  BY <1>2 DEF Final
<1>7. Harmless(row) => ~mem.row.uncertain /\ outcome # "handoff" /\ ~mem.signalled /\ outcome = mem.outcome
  BY <1>2 DEF Harmless, Row
<1> HIDE DEF outcome, status
<1>8. /\ row \in Row /\ row.status # "active" /\ row.attempts = mem.row.attempts
      /\ row.stalled = mem.row.stalled /\ row.outcome = outcome /\ row.status = status
      /\ row.source = mem.row.source /\ row.evidence = mem.row.evidence
      /\ row.uncertain = mem.row.uncertain
  BY <1>2, <1>3 DEF Row
<1> HIDE DEF row
<1>9. Work(groups) # {} => row.uncertain
  BY <1>2, <1>8 DEF Owned
<1>10. (Harmless(row) /\ ~left) => groups = {}
  BY <1>2, <1>7 DEF Marked
<1>11. groups' \subseteq Natives /\ budget' \subseteq Tasks /\ launched' \in [Tasks -> 0..(MaxAttempts + 1)]
  BY <1>1 DEF IInv, TypeOK, Natives
<1>12. faults' \in 0..MaxFaults
  <2>1. Fault \/ UNCHANGED faults
    <3> HIDE DEF Poisoned
    <3> QED  BY DEF Terminate
  <2> QED  BY <2>1, FaultBound
<1>13. /\ Go(p, "close") /\ mem' \in Mem /\ (mem'.clean => Harmless(row))
       /\ disk' = disk \/ disk' = [disk EXCEPT ![T(p)] = row]
  <2>1. CASE mem' = [mem EXCEPT !.row = row, !.clean = Harmless(row)]
    <3>1. mem' \in Mem /\ (mem'.clean => Harmless(row))
      <4> DEFINE clean == Harmless(row)
      <4>1. clean \in BOOLEAN
        BY <1>8 DEF Harmless, Row
      <4> HIDE DEF clean
      <4>2. mem' = [mem EXCEPT !.row = row, !.clean = clean]
        BY <2>1 DEF clean
      <4>3. mem' \in Mem /\ mem'.clean = clean
        BY <1>2, <1>8, <4>1, <4>2 DEF Mem
      <4> QED  BY <4>3 DEF clean
    <3>2. Go(p, "close") /\ (disk' = disk \/ disk' = [disk EXCEPT ![T(p)] = row])
      BY <1>6 DEF Terminate, Poisoned, Turn
    <3> QED  BY <3>1, <3>2
  <2>2. CASE Poisoned(p, row)
    <3>1. Go(p, "close") /\ mem' = [mem EXCEPT !.row = row]
      BY <2>2 DEF Poisoned, Turn
    <3>2. mem' \in Mem /\ ~mem'.clean
      BY <1>2, <1>3, <1>8, <3>1 DEF Mem
    <3> QED  BY <2>2, <3>1, <3>2 DEF Poisoned
  <2> QED
    <3> HIDE DEF Poisoned, Harmless
    <3> QED  BY <1>6, <2>1, <2>2 DEF Terminate
<1>14. Sound("close", mem', launched'[T(p)])
  BY <1>1, <1>13 DEF Sound, Timed, Stages, Outside, Reviews
<1>15. Owned("close", mem', T(p), groups') /\ (~left => Marked("close", mem', T(p), groups'))
  BY <1>1, <1>10, <1>13 DEF Owned, Marked
<1>16. Paid("close", mem', launched'[T(p)], disk'[T(p)])
  BY DEF Paid
<1>17. CASE disk' = disk
  <2>1. Work(groups') \subseteq Work(groups)
    BY <1>1
  <2>2. /\ RowInv' /\ OwnershipInv' /\ VerdictIsProven' /\ [Own!Next]_(Own!vars)
        /\ disk' \in [Tasks -> Row \cup {NoRow}]
    <3> HIDE DEF IInv, RowInv, OwnershipInv, VerdictIsProven
    <3> QED  BY <1>1, <1>17, <2>1, NoRowChanges
  <2> HIDE DEF IInv, RowInv, OwnershipInv, VerdictIsProven, Sound, Owned, Paid, Marked, Go
  <2> QED  BY <1>1, <1>11, <1>12, <1>13, <1>14, <1>15, <1>16, <2>2, InsideStep
<1>18. CASE disk' = [disk EXCEPT ![T(p)] = row]
  <2>1. row.status # "active" =>
          /\ row.outcome \in {"manual_passed", "approved"} => row.source \in row.evidence.passed
          /\ row.status = "completed" => row.source \in row.evidence.approved
    BY <1>4, <1>5, <1>8
  <2>2. launched[T(p)] <= row.attempts /\ (row.outcome \in Manuals => row.stalled < NoProgressLimit)
    BY <1>4, <1>8
  <2>3. /\ Work(groups') # {} => Open(row)
        /\ \A g \in Work(groups') : g.task = T(p)
    BY <1>1, <1>2, <1>9 DEF Open, IInv, OwnershipInv
  <2>4. /\ RowInv' /\ OwnershipInv' /\ VerdictIsProven' /\ disk' \in [Tasks -> Row \cup {NoRow}]
        /\ OpenTasks' = IF Open(row) THEN {T(p)} ELSE {}
    <3> HIDE DEF IInv, RowInv, OwnershipInv, VerdictIsProven, Open, Manuals
    <3> QED  BY <1>1, <1>2, <1>8, <1>11, <1>18, <2>1, <2>2, <2>3, OneRow
  <2>5. [Own!Next]_(Own!vars)
    <3>1. CASE Open(row)
      BY <1>1, <1>2, <2>4, <3>1, OwnStutter DEF WorkTasks, Work
    <3>2. CASE ~Open(row)
      <4>1. WorkTasks = {} /\ WorkTasks' = {}
        BY <1>1, <1>9, <3>2 DEF WorkTasks, Work, Open
      <4> QED  BY <1>1, <1>2, <2>4, <3>2, <4>1, OwnTurns
    <3> QED  BY <3>1, <3>2
  <2>6. IInv'
    <3> HIDE DEF IInv, RowInv, OwnershipInv, VerdictIsProven, Sound, Owned, Paid, Marked, Go
    <3> QED  BY <1>1, <1>11, <1>12, <1>13, <1>14, <1>15, <1>16, <2>4, InsideStep
  <2> QED  BY <2>5, <2>6
<1> QED  BY <1>13, <1>17, <1>18
-----------------------------------------------------------------------------
(* Admission, the ends, and what happens around the controllers.            *)

LEMMA NewMemType ==
  ASSUME checkout \in [source : Sources, safety : Safety]
  PROVE  /\ NewMem \in Mem /\ NewMem.row \in Row /\ NewMem.row.status = "active"
         /\ NewMem.row.stalled = 0 /\ NewMem.row.attempts = 0 /\ ~NewMem.clean
<1>1. NoEvidence \in Evidence
  BY DEF NoEvidence, Evidence
<1>2. 0 \in 0..MaxAttempts /\ 0 \in 0..NoProgressLimit /\ 0 \in 0..Timeout
  BY LimitsAssumption
<1>3. NewMem.row \in Row
  BY <1>1, <1>2 DEF NewMem, Row, Outcomes
<1>4. NewMem \in Mem
  BY <1>2, <1>3, CodesAssumption DEF NewMem, Mem, Outcomes
<1> QED  BY <1>3, <1>4 DEF NewMem

\* A controller outside the lock stays there.
Outsider(p) ==
  /\ pc[p] \in Outside /\ request' \in [Procs -> [task : Tasks, resume : BOOLEAN]]
  /\ \E stage \in Outside : Go(p, stage)
  /\ \A q \in Procs \ {p} : request'[q] = request[q]

LEMMA OutsiderBy ==
  ASSUME IInv, NEW p \in Procs, pc[p] \in Outside, NEW stage \in Outside, Go(p, stage),
         NEW r \in [task : Tasks, resume : BOOLEAN], request' = [request EXCEPT ![p] = r]
  PROVE  Outsider(p)
<1>1. request \in [Procs -> [task : Tasks, resume : BOOLEAN]]
  BY DEF IInv, TypeOK
<1>2. /\ request' \in [Procs -> [task : Tasks, resume : BOOLEAN]]
      /\ \A q \in Procs \ {p} : request'[q] = request[q]
  BY <1>1
<1> QED  BY <1>2 DEF Outsider

LEMMA OutsideStep ==
  ASSUME IInv, NEW p \in Procs, Outsider(p), left => left', left' \in BOOLEAN, started' \subseteq Procs,
         faults' \in 0..MaxFaults, UNCHANGED <<mem, disk, checkout, groups, budget, launched>>
  PROVE  IInv' /\ [Own!Next]_(Own!vars)
<1>1. /\ pc' \in [Procs -> Stages] /\ pc'[p] \in Outside /\ pc[p] \in Outside
      /\ \A q \in Procs \ {p} : pc'[q] = pc[q] /\ T(q)' = T(q)
  BY DEF Outsider, Go, IInv, TypeOK, Stages, T
<1>2. /\ RowInv' /\ OwnershipInv' /\ VerdictIsProven' /\ OpenTasks' = OpenTasks /\ Rows' = Rows
      /\ [Own!Next]_(Own!vars)
  BY NoRowChanges
<1>3. TypeOK'
  <2>1. request' \in [Procs -> [task : Tasks, resume : BOOLEAN]]
    BY DEF Outsider
  <2>2. \A q, r \in Procs : pc'[q] \notin Outside /\ pc'[r] \notin Outside => q = r
    BY <1>1 DEF IInv, TypeOK
  <2> QED  BY <1>1, <2>1, <2>2 DEF IInv, TypeOK
<1>4. InsideInv'
  <2> SUFFICES ASSUME NEW q \in Procs, pc'[q] \notin Outside
               PROVE  /\ Sound(pc'[q], mem, launched[T(q)'])
                      /\ Owned(pc'[q], mem, T(q)', groups)
                      /\ pc'[q] \in {"admitted", "begin"} => OpenTasks' = {}
                      /\ pc'[q] \in Timed => T(q)' \in Rows' /\ disk[T(q)'].status = "active"
                      /\ Paid(pc'[q], mem, launched[T(q)'], disk[T(q)'])
                      /\ ~left' => Marked(pc'[q], mem, T(q)', groups)
    BY DEF InsideInv, Sound, Owned, Paid, Marked, Expected, Work
  <2>1. pc'[q] = pc[q] /\ T(q)' = T(q) /\ pc[q] \notin Outside
    BY <1>1
  <2>2. /\ Sound(pc[q], mem, launched[T(q)])
        /\ Owned(pc[q], mem, T(q), groups)
        /\ pc[q] \in {"admitted", "begin"} => OpenTasks = {}
        /\ pc[q] \in Timed => T(q) \in Rows /\ disk[T(q)].status = "active"
        /\ Paid(pc[q], mem, launched[T(q)], disk[T(q)])
        /\ ~left => Marked(pc[q], mem, T(q), groups)
    BY <2>1 DEF IInv, InsideInv
  <2> HIDE DEF Sound, Owned, Paid, Marked, T
  <2> QED  BY <1>2, <2>1, <2>2
<1>5. MarkerInv'
  <2>1. \A q \in Procs : pc'[q] \in Outside <=> pc[q] \in Outside
    BY <1>1
  <2>2. (~left' => ~left) /\ groups' = groups
    OBVIOUS
  <2>3. ~left /\ (\A q \in Procs : pc[q] \in Outside) => groups = {}
    BY DEF MarkerInv, IInv
  <2> QED  BY <2>1, <2>2, <2>3 DEF MarkerInv
<1> QED
  <2> HIDE DEF RowInv, OwnershipInv, VerdictIsProven
  <2> QED  BY <1>2, <1>3, <1>4, <1>5 DEF IInv

LEMMA LockInv ==
  ASSUME IInv, NEW p \in Procs, Lock(p)  PROVE IInv' /\ [Own!Next]_(Own!vars)
<1>1. /\ pc[p] = "guarded" /\ pc[p] \in Outside
      /\ UNCHANGED <<disk, checkout, groups, budget, left, launched, started, faults>>
  BY DEF Lock, Outside
<1>2. /\ RowInv' /\ OwnershipInv' /\ VerdictIsProven' /\ OpenTasks' = OpenTasks /\ Rows' = Rows
      /\ disk' \in [Tasks -> Row \cup {NoRow}] /\ launched' \in [Tasks -> 0..(MaxAttempts + 1)]
      /\ [Own!Next]_(Own!vars)
  BY <1>1, NoRowChanges
<1>3. /\ groups' \subseteq Natives /\ budget' \subseteq Tasks /\ faults' \in 0..MaxFaults
      /\ checkout \in [source : Sources, safety : Safety] /\ T(p) \in Tasks
  BY <1>1 DEF IInv, TypeOK, Natives, T
<1>4. CASE Forget(p) /\ UNCHANGED mem
  <2>1. Outsider(p)
    <3>1. NoRequest \in [task : Tasks, resume : BOOLEAN] /\ "idle" \in Outside
      BY CheckoutAssumption DEF NoRequest, Outside
    <3> HIDE DEF IInv, Go, NoRequest
    <3> QED  BY <1>1, <1>4, <3>1, OutsiderBy DEF Forget
  <2>2. (left => left') /\ left' \in BOOLEAN /\ started' \subseteq Procs
    BY <1>1 DEF IInv, TypeOK
  <2> HIDE DEF IInv, Outsider
  <2> QED  BY <1>1, <1>3, <1>4, <2>1, <2>2, OutsideStep
<1>5. CASE /\ ~Blocked /\ \A q \in Procs : pc[q] \in Outside
           /\ Go(p, "admitted") /\ mem' = NewMem /\ UNCHANGED request
  <2>1. OpenTasks = {} /\ Work(groups) = {} /\ (~left => groups = {})
    BY <1>5 DEF Blocked, OpenTasks, Open, IInv, OwnershipInv, MarkerInv
  <2>2. /\ NewMem \in Mem /\ NewMem.row.status = "active" /\ NewMem.row.stalled = 0 /\ ~NewMem.clean
    BY <1>3, NewMemType
  <2>3. Sound("admitted", mem', launched'[T(p)])
    BY <1>5, <2>2, LimitsAssumption DEF Sound, Timed, Stages, Outside, Reviews
  <2>4. Owned("admitted", mem', T(p), groups') /\ (~left => Marked("admitted", mem', T(p), groups'))
    BY <1>1, <2>1 DEF Owned, Marked
  <2>5. Paid("admitted", mem', launched'[T(p)], disk'[T(p)])
    BY DEF Paid
  <2>6. "admitted" \in Stages \ Outside /\ "admitted" \notin Timed
    BY DEF Timed, Stages, Outside
  <2> HIDE DEF IInv, RowInv, OwnershipInv, VerdictIsProven, Sound, Owned, Paid, Marked, Go
  <2>7. IInv'
    BY <1>1, <1>2, <1>3, <1>5, <2>1, <2>3, <2>4, <2>5, <2>6, OnlyStep
  <2> QED  BY <1>2, <2>7
<1> QED  BY <1>4, <1>5 DEF Lock

LEMMA StartInv ==
  ASSUME IInv, NEW p \in Procs, Start(p)  PROVE IInv' /\ [Own!Next]_(Own!vars)
<1>1. PICK t \in Tasks, resume \in BOOLEAN :
        request' = [request EXCEPT ![p] = [task |-> t, resume |-> resume]]
  BY DEF Start
<1>2. started' \subseteq Procs
  BY LimitsAssumption DEF Start, IInv, TypeOK
<1>3. Outsider(p)
  <2>1. /\ pc[p] \in Outside /\ "guarded" \in Outside /\ Go(p, "guarded")
        /\ [task |-> t, resume |-> resume] \in [task : Tasks, resume : BOOLEAN]
    BY DEF Start, Outside
  <2> HIDE DEF IInv, Go
  <2> QED  BY <1>1, <2>1, OutsiderBy
<1>4. /\ UNCHANGED <<mem, disk, checkout, groups, budget, launched>> /\ (left => left') /\ left' \in BOOLEAN
      /\ faults' \in 0..MaxFaults
  BY DEF Start, IInv, TypeOK
<1> QED
  <2> HIDE DEF IInv, Outsider
  <2> QED  BY <1>2, <1>3, <1>4, OutsideStep
\* A step inside the lock that publishes nothing.
LEMMA UnsavedInv ==
  ASSUME IInv, NEW p \in Procs, pc[p] \notin Outside, NEW stage \in Stages \ Outside, Go(p, stage),
         stage \in Timed => pc[p] \in Timed, stage \in {"admitted", "begin"} => OpenTasks = {},
         UNCHANGED <<request, disk, checkout, left, launched, started>>,
         groups' \subseteq Natives, Work(groups') \subseteq Work(groups),
         budget' \subseteq Tasks, faults' \in 0..MaxFaults,
         Sound(stage, mem', launched[T(p)]), Owned(stage, mem', T(p), groups'),
         Paid(stage, mem', launched[T(p)], disk[T(p)]),
         ~left => Marked(stage, mem', T(p), groups')
  PROVE  IInv' /\ [Own!Next]_(Own!vars)
<1>1. /\ RowInv' /\ OwnershipInv' /\ VerdictIsProven' /\ OpenTasks' = OpenTasks /\ Rows' = Rows
      /\ disk' \in [Tasks -> Row \cup {NoRow}] /\ launched' \in [Tasks -> 0..(MaxAttempts + 1)]
      /\ [Own!Next]_(Own!vars)
  BY NoRowChanges
<1>2. pc[p] \in Timed => T(p) \in Rows /\ disk[T(p)].status = "active"
  BY Known
<1>3. /\ Sound(stage, mem', launched'[T(p)]) /\ Paid(stage, mem', launched'[T(p)], disk'[T(p)])
      /\ stage \in Timed => T(p) \in Rows' /\ disk'[T(p)].status = "active"
      /\ stage \in {"admitted", "begin"} => OpenTasks' = {}
  BY <1>1, <1>2
<1>4. IInv'
  <2> HIDE DEF IInv, RowInv, OwnershipInv, VerdictIsProven, Sound, Owned, Paid, Marked, Go
  <2> QED  BY <1>1, <1>3, InsideStep
<1> QED  BY <1>1, <1>4

LEMMA ObserveInv ==
  ASSUME IInv, NEW p \in Procs, Observe(p)  PROVE IInv' /\ [Own!Next]_(Own!vars)
<1>1. /\ pc[p] = "admitted" /\ pc[p] \notin Outside /\ {"begin", "close"} \subseteq Stages \ Outside
      /\ "begin" \notin Timed /\ "close" \notin Timed
      /\ UNCHANGED <<request, disk, checkout, groups, budget, left, launched, started, faults>>
  BY DEF Observe, Timed, Stages, Outside
<1>2. /\ mem \in Mem /\ mem.row \in Row /\ OpenTasks = {} /\ T(p) \in Tasks
      /\ Sound("admitted", mem, launched[T(p)]) /\ Owned("admitted", mem, T(p), groups)
      /\ ~left => Marked("admitted", mem, T(p), groups)
  BY <1>1, Known
<1>3. /\ groups' \subseteq Natives /\ budget' \subseteq Tasks /\ faults' \in 0..MaxFaults
      /\ Work(groups') \subseteq Work(groups)
      /\ checkout \in [source : Sources, safety : Safety] /\ mem.signalled \in BOOLEAN
      /\ disk \in [Tasks -> Row \cup {NoRow}]
  BY <1>1, <1>2 DEF IInv, TypeOK, Natives, Mem
<1>4. Work(groups) = {} /\ (~left => groups = {})
  BY <1>1, <1>2 DEF Owned, Marked, Expected
<1>5. ASSUME NEW row \in Admitted(p), Go(p, "begin"),
             mem' = [NewMem EXCEPT !.row = row, !.clock = row.elapsed, !.signalled = mem.signalled]
      PROVE  IInv' /\ [Own!Next]_(Own!vars)
  <2>1. /\ row \in Row /\ row.status = "active" /\ launched[T(p)] <= row.attempts
        /\ row.stalled < NoProgressLimit
    <3>1. CASE request[p].resume
      <4>1. /\ T(p) \in Rows /\ Resumable(p, disk[T(p)])
            /\ row = [disk[T(p)] EXCEPT !.status = "active"]
        BY <1>2, <1>5, <3>1 DEF Admitted, Rows
      <4>2. disk[T(p)] \in Row /\ disk[T(p)].outcome \in Manuals
        BY <1>2, <1>3, <4>1 DEF Rows, Resumable, Manuals
      <4>3. launched[T(p)] <= disk[T(p)].attempts /\ disk[T(p)].stalled < NoProgressLimit
        BY <1>2, <4>1, <4>2 DEF IInv, RowInv
      <4> QED  BY <4>1, <4>2, <4>3 DEF Row
    <3>2. CASE ~request[p].resume
      <4>1. T(p) \notin Rows /\ row = NewMem.row
        BY <1>5, <3>2 DEF Admitted, Rows
      <4>2. launched[T(p)] = 0
        BY <1>2, <4>1 DEF IInv, RowInv
      <4> QED  BY <1>3, <4>1, <4>2, NewMemType, LimitsAssumption
    <3> QED  BY <3>1, <3>2
  <2>2. mem' \in Mem /\ mem'.row = row /\ ~mem'.clean
    <3>1. NewMem \in Mem /\ ~NewMem.clean /\ row.elapsed \in 0..Timeout
      BY <1>3, <2>1, NewMemType DEF Row
    <3> HIDE DEF NewMem
    <3> QED  BY <1>3, <1>5, <2>1, <3>1 DEF Mem
  <2>3. Sound("begin", mem', launched[T(p)])
    BY <2>1, <2>2 DEF Sound, Timed, Stages, Outside, Reviews
  <2>4. Owned("begin", mem', T(p), groups') /\ (~left => Marked("begin", mem', T(p), groups'))
    BY <1>1, <1>4 DEF Owned, Marked
  <2>5. Paid("begin", mem', launched[T(p)], disk[T(p)])
    BY DEF Paid
  <2> HIDE DEF IInv, Sound, Owned, Paid, Marked, Go
  <2> QED  BY <1>1, <1>2, <1>3, <1>5, <2>3, <2>4, <2>5, UnsavedInv
<1>6. CASE Turn(p, "close", mem.row)
  <2>1. Go(p, "close") /\ mem' = mem /\ ~mem'.clean
    BY <1>2, <1>6 DEF Turn, Mem, Sound
  <2>2. Sound("close", mem', launched[T(p)])
    BY <1>2, <2>1 DEF Sound, Timed, Stages, Outside, Reviews
  <2>3. Owned("close", mem', T(p), groups') /\ (~left => Marked("close", mem', T(p), groups'))
    BY <2>1 DEF Owned, Marked
  <2>4. Paid("close", mem', launched[T(p)], disk[T(p)])
    BY DEF Paid
  <2> HIDE DEF IInv, Sound, Owned, Paid, Marked, Go
  <2> QED  BY <1>1, <1>2, <1>3, <2>1, <2>2, <2>3, <2>4, UnsavedInv
<1> QED  BY <1>5, <1>6 DEF Observe

LEMMA ObserveFailsInv ==
  ASSUME IInv, NEW p \in Procs, ObserveFails(p)  PROVE IInv' /\ [Own!Next]_(Own!vars)
<1>1. /\ pc[p] = "admitted" /\ pc[p] \notin Outside /\ "close" \in Stages \ Outside
      /\ "close" \notin Timed
      /\ UNCHANGED <<request, disk, checkout, budget, left, launched, started>>
  BY DEF ObserveFails, Timed, Stages, Outside
<1>2. /\ mem \in Mem /\ mem.row \in Row /\ T(p) \in Tasks /\ Sound("admitted", mem, launched[T(p)])
  BY <1>1, Known
<1>3. faults' \in 0..MaxFaults
  BY FaultBound DEF ObserveFails
<1>4. /\ groups' \subseteq Natives /\ budget' \subseteq Tasks /\ Work(groups') \subseteq Work(groups)
  <2>1. Group(T(p), "probe") \in Natives /\ groups \subseteq Natives /\ budget \subseteq Tasks
    BY <1>2 DEF IInv, TypeOK, Natives, Group, Kinds
  <2> QED  BY <1>1, <2>1 DEF ObserveFails, Work, Group
<1>5. Go(p, "close") /\ mem' = mem /\ ~mem'.clean
  BY <1>2 DEF ObserveFails, Turn, Mem, Sound
<1>6. Sound("close", mem', launched[T(p)])
  BY <1>2, <1>5 DEF Sound, Timed, Stages, Outside, Reviews
<1>7. Owned("close", mem', T(p), groups') /\ (~left => Marked("close", mem', T(p), groups'))
  BY <1>5 DEF Owned, Marked
<1>8. Paid("close", mem', launched[T(p)], disk[T(p)])
  BY DEF Paid
<1> QED
  <2> HIDE DEF IInv, Sound, Owned, Paid, Marked, Go
  <2> QED  BY <1>1, <1>3, <1>4, <1>5, <1>6, <1>7, <1>8, UnsavedInv

LEMMA SignalInv ==
  ASSUME IInv, NEW p \in Procs, Signal(p)  PROVE IInv' /\ [Own!Next]_(Own!vars)
<1>1. /\ pc[p] \notin Outside /\ pc[p] # "close" /\ mem' = [mem EXCEPT !.signalled = TRUE]
      /\ UNCHANGED <<pc, request, disk, checkout, groups, budget, left, launched, started, faults>>
  BY DEF Signal
<1> DEFINE stage == pc[p]
<1>2. /\ mem \in Mem /\ stage \in Stages \ Outside /\ Sound(stage, mem, launched[T(p)])
      /\ Owned(stage, mem, T(p), groups) /\ Paid(stage, mem, launched[T(p)], disk[T(p)])
      /\ ~left => Marked(stage, mem, T(p), groups)
      /\ stage \in {"admitted", "begin"} => OpenTasks = {}
  BY <1>1, Known
<1>3. Go(p, stage) /\ groups' \subseteq Natives /\ budget' \subseteq Tasks /\ faults' \in 0..MaxFaults
  BY <1>1 DEF Go, IInv, TypeOK, Natives
<1>4. /\ mem' \in Mem /\ mem'.row = mem.row /\ mem'.clean = mem.clean /\ mem'.role = mem.role
      /\ mem'.code = mem.code /\ mem'.answer = mem.answer /\ mem'.before = mem.before
      /\ mem'.outcome = mem.outcome
  BY <1>1, <1>2 DEF Mem
<1> HIDE DEF stage
<1>5. Sound(stage, mem', launched[T(p)])
  BY <1>2, <1>4 DEF Sound
<1>6. Owned(stage, mem', T(p), groups') /\ Paid(stage, mem', launched[T(p)], disk[T(p)])
  BY <1>1, <1>2, <1>4 DEF Owned, Paid
<1>7. ~left => Marked(stage, mem', T(p), groups')
  BY <1>1, <1>2, <1>4 DEF Marked
<1>8. stage \in Timed => pc[p] \in Timed
  BY DEF stage
<1> QED
  <2> HIDE DEF IInv, Sound, Owned, Paid, Marked, Go
  <2> QED  BY <1>1, <1>2, <1>3, <1>5, <1>6, <1>7, <1>8, UnsavedInv

LEMMA TickInv ==
  ASSUME IInv, NEW p \in Procs, Tick(p)  PROVE IInv' /\ [Own!Next]_(Own!vars)
<1>1. /\ pc[p] \in Timed /\ pc[p] \notin Outside
      /\ mem.clock < Timeout /\ mem' = [mem EXCEPT !.clock = @ + 1]
      /\ UNCHANGED <<pc, request, disk, checkout, groups, budget, left, launched, started, faults>>
  BY DEF Tick, Timed
<1> DEFINE stage == pc[p]
<1>2. /\ mem \in Mem /\ stage \in Stages \ Outside /\ Sound(stage, mem, launched[T(p)])
      /\ Owned(stage, mem, T(p), groups) /\ Paid(stage, mem, launched[T(p)], disk[T(p)])
      /\ ~left => Marked(stage, mem, T(p), groups)
      /\ stage \in {"admitted", "begin"} => OpenTasks = {}
  BY <1>1, Known
<1>3. Go(p, stage) /\ groups' \subseteq Natives /\ budget' \subseteq Tasks /\ faults' \in 0..MaxFaults
  BY <1>1 DEF Go, IInv, TypeOK, Natives
<1>4. /\ mem' \in Mem /\ mem'.row = mem.row /\ mem'.clean = mem.clean /\ mem'.role = mem.role
      /\ mem'.code = mem.code /\ mem'.answer = mem.answer /\ mem'.before = mem.before
      /\ mem'.outcome = mem.outcome
  <2>1. mem.clock + 1 \in 0..Timeout
    BY <1>1, <1>2, LimitsAssumption DEF Mem
  <2> QED  BY <1>1, <1>2, <2>1 DEF Mem
<1> HIDE DEF stage
<1>5. Sound(stage, mem', launched[T(p)])
  BY <1>2, <1>4 DEF Sound
<1>6. Owned(stage, mem', T(p), groups') /\ Paid(stage, mem', launched[T(p)], disk[T(p)])
  BY <1>1, <1>2, <1>4 DEF Owned, Paid
<1>7. ~left => Marked(stage, mem', T(p), groups')
  BY <1>1, <1>2, <1>4 DEF Marked
<1>8. stage \in Timed => pc[p] \in Timed
  BY DEF stage
<1> QED
  <2> HIDE DEF IInv, Sound, Owned, Paid, Marked, Go
  <2> QED  BY <1>1, <1>2, <1>3, <1>5, <1>6, <1>7, <1>8, UnsavedInv
\* The controller leaves the lock, by its own hand or by death.
LEMMA LeaveLock ==
  ASSUME IInv, NEW p \in Procs, pc[p] \notin Outside, Forget(p), mem' = NoMem,
         left' \in BOOLEAN, left => left', ~left' => groups = {}, faults' \in 0..MaxFaults,
         UNCHANGED <<disk, checkout, groups, budget, launched, started>>
  PROVE  IInv' /\ [Own!Next]_(Own!vars)
<1>1. /\ RowInv' /\ OwnershipInv' /\ VerdictIsProven' /\ [Own!Next]_(Own!vars)
  BY NoRowChanges
<1>2. \A q \in Procs : pc'[q] \in Outside
  <2>1. \A q \in Procs : pc[q] \notin Outside => q = p
    BY Known
  <2> QED  BY <2>1 DEF Forget, Go, Outside, IInv, TypeOK
<1>3. TypeOK'
  <2>1. pc' \in [Procs -> Stages] /\ request' \in [Procs -> [task : Tasks, resume : BOOLEAN]]
    BY CheckoutAssumption DEF Forget, Go, NoRequest, IInv, TypeOK, Stages, Outside
  <2> QED  BY <1>2, <2>1 DEF IInv, TypeOK
<1>4. InsideInv'
  BY <1>2 DEF InsideInv
<1>5. MarkerInv'
  BY DEF MarkerInv
<1> QED
  <2> HIDE DEF RowInv, OwnershipInv, VerdictIsProven
  <2> QED  BY <1>1, <1>3, <1>4, <1>5 DEF IInv

LEMMA CloseInv ==
  ASSUME IInv, NEW p \in Procs, Close(p)  PROVE IInv' /\ [Own!Next]_(Own!vars)
<1>1. pc[p] = "close" /\ pc[p] \notin Outside /\ Forget(p) /\ mem' = NoMem
  BY DEF Close, Outside
<1>2. mem \in Mem /\ (~left => Marked("close", mem, T(p), groups)) /\ left \in BOOLEAN
  BY <1>1, Known DEF IInv, TypeOK
<1>3. mem.clean \in BOOLEAN
  BY <1>2 DEF Mem
<1>4. left' \in BOOLEAN /\ (left => left') /\ (~left' => groups = {})
  <2>1. CASE left' = (left \/ ~mem.clean)
    BY <1>2, <1>3, <2>1 DEF Marked
  <2>2. CASE left' = TRUE
    BY <2>2
  <2> QED  BY <2>1, <2>2 DEF Close
<1>5. faults' \in 0..MaxFaults /\ UNCHANGED <<disk, checkout, groups, budget, launched, started>>
  BY FaultBound DEF Close
<1> QED
  <2> HIDE DEF IInv, Forget
  <2> QED  BY <1>1, <1>4, <1>5, LeaveLock

LEMMA CrashInv ==
  ASSUME IInv, NEW p \in Procs, Crash(p)  PROVE IInv' /\ [Own!Next]_(Own!vars)
<1>1. /\ Forget(p) /\ left' = TRUE
      /\ UNCHANGED <<disk, checkout, groups, budget, launched, started>>
  BY DEF Crash
<1>2. faults' \in 0..MaxFaults
  BY FaultBound DEF Crash
<1>3. CASE pc[p] \notin Outside
  <2>1. mem' = NoMem
    BY <1>3 DEF Crash
  <2> HIDE DEF IInv, Forget
  <2> QED  BY <1>1, <1>2, <1>3, <2>1, LeaveLock
<1>4. CASE pc[p] \in Outside
  <2>1. mem' = mem /\ started' \subseteq Procs
    BY <1>1, <1>4 DEF Crash, IInv, TypeOK
  <2>2. NoRequest \in [task : Tasks, resume : BOOLEAN] /\ "idle" \in Outside
    BY CheckoutAssumption DEF NoRequest, Outside
  <2>3. Outsider(p)
    <3> HIDE DEF IInv, Go, NoRequest
    <3> QED  BY <1>1, <1>4, <2>2, OutsiderBy DEF Forget
  <2> HIDE DEF IInv, Outsider
  <2> QED  BY <1>1, <1>2, <2>1, <2>3, OutsideStep
<1> QED  BY <1>3, <1>4

\* Nothing the controllers know of changes, except groups that end.
LEMMA StillInv ==
  ASSUME IInv, UNCHANGED <<pc, request, mem, disk, left, launched, started, faults>>,
         checkout' \in [source : Sources, safety : Safety], groups' \subseteq groups,
         budget' \subseteq Tasks
  PROVE  IInv' /\ [Own!Next]_(Own!vars)
<1>1. Work(groups') \subseteq Work(groups) /\ \A q \in Procs : T(q)' = T(q)
  BY DEF Work, T
<1>2. /\ RowInv' /\ OwnershipInv' /\ VerdictIsProven' /\ OpenTasks' = OpenTasks /\ Rows' = Rows
      /\ [Own!Next]_(Own!vars)
  BY <1>1, NoRowChanges
<1>3. TypeOK'
  BY DEF IInv, TypeOK
<1>4. InsideInv'
  <2> SUFFICES ASSUME NEW q \in Procs, pc[q] \notin Outside
               PROVE  /\ Sound(pc[q], mem, launched[T(q)'])
                      /\ Owned(pc[q], mem, T(q)', groups')
                      /\ pc[q] \in {"admitted", "begin"} => OpenTasks' = {}
                      /\ pc[q] \in Timed => T(q)' \in Rows' /\ disk[T(q)'].status = "active"
                      /\ Paid(pc[q], mem, launched[T(q)'], disk[T(q)'])
                      /\ ~left => Marked(pc[q], mem, T(q)', groups')
    BY DEF InsideInv, Sound, Owned, Paid, Marked, Expected, Work
  <2>1. /\ Sound(pc[q], mem, launched[T(q)])
        /\ Owned(pc[q], mem, T(q), groups)
        /\ pc[q] \in {"admitted", "begin"} => OpenTasks = {}
        /\ pc[q] \in Timed => T(q) \in Rows /\ disk[T(q)].status = "active"
        /\ Paid(pc[q], mem, launched[T(q)], disk[T(q)])
        /\ ~left => Marked(pc[q], mem, T(q), groups)
    BY DEF IInv, InsideInv
  <2>2. Owned(pc[q], mem, T(q), groups')
    BY <1>1, <2>1 DEF Owned
  <2>3. ~left => Marked(pc[q], mem, T(q), groups')
    BY <2>1 DEF Marked
  <2> HIDE DEF Sound, Owned, Paid, Marked, T
  <2> QED  BY <1>1, <1>2, <2>1, <2>2, <2>3
<1>5. MarkerInv'
  BY DEF IInv, MarkerInv
<1> QED
  <2> HIDE DEF RowInv, OwnershipInv, VerdictIsProven
  <2> QED  BY <1>2, <1>3, <1>4, <1>5 DEF IInv

\* The operator closes a task whose groups are gone, with nobody inside.
LEMMA RecoverInv ==
  ASSUME IInv, NEW t \in Tasks, Recover(t)  PROVE IInv' /\ [Own!Next]_(Own!vars)
<1> DEFINE row == [disk[t] EXCEPT !.status = "stopped", !.uncertain = FALSE,
                                  !.outcome = "interrupted", !.elapsed = Timeout]
<1>1. /\ t \in Rows /\ Open(disk[t]) /\ disk' = [disk EXCEPT ![t] = row]
      /\ \A p \in Procs : pc[p] = "idle"
      /\ Group(t, "check") \notin groups /\ Group(t, "model") \notin groups
      /\ UNCHANGED <<pc, request, mem, checkout, groups, budget, left, launched, started, faults>>
  BY DEF Recover, Stopped, Open
<1>2. disk[t] \in Row /\ t \in OpenTasks /\ OpenTasks = {t}
  BY <1>1 DEF IInv, TypeOK, Rows, OpenTasks, OwnershipInv
<1>3. /\ row \in Row /\ row.status = "stopped" /\ ~row.uncertain /\ row.outcome = "interrupted"
      /\ row.attempts = disk[t].attempts
  <2>1. Timeout \in 0..Timeout /\ "interrupted" \in Outcomes
    BY LimitsAssumption DEF Outcomes
  <2> QED  BY <1>2, <2>1 DEF Row
<1> HIDE DEF row
<1>4. launched[t] <= row.attempts /\ ~Open(row) /\ (row.outcome \in Manuals => FALSE)
  BY <1>1, <1>3 DEF IInv, RowInv, Open, Manuals
<1>5. Work(groups) = {} /\ groups' \subseteq Natives
  <2>1. \A g \in Work(groups) : g \in {Group(t, "check"), Group(t, "model")}
    BY <1>2 DEF IInv, TypeOK, OwnershipInv, Work, Group, Kinds
  <2>2. Work(groups) = {}
    BY <1>1, <2>1 DEF Work
  <2> QED  BY <1>1, <2>2 DEF IInv, TypeOK, Natives
<1>6. /\ RowInv' /\ OwnershipInv' /\ VerdictIsProven' /\ disk' \in [Tasks -> Row \cup {NoRow}]
      /\ OpenTasks' = IF Open(row) THEN {t} ELSE {}
  <2>1. row.status # "active" =>
          /\ row.outcome \in {"manual_passed", "approved"} => row.source \in row.evidence.passed
          /\ row.status = "completed" => row.source \in row.evidence.approved
    BY <1>3
  <2>2. Work(groups') = {}
    BY <1>1, <1>5
  <2> HIDE DEF IInv, RowInv, OwnershipInv, VerdictIsProven, Open, Manuals
  <2> QED  BY <1>1, <1>2, <1>3, <1>4, <1>5, <2>1, <2>2, OneRow
<1>7. WorkTasks = {} /\ WorkTasks' = {}
  BY <1>1, <1>5 DEF WorkTasks, Work
<1>8. [Own!Next]_(Own!vars)
  BY <1>1, <1>2, <1>4, <1>6, <1>7, OwnTurns
<1>9. TypeOK'
  BY <1>1, <1>6 DEF IInv, TypeOK
<1>10. InsideInv'
  BY <1>1 DEF InsideInv, Outside
<1>11. MarkerInv'
  BY <1>1 DEF IInv, MarkerInv
<1> QED
  <2> HIDE DEF RowInv, OwnershipInv, VerdictIsProven
  <2> QED  BY <1>6, <1>8, <1>9, <1>10, <1>11 DEF IInv

-----------------------------------------------------------------------------
\* Every step of a controller.
LEMMA StepInv ==
  ASSUME IInv, NEW p \in Procs, Step(p)  PROVE IInv' /\ [Own!Next]_(Own!vars)
<1> HIDE DEF IInv
<1> QED  BY LockInv, ObserveInv, ObserveFailsInv, BeginInv, IterateInv, SaveAttemptInv, SaveRoleInv,
            LaunchInv, LaunchRefusedInv, LaunchFailsInv, EndedInv, EndFailsInv, SaveAnswerInv,
            ImplementedInv, CheckInv, SaveCheckInv, SpawnInv, PublishPIDInv, CheckFailsInv,
            CheckedInv, SaveEvidenceInv, RecheckInv, JudgeInv, ReviewedInv, SaveReviewInv,
            DecideInv, TerminateInv, CloseInv DEF Step

LEMMA NextInv == IInv /\ [Next]_vars => IInv' /\ [Own!Next]_(Own!vars)
<1> SUFFICES ASSUME IInv, [Next]_vars  PROVE IInv' /\ [Own!Next]_(Own!vars)
  OBVIOUS
<1>1. checkout \in [source : Sources, safety : Safety] /\ budget \subseteq Tasks
  BY DEF IInv, TypeOK
<1>2. ASSUME NEW p \in Procs, Start(p) \/ Step(p) \/ Crash(p) \/ Tick(p) \/ Signal(p)
      PROVE  IInv' /\ [Own!Next]_(Own!vars)
  <2> HIDE DEF IInv
  <2> QED  BY <1>2, StartInv, StepInv, CrashInv, TickInv, SignalInv
<1>3. CASE Edit
  <2> HIDE DEF IInv
  <2> QED  BY <1>1, <1>3, StillInv DEF Edit
<1>4. ASSUME NEW g \in groups, GroupExit(g)
      PROVE  IInv' /\ [Own!Next]_(Own!vars)
  <2> HIDE DEF IInv
  <2> QED  BY <1>1, <1>4, StillInv DEF GroupExit
<1>5. ASSUME NEW t \in Tasks, RepairBudget(t)
      PROVE  IInv' /\ [Own!Next]_(Own!vars)
  <2> HIDE DEF IInv
  <2> QED  BY <1>1, <1>5, StillInv DEF RepairBudget
<1>6. ASSUME NEW t \in Tasks, Recover(t)
      PROVE  IInv' /\ [Own!Next]_(Own!vars)
  BY <1>6, RecoverInv
<1>7. CASE UNCHANGED vars
  <2> HIDE DEF IInv
  <2> QED  BY <1>1, <1>7, StillInv DEF vars
<1> QED
  <2> HIDE DEF IInv
  <2> QED  BY <1>2, <1>3, <1>4, <1>5, <1>6, <1>7 DEF Next

THEOREM Invariant == Spec => []IInv
<1>1. Init => IInv
  BY InitInv
<1>2. IInv /\ [Next]_vars => IInv'
  BY NextInv
<1> QED  BY <1>1, <1>2, PTL DEF Spec

\* Every variable keeps its type, and one controller is inside the lock.
THEOREM TypeCorrect == Spec => []TypeOK
<1>1. IInv => TypeOK
  BY DEF IInv
<1> QED  BY <1>1, Invariant, PTL

\* manual_run.go:316-337, bounded.go:82-107: a verdict has its evidence, of the very content.
THEOREM VerdictHolds == Spec => []VerdictIsProven
<1>1. IInv => VerdictIsProven
  BY DEF IInv
<1> QED  BY <1>1, Invariant, PTL

\* manual_run.go:147-155: no native group is both unsupervised and unmarked.
THEOREM GroupsMarked == Spec => []GroupsAreMarked
<1>1. IInv => GroupsAreMarked
  <2> SUFFICES ASSUME IInv, groups # {}, ~left  PROVE \E p \in Procs : pc[p] \notin Outside /\ ~mem.clean
    BY DEF GroupsAreMarked
  <2>1. PICK p \in Procs : pc[p] \notin Outside
    BY DEF IInv, MarkerInv
  <2>2. Sound(pc[p], mem, launched[T(p)]) /\ Marked(pc[p], mem, T(p), groups)
    BY <2>1, Known
  <2>3. ~mem.clean
    BY <2>2 DEF Sound, Marked
  <2> QED  BY <2>1, <2>3
<1> QED  BY <1>1, Invariant, PTL

\* Together the controllers, whatever dies or is edited around them, implement LoopOwnership.
THEOREM ImplementsOwnership == Spec => OneTaskAtATime
<1>1. Init => Own!Init
  BY InitInv
<1>2. IInv /\ [Next]_vars => [Own!Next]_(Own!vars)
  BY NextInv
<1> QED  BY <1>1, <1>2, Invariant, PTL DEF Spec, OneTaskAtATime, Own!Spec

-----------------------------------------------------------------------------
LEMMA Places ==
  /\ Place["idle"] = 0 /\ Place["close"] = 1 /\ Place["finish"] = 2 /\ Place["loop"] = 3
  /\ Place["decide"] = 4 /\ Place["accept"] = 5 /\ Place["reviewed"] = 6 /\ Place["judge"] = 11
  /\ Place["recheck"] = 12 /\ Place["evidence"] = 13 /\ Place["checking"] = 14
  /\ Place["spawned"] = 15 /\ Place["spawn"] = 16 /\ Place["starting"] = 17
  /\ Place["check"] = 18 /\ Place["implemented"] = 19 /\ Place["answered"] = 20
  /\ Place["running"] = 21 /\ Place["launch"] = 22 /\ Place["invoke"] = 23
  /\ Place["attempt"] = 24 /\ Place["begin"] = 25 /\ Place["admitted"] = 26
  /\ Place["guarded"] = 27
BY DEF Place

\* A step to one of these stages, or out, that keeps the attempts and the role.
Same(p, stages) ==
  /\ pc'[p] \in stages \cup {"finish", "close"}
  /\ mem'.row.attempts = mem.row.attempts /\ mem'.role = mem.role

LEMMA SameNearer ==
  ASSUME IInv, NEW p \in Procs, pc[p] \notin Outside,
         \/ pc[p] = "begin" /\ Same(p, {"loop", "check"})
         \/ pc[p] = "loop" /\ Same(p, {})
         \/ pc[p] = "attempt" /\ Same(p, {"invoke"}) /\ mem.role = "implementer"
         \/ pc[p] = "invoke" /\ Same(p, {"launch"})
         \/ pc[p] = "launch" /\ Same(p, {"running"})
         \/ pc[p] = "running" /\ Same(p, {"answered"})
         \/ pc[p] = "answered" /\ Same(p, {"implemented"}) /\ mem.role = "implementer"
         \/ pc[p] = "answered" /\ Same(p, {"reviewed"}) /\ mem.role = "reviewer"
         \/ pc[p] = "implemented" /\ Same(p, {"check"})
         \/ pc[p] = "check" /\ Same(p, {"starting"})
         \/ pc[p] = "starting" /\ Same(p, {"spawn"})
         \/ pc[p] = "spawn" /\ Same(p, {"spawned"})
         \/ pc[p] = "spawned" /\ Same(p, {"checking"})
         \/ pc[p] = "checking" /\ Same(p, {"evidence"})
         \/ pc[p] = "evidence" /\ Same(p, {"recheck"})
         \/ pc[p] = "recheck" /\ Same(p, {"judge"})
         \/ pc[p] = "judge" /\ Same(p, {"loop"})
         \/ pc[p] = "reviewed" /\ Same(p, {"accept"})
         \/ pc[p] = "accept" /\ Same(p, {"decide"})
         \/ pc[p] = "decide" /\ Same(p, {"loop"})
         \/ pc[p] = "finish" /\ Same(p, {}) /\ pc'[p] = "close"
  PROVE  StagesLeft(p)' < StagesLeft(p)
<1> DEFINE n == 28 * (MaxAttempts - mem.row.attempts)
<1>1. mem.row.attempts \in 0..MaxAttempts /\ MaxAttempts \in Nat /\ n \in Int
  BY Known, LimitsAssumption DEF Row
<1>2. ASSUME pc'[p] \notin Outside \cup {"admitted", "begin"}, mem'.row.attempts = mem.row.attempts,
             mem'.role = mem.role
      PROVE  StagesLeft(p)' = Place[pc'[p]] + n
               - (IF pc'[p] \in Invoking /\ mem.role = "reviewer" THEN 13 ELSE 0)
  BY <1>2 DEF StagesLeft, Outside
<1>3. StagesLeft(p) \in Int /\ StagesLeft(p) >= Place[pc[p]] + n
               - (IF pc[p] \in Invoking /\ mem.role = "reviewer" THEN 13 ELSE 0)
  BY <1>1, Places DEF StagesLeft, Outside, Invoking
<1> HIDE DEF IInv, n
<1> QED  BY <1>1, <1>2, <1>3, Places DEF Same, Invoking, Outside

LEMMA TurnSame ==
  ASSUME IInv, NEW p \in Procs, pc[p] \notin Outside, NEW stages, NEW stage \in stages \cup {"finish", "close"},
         NEW row, row.attempts = mem.row.attempts, Turn(p, stage, row)
  PROVE  Same(p, stages)
<1>1. mem \in Mem /\ pc \in [Procs -> Stages]
  BY Known DEF IInv, TypeOK
<1> QED  BY <1>1 DEF Turn, Go, Same, Mem

LEMMA FinishSame ==
  ASSUME IInv, NEW p \in Procs, pc[p] \notin Outside, NEW stages, NEW outcome,
         NEW row, row.attempts = mem.row.attempts, Finish(p, outcome, row)
  PROVE  Same(p, stages)
<1>1. mem \in Mem /\ pc \in [Procs -> Stages]
  BY Known DEF IInv, TypeOK
<1> QED  BY <1>1 DEF Finish, Go, Same, Mem

LEMMA HandOffSame ==
  ASSUME IInv, NEW p \in Procs, pc[p] \notin Outside, NEW stages,
         NEW row, row.attempts = mem.row.attempts, HandOff(p, row)
  PROVE  Same(p, stages)
BY FinishSame DEF HandOff

\* None of the ways a row is rewritten counts an attempt.
LEMMA Uncounted ==
  ASSUME NEW row \in Row
  PROVE  /\ \A time : [row EXCEPT !.elapsed = time].attempts = row.attempts
         /\ \A time : [row EXCEPT !.pid = TRUE, !.elapsed = time].attempts = row.attempts
         /\ \A count : [Seen(row) EXCEPT !.stalled = count].attempts = row.attempts
         /\ Doubt(row).attempts = row.attempts
         /\ Unconfirmed(row).attempts = row.attempts
         /\ Seen(row).attempts = row.attempts
         /\ \A process \in BOOLEAN, reserved \in BOOLEAN :
              Reconciled(row, process, reserved).attempts = row.attempts
BY DEF Row, Doubt, Unconfirmed, Seen, Reconciled

LEMMA SaveSame ==
  ASSUME IInv, NEW p \in Procs, pc[p] \notin Outside, NEW stages, NEW stage \in stages,
         Save(p, mem.row, Turn(p, stage, mem.row), HandOff(p, mem.row) \/ Turn(p, "close", mem.row))
  PROVE  Same(p, stages)
<1> DEFINE timed == [mem.row EXCEPT !.elapsed = mem.clock]
<1>1. timed.attempts = mem.row.attempts
  BY Known, Uncounted
<1>2. \/ Turn(p, stage, mem.row) \/ HandOff(p, mem.row) \/ Turn(p, "close", mem.row)
      \/ Turn(p, "close", timed)
  BY DEF Save, Poisoned
<1> HIDE DEF IInv, Turn, HandOff, timed
<1> QED  BY <1>1, <1>2, TurnSame, HandOffSame

\* The steps inside the lock that keep both.
LEMMA KeepingStep ==
  ASSUME IInv, NEW p \in Procs, pc[p] \notin Outside,
         Begin(p) \/ SaveAttempt(p) \/ SaveRole(p) \/ Launch(p) \/ LaunchRefused(p) \/ LaunchFails(p)
           \/ Ended(p) \/ EndFails(p) \/ SaveAnswer(p) \/ Implemented(p) \/ Check(p) \/ SaveCheck(p)
           \/ Spawn(p) \/ PublishPID(p) \/ CheckFails(p) \/ Checked(p) \/ SaveEvidence(p)
           \/ Recheck(p) \/ Reviewed(p) \/ SaveReview(p) \/ Decide(p) \/ Terminate(p)
  PROVE  StagesLeft(p)' < StagesLeft(p)
<1>1. mem \in Mem /\ mem.row \in Row /\ pc \in [Procs -> Stages]
      /\ (pc[p] = "attempt" => mem.role = "implementer")
  BY Known DEF IInv, TypeOK, Sound
<1> HIDE DEF IInv
<1>2. CASE Begin(p)
  <2>1. pc[p] = "begin" /\ Same(p, {"loop", "check"})
    BY <1>1, <1>2 DEF Begin, Save, Poisoned, Turn, Go, Same, Mem, Row
  <2> QED  BY <2>1, SameNearer
<1>3. CASE SaveAttempt(p)
  <2>1. pc[p] = "attempt"
        /\ Save(p, mem.row, Turn(p, "invoke", mem.row), HandOff(p, mem.row) \/ Turn(p, "close", mem.row))
    BY <1>3 DEF SaveAttempt, Save
  <2>2. Same(p, {"invoke"})
    <3> HIDE DEF Save, Turn, HandOff
    <3> QED  BY <2>1, SaveSame
  <2> QED  BY <1>1, <2>1, <2>2, SameNearer
<1>4. CASE SaveRole(p)
  <2>1. pc[p] = "invoke"
        /\ Save(p, mem.row, Turn(p, "launch", mem.row), HandOff(p, mem.row) \/ Turn(p, "close", mem.row))
    BY <1>4 DEF SaveRole, Save
  <2>2. Same(p, {"launch"})
    <3> HIDE DEF Save, Turn, HandOff
    <3> QED  BY <2>1, SaveSame
  <2> QED  BY <1>1, <2>1, <2>2, SameNearer
<1>5. CASE SaveCheck(p)
  <2>1. pc[p] = "starting"
        /\ Save(p, mem.row, Turn(p, "spawn", mem.row), HandOff(p, mem.row) \/ Turn(p, "close", mem.row))
    BY <1>5 DEF SaveCheck, Save
  <2>2. Same(p, {"spawn"})
    <3> HIDE DEF Save, Turn, HandOff
    <3> QED  BY <2>1, SaveSame
  <2> QED  BY <1>1, <2>1, <2>2, SameNearer
<1>6. CASE SaveEvidence(p)
  <2>1. pc[p] = "evidence"
        /\ Save(p, mem.row, Turn(p, "recheck", mem.row), HandOff(p, mem.row) \/ Turn(p, "close", mem.row))
    BY <1>6 DEF SaveEvidence, Save
  <2>2. Same(p, {"recheck"})
    <3> HIDE DEF Save, Turn, HandOff
    <3> QED  BY <2>1, SaveSame
  <2> QED  BY <1>1, <2>1, <2>2, SameNearer
<1>7. CASE SaveReview(p)
  <2>1. pc[p] = "accept"
        /\ Save(p, mem.row, Turn(p, "decide", mem.row), HandOff(p, mem.row) \/ Turn(p, "close", mem.row))
    BY <1>7 DEF SaveReview, Save
  <2>2. Same(p, {"decide"})
    <3> HIDE DEF Save, Turn, HandOff
    <3> QED  BY <2>1, SaveSame
  <2> QED  BY <1>1, <2>1, <2>2, SameNearer
<1>8. CASE Launch(p)
  <2>1. pc[p] = "launch" /\ Same(p, {"running"})
    BY <1>1, <1>8, Uncounted, TurnSame, FinishSame, HandOffSame DEF Launch
  <2> QED  BY <2>1, SameNearer
<1>9. CASE LaunchRefused(p)
  <2>1. pc[p] = "launch" /\ Same(p, {"running"})
    BY <1>1, <1>9, Uncounted, TurnSame, FinishSame, HandOffSame DEF LaunchRefused
  <2> QED  BY <2>1, SameNearer
<1>10. CASE LaunchFails(p)
  <2>1. /\ Reconciled(mem.row, TRUE, FALSE).attempts = mem.row.attempts
        /\ Reconciled(mem.row, FALSE, TRUE).attempts = mem.row.attempts
        /\ Doubt(mem.row).attempts = mem.row.attempts
    BY <1>1, Uncounted
  <2>2. PICK row : HandOff(p, row) /\ row.attempts = mem.row.attempts
    <3> HIDE DEF Reconciled, Doubt, HandOff
    <3> QED  BY <1>10, <2>1 DEF LaunchFails
  <2>3. pc[p] = "launch"
    BY <1>10 DEF LaunchFails
  <2> QED  BY <2>2, <2>3, HandOffSame, SameNearer
<1>11. CASE Ended(p)
  <2>1. pc[p] = "running" /\ Same(p, {"answered"})
    BY <1>1, <1>11 DEF Ended, Go, Same, Mem
  <2> QED  BY <2>1, SameNearer
<1>12. CASE EndFails(p)
  <2>1. \A reserved \in BOOLEAN : Reconciled(mem.row, reserved, reserved).attempts = mem.row.attempts
    BY <1>1, Uncounted
  <2>2. /\ Reconciled(mem.row, TRUE, TRUE).attempts = mem.row.attempts
        /\ Doubt(mem.row).attempts = mem.row.attempts
    BY <1>1, Uncounted
  <2>3. PICK row : HandOff(p, row) /\ row.attempts = mem.row.attempts
    <3>1. CASE HandOff(p, Reconciled(mem.row, TRUE, TRUE))
      BY <2>2, <3>1
    <3>2. CASE LET reserved == T(p) \in budget' IN
               \E row \in {Reconciled(mem.row, reserved, reserved), Doubt(mem.row)} : HandOff(p, row)
      <4> DEFINE reserved == T(p) \in budget'
      <4>1. reserved \in BOOLEAN
        OBVIOUS
      <4> HIDE DEF reserved
      <4>2. PICK row \in {Reconciled(mem.row, reserved, reserved), Doubt(mem.row)} : HandOff(p, row)
        BY <3>2 DEF reserved
      <4> QED  BY <2>1, <2>2, <4>1, <4>2
    <3> QED  BY <1>12, <3>1, <3>2 DEF EndFails
  <2>4. pc[p] = "running"
    BY <1>12 DEF EndFails
  <2> QED  BY <2>3, <2>4, HandOffSame, SameNearer
<1>13. CASE Check(p)
  <2>1. pc[p] = "check" /\ Same(p, {"starting"})
    BY <1>1, <1>13, Uncounted, TurnSame, FinishSame, HandOffSame DEF Check, Fresh, HandOff, Go, Same, Mem
  <2> QED  BY <2>1, SameNearer
<1>14. CASE Implemented(p)
  <2>1. pc[p] = "implemented" /\ Same(p, {"check"})
    BY <1>1, <1>14, Uncounted, TurnSame, FinishSame, HandOffSame DEF Implemented, Fresh
  <2> QED  BY <2>1, SameNearer
<1>15. CASE Spawn(p)
  <2>1. pc[p] = "spawn" /\ Same(p, {"spawned"})
    BY <1>1, <1>15, Uncounted, TurnSame, FinishSame, HandOffSame DEF Spawn
  <2> QED  BY <2>1, SameNearer
<1>16. CASE PublishPID(p)
  <2>1. pc[p] = "spawned" /\ Same(p, {"checking"})
    BY <1>1, <1>16, Uncounted, TurnSame, FinishSame, HandOffSame DEF PublishPID, Poisoned
  <2> QED  BY <2>1, SameNearer
<1>17. CASE CheckFails(p)
  <2>1. pc[p] = "checking" /\ Same(p, {"evidence"})
    BY <1>1, <1>17, Uncounted, TurnSame, FinishSame, HandOffSame DEF CheckFails
  <2> QED  BY <2>1, SameNearer
<1>18. CASE Recheck(p)
  <2>1. pc[p] = "recheck" /\ Same(p, {"judge"})
    BY <1>1, <1>18, Uncounted, TurnSame, FinishSame, HandOffSame DEF Recheck, Fresh
  <2> QED  BY <2>1, SameNearer
<1>19. CASE Decide(p)
  <2>1. pc[p] = "decide" /\ Same(p, {"loop"})
    BY <1>1, <1>19, Uncounted, TurnSame, FinishSame, HandOffSame DEF Decide
  <2> QED  BY <2>1, SameNearer
<1>20. CASE Checked(p)
  <2>1. PICK code \in Codes \cup {-1} :
          mem' = [mem EXCEPT !.code = code,
                    !.row = [mem.row EXCEPT !.pid = FALSE,
                               !.evidence.passed = IF code = 0 THEN @ \cup {mem.before} ELSE @]]
    BY <1>20 DEF Checked
  <2> DEFINE passed == IF code = 0 THEN mem.row.evidence.passed \cup {mem.before}
                       ELSE mem.row.evidence.passed
             row == [mem.row EXCEPT !.pid = FALSE, !.evidence = [@ EXCEPT !.passed = passed]]
  <2>2. mem' = [mem EXCEPT !.code = code, !.row = row]
    BY <2>1
  <2> HIDE DEF passed
  <2>3. row.attempts = mem.row.attempts
    BY <1>1 DEF Row
  <2> HIDE DEF row
  <2>4. pc[p] = "checking" /\ Same(p, {"evidence"})
    BY <1>1, <1>20, <2>2, <2>3 DEF Checked, Go, Same, Mem
  <2> QED  BY <2>4, SameNearer
<1>21. CASE SaveAnswer(p)
  <2> DEFINE row == [mem.row EXCEPT !.elapsed = mem.clock]
             stage == IF mem.role = "implementer" THEN "implemented" ELSE "reviewed"
  <2>1. row.attempts = mem.row.attempts /\ mem.role \in {"implementer", "reviewer"}
    BY <1>1, Uncounted DEF Mem
  <2>2. Turn(p, stage, row) \/ HandOff(p, row) \/ Turn(p, "close", row)
    BY <1>21 DEF SaveAnswer, Poisoned
  <2> HIDE DEF row
  <2>3. Same(p, {stage})
    BY <2>1, <2>2, TurnSame, HandOffSame
  <2>4. pc[p] = "answered"
    BY <1>21 DEF SaveAnswer
  <2> QED  BY <2>1, <2>3, <2>4, SameNearer
<1>22. CASE Reviewed(p)
  <2>1. ASSUME NEW verdict, Go(p, "accept"),
               mem' = [mem EXCEPT !.answer = verdict,
                         !.row = [Seen(mem.row) EXCEPT !.evidence.approved =
                                    IF verdict = "approve" THEN @ \cup {mem.before} ELSE @]]
        PROVE  Same(p, {"accept"})
    <3> DEFINE approved == IF verdict = "approve" THEN mem.row.evidence.approved \cup {mem.before}
                           ELSE mem.row.evidence.approved
               row == [mem.row EXCEPT !.source = checkout.source,
                                      !.evidence = [@ EXCEPT !.approved = approved]]
    <3>1. mem' = [mem EXCEPT !.answer = verdict, !.row = row]
      BY <1>1, <2>1 DEF Seen, Row
    <3> HIDE DEF approved
    <3>2. row.attempts = mem.row.attempts
      BY <1>1 DEF Row
    <3> HIDE DEF row
    <3> QED  BY <1>1, <2>1, <3>1, <3>2 DEF Go, Same, Mem
  <2>2. Seen(mem.row).attempts = mem.row.attempts
    BY <1>1, Uncounted
  <2>3. \/ HandOff(p, Seen(mem.row)) \/ HandOff(p, mem.row) \/ Same(p, {"accept"})
    <3> HIDE DEF HandOff, Seen, Go, Same
    <3> QED  BY <1>22, <2>1 DEF Reviewed, Fresh
  <2>4. pc[p] = "reviewed" /\ Same(p, {"accept"})
    <3> HIDE DEF HandOff, Seen
    <3> QED  BY <1>22, <2>2, <2>3, HandOffSame DEF Reviewed
  <2> QED  BY <2>4, SameNearer
<1>23. CASE Terminate(p)
  <2>1. Final(p).attempts = mem.row.attempts
    BY <1>1 DEF Final, Row
  <2>2. pc[p] = "finish" /\ pc'[p] = "close" /\ Same(p, {})
    <3> HIDE DEF Final
    <3> QED  BY <1>1, <1>23, <2>1, TurnSame DEF Terminate, Poisoned, Turn, Go, Same, Mem
  <2> QED  BY <2>2, SameNearer
<1> QED  BY <1>2, <1>3, <1>4, <1>5, <1>6, <1>7, <1>8, <1>9, <1>10, <1>11, <1>12, <1>13, <1>14, <1>15,
            <1>16, <1>17, <1>18, <1>19, <1>20, <1>21, <1>22, <1>23

LEMMA StepIsInside ==
  ASSUME NEW p \in Procs, Step(p)  PROVE pc[p] \notin Outside \/ Lock(p)
BY DEF Step, Observe, ObserveFails, Begin, Iterate, SaveAttempt, SaveRole, Launch, LaunchRefused,
   LaunchFails, Ended, EndFails, SaveAnswer, Implemented, Check, SaveCheck, Spawn, PublishPID,
   CheckFails, Checked, SaveEvidence, Recheck, Judge, Reviewed, SaveReview, Decide, Terminate,
   Close, Outside

\* Every step of a controller: the attempt that begins is one less to make, and the
\* reviewer is invoked after the check.
LEMMA StepNearer ==
  ASSUME IInv, NEW p \in Procs, Step(p)  PROVE StagesLeft(p)' < StagesLeft(p)
<1>1. pc \in [Procs -> Stages] /\ MaxAttempts \in Nat \ {0}
  BY LimitsAssumption DEF IInv, TypeOK
<1>2. ASSUME pc[p] \notin Outside
      PROVE  mem \in Mem /\ mem.row \in Row /\ mem.row.attempts \in 0..MaxAttempts
  BY <1>2, Known DEF Row
<1> HIDE DEF IInv
<1>3. CASE Lock(p)
  BY <1>1, <1>3, Places DEF Lock, Forget, Go, StagesLeft, Invoking
<1>4. CASE Observe(p) \/ ObserveFails(p)
  <2>1. pc[p] = "admitted" /\ mem \in Mem /\ mem.row.attempts \in 0..MaxAttempts
    BY <1>2, <1>4 DEF Observe, ObserveFails, Outside
  <2>2. pc'[p] = "begin" \/ (pc'[p] = "close" /\ mem'.row = mem.row)
    BY <1>1, <1>4, <2>1 DEF Observe, ObserveFails, Turn, Go, Mem
  <2> QED  BY <1>1, <2>1, <2>2, Places DEF StagesLeft, Invoking
<1>5. CASE Iterate(p)
  <2>1. pc[p] = "loop" /\ mem \in Mem /\ mem.row \in Row /\ mem.row.attempts \in 0..MaxAttempts
        /\ pc[p] \notin Outside
    BY <1>2, <1>5 DEF Iterate, Outside
  <2>2. Counted(Seen(mem.row)).attempts = mem.row.attempts + 1
    BY <2>1 DEF Counted, Seen, Row
  <2>3. \/ Finish(p, "attempt_limit", mem.row) \/ HandOff(p, mem.row)
        \/ /\ mem.row.attempts < MaxAttempts /\ Go(p, "attempt")
           /\ mem' = [mem EXCEPT !.row = Counted(Seen(mem.row)),
                                 !.before = checkout.source, !.role = "implementer"]
    <3> HIDE DEF Finish, HandOff, Counted, Seen, Go
    <3> QED  BY <1>1, <1>5, <2>1 DEF Iterate, Fresh
  <2>4. CASE Finish(p, "attempt_limit", mem.row) \/ HandOff(p, mem.row)
    <3>1. Same(p, {})
      BY <2>1, <2>4, FinishSame, HandOffSame
    <3> QED  BY <2>1, <3>1, SameNearer
  <2>5. ASSUME mem.row.attempts < MaxAttempts, Go(p, "attempt"),
               mem' = [mem EXCEPT !.row = Counted(Seen(mem.row)),
                                  !.before = checkout.source, !.role = "implementer"]
        PROVE  StagesLeft(p)' < StagesLeft(p)
    <3>1. pc'[p] = "attempt" /\ mem'.row.attempts = mem.row.attempts + 1
      BY <1>1, <2>1, <2>2, <2>5 DEF Go, Mem
    <3> QED  BY <1>1, <2>1, <3>1, Places DEF StagesLeft, Invoking
  <2> QED  BY <2>3, <2>4, <2>5
<1>6. CASE Judge(p)
  <2>1. pc[p] = "judge" /\ mem \in Mem /\ mem.row \in Row /\ mem.row.attempts \in 0..MaxAttempts
        /\ pc[p] \notin Outside
    BY <1>2, <1>6 DEF Judge, Outside
  <2>2. \/ Turn(p, "close", mem.row) \/ \E outcome : Finish(p, outcome, mem.row)
        \/ Go(p, "invoke") /\ mem' = [mem EXCEPT !.role = "reviewer"]
        \/ Go(p, "loop") /\ mem'.row = mem.row /\ mem'.role = mem.role
    BY <1>6, <2>1 DEF Judge, Mem
  <2>3. CASE Turn(p, "close", mem.row) \/ \E outcome : Finish(p, outcome, mem.row)
    <3>1. Same(p, {"loop"})
      BY <2>1, <2>3, TurnSame, FinishSame
    <3> QED  BY <2>1, <3>1, SameNearer
  <2>4. CASE Go(p, "invoke") /\ mem' = [mem EXCEPT !.role = "reviewer"]
    <3>1. pc'[p] = "invoke" /\ mem'.row = mem.row /\ mem'.role = "reviewer"
      BY <1>1, <2>1, <2>4 DEF Go, Mem
    <3> QED  BY <1>1, <2>1, <3>1, Places DEF StagesLeft, Invoking
  <2>5. CASE Go(p, "loop") /\ mem'.row = mem.row /\ mem'.role = mem.role
    <3>1. Same(p, {"loop"})
      BY <1>1, <2>5 DEF Go, Same
    <3> QED  BY <2>1, <3>1, SameNearer
  <2> QED  BY <2>2, <2>3, <2>4, <2>5
<1>7. CASE Close(p)
  <2>1. pc[p] = "close" /\ pc'[p] = "idle" /\ mem.row.attempts \in 0..MaxAttempts
    BY <1>1, <1>2, <1>7 DEF Close, Forget, Go, Outside
  <2> QED  BY <1>1, <2>1, Places DEF StagesLeft, Invoking
<1>8. pc[p] \notin Outside \/ Lock(p)
  BY StepIsInside
<1> QED  BY <1>3, <1>4, <1>5, <1>6, <1>7, <1>8, KeepingStep DEF Step

\* It moves no other controller.
LEMMA Moves ==
  ASSUME NEW p \in Procs, Step(p)  PROVE \E stage : Go(p, stage)
<1>1. /\ \A stage, row : Turn(p, stage, row) => Go(p, stage)
      /\ \A outcome, row : Finish(p, outcome, row) => Go(p, "finish")
      /\ \A row : HandOff(p, row) => Go(p, "finish")
      /\ \A row : Poisoned(p, row) => Go(p, "close")
  BY DEF Turn, Finish, HandOff, Poisoned
<1> HIDE DEF Turn, Finish, HandOff, Poisoned, Go
<1>2. CASE Lock(p) \/ Observe(p) \/ ObserveFails(p) \/ Judge(p) \/ Terminate(p) \/ Close(p) \/ Crash(p)
  BY <1>1, <1>2 DEF Lock, Forget, Observe, ObserveFails, Judge, Terminate, Close, Crash
<1>3. CASE Begin(p) \/ SaveAttempt(p) \/ SaveRole(p) \/ SaveCheck(p) \/ SaveEvidence(p) \/ SaveReview(p)
  BY <1>1, <1>3 DEF Begin, SaveAttempt, SaveRole, SaveCheck, SaveEvidence, SaveReview, Save
<1>4. CASE Iterate(p) \/ Implemented(p) \/ Check(p) \/ Recheck(p) \/ Reviewed(p)
  BY <1>1, <1>4 DEF Iterate, Implemented, Check, Recheck, Reviewed, Fresh
<1>5. CASE Launch(p) \/ LaunchRefused(p) \/ LaunchFails(p) \/ Ended(p) \/ EndFails(p)
  BY <1>1, <1>5 DEF Launch, LaunchRefused, LaunchFails, Ended, EndFails
<1>6. CASE Spawn(p) \/ PublishPID(p) \/ CheckFails(p) \/ Checked(p) \/ SaveAnswer(p) \/ Decide(p)
  BY <1>1, <1>6 DEF Spawn, PublishPID, CheckFails, Checked, SaveAnswer, Decide
<1> QED  BY <1>2, <1>3, <1>4, <1>5, <1>6 DEF Step

\* The same stage, and inside the lock the same attempts and role.
LEMMA Unmoved ==
  ASSUME NEW p \in Procs, pc'[p] = pc[p],
         pc[p] \notin Outside => mem'.row.attempts = mem.row.attempts /\ mem'.role = mem.role
  PROVE  StagesLeft(p)' = StagesLeft(p)
BY DEF StagesLeft, Outside, Invoking

\* bounded.go:24-117: a controller comes nearer to its end with each stage it enters, by
\* what it does itself, and nothing takes it back: a run has fewer than 28 stages for each
\* attempt, and 28 besides.
THEOREM StagesRunOut == Spec => RunsAdvance
<1> DEFINE Nearer(p) == pc[p] # "idle" =>
             \/ StagesLeft(p)' < StagesLeft(p)
             \/ pc'[p] = pc[p] /\ StagesLeft(p)' = StagesLeft(p)
<1>1. ASSUME IInv, [Next]_vars  PROVE \A p \in Procs : Nearer(p)
  <2> SUFFICES ASSUME NEW p \in Procs, pc[p] # "idle"  PROVE Nearer(p)
    OBVIOUS
  <2>1. pc \in [Procs -> Stages] /\ MaxAttempts \in Nat \ {0}
    BY <1>1, LimitsAssumption DEF IInv, TypeOK
  <2>2. ASSUME pc[p] \notin Outside
        PROVE  mem \in Mem /\ mem.row.attempts \in 0..MaxAttempts /\ mem.role \in {"implementer", "reviewer"}
               /\ \A q \in Procs : pc[q] \notin Outside => q = p
    BY <1>1, <2>2, Known DEF Row, Mem
  <2>3. StagesLeft(p) \in Int /\ StagesLeft(p) > 0
    BY <2>1, <2>2, Places DEF StagesLeft, Stages, Outside, Invoking
  <2>4. CASE Step(p)
    BY <1>1, <2>4, StepNearer
  <2>5. CASE Crash(p)
    <3>1. pc'[p] = "idle"
      BY <2>1, <2>5 DEF Crash, Forget, Go
    <3> QED  BY <2>3, <3>1 DEF StagesLeft
  <2>6. ASSUME NEW q \in Procs, q # p, Start(q) \/ Step(q) \/ Crash(q)
        PROVE  Nearer(p)
    <3>1. PICK stage : Go(q, stage)
      BY <2>6, Moves DEF Start, Crash, Forget
    <3>2. pc'[p] = pc[p]
      BY <2>1, <2>6, <3>1 DEF Go
    <3>3. CASE pc[p] \in Outside
      BY <2>3, <3>2, <3>3, Unmoved
    <3>4. CASE pc[p] \notin Outside
      <4>1. pc[q] \in Outside
        BY <2>2, <2>6, <3>4
      <4>2. mem' = mem
        BY <2>6, <3>4, <4>1, StepIsInside DEF Start, Crash, Lock
      <4> QED  BY <2>3, <3>2, <4>2, Unmoved
    <3> QED  BY <3>3, <3>4
  <2>7. ASSUME NEW q \in Procs, Tick(q) \/ Signal(q)
        PROVE  Nearer(p)
    <3>1. pc' = pc
      BY <2>7 DEF Tick, Signal
    <3>2. pc[p] \notin Outside => mem'.row.attempts = mem.row.attempts /\ mem'.role = mem.role
      BY <2>2, <2>7 DEF Tick, Signal, Mem
    <3> QED  BY <2>3, <3>1, <3>2, Unmoved
  <2>8. CASE UNCHANGED <<pc, mem>>
    BY <2>3, <2>8, Unmoved
  <2>9. ~Start(p)
    BY DEF Start
  <2> HIDE DEF Nearer
  <2> QED  BY <1>1, <2>4, <2>5, <2>6, <2>7, <2>8, <2>9
            DEF Next, vars, Edit, GroupExit, RepairBudget, Recover
<1>2. IInv /\ [Next]_vars => [\A p \in Procs : Nearer(p)]_vars
  BY <1>1
<1> QED  BY <1>2, Invariant, PTL DEF Spec, RunsAdvance
=============================================================================
