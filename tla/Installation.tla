---------------------------- MODULE Installation ----------------------------
(***************************************************************************)
(* internal/installation: the transaction that switches every selected     *)
(* file of an installation from a baseline to a target image, rolls it     *)
(* back, and recovers from interruptions in either direction.              *)
(*                                                                         *)
(* One migration identifier and the operations on it: upgrade, rollback    *)
(* and recovery.  Exclusion between operations is TransitionGuard's; here  *)
(* one operation runs at a time.  Everything an operation keeps in memory  *)
(* is lost in a crash; the selected leaves, the journal, the before-images *)
(* and the pending marker survive.  Users edit selected files at any time; *)
(* the code's check of a leaf and the rename or unlink that follows it are *)
(* one action (maintained quiescence is consented to by the operator).     *)
(***************************************************************************)
EXTENDS Naturals, Sequences, FiniteSets

CONSTANTS
  Order,      \* the selected rows other than the metadata row, in path order
  Meta,       \* the metadata row .factory-version, always switched last
  Baseline,   \* content of each row before the upgrade, "nil" when absent
  Target,     \* content of each row after it, "nil" when retired
  Hybrid,     \* profile go-hybrid-v1: the predecessor is validated too
  NoRecord,   \* there is no journal, or nothing in memory
  NoRow,      \* no row is being applied
  MaxFaults,  \* bound on crashes and failed calls in a behaviour
  MaxEdits    \* bound on user edits in a behaviour

Rows == {Order[i] : i \in 1..Len(Order)} \cup {Meta}

ASSUME RowsAssumption ==
  /\ Len(Order) \in Nat
  /\ \A i, j \in 1..Len(Order) : Order[i] = Order[j] => i = j
  /\ Meta \notin {Order[i] : i \in 1..Len(Order)}
  /\ NoRow \notin Rows
ASSUME ImagesAssumption ==
  /\ Baseline \in [Rows -> {"nil", "old"}]
  /\ Target \in [Rows -> {"nil", "old", "new"}]
  /\ \A r \in Rows : Baseline[r] # "nil" \/ Target[r] # "nil"
ASSUME BoundsAssumption ==
  /\ Hybrid \in BOOLEAN
  /\ MaxFaults \in Nat
  /\ MaxEdits \in Nat

VARIABLES
  leaf,     \* the image of each selected file
  journal,  \* the durable transaction record
  backup,   \* the before-image set: its directory, then its manifest
  pending,  \* identity of runtime-publication.pending, 0 when absent
  pc,       \* how far the running operation has come
  op,       \* what it was asked to do
  mem,      \* its transaction record in memory
  plan,     \* the actions it has consent for
  held,     \* it opened the pending marker
  saved,    \* it knows the journal's current image
  at,       \* the row being applied
  faults,   \* crashes and failures so far
  edited    \* rows users have edited

disk == <<leaf, journal, backup, pending>>
vars == <<leaf, journal, backup, pending, pc, op, mem, plan, held, saved, at,
          faults, edited>>

-----------------------------------------------------------------------------
(* Images.  An identity stands for device, inode, owner and times: 1 is    *)
(* the file the baseline installed, 2 a file a user wrote, the others were *)
(* published by an operation.                                              *)

Nil      == [c |-> "nil", id |-> 0]
BaseId   == 1
UserId   == 2
OwnIds   == 3..8
Contents == {"nil", "old", "new", "foreign"}
Image    == [c : Contents, id : 0..8]

RowRecord == [phase : {"prepared", "applied", "reverse_prepared", "reversed"},
              before : Image, prepared : Image, observed : Image]
Record == [purpose : {"upgrade", "rollback", "recovery"},
           direction : {"forward", "reverse"},
           phase : {"prepared", "applying", "checking", "metadata_prepared",
                    "committed"},
           pending : 0..2,
           check : {"none", "open", "complete"},
           rows : [Rows -> RowRecord]]
ASSUME NoRecordAssumption == NoRecord \notin Record

Actions == [act : {"create", "replace", "retire", "retain"},
            before : Image, after : Contents]

Stages == {"idle", "begun", "checking", "checked", "discarding", "ready",
           "backing", "backed", "raised", "applying", "staged", "published",
           "verifying", "metadata", "committed", "closing"}

TypeOK ==
  /\ leaf \in [Rows -> Image]
  /\ journal \in Record \cup {NoRecord}
  /\ backup \in {"none", "partial", "complete"}
  /\ pending \in 0..2
  /\ pc \in Stages
  /\ op \in [mode : {"none", "upgrade", "rollback", "recover"},
             direction : {"forward", "reverse"},
             new : BOOLEAN, abandon : BOOLEAN]
  /\ mem \in Record \cup {NoRecord}
  /\ plan \in [Rows -> Actions]
  /\ held \in BOOLEAN /\ saved \in BOOLEAN
  /\ at \in Rows \cup {NoRow}
  /\ faults \in 0..MaxFaults
  /\ edited \in SUBSET Rows

NoOp   == [mode |-> "none", direction |-> "forward", new |-> FALSE,
           abandon |-> FALSE]
NoPlan == [r \in Rows |-> [act |-> "retain", before |-> Nil, after |-> "nil"]]

Init ==
  /\ leaf = [r \in Rows |-> IF Baseline[r] = "nil" THEN Nil
                            ELSE [c |-> Baseline[r], id |-> BaseId]]
  /\ journal = NoRecord
  /\ backup = "none"
  /\ pending = 0
  /\ pc = "idle"
  /\ op = NoOp
  /\ mem = NoRecord
  /\ plan = NoPlan
  /\ held = FALSE /\ saved = FALSE
  /\ at = NoRow
  /\ faults = 0
  /\ edited = {}

-----------------------------------------------------------------------------
(* Planning from the disk: what recovery and rollback accept as theirs.    *)

\* The content a row has when the installation is wholly on one side.
Side(direction, r) == IF direction = "forward" THEN Target[r] ELSE Baseline[r]

Observed(e) == e.phase \in {"applied", "reversed"}
KnownObserved(e, r) == e.observed # Nil /\ leaf[r] = e.observed
KnownOriginal(e, r) == ~Observed(e) /\ leaf[r] = e.before

\* Mutant: compares the status-change time as well, which the rename changed.
Mutant_KnownPrepared(j, r) == FALSE

\* A rename changes the status-change time only, so a published stage is still
\* recognised by the identity it was prepared with.
KnownPrepared(j, r) ==
  LET e == j.rows[r] IN
  /\ e.prepared # Nil
  /\ leaf[r] = e.prepared
  /\ leaf[r].c = IF j.direction = "reverse" /\ e.phase = "reverse_prepared"
                 THEN e.before.c ELSE Target[r]

\* A selected file that is preserved instead of changed, which blocks the plan.
RowConflict(j, r) ==
  LET e == j.rows[r] IN
  \/ Observed(e) /\ leaf[r] # e.observed
  \/ /\ ~Observed(e) /\ leaf[r] # e.before
     /\ ~KnownObserved(e, r) /\ ~KnownPrepared(j, r)
  \/ leaf[r].c \notin {e.before.c, Target[r]}
  \/ /\ j.phase = "committed"
     /\ \/ leaf[r].c # Side(j.direction, r)
        \/ leaf[r] # Nil /\ ~KnownObserved(e, r) /\ ~KnownOriginal(e, r)

\* buildTransitionPlan: the journal and the before-images support a plan.
Plannable(j) ==
  /\ j.check # "open"
  /\ backup = "complete"
  /\ \A r \in Rows : ~RowConflict(j, r)

PreparationOnly(j) ==
  /\ j.pending = 0
  /\ j.phase \in {"prepared", "checking"}
  /\ \A r \in Rows : j.rows[r].phase = "prepared" /\ j.rows[r].observed = Nil

\* Mutant: a row the record calls done is retained, whichever way it was done.
Mutant_PlanTo(direction) ==
  [r \in Rows |->
    LET after == IF Observed(journal.rows[r]) THEN leaf[r].c ELSE Side(direction, r) IN
    [act    |-> IF leaf[r].c = after THEN "retain"
                ELSE IF after = "nil" THEN "retire"
                ELSE IF leaf[r] = Nil THEN "create" ELSE "replace",
     before |-> leaf[r],
     after  |-> after]]

\* The plan that takes every row to one side, leaving those already there.
PlanTo(direction) ==
  [r \in Rows |->
    LET after == Side(direction, r) IN
    [act    |-> CASE leaf[r].c = after -> "retain"
                  [] leaf[r].c # after /\ after = "nil" -> "retire"
                  [] leaf[r].c # after /\ after # "nil" /\ leaf[r] = Nil -> "create"
                  [] OTHER -> "replace",
     before |-> leaf[r],
     after  |-> after]]

\* buildPlan: a fresh upgrade replaces every baseline file, even one whose
\* bytes do not change.
FreshPlan ==
  [r \in Rows |->
    [act    |-> CASE leaf[r] = Nil -> "create"
                  [] Target[r] = "nil" -> "retire"
                  [] OTHER -> "replace",
     before |-> leaf[r],
     after  |-> Target[r]]]

FreshRecord ==
  [purpose |-> "upgrade", direction |-> "forward", phase |-> "prepared",
   pending |-> 0, check |-> "none",
   rows |-> [r \in Rows |-> [phase |-> "prepared", before |-> leaf[r],
                             prepared |-> Nil, observed |-> Nil]]]

-----------------------------------------------------------------------------
(* Begin.                                                                  *)

Granted(mode, direction, record, steps, next) ==
  /\ op' = [mode |-> mode, direction |-> direction,
            new |-> journal = NoRecord,
            abandon |-> journal # NoRecord /\ PreparationOnly(journal)]
  /\ mem' = record
  /\ plan' = steps
  /\ held' = (pending # 0)
  /\ saved' = (journal # NoRecord)
  /\ pc' = next
  /\ UNCHANGED <<disk, at, faults, edited>>

\* A migration identifier is used once: any journal under it refuses.
BeginUpgrade ==
  /\ pc = "idle" /\ pending = 0
  /\ journal = NoRecord
  /\ \A r \in Rows : leaf[r].c = Baseline[r]
  /\ Granted("upgrade", "forward", FreshRecord, FreshPlan, "begun")

BeginRollback ==
  /\ pc = "idle" /\ pending = 0
  /\ journal # NoRecord
  /\ journal.phase = "committed" /\ journal.direction = "forward"
  /\ Plannable(journal)
  /\ Granted("rollback", "reverse", journal, PlanTo("reverse"), "begun")

\* Nothing was changed yet: reverse recovery may abandon the preparation.
Abandonable(direction) ==
  /\ pending = 0
  /\ PreparationOnly(journal) /\ journal.check # "open"
  /\ direction = "reverse"
  /\ \A r \in Rows : leaf[r] = journal.rows[r].before

\* Everything was changed and recorded: only the pending marker is left.
Terminal(direction) ==
  /\ journal.phase = "committed"
  /\ journal.direction = direction
  /\ journal.pending # 0
  /\ pending \in {0, journal.pending}
  /\ Plannable(journal)

\* Something may have been changed: continue or reverse it.
Resumable == journal.phase # "committed" /\ pending # 0 /\ Plannable(journal)

BeginRecover(direction) ==
  /\ pc = "idle"
  /\ journal # NoRecord
  /\ Abandonable(direction) \/ Terminal(direction) \/ Resumable
  /\ Granted("recover", direction, journal,
             IF Resumable THEN PlanTo(direction)
                          ELSE [r \in Rows |-> [act |-> "retain", before |-> leaf[r],
                                                after |-> leaf[r].c]],
             IF Terminal(direction) /\ pending = 0 THEN "closing" ELSE "begun")

\* Begin reads the record before it refuses unknown check ownership, and the
\* refusal closes a transaction that has unresolved work.
RefuseRecover ==
  /\ pc = "idle"
  /\ journal # NoRecord /\ journal.check = "open"
  /\ Granted("recover", "reverse", journal, NoPlan, "closing")

-----------------------------------------------------------------------------
(* Complete.                                                               *)

Fault == faults < MaxFaults /\ faults' = faults + 1
Quietly == UNCHANGED <<faults, edited>>
Memory == <<op, plan>>

\* saveJournal: a failed save may or may not have reached the disk, and the
\* operation no longer knows the journal's image.
Save(record, next, failed) ==
  /\ saved \/ journal = NoRecord
  /\ mem' = record
  /\ \/ journal' = record /\ saved' = TRUE /\ pc' = next /\ UNCHANGED faults
     \/ Fault /\ journal' \in {journal, record} /\ saved' = FALSE /\ pc' = failed
  /\ UNCHANGED edited

\* Recoveries that only abandon a preparation or lower the pending marker.
Shortcut == op.mode = "recover" /\ (op.abandon \/ mem.phase = "committed")

\* An owned check is durable before it is launched: "checking", ownership
\* unconfirmed.  Reverse health adds more checks after the first ones.
OpenCheck ==
  /\ \/ pc = "begun" /\ ~Shortcut
     \/ pc = "checked" /\ op.direction = "reverse"
  /\ Save([mem EXCEPT !.phase = "checking", !.check = "open"], "checking",
          "discarding")
  /\ UNCHANGED <<leaf, backup, pending, Memory, held, at>>

\* The check passes, fails with its exit confirmed, or its group's exit stays
\* unknown; each outcome is saved.
CloseCheck ==
  /\ pc = "checking"
  /\ \/ Save([mem EXCEPT !.check = "complete"], "checked", "discarding")
     \/ /\ Fault
        /\ \E check \in {"complete", "open"} :
             /\ mem' = [mem EXCEPT !.check = check]
             /\ journal' = mem'
        /\ pc' = "discarding"
        /\ UNCHANGED <<saved, edited>>
  /\ UNCHANGED <<leaf, backup, pending, Memory, held, at>>

Prepare ==
  /\ pc = "checked"
  /\ Save([mem EXCEPT !.phase = "prepared"], "ready", "discarding")
  /\ UNCHANGED <<leaf, backup, pending, Memory, held, at>>

\* Mutant: a failed save of the check's outcome does not stop the discard.
Mutant_MayDiscard ==
  /\ op.new /\ ~held
  /\ \A r \in Rows : mem.rows[r].phase = "prepared" /\ mem.rows[r].observed = Nil

MayDiscard ==
  /\ op.new /\ saved /\ ~held
  /\ mem.check = "complete"
  /\ \A r \in Rows : mem.rows[r].phase = "prepared" /\ mem.rows[r].observed = Nil

\* A failed candidate leaves no journal, when that is certain to be harmless.
Discard ==
  /\ pc = "discarding"
  /\ pc' = "closing"
  /\ \/ MayDiscard /\ journal' = NoRecord /\ saved' = FALSE /\ UNCHANGED faults
     \/ ~MayDiscard /\ UNCHANGED <<journal, saved, faults>>
     \/ MayDiscard /\ Fault /\ journal' \in {journal, NoRecord} /\ UNCHANGED saved
  /\ UNCHANGED <<leaf, backup, pending, mem, Memory, held, at, edited>>

\* abandonPreparation takes the journal over as its own and discards it.
Abandon ==
  /\ pc = "begun" /\ Shortcut /\ op.abandon
  /\ op' = [op EXCEPT !.new = TRUE]
  /\ pc' = IF op.direction = "reverse" THEN "discarding" ELSE "closing"
  /\ UNCHANGED <<disk, mem, plan, held, saved, at>> /\ Quietly

\* backup, for an upgrade only: a set that exists already refuses.
StartBackup ==
  /\ pc = "ready"
  /\ IF op.mode = "upgrade"
     THEN IF backup = "none" THEN backup' = "partial" /\ pc' = "backing"
                             ELSE pc' = "closing" /\ UNCHANGED backup
     ELSE pc' = "backed" /\ UNCHANGED backup
  /\ UNCHANGED <<leaf, journal, pending, mem, Memory, held, saved, at>> /\ Quietly

FinishBackup ==
  /\ pc = "backing"
  /\ IF \A r \in Rows : plan[r].act \in {"replace", "retire"} => leaf[r] = plan[r].before
     THEN backup' = "complete" /\ pc' = "backed"
     ELSE pc' = "closing" /\ UNCHANGED backup
  /\ UNCHANGED <<leaf, journal, pending, mem, Memory, held, saved, at>> /\ Quietly

\* An identity no durable or remembered record holds for an earlier marker.
FreshPending == IF mem.pending = 1 THEN 2 ELSE 1

RaisePending ==
  /\ pc = "backed" /\ ~held
  /\ pending' = FreshPending
  /\ held' = TRUE
  /\ pc' = "raised"
  /\ UNCHANGED <<leaf, journal, backup, mem, Memory, saved, at>> /\ Quietly

\* A recovery goes on behind the marker it found, if it is the recorded one.
KeepPending ==
  /\ pc = "backed" /\ held
  /\ pc' = IF mem.pending \in {0, pending} THEN "raised" ELSE "closing"
  /\ UNCHANGED <<disk, mem, Memory, held, saved, at>> /\ Quietly

\* The rows still to be applied, in path order; then the metadata row.
Todo(r) == plan[r].act # "retain"
FirstFrom(i) ==
  LET left == {k \in i..Len(Order) : Todo(Order[k])} IN
  IF left = {} THEN NoRow
  ELSE Order[CHOOSE k \in left : \A l \in left : k <= l]
After(r) == FirstFrom(1 + CHOOSE k \in 1..Len(Order) : Order[k] = r)

IntentPhase == IF op.direction = "forward" THEN "prepared" ELSE "reverse_prepared"
DonePhase   == IF op.direction = "forward" THEN "applied" ELSE "reversed"

\* Every selected mutation intent is durable before the first active change.
Intend ==
  /\ pc = "raised"
  /\ at' = FirstFrom(1)
  /\ Save([mem EXCEPT !.pending = pending,
                      !.purpose = IF op.mode = "recover" THEN "recovery" ELSE op.mode,
                      !.direction = op.direction,
                      !.phase = "applying",
                      !.rows = [r \in Rows |->
                        IF Todo(r) THEN [mem.rows[r] EXCEPT !.phase = IntentPhase]
                                   ELSE mem.rows[r]]],
          "applying", "closing")
  /\ UNCHANGED <<leaf, backup, pending, Memory, held>>

\* An inode nothing on disk or in memory remembers.
FreshId(r) ==
  LET known == {leaf[r].id, plan[r].before.id} \cup
               UNION {{e.before.id, e.prepared.id, e.observed.id} :
                        e \in {mem.rows[r], journal.rows[r]}}
      unused == OwnIds \ known
  IN CHOOSE i \in unused : \A j \in unused : i <= j

Applying == pc \in {"applying", "metadata"} /\ at # NoRow
\* Mutant: trusts the plan's observation of the leaf.
Mutant_Unmoved(r) == mem.rows[r].phase = IntentPhase

Unmoved(r) == leaf[r] = plan[r].before /\ mem.rows[r].phase = IntentPhase

\* applyRow, a row with content: stage it, make the stage's identity durable.
Stage ==
  /\ Applying /\ plan[at].after # "nil" /\ Unmoved(at)
  /\ Save([mem EXCEPT !.rows[at].prepared = [c |-> plan[at].after, id |-> FreshId(at)]],
          "staged", "closing")
  /\ UNCHANGED <<leaf, backup, pending, Memory, held, at>>

\* ... then rename it over the leaf, if that is still the consented one.  A
\* failing directory sync is reported after the rename.
Publish ==
  /\ pc = "staged"
  /\ leaf[at] = plan[at].before
  /\ leaf' = [leaf EXCEPT ![at] = mem.rows[at].prepared]
  /\ \/ pc' = "published" /\ UNCHANGED faults
     \/ pc' = "closing" /\ Fault
  /\ UNCHANGED <<journal, backup, pending, mem, Memory, held, saved, at, edited>>

\* applyRow, a row without content.
Unlink ==
  /\ Applying /\ plan[at].after = "nil" /\ Unmoved(at)
  /\ leaf' = [leaf EXCEPT ![at] = Nil]
  /\ \/ pc' = "published" /\ UNCHANGED faults
     \/ pc' = "closing" /\ Fault
  /\ UNCHANGED <<journal, backup, pending, mem, Memory, held, saved, at, edited>>

\* The leaf changed under the operation: it stops and preserves it.
Preserve ==
  /\ \/ Applying /\ ~Unmoved(at)
     \/ pc = "staged" /\ leaf[at] # plan[at].before
     \/ pc = "published" /\ leaf[at].c # plan[at].after
  /\ pc' = "closing"
  /\ UNCHANGED <<disk, mem, Memory, held, saved, at>> /\ Quietly

\* Read the row back and record what is there as applied.
Observe ==
  /\ pc = "published" /\ leaf[at].c = plan[at].after
  /\ Save([mem EXCEPT !.rows[at].observed = leaf[at], !.rows[at].phase = DonePhase],
          IF at = Meta THEN "metadata" ELSE "applying", "closing")
  /\ at' = IF at = Meta THEN NoRow ELSE After(at)
  /\ UNCHANGED <<leaf, backup, pending, Memory, held>>

FinishRows ==
  /\ pc = "applying" /\ at = NoRow
  /\ Save([mem EXCEPT !.phase = "checking"], "verifying", "closing")
  /\ UNCHANGED <<leaf, backup, pending, Memory, held, at>>

Switched == Rows \ {Meta}

\* validateProvenTarget: each installed file is the one this operation
\* published or kept.  validateLegacy: each restored row has its old content.
Verified ==
  IF op.direction = "forward"
  THEN \A r \in Switched : Target[r] # "nil" =>
         leaf[r] = IF Todo(r) THEN mem.rows[r].observed ELSE plan[r].before
  ELSE \A r \in Switched : Todo(r) => leaf[r].c = Baseline[r]

Verify ==
  /\ pc = "verifying"
  /\ \/ /\ Verified
        /\ Save([mem EXCEPT !.phase = "metadata_prepared"], "metadata", "closing")
        /\ at' = IF Todo(Meta) THEN Meta ELSE NoRow
     \/ /\ ~Verified
        /\ pc' = "closing"
        /\ UNCHANGED <<journal, mem, saved, at>> /\ Quietly
  /\ UNCHANGED <<leaf, backup, pending, Memory, held>>

\* observeRetainedRows and the last content validation.
Complete ==
  /\ \A r \in Rows : ~Todo(r) => leaf[r] = plan[r].before /\ leaf[r].c = plan[r].after
  /\ op.direction = "forward" \/ Hybrid =>
       \A r \in Rows : Side(op.direction, r) # "nil" => leaf[r].c = Side(op.direction, r)

Commit ==
  /\ pc = "metadata" /\ at = NoRow
  /\ \/ /\ Complete
        /\ Save([mem EXCEPT !.phase = "committed",
                            !.rows = [r \in Rows |->
                              IF Todo(r) THEN mem.rows[r]
                              ELSE [mem.rows[r] EXCEPT !.observed = leaf[r],
                                                       !.phase = DonePhase]]],
                "committed", "closing")
     \/ /\ ~Complete
        /\ pc' = "closing"
        /\ UNCHANGED <<journal, mem, saved>> /\ Quietly
  /\ UNCHANGED <<leaf, backup, pending, Memory, held, at>>

\* completePendingCleanup: nothing moved since the terminal record was read.
ConfirmTerminal ==
  /\ pc = "begun" /\ Shortcut /\ ~op.abandon
  /\ pc' = IF \A r \in Rows : leaf[r] = plan[r].before THEN "committed" ELSE "closing"
  /\ UNCHANGED <<disk, mem, Memory, held, saved, at>> /\ Quietly

\* The owned pending marker goes last.
LowerPending ==
  /\ pc = "committed"
  /\ pending = mem.pending
  /\ pending' = 0
  /\ held' = FALSE
  /\ pc' = "closing"
  /\ UNCHANGED <<leaf, journal, backup, mem, Memory, saved, at>> /\ Quietly

\* Any other call of Complete fails: nothing is undone.
Fail ==
  /\ Fault
  /\ \/ pc = "checked" /\ pc' = "discarding"
     \/ /\ pc \in {"begun", "ready", "backing", "backed", "raised", "applying",
                   "staged", "published", "verifying", "metadata", "committed"}
        /\ pc' = "closing"
  /\ UNCHANGED <<disk, mem, Memory, held, saved, at, edited>>

-----------------------------------------------------------------------------
(* Close, and what happens around operations.                              *)

Released ==
  /\ pc' = "idle"
  /\ op' = NoOp /\ mem' = NoRecord /\ plan' = NoPlan
  /\ held' = FALSE /\ saved' = FALSE
  /\ at' = NoRow

UnresolvedWork == mem # NoRecord /\ mem.check = "open"

Close ==
  /\ pc = "closing" /\ ~UnresolvedWork
  /\ Released
  /\ UNCHANGED disk /\ Quietly

\* persistUnresolved: leave a barrier, and a record that has one.  Either call
\* may fail, and the exclusion is released all the same.
CloseUnresolved ==
  /\ pc = "closing" /\ UnresolvedWork
  /\ \E barrier \in {pending, IF pending = 0 THEN FreshPending ELSE pending} :
       LET record == [mem EXCEPT !.pending = IF @ = 0 THEN barrier ELSE @] IN
       /\ pending' = barrier
       /\ \/ /\ barrier # 0
             /\ journal' = IF saved THEN record ELSE journal
             /\ UNCHANGED faults
          \/ /\ Fault
             /\ journal' = journal
  /\ Released
  /\ UNCHANGED <<leaf, backup, edited>>

Crash ==
  /\ pc # "idle"
  /\ Fault
  /\ Released
  /\ UNCHANGED <<disk, edited>>

\* A user rewrites, or removes, a selected file.  (Not between a rename and
\* the reading back of the renamed file: maintained quiescence.)
Edit(r) ==
  /\ Cardinality(edited) < MaxEdits
  /\ pc # "published"
  /\ r \notin edited
  /\ \/ \E c \in {"foreign", Baseline[r], Target[r]} \ {"nil"} :
          leaf' = [leaf EXCEPT ![r] = [c |-> c, id |-> UserId]]
     \/ leaf[r] # Nil /\ leaf' = [leaf EXCEPT ![r] = Nil]
  /\ edited' = edited \cup {r}
  /\ UNCHANGED <<journal, backup, pending, pc, op, mem, plan, held, saved, at, faults>>

Begin ==
  \/ BeginUpgrade
  \/ BeginRollback
  \/ \E direction \in {"forward", "reverse"} : BeginRecover(direction)
  \/ RefuseRecover

\* The steps an admitted operation takes on its own.
Operate ==
  \/ OpenCheck \/ CloseCheck \/ Prepare \/ Discard \/ Abandon
  \/ StartBackup \/ FinishBackup \/ RaisePending \/ KeepPending \/ Intend
  \/ Stage \/ Publish \/ Unlink \/ Preserve \/ Observe
  \/ FinishRows \/ Verify \/ Commit \/ ConfirmTerminal \/ LowerPending
  \/ Close \/ CloseUnresolved

Next ==
  \/ Begin
  \/ Operate
  \/ Fail
  \/ Crash
  \/ \E r \in Rows : Edit(r)

Spec == Init /\ [][Next]_vars

\* An admitted operation is scheduled and has finitely many checks, and an
\* operator who meets a barrier keeps asking for recovery, in either direction.
FairSpec ==
  /\ Spec
  /\ WF_vars(Operate) /\ SF_vars(Prepare)
  /\ WF_vars(\E direction \in {"forward", "reverse"} : BeginRecover(direction))

\* An operator who keeps trying both directions.
PersistentSpec ==
  /\ FairSpec
  /\ \A direction \in {"forward", "reverse"} : SF_vars(BeginRecover(direction))

-----------------------------------------------------------------------------
(* Properties.                                                             *)

Quiet == edited' = edited
Whole(direction) == \A r \in Rows \ edited : leaf[r].c = Side(direction, r)

\* Whatever crashes, fails or is retried, in either direction: ordinary work
\* finds the previous installation or the new one, or the barrier; what comes
\* out from behind the barrier is what a terminal record written behind it says
\* (transaction.go:295-417, recovery.go:48-331; docs/adr/0098).
Atomic == INSTANCE AtomicInstallation WITH
  shown   <- IF pending # 0 THEN "barred"
             ELSE IF Whole("reverse") THEN "old"
             ELSE IF Whole("forward") THEN "new" ELSE "torn",
  verdict <- IF journal # NoRecord /\ journal.phase = "committed"
             THEN journal.direction ELSE "none"
ImplementsAtomic == Atomic!Spec

\* An operation replaces or removes only a file it can give back: the original
\* its journal describes, saved in a complete before-image set, or a file some
\* operation published.  A user's later file is never touched
\* (transaction.go:519-579, recovery.go:207-241).
ReplacedIsRecoverable ==
  [][\A r \in Rows : Quiet /\ leaf'[r] # leaf[r] /\ leaf[r] # Nil =>
       /\ backup = "complete"
       /\ pending # 0
       /\ journal # NoRecord
       /\ leaf[r] = journal.rows[r].before \/ leaf[r].id \in OwnIds]_vars

\* While nobody knows whether a launched check still runs, its record, the
\* before-images and every selected file stay as they are, for good
\* (unresolved.go:10-52, preparation_recovery.go:15-56, storage.go:145-152).
UnknownCheckIsEvidence ==
  [][journal # NoRecord /\ journal.check = "open" /\ pc # "checking" =>
       /\ journal' # NoRecord /\ journal'.rows = journal.rows
       /\ backup' = backup
       /\ Quiet => leaf' = leaf]_vars

\* A file is gone and its record does not say that it went: the removal of a retired
\* file was not recorded, or a rollback was cut off before that file's turn.  Recovery
\* refuses it in both directions (transaction.go:546, recovery.go:210-220; docs/adr/0098:190).
Unaccounted ==
  journal # NoRecord /\ \E r \in Rows :
    leaf[r] = Nil /\ ~Observed(journal.rows[r]) /\ journal.rows[r].before # Nil

\* After one interruption anywhere, once the record names the marker, recovery
\* finishes and the barrier comes down, unless the user edits a file or one has
\* gone unaccounted for (recovery.go:48-331, preparation_recovery.go:171-220).
RecoveryCompletes ==
  (journal # NoRecord /\ pending # 0 /\ journal.pending = pending
     /\ journal.check # "open")
    ~> (pending = 0 \/ faults > 1 \/ edited # {} \/ Unaccounted)

\* docs/adr/0098:223: a restart keeps the marker and reports how to recover.
\* The marker goes up before the record that names it (transaction.go:295-344);
\* whatever happens between the two, recovery should bring it down.
UnrecordedMarkerComesDown ==
  (journal # NoRecord /\ pending # 0 /\ journal.pending = 0 /\ journal.check # "open")
    ~> pending = 0

\* docs/adr/0098:512: a file published but not yet recorded is reconciled by the
\* identity it was prepared with.  Without user edits, a restart can plan.
ReconciledOnRestart ==
  pc = "idle" /\ pending # 0 /\ edited = {} /\ journal # NoRecord /\ journal.check # "open"
    => Plannable(journal)

\* docs/adr/0098:234: unresolved operations keep retryable evidence.  A record
\* with no unknown check, over an unedited installation, admits some operation.
EvidenceIsRetryable ==
  pc = "idle" /\ edited = {} /\ journal # NoRecord /\ journal.check # "open" =>
    \/ journal.phase = "committed"
    \/ Resumable
    \/ \E direction \in {"forward", "reverse"} : Abandonable(direction)
=============================================================================
