------------------------- MODULE InstallationProofs -------------------------
(***************************************************************************)
(* Proofs about Installation, for every set of selected files and however  *)
(* often an operation crashes or fails: what is replaced can be given      *)
(* back, an unknown check freezes its evidence, and everything that looks  *)
(* at the files sees one installation or the barrier.                      *)
(***************************************************************************)
EXTENDS Installation, FiniteSetTheorems, WellFoundedInduction, TLAPS

\* Behind the barrier and a complete set of before-images.
Behind    == {"raised", "applying", "staged", "published", "verifying", "metadata"}
\* The consented plan is being carried out.
Consented == {"checking", "checked", "ready", "backing", "backed"} \cup Behind
Recorded  == Consented \cup {"committed"}

\* What the operation knows of the durable record.
SavedInv ==
  /\ pc # "idle" => mem \in Record /\ op.mode # "none"
  /\ pc # "idle" /\ saved =>
       journal = mem \/ (pc = "closing" /\ journal = NoRecord /\ mem.check = "complete")
  /\ pc \in Recorded => saved
  /\ pc = "begun" => saved \/ (op.mode = "upgrade" /\ journal = NoRecord)
  /\ pc \in {"begun"} \cup (Recorded \ {"checking"}) => mem.check # "open"

\* An image of a row that the record accounts for.
Origin(rec, r, image) == image \in {Nil, rec.rows[r].before} \/ image.id \in OwnIds

\* A stage is the operation's own, and what was read back is accounted for.
OwnRows(rec) ==
  \A r \in Rows :
    /\ rec.rows[r].prepared = Nil \/ rec.rows[r].prepared.id \in OwnIds
    /\ Origin(rec, r, rec.rows[r].observed)

OriginInv ==
  /\ journal # NoRecord => OwnRows(journal)
  /\ pc # "idle" => OwnRows(mem) /\ \A r \in Rows : Origin(mem, r, plan[r].before)
  /\ pc \in {"staged", "published"} => at \in Rows
  /\ pc = "staged" => mem.rows[at].prepared.id \in OwnIds
  /\ pc = "published" => leaf[at] = Nil \/ leaf[at].id \in OwnIds

\* The before-images are complete and the barrier is up before a file is changed.
BarrierInv ==
  /\ held => pending # 0
  /\ pc \in Behind => held
  /\ pc \in Behind \cup {"backed"} => backup = "complete"
  /\ op.mode # "upgrade" /\ (pc \in {"checking", "checked", "ready"} \/ (pc = "begun" /\ ~Shortcut)) =>
       backup = "complete"

\* The plan goes to one side, and the record says which before the first change.
SideInv ==
  /\ pc \in Consented \/ (pc = "begun" /\ ~Shortcut) =>
       \A r \in Rows : plan[r].after = Side(op.direction, r)
  /\ pc \in Behind \ {"raised"} => mem.direction = op.direction

\* The rows that were read back as the plan wants them.
Prior(r, x) ==
  /\ r # Meta
  /\ x \in {NoRow, Meta} \/ \E i, k \in 1..Len(Order) : Order[i] = r /\ Order[k] = x /\ i < k
Done(r) ==
  \/ pc \in {"applying", "staged", "published"} /\ Prior(r, at)
  \/ pc = "verifying" /\ r # Meta
  \/ pc = "metadata" /\ (r # Meta \/ at = NoRow)
DoneInv == \A r \in Rows \ edited : Todo(r) /\ Done(r) => leaf[r].c = plan[r].after

\* In front of the barrier, and where it is about to come down, the installation is whole.
WholeInv ==
  /\ pending = 0 => Whole("reverse") \/ Whole("forward")
  /\ pc = "committed" => mem.phase = "committed" /\ Whole(mem.direction)
  /\ pc = "begun" /\ Shortcut /\ ~op.abandon =>
       mem.phase = "committed" /\ \A r \in Rows : plan[r].before.c = Side(mem.direction, r)

IInv == TypeOK /\ SavedInv /\ OriginInv /\ BarrierInv /\ SideInv /\ DoneInv /\ WholeInv
-----------------------------------------------------------------------------
\* The order in which rows are applied.

LEMMA Least ==
  ASSUME NEW S \in SUBSET Nat, S # {}
  PROVE  \E i \in S : \A j \in S : i <= j
<1>1. PICK i \in S : \A j \in S : <<j, i>> \notin OpToRel(<, Nat)
  BY WFMin, NatLessThanWellFounded
<1>2. \A j \in S : ~(j < i)
  BY <1>1 DEF OpToRel
<1> QED  BY <1>2

\* The next row to be applied is the first one that is not retained.
LEMMA FirstIs ==
  ASSUME NEW i \in Nat \ {0}
  PROVE  \/ FirstFrom(i) = NoRow /\ \A k \in i..Len(Order) : ~Todo(Order[k])
         \/ \E k \in i..Len(Order) : /\ FirstFrom(i) = Order[k]
                                     /\ \A l \in i..Len(Order) : Todo(Order[l]) => k <= l
<1> DEFINE left == {k \in i..Len(Order) : Todo(Order[k])}
<1>1. FirstFrom(i) = IF left = {} THEN NoRow ELSE Order[CHOOSE k \in left : \A l \in left : k <= l]
  BY DEF FirstFrom
<1>2. CASE left = {}
  BY <1>1, <1>2
<1>3. CASE left # {}
  <2>1. left \in SUBSET Nat
    BY RowsAssumption
  <2>2. \E k \in left : \A l \in left : k <= l
    BY <1>3, <2>1, Least
  <2> DEFINE k == CHOOSE n \in left : \A l \in left : n <= l
  <2>3. k \in left /\ \A l \in left : k <= l
    BY <2>2
  <2>4. FirstFrom(i) = Order[k]
    BY <1>1, <1>3
  <2> QED  BY <2>3, <2>4
<1> QED  BY <1>2, <1>3

LEMMA FirstRow ==
  ASSUME NEW i \in Nat \ {0}
  PROVE  FirstFrom(i) \in Rows \cup {NoRow}
<1>1. \A k \in i..Len(Order) : k \in 1..Len(Order)
  BY RowsAssumption
<1> QED  BY <1>1, FirstIs DEF Rows

\* A selected file has one place in the path order.
LEMMA Place ==
  ASSUME NEW r \in Rows, r # Meta
  PROVE  /\ (CHOOSE k \in 1..Len(Order) : Order[k] = r) \in 1..Len(Order)
         /\ Order[CHOOSE k \in 1..Len(Order) : Order[k] = r] = r
<1>1. \E k \in 1..Len(Order) : Order[k] = r
  BY DEF Rows
<1> QED  BY <1>1

LEMMA AfterRow ==
  ASSUME NEW r \in Rows, r # Meta
  PROVE  After(r) \in Rows \cup {NoRow}
<1> DEFINE p == CHOOSE k \in 1..Len(Order) : Order[k] = r
<1>1. p \in 1..Len(Order)
  BY Place
<1>2. 1 + p \in Nat \ {0}
  BY <1>1, RowsAssumption
<1> QED  BY <1>2, FirstRow DEF After

\* Nothing that must be switched comes before the first row ...
LEMMA FirstPrior ==
  ASSUME NEW r \in Rows, Prior(r, FirstFrom(1))
  PROVE  ~Todo(r)
<1>1. PICK i \in 1..Len(Order) : Order[i] = r
  BY DEF Rows, Prior
<1>2. CASE FirstFrom(1) = NoRow /\ \A k \in 1..Len(Order) : ~Todo(Order[k])
  BY <1>1, <1>2
<1>3. ASSUME NEW k \in 1..Len(Order), FirstFrom(1) = Order[k],
             \A l \in 1..Len(Order) : Todo(Order[l]) => k <= l
      PROVE  ~Todo(r)
  <2>1. Order[k] \notin {NoRow, Meta}
    BY RowsAssumption DEF Rows
  <2>2. i < k
    BY <1>1, <1>3, <2>1, RowsAssumption DEF Prior
  <2> QED  BY <1>1, <1>3, <2>2, RowsAssumption
<1> QED  BY <1>2, <1>3, FirstIs

\* ... and nothing between a row and the next one.
LEMMA AfterPrior ==
  ASSUME NEW x \in Rows, x # Meta, NEW r \in Rows, Todo(r), Prior(r, After(x))
  PROVE  r = x \/ Prior(r, x)
<1> DEFINE p == CHOOSE k \in 1..Len(Order) : Order[k] = x
<1>1. p \in 1..Len(Order) /\ Order[p] = x
  BY Place
<1>2. After(x) = FirstFrom(1 + p)
  BY DEF After
<1> HIDE DEF p
<1>3. PICK i \in 1..Len(Order) : Order[i] = r
  BY DEF Rows, Prior
<1>4. i <= p
  <2>1. CASE \A k \in (1 + p)..Len(Order) : ~Todo(Order[k])
    BY <1>1, <1>3, <2>1, RowsAssumption
  <2>2. ASSUME NEW k \in (1 + p)..Len(Order), FirstFrom(1 + p) = Order[k],
               \A l \in (1 + p)..Len(Order) : Todo(Order[l]) => k <= l
        PROVE  i <= p
    <3>1. k \in 1..Len(Order) /\ Order[k] \notin {NoRow, Meta}
      BY <1>1, RowsAssumption DEF Rows
    <3>2. i < k
      BY <1>2, <1>3, <2>2, <3>1, RowsAssumption DEF Prior
    <3> QED  BY <1>1, <1>3, <2>2, <3>1, <3>2, RowsAssumption
  <2>3. 1 + p \in Nat \ {0}
    BY <1>1, RowsAssumption
  <2> QED  BY <2>1, <2>2, <2>3, FirstIs
<1>5. i = p => r = x
  BY <1>1, <1>3
<1>6. i # p => Prior(r, x)
  BY <1>1, <1>3, <1>4, RowsAssumption DEF Prior
<1> QED  BY <1>5, <1>6

\* Some identity is always unused: a row of the record names at most three.
LEMMA FreshIsOwn ==
  ASSUME NEW r \in Rows, mem \in Record, journal = mem, leaf[r] = plan[r].before, leaf[r] \in Image
  PROVE  FreshId(r) \in OwnIds
<1> DEFINE e == mem.rows[r]
           known == {leaf[r].id, e.before.id, e.prepared.id, e.observed.id}
           unused == OwnIds \ known
<1>1. FreshId(r) = CHOOSE i \in unused : \A j \in unused : i <= j
  <2>1. {leaf[r].id, plan[r].before.id} \cup
         UNION {{f.before.id, f.prepared.id, f.observed.id} : f \in {mem.rows[r], journal.rows[r]}} = known
    OBVIOUS
  <2> QED  BY <2>1 DEF FreshId
<1>2. unused \in SUBSET Nat
  BY DEF OwnIds
<1>3. unused # {}
  <2>1. PICK a, b, c, d : known = {a, b, c, d}
    OBVIOUS
  <2> HIDE DEF known
  <2> QED  BY <2>1 DEF OwnIds
<1>4. \E i \in unused : \A j \in unused : i <= j
  BY <1>2, <1>3, Least
<1> HIDE DEF unused
<1>5. (CHOOSE i \in unused : \A j \in unused : i <= j) \in unused
  BY <1>4
<1> QED  BY <1>1, <1>5 DEF unused
-----------------------------------------------------------------------------
LEMMA InitInv == Init => IInv
<1> SUFFICES ASSUME Init  PROVE IInv
  OBVIOUS
<1>1. TypeOK
  <2>1. leaf \in [Rows -> Image]
    BY ImagesAssumption DEF Init, Image, Contents, Nil, BaseId
  <2>2. plan \in [Rows -> Actions]
    BY DEF Init, NoPlan, Actions, Image, Contents, Nil
  <2>3. faults \in 0..MaxFaults /\ edited \in SUBSET Rows
    BY BoundsAssumption DEF Init
  <2>4. op \in [mode : {"none", "upgrade", "rollback", "recover"}, direction : {"forward", "reverse"},
                new : BOOLEAN, abandon : BOOLEAN]
    BY DEF Init, NoOp
  <2>5. journal \in Record \cup {NoRecord} /\ mem \in Record \cup {NoRecord}
    BY DEF Init
  <2>6. backup \in {"none", "partial", "complete"} /\ pending \in 0..2 /\ pc \in Stages
    BY DEF Init, Stages
  <2>7. held \in BOOLEAN /\ saved \in BOOLEAN /\ at \in Rows \cup {NoRow}
    BY DEF Init
  <2> QED  BY <2>1, <2>2, <2>3, <2>4, <2>5, <2>6, <2>7 DEF TypeOK
<1>2. SavedInv /\ OriginInv /\ BarrierInv /\ SideInv /\ DoneInv
  BY DEF Init, SavedInv, OriginInv, BarrierInv, SideInv, DoneInv, Done, Recorded, Consented, Behind
<1>3. WholeInv
  <2>1. Whole("reverse")
    BY ImagesAssumption DEF Init, Whole, Side, Nil
  <2> QED  BY <2>1 DEF Init, WholeInv
<1> QED  BY <1>1, <1>2, <1>3 DEF IInv

\* A failure stays within the bound.
LEMMA FaultType ==
  ASSUME faults \in 0..MaxFaults, Fault \/ UNCHANGED faults
  PROVE  faults' \in 0..MaxFaults
BY BoundsAssumption DEF Fault

\* What an admitted operation works with.
LEMMA Known ==
  ASSUME IInv
  PROVE  /\ pc # "idle" => mem \in Record /\ op.mode # "none"
         /\ pc \in Recorded => saved /\ journal = mem /\ journal \in Record /\ journal # NoRecord
         /\ pc = "begun" => (saved /\ journal = mem) \/ (op.mode = "upgrade" /\ journal = NoRecord)
         /\ journal # NoRecord => journal \in Record
         /\ faults \in 0..MaxFaults
BY NoRecordAssumption DEF IInv, SavedInv, TypeOK, Recorded, Consented, Behind

\* An operation that stops: nothing on the disk has moved.
LEMMA LeaveInv ==
  ASSUME IInv, pc \notin {"idle", "closing"}, pc' \in {"discarding", "closing"},
         UNCHANGED <<disk, mem, plan, held, saved, at, edited>>, Fault \/ UNCHANGED faults,
         op' \in [mode : {"none", "upgrade", "rollback", "recover"}, direction : {"forward", "reverse"},
                  new : BOOLEAN, abandon : BOOLEAN],
         op'.mode = op.mode
  PROVE  IInv'
<1> USE DEF disk
<1>1. TypeOK'
  BY Known, FaultType DEF IInv, TypeOK, Stages
<1>2. SavedInv' /\ OriginInv'
  BY DEF IInv, SavedInv, OriginInv, OwnRows, Origin, Recorded, Consented, Behind
<1>3. BarrierInv' /\ SideInv' /\ DoneInv' /\ WholeInv'
  BY DEF IInv, BarrierInv, SideInv, DoneInv, Done, WholeInv, Whole, Consented, Behind
<1> QED  BY <1>1, <1>2, <1>3 DEF IInv

\* saveJournal: either image of the record, and the step it was saved for or the end.
LEMMA SaveInv ==
  ASSUME IInv, pc \in {"begun"} \cup Recorded, pc = "begun" => ~Shortcut,
         NEW m \in Record, NEW failed \in {"discarding", "closing"},
         NEW next \in {"checking", "checked", "ready", "applying", "staged", "verifying", "metadata", "committed"},
         Save(m, next, failed), at' \in Rows \cup {NoRow},
         UNCHANGED <<leaf, backup, pending, op, plan, held>>,
         OwnRows(m), \A r \in Rows : m.rows[r].before = mem.rows[r].before,
         next = "checking" \/ m.check # "open",
         IF next \in {"checking", "checked", "ready"} THEN pc \in {"begun", "checking", "checked"}
                                                       ELSE pc \in Behind,
         next \in Behind => m.direction = op.direction,
         next = "staged" => at' \in Rows /\ m.rows[at'].prepared.id \in OwnIds,
         next = "committed" => m.phase = "committed" /\ Whole(m.direction),
         pc' = next => DoneInv'
  PROVE  IInv'
<1>1. /\ mem' = m /\ journal' \in {journal, m} /\ pc' \in {next, failed} /\ edited' = edited
      /\ Fault \/ UNCHANGED faults
      /\ pc' = next => saved' = TRUE /\ journal' = m
      /\ pc' = failed => ~saved'
      /\ saved' \in BOOLEAN
  BY DEF Save
<1>2. TypeOK'
  <2>1. pc' \in Stages
    BY <1>1 DEF Stages
  <2> QED  BY <1>1, <2>1, FaultType DEF IInv, TypeOK
<1>3. SavedInv'
  BY <1>1, Known DEF SavedInv, Recorded, Consented, Behind
<1>4. OriginInv'
  <2>1. \A r \in Rows : Origin(mem, r, plan[r].before)
    BY DEF IInv, OriginInv, Recorded, Consented, Behind
  <2>2. \A r \in Rows : Origin(m, r, plan[r].before)
    BY <2>1 DEF Origin
  <2>3. journal # NoRecord => OwnRows(journal)
    BY DEF IInv, OriginInv
  <2>4. OwnRows(mem)' /\ \A r \in Rows : Origin(mem', r, plan'[r].before)
    BY <1>1, <2>2 DEF OwnRows, Origin
  <2>5. (journal # NoRecord => OwnRows(journal))'
    BY <1>1, <2>3 DEF OwnRows, Origin
  <2>6. (pc \in {"staged", "published"} => at \in Rows)' /\ (pc = "staged" => mem.rows[at].prepared.id \in OwnIds)'
        /\ pc' # "published"
    BY <1>1
  <2> QED  BY <2>4, <2>5, <2>6 DEF OriginInv, Origin
<1>5. BarrierInv'
  BY <1>1 DEF IInv, BarrierInv, Shortcut, Behind
<1>6. SideInv'
  BY <1>1 DEF IInv, SideInv, Side, Consented, Behind
<1>7. DoneInv'
  BY <1>1 DEF DoneInv, Done
<1>8. WholeInv'
  BY <1>1 DEF IInv, WholeInv, Whole
<1> QED  BY <1>2, <1>3, <1>4, <1>5, <1>6, <1>7, <1>8 DEF IInv
-----------------------------------------------------------------------------
\* buildTransitionPlan: a row that is no conflict has an image its record accounts for,
\* and after a terminal record the content of its side.
LEMMA Accepted ==
  ASSUME IInv, journal # NoRecord, Plannable(journal), NEW r \in Rows
  PROVE  /\ Origin(journal, r, leaf[r])
         /\ journal.phase = "committed" => leaf[r].c = Side(journal.direction, r)
<1>1. OwnRows(journal)
  BY DEF IInv, OriginInv
<1>2. ~RowConflict(journal, r)
  BY DEF Plannable
<1> QED  BY <1>1, <1>2 DEF OwnRows, Origin, RowConflict, KnownObserved, KnownPrepared, Nil

LEMMA ActionType ==
  ASSUME NEW act \in {"create", "replace", "retire", "retain"}, NEW image \in Image, NEW content \in Contents
  PROVE  [act |-> act, before |-> image, after |-> content] \in Actions
BY DEF Actions

LEMMA NilImage == Nil \in Image /\ Nil.c = "nil"
BY DEF Nil, Image, Contents

LEMMA PlanType ==
  ASSUME TypeOK, NEW direction \in {"forward", "reverse"}
  PROVE  /\ PlanTo(direction) \in [Rows -> Actions]
         /\ \A r \in Rows : PlanTo(direction)[r].before = leaf[r] /\ PlanTo(direction)[r].after = Side(direction, r)
<1>1. ASSUME NEW r \in Rows
      PROVE  Side(direction, r) \in Contents
  BY ImagesAssumption DEF Side, Contents
<1>2. ASSUME NEW r \in Rows
      PROVE  /\ PlanTo(direction)[r].act \in {"create", "replace", "retire", "retain"}
             /\ PlanTo(direction)[r] = [act |-> PlanTo(direction)[r].act, before |-> leaf[r], after |-> Side(direction, r)]
  BY DEF PlanTo
<1>3. ASSUME NEW r \in Rows  PROVE PlanTo(direction)[r] \in Actions
  <2>1. leaf[r] \in Image
    BY DEF TypeOK
  <2> QED  BY <1>1, <1>2, <2>1, ActionType
<1>4. PlanTo(direction) = [r \in Rows |-> PlanTo(direction)[r]]
  BY DEF PlanTo
<1>5. PlanTo(direction) \in [Rows -> Actions]
  BY <1>3, <1>4
<1>6. ASSUME NEW r \in Rows
      PROVE  PlanTo(direction)[r].before = leaf[r] /\ PlanTo(direction)[r].after = Side(direction, r)
  BY DEF PlanTo
<1> QED  BY <1>5, <1>6

LEMMA FreshType ==
  ASSUME TypeOK
  PROVE  /\ FreshRecord \in Record
         /\ FreshPlan \in [Rows -> Actions]
         /\ \A r \in Rows : /\ FreshPlan[r].before = leaf[r] /\ FreshPlan[r].after = Target[r]
                            /\ FreshRecord.rows[r].before = leaf[r]
                            /\ FreshRecord.rows[r].prepared = Nil /\ FreshRecord.rows[r].observed = Nil
         /\ FreshRecord.check = "none" /\ FreshRecord.phase = "prepared"
<1>1. ASSUME NEW r \in Rows
      PROVE  leaf[r] \in Image /\ Target[r] \in Contents /\ Nil \in Image
  <2>1. Target[r] \in Contents
    BY ImagesAssumption DEF Contents
  <2>2. leaf[r] \in Image
    BY DEF TypeOK
  <2> QED  BY <2>1, <2>2, NilImage
<1>2. ASSUME NEW r \in Rows
      PROVE  /\ FreshPlan[r].act \in {"create", "replace", "retire", "retain"}
             /\ FreshPlan[r] = [act |-> FreshPlan[r].act, before |-> leaf[r], after |-> Target[r]]
  BY DEF FreshPlan
<1>3. FreshPlan = [r \in Rows |-> FreshPlan[r]] /\ \A r \in Rows : FreshPlan[r] \in Actions
  <2>1. FreshPlan = [r \in Rows |-> FreshPlan[r]]
    BY DEF FreshPlan
  <2> QED  BY <1>1, <1>2, <2>1, ActionType
<1>4. FreshPlan \in [Rows -> Actions]
  BY <1>3
<1>5. FreshRecord.rows \in [Rows -> RowRecord]
  BY <1>1 DEF FreshRecord, RowRecord
<1>6. FreshRecord \in Record
  BY <1>5 DEF FreshRecord, Record
<1> QED  BY <1>2, <1>4, <1>6 DEF FreshRecord

\* Begin: what an operation is admitted with.
LEMMA GrantInv ==
  ASSUME IInv, pc = "idle", NEW mode \in {"upgrade", "rollback", "recover"},
         NEW direction \in {"forward", "reverse"}, NEW record \in Record,
         NEW steps \in [Rows -> Actions], NEW next \in {"begun", "closing"},
         Granted(mode, direction, record, steps, next),
         journal # NoRecord => record = journal,
         journal = NoRecord => next = "begun" /\ mode = "upgrade",
         next = "begun" => record.check # "open",
         OwnRows(record), \A r \in Rows : Origin(record, r, steps[r].before),
         next = "begun" =>
           \/ /\ backup = "complete" \/ mode = "upgrade"
              /\ \A r \in Rows : steps[r].after = Side(direction, r)
              /\ mode = "recover" => PreparationOnly(journal) \/ record.phase # "committed"
           \/ mode = "recover" /\ journal # NoRecord /\ PreparationOnly(journal)
           \/ /\ mode = "recover" /\ record.phase = "committed"
              /\ \A r \in Rows : steps[r].before.c = Side(record.direction, r)
  PROVE  IInv'
<1> DEFINE o == [mode |-> mode, direction |-> direction, new |-> journal = NoRecord,
                 abandon |-> journal # NoRecord /\ PreparationOnly(journal)]
<1>1. /\ op' = o /\ mem' = record /\ plan' = steps /\ held' = (pending # 0)
      /\ saved' = (journal # NoRecord) /\ pc' = next
      /\ UNCHANGED <<leaf, journal, backup, pending, at, faults, edited>>
  BY DEF Granted, disk
<1>2. /\ o.mode = mode /\ o.direction = direction
      /\ o.abandon = (journal # NoRecord /\ PreparationOnly(journal))
      /\ o.new \in BOOLEAN /\ o.abandon \in BOOLEAN
  OBVIOUS
<1>3. o \in [mode : {"none", "upgrade", "rollback", "recover"}, direction : {"forward", "reverse"},
             new : BOOLEAN, abandon : BOOLEAN]
  BY <1>2
<1> HIDE DEF o
<1>4. TypeOK'
  <2>1. pc' \in Stages /\ held' \in BOOLEAN /\ saved' \in BOOLEAN
    BY <1>1 DEF Stages
  <2> QED  BY <1>1, <1>3, <2>1 DEF IInv, TypeOK
<1>5. SavedInv'
  BY <1>1, <1>2 DEF SavedInv, Recorded, Consented, Behind
<1>6. OriginInv'
  BY <1>1 DEF IInv, OriginInv, OwnRows, Origin
<1>7. BarrierInv' /\ SideInv'
  BY <1>1, <1>2 DEF IInv, BarrierInv, SideInv, Shortcut, Consented, Behind, Side
<1>8. DoneInv' /\ WholeInv'
  BY <1>1, <1>2 DEF IInv, DoneInv, Done, WholeInv, Whole, Shortcut, Side
<1> QED  BY <1>4, <1>5, <1>6, <1>7, <1>8 DEF IInv
LEMMA BeginInv ==
  ASSUME IInv, Begin
  PROVE  IInv'
<1>1. TypeOK /\ (journal # NoRecord => journal \in Record)
  BY Known DEF IInv
<1>2. CASE BeginUpgrade
  <2>1. \A r \in Rows : Origin(FreshRecord, r, FreshPlan[r].before)
    BY <1>1, FreshType DEF Origin
  <2>2. OwnRows(FreshRecord)
    BY <1>1, FreshType DEF OwnRows, Origin
  <2>3. \A r \in Rows : FreshPlan[r].after = Side("forward", r)
    BY <1>1, FreshType DEF Side
  <2> QED  BY <1>1, <1>2, <2>1, <2>2, <2>3, FreshType, GrantInv DEF BeginUpgrade
<1>3. CASE BeginRollback
  <2>1. journal # NoRecord /\ journal \in Record /\ journal.check # "open" /\ backup = "complete"
    BY <1>1, <1>3 DEF BeginRollback, Plannable
  <2>2. OwnRows(journal)
    BY <2>1 DEF IInv, OriginInv
  <2>3. \A r \in Rows : Origin(journal, r, PlanTo("reverse")[r].before)
                        /\ PlanTo("reverse")[r].after = Side("reverse", r)
    BY <1>1, <1>3, Accepted, PlanType DEF BeginRollback
  <2> QED  BY <1>1, <1>3, <2>1, <2>2, <2>3, PlanType, GrantInv DEF BeginRollback
<1>4. ASSUME NEW direction \in {"forward", "reverse"}, BeginRecover(direction)
      PROVE  IInv'
  <2> DEFINE keep == [r \in Rows |-> [act |-> "retain", before |-> leaf[r], after |-> leaf[r].c]]
             steps == IF Resumable THEN PlanTo(direction) ELSE keep
             next == IF Terminal(direction) /\ pending = 0 THEN "closing" ELSE "begun"
  <2>1. /\ pc = "idle" /\ journal # NoRecord /\ journal \in Record /\ OwnRows(journal)
        /\ Abandonable(direction) \/ Terminal(direction) \/ Resumable
        /\ Granted("recover", direction, journal, steps, next)
    BY <1>1, <1>4 DEF BeginRecover, IInv, OriginInv
  <2>2. journal.check # "open"
    BY <2>1 DEF Abandonable, Terminal, Resumable, Plannable
  <2>3. keep \in [Rows -> Actions]
    <3>1. \A r \in Rows : leaf[r] \in Image /\ leaf[r].c \in Contents
      BY <1>1 DEF TypeOK, Image
    <3> QED  BY <3>1, ActionType
  <2>4. ASSUME NEW r \in Rows
        PROVE  /\ steps[r].before = leaf[r]
               /\ Resumable => steps[r].after = Side(direction, r)
    BY <1>1, PlanType
  <2>5. steps \in [Rows -> Actions]
    BY <1>1, <2>3, PlanType
  <2> HIDE DEF steps, keep
  <2>6. \A r \in Rows : Origin(journal, r, leaf[r])
    <3>1. CASE Abandonable(direction)
      BY <3>1 DEF Abandonable, Origin
    <3>2. CASE Terminal(direction) \/ Resumable
      BY <2>1, <3>2, Accepted DEF Terminal, Resumable
    <3> QED  BY <2>1, <3>1, <3>2
  <2>7. \/ /\ backup = "complete"
           /\ \A r \in Rows : steps[r].after = Side(direction, r)
           /\ journal.phase # "committed"
        \/ PreparationOnly(journal)
        \/ journal.phase = "committed" /\ \A r \in Rows : steps[r].before.c = Side(journal.direction, r)
    <3>1. CASE Abandonable(direction)
      BY <3>1 DEF Abandonable
    <3>2. CASE Terminal(direction)
      BY <2>1, <2>4, <3>2, Accepted DEF Terminal
    <3>3. CASE Resumable
      BY <2>4, <3>3 DEF Resumable, Plannable
    <3> QED  BY <2>1, <3>1, <3>2, <3>3
  <2>8. next \in {"begun", "closing"} /\ "recover" \in {"upgrade", "rollback", "recover"}
    OBVIOUS
  <2>9. \A r \in Rows : Origin(journal, r, steps[r].before)
    BY <2>4, <2>6
  <2> HIDE DEF next
  <2> QED  BY <2>1, <2>2, <2>5, <2>7, <2>8, <2>9, GrantInv
<1>5. CASE RefuseRecover
  <2>1. journal # NoRecord /\ journal \in Record /\ OwnRows(journal) /\ pc = "idle"
    BY <1>1, <1>5 DEF RefuseRecover, IInv, OriginInv
  <2>2. NoPlan \in [Rows -> Actions]
    BY NilImage, ActionType DEF NoPlan, Contents
  <2>3. \A r \in Rows : Origin(journal, r, NoPlan[r].before)
    BY DEF NoPlan, Origin
  <2> QED  BY <1>5, <2>1, <2>2, <2>3, GrantInv DEF RefuseRecover
<1> QED  BY <1>2, <1>3, <1>4, <1>5 DEF Begin
-----------------------------------------------------------------------------
\* A record that changes nothing of its rows accounts for the same files.
LEMMA SameRows ==
  ASSUME IInv, pc # "idle", NEW m \in Record, m.rows = mem.rows
  PROVE  OwnRows(m) /\ \A r \in Rows : m.rows[r].before = mem.rows[r].before
BY DEF IInv, OriginInv, OwnRows, Origin

LEMMA OpenCheckInv ==
  ASSUME IInv, OpenCheck
  PROVE  IInv'
<1> DEFINE m == [mem EXCEPT !.phase = "checking", !.check = "open"]
<1>1. /\ (pc = "begun" /\ ~Shortcut) \/ pc = "checked"
      /\ Save(m, "checking", "discarding")
      /\ UNCHANGED <<leaf, backup, pending, op, plan, held, at>>
  BY DEF OpenCheck, Memory
<1>2. mem \in Record
  BY <1>1, Known
<1>3. m \in Record /\ m.rows = mem.rows /\ m.direction = mem.direction
  BY <1>2 DEF Record
<1> HIDE DEF m
<1>4. at' \in Rows \cup {NoRow}
  BY <1>1 DEF IInv, TypeOK
<1>5. pc' = "checking" => DoneInv'
  BY DEF DoneInv, Done
<1>6. OwnRows(m) /\ \A r \in Rows : m.rows[r].before = mem.rows[r].before
  BY <1>1, <1>3, SameRows
<1> QED  BY <1>1, <1>3, <1>4, <1>5, <1>6, SaveInv DEF Recorded, Consented, Behind

LEMMA CloseCheckInv ==
  ASSUME IInv, CloseCheck
  PROVE  IInv'
<1>1. pc = "checking" /\ mem \in Record /\ saved /\ UNCHANGED <<leaf, backup, pending, op, plan, held, at>>
  BY Known DEF CloseCheck, Memory, Recorded, Consented
<1>2. CASE Save([mem EXCEPT !.check = "complete"], "checked", "discarding")
  <2> DEFINE m == [mem EXCEPT !.check = "complete"]
  <2>1. m \in Record /\ m.rows = mem.rows /\ m.check # "open"
    BY <1>1 DEF Record
  <2> HIDE DEF m
  <2>2. at' \in Rows \cup {NoRow}
    BY <1>1 DEF IInv, TypeOK
  <2>3. pc' = "checked" => DoneInv'
    BY DEF DoneInv, Done
  <2>4. OwnRows(m) /\ \A r \in Rows : m.rows[r].before = mem.rows[r].before
    BY <1>1, <2>1, SameRows
  <2>5. Save(m, "checked", "discarding")
    BY <1>2 DEF m
  <2> QED  BY <1>1, <2>1, <2>2, <2>3, <2>4, <2>5, SaveInv DEF Recorded, Consented, Behind
<1>3. ASSUME NEW check \in {"complete", "open"}, Fault, mem' = [mem EXCEPT !.check = check], journal' = mem',
             pc' = "discarding", UNCHANGED <<saved, edited>>
      PROVE  IInv'
  <2>1. mem' \in Record /\ mem'.rows = mem.rows
    BY <1>1, <1>3 DEF Record
  <2>2. TypeOK'
    BY <1>1, <1>3, <2>1, Known, FaultType DEF IInv, TypeOK, Stages
  <2>3. SavedInv'
    BY <1>1, <1>3, <2>1 DEF IInv, SavedInv, Recorded, Consented, Behind
  <2>4. OriginInv'
    <3>1. OwnRows(mem')
      BY <1>1, <2>1, SameRows
    <3> QED  BY <1>1, <1>3, <2>1, <3>1 DEF IInv, OriginInv, OwnRows, Origin
  <2>5. BarrierInv' /\ SideInv' /\ DoneInv' /\ WholeInv'
    BY <1>1, <1>3 DEF IInv, BarrierInv, SideInv, DoneInv, Done, WholeInv, Whole, Consented, Behind
  <2> QED  BY <2>2, <2>3, <2>4, <2>5 DEF IInv
<1> QED  BY <1>2, <1>3 DEF CloseCheck

LEMMA PrepareInv ==
  ASSUME IInv, Prepare
  PROVE  IInv'
<1> DEFINE m == [mem EXCEPT !.phase = "prepared"]
<1>1. pc = "checked" /\ Save(m, "ready", "discarding") /\ UNCHANGED <<leaf, backup, pending, op, plan, held, at>>
  BY DEF Prepare, Memory
<1>2. mem \in Record /\ mem.check # "open"
  BY <1>1, Known DEF IInv, SavedInv, Recorded, Consented
<1>3. m \in Record /\ m.rows = mem.rows /\ m.check # "open"
  BY <1>2 DEF Record
<1> HIDE DEF m
<1>4. at' \in Rows \cup {NoRow}
  BY <1>1 DEF IInv, TypeOK
<1>5. pc' = "ready" => DoneInv'
  BY DEF DoneInv, Done
<1>6. OwnRows(m) /\ \A r \in Rows : m.rows[r].before = mem.rows[r].before
  BY <1>1, <1>3, SameRows
<1> QED  BY <1>1, <1>3, <1>4, <1>5, <1>6, SaveInv DEF Recorded, Consented, Behind

\* A discarded journal had a completed check: nothing that is unknown goes with it.
LEMMA DiscardInv ==
  ASSUME IInv, Discard
  PROVE  IInv'
<1>1. /\ pc = "discarding" /\ pc' = "closing"
      /\ UNCHANGED <<leaf, backup, pending, mem, op, plan, held, at, edited>>
  BY DEF Discard, Memory
<1>2. CASE ~MayDiscard /\ UNCHANGED <<journal, saved, faults>>
  BY <1>1, <1>2, LeaveInv DEF disk, IInv, TypeOK
<1>3. CASE MayDiscard /\ journal' \in {journal, NoRecord} /\ saved' \in {saved, FALSE} /\ (Fault \/ UNCHANGED faults)
  <2>1. TypeOK'
    <3>1. saved' \in BOOLEAN /\ journal' \in Record \cup {NoRecord}
      BY <1>3 DEF IInv, TypeOK
    <3> QED  BY <1>1, <1>3, <3>1, Known, FaultType DEF IInv, TypeOK, Stages
  <2>2. SavedInv'
    BY <1>1, <1>3 DEF IInv, SavedInv, MayDiscard, Recorded, Consented, Behind
  <2>3. OriginInv'
    BY <1>1, <1>3 DEF IInv, OriginInv, OwnRows, Origin
  <2>4. BarrierInv' /\ SideInv' /\ DoneInv' /\ WholeInv'
    BY <1>1, <1>3 DEF IInv, BarrierInv, SideInv, DoneInv, Done, WholeInv, Whole, Consented, Behind
  <2> QED  BY <2>1, <2>2, <2>3, <2>4 DEF IInv
<1> QED  BY <1>2, <1>3 DEF Discard, MayDiscard

LEMMA AbandonInv ==
  ASSUME IInv, Abandon
  PROVE  IInv'
<1> DEFINE o == [op EXCEPT !.new = TRUE]
<1>1. /\ pc = "begun" /\ pc' \in {"discarding", "closing"} /\ op' = o
      /\ UNCHANGED <<disk, mem, plan, held, saved, at, edited, faults>>
  BY DEF Abandon, Quietly
<1>2. o \in [mode : {"none", "upgrade", "rollback", "recover"}, direction : {"forward", "reverse"},
             new : BOOLEAN, abandon : BOOLEAN] /\ o.mode = op.mode
  BY DEF IInv, TypeOK
<1> QED  BY <1>1, <1>2, LeaveInv
-----------------------------------------------------------------------------
\* Between the candidate's check and the first intent, only the before-images and the
\* barrier are written.
LEMMA ReadyInv ==
  ASSUME IInv, pc \in {"ready", "backing", "backed"}, pc' \in {"backing", "backed", "raised"},
         UNCHANGED <<leaf, journal, op, mem, plan, saved, at, faults, edited>>,
         backup' \in {"none", "partial", "complete"}, pc' \in {"backed", "raised"} => backup' = "complete",
         pending' \in 0..2, held' \in BOOLEAN, held' => pending' # 0, pc' = "raised" => held',
         pending' = 0 => pending = 0
  PROVE  IInv'
<1>1. TypeOK'
  BY DEF IInv, TypeOK, Stages
<1>2. SavedInv' /\ OriginInv'
  BY DEF IInv, SavedInv, OriginInv, OwnRows, Origin, Recorded, Consented, Behind
<1>3. BarrierInv' /\ SideInv'
  BY DEF IInv, BarrierInv, SideInv, Consented, Behind, Side
<1>4. DoneInv' /\ WholeInv'
  BY DEF IInv, DoneInv, Done, WholeInv, Whole
<1> QED  BY <1>1, <1>2, <1>3, <1>4 DEF IInv

LEMMA StartBackupInv ==
  ASSUME IInv, StartBackup
  PROVE  IInv'
<1>1. /\ pc = "ready"
      /\ UNCHANGED <<leaf, journal, pending, mem, op, plan, held, saved, at, faults, edited>>
  BY DEF StartBackup, Memory, Quietly
<1>2. CASE op.mode # "upgrade"
  <2>1. backup = "complete" /\ backup' = backup /\ pc' = "backed"
    BY <1>1, <1>2 DEF StartBackup, IInv, BarrierInv
  <2> QED  BY <1>1, <2>1, ReadyInv DEF IInv, TypeOK, BarrierInv
<1>3. CASE op.mode = "upgrade" /\ backup = "none"
  BY <1>1, <1>3, ReadyInv DEF StartBackup, IInv, TypeOK, BarrierInv
<1>4. CASE op.mode = "upgrade" /\ backup # "none"
  BY <1>1, <1>4, LeaveInv DEF StartBackup, IInv, TypeOK, disk
<1> QED  BY <1>2, <1>3, <1>4

LEMMA FinishBackupInv ==
  ASSUME IInv, FinishBackup
  PROVE  IInv'
<1>1. /\ pc = "backing"
      /\ UNCHANGED <<leaf, journal, pending, mem, op, plan, held, saved, at, faults, edited>>
      /\ (backup' = "complete" /\ pc' = "backed") \/ (pc' = "closing" /\ backup' = backup)
  BY DEF FinishBackup, Memory, Quietly
<1>2. CASE pc' = "backed"
  BY <1>1, <1>2, ReadyInv DEF IInv, TypeOK, BarrierInv
<1>3. CASE pc' = "closing"
  BY <1>1, <1>3, LeaveInv DEF IInv, TypeOK, disk
<1> QED  BY <1>1, <1>2, <1>3

LEMMA RaisePendingInv ==
  ASSUME IInv, RaisePending
  PROVE  IInv'
<1>1. /\ pc = "backed" /\ pc' = "raised" /\ pending' \in {1, 2} /\ held' = TRUE
      /\ UNCHANGED <<leaf, journal, backup, mem, op, plan, saved, at, faults, edited>>
  BY DEF RaisePending, FreshPending, Memory, Quietly
<1> QED  BY <1>1, ReadyInv DEF IInv, TypeOK, BarrierInv

LEMMA KeepPendingInv ==
  ASSUME IInv, KeepPending
  PROVE  IInv'
<1>1. /\ pc = "backed" /\ held /\ pc' \in {"raised", "closing"}
      /\ UNCHANGED <<disk, mem, op, plan, held, saved, at, faults, edited>>
  BY DEF KeepPending, Memory, Quietly
<1>2. CASE pc' = "raised"
  BY <1>1, <1>2, ReadyInv DEF IInv, TypeOK, BarrierInv, disk
<1>3. CASE pc' = "closing"
  BY <1>1, <1>3, LeaveInv DEF IInv, TypeOK
<1> QED  BY <1>1, <1>2, <1>3

\* The intents name the side, and no row that must be switched is behind the first one.
LEMMA IntendInv ==
  ASSUME IInv, Intend
  PROVE  IInv'
<1> DEFINE purpose == IF op.mode = "recover" THEN "recovery" ELSE op.mode
           rows == [r \in Rows |-> IF Todo(r) THEN [mem.rows[r] EXCEPT !.phase = IntentPhase] ELSE mem.rows[r]]
           m == [mem EXCEPT !.pending = pending, !.purpose = purpose, !.direction = op.direction,
                            !.phase = "applying", !.rows = rows]
<1>1. /\ pc = "raised" /\ at' = FirstFrom(1) /\ Save(m, "applying", "closing")
      /\ UNCHANGED <<leaf, backup, pending, op, plan, held>>
  BY DEF Intend, Memory
<1>2. mem \in Record /\ mem.check # "open" /\ journal = mem
  BY <1>1, Known DEF IInv, SavedInv, Recorded, Consented, Behind
<1>3. rows \in [Rows -> RowRecord]
      /\ \A r \in Rows : /\ rows[r].before = mem.rows[r].before
                         /\ rows[r].prepared = mem.rows[r].prepared
                         /\ rows[r].observed = mem.rows[r].observed
  <2>1. ASSUME NEW r \in Rows
        PROVE  /\ rows[r] \in RowRecord /\ rows[r].before = mem.rows[r].before
               /\ rows[r].prepared = mem.rows[r].prepared /\ rows[r].observed = mem.rows[r].observed
    <3>1. mem.rows[r] \in RowRecord
      BY <1>2 DEF Record
    <3> QED  BY <3>1 DEF RowRecord, IntentPhase
  <2> QED  BY <2>1
<1> HIDE DEF rows
<1>4. purpose \in {"upgrade", "rollback", "recovery"} /\ pending \in 0..2 /\ op.direction \in {"forward", "reverse"}
  BY <1>1, Known DEF IInv, TypeOK
<1> HIDE DEF purpose
<1>5. m \in Record /\ m.rows = rows /\ m.check # "open" /\ m.direction = op.direction
  BY <1>2, <1>3, <1>4 DEF Record
<1> HIDE DEF m
<1>6. OwnRows(m) /\ \A r \in Rows : m.rows[r].before = mem.rows[r].before
  <2>1. OwnRows(mem)
    BY <1>1 DEF IInv, OriginInv
  <2> QED  BY <1>3, <1>5, <2>1 DEF OwnRows, Origin
<1>7. at' \in Rows \cup {NoRow}
  BY <1>1, FirstRow
<1>8. pc' = "applying" => DoneInv'
  <2> SUFFICES ASSUME pc' = "applying", NEW r \in Rows, Todo(r)', Done(r)'  PROVE FALSE
    BY DEF DoneInv
  <2>1. Todo(r) /\ Prior(r, FirstFrom(1))
    BY <1>1 DEF Todo, Done, Prior
  <2> QED  BY <2>1, FirstPrior
<1> QED  BY <1>1, <1>5, <1>6, <1>7, <1>8, SaveInv DEF Recorded, Consented, Behind
-----------------------------------------------------------------------------
\* The rows, in path order.

LEMMA StageInv ==
  ASSUME IInv, Stage
  PROVE  IInv'
<1> DEFINE stage == [c |-> plan[at].after, id |-> FreshId(at)]
           m == [mem EXCEPT !.rows[at].prepared = stage]
<1>1. /\ pc \in {"applying", "metadata"} /\ at \in Rows /\ leaf[at] = plan[at].before
      /\ Save(m, "staged", "closing")
      /\ UNCHANGED <<leaf, backup, pending, op, plan, held, at>>
  BY DEF Stage, Applying, Unmoved, Memory, IInv, TypeOK
<1>2. mem \in Record /\ journal = mem /\ mem.check # "open" /\ mem.direction = op.direction
  BY <1>1, Known DEF IInv, SavedInv, SideInv, Recorded, Consented, Behind
<1>3. stage \in Image /\ stage.id \in OwnIds
  <2>1. leaf[at] \in Image /\ plan[at].after \in Contents
    BY <1>1 DEF IInv, TypeOK, Actions
  <2>2. FreshId(at) \in OwnIds
    BY <1>1, <1>2, <2>1, FreshIsOwn
  <2> QED  BY <2>1, <2>2 DEF Image, OwnIds
<1> HIDE DEF stage
<1>4. /\ m.rows \in [Rows -> RowRecord] /\ m \in Record
      /\ m.check = mem.check /\ m.direction = mem.direction
      /\ m.rows[at].prepared = stage
      /\ \A r \in Rows : /\ m.rows[r].before = mem.rows[r].before
                         /\ m.rows[r].observed = mem.rows[r].observed
                         /\ r # at => m.rows[r].prepared = mem.rows[r].prepared
  <2>1. mem.rows[at] \in RowRecord
    BY <1>1, <1>2 DEF Record
  <2>2. [mem.rows[at] EXCEPT !.prepared = stage] \in RowRecord
    BY <1>3, <2>1 DEF RowRecord
  <2>3. m.rows = [mem.rows EXCEPT ![at] = [mem.rows[at] EXCEPT !.prepared = stage]]
        /\ m.check = mem.check /\ m.direction = mem.direction
    BY <1>2 DEF Record
  <2>4. m.rows \in [Rows -> RowRecord]
    BY <1>1, <1>2, <2>2, <2>3 DEF Record
  <2>5. m \in Record
    BY <1>2, <2>4 DEF Record
  <2>6. \A r \in Rows : mem.rows[r] \in RowRecord
    BY <1>2 DEF Record
  <2> HIDE DEF m
  <2>7. /\ m.rows[at].prepared = stage
        /\ \A r \in Rows : /\ m.rows[r].before = mem.rows[r].before
                           /\ m.rows[r].observed = mem.rows[r].observed
                           /\ r # at => m.rows[r].prepared = mem.rows[r].prepared
    BY <1>1, <1>2, <2>3, <2>6 DEF Record, RowRecord
  <2> QED  BY <2>3, <2>4, <2>5, <2>7
<1> HIDE DEF m
<1>5. OwnRows(m)
  <2>1. OwnRows(mem)
    BY <1>1 DEF IInv, OriginInv
  <2> QED  BY <1>3, <1>4, <2>1 DEF OwnRows, Origin
<1>6. pc' = "staged" => DoneInv'
  <2> SUFFICES ASSUME pc' = "staged", NEW r \in (Rows \ edited)', Todo(r)', Done(r)'
               PROVE  leaf'[r].c = plan'[r].after
    BY DEF DoneInv
  <2>1. edited' = edited
    BY <1>1 DEF Save
  <2>2. Todo(r) /\ Done(r)
    BY <1>1 DEF Todo, Done, Prior
  <2> QED  BY <1>1, <2>1, <2>2 DEF IInv, DoneInv
<1> QED  BY <1>1, <1>2, <1>3, <1>4, <1>5, <1>6, SaveInv DEF Recorded, Consented, Behind

\* A file of the operation's own, or none, takes the place of the consented one.
LEMMA SwitchInv ==
  ASSUME IInv, pc \in {"applying", "staged", "metadata"}, at \in Rows, NEW image \in Image,
         image = Nil \/ image.id \in OwnIds, leaf' = [leaf EXCEPT ![at] = image],
         pc' \in {"published", "closing"}, Fault \/ UNCHANGED faults,
         UNCHANGED <<journal, backup, pending, mem, op, plan, held, saved, at, edited>>
  PROVE  IInv'
<1>1. TypeOK'
  <2>1. leaf' \in [Rows -> Image]
    BY DEF IInv, TypeOK
  <2> QED  BY <2>1, Known, FaultType DEF IInv, TypeOK, Stages
<1>2. SavedInv'
  BY DEF IInv, SavedInv, Recorded, Consented, Behind
<1>3. OriginInv'
  <2>1. leaf'[at] = image
    BY DEF IInv, TypeOK
  <2> QED  BY <2>1 DEF IInv, OriginInv, OwnRows, Origin
<1>4. BarrierInv' /\ SideInv'
  BY DEF IInv, BarrierInv, SideInv, Consented, Behind, Side
<1>5. DoneInv'
  <2> SUFFICES ASSUME NEW r \in (Rows \ edited)', Todo(r)', Done(r)'
               PROVE  leaf'[r].c = plan'[r].after
    BY DEF DoneInv
  <2>1. Todo(r) /\ Prior(r, at)
    BY DEF Todo, Done, Prior
  <2>2. r # at
    BY <2>1, RowsAssumption DEF Prior, Rows
  <2>3. Done(r)
    BY <2>1 DEF Done, Prior
  <2> QED  BY <2>1, <2>2, <2>3 DEF IInv, DoneInv, TypeOK
<1>6. WholeInv'
  <2>1. pending # 0
    BY DEF IInv, BarrierInv, Behind
  <2> QED  BY <2>1 DEF WholeInv
<1> QED  BY <1>1, <1>2, <1>3, <1>4, <1>5, <1>6 DEF IInv
LEMMA PublishInv ==
  ASSUME IInv, Publish
  PROVE  IInv'
<1>1. /\ pc = "staged" /\ leaf' = [leaf EXCEPT ![at] = mem.rows[at].prepared]
      /\ pc' \in {"published", "closing"} /\ (Fault \/ UNCHANGED faults)
      /\ UNCHANGED <<journal, backup, pending, mem, op, plan, held, saved, at, edited>>
  BY DEF Publish, Memory
<1>2. at \in Rows /\ mem \in Record /\ mem.rows[at].prepared.id \in OwnIds
  BY <1>1, Known DEF IInv, OriginInv
<1>3. mem.rows[at].prepared \in Image
  BY <1>2 DEF Record, RowRecord
<1> QED  BY <1>1, <1>2, <1>3, SwitchInv

LEMMA UnlinkInv ==
  ASSUME IInv, Unlink
  PROVE  IInv'
<1>1. /\ pc \in {"applying", "metadata"} /\ at \in Rows /\ leaf' = [leaf EXCEPT ![at] = Nil]
      /\ pc' \in {"published", "closing"} /\ (Fault \/ UNCHANGED faults)
      /\ UNCHANGED <<journal, backup, pending, mem, op, plan, held, saved, at, edited>>
  BY DEF Unlink, Applying, Memory, IInv, TypeOK
<1> QED  BY <1>1, NilImage, SwitchInv

LEMMA PreserveInv ==
  ASSUME IInv, Preserve
  PROVE  IInv'
<1>1. /\ pc \in {"applying", "metadata", "staged", "published"} /\ pc' = "closing"
      /\ UNCHANGED <<disk, mem, op, plan, held, saved, at, edited, faults>>
  BY DEF Preserve, Applying, Memory, Quietly
<1> QED  BY <1>1, LeaveInv DEF IInv, TypeOK

\* What was read back is recorded, and the next row is the next one to switch.
LEMMA ObserveInv ==
  ASSUME IInv, Observe
  PROVE  IInv'
<1> DEFINE row == [mem.rows[at] EXCEPT !.observed = leaf[at], !.phase = DonePhase]
           rows == [mem.rows EXCEPT ![at] = row]
           m == [mem EXCEPT !.rows[at].observed = leaf[at], !.rows[at].phase = DonePhase]
           next == IF at = Meta THEN "metadata" ELSE "applying"
<1>1. /\ pc = "published" /\ leaf[at].c = plan[at].after /\ Save(m, next, "closing")
      /\ at' = (IF at = Meta THEN NoRow ELSE After(at))
      /\ UNCHANGED <<leaf, backup, pending, op, plan, held>>
  BY DEF Observe, Memory
<1>2. /\ mem \in Record /\ journal = mem /\ mem.check # "open" /\ mem.direction = op.direction
      /\ at \in Rows /\ (leaf[at] = Nil \/ leaf[at].id \in OwnIds) /\ leaf[at] \in Image
  BY <1>1, Known DEF IInv, SavedInv, SideInv, OriginInv, Recorded, Consented, Behind, TypeOK
<1>3. mem.rows \in [Rows -> RowRecord] /\ mem.rows[at] \in RowRecord
  BY <1>2 DEF Record
<1>4. /\ row \in RowRecord /\ row.before = mem.rows[at].before
      /\ row.prepared = mem.rows[at].prepared /\ row.observed = leaf[at]
  BY <1>2, <1>3 DEF RowRecord, DonePhase
<1>5. m.rows = rows /\ m.check = mem.check /\ m.direction = mem.direction /\ m = [mem EXCEPT !.rows = rows]
  BY <1>2, <1>3 DEF Record, RowRecord
<1> HIDE DEF row
<1>6. rows \in [Rows -> RowRecord]
  BY <1>3, <1>4
<1>7. m \in Record
  BY <1>2, <1>5, <1>6 DEF Record
<1>8. \A r \in Rows : m.rows[r] = IF r = at THEN row ELSE mem.rows[r]
  BY <1>2, <1>3, <1>5
<1> HIDE DEF m, rows
<1>9. OwnRows(m) /\ \A r \in Rows : m.rows[r].before = mem.rows[r].before
  <2>1. OwnRows(mem)
    BY <1>1 DEF IInv, OriginInv
  <2> QED  BY <1>2, <1>4, <1>8, <2>1 DEF OwnRows, Origin
<1>10. at' \in Rows \cup {NoRow}
  BY <1>1, <1>2, AfterRow
<1>11. pc' = next => DoneInv'
  <2> SUFFICES ASSUME pc' = next, NEW r \in (Rows \ edited)', Todo(r)', Done(r)'
               PROVE  leaf'[r].c = plan'[r].after
    BY DEF DoneInv
  <2>1. edited' = edited /\ Todo(r) /\ r \in Rows \ edited
    BY <1>1 DEF Save, Todo
  <2>2. CASE at = Meta
    <3>1. r = Meta \/ Done(r)
      BY <1>1, <2>1, <2>2 DEF Done, Prior
    <3> QED  BY <1>1, <2>1, <2>2, <3>1 DEF IInv, DoneInv
  <2>3. CASE at # Meta
    <3>1. Prior(r, After(at))
      BY <1>1, <2>3 DEF Done, Prior
    <3>2. r = at \/ Prior(r, at)
      BY <1>2, <2>1, <2>3, <3>1, AfterPrior
    <3>3. r = at \/ Done(r)
      BY <1>1, <3>2 DEF Done
    <3> QED  BY <1>1, <2>1, <3>3 DEF IInv, DoneInv
  <2> QED  BY <2>2, <2>3
<1> QED  BY <1>1, <1>2, <1>5, <1>7, <1>9, <1>10, <1>11, SaveInv DEF Recorded, Consented, Behind

LEMMA FinishRowsInv ==
  ASSUME IInv, FinishRows
  PROVE  IInv'
<1> DEFINE m == [mem EXCEPT !.phase = "checking"]
<1>1. /\ pc = "applying" /\ at = NoRow /\ Save(m, "verifying", "closing")
      /\ UNCHANGED <<leaf, backup, pending, op, plan, held, at>>
  BY DEF FinishRows, Memory
<1>2. mem \in Record /\ mem.check # "open" /\ mem.direction = op.direction
  BY <1>1, Known DEF IInv, SavedInv, SideInv, Recorded, Consented, Behind
<1>3. m \in Record /\ m.rows = mem.rows /\ m.check = mem.check /\ m.direction = mem.direction
  BY <1>2 DEF Record
<1> HIDE DEF m
<1>4. OwnRows(m) /\ \A r \in Rows : m.rows[r].before = mem.rows[r].before
  BY <1>1, <1>3, SameRows
<1>5. pc' = "verifying" => DoneInv'
  <2> SUFFICES ASSUME pc' = "verifying", NEW r \in (Rows \ edited)', Todo(r)', Done(r)'
               PROVE  leaf'[r].c = plan'[r].after
    BY DEF DoneInv
  <2>1. edited' = edited /\ Todo(r) /\ Done(r)
    BY <1>1 DEF Save, Todo, Done, Prior
  <2> QED  BY <1>1, <2>1 DEF IInv, DoneInv
<1> QED  BY <1>1, <1>2, <1>3, <1>4, <1>5, SaveInv DEF Recorded, Consented, Behind

LEMMA VerifyInv ==
  ASSUME IInv, Verify
  PROVE  IInv'
<1> DEFINE m == [mem EXCEPT !.phase = "metadata_prepared"]
<1>1. pc = "verifying" /\ UNCHANGED <<leaf, backup, pending, op, plan, held>>
  BY DEF Verify, Memory
<1>2. mem \in Record /\ mem.check # "open" /\ mem.direction = op.direction
  BY <1>1, Known DEF IInv, SavedInv, SideInv, Recorded, Consented, Behind
<1>3. m \in Record /\ m.rows = mem.rows /\ m.check = mem.check /\ m.direction = mem.direction
  BY <1>2 DEF Record
<1>4. CASE Save(m, "metadata", "closing") /\ at' = IF Todo(Meta) THEN Meta ELSE NoRow
  <2> HIDE DEF m
  <2>1. OwnRows(m) /\ \A r \in Rows : m.rows[r].before = mem.rows[r].before
    BY <1>1, <1>3, SameRows
  <2>2. pc' = "metadata" => DoneInv'
    <3> SUFFICES ASSUME pc' = "metadata", NEW r \in (Rows \ edited)', Todo(r)', Done(r)'
                 PROVE  leaf'[r].c = plan'[r].after
      BY DEF DoneInv
    <3>1. edited' = edited /\ Todo(r)
      BY <1>1, <1>4 DEF Save, Todo
    <3>2. Done(r)
      BY <1>1, <1>4, <3>1, RowsAssumption DEF Done, Rows
    <3> QED  BY <1>1, <3>1, <3>2 DEF IInv, DoneInv
  <2>3. at' \in Rows \cup {NoRow}
    BY <1>4 DEF Rows
  <2> QED  BY <1>1, <1>2, <1>3, <1>4, <2>1, <2>2, <2>3, SaveInv DEF Recorded, Consented, Behind
<1>5. CASE pc' = "closing" /\ UNCHANGED <<journal, mem, saved, at>> /\ Quietly
  BY <1>1, <1>5, LeaveInv DEF IInv, TypeOK, Quietly, disk
<1> QED  BY <1>4, <1>5 DEF Verify
\* Where the last rows were read back, every row that was not edited is on the plan's side.
LEMMA OnSide ==
  ASSUME IInv, pc = "metadata", at = NoRow, Complete
  PROVE  Whole(op.direction)
<1> SUFFICES ASSUME NEW r \in Rows \ edited  PROVE leaf[r].c = Side(op.direction, r)
  BY DEF Whole
<1>1. plan[r].after = Side(op.direction, r)
  BY DEF IInv, SideInv, Consented, Behind
<1>2. CASE Todo(r)
  BY <1>1, <1>2 DEF IInv, DoneInv, Done
<1>3. CASE ~Todo(r)
  BY <1>1, <1>3 DEF Complete
<1> QED  BY <1>2, <1>3

LEMMA CommitInv ==
  ASSUME IInv, Commit
  PROVE  IInv'
<1> DEFINE row(r) == IF Todo(r) THEN mem.rows[r]
                     ELSE [mem.rows[r] EXCEPT !.observed = leaf[r], !.phase = DonePhase]
           rows == [r \in Rows |-> row(r)]
           m == [mem EXCEPT !.phase = "committed", !.rows = rows]
<1>1. pc = "metadata" /\ at = NoRow /\ UNCHANGED <<leaf, backup, pending, op, plan, held, at>>
  BY DEF Commit, Memory
<1>2. mem \in Record /\ mem.check # "open" /\ mem.direction = op.direction /\ OwnRows(mem)
  BY <1>1, Known DEF IInv, SavedInv, SideInv, OriginInv, Recorded, Consented, Behind
<1>3. CASE Complete /\ Save(m, "committed", "closing")
  <2>1. ASSUME NEW r \in Rows
        PROVE  /\ row(r) \in RowRecord /\ row(r).before = mem.rows[r].before
               /\ row(r).prepared = mem.rows[r].prepared
               /\ Todo(r) => row(r).observed = mem.rows[r].observed
               /\ ~Todo(r) => row(r).observed = plan[r].before
    <3>1. mem.rows[r] \in RowRecord /\ leaf[r] \in Image
      BY <1>2 DEF Record, IInv, TypeOK
    <3>2. ~Todo(r) => leaf[r] = plan[r].before
      BY <1>3 DEF Complete
    <3> QED  BY <3>1, <3>2 DEF RowRecord, DonePhase
  <2> HIDE DEF row
  <2>2. rows \in [Rows -> RowRecord]
    BY <2>1
  <2>3. m \in Record /\ m.rows = rows /\ m.check = mem.check /\ m.direction = mem.direction
        /\ m.phase = "committed"
    BY <1>2, <2>2 DEF Record
  <2> HIDE DEF m
  <2>4. \A r \in Rows : m.rows[r] = row(r)
    BY <2>3
  <2>5. \A r \in Rows : Origin(mem, r, plan[r].before)
    BY <1>1 DEF IInv, OriginInv
  <2>6. OwnRows(m) /\ \A r \in Rows : m.rows[r].before = mem.rows[r].before
    BY <1>2, <2>1, <2>4, <2>5 DEF OwnRows, Origin
  <2>7. Whole(m.direction)
    BY <1>1, <1>2, <1>3, <2>3, OnSide
  <2>8. pc' = "committed" => DoneInv'
    BY DEF DoneInv, Done
  <2>9. at' \in Rows \cup {NoRow}
    BY <1>1
  <2> QED  BY <1>1, <1>2, <1>3, <2>3, <2>6, <2>7, <2>8, <2>9, SaveInv DEF Recorded, Consented, Behind
<1>4. CASE pc' = "closing" /\ UNCHANGED <<journal, mem, saved>> /\ Quietly
  BY <1>1, <1>4, LeaveInv DEF IInv, TypeOK, Quietly, disk
<1> QED  BY <1>3, <1>4 DEF Commit

-----------------------------------------------------------------------------
\* Around an operation.

LEMMA ConfirmTerminalInv ==
  ASSUME IInv, ConfirmTerminal
  PROVE  IInv'
<1>1. /\ pc = "begun" /\ Shortcut /\ ~op.abandon
      /\ UNCHANGED <<disk, mem, op, plan, held, saved, at, edited, faults>>
      /\ pc' = IF \A r \in Rows : leaf[r] = plan[r].before THEN "committed" ELSE "closing"
  BY DEF ConfirmTerminal, Memory, Quietly
<1>2. CASE \A r \in Rows : leaf[r] = plan[r].before
  <2>1. pc' = "committed" /\ saved
    BY <1>1, <1>2, Known DEF Shortcut
  <2>2. Whole(mem.direction) /\ mem.phase = "committed"
    BY <1>1, <1>2 DEF IInv, WholeInv, Whole
  <2>3. TypeOK'
    BY <1>1, <2>1 DEF IInv, TypeOK, Stages, disk
  <2>4. SavedInv' /\ OriginInv'
    BY <1>1, <2>1 DEF IInv, SavedInv, OriginInv, OwnRows, Origin, Recorded, Consented, Behind, disk
  <2>5. BarrierInv' /\ SideInv' /\ DoneInv'
    BY <1>1, <2>1 DEF IInv, BarrierInv, SideInv, DoneInv, Done, Consented, Behind, disk
  <2>6. WholeInv'
    BY <1>1, <2>1, <2>2 DEF IInv, WholeInv, Whole, disk
  <2> QED  BY <2>3, <2>4, <2>5, <2>6 DEF IInv
<1>3. CASE ~\A r \in Rows : leaf[r] = plan[r].before
  BY <1>1, <1>3, LeaveInv DEF IInv, TypeOK
<1> QED  BY <1>2, <1>3

LEMMA LowerPendingInv ==
  ASSUME IInv, LowerPending
  PROVE  IInv'
<1>1. /\ pc = "committed" /\ pc' = "closing" /\ pending' = 0 /\ held' = FALSE
      /\ UNCHANGED <<leaf, journal, backup, mem, op, plan, saved, at, edited, faults>>
  BY DEF LowerPending, Memory, Quietly
<1>2. Whole(mem.direction) /\ mem.direction \in {"forward", "reverse"}
  <2>1. mem \in Record /\ Whole(mem.direction)
    BY <1>1, Known DEF IInv, WholeInv
  <2> QED  BY <2>1 DEF Record
<1>3. TypeOK'
  <2>1. pc' \in Stages /\ pending' \in 0..2
    BY <1>1 DEF Stages
  <2>2. held' \in BOOLEAN
    BY <1>1
  <2> QED  BY <1>1, <2>1, <2>2 DEF IInv, TypeOK
<1>4. SavedInv' /\ OriginInv'
  BY <1>1 DEF IInv, SavedInv, OriginInv, OwnRows, Origin, Recorded, Consented, Behind
<1>5. BarrierInv' /\ SideInv' /\ DoneInv'
  BY <1>1 DEF BarrierInv, SideInv, DoneInv, Done, Consented, Behind
<1>6. WholeInv'
  BY <1>1, <1>2 DEF WholeInv, Whole
<1> QED  BY <1>3, <1>4, <1>5, <1>6 DEF IInv

LEMMA FailInv ==
  ASSUME IInv, Fail
  PROVE  IInv'
<1>1. pc \notin {"idle", "closing"} /\ pc' \in {"discarding", "closing"} /\ Fault
      /\ UNCHANGED <<disk, mem, op, plan, held, saved, at, edited>>
  BY DEF Fail, Memory
<1> QED  BY <1>1, LeaveInv DEF IInv, TypeOK

\* The operation's memory goes, whatever became of it; what is on the disk is left as it is.
LEMMA ReleasedInv ==
  ASSUME IInv, Released, UNCHANGED <<leaf, backup, edited>>, Fault \/ UNCHANGED faults,
         pending' \in 0..2, pending' = 0 => pending = 0,
         journal' \in Record \cup {NoRecord}, journal' # NoRecord => OwnRows(journal')
  PROVE  IInv'
<1>1. TypeOK'
  <2>1. NoOp \in [mode : {"none", "upgrade", "rollback", "recover"}, direction : {"forward", "reverse"},
                  new : BOOLEAN, abandon : BOOLEAN]
    BY DEF NoOp
  <2>2. NoPlan \in [Rows -> Actions]
    BY NilImage, ActionType DEF NoPlan, Contents
  <2>3. faults' \in 0..MaxFaults
    BY Known, FaultType
  <2>4. pc' \in Stages
    BY DEF Released, Stages
  <2> QED  BY <2>1, <2>2, <2>3, <2>4 DEF Released, IInv, TypeOK
<1>2. SavedInv' /\ OriginInv'
  BY DEF Released, SavedInv, OriginInv, OwnRows, Origin, Recorded, Consented, Behind
<1>3. BarrierInv' /\ SideInv' /\ DoneInv'
  BY DEF Released, NoOp, BarrierInv, SideInv, DoneInv, Done, Consented, Behind
<1>4. WholeInv'
  BY DEF Released, IInv, WholeInv, Whole
<1> QED  BY <1>1, <1>2, <1>3, <1>4 DEF IInv

LEMMA CloseUnresolvedInv ==
  ASSUME IInv, CloseUnresolved
  PROVE  IInv'
<1>1. pc = "closing" /\ mem \in Record /\ Released /\ UNCHANGED <<leaf, backup, edited>> /\ OwnRows(mem)
  BY Known DEF CloseUnresolved, IInv, OriginInv
<1>2. PICK barrier \in {pending, IF pending = 0 THEN FreshPending ELSE pending} :
        LET record == [mem EXCEPT !.pending = IF @ = 0 THEN barrier ELSE @] IN
        /\ pending' = barrier
        /\ \/ barrier # 0 /\ journal' = (IF saved THEN record ELSE journal) /\ UNCHANGED faults
           \/ Fault /\ journal' = journal
  BY DEF CloseUnresolved
<1> DEFINE record == [mem EXCEPT !.pending = IF mem.pending = 0 THEN barrier ELSE mem.pending]
<1>3. barrier \in 0..2 /\ (barrier = 0 => pending = 0)
  BY DEF FreshPending, IInv, TypeOK
<1>4. record \in Record /\ record.rows = mem.rows
  BY <1>1, <1>3 DEF Record
<1>5. journal' \in {journal, record} /\ pending' = barrier /\ (Fault \/ UNCHANGED faults)
  BY <1>2
<1> HIDE DEF record
<1>6. OwnRows(record)
  BY <1>1, <1>4, SameRows
<1>7. journal \in Record \cup {NoRecord} /\ (journal # NoRecord => OwnRows(journal))
  BY DEF IInv, TypeOK, OriginInv
<1>8. journal' \in Record \cup {NoRecord} /\ (journal' # NoRecord => OwnRows(journal'))
  BY <1>4, <1>5, <1>6, <1>7
<1> QED  BY <1>1, <1>3, <1>5, <1>8, ReleasedInv

LEMMA ForgetInv ==
  ASSUME IInv, Close \/ Crash
  PROVE  IInv'
<1>1. Released /\ UNCHANGED <<disk, edited>> /\ (Fault \/ UNCHANGED faults)
  BY DEF Close, Crash, Quietly
<1>2. /\ pending \in 0..2 /\ journal \in Record \cup {NoRecord}
      /\ journal # NoRecord => OwnRows(journal)
  BY DEF IInv, TypeOK, OriginInv
<1> QED  BY <1>1, <1>2, ReleasedInv DEF disk

\* A user's edit takes the row out of what the operation answers for.
LEMMA EditInv ==
  ASSUME IInv, NEW r \in Rows, Edit(r)
  PROVE  IInv'
<1>1. /\ pc # "published" /\ edited' = edited \cup {r}
      /\ UNCHANGED <<journal, backup, pending, pc, op, mem, plan, held, saved, at, faults>>
      /\ \A q \in Rows : q # r => leaf'[q] = leaf[q]
  BY DEF Edit, IInv, TypeOK
<1>2. TypeOK'
  <2>1. \A c \in {"foreign", Baseline[r], Target[r]} : [c |-> c, id |-> UserId] \in Image
    BY ImagesAssumption DEF Image, Contents, UserId
  <2>2. leaf' \in [Rows -> Image]
    BY <2>1, NilImage DEF Edit, IInv, TypeOK
  <2> QED  BY <1>1, <2>2 DEF IInv, TypeOK
<1>3. SavedInv' /\ OriginInv'
  BY <1>1 DEF IInv, SavedInv, OriginInv, OwnRows, Origin, Recorded, Consented, Behind
<1>4. BarrierInv' /\ SideInv'
  BY <1>1 DEF IInv, BarrierInv, SideInv, Shortcut, Side
<1>5. DoneInv'
  BY <1>1 DEF IInv, DoneInv, Done, Prior, Todo
<1>6. WholeInv'
  BY <1>1 DEF IInv, WholeInv, Whole, Side, Shortcut
<1> QED  BY <1>2, <1>3, <1>4, <1>5, <1>6 DEF IInv

LEMMA NextInv ==
  ASSUME IInv, [Next]_vars
  PROVE  IInv'
<1>1. CASE Begin
  BY <1>1, BeginInv
<1>2. CASE Operate
  BY <1>2, OpenCheckInv, CloseCheckInv, PrepareInv, DiscardInv, AbandonInv, StartBackupInv, FinishBackupInv,
     RaisePendingInv, KeepPendingInv, IntendInv, StageInv, PublishInv, UnlinkInv, PreserveInv, ObserveInv,
     FinishRowsInv, VerifyInv, CommitInv, ConfirmTerminalInv, LowerPendingInv, ForgetInv, CloseUnresolvedInv
     DEF Operate
<1>3. CASE Fail \/ Crash
  BY <1>3, FailInv, ForgetInv
<1>4. ASSUME NEW r \in Rows, Edit(r)  PROVE IInv'
  BY <1>4, EditInv
<1>5. CASE UNCHANGED vars
  BY <1>5 DEF vars, disk, IInv, TypeOK, SavedInv, OriginInv, OwnRows, Origin, BarrierInv, SideInv, Shortcut,
     DoneInv, Done, Prior, Todo, WholeInv, Whole
<1> QED  BY <1>1, <1>2, <1>3, <1>4, <1>5 DEF Next

THEOREM Invariant == Spec => []IInv
<1>1. Init => IInv
  BY InitInv
<1>2. IInv /\ [Next]_vars => IInv'
  BY NextInv
<1> QED  BY <1>1, <1>2, PTL DEF Spec

\* Every variable keeps its type: in particular an identity nobody remembers is always left.
THEOREM TypeCorrect == Spec => []TypeOK
<1>1. IInv => TypeOK
  BY DEF IInv
<1> QED  BY <1>1, Invariant, PTL
-----------------------------------------------------------------------------
\* What a step can do to the selected files, and to the evidence of an unknown check.

LEMMA LeafMoves ==
  ASSUME [Next]_vars, edited' = edited
  PROVE  leaf' = leaf \/ Publish \/ Unlink
<1>1. CASE Begin
  BY <1>1 DEF Begin, BeginUpgrade, BeginRollback, BeginRecover, RefuseRecover, Granted, disk
<1>2. CASE OpenCheck \/ CloseCheck \/ Prepare \/ Discard \/ Abandon \/ StartBackup \/ FinishBackup
  BY <1>2 DEF OpenCheck, CloseCheck, Prepare, Discard, Abandon, StartBackup, FinishBackup, disk
<1>3. CASE RaisePending \/ KeepPending \/ Intend \/ Stage \/ Preserve \/ Observe
  BY <1>3 DEF RaisePending, KeepPending, Intend, Stage, Preserve, Observe, disk
<1>4. CASE FinishRows \/ Verify \/ Commit \/ ConfirmTerminal \/ LowerPending \/ Close \/ CloseUnresolved
  BY <1>4 DEF FinishRows, Verify, Commit, ConfirmTerminal, LowerPending, Close, CloseUnresolved, disk
<1>5. CASE Fail \/ Crash \/ UNCHANGED vars
  BY <1>5 DEF Fail, Crash, disk, vars
<1>6. ASSUME NEW r \in Rows, Edit(r)  PROVE FALSE
  BY <1>6 DEF Edit
<1> QED  BY <1>1, <1>2, <1>3, <1>4, <1>5, <1>6 DEF Next, Operate

\* The file that goes was read by the plan, and the record or an operation accounts for it.
LEMMA Replaced ==
  ASSUME IInv, Publish \/ Unlink, NEW r \in Rows, leaf'[r] # leaf[r], leaf[r] # Nil
  PROVE  /\ backup = "complete" /\ pending # 0 /\ journal # NoRecord
         /\ leaf[r] = journal.rows[r].before \/ leaf[r].id \in OwnIds
<1>1. pc \in {"staged", "applying", "metadata"} /\ leaf[at] = plan[at].before
      /\ \E image : leaf' = [leaf EXCEPT ![at] = image]
  BY DEF Publish, Unlink, Applying, Unmoved
<1>2. r = at
  BY <1>1 DEF IInv, TypeOK
<1>3. journal = mem /\ journal # NoRecord /\ Origin(mem, r, plan[r].before)
  BY <1>1, Known DEF IInv, OriginInv, Recorded, Consented, Behind
<1>4. backup = "complete" /\ pending # 0
  BY <1>1 DEF IInv, BarrierInv, Behind
<1> QED  BY <1>1, <1>2, <1>3, <1>4 DEF Origin

\* transaction.go:519-579, recovery.go:207-241: a file an operation replaces or removes can
\* be given back.
THEOREM Recoverable == Spec => ReplacedIsRecoverable
<1>1. IInv /\ [Next]_vars =>
        [\A r \in Rows : Quiet /\ leaf'[r] # leaf[r] /\ leaf[r] # Nil =>
           /\ backup = "complete"
           /\ pending # 0
           /\ journal # NoRecord
           /\ leaf[r] = journal.rows[r].before \/ leaf[r].id \in OwnIds]_vars
  BY LeafMoves, Replaced DEF Quiet
<1> QED  BY <1>1, Invariant, PTL DEF Spec, ReplacedIsRecoverable

\* A record with an unknown check is met while it is checked, or when nobody works on.
LEMMA UnknownAt ==
  ASSUME IInv, journal # NoRecord, journal.check = "open", pc # "checking"
  PROVE  pc \in {"idle", "discarding", "closing"}
BY DEF IInv, TypeOK, Stages, SavedInv, Recorded, Consented, Behind

LEMMA Halted ==
  ASSUME Operate, pc \in {"idle", "discarding", "closing"}
  PROVE  Discard \/ Close \/ CloseUnresolved
<1>1. ~(OpenCheck \/ CloseCheck \/ Prepare \/ Abandon \/ StartBackup \/ FinishBackup)
  BY DEF OpenCheck, CloseCheck, Prepare, Abandon, StartBackup, FinishBackup
<1>2. ~(RaisePending \/ KeepPending \/ Intend \/ Stage \/ Publish \/ Unlink \/ Preserve \/ Observe)
  BY DEF RaisePending, KeepPending, Intend, Stage, Publish, Unlink, Preserve, Observe, Applying
<1>3. ~(FinishRows \/ Verify \/ Commit \/ ConfirmTerminal \/ LowerPending)
  BY DEF FinishRows, Verify, Commit, ConfirmTerminal, LowerPending
<1> QED  BY <1>1, <1>2, <1>3 DEF Operate

LEMMA Unknown ==
  ASSUME IInv, [Next]_vars, journal # NoRecord, journal.check = "open", pc # "checking"
  PROVE  /\ journal' # NoRecord /\ journal'.rows = journal.rows
         /\ backup' = backup
         /\ Quiet => leaf' = leaf
<1>1. pc \in {"idle", "discarding", "closing"}
  BY UnknownAt
<1>2. CASE Begin
  BY <1>2 DEF Begin, BeginUpgrade, BeginRollback, BeginRecover, RefuseRecover, Granted, disk
<1>3. CASE Discard
  <2>1. ~MayDiscard
    BY <1>3 DEF Discard, MayDiscard, IInv, SavedInv
  <2> QED  BY <1>3, <2>1 DEF Discard
<1>4. CASE Close \/ Crash \/ UNCHANGED vars
  BY <1>4 DEF Close, Crash, disk, vars
<1>5. CASE CloseUnresolved
  <2>1. pc = "closing" /\ mem \in Record /\ UNCHANGED <<leaf, backup>>
    BY <1>5, Known DEF CloseUnresolved
  <2>2. saved => journal = mem
    BY <2>1 DEF IInv, SavedInv
  <2>0. {pending, IF pending = 0 THEN FreshPending ELSE pending} \subseteq 0..2
    BY DEF IInv, TypeOK, FreshPending
  <2>3. PICK barrier \in 0..2 : journal' \in {journal, IF saved
                                                       THEN [mem EXCEPT !.pending = IF @ = 0 THEN barrier ELSE @]
                                                       ELSE journal}
    BY <1>5, <2>0 DEF CloseUnresolved
  <2>4. CASE journal' = journal
    BY <2>1, <2>4
  <2>5. CASE saved /\ journal' = [mem EXCEPT !.pending = IF @ = 0 THEN barrier ELSE @]
    <3>1. journal'.rows = mem.rows /\ journal' \in Record
      BY <2>1, <2>5 DEF Record
    <3> QED  BY <2>1, <2>2, <2>5, <3>1, NoRecordAssumption
  <2> QED  BY <2>3, <2>4, <2>5
<1>6. ASSUME NEW r \in Rows, Edit(r)
      PROVE  UNCHANGED <<journal, backup>> /\ edited' # edited
  BY <1>6 DEF Edit
<1>7. ~Fail
  BY <1>1 DEF Fail
<1> QED  BY <1>1, <1>2, <1>3, <1>4, <1>5, <1>6, <1>7, Halted DEF Next, Quiet
\* unresolved.go:10-52, storage.go:145-152: an unknown check freezes its evidence for good.
THEOREM EvidenceKept == Spec => UnknownCheckIsEvidence
<1>1. IInv /\ [Next]_vars =>
        [journal # NoRecord /\ journal.check = "open" /\ pc # "checking" =>
           /\ journal' # NoRecord /\ journal'.rows = journal.rows
           /\ backup' = backup
           /\ Quiet => leaf' = leaf]_vars
  BY Unknown
<1> QED  BY <1>1, Invariant, PTL DEF Spec, UnknownCheckIsEvidence

-----------------------------------------------------------------------------
\* The refinement.  The two sides of an installation can be told apart by a file they
\* differ in; users are taken to leave one such file alone.

Changed   == {r \in Rows : Baseline[r] # Target[r]}
Witnessed == \E r \in Changed : r \notin edited
EditsInv  == IsFiniteSet(edited) /\ Cardinality(edited) <= MaxEdits

\* What the state shows of AtomicInstallation's variables.
Shown   == IF pending # 0 THEN "barred"
           ELSE IF Whole("reverse") THEN "old"
           ELSE IF Whole("forward") THEN "new" ELSE "torn"
Verdict == IF journal # NoRecord /\ journal.phase = "committed" THEN journal.direction ELSE "none"

LEMMA EditsKept ==
  ASSUME EditsInv, [Next]_vars
  PROVE  EditsInv'
<1>1. CASE edited' = edited
  BY <1>1 DEF EditsInv
<1>2. ASSUME NEW r \in Rows, Edit(r)  PROVE EditsInv'
  <2>1. edited' = edited \cup {r} /\ r \notin edited /\ Cardinality(edited) < MaxEdits
    BY <1>2 DEF Edit
  <2>2. Cardinality(edited) \in Nat
    BY FS_CardinalityType DEF EditsInv
  <2>3. IsFiniteSet(edited') /\ Cardinality(edited') = Cardinality(edited) + 1
    BY <2>1, FS_AddElement DEF EditsInv
  <2> QED  BY <2>1, <2>2, <2>3, BoundsAssumption DEF EditsInv
<1>3. CASE Begin
  BY <1>1, <1>3 DEF Begin, BeginUpgrade, BeginRollback, BeginRecover, RefuseRecover, Granted
<1>4. CASE Operate
  <2>1. CASE OpenCheck \/ CloseCheck \/ Prepare \/ Discard \/ Abandon \/ StartBackup \/ FinishBackup
    BY <1>1, <2>1 DEF OpenCheck, CloseCheck, Prepare, Discard, Abandon, StartBackup, FinishBackup, Save, Quietly
  <2>2. CASE RaisePending \/ KeepPending \/ Intend \/ Stage \/ Publish \/ Unlink \/ Preserve \/ Observe
    BY <1>1, <2>2 DEF RaisePending, KeepPending, Intend, Stage, Publish, Unlink, Preserve, Observe, Save, Quietly
  <2>3. CASE FinishRows \/ Verify \/ Commit \/ ConfirmTerminal \/ LowerPending \/ Close \/ CloseUnresolved
    BY <1>1, <2>3 DEF FinishRows, Verify, Commit, ConfirmTerminal, LowerPending, Close, CloseUnresolved, Save, Quietly
  <2> QED  BY <1>4, <2>1, <2>2, <2>3 DEF Operate
<1>5. CASE Fail \/ Crash \/ UNCHANGED vars
  BY <1>1, <1>5 DEF Fail, Crash, vars
<1> QED  BY <1>2, <1>3, <1>4, <1>5 DEF Next

LEMMA EditsLeaveOne ==
  ASSUME EditsInv, Cardinality(Changed) > MaxEdits
  PROVE  Witnessed
<1> SUFFICES ASSUME ~Witnessed  PROVE FALSE
  OBVIOUS
<1>1. Changed \subseteq edited
  BY DEF Witnessed
<1>2. IsFiniteSet(Changed) /\ Cardinality(Changed) <= Cardinality(edited)
  BY <1>1, FS_Subset DEF EditsInv
<1>3. Cardinality(edited) \in Nat /\ Cardinality(Changed) \in Nat
  BY <1>2, FS_CardinalityType DEF EditsInv
<1> QED  BY <1>2, <1>3, BoundsAssumption DEF EditsInv

\* In front of the barrier, edits do not change what is seen.
LEMMA StillShown ==
  ASSUME IInv, Witnessed', pending' = pending, edited \subseteq edited',
         pending = 0 => \A r \in Rows \ edited' : leaf'[r] = leaf[r]
  PROVE  Shown' = Shown
<1>1. CASE pending # 0
  BY <1>1 DEF Shown
<1>2. CASE pending = 0
  <2>1. \A d \in {"reverse", "forward"} : Whole(d) => Whole(d)'
    BY <1>2 DEF Whole, Side
  <2>2. ~(Whole("reverse")' /\ Whole("forward")')
    BY DEF Whole, Side, Witnessed, Changed
  <2>3. Whole("reverse") \/ Whole("forward")
    BY <1>2 DEF IInv, WholeInv
  <2> QED  BY <1>2, <2>1, <2>2, <2>3 DEF Shown
<1> QED  BY <1>1, <1>2

LEMMA JournalMoves ==
  ASSUME TypeOK, [Next]_vars
  PROVE  /\ journal' = journal \/ OpenCheck \/ CloseCheck \/ Prepare \/ Discard \/ CloseUnresolved \/ pc \in Behind
         /\ pending' = pending \/ RaisePending \/ LowerPending \/ CloseUnresolved
         /\ edited \subseteq edited'
         /\ \A r \in Rows \ edited' : leaf'[r] = leaf[r] \/ pc \in Behind
<1>1. CASE Begin
  BY <1>1 DEF Begin, BeginUpgrade, BeginRollback, BeginRecover, RefuseRecover, Granted, disk
<1>2. CASE OpenCheck \/ CloseCheck \/ Prepare \/ Discard \/ Abandon \/ StartBackup \/ FinishBackup
  BY <1>2 DEF OpenCheck, CloseCheck, Prepare, Discard, Abandon, StartBackup, FinishBackup, Save, Quietly, disk
<1>3. CASE RaisePending \/ KeepPending \/ Intend \/ Stage \/ Publish \/ Unlink
  BY <1>3 DEF RaisePending, KeepPending, Intend, Stage, Publish, Unlink, Applying, Save, Quietly, disk, Behind
<1>4. CASE Preserve \/ Observe \/ FinishRows \/ Verify \/ Commit
  BY <1>4 DEF Preserve, Observe, FinishRows, Verify, Commit, Save, Quietly, disk, Behind
<1>5. CASE ConfirmTerminal \/ LowerPending \/ Close \/ CloseUnresolved
  BY <1>5 DEF ConfirmTerminal, LowerPending, Close, CloseUnresolved, Quietly, disk
<1>6. CASE Fail \/ Crash \/ UNCHANGED vars
  BY <1>6 DEF Fail, Crash, disk, vars
<1>7. ASSUME NEW r \in Rows, Edit(r)
      PROVE  /\ journal' = journal /\ pending' = pending /\ edited \subseteq edited'
             /\ \A q \in Rows \ edited' : leaf'[q] = leaf[q]
  <2>1. journal' = journal /\ pending' = pending /\ edited' = edited \cup {r}
    BY <1>7 DEF Edit
  <2>2. \A q \in Rows : q # r => leaf'[q] = leaf[q]
    BY <1>7 DEF Edit, TypeOK
  <2> QED  BY <2>1, <2>2
<1> QED  BY <1>1, <1>2, <1>3, <1>4, <1>5, <1>6, <1>7 DEF Next, Operate
\* In front of the barrier a terminal record is reopened or discarded, never written.
LEMMA VerdictMoves ==
  ASSUME IInv, [Next]_vars, pending = 0, ~CloseUnresolved
  PROVE  Verdict' \in {Verdict, "none"}
<1>1. pc \notin Behind
  BY DEF IInv, BarrierInv
<1>2. CASE journal' = journal
  BY <1>2 DEF Verdict
<1>3. CASE OpenCheck \/ Prepare
  <2> DEFINE opened == [mem EXCEPT !.phase = "checking", !.check = "open"]
             prepared == [mem EXCEPT !.phase = "prepared"]
  <2>1. pc \in {"begun", "checked"} /\ mem \in Record
    BY <1>3, Known DEF OpenCheck, Prepare
  <2>2. opened.phase = "checking" /\ prepared.phase = "prepared"
    BY <2>1 DEF Record
  <2>3. journal' \in {journal, opened, prepared}
    BY <1>3 DEF OpenCheck, Prepare, Save
  <2> HIDE DEF opened, prepared
  <2> QED  BY <2>2, <2>3 DEF Verdict
<1>4. CASE CloseCheck
  <2>1. mem \in Record /\ journal = mem /\ journal # NoRecord
    BY <1>4, Known DEF CloseCheck, Recorded, Consented
  <2>2. PICK check : journal' \in {journal, [mem EXCEPT !.check = check]}
    BY <1>4 DEF CloseCheck, Save
  <2>3. journal'.phase = mem.phase /\ journal'.direction = mem.direction
    BY <2>1, <2>2 DEF Record
  <2> QED  BY <2>1, <2>3 DEF Verdict
<1>5. CASE Discard
  BY <1>5 DEF Discard, Verdict
<1> QED  BY <1>1, <1>2, <1>3, <1>4, <1>5, JournalMoves DEF IInv

\* The barrier that an unresolved operation leaves names the same terminal record, if any.
LEMMA UnresolvedVerdict ==
  ASSUME IInv, CloseUnresolved
  PROVE  Verdict' = Verdict
<1>1. pc = "closing" /\ mem \in Record /\ mem # NoRecord /\ mem.check = "open"
  BY Known, NoRecordAssumption DEF CloseUnresolved, UnresolvedWork
<1>2. saved => journal = mem
  BY <1>1 DEF IInv, SavedInv
<1>3. PICK barrier \in 0..2 : journal' \in {journal, IF saved
                                                     THEN [mem EXCEPT !.pending = IF @ = 0 THEN barrier ELSE @]
                                                     ELSE journal}
  <2>1. {pending, IF pending = 0 THEN FreshPending ELSE pending} \subseteq 0..2
    BY DEF IInv, TypeOK, FreshPending
  <2> QED  BY <2>1 DEF CloseUnresolved
<1>4. CASE journal' = journal
  BY <1>4 DEF Verdict
<1>5. CASE saved /\ journal' = [mem EXCEPT !.pending = IF @ = 0 THEN barrier ELSE @]
  <2>1. journal' \in Record /\ journal'.phase = mem.phase /\ journal'.direction = mem.direction
    BY <1>1, <1>5 DEF Record
  <2> QED  BY <1>1, <1>2, <1>5, <2>1, NoRecordAssumption DEF Verdict
<1> QED  BY <1>3, <1>4, <1>5

\* The moves of AtomicInstallation.
LEMMA StepIs ==
  ASSUME \/ Shown' = Shown /\ Verdict' = Verdict
         \/ Shown # "barred" /\ Shown' = "barred" /\ Verdict' = Verdict
         \/ Shown = "barred" /\ Shown' = "barred" /\ Verdict' \in {"none", "forward", "reverse"}
         \/ Shown # "barred" /\ Shown' = Shown /\ Verdict' = "none"
         \/ Shown = "barred" /\ Verdict = "forward" /\ Shown' = "new" /\ Verdict' = Verdict
         \/ Shown = "barred" /\ Verdict = "reverse" /\ Shown' = "old" /\ Verdict' = Verdict
  PROVE  [Atomic!Next]_(Atomic!vars)
BY DEF Shown, Verdict, Atomic!Next, Atomic!vars, Atomic!Raise, Atomic!Decide, Atomic!Reopen, Atomic!Lower

LEMMA StepImplements ==
  ASSUME IInv, IInv', [Next]_vars, Witnessed'
  PROVE  [Atomic!Next]_(Atomic!vars)
<1>1. TypeOK /\ edited \subseteq edited' /\ (Shown = "barred" <=> pending # 0) /\ (Shown' = "barred" <=> pending' # 0)
  BY JournalMoves DEF IInv, Shown
<1>2. Verdict' \in {"none", "forward", "reverse"}
  BY DEF IInv, TypeOK, Record, Verdict
<1>3. pending = 0 => \A r \in Rows \ edited' : leaf'[r] = leaf[r]
  BY <1>1, JournalMoves DEF IInv, BarrierInv
<1>4. pending' = pending => Shown' = Shown
  BY <1>1, <1>3, StillShown
<1>5. CASE RaisePending
  <2>1. pending' # 0 /\ Verdict' = Verdict
    BY <1>5 DEF RaisePending, FreshPending, Verdict
  <2> QED  BY <1>1, <2>1, StepIs
<1>6. CASE CloseUnresolved
  <2>1. pending' = pending \/ pending' # 0
    BY <1>6 DEF CloseUnresolved
  <2> QED  BY <1>1, <1>4, <1>6, <2>1, UnresolvedVerdict, StepIs
<1>7. CASE LowerPending
  <2>1. /\ pc = "committed" /\ pending' = 0 /\ leaf' = leaf /\ journal' = journal
        /\ mem \in Record /\ journal = mem /\ journal # NoRecord
    BY <1>7, Known DEF LowerPending, Recorded
  <2>2. edited' = edited
    BY <1>7 DEF LowerPending, Quietly
  <2>3. mem.phase = "committed" /\ Whole(mem.direction) /\ mem.direction \in {"forward", "reverse"}
    <3>1. mem.direction \in {"forward", "reverse"}
      BY <2>1 DEF Record
    <3> QED  BY <2>1, <3>1 DEF IInv, WholeInv
  <2>4. Verdict = mem.direction /\ Verdict' = Verdict
    BY <2>1, <2>3 DEF Verdict
  <2>5. ~(Whole("reverse") /\ Whole("forward")) /\ Whole("reverse")' = Whole("reverse")
        /\ Whole("forward")' = Whole("forward")
    BY <2>1, <2>2 DEF Whole, Side, Witnessed, Changed
  <2>6. Shown' = IF mem.direction = "reverse" THEN "old" ELSE "new"
    BY <2>1, <2>3, <2>5 DEF Shown
  <2> QED  BY <1>1, <1>4, <2>1, <2>3, <2>4, <2>6, StepIs
<1>8. CASE pending' = pending /\ ~CloseUnresolved
  <2>1. CASE pending # 0
    BY <1>1, <1>2, <1>4, <1>8, <2>1, StepIs
  <2>2. CASE pending = 0
    BY <1>1, <1>4, <1>8, <2>2, VerdictMoves, StepIs
  <2> QED  BY <2>1, <2>2
<1> QED  BY <1>1, <1>5, <1>6, <1>7, <1>8, JournalMoves

\* transaction.go:295-417, recovery.go:48-331, docs/adr/0098: where users leave one file alone
\* that the two installations differ in, the transaction implements AtomicInstallation.
THEOREM SwitchIsAtomic ==
  ASSUME Cardinality(Changed) > MaxEdits
  PROVE  Spec => ImplementsAtomic
<1>1. Init => IInv /\ EditsInv
  BY InitInv, FS_EmptySet, BoundsAssumption DEF Init, EditsInv
<1>2. IInv /\ EditsInv /\ [Next]_vars => (IInv /\ EditsInv)'
  BY NextInv, EditsKept
<1>3. Init => Atomic!Init
  <2> SUFFICES ASSUME Init  PROVE Atomic!Init
    OBVIOUS
  <2>1. Whole("reverse") /\ pending = 0 /\ journal = NoRecord
    BY ImagesAssumption DEF Init, Whole, Side, Nil
  <2> QED  BY <2>1 DEF Atomic!Init
<1>4. EditsInv' => Witnessed'
  <2>1. EditsInv => Witnessed
    BY EditsLeaveOne
  <2> QED  BY <2>1, PTL
<1>5. IInv /\ IInv' /\ EditsInv' /\ [Next]_vars => [Atomic!Next]_(Atomic!vars)
  BY <1>4, StepImplements
<1> QED  BY <1>1, <1>2, <1>3, <1>5, PTL DEF Spec, ImplementsAtomic, Atomic!Spec
=============================================================================
