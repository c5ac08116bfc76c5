--------------------------- MODULE StateFileProofs ---------------------------
(***************************************************************************)
(* Proofs about StateFile, for every number of processes, attempts, acts   *)
(* of people and failures: what a reader is given is a snapshot, a save    *)
(* that was reported stays, and a reader that gives up was outrun.         *)
(***************************************************************************)
EXTENDS StateFile, WellFoundedInduction, TLAPS

Refs  == Inodes \cup {Absent}
Marks == Inodes \cup {Torn}
Looks == {"look", "looked", "opened", "reading", "half", "read", "suspect"}
Staged == {"staged", "synced", "renaming"}
Pcs == {"idle", "exists", "locking", "locked", "ready", "renamed", "saved", "done"} \cup Looks \cup Staged
Results == {"none", "ok", "unsafe", "busy", "exhausted", "refused", "doubt", "dead"}

Documents == [carries : SUBSET Marks, mtime : Nat, links : {0, 1}, synced : BOOLEAN]
Processes ==
  [pc : Pcs, lockfd : Nat, held : BOOLEAN, before : Refs, open : Refs, mtime : Nat,
   value : SUBSET Marks, base : Refs, ready : BOOLEAN, temp : Refs, tries : Nat, writes : Nat,
   seen : Refs, past : SUBSET SUBSET Marks, rounds : Nat, result : Results]

TypeOK ==
  /\ name \in Refs /\ lock \in Nat /\ onDisk \subseteq Refs
  /\ file \in [Inodes -> Documents]
  /\ mem \in [Procs -> Processes]
  /\ acked \subseteq Marks /\ denied \subseteq Marks
  /\ outside \in Nat /\ faults \in Nat /\ touched \in BOOLEAN

Used == {i \in Inodes : file[i].mtime # 0}

\* What is under the name, and whatever anything refers to, exists; what a power
\* failure may leave there is flushed.
DiskInv ==
  /\ name \in onDisk
  /\ name # Absent => file[name].links = 1
  /\ \A i \in onDisk \ {Absent} : i \in Used /\ file[i].synced
  /\ \A i \in Inodes : file[i].carries \cap Inodes \subseteq Used
  /\ denied \cap Inodes \subseteq Used

\* A process keeps what it has seen; a reader never has a lock.
Kept(p) ==
  /\ mem[p].pc = "idle" => mem[p] = Idle
  /\ mem[p].pc # "done" => mem[p].result = "none"
  /\ mem[p].pc = "saved" => mem[p].writes # 0
  /\ ~Writer(p) => mem[p].lockfd = Absent /\ mem[p].pc \in {"idle", "done"} \cup Looks
  /\ {mem[p].before, mem[p].open, mem[p].base, mem[p].temp} \subseteq Used \cup {Absent}
  /\ mem[p].value \cap Inodes \subseteq Used
ProcInv == \A p \in Procs : Kept(p)

\* A temporary is its writer's alone until the rename, and flushed before it.
Private(p) ==
  /\ mem[p].pc \in Staged \cup {"renamed"} => mem[p].temp # Absent
  /\ mem[p].pc \in {"synced", "renaming", "renamed"} => file[mem[p].temp].synced
  /\ mem[p].pc \in Staged =>
       /\ file[mem[p].temp].links = 1
       /\ mem[p].temp \notin onDisk \cup denied
       /\ \A i \in Inodes : mem[p].temp \in file[i].carries => i = mem[p].temp
       /\ \A q \in Procs :
            /\ mem[p].temp \notin {mem[q].before, mem[q].open, mem[q].base} \cup mem[q].value
            /\ q # p => mem[q].temp # mem[p].temp
TempInv == \A p \in Procs : Private(p)

\* storage.go, Read: as long as the descriptor does not move, what was read of it is
\* what it carries, and the document carried that since the first look.
Sighted(m) ==
  /\ m.pc \in {"looked", "opened", "reading", "half", "read"} =>
       m.before # Absent /\ Carried(m.before) \in m.past
  /\ m.pc \in {"opened", "reading", "half", "read"} => m.open # Absent
  /\ m.pc \in {"reading", "half", "read"} =>
       m.open = m.before /\ m.mtime <= file[m.open].mtime
  /\ m.pc \in {"half", "read"} /\ file[m.open].mtime = m.mtime => m.value = Carried(m.open)
SnapshotInv == \A p \in Procs : Sighted(mem[p])

\* storage.go, write: a history is replaced by itself and one publication more.
Derived(m) ==
  /\ m.pc \in {"ready", "saved"} \cup Staged => m.value = Carried(m.base)
  /\ m.pc \in Staged \cup {"renamed"} => file[m.temp].carries = m.value \cup {m.temp}
  /\ m.pc = "renamed" => m.temp \in Carried(name)
  /\ m.pc = "renaming" => m.seen = m.base
WriteInv == ~touched => \A p \in Procs : Derived(mem[p])

\* What was reported holds of every document a power failure may leave.
SavedInv ==
  ~touched => \A i \in onDisk : acked \subseteq Carried(i) /\ denied \cap Carried(i) = {}

\* budget/storage.go: while only publications move the document, each further attempt
\* of a reader has met one.
Outrun(p, m) ==
  ~Writer(p) =>
    /\ m.pc \in {"reading", "half", "read"} => file[m.open].mtime = m.mtime
    /\ m.pc \in Looks => m.tries < Attempts /\ m.tries <= m.rounds
    /\ m.pc \in Looks \ {"look"} => name # Absent /\ m.before # Absent
    /\ m.pc \in Looks \ {"look"} /\ name # m.before => m.tries < m.rounds
    /\ m.pc = "suspect" => name # m.before
    /\ m.pc = "opened" /\ m.open # m.before => name # m.before
RoundsInv == ~touched => \A p \in Procs : Outrun(p, mem[p])

\* storage.go, Acquire: while nobody intervenes there is one lock, and one holder.
Holding(p, m) ==
  /\ m.lockfd \in {Absent, lock}
  /\ m.held \/ m.pc = "locking" => m.lockfd # Absent
  /\ Writer(p) /\ m.pc \notin {"idle", "exists", "locking", "done"} => m.held
  /\ m.pc = "renaming" => m.seen = name
LockInv ==
  outside = 0 =>
    /\ ~touched
    /\ \A p \in Procs : Holding(p, mem[p])
    /\ \A p, q \in Procs : mem[p].held /\ mem[q].held => p = q

IInv ==
  /\ TypeOK /\ DiskInv /\ ProcInv /\ TempInv
  /\ ReadsAreSnapshots /\ SnapshotInv /\ WriteInv /\ SavedInv
  /\ ReadersOutlastWriters /\ RoundsInv /\ LockInv
-----------------------------------------------------------------------------
\* A number nobody has used is unused, and there is one whenever Stage asks for it.
LEMMA FreshIsFree ==
  ASSUME Free # {}
  PROVE  Fresh \in Inodes /\ Fresh \notin Used
<1>1. Free \subseteq Nat
  BY StateFileAssumption DEF Free, Inodes
<1>2. \E i \in Free : \A j \in Free : i <= j
  <2>1. PICK i \in Free : \A j \in Free : <<j, i>> \notin OpToRel(<, Nat)
    BY <1>1, WFMin, NatLessThanWellFounded
  <2>2. \A j \in Free : ~(j < i)
    BY <1>1, <2>1 DEF OpToRel
  <2> QED  BY <1>1, <2>2
<1>3. Fresh \in Free
  BY <1>2 DEF Fresh
<1> QED  BY <1>3 DEF Free, Used

\* The state before anything happened satisfies the invariant.
LEMMA InitInv == Init => IInv
<1> SUFFICES ASSUME Init  PROVE IInv
  OBVIOUS
<1>1. 1 \in Inodes /\ Absent \notin Inodes /\ Torn \notin Inodes /\ Absent # Torn
  BY StateFileAssumption DEF Inodes, Absent, Torn
<1>2. Idle \in Processes /\ Blank \in Documents
  BY DEF Idle, Processes, Blank, Documents, Pcs, Results, Refs, Absent
<1>3. TypeOK
  <2>1. \A i \in Inodes : file[i] \in Documents
    BY <1>1, <1>2 DEF Init, Documents, Marks
  <2>2. file \in [Inodes -> Documents] /\ mem \in [Procs -> Processes]
    BY <1>2, <2>1 DEF Init
  <2> QED  BY <1>1, <2>2 DEF Init, TypeOK, Refs, Marks, Absent
<1>4. DiskInv
  BY <1>1 DEF Init, DiskInv, Used, Blank
<1>5. \A p \in Procs :
        /\ mem[p] = Idle /\ Idle.pc = "idle" /\ Idle.result = "none" /\ Idle.lockfd = Absent
        /\ ~Idle.held /\ {Idle.before, Idle.open, Idle.base, Idle.temp} = {Absent}
        /\ Idle.value = {}
  BY DEF Init, Idle, Absent
<1>6. ProcInv /\ TempInv /\ SnapshotInv /\ ReadsAreSnapshots /\ ReadersOutlastWriters
  BY <1>5 DEF ProcInv, Kept, TempInv, Private, SnapshotInv, Sighted, ReadsAreSnapshots, ReadersOutlastWriters, Staged, Absent
<1>7. WriteInv /\ RoundsInv /\ LockInv
  BY <1>5 DEF Init, WriteInv, Derived, RoundsInv, Outrun, LockInv, Holding, Staged, Looks
<1>8. SavedInv
  BY <1>1 DEF Init, SavedInv, Carried
<1> QED  BY <1>3, <1>4, <1>6, <1>7, <1>8 DEF IInv

-----------------------------------------------------------------------------
\* storage.go, Close: nothing is left of a process that ended, but what a reader answered.
LEMMA EndedProcess ==
  ASSUME NEW m \in Processes, NEW result \in Results
  PROVE  LET e == Ended(m, result) IN
         /\ e \in Processes /\ e.pc = "done" /\ e.result = result
         /\ e.lockfd = Absent /\ ~e.held
         /\ {e.before, e.open, e.base, e.temp} = {Absent}
         /\ e.value \subseteq m.value
         /\ m.lockfd = Absent /\ result = "ok" => e.value = m.value /\ e.past = m.past
         /\ m.lockfd = Absent /\ result # "ok" => e.rounds = m.rounds
BY ZenonT(60) DEF Ended, Idle, Processes, Results, Pcs, Refs, Absent

\* What the invariant says of one process.
LEMMA Known ==
  ASSUME IInv, NEW p \in Procs
  PROVE  /\ mem[p] \in Processes /\ Kept(p) /\ Private(p) /\ Sighted(mem[p])
         /\ ~touched => Derived(mem[p]) /\ Outrun(p, mem[p])
         /\ outside = 0 => Holding(p, mem[p])
BY DEF IInv, TypeOK, ProcInv, TempInv, SnapshotInv, WriteInv, RoundsInv, LockInv

\* A process that ends, alone, with nothing or with its temporary refused.
LEMMA FinishInv ==
  ASSUME IInv, NEW p \in Procs, NEW m \in Processes, NEW result \in Results \ {"none"},
         Become(p, Ended(m, result)), m.lockfd = mem[p].lockfd, m.rounds = mem[p].rounds,
         m.value \subseteq mem[p].value,
         ~Writer(p) /\ result = "ok" => m.value \in m.past,
         UNCHANGED <<tree, world, acked>>, faults' \in Nat,
         \/ UNCHANGED denied
         \/ mem[p].pc \in Staged /\ denied' = denied \cup {mem[p].temp},
         ~Writer(p) /\ result \in {"exhausted", "unsafe"} /\ ~touched => mem[p].rounds >= Attempts
  PROVE  IInv'
<1> USE DEF IInv, tree, world
<1>1. /\ mem' \in [Procs -> Processes] /\ \A q \in Procs \ {p} : mem'[q] = mem[q]
      /\ mem'[p].pc = "done" /\ mem'[p].result = result
      /\ mem'[p].lockfd = Absent /\ ~mem'[p].held
      /\ {mem'[p].before, mem'[p].open, mem'[p].base, mem'[p].temp} = {Absent}
      /\ mem'[p].value \subseteq mem[p].value
      /\ mem[p].lockfd = Absent /\ result = "ok" =>
           mem'[p].value = m.value /\ mem'[p].past = m.past
      /\ mem[p].lockfd = Absent /\ result # "ok" => mem'[p].rounds = mem[p].rounds
  <2>1. Ended(m, result) \in Processes /\ mem'[p] = Ended(m, result)
    BY EndedProcess DEF Become, TypeOK
  <2>2. mem' \in [Procs -> Processes] /\ \A q \in Procs \ {p} : mem'[q] = mem[q]
    BY <2>1 DEF Become, TypeOK
  <2> DEFINE e == Ended(m, result)
  <2>3. /\ e.pc = "done" /\ e.result = result /\ e.lockfd = Absent /\ ~e.held
        /\ {e.before, e.open, e.base, e.temp} = {Absent} /\ e.value \subseteq m.value
        /\ m.lockfd = Absent /\ result = "ok" => e.value = m.value /\ e.past = m.past
        /\ m.lockfd = Absent /\ result # "ok" => e.rounds = m.rounds
    BY EndedProcess
  <2> HIDE DEF e
  <2> QED  BY <2>1, <2>2, <2>3 DEF e
<1>2. mem[p].pc \in Staged => mem[p].temp \in Used
  BY DEF ProcInv, Kept, TempInv, Private
<1>3. TypeOK'
  BY <1>1, <1>2 DEF TypeOK, Used, Marks
<1>4. DiskInv'
  BY <1>2 DEF DiskInv, Used
<1>5. ProcInv'
  <2>1. ASSUME NEW q \in Procs  PROVE Kept(q)'
    <3>1. CASE q = p
      BY <1>1, <3>1, Known DEF Kept, Used
    <3>2. CASE q # p
      BY <1>1, <3>2 DEF ProcInv, Kept, Used, Writer
    <3> QED  BY <3>1, <3>2
  <2> QED  BY <2>1 DEF ProcInv
<1>6. TempInv'
  <2>1. ASSUME NEW q \in Procs  PROVE Private(q)'
    BY <1>1 DEF TempInv, Private, Staged
  <2> QED  BY <2>1 DEF TempInv
<1>7. SnapshotInv'
  BY <1>1 DEF SnapshotInv, Sighted, Sighted, Carried
<1>8. ReadsAreSnapshots' /\ ReadersOutlastWriters'
  <2>1. mem'[p].pc # "ready"
    BY <1>1
  <2>2. ~Writer(p) => mem[p].lockfd = Absent
    BY DEF ProcInv, Kept
  <2>3. ReadsAreSnapshots'
    BY <1>1, <2>1, <2>2 DEF ReadsAreSnapshots, Writer
  <2> QED  BY <1>1, <2>2, <2>3 DEF ReadersOutlastWriters, Writer
<1>9. WriteInv'
  BY <1>1 DEF WriteInv, Derived, Carried, Staged
<1>10. SavedInv'
  BY <1>1 DEF SavedInv, Carried, TempInv, Private, TypeOK, Refs
<1>11. RoundsInv' /\ LockInv'
  BY <1>1 DEF RoundsInv, Outrun, LockInv, Holding, Looks, Writer, TypeOK
<1> QED  BY <1>3, <1>4, <1>5, <1>6, <1>7, <1>8, <1>9, <1>10, <1>11

\* A process that goes on, alone: it is enough to look at what becomes of it.
LEMMA MoveInv ==
  ASSUME IInv, NEW p \in Procs, NEW m \in Processes, Become(p, m), Quiet,
         m.pc \notin {"idle", "done", "renamed", "saved"} \cup Staged, m.result = "none", m.temp \in {mem[p].temp, Absent},
         {m.before, m.open, m.base} \subseteq {mem[p].before, mem[p].open, mem[p].base, name, Absent},
         m.value \subseteq mem[p].value \cup Carried(mem[p].open) \cup {Torn},
         ~Writer(p) => m.lockfd = Absent /\ m.pc \in Looks,
         m.pc = "ready" /\ m.writes = 0 => m.value \in m.past,
         Sighted(m), ~touched => Derived(m) /\ Outrun(p, m), outside = 0 => Holding(p, m),
         m.held => mem[p].held \/ (outside = 0 => \A q \in Procs : ~mem[q].held)
  PROVE  IInv'
<1> USE DEF IInv, Quiet, tree, reports, world
<1>1. /\ mem' \in [Procs -> Processes] /\ mem'[p] = m
      /\ \A q \in Procs \ {p} : mem'[q] = mem[q]
  BY DEF Become, TypeOK
<1>2. /\ name \in Used \cup {Absent} /\ m.value \cap Inodes \subseteq Used
      /\ \A q \in Procs : mem[q].pc \in Staged => mem[q].temp \notin m.value \cup {name, Absent}
  <2>1. Torn \notin Inodes /\ Absent \notin Inodes
    BY StateFileAssumption DEF Inodes, Torn, Absent
  <2>2. Carried(mem[p].open) \cap Inodes \subseteq Used
    BY <2>1, Known DEF DiskInv, Carried, Kept, Used
  <2>3. m.value \cap Inodes \subseteq Used
    BY <2>1, <2>2, Known DEF Kept
  <2>4. ASSUME NEW q \in Procs, mem[q].pc \in Staged
        PROVE  mem[q].temp \notin m.value \cup {name, Absent}
    <3>1. mem[q].temp \in Inodes /\ mem[q].temp # Torn /\ mem[q].temp # Absent
      BY <2>1, <2>4, Known DEF Kept, Private, Used
    <3>2. mem[q].temp \notin Carried(mem[p].open)
      BY <2>4, Known DEF Private, Carried, Kept, Used
    <3> QED  BY <2>1, <2>4, <3>1, <3>2, Known DEF Private, DiskInv
  <2> QED  BY <2>3, <2>4 DEF DiskInv, Used
<1>3. TypeOK'
  BY <1>1 DEF TypeOK
<1>4. DiskInv' /\ SavedInv'
  BY DEF DiskInv, Used, SavedInv, Carried
<1>5. ProcInv'
  <2>1. ASSUME NEW q \in Procs  PROVE Kept(q)'
    <3>1. CASE q = p
      BY <1>1, <1>2, <3>1 DEF ProcInv, Kept, Used, Writer
    <3>2. CASE q # p
      BY <1>1, <3>2 DEF ProcInv, Kept, Used, Writer
    <3> QED  BY <3>1, <3>2
  <2> QED  BY <2>1 DEF ProcInv
<1>6. TempInv'
  <2>1. ASSUME NEW q \in Procs  PROVE Private(q)'
    <3>1. CASE q = p
      BY <1>1, <3>1 DEF Private, Staged
    <3>2. CASE q # p
      BY <1>1, <1>2, <3>2 DEF TempInv, Private
    <3> QED  BY <3>1, <3>2
  <2> QED  BY <2>1 DEF TempInv
<1>7. SnapshotInv' /\ WriteInv'
  BY <1>1 DEF SnapshotInv, Sighted, WriteInv, Derived, Carried
<1>8. RoundsInv'
  BY <1>1 DEF RoundsInv, Outrun, Writer
<1>9. LockInv'
  BY <1>1 DEF LockInv, Holding, Writer
<1>10. ReadsAreSnapshots' /\ ReadersOutlastWriters'
  BY <1>1 DEF ReadsAreSnapshots, ReadersOutlastWriters, Writer
<1> QED  BY <1>3, <1>4, <1>5, <1>6, <1>7, <1>8, <1>9, <1>10
-----------------------------------------------------------------------------
\* A process that has not begun holds nothing.
LEMMA IdleProcess ==
  ASSUME IInv, NEW p \in Procs, mem[p].pc = "idle"
  PROVE  /\ mem[p] \in Processes /\ mem[p].result = "none" /\ ~mem[p].held
         /\ {mem[p].before, mem[p].open, mem[p].base, mem[p].temp, mem[p].lockfd} = {Absent}
         /\ mem[p].value = {} /\ mem[p].tries = 0 /\ mem[p].rounds = 0 /\ mem[p].writes = 0
BY DEF IInv, TypeOK, ProcInv, Kept, Idle, Absent

\* storage.go, Open: a reader that has no lock looks at once.
LEMMA BeginReadInv ==
  ASSUME IInv, NEW p \in Procs, BeginRead(p)
  PROVE  IInv'
<1> DEFINE m == [mem[p] EXCEPT !.pc = "look"]
<1>1. mem[p].pc = "idle" /\ ~Writer(p) /\ Become(p, m) /\ Quiet
  BY DEF BeginRead
<1>2. /\ m \in Processes /\ m.pc = "look" /\ m.result = "none" /\ ~m.held
      /\ {m.before, m.open, m.base, m.temp, m.lockfd} = {Absent} /\ m.value = {}
      /\ m.tries = 0 /\ m.rounds = 0 /\ m.writes = 0
  BY <1>1, IdleProcess DEF Processes, Pcs, Looks
<1> HIDE DEF m
<1>3. Sighted(m) /\ Derived(m) /\ Outrun(p, m) /\ Holding(p, m)
  BY <1>1, <1>2, StateFileAssumption DEF Sighted, Derived, Outrun, Holding, Looks, Staged
<1> QED  BY <1>1, <1>2, <1>3, MoveInv DEF Looks, Staged

\* storage.go, Acquire: the file that was just created, or the one that is there.
LEMMA CreateLockInv ==
  ASSUME IInv, NEW p \in Procs, CreateLock(p)
  PROVE  IInv'
<1>1. mem[p].pc = "idle" /\ Writer(p)
  BY DEF CreateLock
<1>2. CASE lock # Absent
  <2> DEFINE m == [mem[p] EXCEPT !.pc = "exists"]
  <2>1. Become(p, m) /\ Quiet
    BY <1>2 DEF CreateLock, Quiet, tree
  <2>2. /\ m \in Processes /\ m.pc = "exists" /\ m.result = "none" /\ ~m.held
        /\ {m.before, m.open, m.base, m.temp, m.lockfd} = {Absent} /\ m.value = {}
        /\ m.tries = 0 /\ m.rounds = 0 /\ m.writes = 0
    BY <1>1, IdleProcess DEF Processes, Pcs
  <2> HIDE DEF m
  <2>3. Sighted(m) /\ Derived(m) /\ Outrun(p, m) /\ Holding(p, m)
    BY <2>2 DEF Sighted, Derived, Outrun, Holding, Looks, Staged
  <2> QED  BY <1>1, <2>1, <2>2, <2>3, MoveInv DEF Looks, Staged
<1>3. CASE lock = Absent
  <2> DEFINE m == [mem[p] EXCEPT !.pc = "locking", !.lockfd = LockInode]
  <2>1. /\ Become(p, m) /\ lock' = LockInode /\ LockInode \in Nat \ {Absent}
        /\ UNCHANGED <<name, file, onDisk, reports, world, faults>>
    BY <1>3, StateFileAssumption DEF CreateLock, LockInode, IInv, TypeOK, Absent
  <2>2. /\ m \in Processes /\ m.pc = "locking" /\ m.result = "none" /\ ~m.held
        /\ {m.before, m.open, m.base, m.temp} = {Absent} /\ m.lockfd = LockInode /\ m.value = {}
    <3>1. mem[p] \in Processes /\ "locking" \in Pcs
      BY <1>1, IdleProcess DEF Pcs
    <3>2. m \in Processes
      BY <2>1, <3>1 DEF Processes
    <3>3. /\ mem[p].result = "none" /\ ~mem[p].held /\ mem[p].value = {}
          /\ {mem[p].before, mem[p].open, mem[p].base, mem[p].temp} = {Absent}
      BY <1>1, IdleProcess
    <3> QED  BY <3>1, <3>2, <3>3 DEF Processes
  <2> HIDE DEF m
  <2> USE DEF IInv, reports, world
  <2>3. /\ mem' \in [Procs -> Processes] /\ mem'[p] = m
        /\ \A q \in Procs \ {p} : mem'[q] = mem[q]
    BY <2>1, <2>2 DEF Become, TypeOK
  <2>4. TypeOK' /\ DiskInv' /\ SavedInv'
    BY <2>1, <2>2, <2>3 DEF TypeOK, DiskInv, Used, SavedInv, Carried
  <2>5. ProcInv'
    <3>1. ASSUME NEW q \in Procs  PROVE Kept(q)'
      <4>1. CASE q = p
        BY <1>1, <2>2, <2>3, <4>1 DEF Kept, Writer
      <4>2. CASE q # p
        BY <2>1, <2>3, <4>2 DEF ProcInv, Kept, Used, Writer
      <4> QED  BY <4>1, <4>2
    <3> QED  BY <3>1 DEF ProcInv
  <2>6. TempInv'
    <3>1. ASSUME NEW q \in Procs  PROVE Private(q)'
      BY <2>1, <2>2, <2>3 DEF TempInv, Private, Staged
    <3> QED  BY <3>1 DEF TempInv
  <2>7. SnapshotInv' /\ WriteInv' /\ RoundsInv'
    <3>1. SnapshotInv'
      BY <2>1, <2>2, <2>3 DEF SnapshotInv, Sighted, Carried
    <3>2. WriteInv'
      BY <2>1, <2>2, <2>3 DEF WriteInv, Derived, Carried, Staged
    <3>3. RoundsInv'
      BY <2>1, <2>2, <2>3 DEF RoundsInv, Outrun, Writer, Looks
    <3> QED  BY <3>1, <3>2, <3>3
  <2>8. LockInv'
    <3>1. outside = 0 => \A q \in Procs \ {p} : ~mem[q].held /\ mem[q].lockfd = Absent
      BY <1>3 DEF LockInv, Holding
    <3>2. outside = 0 => \A q \in Procs : Holding(q, mem[q])'
      BY <1>3, <2>1, <2>2, <2>3, <3>1 DEF LockInv, Holding, Writer
    <3> QED  BY <2>1, <2>2, <2>3, <3>1, <3>2 DEF LockInv
  <2>9. ReadsAreSnapshots' /\ ReadersOutlastWriters'
    BY <2>1, <2>2, <2>3 DEF ReadsAreSnapshots, ReadersOutlastWriters, Writer
  <2> QED  BY <2>4, <2>5, <2>6, <2>7, <2>8, <2>9
<1> QED  BY <1>2, <1>3
\* storage.go, Acquire: one open of the lock that was there.
LEMMA OpenLockInv ==
  ASSUME IInv, NEW p \in Procs, OpenLock(p)
  PROVE  IInv'
<1>1. mem[p].pc = "exists" /\ Writer(p) /\ Quiet /\ mem[p] \in Processes /\ faults \in Nat
  BY Known DEF OpenLock, Kept, Looks, IInv, TypeOK
<1>2. CASE lock = Absent
  <2>1. Finish(p, "unsafe")
    BY <1>2 DEF OpenLock
  <2> QED  BY <1>1, <2>1, FinishInv DEF Finish, Quiet, reports, Results
<1>3. CASE lock # Absent
  <2> DEFINE m == [mem[p] EXCEPT !.pc = "locking", !.lockfd = lock]
  <2>1. Become(p, m)
    BY <1>3 DEF OpenLock
  <2>2. /\ m \in Processes /\ m.pc = "locking" /\ m.lockfd = lock /\ m.result = "none"
        /\ m.before = mem[p].before /\ m.open = mem[p].open /\ m.base = mem[p].base
        /\ m.temp = mem[p].temp /\ m.value = mem[p].value /\ m.held = mem[p].held
    BY <1>1, Known DEF Processes, Pcs, Kept, IInv, TypeOK
  <2> HIDE DEF m
  <2>3. Sighted(m) /\ Derived(m) /\ Outrun(p, m) /\ Holding(p, m)
    BY <1>1, <1>3, <2>2 DEF Sighted, Derived, Outrun, Holding, Looks, Staged
  <2> QED  BY <1>1, <2>1, <2>2, <2>3, MoveInv DEF Looks, Staged
<1> QED  BY <1>2, <1>3

\* storage.go, Acquire: the lock that nobody has, under its name.
LEMMA TryLockInv ==
  ASSUME IInv, NEW p \in Procs, TryLock(p)
  PROVE  IInv'
<1>1. mem[p].pc = "locking" /\ Writer(p) /\ Quiet /\ mem[p] \in Processes /\ faults \in Nat
  BY Known DEF TryLock, Kept, Looks, IInv, TypeOK
<1>2. ASSUME NEW result \in {"unsafe", "busy"}, Finish(p, result)
      PROVE  IInv'
  BY <1>1, <1>2, FinishInv DEF Finish, Quiet, reports, Results
<1>3. ASSUME Checked(mem[p]), ~Flocked(mem[p].lockfd),
             Become(p, [mem[p] EXCEPT !.pc = "locked", !.held = TRUE])
      PROVE  IInv'
  <2> DEFINE m == [mem[p] EXCEPT !.pc = "locked", !.held = TRUE]
  <2>1. /\ m \in Processes /\ m.pc = "locked" /\ m.lockfd = mem[p].lockfd /\ m.result = "none"
        /\ m.before = mem[p].before /\ m.open = mem[p].open /\ m.base = mem[p].base
        /\ m.temp = mem[p].temp /\ m.value = mem[p].value /\ m.held
    BY <1>1, Known DEF Processes, Pcs, Kept
  <2> HIDE DEF m
  <2>2. Sighted(m) /\ Derived(m) /\ Outrun(p, m)
    BY <1>1, <2>1 DEF Sighted, Derived, Outrun, Looks, Staged
  <2>3. outside = 0 => Holding(p, m)
    BY <1>1, <2>1, Known DEF Holding
  <2>4. outside = 0 => \A q \in Procs : ~mem[q].held
    BY <1>1, <1>3, Known DEF Holding, Checked, Flocked
  <2> QED  BY <1>1, <1>3, <2>1, <2>2, <2>3, <2>4, MoveInv DEF m, Looks, Staged
<1> QED  BY <1>2, <1>3 DEF TryLock

\* storage.go, Acquire: the lock is still the one under its name.
LEMMA ConfirmLockInv ==
  ASSUME IInv, NEW p \in Procs, ConfirmLock(p)
  PROVE  IInv'
<1>1. mem[p].pc = "locked" /\ Writer(p) /\ Quiet /\ mem[p] \in Processes /\ faults \in Nat
  BY Known DEF ConfirmLock, Kept, Looks, IInv, TypeOK
<1>2. ASSUME Finish(p, "unsafe")  PROVE IInv'
  BY <1>1, <1>2, FinishInv DEF Finish, Quiet, reports, Results
<1>3. ASSUME Become(p, [mem[p] EXCEPT !.pc = "look"])  PROVE IInv'
  <2> DEFINE m == [mem[p] EXCEPT !.pc = "look"]
  <2>1. /\ m \in Processes /\ m.pc = "look" /\ m.lockfd = mem[p].lockfd /\ m.result = "none"
        /\ m.before = mem[p].before /\ m.open = mem[p].open /\ m.base = mem[p].base
        /\ m.temp = mem[p].temp /\ m.value = mem[p].value /\ m.held = mem[p].held
    BY <1>1, Known DEF Processes, Pcs, Kept, Looks
  <2> HIDE DEF m
  <2>2. Sighted(m) /\ Derived(m) /\ Outrun(p, m)
    BY <1>1, <2>1 DEF Sighted, Derived, Outrun, Looks, Staged
  <2>3. outside = 0 => Holding(p, m)
    BY <1>1, <2>1, Known DEF Holding
  <2> QED  BY <1>1, <1>3, <2>1, <2>2, <2>3, MoveInv DEF m, Looks, Staged
<1> QED  BY <1>2, <1>3 DEF ConfirmLock
-----------------------------------------------------------------------------
\* storage.go, Read: the document is looked up, or is an empty history.
LEMMA LookInv ==
  ASSUME IInv, NEW p \in Procs, Look(p)
  PROVE  IInv'
<1>1. mem[p].pc = "look" /\ Quiet /\ mem[p] \in Processes /\ faults \in Nat /\ name \in Refs
  BY Known DEF Look, IInv, TypeOK
<1>2. CASE ~Checked(mem[p])
  <2>1. Writer(p)
    BY <1>2, Known DEF Kept, Checked, Absent
  <2> QED  BY <1>1, <1>2, <2>1, FinishInv DEF Look, Finish, Quiet, reports, Results
<1>3. CASE Checked(mem[p]) /\ name = Absent
  <2> DEFINE m == [Obtained(mem[p], {}, Absent) EXCEPT !.past = {{}}]
             n == [m EXCEPT !.pc = "ready"]
  <2>1. Become(p, IF Writer(p) THEN n ELSE Ended(m, "ok"))
    BY <1>3 DEF Look
  <2>2. m \in Processes /\ n \in Processes
    BY <1>1 DEF Processes, Obtained, Pcs, Refs, Marks
  <2>3. /\ m.lockfd = mem[p].lockfd /\ m.rounds = mem[p].rounds /\ m.value = {} /\ m.past = {{}}
        /\ n.pc = "ready" /\ n.result = "none" /\ n.value = {} /\ n.past = {{}}
        /\ n.before = Absent /\ n.open = Absent /\ n.base = Absent
        /\ n.temp = mem[p].temp /\ n.held = mem[p].held /\ n.lockfd = mem[p].lockfd
    BY <1>1, Known DEF Processes, Obtained, Kept
  <2> HIDE DEF m, n
  <2>4. CASE ~Writer(p)
    BY <1>1, <2>1, <2>2, <2>3, <2>4, FinishInv DEF Quiet, reports, Results
  <2>5. CASE Writer(p)
    <3>1. Sighted(n) /\ Derived(n) /\ Outrun(p, n)
      BY <2>3, <2>5 DEF Sighted, Derived, Outrun, Looks, Staged, Carried
    <3>2. outside = 0 => Holding(p, n)
      BY <1>1, <2>3, Known DEF Holding
    <3> QED  BY <1>1, <2>1, <2>2, <2>3, <2>5, <3>1, <3>2, MoveInv DEF Looks, Staged
  <2> QED  BY <2>4, <2>5
<1>4. CASE Checked(mem[p]) /\ name # Absent
  <2> DEFINE m == [mem[p] EXCEPT !.pc = "looked", !.before = name, !.past = {Carried(name)}]
  <2>1. Become(p, m)
    BY <1>4 DEF Look
  <2>2. Carried(name) \in SUBSET Marks
    BY <1>1, <1>4 DEF Carried, IInv, TypeOK, Documents, Refs
  <2>3. /\ m \in Processes /\ m.pc = "looked" /\ m.before = name /\ m.past = {Carried(name)}
        /\ m.open = mem[p].open /\ m.base = mem[p].base /\ m.temp = mem[p].temp /\ m.value = mem[p].value
        /\ m.result = "none" /\ m.held = mem[p].held /\ m.lockfd = mem[p].lockfd
        /\ m.tries = mem[p].tries /\ m.rounds = mem[p].rounds
    BY <1>1, <2>2, Known DEF Processes, Pcs, Looks, Kept
  <2> HIDE DEF m
  <2>4. Sighted(m) /\ Derived(m)
    BY <1>4, <2>3 DEF Sighted, Derived, Staged
  <2>5. ~touched => Outrun(p, m)
    BY <1>1, <1>4, <2>3, Known DEF Outrun, Looks
  <2>6. outside = 0 => Holding(p, m)
    BY <1>1, <2>3, Known DEF Holding
  <2>7. ~Writer(p) => m.lockfd = Absent
    BY <2>3, Known DEF Kept
  <2> QED  BY <1>1, <2>1, <2>3, <2>4, <2>5, <2>6, <2>7, MoveInv DEF Looks, Staged
<1> QED  BY <1>2, <1>3, <1>4

\* storage.go, Read: whatever is under the name by now is opened.
LEMMA OpenHistoryInv ==
  ASSUME IInv, NEW p \in Procs, OpenHistory(p)
  PROVE  IInv'
<1>1. mem[p].pc = "looked" /\ Quiet /\ mem[p] \in Processes /\ faults \in Nat /\ name \in Refs
  BY Known DEF OpenHistory, IInv, TypeOK
<1>2. CASE name = Absent
  <2>1. ~Writer(p) /\ ~touched => FALSE
    BY <1>1, <1>2, Known DEF Outrun, Looks
  <2> QED  BY <1>1, <1>2, <2>1, FinishInv DEF OpenHistory, Finish, Quiet, reports, Results
<1>3. CASE name # Absent
  <2> DEFINE m == [mem[p] EXCEPT !.pc = "opened", !.open = name]
  <2>1. Become(p, m)
    BY <1>3 DEF OpenHistory
  <2>2. /\ m \in Processes /\ m.pc = "opened" /\ m.open = name
        /\ m.before = mem[p].before /\ m.base = mem[p].base /\ m.temp = mem[p].temp /\ m.value = mem[p].value
        /\ m.past = mem[p].past /\ m.result = "none" /\ m.held = mem[p].held
        /\ m.lockfd = mem[p].lockfd /\ m.tries = mem[p].tries /\ m.rounds = mem[p].rounds
    BY <1>1, Known DEF Processes, Pcs, Looks, Kept
  <2> HIDE DEF m
  <2>3. Sighted(m) /\ Derived(m)
    BY <1>1, <1>3, <2>2, Known DEF Sighted, Derived, Staged
  <2>4. ~touched => Outrun(p, m)
    BY <1>1, <2>2, Known DEF Outrun, Looks
  <2>5. outside = 0 => Holding(p, m)
    BY <1>1, <2>2, Known DEF Holding
  <2>6. ~Writer(p) => m.lockfd = Absent
    BY <2>2, Known DEF Kept
  <2> QED  BY <1>1, <2>1, <2>2, <2>3, <2>4, <2>5, <2>6, MoveInv DEF Looks, Staged
<1> QED  BY <1>2, <1>3

\* storage.go, Read: a descriptor other than the one looked up, or unlinked, is not read.
LEMMA StatOpenedInv ==
  ASSUME IInv, NEW p \in Procs, StatOpened(p)
  PROVE  IInv'
<1> DEFINE same == file[mem[p].open].links = 1 /\ mem[p].open = mem[p].before
           m == IF same THEN [mem[p] EXCEPT !.pc = "reading", !.mtime = file[mem[p].open].mtime]
                        ELSE [mem[p] EXCEPT !.pc = "suspect"]
<1>1. mem[p].pc = "opened" /\ Quiet /\ mem[p] \in Processes /\ Become(p, m)
  BY Known DEF StatOpened
<1>2. mem[p].open \in Inodes /\ file[mem[p].open] \in Documents
  BY <1>1, Known DEF Sighted, Processes, Refs, IInv, TypeOK
<1>3. /\ m \in Processes /\ m.pc = IF same THEN "reading" ELSE "suspect"
      /\ same => m.mtime = file[m.open].mtime
      /\ m.open = mem[p].open /\ m.before = mem[p].before /\ m.base = mem[p].base
      /\ m.temp = mem[p].temp /\ m.value = mem[p].value /\ m.past = mem[p].past /\ m.result = "none"
      /\ m.held = mem[p].held /\ m.lockfd = mem[p].lockfd
      /\ m.tries = mem[p].tries /\ m.rounds = mem[p].rounds
  BY <1>1, <1>2, Known DEF Processes, Documents, Pcs, Looks, Kept
<1> HIDE DEF m
<1>4. Sighted(m) /\ Derived(m)
  BY <1>1, <1>2, <1>3, Known DEF Sighted, Derived, Staged, Documents
<1>5. ~touched => Outrun(p, m)
  <2>1. ~same /\ mem[p].open = mem[p].before => name # mem[p].before
    BY <1>1, Known DEF IInv, DiskInv, Sighted
  <2> QED  BY <1>1, <1>3, <2>1, Known DEF Outrun, Looks
<1>6. outside = 0 => Holding(p, m)
  BY <1>1, <1>3, Known DEF Holding
<1>7. ~Writer(p) => m.lockfd = Absent
  BY <1>3, Known DEF Kept
<1> QED  BY <1>1, <1>3, <1>4, <1>5, <1>6, <1>7, MoveInv DEF Looks, Staged
\* storage.go, consume: the two reads fit together, or the descriptor moved.
LEMMA ConsumeInv ==
  ASSUME IInv, NEW p \in Procs, Consume(p)
  PROVE  IInv'
<1> DEFINE c == Carried(mem[p].open)
           m == IF mem[p].pc = "reading" THEN [mem[p] EXCEPT !.pc = "half", !.value = c]
                ELSE [mem[p] EXCEPT !.pc = "read", !.value = IF @ = c THEN @ ELSE {Torn}]
<1>1. mem[p].pc \in {"reading", "half"} /\ Quiet /\ mem[p] \in Processes /\ Become(p, m)
  BY Known DEF Consume
<1>2. c \in SUBSET Marks /\ {Torn} \in SUBSET Marks
  BY <1>1, Known DEF Carried, Sighted, Processes, Refs, IInv, TypeOK, Documents, Marks
<1>3. /\ m \in Processes /\ m.pc = IF mem[p].pc = "reading" THEN "half" ELSE "read"
      /\ m.value = IF mem[p].pc = "reading" \/ mem[p].value = c THEN c ELSE {Torn}
      /\ m.open = mem[p].open /\ m.before = mem[p].before /\ m.base = mem[p].base
      /\ m.temp = mem[p].temp /\ m.past = mem[p].past /\ m.result = "none"
      /\ m.held = mem[p].held /\ m.lockfd = mem[p].lockfd /\ m.mtime = mem[p].mtime
      /\ m.tries = mem[p].tries /\ m.rounds = mem[p].rounds
  BY <1>1, <1>2, Known, ZenonT(60) DEF Processes, Pcs, Looks, Kept
<1> HIDE DEF m
<1>4. Sighted(m) /\ Derived(m)
  BY <1>1, <1>3, Known DEF Sighted, Derived, Staged
<1>5. ~touched => Outrun(p, m)
  BY <1>1, <1>3, Known DEF Outrun, Looks
<1>6. outside = 0 => Holding(p, m)
  BY <1>1, <1>3, Known DEF Holding
<1>7. ~Writer(p) => m.lockfd = Absent
  BY <1>3, Known DEF Kept
<1> QED  BY <1>1, <1>3, <1>4, <1>5, <1>6, <1>7, MoveInv DEF Looks, Staged

\* storage.go, Read: what is returned was carried by a descriptor that did not move.
LEMMA StatAfterInv ==
  ASSUME IInv, NEW p \in Procs, StatAfter(p)
  PROVE  IInv'
<1>1. mem[p].pc = "read" /\ Quiet /\ mem[p] \in Processes /\ faults \in Nat
  BY Known DEF StatAfter, IInv, TypeOK
<1>2. mem[p].open = mem[p].before /\ mem[p].open \in Inodes /\ mem[p].open # Absent
  BY <1>1, Known DEF Sighted, Processes, Refs
<1>3. CASE ~Settled(mem[p])
  <2>1. ~Writer(p) /\ ~touched => FALSE
    BY <1>1, <1>3, Known DEF Outrun, Settled
  <2> QED  BY <1>1, <1>3, <2>1, FinishInv DEF StatAfter, Finish, Quiet, reports, Results
<1>4. CASE Settled(mem[p]) /\ file[mem[p].open].links # 1
  <2> DEFINE m == [mem[p] EXCEPT !.pc = "suspect", !.before = mem[p].open]
  <2>1. Become(p, m)
    BY <1>4 DEF StatAfter
  <2>2. /\ m \in Processes /\ m.pc = "suspect"
        /\ m.before = mem[p].before /\ m.open = mem[p].open /\ m.base = mem[p].base
        /\ m.temp = mem[p].temp /\ m.value = mem[p].value /\ m.result = "none"
        /\ m.held = mem[p].held /\ m.lockfd = mem[p].lockfd
        /\ m.tries = mem[p].tries /\ m.rounds = mem[p].rounds
    BY <1>1, <1>2, Known DEF Processes, Pcs, Looks, Kept
  <2> HIDE DEF m
  <2>3. Sighted(m) /\ Derived(m)
    BY <2>2 DEF Sighted, Derived, Staged
  <2>4. name # mem[p].before
    BY <1>2, <1>4 DEF IInv, DiskInv
  <2>5. ~touched => Outrun(p, m)
    BY <1>1, <2>2, <2>4, Known DEF Outrun, Looks
  <2>6. outside = 0 => Holding(p, m)
    BY <1>1, <2>2, Known DEF Holding
  <2>7. ~Writer(p) => m.lockfd = Absent
    BY <2>2, Known DEF Kept
  <2> QED  BY <1>1, <2>1, <2>2, <2>3, <2>5, <2>6, <2>7, MoveInv DEF Looks, Staged
<1>5. CASE Settled(mem[p]) /\ file[mem[p].open].links = 1
  <2> DEFINE m == Obtained(mem[p], mem[p].value, mem[p].open)
             n == [m EXCEPT !.pc = "ready"]
  <2>1. Become(p, IF Writer(p) THEN n ELSE Ended(m, "ok"))
    BY <1>5 DEF StatAfter, Return
  <2>2. m \in Processes /\ n \in Processes
    BY <1>1, <1>2 DEF Processes, Obtained, Pcs, Refs
  <2>3. /\ m.lockfd = mem[p].lockfd /\ m.rounds = mem[p].rounds
        /\ m.value = mem[p].value /\ m.past = mem[p].past
        /\ n.pc = "ready" /\ n.result = "none" /\ n.value = mem[p].value /\ n.past = mem[p].past
        /\ n.before = Absent /\ n.open = Absent /\ n.base = mem[p].open
        /\ n.temp = mem[p].temp /\ n.held = mem[p].held /\ n.lockfd = mem[p].lockfd
    BY <1>1, Known DEF Processes, Obtained, Kept
  <2>4. mem[p].value = Carried(mem[p].open) /\ mem[p].value \in mem[p].past
    BY <1>1, <1>2, <1>5, Known DEF Sighted, Settled
  <2> HIDE DEF m, n
  <2>5. CASE ~Writer(p)
    BY <1>1, <2>1, <2>2, <2>3, <2>4, <2>5, FinishInv DEF Quiet, reports, Results
  <2>6. CASE Writer(p)
    <3>1. Sighted(n) /\ Derived(n) /\ Outrun(p, n)
      BY <2>3, <2>4, <2>6 DEF Sighted, Derived, Outrun, Looks, Staged
    <3>2. outside = 0 => Holding(p, n)
      BY <1>1, <2>3, Known DEF Holding
    <3> QED  BY <1>1, <2>1, <2>2, <2>3, <2>4, <2>6, <3>1, <3>2, MoveInv DEF Looks, Staged
  <2> QED  BY <2>5, <2>6
<1> QED  BY <1>3, <1>4, <1>5

\* budget/storage.go: another attempt costs the document's movers a publication.
LEMMA DoubtInv ==
  ASSUME IInv, NEW p \in Procs, Doubt(p)
  PROVE  IInv'
<1>1. mem[p].pc = "suspect" /\ Quiet /\ mem[p] \in Processes /\ faults \in Nat
  BY Known DEF Doubt, IInv, TypeOK
<1>2. ~Writer(p) /\ ~touched =>
        Replaced(mem[p]) /\ mem[p].tries < Attempts /\ mem[p].tries < mem[p].rounds
  BY <1>1, Known DEF Outrun, Replaced, Looks
<1>3. mem[p].tries \in Nat /\ mem[p].rounds \in Nat /\ Attempts \in Nat
  BY <1>1, StateFileAssumption DEF Processes
<1>4. CASE Replaced(mem[p]) /\ ~Writer(p) /\ mem[p].tries + 1 < Attempts
  <2> DEFINE m == [mem[p] EXCEPT !.pc = "look", !.tries = mem[p].tries + 1]
  <2>1. Become(p, m)
    BY <1>4 DEF Doubt
  <2>2. /\ m \in Processes /\ m.pc = "look" /\ m.tries = mem[p].tries + 1
        /\ m.before = mem[p].before /\ m.open = mem[p].open /\ m.base = mem[p].base
        /\ m.temp = mem[p].temp /\ m.value = mem[p].value /\ m.result = "none"
        /\ m.held = mem[p].held /\ m.lockfd = mem[p].lockfd /\ m.rounds = mem[p].rounds
    <3>1. mem[p].tries + 1 \in Nat /\ "look" \in Pcs
      BY <1>3 DEF Pcs, Looks
    <3> QED  BY <1>1, <3>1, Known DEF Processes, Kept
  <2> HIDE DEF m
  <2>3. Sighted(m) /\ Derived(m)
    BY <2>2 DEF Sighted, Derived, Staged
  <2>4. ~touched => Outrun(p, m)
    BY <1>2, <1>3, <1>4, <2>2 DEF Outrun, Looks
  <2>5. outside = 0 => Holding(p, m)
    BY <1>1, <2>2, Known DEF Holding
  <2>6. ~Writer(p) => m.lockfd = Absent
    BY <2>2, Known DEF Kept
  <2> QED  BY <1>1, <2>1, <2>2, <2>3, <2>4, <2>5, <2>6, MoveInv DEF Looks, Staged
<1>5. CASE ~(Replaced(mem[p]) /\ ~Writer(p) /\ mem[p].tries + 1 < Attempts)
  <2> DEFINE result == IF Replaced(mem[p]) /\ ~Writer(p) THEN "exhausted" ELSE "unsafe"
  <2>1. Finish(p, result) /\ result \in {"exhausted", "unsafe"}
    BY <1>5 DEF Doubt
  <2>2. ~Writer(p) /\ ~touched => mem[p].rounds >= Attempts
    BY <1>2, <1>3, <1>5
  <2> HIDE DEF result
  <2> QED  BY <1>1, <2>1, <2>2, FinishInv DEF Finish, Quiet, reports, Results
<1> QED  BY <1>4, <1>5

\* loop/store.go: a transaction goes on from what it last published, or looks again.
LEMMA ContinueInv ==
  ASSUME IInv, NEW p \in Procs, Continue(p)
  PROVE  IInv'
<1>1. mem[p].pc = "saved" /\ Writer(p) /\ Quiet /\ mem[p] \in Processes /\ faults \in Nat
  BY Known DEF Continue, Kept, Looks, IInv, TypeOK
<1>2. ASSUME Finish(p, "ok")  PROVE IInv'
  BY <1>1, <1>2, FinishInv DEF Finish, Quiet, reports, Results
<1>3. ASSUME NEW next \in {"ready", "look"}, Become(p, [mem[p] EXCEPT !.pc = next])
      PROVE  IInv'
  <2> DEFINE m == [mem[p] EXCEPT !.pc = next]
  <2>1. /\ m \in Processes /\ m.pc = next /\ m.value = mem[p].value
        /\ m.before = mem[p].before /\ m.open = mem[p].open /\ m.base = mem[p].base
        /\ m.temp = mem[p].temp /\ m.value = mem[p].value /\ m.result = "none" /\ m.writes = mem[p].writes
        /\ m.held = mem[p].held /\ m.lockfd = mem[p].lockfd
    BY <1>1, Known DEF Processes, Pcs, Looks, Kept
  <2>2. m.writes # 0
    BY <1>1, <2>1, Known DEF Kept
  <2> HIDE DEF m
  <2>3. Sighted(m) /\ Outrun(p, m)
    BY <1>1, <2>1 DEF Sighted, Outrun
  <2>4. ~touched => Derived(m)
    BY <1>1, <2>1, Known DEF Derived, Staged
  <2>5. outside = 0 => Holding(p, m)
    BY <1>1, <2>1, Known DEF Holding
  <2> QED  BY <1>1, <1>3, <2>1, <2>2, <2>3, <2>4, <2>5, MoveInv DEF m, Looks, Staged
<1> QED  BY <1>2, <1>3 DEF Continue
-----------------------------------------------------------------------------
\* storage.go, write: a temporary under a number nobody has used, with what was read
\* and its own publication.
LEMMA StageInv ==
  ASSUME IInv, NEW p \in Procs, Stage(p)
  PROVE  IInv'
<1>1. mem[p].pc = "ready" /\ Writer(p) /\ mem[p] \in Processes /\ faults \in Nat
  BY Known DEF Stage, Kept, Looks, IInv, TypeOK
<1>2. CASE ~Checked(mem[p])
  BY <1>1, <1>2, FinishInv DEF Stage, Finish, tree, reports, Results
<1>3. CASE Checked(mem[p])
  <2> DEFINE doc == [carries |-> mem[p].value \cup {Fresh}, mtime |-> 1, links |-> 1, synced |-> FALSE]
             m == [mem[p] EXCEPT !.pc = "staged", !.temp = Fresh, !.ready = FALSE, !.past = {}]
  <2>1. /\ Free # {} /\ file' = [file EXCEPT ![Fresh] = doc] /\ Become(p, m)
        /\ UNCHANGED <<name, lock, onDisk, acked, denied, outside, touched, faults>>
    BY <1>3 DEF Stage, reports, world
  <2>2. Fresh \in Inodes /\ Fresh \notin Used /\ Fresh # Absent
    BY <2>1, FreshIsFree, StateFileAssumption DEF Inodes, Absent
  <2>3. doc \in Documents /\ m \in Processes
    BY <1>1, <2>2, ZenonT(60) DEF Documents, Processes, Marks, Pcs, Staged, Refs
  <2>4. /\ m.pc = "staged" /\ m.temp = Fresh /\ m.value = mem[p].value /\ m.base = mem[p].base
        /\ m.before = mem[p].before /\ m.open = mem[p].open /\ m.result = "none"
        /\ m.held = mem[p].held /\ m.lockfd = mem[p].lockfd
    BY <1>1, Known DEF Processes, Kept
  <2>5. /\ doc.carries = mem[p].value \cup {Fresh} /\ doc.mtime = 1 /\ doc.links = 1
    OBVIOUS
  <2> HIDE DEF doc, m
  <2> USE DEF IInv
  <2>6. /\ mem' \in [Procs -> Processes] /\ mem'[p] = m
        /\ \A q \in Procs \ {p} : mem'[q] = mem[q]
        /\ file' \in [Inodes -> Documents] /\ file'[Fresh] = doc
        /\ \A i \in Inodes \ {Fresh} : file'[i] = file[i]
    BY <2>1, <2>2, <2>3 DEF Become, TypeOK
  <2>7. Used' = Used \cup {Fresh}
    BY <2>2, <2>5, <2>6 DEF Used
  <2>8. \A i \in Used \cup {Absent} : i # Fresh /\ Carried(i)' = Carried(i)
    BY <2>2, <2>6 DEF Carried, Used
  <2>9. name \in Used \cup {Absent} /\ onDisk \subseteq Used \cup {Absent}
    BY DEF DiskInv
  <2>11. TypeOK'
    BY <2>1, <2>6 DEF TypeOK
  <2>12. \A q \in Procs : {mem[q].before, mem[q].open, mem[q].base, mem[q].temp} \subseteq Used \cup {Absent}
    BY Known DEF Kept
  <2>13. ProcInv'
    <3>1. ASSUME NEW q \in Procs  PROVE Kept(q)'
      <4>1. CASE q = p
        BY <1>1, <2>4, <2>6, <2>7, <2>12, <4>1, Known DEF Kept, Writer
      <4>2. CASE q # p
        BY <2>6, <2>7, <4>2 DEF ProcInv, Kept, Writer
      <4> QED  BY <4>1, <4>2
    <3> QED  BY <3>1 DEF ProcInv
  <2>14. SnapshotInv'
    <3>1. ASSUME NEW q \in Procs  PROVE Sighted(mem[q])'
      <4>1. CASE q = p
        BY <2>4, <2>6, <4>1 DEF Sighted
      <4>2. CASE q # p
        <5>1. Sighted(mem[q]) /\ mem'[q] = mem[q]
          BY <2>6, <4>2, Known
        <5>2. mem[q].open # Absent => file'[mem[q].open] = file[mem[q].open]
          BY <2>6, <2>12, <2>2 DEF Used
        <5> QED  BY <2>8, <2>12, <5>1, <5>2 DEF Sighted
      <4> QED  BY <4>1, <4>2
    <3> QED  BY <3>1 DEF SnapshotInv
  <2>15. RoundsInv' /\ LockInv'
    <3>1. ASSUME NEW q \in Procs, ~touched  PROVE Outrun(q, mem[q])'
      <4>1. CASE q = p
        BY <1>1, <2>6, <4>1 DEF Outrun, Writer
      <4>2. CASE q # p
        <5>1. Outrun(q, mem[q]) /\ mem'[q] = mem[q] /\ Sighted(mem[q])
          BY <2>6, <3>1, <4>2, Known
        <5>2. mem[q].open # Absent => file'[mem[q].open] = file[mem[q].open]
          BY <2>6, <2>12, <2>2 DEF Used
        <5> QED  BY <2>1, <5>1, <5>2 DEF Outrun, Writer, Sighted
      <4> QED  BY <4>1, <4>2
    <3>2. ASSUME NEW q \in Procs, outside = 0  PROVE Holding(q, mem[q])'
      BY <1>1, <2>1, <2>4, <2>6, <3>2, Known DEF Holding, Writer
    <3> QED  BY <2>1, <2>4, <2>6, <3>1, <3>2 DEF RoundsInv, LockInv
  <2>16. ReadsAreSnapshots' /\ ReadersOutlastWriters'
    BY <1>1, <2>1, <2>4, <2>6 DEF ReadsAreSnapshots, ReadersOutlastWriters, Writer
  <2>17. SavedInv'
    BY <2>1, <2>8, <2>9 DEF SavedInv
  <2>18. WriteInv'
    <3> SUFFICES ASSUME NEW q \in Procs, ~touched  PROVE Derived(mem[q])'
      BY <2>1 DEF WriteInv
    <3>1. CASE q = p
      BY <1>1, <2>4, <2>5, <2>6, <2>8, <2>12, <3>1, Known DEF Derived, Staged
    <3>2. CASE q # p
      <4>1. Derived(mem[q]) /\ mem'[q] = mem[q] /\ Private(q)
        BY <2>6, <3>2, Known
      <4>2. mem[q].temp # Absent => file'[mem[q].temp] = file[mem[q].temp]
        BY <2>6, <2>12, <2>2 DEF Used
      <4> QED  BY <2>1, <2>8, <2>9, <2>12, <4>1, <4>2 DEF Derived, Private
    <3> QED  BY <3>1, <3>2
  <2>19. \A i \in Inodes : (file'[i].carries) \cap Inodes \subseteq Used'
    BY <2>5, <2>6, <2>7, Known DEF DiskInv, Kept
  <2>20. DiskInv'
    BY <2>1, <2>6, <2>7, <2>8, <2>9, <2>19, <2>2 DEF DiskInv, Used
  <2>21. TempInv'
    <3> SUFFICES ASSUME NEW q \in Procs  PROVE Private(q)'
      BY DEF TempInv
    <3>1. CASE q = p
      <4>1. Fresh \notin onDisk \cup denied
        BY <2>2, <2>9 DEF DiskInv
      <4>2. \A i \in Inodes \ {Fresh} : Fresh \notin file'[i].carries
        BY <2>2, <2>6 DEF DiskInv
      <4>3. \A s \in Procs :
              /\ Fresh \notin {mem'[s].before, mem'[s].open, mem'[s].base} \cup mem'[s].value
              /\ s # p => mem'[s].temp # Fresh
        BY <2>2, <2>4, <2>6, <2>12, Known DEF Kept
      <4>4. mem'[q].pc = "staged" /\ mem'[q].temp = Fresh /\ file'[Fresh].links = 1
        BY <2>4, <2>5, <2>6, <3>1
      <4>5. \A i \in Inodes : Fresh \in file'[i].carries => i = Fresh
        BY <4>2
      <4>6. onDisk' = onDisk /\ denied' = denied
        BY <2>1
      <4> HIDE DEF IInv
      <4> QED  BY <2>2, <3>1, <4>1, <4>3, <4>4, <4>5, <4>6 DEF Private
    <3>2. CASE q # p
      <4>1. Private(q) /\ mem'[q] = mem[q]
        BY <2>6, <3>2, Known
      <4>2. mem[q].temp # Absent => mem[q].temp # Fresh /\ file'[mem[q].temp] = file[mem[q].temp]
        BY <2>2, <2>6, <2>12 DEF Used
      <4>3. mem[q].pc \in Staged => \A i \in Inodes : mem[q].temp \in file'[i].carries => i = mem[q].temp
        BY <2>5, <2>6, <4>1, <4>2 DEF Private
      <4>4. mem[q].pc \in Staged => \A s \in Procs :
              /\ mem[q].temp \notin {mem'[s].before, mem'[s].open, mem'[s].base} \cup mem'[s].value
              /\ s # q => mem'[s].temp # mem[q].temp
        <5> SUFFICES ASSUME NEW s \in Procs, mem[q].pc \in Staged
                     PROVE  /\ mem[q].temp \notin {mem'[s].before, mem'[s].open, mem'[s].base} \cup mem'[s].value
                            /\ s # q => mem'[s].temp # mem[q].temp
          OBVIOUS
        <5>1. CASE s = p
          BY <2>4, <2>6, <4>1, <4>2, <5>1 DEF Private
        <5>2. CASE s # p
          BY <2>6, <4>1, <5>2 DEF Private
        <5> QED  BY <5>1, <5>2
      <4> HIDE DEF IInv
      <4> QED  BY <2>1, <4>1, <4>2, <4>3, <4>4 DEF Private, Staged
    <3> QED  BY <3>1, <3>2
  <2> QED  BY <2>11, <2>13, <2>14, <2>15, <2>16, <2>17, <2>18, <2>20, <2>21
<1> QED  BY <1>2, <1>3
-----------------------------------------------------------------------------
\* All but what the history variables remember.
Alike(m, n) ==
  /\ m.pc = n.pc /\ m.lockfd = n.lockfd /\ m.held = n.held /\ m.result = n.result
  /\ m.before = n.before /\ m.open = n.open /\ m.base = n.base /\ m.temp = n.temp
  /\ m.mtime = n.mtime /\ m.value = n.value /\ m.seen = n.seen
  /\ m.tries = n.tries /\ m.writes = n.writes

\* Only those who are reading take notice of what the document carries now.
LEMMA WitnessedProcesses ==
  ASSUME NEW ms \in [Procs -> Processes], NEW value \in SUBSET Marks, NEW n \in {0, 1}
  PROVE  /\ Witnessed(ms, value, n) \in [Procs -> Processes]
         /\ \A q \in Procs :
              /\ Alike(Witnessed(ms, value, n)[q], ms[q])
              /\ ms[q].pc \notin Looks => Witnessed(ms, value, n)[q] = ms[q]
              /\ ms[q].pc \in Looks => Witnessed(ms, value, n)[q].past = ms[q].past \cup {value}
              /\ ms[q].pc \in Looks /\ ~Writer(q) => Witnessed(ms, value, n)[q].rounds = ms[q].rounds + n
<1> DEFINE w == Witnessed(ms, value, n)
<1> SUFFICES ASSUME NEW q \in Procs
             PROVE  /\ w[q] \in Processes /\ Alike(w[q], ms[q])
                    /\ ms[q].pc \notin Looks => w[q] = ms[q]
                    /\ ms[q].pc \in Looks => w[q].past = ms[q].past \cup {value}
                    /\ ms[q].pc \in Looks /\ ~Writer(q) => w[q].rounds = ms[q].rounds + n
  BY DEF Witnessed
<1>1. CASE ms[q].pc \notin Looks
  <2>1. w[q] = ms[q]
    BY <1>1 DEF Witnessed, Reading, Looks
  <2> QED  BY <1>1, <2>1 DEF Alike
<1>2. CASE ms[q].pc \in Looks
  <2> DEFINE k == IF Writer(q) THEN 0 ELSE ms[q].rounds + n
  <2>1. w[q] = [ms[q] EXCEPT !.past = ms[q].past \cup {value}, !.rounds = k]
    BY <1>2 DEF Witnessed, Reading, Looks
  <2>2. ms[q] \in Processes /\ k \in Nat /\ ms[q].past \cup {value} \in SUBSET SUBSET Marks
    BY DEF Processes
  <2> HIDE DEF k, w
  <2>3. w[q] \in Processes /\ w[q].past = ms[q].past \cup {value} /\ w[q].rounds = k
    BY <2>1, <2>2 DEF Processes
  <2>4. Alike(w[q], ms[q])
    BY <2>1, <2>2 DEF Alike, Processes
  <2> QED  BY <1>2, <2>3, <2>4 DEF k
<1> QED  BY <1>1, <1>2

\* A temporary on its way to the rename: only its durability and its writer change.
LEMMA PrepareInv ==
  ASSUME IInv, NEW p \in Procs, NEW m \in Processes, Become(p, m),
         mem[p].pc \in Staged, m.pc \in {"synced", "renaming"}, Alike(m, [mem[p] EXCEPT !.pc = m.pc, !.seen = m.seen]),
         m.pc = "renaming" => m.seen = name /\ name = m.base,
         file' \in [Inodes -> Documents], file'[m.temp].synced,
         \A i \in Inodes : /\ file'[i].carries = file[i].carries /\ file'[i].mtime = file[i].mtime
                           /\ file'[i].links = file[i].links /\ (file[i].synced => file'[i].synced),
         UNCHANGED <<name, lock, onDisk, reports, world, faults>>
  PROVE  IInv'
<1> USE DEF IInv, reports, world
<1>1. /\ mem' \in [Procs -> Processes] /\ mem'[p] = m
      /\ \A q \in Procs \ {p} : mem'[q] = mem[q]
  BY DEF Become, TypeOK
<1>2. /\ m.temp = mem[p].temp /\ m.value = mem[p].value /\ m.base = mem[p].base
      /\ m.before = mem[p].before /\ m.open = mem[p].open /\ m.result = mem[p].result
      /\ m.held = mem[p].held /\ m.lockfd = mem[p].lockfd
  BY Known DEF Alike, Processes
<1>3. Used' = Used /\ \A i \in Inodes \cup {Absent} : Carried(i)' = Carried(i)
  BY DEF Used, Carried
<1>4. \A q \in Procs : {mem[q].before, mem[q].open, mem[q].base, mem[q].temp} \subseteq Inodes \cup {Absent}
  BY Known DEF Kept, Used
<1>5. Writer(p) /\ mem[p].result = "none" /\ m.pc \notin Looks \cup {"idle", "done", "ready", "saved"}
  BY Known DEF Kept, Staged, Looks
<1>6. TypeOK' /\ DiskInv'
  BY <1>1, <1>3 DEF TypeOK, DiskInv, Used, Refs
<1>7. ProcInv'
  <2>1. ASSUME NEW q \in Procs  PROVE Kept(q)'
    <3>1. CASE q = p
      BY <1>1, <1>2, <1>3, <1>5, <3>1, Known DEF Kept, Writer
    <3>2. CASE q # p
      BY <1>1, <1>3, <3>2, Known DEF Kept, Writer
    <3> QED  BY <3>1, <3>2
  <2> QED  BY <2>1 DEF ProcInv
<1>8. TempInv'
  <2>1. ASSUME NEW q \in Procs  PROVE Private(q)'
    <3>1. /\ mem'[q].temp = mem[q].temp /\ (mem'[q].pc \in Staged <=> mem[q].pc \in Staged)
          /\ mem'[q].pc = "renamed" <=> mem[q].pc = "renamed"
          /\ Private(q)
      BY <1>1, <1>2, Known DEF Staged
    <3>2. \A s \in Procs :
            /\ mem'[s].before = mem[s].before /\ mem'[s].open = mem[s].open /\ mem'[s].base = mem[s].base
            /\ mem'[s].value = mem[s].value /\ mem'[s].temp = mem[s].temp
      BY <1>1, <1>2
    <3>3. mem[q].pc \in Staged \cup {"renamed"} => mem[q].temp \in Inodes
      BY <1>4, <3>1 DEF Private
    <3>4. mem'[q].pc \in {"synced", "renaming", "renamed"} => file'[mem'[q].temp].synced
      BY <1>1, <3>1, <3>3 DEF Private, Staged
    <3> HIDE DEF IInv
    <3> QED  BY <3>1, <3>2, <3>3, <3>4 DEF Private
  <2> QED  BY <2>1 DEF TempInv
<1>9. SnapshotInv'
  <2>1. ASSUME NEW q \in Procs  PROVE Sighted(mem[q])'
    <3>1. CASE q = p
      BY <1>1, <1>5, <3>1 DEF Sighted, Looks
    <3>2. CASE q # p
      BY <1>1, <1>3, <1>4, <3>2, Known DEF Sighted
    <3> QED  BY <3>1, <3>2
  <2> QED  BY <2>1 DEF SnapshotInv
<1>10. WriteInv'
  <2>1. ASSUME NEW q \in Procs, ~touched  PROVE Derived(mem[q])'
    <3>1. Derived(mem[q]) /\ Private(q) /\ Carried(name)' = Carried(name)
      BY <1>3, <2>1, Known DEF TypeOK, Refs
    <3>2. CASE q = p
      BY <1>1, <1>2, <1>3, <1>4, <3>1, <3>2 DEF Derived, Private, Staged
    <3>3. CASE q # p
      BY <1>1, <1>3, <1>4, <3>1, <3>3 DEF Derived, Private
    <3> QED  BY <3>2, <3>3
  <2> QED  BY <2>1 DEF WriteInv
<1>11. SavedInv'
  BY <1>3 DEF SavedInv, TypeOK, Refs
<1>12. RoundsInv' /\ LockInv'
  <2>1. ASSUME NEW q \in Procs, ~touched  PROVE Outrun(q, mem[q])'
    BY <1>1, <1>3, <1>4, <1>5, <2>1, Known DEF Outrun, Sighted, Writer
  <2>2. ASSUME NEW q \in Procs, outside = 0  PROVE Holding(q, mem[q])'
    BY <1>1, <1>2, <1>5, <2>2, Known DEF Holding, Writer, Staged
  <2> QED  BY <1>1, <1>2, <2>1, <2>2 DEF RoundsInv, LockInv
<1>13. ReadsAreSnapshots' /\ ReadersOutlastWriters'
  BY <1>1, <1>5 DEF ReadsAreSnapshots, ReadersOutlastWriters, Writer
<1> QED  BY <1>6, <1>7, <1>8, <1>9, <1>10, <1>11, <1>12, <1>13
\* A save that was not made leaves its temporary to nobody.
LEMMA RefuseInv ==
  ASSUME IInv, NEW p \in Procs, mem[p].pc \in Staged, Refuse(p), UNCHANGED <<tree, world>>, faults' \in Nat
  PROVE  IInv'
<1>1. mem[p] \in Processes /\ mem[p].temp # Absent /\ Writer(p)
  BY Known DEF Private, Kept, Staged, Looks
<1>2. Become(p, Ended(mem[p], "refused")) /\ denied' = denied \cup {mem[p].temp} /\ UNCHANGED acked
  BY <1>1 DEF Refuse, Finish
<1> HIDE DEF IInv
<1> QED  BY <1>1, <1>2, FinishInv DEF Results

\* storage.go, write: the temporary is flushed, or it is removed.
LEMMA SyncFileInv ==
  ASSUME IInv, NEW p \in Procs, SyncFile(p)
  PROVE  IInv'
<1>1. /\ mem[p] \in Processes /\ mem[p].pc = "staged" /\ mem[p].temp \in Inodes /\ faults \in Nat
      /\ file \in [Inodes -> Documents] /\ mem[p].pc \in Staged
  BY Known DEF SyncFile, Private, Kept, Used, Staged, IInv, TypeOK
<1>2. CASE UNCHANGED faults
  <2> DEFINE m == [mem[p] EXCEPT !.pc = "synced"]
  <2>1. /\ Become(p, m) /\ file' = [file EXCEPT ![mem[p].temp].synced = TRUE]
        /\ UNCHANGED <<name, lock, onDisk, reports, world, faults>>
    BY <1>1, <1>2 DEF SyncFile, Fault, Flushed
  <2>2. m \in Processes /\ m.pc = "synced" /\ m.temp = mem[p].temp /\ m.seen = mem[p].seen
    BY <1>1 DEF Processes, Pcs, Staged
  <2>3. Alike(m, [mem[p] EXCEPT !.pc = m.pc, !.seen = m.seen])
    BY <1>1 DEF Alike, Processes
  <2> HIDE DEF m
  <2>4. /\ file' \in [Inodes -> Documents] /\ file'[m.temp].synced
        /\ \A i \in Inodes : /\ file'[i].carries = file[i].carries /\ file'[i].mtime = file[i].mtime
                             /\ file'[i].links = file[i].links /\ (file[i].synced => file'[i].synced)
    BY <1>1, <2>1, <2>2 DEF Documents
  <2> HIDE DEF IInv
  <2> QED  BY <1>1, <2>1, <2>2, <2>3, <2>4, PrepareInv
<1>3. CASE faults' # faults
  BY <1>1, <1>3, RefuseInv DEF SyncFile, Fault, tree, world
<1> QED  BY <1>2, <1>3

\* storage.go, write: the last look, after which the name is what was read, or nothing
\* is renamed.
LEMMA InspectInv ==
  ASSUME IInv, NEW p \in Procs, Inspect(p)
  PROVE  IInv'
<1>1. /\ mem[p] \in Processes /\ mem[p].pc = "synced" /\ mem[p].temp \in Inodes /\ faults \in Nat
      /\ file \in [Inodes -> Documents] /\ mem[p].pc \in Staged /\ file[mem[p].temp].synced
      /\ name \in Refs
  BY Known DEF Inspect, Private, Kept, Used, Staged, IInv, TypeOK
<1>2. CASE Checked(mem[p]) /\ Unmoved(mem[p])
  <2> DEFINE m == [mem[p] EXCEPT !.pc = "renaming", !.seen = name]
  <2>1. Become(p, m) /\ UNCHANGED <<tree, reports, world, faults>>
    BY <1>2 DEF Inspect
  <2>2. /\ m \in Processes /\ m.pc = "renaming" /\ m.temp = mem[p].temp /\ m.seen = name
        /\ m.base = mem[p].base
    BY <1>1 DEF Processes, Pcs, Staged
  <2>3. Alike(m, [mem[p] EXCEPT !.pc = m.pc, !.seen = m.seen])
    BY <1>1 DEF Alike, Processes
  <2>4. name = m.base
    BY <1>2, <2>2 DEF Unmoved
  <2> HIDE DEF m, IInv
  <2> QED  BY <1>1, <2>1, <2>2, <2>3, <2>4, PrepareInv DEF tree
<1>3. CASE ~(Checked(mem[p]) /\ Unmoved(mem[p]))
  BY <1>1, <1>3, RefuseInv DEF Inspect, tree, world
<1> QED  BY <1>2, <1>3
\* storage.go, write: the temporary takes the name.  If the document did not move since the
\* last look, what is there now is what was there and one publication more.
LEMMA RenameInv ==
  ASSUME IInv, NEW p \in Procs, Rename(p)
  PROVE  IInv'
<1> DEFINE t == mem[p].temp
<1>1. /\ mem[p] \in Processes /\ mem[p].pc = "renaming" /\ t \in Inodes /\ mem[p].pc \in Staged
      /\ Writer(p) /\ mem[p].result = "none" /\ file[t].synced /\ file[t].links = 1
      /\ t \notin onDisk \cup denied /\ t \in Used
  BY Known DEF Rename, Private, Kept, Used, Staged, Looks
<1>2. /\ name \in Refs /\ name \in onDisk /\ t # name /\ faults \in Nat
      /\ file \in [Inodes -> Documents] /\ mem \in [Procs -> Processes]
  BY <1>1 DEF IInv, TypeOK, DiskInv
<1>3. CASE faults' # faults
  BY <1>1, <1>2, <1>3, RefuseInv DEF Rename, Fault, tree, world
<1>4. CASE UNCHANGED faults
  <2> DEFINE ms == [mem EXCEPT ![p].pc = "renamed"]
  <2>1. /\ name' = t /\ onDisk' = onDisk \cup {t} /\ touched' = (touched \/ name # mem[p].seen)
        /\ file' = IF name = Absent THEN file ELSE [file EXCEPT ![name].links = 0]
        /\ mem' = Witnessed(ms, Carried(t), 1) /\ UNCHANGED <<lock, reports, faults, outside>>
    BY <1>2, <1>4 DEF Rename, Fault
  <2>2. /\ ms \in [Procs -> Processes] /\ ms[p] = [mem[p] EXCEPT !.pc = "renamed"]
        /\ ms[p] \in Processes /\ \A q \in Procs \ {p} : ms[q] = mem[q]
    BY <1>1, <1>2 DEF Processes, Pcs
  <2>3. Carried(t) \in SUBSET Marks
    BY <1>1, <1>2 DEF Carried, Documents
  <2> HIDE DEF ms
  <2>4. /\ mem' \in [Procs -> Processes] /\ mem'[p] = [mem[p] EXCEPT !.pc = "renamed"]
        /\ mem'[p].pc = "renamed"
    <3>1. [mem[p] EXCEPT !.pc = "renamed"].pc = "renamed"
      BY <1>1 DEF Processes
    <3>2. "renamed" \notin Looks
      BY DEF Looks
    <3>3. Witnessed(ms, Carried(t), 1) \in [Procs -> Processes]
      BY <2>2, <2>3, WitnessedProcesses
    <3>4. \A q \in Procs : ms[q].pc \notin Looks => Witnessed(ms, Carried(t), 1)[q] = ms[q]
      BY <2>2, <2>3, WitnessedProcesses
    <3> QED  BY <2>1, <2>2, <3>1, <3>2, <3>3, <3>4
  <2>5. ASSUME NEW q \in Procs \ {p}
        PROVE  /\ Alike(mem'[q], mem[q])
               /\ mem[q].pc \notin Looks => mem'[q] = mem[q]
               /\ mem[q].pc \in Looks => mem'[q].past = mem[q].past \cup {Carried(t)}
               /\ mem[q].pc \in Looks /\ ~Writer(q) => mem'[q].rounds = mem[q].rounds + 1
    BY <2>1, <2>2, <2>3, WitnessedProcesses
  <2>6. /\ mem'[p].temp = t /\ mem'[p].value = mem[p].value /\ mem'[p].base = mem[p].base
        /\ mem'[p].before = mem[p].before /\ mem'[p].open = mem[p].open
        /\ mem'[p].result = "none" /\ mem'[p].held = mem[p].held /\ mem'[p].lockfd = mem[p].lockfd
    BY <1>1, <2>4 DEF Processes
  <2>7. /\ file' \in [Inodes -> Documents]
        /\ \A i \in Inodes : /\ file'[i].carries = file[i].carries /\ file'[i].mtime = file[i].mtime
                             /\ file'[i].synced = file[i].synced
                             /\ i # name => file'[i].links = file[i].links
    BY <1>2, <2>1 DEF Documents, Refs
  <2>8. Used' = Used /\ \A i \in Inodes \cup {Absent} : Carried(i)' = Carried(i)
    BY <2>7 DEF Used, Carried
  <2>9. \A q \in Procs : {mem[q].before, mem[q].open, mem[q].base, mem[q].temp} \subseteq Inodes \cup {Absent}
    BY Known DEF Kept, Used
  <2>10. Absent \notin Inodes
    BY StateFileAssumption DEF Inodes, Absent
  <2>11. ~touched' => /\ ~touched /\ Carried(t) = Carried(name) \cup {t}
    <3>1. ASSUME ~touched'  PROVE ~touched /\ mem[p].base = name
      BY <1>1, <2>1, <3>1, Known DEF Derived
    <3>2. ~touched => Carried(t) = Carried(mem[p].base) \cup {t}
      BY <1>1, <2>10, Known DEF Derived, Carried
    <3> QED  BY <3>1, <3>2
  <2> HIDE DEF t
  <2> USE DEF reports
  <2>12. TypeOK'
    BY <1>1, <1>2, <2>1, <2>4, <2>7 DEF IInv, TypeOK, Refs
  <2>13. DiskInv'
    BY <1>1, <1>2, <2>1, <2>7, <2>8 DEF IInv, DiskInv, Used
  <2>14. ASSUME NEW q \in Procs  PROVE Kept(q)'
    <3>1. CASE q = p
      <4>1. mem[p].temp = t /\ Kept(p) /\ Writer(p)
        BY <1>1, Known DEF t
      <4>2. mem'[p].pc \notin {"idle", "done", "saved"} /\ mem'[p].result = "none"
        BY <2>4, <2>6
      <4> QED  BY <2>6, <2>8, <3>1, <4>1, <4>2 DEF Kept, Writer
    <3>2. CASE q # p
      <4>1. Alike(mem'[q], mem[q]) /\ (mem[q].pc \notin Looks => mem'[q] = mem[q]) /\ Kept(q)
        BY <2>5, <3>2, Known
      <4> QED  BY <2>8, <4>1 DEF Kept, Alike, Looks, Writer
    <3> QED  BY <3>1, <3>2
  <2>15. ASSUME NEW q \in Procs  PROVE Private(q)'
    <3>1. CASE q = p
      BY <1>1, <2>4, <2>6, <2>7, <2>10, <3>1 DEF Private, Staged
    <3>2. CASE q # p
      <4>1. Alike(mem'[q], mem[q]) /\ Private(q) /\ mem[q].temp \in Inodes \cup {Absent}
        BY <2>5, <2>9, <3>2, Known
      <4>2. mem[q].pc \in Staged => mem[q].temp # t /\ mem[q].temp # name
        BY <1>2, <3>2, <4>1 DEF Private, t
      <4>3. \A s \in Procs :
              /\ mem'[s].before = mem[s].before /\ mem'[s].open = mem[s].open /\ mem'[s].base = mem[s].base
              /\ mem'[s].value = mem[s].value /\ mem'[s].temp = mem[s].temp
        BY <2>5, <2>6 DEF Alike, t
      <4>4. \A i \in Inodes : file'[i].carries = file[i].carries
        BY <2>7
      <4>5. mem[q].pc \in Staged => file'[mem[q].temp].links = 1
        BY <2>7, <2>9, <4>1, <4>2, <2>10 DEF Private
      <4>6. mem[q].pc \in {"synced", "renaming", "renamed"} => file'[mem[q].temp].synced
        BY <2>7, <4>1, <2>10 DEF Private, Staged
      <4> QED  BY <2>1, <4>1, <4>2, <4>3, <4>4, <4>5, <4>6 DEF Private, Alike
    <3> QED  BY <3>1, <3>2
  <2>16. ASSUME NEW q \in Procs  PROVE Sighted(mem[q])'
    <3>1. CASE q = p
      BY <2>4, <3>1 DEF Sighted
    <3>2. CASE q # p
      <4>1. /\ Alike(mem'[q], mem[q]) /\ Sighted(mem[q])
            /\ {mem[q].before, mem[q].open} \subseteq Inodes \cup {Absent}
            /\ mem[q].pc \in Looks => mem'[q].past = mem[q].past \cup {Carried(t)}
        BY <2>5, <2>9, <3>2, Known
      <4> QED  BY <2>7, <2>8, <4>1 DEF Sighted, Alike, Looks
    <3> QED  BY <3>1, <3>2
  <2>17. ReadsAreSnapshots' /\ ReadersOutlastWriters'
    <3>1. /\ ReadsAreSnapshots /\ ReadersOutlastWriters
          /\ \A q \in Procs : mem[q].pc # "done" => mem[q].result = "none"
      BY DEF IInv, ProcInv, Kept
    <3>2. \A q \in Procs \ {p} : \/ mem'[q] = mem[q]
                                 \/ mem'[q].pc # "ready" /\ mem'[q].result = "none"
      BY <2>5, <3>1 DEF Alike, Looks
    <3>3. touched => touched'
      BY <2>1
    <3> QED  BY <2>4, <2>6, <3>1, <3>2, <3>3 DEF ReadsAreSnapshots, ReadersOutlastWriters, Writer
  <2>18. WriteInv' /\ SavedInv'
    <3> SUFFICES ASSUME ~touched'
                 PROVE  /\ \A q \in Procs : Derived(mem[q])'
                        /\ \A i \in onDisk' : (acked \subseteq Carried(i))' /\ (denied \cap Carried(i))' = {}
      BY DEF WriteInv, SavedInv
    <3>1. ~touched /\ Carried(t) = Carried(name) \cup {t} /\ Carried(name)' = Carried(t)
      <4>1. Carried(name)' = file'[t].carries /\ Carried(t) = file[t].carries
        BY <1>1, <2>1, <2>10 DEF Carried
      <4> QED  BY <1>1, <2>7, <2>11, <4>1
    <3>2. ASSUME NEW q \in Procs  PROVE Derived(mem[q])'
      <4>1. Derived(mem[q]) /\ Private(q)
        BY <3>1, Known
      <4>2. CASE q = p
        <5>1. t = mem[p].temp /\ file'[t].carries = file[t].carries
          BY <1>1, <2>7 DEF t
        <5>2. file[t].carries = mem[p].value \cup {t} /\ Carried(t) = file[t].carries
          BY <1>1, <2>10, <4>1, <4>2, <5>1 DEF Derived, Carried
        <5> QED  BY <2>4, <2>6, <3>1, <4>2, <5>1, <5>2 DEF Derived, Staged
      <4>3. CASE q # p
        BY <2>5, <2>7, <2>8, <2>9, <3>1, <4>1, <4>3 DEF Derived, Alike, Private
      <4> QED  BY <4>2, <4>3
    <3>3. ASSUME NEW i \in onDisk'  PROVE (acked \subseteq Carried(i))' /\ (denied \cap Carried(i))' = {}
      <4>1. \A j \in onDisk : /\ acked \subseteq Carried(j) /\ denied \cap Carried(j) = {}
                              /\ Carried(j)' = Carried(j)
        BY <2>8, <3>1 DEF IInv, SavedInv, TypeOK, Refs
      <4>2. CASE i = t
        <5>1. Carried(i)' = Carried(name) \cup {t}
          BY <1>1, <2>7, <3>1, <4>2 DEF Carried
        <5> QED  BY <1>1, <1>2, <2>1, <4>1, <5>1 DEF t
      <4>3. CASE i \in onDisk
        BY <2>1, <4>1, <4>3
      <4> QED  BY <2>1, <4>2, <4>3
    <3> QED  BY <3>2, <3>3
  <2>19. RoundsInv'
    <3> SUFFICES ASSUME NEW q \in Procs, ~touched', ~Writer(q)  PROVE Outrun(q, mem[q])'
      BY DEF RoundsInv, Outrun, Writer
    <3>1. /\ q # p /\ Outrun(q, mem[q]) /\ Sighted(mem[q]) /\ mem[q] \in Processes
          /\ t \notin {mem[q].before, mem[q].open}
      BY <1>1, <2>11, Known DEF Private, t
    <3>2. /\ Alike(mem'[q], mem[q])
          /\ mem[q].pc \in Looks => mem'[q].rounds = mem[q].rounds + 1
      BY <2>5, <3>1
    <3>3. /\ mem[q].pc \in Looks => mem[q].tries < Attempts /\ mem[q].tries <= mem[q].rounds
          /\ mem[q].pc \in Looks \ {"look"} => mem[q].before # Absent
          /\ mem[q].pc \in {"reading", "half", "read"} => /\ mem[q].open \in Inodes
                                                          /\ file[mem[q].open].mtime = mem[q].mtime
      BY <2>9, <3>1 DEF Outrun, Sighted
    <3>4. mem[q].tries \in Nat /\ mem[q].rounds \in Nat /\ Attempts \in Nat
      BY <3>1, StateFileAssumption DEF Processes
    <3>5. mem[q].pc \in Looks => mem'[q].tries < mem'[q].rounds /\ mem'[q].tries < Attempts
      BY <3>2, <3>3, <3>4 DEF Alike
    <3>6. mem[q].pc \in Looks => mem'[q].tries <= mem'[q].rounds
      BY <3>2, <3>3, <3>4 DEF Alike
    <3>7. name' # Absent /\ name' # mem'[q].before /\ mem'[q].pc = mem[q].pc /\ mem'[q].before = mem[q].before
      BY <1>1, <2>1, <2>10, <3>1, <3>2 DEF Alike
    <3>8. mem[q].pc \in {"reading", "half", "read"} => file'[mem'[q].open].mtime = mem'[q].mtime
      BY <2>7, <3>2, <3>3 DEF Alike
    <3> QED  BY <3>3, <3>5, <3>6, <3>7, <3>8 DEF Outrun
  <2>20. LockInv'
    <3> SUFFICES ASSUME outside = 0
                 PROVE  /\ ~touched' /\ \A q \in Procs : Holding(q, mem[q])'
                        /\ \A q, s \in Procs : mem'[q].held /\ mem'[s].held => q = s
      BY <2>1 DEF LockInv
    <3>1. /\ ~touched /\ \A q, s \in Procs : mem[q].held /\ mem[s].held => q = s
          /\ \A q \in Procs : Holding(q, mem[q])
      BY DEF IInv, LockInv
    <3>2. mem[p].held /\ mem[p].seen = name
      BY <1>1, <3>1 DEF Holding
    <3>3. \A q \in Procs : mem'[q].held = mem[q].held
      BY <2>5, <2>6 DEF Alike
    <3>4. ASSUME NEW q \in Procs  PROVE Holding(q, mem[q])'
      <4>1. CASE q = p
        <5>1. Holding(p, mem[p])
          BY <3>1
        <5>2. mem'[p].pc # "renaming" /\ mem'[p].pc # "locking"
          BY <2>4
        <5> QED  BY <2>1, <2>6, <3>2, <4>1, <5>1, <5>2 DEF Holding, Writer
      <4>2. CASE q # p
        <5>1. Holding(q, mem[q]) /\ Alike(mem'[q], mem[q]) /\ ~mem[q].held
          BY <2>5, <3>1, <3>2, <4>2
        <5>2. mem[q].pc # "renaming"
          BY <5>1, Known DEF Holding, Kept, Looks
        <5> QED  BY <2>1, <5>1, <5>2 DEF Holding, Alike, Writer
      <4> QED  BY <4>1, <4>2
    <3> QED  BY <2>1, <3>1, <3>2, <3>3, <3>4
  <2> QED  BY <2>12, <2>13, <2>14, <2>15, <2>16, <2>17, <2>18, <2>19, <2>20 DEF IInv, ProcInv, TempInv, SnapshotInv
<1> QED  BY <1>3, <1>4
\* storage.go, write, and its callers: the directory is flushed, so what is under the name is
\* all a power failure can leave, and the save is reported.
LEMMA SyncDirectoryInv ==
  ASSUME IInv, NEW p \in Procs, SyncDirectory(p)
  PROVE  IInv'
<1> DEFINE t == mem[p].temp
<1>1. /\ mem[p] \in Processes /\ mem[p].pc = "renamed" /\ t \in Inodes /\ t \in Used
      /\ Writer(p) /\ mem[p].result = "none" /\ faults \in Nat /\ mem \in [Procs -> Processes]
      /\ file \in [Inodes -> Documents] /\ name \in onDisk
  BY Known DEF SyncDirectory, Private, Kept, Used, Looks, IInv, TypeOK, DiskInv
<1>2. CASE faults' # faults
  <2>1. Finish(p, "doubt") /\ faults' \in Nat /\ UNCHANGED <<tree, world, acked, denied>>
    BY <1>1, <1>2 DEF SyncDirectory, Fault, tree
  <2> QED  BY <1>1, <2>1, FinishInv DEF Finish, Results
<1>3. CASE UNCHANGED faults
  <2> DEFINE n == [mem[p] EXCEPT !.value = mem[p].value \cup {t}, !.base = t, !.temp = Absent,
                                 !.ready = TRUE, !.writes = mem[p].writes + 1]
             m == IF Kind[p] = "loop" THEN [n EXCEPT !.pc = "saved"] ELSE Ended(n, "ok")
  <2>1. /\ onDisk' = {name} /\ acked' = acked \cup {t} /\ Become(p, m)
        /\ UNCHANGED <<name, lock, file, denied, world, faults>>
    BY <1>1, <1>3 DEF SyncDirectory, Fault, DirectorySynced
  <2>2. /\ n \in Processes /\ n.value = mem[p].value \cup {t} /\ n.base = t /\ n.temp = Absent
        /\ n.lockfd = mem[p].lockfd /\ n.held = mem[p].held /\ n.before = mem[p].before
        /\ n.open = mem[p].open /\ n.result = "none" /\ n.writes = mem[p].writes + 1
    <3>1. /\ mem[p].value \cup {t} \in SUBSET Marks /\ t \in Refs /\ Absent \in Refs
          /\ mem[p].writes + 1 \in Nat
      BY <1>1 DEF Processes, Refs, Marks
    <3> HIDE DEF t
    <3> QED  BY <1>1, <3>1 DEF Processes
  <2> HIDE DEF n, t
  <2>3. /\ m \in Processes /\ m.pc \in {"saved", "done"} /\ m.temp = Absent
        /\ {m.before, m.open, m.base} \subseteq {mem[p].before, mem[p].open, t, Absent}
        /\ m.value \subseteq mem[p].value \cup {t} /\ m.lockfd \in {mem[p].lockfd, Absent}
        /\ m.held => mem[p].held /\ m.lockfd = mem[p].lockfd
        /\ m.pc = "saved" => /\ m.value = mem[p].value \cup {t} /\ m.base = t /\ m.result = "none"
                             /\ m.writes # 0 /\ m.held = mem[p].held /\ m.lockfd = mem[p].lockfd
    <3>1. CASE Kind[p] = "loop"
      <4>1. mem[p].writes \in Nat /\ mem[p].writes + 1 # 0
        BY <1>1 DEF Processes
      <4> QED  BY <2>2, <3>1, <4>1 DEF Processes, Pcs
    <3>2. CASE Kind[p] # "loop"
      <4>1. m = Ended(n, "ok") /\ n \in Processes /\ "ok" \in Results
        BY <2>2, <3>2 DEF Results
      <4> HIDE DEF m
      <4> QED  BY <2>2, <4>1, EndedProcess
    <3> QED  BY <3>1, <3>2
  <2> HIDE DEF m
  <2>4. /\ mem' \in [Procs -> Processes] /\ mem'[p] = m
        /\ \A q \in Procs \ {p} : mem'[q] = mem[q]
    BY <1>1, <2>1, <2>3 DEF Become
  <2>5. Used' = Used /\ \A i \in Inodes \cup {Absent} : Carried(i)' = Carried(i)
    BY <2>1 DEF Used, Carried
  <2>6. {mem[p].before, mem[p].open, t} \subseteq Used \cup {Absent} /\ mem[p].value \cap Inodes \subseteq Used
    BY <1>1, Known DEF Kept
  <2>7. t # Absent
    BY <1>1, StateFileAssumption DEF Inodes, Absent
  <2> USE DEF world
  <2>8. TypeOK' /\ DiskInv'
    BY <1>1, <2>1, <2>4, <2>5 DEF IInv, TypeOK, DiskInv, Marks, Used
  <2>9. ASSUME NEW q \in Procs  PROVE Kept(q)'
    <3>1. CASE q = p
      BY <1>1, <2>3, <2>4, <2>5, <2>6, <3>1 DEF Kept, Writer
    <3>2. CASE q # p
      BY <2>4, <2>5, <3>2, Known DEF Kept, Writer
    <3> QED  BY <3>1, <3>2
  <2>10. ASSUME NEW q \in Procs  PROVE Private(q)'
    <3>1. CASE q = p
      BY <2>3, <2>4, <3>1 DEF Private, Staged
    <3>2. CASE q # p
      <4>1. mem'[q] = mem[q] /\ Private(q) /\ onDisk' \subseteq onDisk
        BY <1>1, <2>1, <2>4, <3>2, Known
      <4>2. mem[q].pc \in Staged =>
              /\ mem[q].temp # t /\ mem[q].temp # Absent
              /\ mem[q].temp \notin {mem[p].before, mem[p].open} \cup mem[p].value
        BY <3>2, <4>1 DEF Private, t
      <4>3. mem[q].pc \in Staged => \A s \in Procs :
              /\ mem[q].temp \notin {mem'[s].before, mem'[s].open, mem'[s].base} \cup mem'[s].value
              /\ s # q => mem'[s].temp # mem[q].temp
        <5> SUFFICES ASSUME NEW s \in Procs, mem[q].pc \in Staged
                     PROVE  /\ mem[q].temp \notin {mem'[s].before, mem'[s].open, mem'[s].base} \cup mem'[s].value
                            /\ s # q => mem'[s].temp # mem[q].temp
          OBVIOUS
        <5>1. CASE s = p
          BY <2>3, <2>4, <4>2, <5>1
        <5>2. CASE s # p
          BY <2>4, <4>1, <5>2 DEF Private
        <5> QED  BY <5>1, <5>2
      <4> QED  BY <2>1, <4>1, <4>3 DEF Private
    <3> QED  BY <3>1, <3>2
  <2>11. ASSUME NEW q \in Procs  PROVE Sighted(mem[q])'
    <3>1. CASE q = p
      BY <2>3, <2>4, <3>1 DEF Sighted
    <3>2. CASE q # p
      BY <2>1, <2>4, <3>2, Known DEF Sighted, Carried
    <3> QED  BY <3>1, <3>2
  <2>12. ReadsAreSnapshots' /\ ReadersOutlastWriters'
    BY <1>1, <2>1, <2>3, <2>4 DEF IInv, ReadsAreSnapshots, ReadersOutlastWriters, Writer
  <2>13. WriteInv'
    <3> SUFFICES ASSUME NEW q \in Procs, ~touched  PROVE Derived(mem[q])'
      BY <2>1 DEF WriteInv
    <3>1. CASE q = p
      <4>1. Carried(t) = mem[p].value \cup {t}
        BY <1>1, <2>7, Known DEF Derived, Carried, t
      <4>2. m.pc \in {"ready", "saved"} \cup Staged => m.value = IF m.base = Absent THEN {} ELSE file[m.base].carries
        BY <2>3, <2>7, <4>1 DEF Staged, Carried
      <4> QED  BY <2>1, <2>3, <2>4, <3>1, <4>2 DEF Derived, Staged, Carried
    <3>2. CASE q # p
      BY <2>1, <2>4, <3>2, Known DEF Derived, Carried
    <3> QED  BY <3>1, <3>2
  <2>14. SavedInv'
    <3> SUFFICES ASSUME ~touched
                 PROVE  acked \cup {t} \subseteq Carried(name)' /\ denied \cap Carried(name)' = {}
      BY <2>1 DEF SavedInv, Carried
    <3>1. t \in Carried(name) /\ acked \subseteq Carried(name) /\ denied \cap Carried(name) = {}
      BY <1>1, Known DEF IInv, SavedInv, Derived, t
    <3>2. Carried(name)' = Carried(name)
      BY <2>1 DEF Carried
    <3> QED  BY <3>1, <3>2
  <2>15. RoundsInv'
    <3>1. ASSUME NEW q \in Procs, ~touched  PROVE Outrun(q, mem[q])'
      <4>1. CASE q = p
        BY <1>1, <4>1 DEF Outrun, Writer
      <4>2. CASE q # p
        BY <2>1, <2>4, <3>1, <4>2, Known DEF Outrun, Writer
      <4> QED  BY <4>1, <4>2
    <3> QED  BY <2>1, <3>1 DEF RoundsInv
  <2>16. LockInv'
    <3>1. ASSUME NEW q \in Procs, outside = 0  PROVE Holding(q, mem[q])'
      <4>1. CASE q = p
        <5>1. mem[p].held /\ mem[p].lockfd \in {Absent, lock} /\ mem[p].lockfd # Absent
          BY <1>1, <3>1, Known DEF Holding
        <5> QED  BY <2>1, <2>3, <2>4, <4>1, <5>1 DEF Holding, Writer
      <4>2. CASE q # p
        BY <2>1, <2>4, <3>1, <4>2, Known DEF Holding, Writer
      <4> QED  BY <4>1, <4>2
    <3> QED  BY <2>1, <2>3, <2>4, <3>1 DEF IInv, LockInv
  <2> QED  BY <2>8, <2>9, <2>10, <2>11, <2>12, <2>13, <2>14, <2>15, <2>16 DEF IInv, ProcInv, TempInv, SnapshotInv
<1> QED  BY <1>2, <1>3

\* A killed process leaves its descriptors closed and its temporary to nobody.
LEMMA DieInv ==
  ASSUME IInv, NEW p \in Procs, Die(p)
  PROVE  IInv'
<1>1. /\ mem[p] \in Processes /\ Finish(p, "dead") /\ UNCHANGED <<tree, world, acked, denied>>
      /\ faults' \in Nat
  BY Known DEF Die, Fault, IInv, TypeOK, reports
<1> QED  BY <1>1, FinishInv DEF Finish, Results
\* People act on the document between two system calls.  What they leave under the name is
\* a file of its own or the old one newly dated, so what was read before shows it; about
\* saves and attempts nothing is promised any more.
LEMMA InterventionInv ==
  ASSUME IInv, touched' = TRUE, outside' \in Nat \ {0}, mem' = Witnessed(mem, {}, 0),
         UNCHANGED <<lock, reports, faults>>,
         name' \in onDisk', onDisk' \subseteq Refs, file' \in [Inodes -> Documents],
         name' # Absent => file'[name'].links = 1, onDisk' \cap Used \subseteq onDisk,
         Used \subseteq Used',
         \A i \in onDisk' \ {Absent} : i \in Used' /\ file'[i].synced,
         \A i \in Inodes : file'[i].carries \in {file[i].carries, {}},
         \A i \in Used : /\ file'[i].mtime >= file[i].mtime /\ file'[i].synced = file[i].synced
                         /\ file'[i].mtime = file[i].mtime => file'[i].carries = file[i].carries
                         /\ i \notin onDisk => file'[i].links = file[i].links
  PROVE  IInv'
<1>1. /\ file \in [Inodes -> Documents] /\ mem \in [Procs -> Processes]
      /\ acked \subseteq Marks /\ denied \subseteq Marks /\ lock \in Nat /\ faults \in Nat
  BY DEF IInv, TypeOK
<1>2. /\ mem' \in [Procs -> Processes]
      /\ \A q \in Procs :
           /\ Alike(mem'[q], mem[q]) /\ (mem[q].pc \notin Looks => mem'[q] = mem[q])
           /\ mem[q].pc \in Looks => mem'[q].past = mem[q].past \cup {{}}
  <2> DEFINE nothing == {}
  <2>1. nothing \in SUBSET Marks /\ 0 \in {0, 1} /\ mem' = Witnessed(mem, nothing, 0)
    OBVIOUS
  <2> HIDE DEF nothing
  <2>2. mem' \in [Procs -> Processes]
    BY <1>1, <2>1, WitnessedProcesses
  <2>3. ASSUME NEW q \in Procs
        PROVE  /\ Alike(mem'[q], mem[q])
               /\ mem[q].pc \notin Looks => mem'[q] = mem[q]
               /\ mem[q].pc \in Looks => mem'[q].past = mem[q].past \cup {nothing}
    BY <1>1, <2>1, WitnessedProcesses
  <2> QED  BY <2>2, <2>3 DEF nothing
<1>3. UNCHANGED <<lock, acked, denied, faults>> /\ Absent \notin Inodes
  BY StateFileAssumption DEF reports, Inodes, Absent
<1>4. TypeOK'
  BY <1>1, <1>2, <1>3 DEF TypeOK, Refs
<1>5. DiskInv'
  <2>1. \A i \in Inodes : file'[i].carries \cap Inodes \subseteq Used'
    BY DEF IInv, DiskInv
  <2>2. denied' \cap Inodes \subseteq Used'
    BY <1>3 DEF IInv, DiskInv
  <2> QED  BY <2>1, <2>2 DEF DiskInv
<1>6. ASSUME NEW q \in Procs  PROVE Kept(q)'
  BY <1>2, Known DEF Kept, Alike, Looks, Writer
<1>7. ASSUME NEW q \in Procs  PROVE Private(q)'
  <2>1. Private(q) /\ Kept(q) /\ Alike(mem'[q], mem[q])
    BY <1>2, Known
  <2>2. mem[q].pc \in Staged \cup {"renamed"} => mem[q].temp \in Used
    BY <2>1 DEF Private, Kept
  <2>3. mem[q].pc \in {"synced", "renaming", "renamed"} => file'[mem[q].temp].synced
    BY <2>1, <2>2 DEF Private, Staged
  <2>4. mem[q].pc \in Staged => file'[mem[q].temp].links = 1 /\ mem[q].temp \notin onDisk' \cup denied'
    BY <1>3, <2>1, <2>2 DEF Private
  <2>5. mem[q].pc \in Staged => \A i \in Inodes : mem[q].temp \in file'[i].carries => i = mem[q].temp
    BY <2>1 DEF Private
  <2>6. \A s \in Procs :
          /\ mem'[s].before = mem[s].before /\ mem'[s].open = mem[s].open /\ mem'[s].base = mem[s].base
          /\ mem'[s].value = mem[s].value /\ mem'[s].temp = mem[s].temp
    BY <1>2 DEF Alike
  <2>7. mem'[q].pc = mem[q].pc /\ mem'[q].temp = mem[q].temp
    BY <2>1 DEF Alike
  <2> QED  BY <2>1, <2>3, <2>4, <2>5, <2>6, <2>7 DEF Private
<1>8. ASSUME NEW q \in Procs  PROVE Sighted(mem[q])'
  <2>1. /\ Sighted(mem[q]) /\ Kept(q) /\ Alike(mem'[q], mem[q]) /\ mem[q] \in Processes
        /\ mem[q].pc \in Looks => mem'[q].past = mem[q].past \cup {{}}
    BY <1>2, Known
  <2>2. \A i \in Inodes : Carried(i)' \in {Carried(i), {}}
    BY <1>3 DEF Carried
  <2>3. mem[q].before \in Inodes \cup {Absent}
    BY <2>1 DEF Kept, Used
  <2>4. mem[q].pc \in {"looked", "opened", "reading", "half", "read"} =>
          mem[q].before # Absent /\ Carried(mem[q].before)' \in mem'[q].past
    <3> SUFFICES ASSUME mem[q].pc \in {"looked", "opened", "reading", "half", "read"}
                 PROVE  mem[q].before # Absent /\ Carried(mem[q].before)' \in mem'[q].past
      OBVIOUS
    <3>1. mem[q].before \in Inodes /\ Carried(mem[q].before) \in mem[q].past
      BY <2>1, <2>3 DEF Sighted
    <3>2. mem'[q].before = mem[q].before /\ mem'[q].past = mem[q].past \cup {{}}
      BY <2>1 DEF Alike, Looks
    <3>3. file'[mem[q].before].carries \in {file[mem[q].before].carries, {}} /\ mem[q].before # Absent
      BY <1>3, <3>1
    <3> QED  BY <3>1, <3>2, <3>3 DEF Carried
  <2>5. mem[q].pc \in {"reading", "half", "read"} =>
          /\ mem[q].open = mem[q].before /\ mem[q].open \in Used
          /\ mem[q].mtime <= file[mem[q].open].mtime
          /\ mem[q].mtime <= file'[mem[q].open].mtime
    <3> SUFFICES ASSUME mem[q].pc \in {"reading", "half", "read"}
                 PROVE  /\ mem[q].open = mem[q].before /\ mem[q].open \in Used
                        /\ mem[q].mtime <= file[mem[q].open].mtime
                        /\ mem[q].mtime <= file'[mem[q].open].mtime
      OBVIOUS
    <3>1. /\ mem[q].open = mem[q].before /\ mem[q].open \in Used
          /\ mem[q].mtime <= file[mem[q].open].mtime
      BY <2>1 DEF Sighted, Kept
    <3>2. /\ file'[mem[q].open].mtime >= file[mem[q].open].mtime
          /\ mem[q].mtime \in Nat /\ file[mem[q].open].mtime \in Nat /\ file'[mem[q].open].mtime \in Nat
      BY <1>1, <2>1, <3>1 DEF Used, Documents, Processes
    <3> QED  BY <3>1, <3>2
  <2>6. mem[q].pc \in {"half", "read"} /\ file'[mem[q].open].mtime = mem[q].mtime =>
          mem[q].value = IF mem[q].open = Absent THEN {} ELSE file'[mem[q].open].carries
    <3> SUFFICES ASSUME mem[q].pc \in {"half", "read"}, file'[mem[q].open].mtime = mem[q].mtime
                 PROVE  mem[q].value = IF mem[q].open = Absent THEN {} ELSE file'[mem[q].open].carries
      OBVIOUS
    <3>1. /\ mem[q].open \in Used /\ mem[q].mtime <= file[mem[q].open].mtime
          /\ file'[mem[q].open].mtime >= file[mem[q].open].mtime
          /\ mem[q].mtime \in Nat /\ file[mem[q].open].mtime \in Nat
      BY <1>1, <2>1, <2>5 DEF Used, Documents, Processes
    <3>2. file[mem[q].open].mtime = mem[q].mtime
      BY <3>1
    <3>3. mem[q].value = Carried(mem[q].open) /\ file'[mem[q].open].carries = file[mem[q].open].carries
      BY <2>1, <3>1, <3>2 DEF Sighted
    <3> QED  BY <3>3 DEF Carried
  <2>7. mem[q].pc \in {"opened", "reading", "half", "read"} => mem[q].open # Absent
    BY <2>1 DEF Sighted
  <2>8. /\ mem'[q].pc = mem[q].pc /\ mem'[q].before = mem[q].before /\ mem'[q].open = mem[q].open
        /\ mem'[q].mtime = mem[q].mtime /\ mem'[q].value = mem[q].value
    BY <2>1 DEF Alike
  <2> QED  BY <2>4, <2>5, <2>6, <2>7, <2>8 DEF Sighted, Carried
<1>9. ReadsAreSnapshots'
  <2>1. \A q \in Procs : \/ mem'[q] = mem[q]
                         \/ mem'[q].pc # "ready" /\ mem'[q].result = "none"
    BY <1>2, Known DEF Alike, Looks, Kept
  <2> QED  BY <2>1 DEF IInv, ReadsAreSnapshots, Writer
<1>10. WriteInv' /\ SavedInv' /\ ReadersOutlastWriters' /\ RoundsInv' /\ LockInv'
  BY DEF WriteInv, SavedInv, ReadersOutlastWriters, RoundsInv, LockInv
<1> QED  BY <1>4, <1>5, <1>6, <1>7, <1>8, <1>9, <1>10 DEF IInv, ProcInv, TempInv, SnapshotInv
\* Somebody puts a copy back: a file nobody has seen.
LEMMA RestoreInv ==
  ASSUME IInv, Restore
  PROVE  IInv'
<1> DEFINE new == [carries |-> {}, mtime |-> 1, links |-> 1, synced |-> TRUE]
           old == [file[name] EXCEPT !.links = 0]
<1>1. /\ touched' = TRUE /\ outside' = outside + 1 /\ mem' = Witnessed(mem, {}, 0)
      /\ UNCHANGED <<lock, reports, faults>> /\ Free # {} /\ name' = Fresh /\ onDisk' = onDisk \cup {Fresh}
      /\ file' = [i \in Inodes |-> IF i = Fresh THEN new ELSE IF i = name THEN old ELSE file[i]]
  BY DEF Restore, Touch, Act
<1>2. Fresh \in Inodes /\ Fresh \notin Used
  BY <1>1, FreshIsFree
<1>3. /\ outside \in Nat /\ onDisk \subseteq Refs /\ file \in [Inodes -> Documents] /\ name \in onDisk
      /\ \A i \in onDisk \ {Absent} : i \in Used /\ file[i].synced
  BY DEF IInv, TypeOK, DiskInv
<1>4. Absent \notin Inodes
  BY StateFileAssumption DEF Inodes, Absent
<1>5. new \in Documents /\ new.carries = {} /\ new.mtime = 1 /\ new.links = 1 /\ new.synced
  BY DEF Documents
<1>6. name \in Inodes =>
        /\ old \in Documents /\ old.carries = file[name].carries /\ old.mtime = file[name].mtime
        /\ old.synced = file[name].synced
  BY <1>3 DEF Documents
<1> HIDE DEF new, old
<1>7. /\ file'[Fresh] = new
      /\ \A i \in Inodes \ {Fresh} : file'[i] = IF i = name THEN old ELSE file[i]
  BY <1>1, <1>2
<1>8. \A i \in Inodes : file'[i] \in Documents
  BY <1>3, <1>5, <1>6, <1>7
<1>9. file' \in [Inodes -> Documents]
  BY <1>1, <1>8
<1>10. /\ \A i \in Inodes : file'[i].carries \in {file[i].carries, {}}
       /\ \A i \in Used : /\ file'[i].mtime = file[i].mtime /\ file'[i].synced = file[i].synced
                          /\ file'[i].carries = file[i].carries
                          /\ i \notin onDisk => file'[i].links = file[i].links
  BY <1>2, <1>3, <1>5, <1>6, <1>7 DEF Used
<1>11. Used \subseteq Used' /\ Fresh \in Used'
  BY <1>2, <1>5, <1>7, <1>10 DEF Used
<1>12. \A i \in Used : file'[i].mtime >= file[i].mtime
  BY <1>3, <1>10 DEF Used, Documents
<1>13. /\ name' \in onDisk' /\ onDisk' \subseteq Refs /\ file'[name'].links = 1 /\ onDisk' \cap Used \subseteq onDisk
       /\ outside' \in Nat \ {0}
  BY <1>1, <1>2, <1>3, <1>5, <1>7 DEF Refs
<1>14. \A i \in onDisk' \ {Absent} : i \in Used' /\ file'[i].synced
  BY <1>1, <1>3, <1>5, <1>7, <1>10, <1>11
<1> HIDE DEF IInv
<1> QED  BY <1>1, <1>9, <1>10, <1>11, <1>12, <1>13, <1>14, InterventionInv

\* Somebody edits the document in place, which dates it anew.
LEMMA EditInPlaceInv ==
  ASSUME IInv, EditInPlace
  PROVE  IInv'
<1>1. /\ touched' = TRUE /\ outside' = outside + 1 /\ mem' = Witnessed(mem, {}, 0)
      /\ UNCHANGED <<lock, reports, faults, name, onDisk>> /\ name # Absent
      /\ file' = [file EXCEPT ![name].carries = {}, ![name].mtime = file[name].mtime + 1]
  BY DEF EditInPlace, Touch, Act
<1>2. /\ outside \in Nat /\ onDisk \subseteq Refs /\ file \in [Inodes -> Documents] /\ name \in onDisk
      /\ \A i \in onDisk \ {Absent} : i \in Used /\ file[i].synced
      /\ name \in Inodes /\ file[name].links = 1
  BY <1>1 DEF IInv, TypeOK, DiskInv, Refs
<1>3. /\ \A i \in Inodes \ {name} : file'[i] = file[i]
      /\ file'[name] = [file[name] EXCEPT !.carries = {}, !.mtime = file[name].mtime + 1]
  BY <1>1, <1>2 DEF Documents
<1>4. /\ file'[name] \in Documents /\ file'[name].carries = {} /\ file'[name].mtime = file[name].mtime + 1
      /\ file'[name].links = 1 /\ file'[name].synced = file[name].synced /\ file[name].mtime \in Nat
  <2> DEFINE d == file[name]
             k == d.mtime + 1
  <2>1. d \in Documents /\ k \in Nat /\ d.links = 1 /\ file'[name] = [d EXCEPT !.carries = {}, !.mtime = k]
    BY <1>2, <1>3 DEF Documents
  <2>2. d.mtime \in Nat
    BY <1>2 DEF Documents
  <2> HIDE DEF d, k
  <2>3. /\ file'[name] \in Documents /\ file'[name].carries = {} /\ file'[name].mtime = k
        /\ file'[name].links = 1 /\ file'[name].synced = d.synced
    BY <2>1 DEF Documents
  <2> QED  BY <2>2, <2>3 DEF d, k
<1>5. file' \in [Inodes -> Documents]
  <2>1. \A i \in Inodes : file'[i] \in Documents
    BY <1>2, <1>3, <1>4
  <2> QED  BY <1>1, <1>2, <2>1
<1>6. \A i \in Used : /\ file'[i].mtime >= file[i].mtime /\ file'[i].synced = file[i].synced
                      /\ file'[i].mtime = file[i].mtime => file'[i].carries = file[i].carries
                      /\ i \notin onDisk => file'[i].links = file[i].links
  <2> SUFFICES ASSUME NEW i \in Used
               PROVE  /\ file'[i].mtime >= file[i].mtime /\ file'[i].synced = file[i].synced
                      /\ file'[i].mtime = file[i].mtime => file'[i].carries = file[i].carries
                      /\ i \notin onDisk => file'[i].links = file[i].links
    OBVIOUS
  <2>1. CASE i = name
    BY <1>2, <1>4, <2>1
  <2>2. CASE i # name
    <3>1. file'[i] = file[i] /\ file[i].mtime \in Nat
      BY <1>2, <1>3, <2>2 DEF Used, Documents
    <3> QED  BY <3>1
  <2> QED  BY <2>1, <2>2
<1>7. Used \subseteq Used' /\ \A i \in Inodes : file'[i].carries \in {file[i].carries, {}}
  <2>1. ASSUME NEW i \in Used  PROVE file'[i].mtime # 0
    <3>1. CASE i = name
      BY <1>4, <3>1
    <3>2. CASE i # name
      BY <1>3, <3>2 DEF Used
    <3> QED  BY <3>1, <3>2
  <2> QED  BY <1>3, <1>4, <2>1 DEF Used
<1>8. outside' \in Nat \ {0} /\ \A i \in onDisk' \ {Absent} : i \in Used' /\ file'[i].synced
  <2>1. outside' \in Nat \ {0}
    BY <1>1, <1>2
  <2>2. onDisk' = onDisk
    BY <1>1
  <2> QED  BY <1>2, <1>6, <1>7, <2>1, <2>2
<1> HIDE DEF IInv
<1> QED  BY <1>1, <1>2, <1>4, <1>5, <1>6, <1>7, <1>8, InterventionInv

\* Somebody moves the document away, whole.
LEMMA MoveAwayInv ==
  ASSUME IInv, MoveAway
  PROVE  IInv'
<1>1. /\ touched' = TRUE /\ outside' = outside + 1 /\ mem' = Witnessed(mem, {}, 0)
      /\ UNCHANGED <<lock, reports, faults, file>> /\ name' = Absent /\ onDisk' = onDisk \cup {Absent}
  BY DEF MoveAway, Touch, Act
<1>2. /\ outside \in Nat /\ onDisk \subseteq Refs /\ file \in [Inodes -> Documents]
      /\ \A i \in onDisk \ {Absent} : i \in Used /\ file[i].synced
  BY DEF IInv, TypeOK, DiskInv
<1>3. Used' = Used /\ Used \subseteq Inodes /\ Absent \notin Inodes /\ \A i \in Used : file[i].mtime \in Nat
  BY <1>1, <1>2, StateFileAssumption DEF Used, Documents, Inodes, Absent
<1>4. \A i \in Used : /\ file'[i].mtime >= file[i].mtime /\ file'[i].synced = file[i].synced
                      /\ file'[i].mtime = file[i].mtime => file'[i].carries = file[i].carries
                      /\ i \notin onDisk => file'[i].links = file[i].links
  BY <1>1, <1>3
<1>5. /\ outside' \in Nat \ {0} /\ onDisk' \subseteq Refs /\ onDisk' \cap Used \subseteq onDisk
      /\ \A i \in onDisk' \ {Absent} : i \in Used' /\ file'[i].synced
      /\ name' \in onDisk' /\ (name' # Absent => file'[name'].links = 1)
      /\ file' \in [Inodes -> Documents]
  BY <1>1, <1>2, <1>3 DEF Refs
<1>6. \A i \in Inodes : file'[i].carries \in {file[i].carries, {}}
  BY <1>1
<1> HIDE DEF IInv
<1> QED  BY <1>1, <1>3, <1>4, <1>5, <1>6, InterventionInv

\* Somebody removes the lock, held or not.
LEMMA RemoveLockInv ==
  ASSUME IInv, RemoveLock
  PROVE  IInv'
<1>1. /\ outside' = outside + 1 /\ lock' = Absent
      /\ UNCHANGED <<name, file, onDisk, mem, touched, acked, denied, faults>>
  BY DEF RemoveLock, Act, reports
<1>2. TypeOK' /\ outside' # 0
  BY <1>1 DEF IInv, TypeOK, Absent
<1>3. Used' = Used /\ \A i \in Inodes \cup {Absent} : Carried(i)' = Carried(i)
  BY <1>1 DEF Used, Carried
<1>4. DiskInv' /\ ProcInv' /\ TempInv' /\ ReadsAreSnapshots' /\ ReadersOutlastWriters'
  BY <1>1, <1>3 DEF IInv, DiskInv, ProcInv, Kept, TempInv, Private, ReadsAreSnapshots, ReadersOutlastWriters, Writer
<1>5. SnapshotInv' /\ WriteInv' /\ SavedInv' /\ RoundsInv'
  BY <1>1, <1>3
     DEF IInv, SnapshotInv, Sighted, WriteInv, Derived, SavedInv, RoundsInv, Outrun, Carried, Writer
<1>6. LockInv'
  BY <1>2 DEF LockInv
<1> QED  BY <1>2, <1>4, <1>5, <1>6 DEF IInv

\* The machine loses power: everybody is gone, and what comes back was flushed.
LEMMA PowerFailsInv ==
  ASSUME IInv, PowerFails
  PROVE  IInv'
<1>1. PICK i \in onDisk :
        /\ name' = i /\ onDisk' = {i}
        /\ file' = [j \in Inodes |->
             [file[j] EXCEPT !.links = IF j = i THEN 1 ELSE 0,
                             !.carries = IF file[j].synced THEN file[j].carries ELSE {Torn},
                             !.synced = TRUE]]
  BY DEF PowerFails
<1>2. /\ mem' = [p \in Procs |-> IF Busy(p) THEN Ended(mem[p], "dead") ELSE mem[p]]
      /\ UNCHANGED <<lock, acked, denied, outside, touched>> /\ faults' = faults + 1
  BY DEF PowerFails, Fault, reports, world
<1>3. /\ mem \in [Procs -> Processes] /\ file \in [Inodes -> Documents] /\ onDisk \subseteq Refs
      /\ faults \in Nat
  BY DEF IInv, TypeOK
<1>4. Torn \notin Inodes /\ Absent \notin Inodes /\ Torn \in Marks
  BY StateFileAssumption DEF Inodes, Torn, Absent, Marks
<1>5. ASSUME NEW j \in Inodes
      PROVE  /\ file'[j] \in Documents /\ file'[j].mtime = file[j].mtime /\ file'[j].synced
             /\ j = i => file'[j].links = 1
             /\ file[j].synced => file'[j].carries = file[j].carries
             /\ ~file[j].synced => file'[j].carries = {Torn}
  <2> DEFINE l == IF j = i THEN 1 ELSE 0
             c == IF file[j].synced THEN file[j].carries ELSE {Torn}
  <2>1. file'[j] = [file[j] EXCEPT !.links = l, !.carries = c, !.synced = TRUE]
    BY <1>1
  <2>2. file[j] \in Documents /\ l \in {0, 1} /\ c \in SUBSET Marks
    BY <1>3, <1>4 DEF Documents
  <2> HIDE DEF l, c
  <2>3. /\ file'[j] \in Documents /\ file'[j].mtime = file[j].mtime /\ file'[j].synced
        /\ file'[j].links = l /\ file'[j].carries = c
    BY <2>1, <2>2 DEF Documents
  <2> QED  BY <2>3 DEF l, c
<1>6. ASSUME NEW p \in Procs
      PROVE  /\ mem'[p] \in Processes /\ mem'[p].pc \in {"idle", "done"}
             /\ \/ mem'[p] = mem[p]
                \/ /\ mem'[p].pc = "done" /\ mem'[p].result = "dead"
                   /\ mem'[p].lockfd = Absent /\ ~mem'[p].held /\ mem'[p].value \subseteq mem[p].value
                   /\ {mem'[p].before, mem'[p].open, mem'[p].base, mem'[p].temp} = {Absent}
  <2>1. CASE Busy(p)
    <3>1. mem'[p] = Ended(mem[p], "dead") /\ mem[p] \in Processes /\ "dead" \in Results
      BY <1>2, <1>3, <2>1 DEF Results
    <3> DEFINE e == Ended(mem[p], "dead")
    <3>2. /\ e \in Processes /\ e.pc = "done" /\ e.result = "dead" /\ e.lockfd = Absent /\ ~e.held
          /\ e.value \subseteq mem[p].value /\ {e.before, e.open, e.base, e.temp} = {Absent}
      BY <3>1, EndedProcess
    <3> HIDE DEF e
    <3> QED  BY <3>1, <3>2 DEF e
  <2>2. CASE ~Busy(p)
    BY <1>2, <1>3, <2>2 DEF Busy
  <2> QED  BY <2>1, <2>2
<1>7. Used' = Used
  BY <1>5 DEF Used
<1>8. TypeOK'
  <2>1. mem' \in [Procs -> Processes]
    <3>1. \A p \in Procs : mem'[p] \in Processes
      BY <1>6
    <3>2. mem' = [p \in Procs |-> mem'[p]]
      BY <1>2
    <3> QED  BY <3>1, <3>2
  <2>2. file' \in [Inodes -> Documents]
    BY <1>1, <1>5
  <2>3. name' \in Refs /\ onDisk' \subseteq Refs
    BY <1>1, <1>3
  <2>4. /\ lock' \in Nat /\ acked' \subseteq Marks /\ denied' \subseteq Marks
        /\ outside' \in Nat /\ touched' \in BOOLEAN /\ faults' \in Nat
    BY <1>2, <1>3 DEF IInv, TypeOK
  <2> QED  BY <2>1, <2>2, <2>3, <2>4 DEF TypeOK
<1>9. i # Absent => i \in Inodes /\ i \in Used /\ file[i].synced
  BY <1>1 DEF IInv, DiskInv, Used
<1>10. DiskInv'
  <2>1. \A j \in Inodes : file'[j].carries \cap Inodes \subseteq Used
    BY <1>4, <1>5 DEF IInv, DiskInv
  <2> QED  BY <1>1, <1>2, <1>5, <1>7, <1>9, <2>1 DEF IInv, DiskInv
<1>11. ASSUME NEW p \in Procs  PROVE Kept(p)'
  BY <1>6, <1>7, Known DEF Kept, Writer, Absent
<1>12. TempInv' /\ SnapshotInv' /\ WriteInv' /\ RoundsInv'
  BY <1>6 DEF TempInv, Private, SnapshotInv, Sighted, WriteInv, Derived, RoundsInv, Outrun, Staged, Looks
<1>13. ReadsAreSnapshots' /\ ReadersOutlastWriters'
  BY <1>2, <1>6 DEF IInv, ReadsAreSnapshots, ReadersOutlastWriters, Writer
<1>14. SavedInv'
  <2> SUFFICES ASSUME ~touched
               PROVE  acked \subseteq Carried(i)' /\ denied \cap Carried(i)' = {}
    BY <1>1, <1>2 DEF SavedInv
  <2>1. acked \subseteq Carried(i) /\ denied \cap Carried(i) = {}
    BY <1>1 DEF IInv, SavedInv
  <2>2. i # Absent => file'[i].carries = file[i].carries
    BY <1>5, <1>9
  <2> QED  BY <2>1, <2>2 DEF Carried
<1>15. LockInv'
  <2>1. ASSUME outside = 0, NEW p \in Procs  PROVE Holding(p, mem[p])' /\ (mem'[p].held => mem[p].held)
    <3>1. Holding(p, mem[p])
      BY <2>1, Known
    <3> QED  BY <1>2, <1>6, <3>1 DEF Holding
  <2> QED  BY <1>2, <2>1 DEF IInv, LockInv
<1> QED  BY <1>8, <1>10, <1>11, <1>12, <1>13, <1>14, <1>15 DEF IInv, ProcInv
LEMMA StutterInv == IInv /\ UNCHANGED vars => IInv'
BY DEF IInv, vars, TypeOK, DiskInv, Used, ProcInv, Kept, Writer, TempInv, Private, Carried,
       ReadsAreSnapshots, SnapshotInv, Sighted, WriteInv, Derived, SavedInv,
       ReadersOutlastWriters, RoundsInv, Outrun, LockInv, Holding

\* Every system call, every act of people and every failure keeps the invariant.
LEMMA NextInv == IInv /\ [Next]_vars => IInv'
<1> SUFFICES ASSUME IInv, [Next]_vars  PROVE IInv'
  OBVIOUS
<1>1. ASSUME NEW p \in Procs,
             BeginRead(p) \/ CreateLock(p) \/ OpenLock(p) \/ TryLock(p) \/ ConfirmLock(p)
      PROVE  IInv'
  BY <1>1, BeginReadInv, CreateLockInv, OpenLockInv, TryLockInv, ConfirmLockInv
<1>2. ASSUME NEW p \in Procs,
             \/ Look(p) \/ OpenHistory(p) \/ StatOpened(p) \/ Consume(p) \/ StatAfter(p) \/ Doubt(p)
             \/ Continue(p)
      PROVE  IInv'
  BY <1>2, LookInv, OpenHistoryInv, StatOpenedInv, ConsumeInv, StatAfterInv, DoubtInv, ContinueInv
<1>3. ASSUME NEW p \in Procs,
             Stage(p) \/ SyncFile(p) \/ Inspect(p) \/ Rename(p) \/ SyncDirectory(p) \/ Die(p)
      PROVE  IInv'
  BY <1>3, StageInv, SyncFileInv, InspectInv, RenameInv, SyncDirectoryInv, DieInv
<1>4. ASSUME Restore \/ EditInPlace \/ MoveAway \/ RemoveLock \/ PowerFails
      PROVE  IInv'
  BY <1>4, RestoreInv, EditInPlaceInv, MoveAwayInv, RemoveLockInv, PowerFailsInv
<1>5. CASE UNCHANGED vars
  BY <1>5, StutterInv
<1> QED  BY <1>1, <1>2, <1>3, <1>4, <1>5 DEF Next

-----------------------------------------------------------------------------
\* storage.go and its callers: what every interleaving of readers, writers, people,
\* deaths and power failures leaves true of the document, its lock and its temporaries.
THEOREM Invariant == Spec => []IInv
<1>1. Init => IInv
  BY InitInv
<1>2. IInv /\ [Next]_vars => IInv'
  BY NextInv
<1> QED  BY <1>1, <1>2, PTL DEF Spec

\* The inodes, documents and processes of storage.go keep their types.
THEOREM TypeCorrect == Spec => []TypeOK
<1>1. IInv => TypeOK
  BY DEF IInv
<1> QED  BY <1>1, Invariant, PTL

\* storage.go:179-233: whatever anybody does between the system calls of a read, what it
\* returns is what the document carried, whole, at some moment of it.
THEOREM SnapshotsAreTrue == Spec => []ReadsAreSnapshots
<1>1. IInv => ReadsAreSnapshots
  BY DEF IInv
<1> QED  BY <1>1, Invariant, PTL

\* storage.go:307-405: while the document itself is left alone, a reported save is in it
\* for good and a refused one never is, however often the lock is removed, a process
\* dies or the machine loses power.
THEOREM SavesStay == Spec => []SavesAreKept
<1>1. IInv => SavesAreKept
  BY DEF IInv, SavesAreKept, SavedInv, LockInv, DiskInv
<1> QED  BY <1>1, Invariant, PTL

\* budget/storage.go:47-64: a reader that gives up met as many publications as it has
\* attempts, unless somebody else moved the document.
THEOREM ReadersAreOutrun == Spec => []ReadersOutlastWriters
<1>1. IInv => ReadersOutlastWriters
  BY DEF IInv
<1> QED  BY <1>1, Invariant, PTL

\* storage.go, Acquire: while nobody removes the lock one process at most holds it, and
\* until its rename the document is what that process saw.
OneWriter ==
  outside = 0 =>
    /\ \A p, q \in Procs : mem[p].held /\ mem[q].held => p = q
    /\ \A p \in Procs : mem[p].pc = "renaming" => mem[p].held /\ name = mem[p].base
THEOREM LockSuffices == Spec => []OneWriter
<1>1. IInv => OneWriter
  <2> SUFFICES ASSUME IInv, outside = 0, NEW p \in Procs, mem[p].pc = "renaming"
               PROVE  mem[p].held /\ name = mem[p].base
    BY DEF OneWriter, IInv, LockInv
  <2>1. ~touched /\ Holding(p, mem[p]) /\ Derived(mem[p]) /\ Kept(p)
    BY Known DEF IInv, LockInv
  <2> QED  BY <2>1 DEF Holding, Derived, Kept, Looks
<1> QED  BY <1>1, Invariant, PTL
=============================================================================
