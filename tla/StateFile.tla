------------------------------ MODULE StateFile ------------------------------
(* A state document of the factory (.factory/budget.json, loops.json), its    *)
(* persistent lock file and the processes that use them:                      *)
(* internal/statefile/storage.go with its two callers, the budget ledger and  *)
(* the loop store.                                                            *)
(*                                                                            *)
(* Names point at inodes.  A document is the set of publications it carries:  *)
(* every writer adds its own to what it read, and the inode it publishes      *)
(* names that publication.  People who edit, restore or move the document, or *)
(* remove the lock, do so between any two system calls; processes die, and    *)
(* the machine may lose power.                                                *)
EXTENDS Naturals, FiniteSets

CONSTANTS
  Procs,       \* processes, each running one operation
  Kind,        \* [Procs -> {"reader", "ledger", "loop"}]
  Attempts,    \* snapshot attempts of an unlocked reader
  MaxWrites,   \* checkpoints of a loop transaction
  MaxInodes,   \* bound on the files ever created under the document's name
  MaxOutside,  \* bound on the acts of people
  MaxFaults    \* bound on failed calls, deaths and power failures

ASSUME StateFileAssumption ==
  /\ Kind \in [Procs -> {"reader", "ledger", "loop"}]
  /\ Attempts \in Nat \ {0} /\ MaxWrites \in Nat \ {0} /\ MaxInodes \in Nat \ {0}
  /\ MaxOutside \in Nat /\ MaxFaults \in Nat

Absent == 0
Inodes == 1..MaxInodes
Torn   == MaxInodes + 1   \* marks bytes no writer ever wrote together

VARIABLES
  name,     \* inode under the document's name, or Absent
  lock,     \* inode under the lock's name, or Absent
  file,     \* [Inodes -> the file: what it carries, its modification time, links, durability]
  onDisk,   \* inodes the document's name may hold after a power failure
  mem,      \* [Procs -> the process]
  acked,    \* publications reported as saved
  denied,   \* publications reported as not saved
  outside,  \* acts of people so far
  touched,  \* the document was moved by people, or under a writer about to rename
  faults    \* failures so far

vars == <<name, lock, file, onDisk, mem, acked, denied, outside, touched, faults>>
tree == <<name, lock, file, onDisk>>
world == <<outside, touched>>
reports == <<acked, denied>>

Free  == {i \in Inodes : file[i].mtime = 0}
Fresh == CHOOSE i \in Free : \A j \in Free : i <= j
Carried(i) == IF i = Absent THEN {} ELSE file[i].carries
Blank == [carries |-> {}, mtime |-> 0, links |-> 0, synced |-> TRUE]
Idle  == [pc |-> "idle", lockfd |-> 0, held |-> FALSE, before |-> Absent,
          open |-> Absent, mtime |-> 0, value |-> {}, base |-> Absent,
          ready |-> FALSE, temp |-> Absent, tries |-> 0, writes |-> 0,
          seen |-> Absent, past |-> {}, rounds |-> 0, result |-> "none"]

Init ==
  /\ \E present \in BOOLEAN :
       /\ name = IF present THEN 1 ELSE Absent
       /\ file = [i \in Inodes |->
                   IF present /\ i = 1
                   THEN [carries |-> {1}, mtime |-> 1, links |-> 1, synced |-> TRUE]
                   ELSE Blank]
       /\ acked = IF present THEN {1} ELSE {}
  /\ lock = Absent
  /\ onDisk = {name}
  /\ mem = [p \in Procs |-> Idle]
  /\ denied = {} /\ outside = 0 /\ touched = FALSE /\ faults = 0

-----------------------------------------------------------------------------
(* Steps of a process.                                                       *)

Writer(p) == Kind[p] # "reader"
Reading(m) == m.pc \in {"look", "looked", "opened", "reading", "half", "read", "suspect"}

\* What the document carried while a read was under way, for the properties.
Witnessed(ms, value, publications) ==
  [q \in Procs |-> IF Reading(ms[q]) THEN [ms[q] EXCEPT !.past = @ \cup {value},
                                                        !.rounds = IF Writer(q) THEN 0 ELSE @ + publications]
                                     ELSE ms[q]]
Become(p, m) == mem' = [mem EXCEPT ![p] = m]
Quiet == UNCHANGED <<tree, reports, world, faults>>

\* Close: the descriptors go, and the lock with them.  Only what an unlocked reader
\* answers is remembered, for the properties.
Ended(m, result) ==
  LET end == [Idle EXCEPT !.pc = "done", !.result = result] IN
  IF m.lockfd # 0 THEN end
  ELSE IF result = "ok" THEN [end EXCEPT !.value = m.value, !.past = m.past]
  ELSE [end EXCEPT !.rounds = m.rounds]
Finish(p, result) == Become(p, Ended(mem[p], result))

\* check: the lock this process opened is still the one under its name.
Checked(m) == m.lockfd = 0 \/ lock = m.lockfd

\* Read without the lock: the directory may not exist yet, which reads as empty.
BeginRead(p) ==
  /\ mem[p].pc = "idle" /\ ~Writer(p)
  /\ Become(p, [mem[p] EXCEPT !.pc = "look"])
  /\ Quiet

\* Acquire, exclusive creation first: locks are numbered above the documents.
LockInode == IF lock = Absent THEN MaxInodes + 1 + outside ELSE lock
CreateLock(p) ==
  /\ mem[p].pc = "idle" /\ Writer(p)
  /\ IF lock = Absent
     THEN /\ lock' = LockInode
          /\ Become(p, [mem[p] EXCEPT !.pc = "locking", !.lockfd = LockInode])
     ELSE /\ Become(p, [mem[p] EXCEPT !.pc = "exists"])
          /\ UNCHANGED lock
  /\ UNCHANGED <<name, file, onDisk, reports, world, faults>>

\* Acquire, after ErrExist: one open of what is there, and no second creation.
OpenLock(p) ==
  /\ mem[p].pc = "exists"
  /\ IF lock = Absent THEN Finish(p, "unsafe")
     ELSE Become(p, [mem[p] EXCEPT !.pc = "locking", !.lockfd = lock])
  /\ Quiet

Flocked(i) == \E q \in Procs : mem[q].held /\ mem[q].lockfd = i

\* Acquire, the flock: the ledger polls, the loop store refuses at once.
TryLock(p) ==
  /\ mem[p].pc = "locking"
  /\ \/ ~Checked(mem[p]) /\ Finish(p, "unsafe")
     \/ Checked(mem[p]) /\ ~Flocked(mem[p].lockfd)
          /\ Become(p, [mem[p] EXCEPT !.pc = "locked", !.held = TRUE])
     \/ Checked(mem[p]) /\ Flocked(mem[p].lockfd) /\ Kind[p] = "loop" /\ Finish(p, "busy")
  /\ Quiet

\* Acquire, the check that follows the flock.
ConfirmLock(p) ==
  /\ mem[p].pc = "locked"
  /\ IF Checked(mem[p]) THEN Become(p, [mem[p] EXCEPT !.pc = "look"])
                        ELSE Finish(p, "unsafe")
  /\ Quiet

-----------------------------------------------------------------------------
(* Read.                                                                     *)

\* What a read returns, to a reader or to the holder of the lock.
Obtained(m, value, base) ==
  [m EXCEPT !.value = value, !.base = base, !.ready = TRUE,
            !.before = Absent, !.open = Absent, !.mtime = 0]
Return(p, value, base) ==
  Become(p, LET m == Obtained(mem[p], value, base) IN
            IF Writer(p) THEN [m EXCEPT !.pc = "ready"]
            ELSE Ended(m, "ok"))

\* Lstat of the document.  One that is missing is an empty history.
Look(p) ==
  /\ mem[p].pc = "look"
  /\ IF ~Checked(mem[p]) THEN Finish(p, "unsafe")
     ELSE IF name = Absent
     THEN Become(p, LET m == [Obtained(mem[p], {}, Absent) EXCEPT !.past = {{}}] IN
                    IF Writer(p) THEN [m EXCEPT !.pc = "ready"] ELSE Ended(m, "ok"))
     ELSE Become(p, [mem[p] EXCEPT !.pc = "looked", !.before = name,
                                   !.past = {Carried(name)}])
  /\ Quiet

OpenHistory(p) ==
  /\ mem[p].pc = "looked"
  /\ IF name = Absent THEN Finish(p, "unsafe")
     ELSE Become(p, [mem[p] EXCEPT !.pc = "opened", !.open = name])
  /\ Quiet

\* The descriptor must be linked once and be the inode the name showed.
StatOpened(p) ==
  /\ mem[p].pc = "opened"
  /\ Become(p, LET m == mem[p] IN
       IF file[m.open].links = 1 /\ m.open = m.before
       THEN [m EXCEPT !.pc = "reading", !.mtime = file[m.open].mtime]
       ELSE [m EXCEPT !.pc = "suspect"])
  /\ Quiet

\* consume, in two reads: bytes that changed in between do not fit together.
Consume(p) ==
  /\ \/ /\ mem[p].pc = "reading"
        /\ Become(p, [mem[p] EXCEPT !.pc = "half", !.value = Carried(mem[p].open)])
     \/ /\ mem[p].pc = "half"
        /\ Become(p, [mem[p] EXCEPT !.pc = "read",
             !.value = IF @ = Carried(mem[p].open) THEN @ ELSE {Torn}])
  /\ Quiet

\* Mutant: the descriptor is not looked at again.
Mutant_Settled(m) == TRUE

\* Neither the size nor the modification time moved while it was read.
Settled(m) == file[m.open].mtime = m.mtime

StatAfter(p) ==
  /\ mem[p].pc = "read"
  /\ LET m == mem[p] IN
     IF ~Settled(m) THEN Finish(p, "unsafe")
     ELSE IF file[m.open].links # 1
     THEN Become(p, [m EXCEPT !.pc = "suspect", !.before = m.open])
     ELSE Return(p, m.value, m.open)
  /\ Quiet

\* Mutant: a detached descriptor is always unsafe storage.
Mutant_Replaced(m) == FALSE

\* replacedSnapshot: another safe file is under the name.
Replaced(m) == name # Absent /\ name # m.before

\* ReplacedError: an unlocked reader tries again a bounded number of times, the
\* holder of the lock gives up.
Doubt(p) ==
  /\ mem[p].pc = "suspect"
  /\ LET m == mem[p] IN
     IF Replaced(m) /\ ~Writer(p) /\ m.tries + 1 < Attempts
     THEN Become(p, [m EXCEPT !.pc = "look", !.tries = @ + 1])
     ELSE Finish(p, IF Replaced(m) /\ ~Writer(p) THEN "exhausted" ELSE "unsafe")
  /\ Quiet

-----------------------------------------------------------------------------
(* Publish.                                                                  *)

\* The deferred removal of the temporary: nobody else knows its name.  A token
\* whose rename did not happen is reported as not saved, any other as in doubt.
Refuse(p) ==
  /\ Finish(p, "refused")
  /\ denied' = IF mem[p].temp = Absent THEN denied ELSE denied \cup {mem[p].temp}
  /\ UNCHANGED acked
Fault == faults < MaxFaults /\ faults' = faults + 1

\* The encoded history is written to an exclusive temporary: check, create, write.
Stage(p) ==
  /\ mem[p].pc = "ready" /\ mem[p].ready
  /\ IF Checked(mem[p])
     THEN /\ Free # {}
          /\ file' = [file EXCEPT ![Fresh] =
               [carries |-> mem[p].value \cup {Fresh}, mtime |-> 1, links |-> 1,
                synced |-> FALSE]]
          /\ Become(p, [mem[p] EXCEPT !.pc = "staged", !.temp = Fresh, !.ready = FALSE,
                                        !.past = {}])
     ELSE Finish(p, "unsafe") /\ UNCHANGED file
  /\ UNCHANGED <<name, lock, onDisk, reports, world, faults>>

\* Mutant: the temporary's bytes are left to the page cache.
Mutant_Flushed == FALSE

Flushed == TRUE

SyncFile(p) ==
  /\ mem[p].pc = "staged"
  /\ \/ /\ file' = [file EXCEPT ![mem[p].temp].synced = Flushed]
        /\ Become(p, [mem[p] EXCEPT !.pc = "synced"])
        /\ UNCHANGED <<reports, faults>>
     \/ Refuse(p) /\ Fault /\ UNCHANGED file
  /\ UNCHANGED <<name, lock, onDisk, world>>

\* Mutant: the lock alone is taken as proof that the document did not move.
Mutant_Unmoved(m) == TRUE

\* The name still shows the file this process read, or still nothing.
Unmoved(m) == name = m.base

\* The last look before the rename: directory, lock and document.
Inspect(p) ==
  /\ mem[p].pc = "synced"
  /\ IF Checked(mem[p]) /\ Unmoved(mem[p])
     THEN Become(p, [mem[p] EXCEPT !.pc = "renaming", !.seen = name]) /\ UNCHANGED reports
     ELSE Refuse(p)
  /\ UNCHANGED <<tree, world, faults>>

Rename(p) ==
  /\ mem[p].pc = "renaming"
  /\ \/ /\ name' = mem[p].temp
        /\ file' = IF name = Absent THEN file ELSE [file EXCEPT ![name].links = 0]
        /\ onDisk' = onDisk \cup {mem[p].temp}
        /\ touched' = (touched \/ name # mem[p].seen)
        /\ mem' = Witnessed([mem EXCEPT ![p].pc = "renamed"], Carried(mem[p].temp), 1)
        /\ UNCHANGED <<lock, reports, faults>>
     \/ Refuse(p) /\ Fault /\ UNCHANGED <<tree, touched>>
  /\ UNCHANGED outside

\* Mutant: the save is reported before the directory is known to be on disk.
Mutant_DirectorySynced == onDisk

DirectorySynced == {name}

\* The directory is synced and the save reported; a failure here leaves the
\* caller in doubt, and no later checkpoint of the transaction.
SyncDirectory(p) ==
  /\ mem[p].pc = "renamed"
  /\ \/ /\ onDisk' = DirectorySynced
        /\ acked' = acked \cup {mem[p].temp}
        /\ Become(p, LET m == [mem[p] EXCEPT !.value = @ \cup {mem[p].temp},
                                             !.base = mem[p].temp, !.temp = Absent,
                                             !.ready = TRUE, !.writes = @ + 1] IN
                     IF Kind[p] = "loop" THEN [m EXCEPT !.pc = "saved"]
                                         ELSE Ended(m, "ok"))
        /\ UNCHANGED faults
     \/ Finish(p, "doubt") /\ Fault /\ UNCHANGED <<onDisk, acked>>
  /\ UNCHANGED <<name, lock, file, denied, world>>

\* A loop transaction saves again from what it last wrote, reads the document
\* again, or closes.
Continue(p) ==
  /\ mem[p].pc = "saved"
  /\ \/ /\ mem[p].writes < MaxWrites
        /\ \E next \in {"ready", "look"} : Become(p, [mem[p] EXCEPT !.pc = next])
     \/ Finish(p, "ok")
  /\ Quiet

-----------------------------------------------------------------------------
(* People, deaths and power failures.                                        *)

Act == outside < MaxOutside /\ outside' = outside + 1 /\ UNCHANGED <<reports, faults>>
Touch == Act /\ touched' = TRUE

\* Somebody puts a copy back under the name.
Restore ==
  /\ Touch /\ Free # {}
  /\ file' = [i \in Inodes |->
       IF i = Fresh THEN [carries |-> {}, mtime |-> 1, links |-> 1, synced |-> TRUE]
       ELSE IF i = name THEN [file[i] EXCEPT !.links = 0] ELSE file[i]]
  /\ name' = Fresh
  /\ onDisk' = onDisk \cup {Fresh}
  /\ mem' = Witnessed(mem, {}, 0)
  /\ UNCHANGED lock

\* Somebody edits the document in place.
EditInPlace ==
  /\ Touch /\ name # Absent
  /\ file' = [file EXCEPT ![name].carries = {}, ![name].mtime = @ + 1]
  /\ mem' = Witnessed(mem, {}, 0)
  /\ UNCHANGED <<name, lock, onDisk>>

\* Somebody moves the document away: it keeps its link.
MoveAway ==
  /\ Touch /\ name # Absent
  /\ name' = Absent
  /\ onDisk' = onDisk \cup {Absent}
  /\ mem' = Witnessed(mem, {}, 0)
  /\ UNCHANGED <<lock, file>>

RemoveLock ==
  /\ Act /\ lock # Absent
  /\ lock' = Absent
  /\ UNCHANGED <<name, file, onDisk, mem, touched>>

Busy(p) == mem[p].pc \notin {"idle", "done"}

\* A killed process leaves its temporary and reports nothing.
Die(p) ==
  /\ Busy(p) /\ Fault
  /\ Finish(p, "dead")
  /\ UNCHANGED <<tree, reports, world>>

\* The name comes back as it may have been on disk; bytes that were never
\* flushed do not.
PowerFails ==
  /\ Fault
  /\ \E i \in onDisk :
       /\ name' = i
       /\ onDisk' = {i}
       /\ file' = [j \in Inodes |->
            [file[j] EXCEPT !.links = IF j = i THEN 1 ELSE 0,
                            !.carries = IF file[j].synced THEN @ ELSE {Torn},
                            !.synced = TRUE]]
  /\ mem' = [p \in Procs |-> IF Busy(p) THEN Ended(mem[p], "dead") ELSE mem[p]]
  /\ UNCHANGED <<lock, reports, world>>

Next ==
  \/ \E p \in Procs :
       \/ BeginRead(p) \/ CreateLock(p) \/ OpenLock(p) \/ TryLock(p) \/ ConfirmLock(p)
       \/ Look(p) \/ OpenHistory(p) \/ StatOpened(p) \/ Consume(p) \/ StatAfter(p) \/ Doubt(p)
       \/ Stage(p) \/ SyncFile(p) \/ Inspect(p) \/ Rename(p) \/ SyncDirectory(p)
       \/ Continue(p) \/ Die(p)
  \/ Restore \/ EditInPlace \/ MoveAway \/ RemoveLock \/ PowerFails

Spec == Init /\ [][Next]_vars

-----------------------------------------------------------------------------
(* Properties.                                                               *)

\* storage.go:179-233: what a successful read returns is what the document as a
\* whole carried at some moment of that read, whoever replaced, edited or moved
\* it between the system calls.
ReadsAreSnapshots ==
  \A p \in Procs :
    \/ ~Writer(p) /\ mem[p].result = "ok"
    \/ mem[p].pc = "ready" /\ mem[p].writes = 0
    => mem[p].value \in mem[p].past

\* storage.go:307-405: a save that was reported stays in every later document,
\* across other writers, deaths and power failures, and one that was reported as
\* not made never appears.  While nobody intervenes the lock alone is enough.  It
\* may even be removed while it is held: the identity of the document still tells
\* two writers apart, except in the gap between the last look and the rename.  What
\* people do to the document itself is outside the promise.
SavesAreKept ==
  ~touched \/ outside = 0 => /\ acked \subseteq Carried(name)
                             /\ denied \cap Carried(name) = {}

\* budget/storage.go:47-64: as long as only publications move the document, one
\* of them costs an unlocked reader at most one attempt, so a reader that gives up
\* saw as many as it has attempts.
ReadersOutlastWriters ==
  \A p \in Procs :
    ~Writer(p) /\ mem[p].result \in {"exhausted", "unsafe"} /\ ~touched =>
      mem[p].rounds >= Attempts
=============================================================================
