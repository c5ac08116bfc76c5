------------------------------ MODULE Retention -----------------------------
(***************************************************************************)
(* internal/installation, retention_*.go: the recovery sets (saved         *)
(* before-images and journal) that upgrades leave behind, holds on them,   *)
(* and their removal, on request or after a later release was installed.   *)
(*                                                                         *)
(* One command works at a time: RootExclusive and Exclusive of the guard   *)
(* (TransitionGuard).  It may return with an error or die between any two  *)
(* steps; the user may touch a set at any time; after a power failure      *)
(* entries whose removal was not synced are back.                          *)
(*                                                                         *)
(* Upgrades and rollbacks are single steps here: Installation has them.    *)
(* Proofs of releases, inputs and ignore rules only refuse, which any      *)
(* command may do at any time.                                             *)
(***************************************************************************)
EXTENDS Integers, Sequences, FiniteSets

CONSTANTS
  Releases,   \* in release order
  Installed,  \* the one installed first
  Unordered,  \* those whose tag is no version: they compare with none
  Ids,        \* migration identifiers, in the order of the backup inventory
  MaxTouched, \* bound on the sets the user touches in a behaviour
  NoSet, NoProgress, NoMem

ASSUME ReleasesAssumption ==
  Releases \subseteq Nat /\ Installed \in Releases /\ Unordered \subseteq Releases
ASSUME IdsAssumption == Ids \subseteq Nat

VARIABLES
  current,  \* the installed release
  sets,     \* the recovery set of each identifier
  progress, \* .factory/backups/.retention.json
  unsynced, \* removed entries that a power failure may bring back
  pc, mem,  \* the working command: its stage and what it knows
  kept,     \* sets held by --keep-backup and not asked to be pruned since (history)
  touched   \* sets the user has touched (history)

vars == <<current, sets, progress, unsynced, pc, mem, kept, touched>>

\* The rows of a removal, in its order.
Order == <<"assets", "hold", "manifest", "directory", "journal">>
Parts == {Order[i] : i \in DOMAIN Order}

\* The identity of an entry: 0 absent, 1 as first written, 2 another.
Files == [Parts -> 0..2]
NewFiles == [part \in Parts |-> IF part = "hold" THEN 0 ELSE 1]
Gone == [part \in Parts |-> 0]

\* A set leads back from "after" to "before", while its journal is forward.
\* A stray is an entry nobody can classify.
Sets == [before : Releases, after : Releases, forward : BOOLEAN, stray : BOOLEAN, files : Files]
Progress == [phase : {"pruning", "completed"}, id : Ids, files : Files, protect : Ids,
             next : 0..Len(Order), intent : BOOLEAN]
Mem == [op : {"upgrade", "prune"}, release : Releases, new : Ids, queue : SUBSET Ids,
        seen : [Ids -> Sets \cup {NoSet}], work : Progress \cup {NoProgress}, was : BOOLEAN]
ASSUME NullAssumption == NoSet \notin Sets /\ NoProgress \notin Progress /\ NoMem \notin Mem

Rows(p) ==
  LET Only(i) == IF p.files[Order[i]] # 0 THEN <<Order[i]>> ELSE <<>>
  IN  Only(1) \o Only(2) \o Only(3) \o Only(4) \o Only(5)
RowsOf(p) == {part \in Parts : p.files[part] # 0}
Done(p) == LET rows == Rows(p) IN {rows[i] : i \in 1..p.next}
Row(p) == Rows(p)[p.next + 1]

\* readRetentionProgress accepts the record.
Readable(p) ==
  /\ p.protect # p.id
  /\ p.next <= Len(Rows(p)) /\ (p.intent => p.next < Len(Rows(p)))
  /\ p.phase = "completed" => p.next = Len(Rows(p))

\* Every progress record written is one that a retry can read
\* (retention_prune.go:155).
TypeOK ==
  /\ current \in Releases
  /\ sets \in [Ids -> Sets \cup {NoSet}]
  /\ progress \in Progress \cup {NoProgress}
  /\ progress # NoProgress => Readable(progress)
  /\ unsynced \subseteq Ids \X Parts
  /\ pc \in {"idle", "install", "finish", "choose", "record", "intend", "unlink", "sync", "advance"}
  /\ mem \in Mem \cup {NoMem}
  /\ kept \subseteq Ids /\ touched \subseteq Ids
  /\ pc = "idle" <=> mem = NoMem

Init ==
  /\ current = Installed
  /\ sets = [id \in Ids |-> NoSet]
  /\ progress = NoProgress
  /\ unsynced = {} /\ pc = "idle" /\ mem = NoMem
  /\ kept = {} /\ touched = {}

-----------------------------------------------------------------------------
Known == {id \in Ids : sets[id] # NoSet}
Ordered(R) == R \cap Unordered = {}
File(id, part) == sets[id].files[part]
Held(id) == File(id, "hold") # 0

\* snapshotRetentionSet accepts the set.
Complete(id) ==
  /\ id \in Known /\ ~sets[id].stray
  /\ \A part \in {"assets", "manifest", "directory"} : File(id, part) = 1
  /\ File(id, "hold") \in {0, 1} /\ File(id, "journal") # 0

Pruning == progress # NoProgress /\ progress.phase = "pruning"

\* Absence has an earlier durable intent; what remains is what was selected.
Remaining(p) ==
  /\ ~sets[p.id].stray
  /\ \A part \in Parts :
       IF File(p.id, part) = 0
       THEN part \in RowsOf(p) => part \in Done(p) \/ (p.intent /\ part = Row(p))
       ELSE part \in RowsOf(p) \ Done(p) /\ File(p.id, part) = p.files[part]

Selected(id, protect) ==
  [phase |-> "pruning", id |-> id, files |-> sets[id].files, protect |-> protect,
   next |-> 0, intent |-> FALSE]

\* A set to go back from the current release with.
Alternates(id) == {q \in Ids \ {id} : Complete(q) /\ sets[q].after = current}

\* What a rollback from the current release asks of the set it goes back with.
Restorable(id) ==
  /\ id \in Known
  /\ sets[id].forward /\ sets[id].after = current
  /\ File(id, "assets") = 1 /\ File(id, "manifest") = 1 /\ File(id, "journal") # 0

First(S) == CHOOSE q \in S : \A r \in S : q <= r

Stop == pc' = "idle" /\ mem' = NoMem
Stage(stage, work) == pc' = stage /\ mem' = [mem EXCEPT !.work = work]

-----------------------------------------------------------------------------
(* Commands.                                                                *)

\* Mutant: an earlier release advances retention as well.
Mutant_Advances(r) == Ordered({r, current}) /\ r # current

\* What lets the upgrade to release r remove older sets at all.
Advances(r) == Ordered({r, current}) /\ r > current

\* Mutant: any complete set is eligible, one held for reference too.
Mutant_Eligible(id, r) ==
  /\ Complete(id)
  /\ ~Pruning /\ Advances(r)
  /\ sets[id].forward /\ Ordered({sets[id].after}) /\ sets[id].after <= current

\* What the confirmed plan removes when release r follows the current one.
Eligible(id, r) ==
  /\ Complete(id) /\ ~Held(id)
  /\ ~Pruning /\ Advances(r)
  /\ sets[id].forward /\ Ordered({sets[id].after}) /\ sets[id].after <= current

BeginUpgrade(r) ==
  /\ pc = "idle" /\ r # current /\ Known # Ids
  /\ pc' = "install"
  /\ mem' = [op |-> "upgrade", release |-> r, new |-> First(Ids \ Known),
             queue |-> {id \in Ids : Eligible(id, r)},
             seen |-> [id \in Ids |-> IF Eligible(id, r) THEN sets[id] ELSE NoSet],
             work |-> NoProgress, was |-> FALSE]
  /\ UNCHANGED <<current, sets, progress, unsynced, kept, touched>>

\* The transaction is carried out, or recovered in the reverse direction.
Install ==
  /\ pc = "install"
  /\ \E forward \in BOOLEAN :
       /\ sets' = [sets EXCEPT ![mem.new] =
            [before |-> current, after |-> mem.release, forward |-> forward,
             stray |-> FALSE, files |-> NewFiles]]
       /\ IF forward THEN current' = mem.release /\ pc' = "finish" /\ UNCHANGED mem
                     ELSE Stop /\ UNCHANGED current
  /\ UNCHANGED <<progress, unsynced, kept, touched>>

\* finishRetention, up to its loop.
Finish ==
  /\ pc = "finish"
  /\ IF Complete(mem.new) /\ ~Pruning /\ mem.queue # {}
     THEN pc' = "choose" /\ UNCHANGED mem ELSE Stop
  /\ UNCHANGED <<current, sets, progress, unsynced, kept, touched>>

\* The next set, unless it changed since the plan.
Choose ==
  /\ pc = "choose"
  /\ LET id == First(mem.queue) IN
     IF mem.queue # {} /\ sets[id] = mem.seen[id]
     THEN /\ pc' = "record"
          /\ mem' = [mem EXCEPT !.queue = @ \ {id}, !.work = Selected(id, mem.new)]
     ELSE Stop
  /\ UNCHANGED <<current, sets, progress, unsynced, kept, touched>>

\* The set does not lead back from the current release, nor from a later one.
Older(id) ==
  /\ sets[id].after # current
  /\ Ordered({sets[id].after, current}) => sets[id].after < current

\* PruneBackup, also to go on with an interrupted one.
BeginPrune(id) ==
  LET resuming == Pruning /\ progress.id = id
      work == IF resuming THEN progress ELSE Selected(id, id)
  IN  /\ pc = "idle" /\ id \in Known
      /\ IF Pruning THEN resuming /\ Remaining(progress) ELSE Complete(id)
      /\ Older(id)
      /\ Alternates(id) # {}
      /\ pc' = "record"
      /\ mem' = [op |-> "prune", release |-> current, new |-> id, queue |-> {},
                 seen |-> [i \in Ids |-> NoSet],
                 work |-> [work EXCEPT !.protect = First(Alternates(id))], was |-> FALSE]
      /\ kept' = kept \ {id}
      /\ UNCHANGED <<current, sets, progress, unsynced, touched>>

\* KeepBackup.
Keep(id) ==
  /\ pc = "idle" /\ ~Pruning /\ Complete(id)
  /\ sets' = [sets EXCEPT ![id].files["hold"] = 1]
  /\ kept' = kept \cup {id}
  /\ UNCHANGED <<current, progress, unsynced, pc, mem, touched>>

\* A rollback rewrites the journal, and does not look at retention.
Rollback(id) ==
  /\ pc = "idle" /\ Restorable(id)
  /\ current' = sets[id].before
  /\ sets' = [sets EXCEPT ![id].forward = FALSE, ![id].files["journal"] = 2]
  /\ UNCHANGED <<progress, unsynced, pc, mem, kept, touched>>

-----------------------------------------------------------------------------
(* executeRetentionPrune.                                                   *)

Record ==
  /\ pc = "record"
  /\ (Pruning => progress.id = mem.work.id)
  /\ progress' = mem.work /\ Stage("intend", mem.work)
  /\ UNCHANGED <<current, sets, unsynced, kept, touched>>

\* Mutant: the intent is written with the row that was removed.
Mutant_Intend ==
  /\ pc = "intend"
  /\ LET p == mem.work IN
     IF p.next < Len(Rows(p))
     THEN /\ UNCHANGED progress
          /\ pc' = "unlink"
          /\ mem' = [mem EXCEPT !.was = p.intent, !.work.intent = TRUE]
     ELSE /\ progress' = [p EXCEPT !.phase = "completed"]
          /\ IF mem.op = "upgrade" THEN Stage("choose", NoProgress) ELSE Stop
  /\ UNCHANGED <<current, sets, unsynced, kept, touched>>

Intend ==
  /\ pc = "intend"
  /\ LET p == mem.work IN
     IF p.next < Len(Rows(p))
     THEN /\ progress' = [p EXCEPT !.intent = TRUE]
          /\ pc' = "unlink"
          /\ mem' = [mem EXCEPT !.was = p.intent, !.work.intent = TRUE]
     ELSE /\ progress' = [p EXCEPT !.phase = "completed"]
          /\ IF mem.op = "upgrade" THEN Stage("choose", NoProgress) ELSE Stop
  /\ UNCHANGED <<current, sets, unsynced, kept, touched>>

\* The directory has to be empty, a file the one that was selected.
Removable(p, part) ==
  /\ File(p.id, part) = p.files[part]
  /\ part = "directory" =>
       ~sets[p.id].stray /\ \A other \in {"assets", "hold", "manifest"} : File(p.id, other) = 0

Unlink ==
  /\ pc = "unlink"
  /\ LET p == mem.work  part == Row(p) IN
     \/ /\ File(p.id, part) # 0 /\ Removable(p, part)
        /\ sets' = [sets EXCEPT ![p.id].files[part] = 0]
        /\ unsynced' = unsynced \cup {<<p.id, part>>}
        /\ pc' = "sync" /\ UNCHANGED mem
     \/ /\ File(p.id, part) = 0 /\ mem.was
        /\ pc' = "sync" /\ UNCHANGED <<sets, unsynced, mem>>
     \/ /\ IF File(p.id, part) = 0 THEN ~mem.was ELSE ~Removable(p, part)
        /\ Stop /\ UNCHANGED <<sets, unsynced>>
  /\ UNCHANGED <<current, progress, kept, touched>>

\* Mutant: what was found missing needs no sync.
Mutant_Sync ==
  /\ pc = "sync" /\ pc' = "advance"
  /\ unsynced' = IF mem.was THEN unsynced ELSE unsynced \ {<<mem.work.id, Row(mem.work)>>}
  /\ UNCHANGED <<current, sets, progress, mem, kept, touched>>

Sync ==
  /\ pc = "sync" /\ pc' = "advance"
  /\ unsynced' = unsynced \ {<<mem.work.id, Row(mem.work)>>}
  /\ UNCHANGED <<current, sets, progress, mem, kept, touched>>

Advance ==
  /\ pc = "advance"
  /\ LET p == [mem.work EXCEPT !.next = @ + 1, !.intent = FALSE] IN
     progress' = p /\ Stage("intend", p)
  /\ UNCHANGED <<current, sets, unsynced, kept, touched>>

-----------------------------------------------------------------------------
(* Around the commands.                                                     *)

\* An error or a death.
Abort ==
  /\ pc # "idle" /\ Stop
  /\ UNCHANGED <<current, sets, progress, unsynced, kept, touched>>

PowerLoss ==
  /\ unsynced # {}
  /\ \E back \in SUBSET unsynced :
       sets' = [id \in Ids |-> IF id \notin Known THEN NoSet ELSE
         [sets[id] EXCEPT !.files = [part \in Parts |->
            IF <<id, part>> \in back THEN progress.files[part] ELSE @[part]]]]
  /\ unsynced' = {} /\ Stop
  /\ UNCHANGED <<current, progress, kept, touched>>

\* The user changes or removes an entry (a manifest fares like the assets), or
\* adds one, as KeepBackup leaves one when it dies before the hold is published.
Touch(id) ==
  /\ id \in Known \ touched /\ Cardinality(touched) < MaxTouched
  /\ touched' = touched \cup {id}
  /\ \/ \E part \in {"assets", "hold"} : \E file \in {0, 2} \ {File(id, part)} :
          /\ File(id, "directory") # 0
          /\ sets' = [sets EXCEPT ![id].files[part] = file]
     \/ File(id, "directory") # 0 /\ sets' = [sets EXCEPT ![id].stray = TRUE]
  /\ unsynced' = {e \in unsynced : e[1] # id}
  /\ UNCHANGED <<current, progress, pc, mem, kept>>

Next ==
  \/ \E r \in Releases : BeginUpgrade(r)
  \/ Install \/ Finish \/ Choose
  \/ \E id \in Ids : BeginPrune(id) \/ Keep(id) \/ Rollback(id) \/ Touch(id)
  \/ Record \/ Intend \/ Unlink \/ Sync \/ Advance
  \/ Abort \/ PowerLoss

Spec == Init /\ [][Next]_vars

-----------------------------------------------------------------------------
(* Properties.                                                              *)

\* retention_controls.go:300-305, retention_plan.go:96-108, 280-336: a removal takes
\* nothing from a set that a rollback from the current release would accept
\* (recovery.go:60), and an upgrade removes nothing while its own set would not be
\* accepted, unless the user has touched it.
RecoveryRemains ==
  [][pc = "unlink" /\ pc' = "sync" /\ sets' # sets =>
       /\ \A q \in Known : Restorable(q) => Restorable(q)'
       /\ mem.op = "upgrade" => mem.new \in touched \/ Restorable(mem.new)']_vars

\* The sets and what is on record about them agree, through power failures and
\* whatever is installed meanwhile: a set kept for reference is whole until its removal
\* is asked for; what is missing from another one was removed by the pruning on record,
\* no further than its rows and intent say; and what that record calls removed never
\* comes back to be taken for a later entry (retention_plan.go:87-90, retention_prune.go:202-286).
RecordsAreTrue ==
  \A id \in Known \ touched :
    /\ id \in kept => Complete(id) /\ Held(id)
    /\ \/ \A part \in Parts \ {"hold"} : File(id, part) # 0
       \/ sets[id].files = Gone
       \/ progress # NoProgress /\ progress.id = id /\ Remaining(progress)
    /\ progress # NoProgress /\ progress.id = id =>
         \A part \in Done(progress) : File(id, part) = 0

\* docs/migration/BACKUP_RETENTION.md:48-50: a prune on request is accepted only when
\* a usable alternate recovery is left.  Refuted: the alternate's direction is not
\* looked at (retention_controls.go:318-334).
AlternateIsUsable ==
  [][pc = "idle" /\ pc' = "record" => \E q \in Ids \ {mem'.work.id} : Restorable(q)]_vars
=============================================================================
