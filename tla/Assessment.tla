----------------------------- MODULE Assessment -----------------------------
(***************************************************************************)
(* internal/assessment, publication*.go, durable_publication*.go and       *)
(* interrupted_recovery*.go: one file of the installation is replaced      *)
(* behind a barrier (runtime-publication.pending) and a durable record,    *)
(* then finished forward or restored; an interrupted publication is        *)
(* resolved in a direction the user consents to.                           *)
(*                                                                         *)
(* A call takes its steps one by one and may fail at any of them; a rename *)
(* may take effect and still report an error, and what it did may be       *)
(* unknown until the next call looks.  The process may die, and a power    *)
(* failure takes back what was not synced.                                 *)
(*                                                                         *)
(* The user may edit the file or the record except between the last check  *)
(* and a rename: the namespace is quiescent there (docs/adr/0094:50-56).   *)
(***************************************************************************)
EXTENDS Naturals, Sequences, FiniteSets

CONSTANTS
  Inodes,    \* inode numbers
  MaxEdits,  \* bound on edits by the user
  MaxFaults, \* bound on failed calls, deaths and power failures
  None,      \* no file, no record, no handle
  Blank,     \* a record file that was created and not yet written
  Foreign    \* a record the user has written

ASSUME InodesAssumption == Inodes \subseteq Nat /\ 0 \in Inodes
ASSUME BoundsAssumption == MaxEdits \in Nat /\ MaxFaults \in Nat

VARIABLES
  now,     \* the names: leaf (the published file), record and pending
  disk,    \* for each name, what a power failure may leave of it
  h,       \* the live handle, under the exclusive guard
  call,    \* the call that is at work on it, or "none"
  at,      \* the step of the call that is next
  agreed,  \* the interrupted states a direction was proposed for
  edits, faults,
  legacy   \* a publication without a record was begun (history)

vars == <<now, disk, h, call, at, agreed, edits, faults, legacy>>

\* A rename moves the change time of a file: the identity after it differs.
\* "mine" is FALSE of what the user has written.
Files == [image : {"before", "after", "other"}, inode : Inodes, moved : BOOLEAN, mine : BOOLEAN]
Original == [image |-> "before", inode |-> 0, moved |-> FALSE, mine |-> TRUE]

Terminal == {"forward_completed", "restored", "aborted"}
Phases == Terminal \cup {"prepared", "forward_prepared", "forward_published", "reverse_prepared"}
Records == [phase : Phases, original : Files, forward : Files \cup {None},
            candidate : Files \cup {None}, restored : Files \cup {None}]

\* validPublicationRecord.
Valid(r) ==
  /\ r \in Records
  /\ r.phase \in Terminal => r.candidate = None
  /\ r.phase \in {"prepared", "aborted"} => r.restored = None
  /\ r.phase = "prepared" => r.forward = None /\ r.candidate = None
  /\ r.phase \in {"forward_published", "forward_completed"} =>
       r.forward # None /\ r.candidate = None /\ r.restored = None
  /\ r.phase \in {"forward_prepared", "reverse_prepared"} =>
       r.forward # None /\ r.candidate # None /\ r.restored = None
  /\ r.phase = "restored" => r.forward # None /\ r.restored # None

\* A record that can be read.
Recorded(r) == r \notin {None, Blank, Foreign}

\* What a proposal, and the consent to it, is about.
Interrupted == [direction : {"forward", "reverse"}, leaf : Files, record : Records]

\* A handle: which file and record it owns, what it tries to put in their place.
Handles ==
  [durable : BOOLEAN, granted : BOOLEAN, used : BOOLEAN, removed : BOOLEAN,
   direction : {None, "forward", "reverse"}, original : Files,
   own : [leaf : Files, record : Records \cup {None, Blank}],
   try : [leaf : Files \cup {None}, record : Records \cup {None}],
   record : Records \cup {None}, stage : Files \cup {None}, consent : Interrupted \cup {None}]

ASSUME NullAssumption ==
  /\ None # Blank /\ None # Foreign /\ Blank # Foreign
  /\ \A null \in {None, Blank, Foreign} :
       null \notin Files /\ null \notin Records /\ null \notin Handles /\ null \notin Interrupted
  /\ None \notin {"forward", "reverse"}

\* The steps of each call, in order.  A publication without a record (plain)
\* has fewer.  Restore begins behind the swap when there is nothing to reverse.
Steps ==
  [none    |-> <<>>,
   open    |-> <<"pending", "sync_pending", "slot", "prepared", "sync_record", "grant">>,
   recover |-> <<"sync_pending", "grant">>,
   apply   |-> <<"stage_after", "forward_prepared", "sync_record", "swap", "sync_leaf",
                 "forward_published", "sync_record">>,
   finish  |-> <<"sync_leaf", "forward_completed", "sync_record", "unlink", "sync_pending", "done">>,
   restore |-> <<"stage_before", "reverse_prepared", "sync_record", "swap", "sync_leaf",
                 "sync_leaf", "reversed", "sync_record", "unlink", "sync_pending", "done">>,
   plain_open    |-> <<"pending", "sync_pending", "grant">>,
   plain_apply   |-> <<"stage_after", "swap", "sync_leaf">>,
   plain_restore |-> <<"stage_before", "swap", "sync_leaf", "sync_leaf", "unlink", "sync_pending", "done">>]

\* Types, with every record valid: on its way to encodePublicationRecord, and when
\* a restart reads it.
TypeOK ==
  /\ now \in [leaf : Files, record : Records \cup {None, Blank, Foreign}, pending : BOOLEAN]
  /\ disk \in [leaf : SUBSET Files, record : SUBSET (Records \cup {None, Blank, Foreign}),
               pending : SUBSET BOOLEAN]
  /\ now.leaf \in disk.leaf /\ now.record \in disk.record /\ now.pending \in disk.pending
  /\ \A r \in disk.record : Recorded(r) => Valid(r)
  /\ h \in Handles \cup {None} /\ (h # None /\ h.record # None => Valid(h.record))
  /\ call \in DOMAIN Steps /\ at \in 1..11 /\ (call # "none" => h # None /\ at \in DOMAIN Steps[call])
  /\ agreed \subseteq Interrupted
  /\ edits \in 0..MaxEdits /\ faults \in 0..MaxFaults /\ legacy \in BOOLEAN

Init ==
  /\ now = [leaf |-> Original, record |-> None, pending |-> FALSE]
  /\ disk = [leaf |-> {Original}, record |-> {None}, pending |-> {FALSE}]
  /\ h = None /\ call = "none" /\ at = 1 /\ agreed = {}
  /\ edits = 0 /\ faults = 0 /\ legacy = FALSE

-----------------------------------------------------------------------------
\* An inode number nothing refers to.
InUse ==
  LET known == {now.leaf} \cup disk.leaf \cup (IF h = None THEN {} ELSE {h.own.leaf, h.try.leaf, h.stage})
      told == {now.record} \cup disk.record \cup (IF h = None THEN {} ELSE {h.record, h.try.record})
      files == known \cup UNION {{r.original, r.forward, r.candidate, r.restored} :
                                   r \in told \ {None, Blank, Foreign}}
  IN  {f.inode : f \in files \ {None}} \cup {e.leaf.inode : e \in agreed}
Fresh(i) == i \in Inodes \ InUse /\ \A j \in Inodes \ InUse : i <= j

Prepared(image, i) == [image |-> image, inode |-> i, moved |-> FALSE, mine |-> TRUE]
Renamed(f) == [f EXCEPT !.moved = TRUE]

\* samePrepared, and the prepared identity of interruptedImage: the change time
\* is not compared.
SamePrepared(f, g) == f # None /\ g # None /\ Renamed(f) = Renamed(g)

\* The name holds the file, in memory and perhaps on disk; a sync decides.
Put(name, value) ==
  /\ now' = [now EXCEPT ![name] = value]
  /\ disk' = [disk EXCEPT ![name] = @ \cup {value}]
Keep(name) == disk' = [disk EXCEPT ![name] = {now[name]}]

\* reconcileImage, for what an earlier rename left unknown: the retained inode
\* tells whether it took effect.
Settled(name) ==
  IF h.try[name] = None THEN h.own[name]
  ELSE IF name = "leaf"
       THEN IF SamePrepared(h.try.leaf, now.leaf) THEN now.leaf ELSE h.own.leaf
       ELSE IF now.record = h.try.record THEN now.record ELSE h.own.record

Settle ==
  [h EXCEPT !.own = [leaf |-> Settled("leaf"), record |-> Settled("record")],
            !.record = IF h.try.record # None /\ now.record = h.try.record THEN now.record ELSE @,
            !.try = [leaf |-> None, record |-> None]]

\* Mutant: the bytes are compared, not the identity.
Mutant_Owned(g) ==
  /\ now.leaf.image = g.own.leaf.image
  /\ g.durable => now.record = g.own.record

\* checkImages: what the handle owns is unchanged.
Owned(g) ==
  /\ now.leaf = g.own.leaf
  /\ g.durable => now.record = g.own.record

-----------------------------------------------------------------------------
(* Calls.                                                                   *)

Idle == call = "none"
Rest == call' = "none" /\ at' = 1

Handle(durable, leaf) ==
  [durable |-> durable, granted |-> FALSE, used |-> FALSE, direction |-> None,
   original |-> leaf, own |-> [leaf |-> leaf, record |-> None], record |-> None,
   stage |-> None, try |-> [leaf |-> None, record |-> None], removed |-> FALSE, consent |-> None]

\* preflightJournal: no record of this operation, open or closed.
SlotFree == now.record = None

\* constructPublication: the file is the catalog's, the record slot is free.
Begin(durable) ==
  /\ h = None /\ ~now.pending
  /\ now.leaf.image = "before"
  /\ durable => SlotFree
  /\ h' = Handle(durable, now.leaf)
  /\ call' = (IF durable THEN "open" ELSE "plain_open") /\ at' = 1
  /\ legacy' = (legacy \/ ~durable)
  /\ UNCHANGED <<now, disk, agreed, edits, faults>>

\* Every call on a handle looks first, and is refused on a conflict.
Call(g, which, first) ==
  /\ h # None /\ h.granted /\ Idle
  /\ Owned(Settle)
  /\ h' = g /\ call' = which /\ at' = first
  /\ UNCHANGED <<now, disk, agreed, edits, faults, legacy>>

\* Mutant: a selected direction does not bound Apply.
Mutant_Apply ==
  /\ h # None /\ ~h.used
  /\ Call([Settle EXCEPT !.used = TRUE], IF h.durable THEN "apply" ELSE "plain_apply", 1)

\* Once, and not after a direction was selected.
Apply ==
  /\ h # None /\ ~h.used /\ (h.durable => h.direction = None)
  /\ Call([Settle EXCEPT !.used = TRUE], IF h.durable THEN "apply" ELSE "plain_apply", 1)

\* The owned after-image stays.
Finish ==
  /\ h # None /\ h.durable /\ h.direction # "reverse"
  /\ Settle.own.leaf.image = "after"
  /\ Call([Settle EXCEPT !.direction = "forward"], "finish", 1)

\* The original comes back, when the after-image was published.
Restore ==
  /\ h # None /\ h.direction # "forward"
  /\ LET reverse == Settle.own.leaf.image = "after"
         settled == [Settle EXCEPT !.direction = "reverse"] IN
     IF h.durable THEN Call(settled, "restore", IF reverse THEN 1 ELSE 6)
                  ELSE Call(settled, "plain_restore", IF reverse THEN 1 ELSE 4)

\* Close, on success or failure, and the death of the process.
Leave ==
  /\ h # None /\ h' = None /\ Rest
  /\ IF Idle THEN UNCHANGED faults ELSE faults < MaxFaults /\ faults' = faults + 1
  /\ UNCHANGED <<now, disk, agreed, edits, legacy>>

-----------------------------------------------------------------------------
(* Interrupted recovery.                                                    *)

\* Mutant: the completed forward image may be reversed.
Mutant_Image(r, leaf, direction) ==
  \/ /\ leaf.image = "before" /\ direction = "reverse"
     /\ \/ r.phase \in {"prepared", "forward_prepared", "aborted"} /\ leaf = r.original
        \/ r.phase = "reverse_prepared" /\ SamePrepared(leaf, r.candidate)
        \/ r.phase = "restored" /\ leaf = r.restored
  \/ /\ leaf.image = "after"
     /\ \/ r.phase = "forward_prepared" /\ SamePrepared(leaf, r.forward) /\ SamePrepared(leaf, r.candidate)
        \/ r.phase \in {"forward_published", "forward_completed"} /\ leaf = r.forward
        \/ r.phase = "reverse_prepared" /\ direction = "reverse" /\ leaf = r.forward

\* interruptedImage: what a phase says the file is, and the directions it leaves.
Image(r, leaf, direction) ==
  \/ /\ leaf.image = "before" /\ direction = "reverse"
     /\ \/ r.phase \in {"prepared", "forward_prepared", "aborted"} /\ leaf = r.original
        \/ r.phase = "reverse_prepared" /\ SamePrepared(leaf, r.candidate)
        \/ r.phase = "restored" /\ leaf = r.restored
  \/ /\ leaf.image = "after"
     /\ \/ r.phase = "forward_prepared" /\ SamePrepared(leaf, r.forward) /\ SamePrepared(leaf, r.candidate)
        \/ r.phase = "forward_published" /\ leaf = r.forward
        \/ r.phase = "reverse_prepared" /\ direction = "reverse" /\ leaf = r.forward
        \/ r.phase = "forward_completed" /\ direction = "forward" /\ leaf = r.forward

\* observeInterrupted.
Eligible(direction) ==
  /\ now.pending /\ Recorded(now.record)
  /\ Image(now.record, now.leaf, direction)
Evidence(direction) == [direction |-> direction, leaf |-> now.leaf, record |-> now.record]

\* ProposeInterruptedRecovery takes no lock: a handle may be at work.
Propose(direction) ==
  /\ Eligible(direction)
  /\ agreed' = {e \in agreed : e.direction # direction} \cup {Evidence(direction)}
  /\ UNCHANGED <<now, disk, h, call, at, edits, faults, legacy>>

\* Mutant: a digest of another state of the same operation will do.
Mutant_BeginRecovery(direction) ==
  /\ h = None /\ \E e \in agreed : e.direction = direction
  /\ Eligible(direction)
  /\ h' = [Handle(TRUE, now.record.original) EXCEPT
             !.used = TRUE, !.direction = direction,
             !.own = [leaf |-> now.leaf, record |-> now.record],
             !.record = IF now.leaf.image = "after" THEN [now.record EXCEPT !.forward = now.leaf]
                                                    ELSE now.record,
             !.consent = CHOOSE e \in agreed : e.direction = direction]
  /\ call' = "recover" /\ at' = 1
  /\ UNCHANGED <<now, disk, agreed, edits, faults, legacy>>

\* BeginInterruptedRecovery: the same evidence, now under exclusion.
BeginRecovery(direction) ==
  /\ h = None /\ Evidence(direction) \in agreed
  /\ Eligible(direction)
  /\ h' = [Handle(TRUE, now.record.original) EXCEPT
             !.used = TRUE, !.direction = direction,
             !.own = [leaf |-> now.leaf, record |-> now.record],
             !.record = IF now.leaf.image = "after" THEN [now.record EXCEPT !.forward = now.leaf]
                                                    ELSE now.record,
             !.consent = Evidence(direction)]
  /\ call' = "recover" /\ at' = 1
  /\ UNCHANGED <<now, disk, agreed, edits, faults, legacy>>

-----------------------------------------------------------------------------
(* Steps.                                                                   *)

Doing(step) == at \in DOMAIN Steps[call] /\ Steps[call][at] = step
Done(g) ==
  /\ h' = g
  /\ IF at < Len(Steps[call]) THEN at' = at + 1 /\ UNCHANGED call ELSE Rest
  /\ UNCHANGED <<agreed, edits, faults, legacy>>

\* An error: a handle that was not granted is closed.
Fail(g) ==
  /\ faults < MaxFaults /\ faults' = faults + 1
  /\ h' = (IF h.granted THEN g ELSE None) /\ Rest
  /\ UNCHANGED <<agreed, edits, legacy>>

\* A rename with its outcome: it took effect or not, and the handle knows or not.
Rename(name, file, g) ==
  \/ /\ Put(name, file)
     /\ \/ Done([g EXCEPT !.own[name] = file])
        \/ Fail([g EXCEPT !.own[name] = file])
        \/ Fail([g EXCEPT !.try[name] = file, !.record = h.record])
  \/ /\ Fail([g EXCEPT !.record = h.record])
     /\ UNCHANGED <<now, disk>>
  \/ /\ Fail([g EXCEPT !.try[name] = file, !.record = h.record])
     /\ UNCHANGED <<now, disk>>

CreatePending ==
  /\ Doing("pending") /\ Owned(h)
  /\ Put("pending", TRUE) /\ Done(h)

\* createFile: the record's file, still empty.
CreateRecord ==
  /\ Doing("slot") /\ Owned(h)
  /\ Put("record", Blank)
  /\ Done([h EXCEPT !.own.record = Blank])

Grant == Doing("grant") /\ Owned(h) /\ Done([h EXCEPT !.granted = TRUE]) /\ UNCHANGED <<now, disk>>

\* prepareImage: a sibling, synced and read back.
Staged == [stage_after |-> "after", stage_before |-> "before"]
Stage ==
  /\ h # None /\ Owned(h)
  /\ \E step \in DOMAIN Staged, i \in Inodes :
       Doing(step) /\ Fresh(i) /\ Done([h EXCEPT !.stage = Prepared(Staged[step], i)])
  /\ UNCHANGED <<now, disk>>

\* Mutant: the identity from before the rename is carried over.
Mutant_Published(r) == [r EXCEPT !.phase = "forward_published", !.candidate = None]

\* The forward image under its name, before and after Finish.
Published(r) == [r EXCEPT !.phase = "forward_published", !.forward = h.own.leaf, !.candidate = None]
Completed(r) == [Published(r) EXCEPT !.phase = "forward_completed", !.restored = None]

\* restore: the original came back in another file, or was never replaced.
Reversed(r) ==
  IF h.own.leaf.image = "before" /\ h.own.leaf # h.original
  THEN [r EXCEPT !.phase = "restored", !.candidate = None, !.restored = h.own.leaf]
  ELSE [r EXCEPT !.phase = "aborted", !.candidate = None]

\* The record of a phase, from the journal's.
Target(phase) ==
  LET r == h.record IN
  CASE phase = "prepared" -> [phase |-> "prepared", original |-> h.original, forward |-> None,
                              candidate |-> None, restored |-> None]
    [] phase = "forward_prepared" -> [r EXCEPT !.phase = phase, !.forward = h.stage, !.candidate = h.stage]
    [] phase = "forward_published" -> Published(r)
    [] phase = "forward_completed" -> Completed(r)
    [] phase = "reverse_prepared" -> [r EXCEPT !.phase = phase, !.candidate = h.stage]
    [] phase = "reversed" -> Reversed(r)

Marks == {"prepared", "forward_prepared", "forward_published", "forward_completed",
          "reverse_prepared", "reversed"}

\* writeRecord, up to its syncs; equal bytes are not written again.
Mark ==
  \E phase \in Marks :
    /\ Doing(phase) /\ Owned(h)
    /\ IF h.own.record = Target(phase) THEN Done(h) /\ UNCHANGED <<now, disk>>
       ELSE Rename("record", Target(phase), [h EXCEPT !.record = Target(phase)])

\* publish: the sibling takes the name.
Swap == Doing("swap") /\ Rename("leaf", Renamed(h.stage), h)

\* removePending.
Unlink ==
  /\ Doing("unlink") /\ Owned(h)
  /\ IF h.removed THEN UNCHANGED <<now, disk>> ELSE Put("pending", FALSE)
  /\ Done([h EXCEPT !.removed = TRUE])

Synced == [sync_leaf |-> "leaf", sync_record |-> "record", sync_pending |-> "pending"]
Sync ==
  \E step \in DOMAIN Synced :
    Doing(step) /\ Keep(Synced[step]) /\ Done(h) /\ UNCHANGED now

End == Doing("done") /\ Done(None) /\ UNCHANGED <<now, disk>>

\* Any other failure of a step, without effect.
Error == ~Idle /\ Fail(h) /\ UNCHANGED <<now, disk>>

-----------------------------------------------------------------------------
(* Around the calls.                                                        *)

PowerLoss ==
  /\ faults < MaxFaults /\ faults' = faults + 1
  /\ \E leaf \in disk.leaf, record \in disk.record, pending \in disk.pending :
       /\ now' = [leaf |-> leaf, record |-> record, pending |-> pending]
       /\ disk' = [leaf |-> {leaf}, record |-> {record}, pending |-> {pending}]
  /\ h' = None /\ Rest
  /\ UNCHANGED <<agreed, edits, legacy>>

\* From the last look to the rename nobody else is at the names.
Quiescent ==
  \/ Doing("swap")
  \/ Doing("sync_record") /\ at < Len(Steps[call]) /\ Steps[call][at + 1] = "swap"

\* The user writes any image into a file of his own, or touches the record.
Edit ==
  /\ edits < MaxEdits /\ edits' = edits + 1
  /\ ~Quiescent
  /\ \/ \E image \in {"before", "after", "other"}, i \in Inodes :
          LET file == [Prepared(image, i) EXCEPT !.mine = FALSE] IN
          /\ Fresh(i)
          /\ now' = [now EXCEPT !.leaf = file] /\ disk' = [disk EXCEPT !.leaf = {file}]
     \/ /\ now.record # None
        /\ now' = [now EXCEPT !.record = Foreign] /\ disk' = [disk EXCEPT !.record = {Foreign}]
  /\ UNCHANGED <<h, call, at, agreed, faults, legacy>>

Next ==
  \/ \E durable \in BOOLEAN : Begin(durable)
  \/ Apply \/ Finish \/ Restore \/ Leave
  \/ \E direction \in {"forward", "reverse"} : Propose(direction) \/ BeginRecovery(direction)
  \/ CreatePending \/ CreateRecord \/ Grant \/ Stage \/ Mark \/ Swap \/ Unlink \/ Sync \/ End \/ Error
  \/ PowerLoss \/ Edit

Spec == Init /\ [][Next]_vars

-----------------------------------------------------------------------------
(* Properties.                                                              *)

\* durable_publication.go:86-105, publication.go:166-191: when a power failure
\* may take the barrier away, file and record agree on the outcome, whatever of
\* them it leaves.
BarrierOutlastsDoubt ==
  FALSE \in disk.pending /\ edits = 0 /\ ~legacy =>
    \A leaf \in disk.leaf, r \in disk.record :
      leaf.image = "after" <=> Recorded(r) /\ r.phase = "forward_completed"

\* interrupted_recovery_observe.go:341-377: wherever a publication was cut off
\* after its first record, some direction is left.  Two reversals are not covered:
\* of a forward image that was never recorded as published, and of one that was
\* not synced, when a power failure brings the original back.
Resolvable ==
  h = None /\ now.pending /\ Recorded(now.record) /\ edits = 0 /\ ~legacy
    /\ (now.record.phase = "reverse_prepared" =>
          now.record.forward.moved /\ now.leaf # now.record.original)
    => \E direction \in {"forward", "reverse"} : Eligible(direction)

\* publication_storage.go:203-253, durable_publication.go:86-88,
\* interrupted_recovery_observe.go:372-373: nothing is taken back that is settled:
\* what the user has written since a handle took the file over is not replaced, and
\* an outcome that is on disk stays the outcome.
Outcome(records) == IF \A r \in records : Recorded(r) /\ r.phase \in Terminal
                    THEN {r.phase : r \in records} ELSE {}
SettledStays ==
  [][/\ Doing("swap") /\ now'.leaf # now.leaf /\ ~Doing("swap")' => now.leaf = h.own.leaf
     /\ Outcome(disk.record) # {} /\ edits' = edits =>
          Outcome(disk'.record) = Outcome(disk.record)]_vars

\* interrupted_recovery.go:120-122: the barrier comes down in the direction that
\* was proposed for the image and the record found then.
AsProposed ==
  h # None /\ h.consent # None /\ h.granted =>
    \/ h.own.leaf = h.consent.leaf /\ h.direction = h.consent.direction
    \/ h.direction = "reverse" /\ SamePrepared(h.own.leaf, h.stage)
=============================================================================
