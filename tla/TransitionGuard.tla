-------------------------- MODULE TransitionGuard ---------------------------
(***************************************************************************)
(* internal/transition: the exclusion every cooperating controller takes   *)
(* before it works on, or replaces, an installation.                       *)
(*                                                                         *)
(*  - the root lease: a flock on the project directory, shared for an      *)
(*    installed command, exclusive for the installer;                      *)
(*  - the guard: a flock on .factory/runtime-transition.lock, shared for   *)
(*    budget and loop work, exclusive for a publication;                   *)
(*  - activity evidence: a shared owner creates one marker file in         *)
(*    .factory/runtime-activity/.  The flock dies with its process, the    *)
(*    marker does not, and neither does a native process group that the    *)
(*    controller launched;                                                 *)
(*  - .factory/runtime-publication.pending: left by an interrupted         *)
(*    publication.                                                         *)
(*                                                                         *)
(* Each acquisition is a sequence of system calls, so it is a sequence of  *)
(* actions here; a controller can fail or die between any two of them and  *)
(* the machine can lose power.                                             *)
(***************************************************************************)
EXTENDS Naturals, FiniteSets

CONSTANTS Procs,    \* controller processes
          Names,    \* activity marker names; rand.Text() never repeats one
          NoName,   \* no marker
          NoProc    \* no process

ASSUME NoNameAssumption == NoName \notin Names
ASSUME NoProcAssumption == NoProc \notin Procs

VARIABLES
  pc,         \* how far a process's acquisition or closure has come
  kind,       \* which constructor it called
  lease,      \* its flock on the project directory
  flock,      \* its flock on the transition lock file
  marker,     \* the marker it created
  activity,   \* names visible in runtime-activity
  durable,    \* names a power loss would preserve
  pending,    \* runtime-publication.pending exists
  children,   \* markers whose native process group may still be running
  unresolved  \* markers whose launched work has no terminal record

vars == <<pc, kind, lease, flock, marker, activity, durable, pending,
          children, unresolved>>

Modes  == {"none", "sh", "ex"}
Kinds  == {"none", "reader", "shared", "exclusive", "recovery", "preparation"}
Stages == {"idle", "rooted", "locked", "marked", "granted", "unlinked"}

\* The constructors whose grant is exclusive.
Transitions == {"exclusive", "recovery", "preparation"}

TypeOK ==
  /\ pc \in [Procs -> Stages]
  /\ kind \in [Procs -> Kinds]
  /\ lease \in [Procs -> Modes]
  /\ flock \in [Procs -> Modes]
  /\ marker \in [Procs -> Names \cup {NoName}]
  /\ activity \in SUBSET Names
  /\ durable \in SUBSET Names
  /\ pending \in BOOLEAN
  /\ children \in SUBSET Names
  /\ unresolved \in SUBSET Names

Init ==
  /\ pc = [p \in Procs |-> "idle"]
  /\ kind = [p \in Procs |-> "none"]
  /\ lease = [p \in Procs |-> "none"]
  /\ flock = [p \in Procs |-> "none"]
  /\ marker = [p \in Procs |-> NoName]
  /\ activity = {}
  /\ durable = {}
  /\ pending = FALSE
  /\ children = {}
  /\ unresolved = {}

-----------------------------------------------------------------------------
(* The Mutant_ operators here and in the other modules are plausible       *)
(* mistakes in the definition that follows them.  Nothing uses them: they  *)
(* stand in for that definition when a property is shown to notice them.   *)

\* A shared request that does not wait for an exclusive holder.
Mutant_Compatible(held, p, mode) ==
  mode = "ex" => \A q \in Procs \ {p} : held[q] = "none"

\* flock(2) with LOCK_NB: the call succeeds or fails at once.
Compatible(held, p, mode) ==
  \A q \in Procs \ {p} :
    IF mode = "ex" THEN held[q] = "none" ELSE held[q] # "ex"

Files == <<activity, durable, pending, children, unresolved>>

(* ReadOnly and RootExclusive flock the project directory before anything  *)
(* else.  An installed command holds the shared lease around its whole     *)
(* run, whatever guard it takes inside it; a source-mode command takes no  *)
(* lease at all; the installer takes the exclusive one.                    *)
AcquireLease(p, k, mode) ==
  /\ pc[p] = "idle"
  /\ \/ k = "reader" /\ mode = "sh"
     \/ k \in {"shared", "exclusive", "recovery"} /\ mode \in {"sh", "none"}
     \/ k \in Transitions /\ mode = "ex"
  /\ mode # "none" => Compatible(lease, p, mode)
  /\ pc' = [pc EXCEPT ![p] = "rooted"]
  /\ kind' = [kind EXCEPT ![p] = k]
  /\ lease' = [lease EXCEPT ![p] = mode]
  /\ UNCHANGED <<flock, marker, Files>>

(* A read-only lease is granted, and revalidated by every later Check,     *)
(* only while no publication is pending.                                   *)
GrantReader(p) ==
  /\ pc[p] = "rooted"
  /\ kind[p] = "reader"
  /\ ~pending
  /\ pc' = [pc EXCEPT ![p] = "granted"]
  /\ UNCHANGED <<kind, lease, flock, marker, Files>>

FlockMode(k) == IF k = "shared" THEN "sh" ELSE "ex"

(* An installed worker's shared lease has passed its own pending check.    *)
AcquireFlock(p) ==
  /\ pc[p] = "rooted"
  /\ kind[p] # "reader"
  /\ lease[p] = "sh" => ~pending
  /\ Compatible(flock, p, FlockMode(kind[p]))
  /\ flock' = [flock EXCEPT ![p] = FlockMode(kind[p])]
  /\ pc' = [pc EXCEPT ![p] = "locked"]
  /\ UNCHANGED <<kind, lease, marker, Files>>

(* Under the shared flock: pending must be absent, then a fresh marker is  *)
(* created with O_EXCL.  It is visible, not yet durable.                   *)
Mark(p) ==
  /\ pc[p] = "locked"
  /\ kind[p] = "shared"
  /\ ~pending
  /\ \E n \in Names \ (activity \cup durable \cup children \cup unresolved
                       \cup {marker[q] : q \in Procs}) :
       /\ activity' = activity \cup {n}
       /\ marker' = [marker EXCEPT ![p] = n]
  /\ pc' = [pc EXCEPT ![p] = "marked"]
  /\ UNCHANGED <<kind, lease, flock, durable, pending, children, unresolved>>

\* Recovery that trusts the flock and does not read the activity directory.
Mutant_ReadActivity(p) ==
  /\ pc[p] = "locked"
  /\ kind[p] \in Transitions
  /\ kind[p] = "exclusive" => ~pending /\ activity = {}
  /\ pc' = [pc EXCEPT ![p] = "marked"]
  /\ UNCHANGED <<kind, lease, flock, marker, Files>>

(* Under the exclusive flock: any entry in the activity directory refuses. *)
(* Recovery and preparation read the entries before they look at pending.  *)
ReadActivity(p) ==
  /\ pc[p] = "locked"
  /\ kind[p] \in Transitions
  /\ kind[p] = "exclusive" => ~pending
  /\ activity = {}
  /\ pc' = [pc EXCEPT ![p] = "marked"]
  /\ UNCHANGED <<kind, lease, flock, marker, Files>>

\* A grant that leaves the marker's directory entry unsynced.
Mutant_Grant(p) ==
  /\ pc[p] = "marked"
  /\ kind[p] = "recovery" <=> pending
  /\ pc' = [pc EXCEPT ![p] = "granted"]
  /\ UNCHANGED <<kind, lease, flock, marker, Files>>

(* acquire syncs the marker, the lock and the directories above it, checks *)
(* every pinned identity again and looks for pending a second time.        *)
Grant(p) ==
  /\ pc[p] = "marked"
  /\ kind[p] = "recovery" <=> pending
  /\ durable' = IF kind[p] \in {"shared", "exclusive"} THEN activity
                                                      ELSE durable
  /\ pc' = [pc EXCEPT ![p] = "granted"]
  /\ UNCHANGED <<kind, lease, flock, marker, activity, pending, children,
                 unresolved>>

-----------------------------------------------------------------------------
(* What owners do with a grant.                                            *)

\* A worker launches a native process group: the child does not inherit the
\* lock (O_CLOEXEC), and its record stays open until it is finalized.
Launch(p) ==
  /\ pc[p] = "granted"
  /\ kind[p] = "shared"
  /\ children' = children \cup {marker[p]}
  /\ unresolved' = unresolved \cup {marker[p]}
  /\ UNCHANGED <<pc, kind, lease, flock, marker, activity, durable, pending>>

ChildExit(n) ==
  /\ n \in children
  /\ children' = children \ {n}
  /\ UNCHANGED <<pc, kind, lease, flock, marker, activity, durable, pending,
                 unresolved>>

\* The owner saw the group's exit and published a terminal record.
Finalize(p) ==
  /\ pc[p] = "granted"
  /\ marker[p] \in unresolved
  /\ marker[p] \notin children
  /\ unresolved' = unresolved \ {marker[p]}
  /\ UNCHANGED <<pc, kind, lease, flock, marker, activity, durable, pending,
                 children>>

\* A publication raises and lowers the marker that bars ordinary work; each
\* change is synced before the publication goes on.
MovePending(p) ==
  /\ pc[p] = "granted"
  /\ kind[p] \in {"exclusive", "recovery"}
  /\ pending' = ~pending
  /\ UNCHANGED <<pc, kind, lease, flock, marker, activity, durable, children,
                 unresolved>>

-----------------------------------------------------------------------------
(* Close.                                                                  *)

\* A close that removes the evidence of work it has no terminal record of.
Mutant_Unlink(p) ==
  /\ pc[p] = "granted"
  /\ kind[p] = "shared"
  /\ activity' = activity \ {marker[p]}
  /\ marker' = [marker EXCEPT ![p] = NoName]
  /\ pc' = [pc EXCEPT ![p] = "unlinked"]
  /\ UNCHANGED <<kind, lease, flock, durable, pending, children, unresolved>>

\* Close(clean) with a marker: unlink it only for terminal work.
Unlink(p) ==
  /\ pc[p] = "granted"
  /\ kind[p] = "shared"
  /\ marker[p] \notin unresolved
  /\ activity' = activity \ {marker[p]}
  /\ marker' = [marker EXCEPT ![p] = NoName]
  /\ pc' = [pc EXCEPT ![p] = "unlinked"]
  /\ UNCHANGED <<kind, lease, flock, durable, pending, children, unresolved>>

Released(p) ==
  /\ pc' = [pc EXCEPT ![p] = "idle"]
  /\ kind' = [kind EXCEPT ![p] = "none"]
  /\ lease' = [lease EXCEPT ![p] = "none"]
  /\ flock' = [flock EXCEPT ![p] = "none"]
  /\ marker' = [marker EXCEPT ![p] = NoName]

\* After the unlink the activity directory is synced and every file closed.
CloseClean(p) ==
  /\ pc[p] = "unlinked"
  /\ durable' = activity
  /\ Released(p)
  /\ UNCHANGED <<activity, pending, children, unresolved>>

(* closeFiles without the rest: Close(clean = FALSE), Close of an owner    *)
(* without a marker, any acquisition that was refused or failed, a sync    *)
(* that failed after the unlink, and the death of the process, after which *)
(* the kernel drops its locks.  A marker that was created stays.           *)
Abandon(p) ==
  /\ pc[p] # "idle"
  /\ Released(p)
  /\ UNCHANGED Files

-----------------------------------------------------------------------------
(* Around the controllers.                                                 *)

\* Power loss: processes and their children are gone; of the directory
\* changes that were never synced, any subset may have reached the disk.
PowerLoss ==
  /\ \E disk \in SUBSET Names :
       /\ activity \cap durable \subseteq disk
       /\ disk \subseteq activity \cup durable
       /\ activity' = disk
       /\ durable' = disk
  /\ children' = {}
  /\ pc' = [p \in Procs |-> "idle"]
  /\ kind' = [p \in Procs |-> "none"]
  /\ lease' = [p \in Procs |-> "none"]
  /\ flock' = [p \in Procs |-> "none"]
  /\ marker' = [p \in Procs |-> NoName]
  /\ UNCHANGED <<pending, unresolved>>

\* docs/BUDGETS.md: once the operator has confirmed that the group stopped,
\* the orphaned evidence and its record are reconciled by hand.
Reconcile(n) ==
  /\ n \in activity
  /\ n \notin children
  /\ \A p \in Procs : marker[p] # n
  /\ activity' = activity \ {n}
  /\ durable' = durable \ {n}
  /\ unresolved' = unresolved \ {n}
  /\ UNCHANGED <<pc, kind, lease, flock, marker, pending, children>>

-----------------------------------------------------------------------------
Next ==
  \/ \E p \in Procs :
       \/ \E k \in Kinds, mode \in Modes : AcquireLease(p, k, mode)
       \/ GrantReader(p)
       \/ AcquireFlock(p)
       \/ Mark(p)
       \/ ReadActivity(p)
       \/ Grant(p)
       \/ Launch(p)
       \/ Finalize(p)
       \/ MovePending(p)
       \/ Unlink(p)
       \/ CloseClean(p)
       \/ Abandon(p)
  \/ \E n \in Names : ChildExit(n) \/ Reconcile(n)
  \/ PowerLoss

Spec == Init /\ [][Next]_vars

-----------------------------------------------------------------------------
(* Properties.                                                             *)

Granted(p, kinds) == pc[p] = "granted" /\ kind[p] \in kinds

\* guard.go:83, "Exclusive refuses immediately if any participant or activity
\* evidence remains": whoever holds a granted transition shares the
\* installation neither with another guard owner nor with a native process
\* group, not even one whose controller died long ago.
TransitionExclusive ==
  \A p \in Procs : Granted(p, Transitions) =>
    /\ \A q \in Procs \ {p} : ~Granted(q, Transitions \cup {"shared"})
    /\ children = {}

\* acquire's two looks at the pending marker: no controller ever works while a
\* publication is pending, in whatever order the two arrive.
PendingBarsWork ==
  pending => \A p \in Procs : ~Granted(p, {"shared"})

\* Close and reconcilePID: work without a terminal record keeps its marker, on
\* disk, through crashes of its controller and of the machine, until it is
\* reconciled.
EvidenceSurvives == unresolved \subseteq activity \cap durable

\* root_lease.go: an installer's grant (lease and guard both exclusive) leaves
\* no other command granted, not even a reader that never takes the guard.
InstallerAlone ==
  \A p \in Procs : Granted(p, Transitions) /\ lease[p] = "ex" =>
    \A q \in Procs \ {p} :
      ~Granted(q, Kinds) /\ (pc[q] # "idle" => lease[q] = "none")

\* The guard implements the exclusion its callers rely on.  A controller that
\* died leaves its native process group at work.
WorkNow == {marker[p] : p \in {q \in Procs : Granted(q, {"shared"})}}
             \cup children

Writing == {p \in Procs : Granted(p, Transitions)}
WriterNow == IF Writing = {} THEN NoProc ELSE CHOOSE p \in Writing : TRUE

Exclusion == INSTANCE RuntimeExclusion WITH
  Works <- Names, Writers <- Procs, NoWriter <- NoProc,
  work <- WorkNow, writer <- WriterNow, barrier <- pending

\* Every behaviour of the system calls, failures and crashes above is one of
\* RuntimeExclusion.
ImplementsExclusion == Exclusion!Spec

=============================================================================
