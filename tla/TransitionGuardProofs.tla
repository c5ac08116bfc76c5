----------------------- MODULE TransitionGuardProofs ------------------------
(***************************************************************************)
(* Proofs about TransitionGuard for every set of controllers and marker    *)
(* names: its type invariant, its safety invariants and that it implements *)
(* RuntimeExclusion.                                                       *)
(***************************************************************************)
EXTENDS TransitionGuard, TLAPS

Holders == {"locked", "marked", "granted", "unlinked"}

\* What a process holds at each stage of acquisition and closure.
StageInv ==
  \A p \in Procs :
    /\ pc[p] = "idle" => kind[p] = "none" /\ lease[p] = "none"
    /\ pc[p] \in {"idle", "rooted"} => flock[p] = "none"
    /\ pc[p] \in Holders \ {"granted"} => kind[p] \notin {"none", "reader"}
    /\ pc[p] \in {"rooted", "granted"} => kind[p] # "none"
    /\ pc[p] \in Holders /\ kind[p] # "reader" => flock[p] = FlockMode(kind[p])
    /\ kind[p] = "reader" => lease[p] = "sh" /\ flock[p] = "none"

\* flock(2): an exclusive holder is the only holder.
LockInv ==
  \A p, q \in Procs : p # q =>
    /\ flock[p] = "ex" => flock[q] = "none"
    /\ lease[p] = "ex" => lease[q] = "none"

\* A marker belongs to one shared owner, is visible while it is held, and is
\* durable once granted.
MarkerInv ==
  /\ \A p \in Procs :
       /\ marker[p] # NoName => pc[p] \in {"marked", "granted"} /\ kind[p] = "shared"
       /\ pc[p] \in {"marked", "granted"} /\ kind[p] = "shared" => marker[p] \in activity
       /\ Granted(p, {"shared"}) => marker[p] \in durable
  /\ \A p, q \in Procs : p # q /\ marker[p] # NoName => marker[p] # marker[q]

\* A running native process group has an unfinished record.
ChildInv == children \subseteq unresolved

\* Once an exclusive holder has found the activity directory empty, it stays so.
QuietInv ==
  \A p \in Procs :
    pc[p] \in {"marked", "granted"} /\ kind[p] \in Transitions => activity = {}

IInv ==
  /\ TypeOK
  /\ StageInv
  /\ LockInv
  /\ MarkerInv
  /\ ChildInv
  /\ EvidenceSurvives
  /\ QuietInv
  /\ PendingBarsWork

-----------------------------------------------------------------------------
\* Nothing is held and nothing is left behind when the system is installed.
LEMMA InitInv == Init => IInv
<1> SUFFICES ASSUME Init  PROVE IInv
  OBVIOUS
<1>1. TypeOK
  BY DEF Init, TypeOK, Modes, Kinds, Stages
<1>2. StageInv /\ LockInv
  BY DEF Init, StageInv, LockInv, Holders
<1>3. MarkerInv /\ ChildInv /\ EvidenceSurvives
  BY DEF Init, MarkerInv, ChildInv, EvidenceSurvives, Granted
<1>4. QuietInv /\ PendingBarsWork
  BY DEF Init, QuietInv, PendingBarsWork
<1> QED  BY <1>1, <1>2, <1>3, <1>4 DEF IInv

\* One lemma per action: it preserves the inductive invariant.  Each step shows
\* one conjunct the action can disturb; the last one, those it cannot.

\* root_lease.go, rootLease: a lease is only granted beside compatible leases.
LEMMA AcquireLeaseInv ==
  ASSUME IInv, NEW p \in Procs, NEW k \in Kinds, NEW mode \in Modes, AcquireLease(p, k, mode)
  PROVE  IInv'
<1> USE NoNameAssumption DEF IInv, TypeOK, AcquireLease, Files, Compatible, Transitions
<1>1. TypeOK'
  BY DEF Modes, Kinds, Stages
<1>2. StageInv'
  BY DEF StageInv, Holders, FlockMode, Kinds
<1>3. LockInv'
  BY DEF LockInv, StageInv, Holders
<1>4. MarkerInv' /\ ChildInv' /\ EvidenceSurvives' /\ QuietInv' /\ PendingBarsWork'
  BY DEF MarkerInv, ChildInv, EvidenceSurvives, QuietInv, PendingBarsWork,
      Granted
<1> QED
  BY <1>1, <1>2, <1>3, <1>4 DEF IInv

\* A read-only command needs its shared lease and nothing else.
LEMMA GrantReaderInv ==
  ASSUME IInv, NEW p \in Procs, GrantReader(p)
  PROVE  IInv'
<1> USE NoNameAssumption DEF IInv, TypeOK, GrantReader, Files
<1>1. TypeOK'
  BY DEF Modes, Kinds, Stages
<1>2. StageInv'
  BY DEF StageInv, Holders, FlockMode, Kinds
<1>3. MarkerInv'
  BY DEF MarkerInv, StageInv, Granted, Holders, Transitions
<1>4. LockInv' /\ ChildInv' /\ EvidenceSurvives' /\ QuietInv' /\ PendingBarsWork'
  BY DEF LockInv, ChildInv, EvidenceSurvives, QuietInv, PendingBarsWork,
      Granted, Transitions
<1> QED
  BY <1>1, <1>2, <1>3, <1>4 DEF IInv

\* guard.go, acquire: a directory lock is only granted beside compatible locks.
LEMMA AcquireFlockInv ==
  ASSUME IInv, NEW p \in Procs, AcquireFlock(p)
  PROVE  IInv'
<1> USE NoNameAssumption DEF IInv, TypeOK, AcquireFlock, Files, Compatible
<1>1. TypeOK'
  BY DEF Modes, Kinds, Stages, FlockMode
<1>2. StageInv'
  BY DEF StageInv, Holders, FlockMode, Kinds
<1>3. LockInv'
  BY DEF LockInv, StageInv, Holders
<1>4. MarkerInv'
  BY DEF MarkerInv, StageInv, Granted, Holders, Transitions
<1>5. ChildInv' /\ EvidenceSurvives' /\ QuietInv' /\ PendingBarsWork'
  BY DEF ChildInv, EvidenceSurvives, QuietInv, PendingBarsWork, Granted
<1> QED
  BY <1>1, <1>2, <1>3, <1>4, <1>5 DEF IInv

\* guard.go, acquire: a fresh marker name belongs to the worker that made it.
LEMMA MarkInv ==
  ASSUME IInv, NEW p \in Procs, Mark(p)
  PROVE  IInv'
<1> USE NoNameAssumption DEF IInv, TypeOK, Mark
<1>1. TypeOK'
  BY DEF Modes, Kinds, Stages
<1>2. StageInv'
  BY DEF StageInv, Holders, FlockMode, Kinds
<1>3. MarkerInv'
  BY DEF MarkerInv, StageInv, Granted, Holders, Transitions
<1>4. QuietInv'
  BY DEF QuietInv, LockInv, StageInv, FlockMode, Holders, Transitions
<1>5. LockInv' /\ ChildInv' /\ EvidenceSurvives' /\ PendingBarsWork'
  BY DEF LockInv, ChildInv, EvidenceSurvives, PendingBarsWork, Granted
<1> QED
  BY <1>1, <1>2, <1>3, <1>4, <1>5 DEF IInv

\* guard.go, acquireRecoveryFor: a transition goes on only from an empty directory.
LEMMA ReadActivityInv ==
  ASSUME IInv, NEW p \in Procs, ReadActivity(p)
  PROVE  IInv'
<1> USE NoNameAssumption DEF IInv, TypeOK, ReadActivity, Files
<1>1. TypeOK'
  BY DEF Modes, Kinds, Stages
<1>2. StageInv'
  BY DEF StageInv, Holders, FlockMode, Kinds
<1>3. MarkerInv'
  BY DEF MarkerInv, StageInv, Granted, Holders, Transitions
<1>4. QuietInv'
  BY DEF QuietInv, LockInv, StageInv, FlockMode, Holders, Transitions
<1>5. LockInv' /\ ChildInv' /\ EvidenceSurvives' /\ PendingBarsWork'
  BY DEF LockInv, ChildInv, EvidenceSurvives, PendingBarsWork, Granted
<1> QED
  BY <1>1, <1>2, <1>3, <1>4, <1>5 DEF IInv

\* guard.go, acquire: work is granted once its marker is synced and no barrier is seen.
LEMMA GrantInv ==
  ASSUME IInv, NEW p \in Procs, Grant(p)
  PROVE  IInv'
<1> USE NoNameAssumption DEF IInv, TypeOK, Grant
<1>1. TypeOK'
  BY DEF Modes, Kinds, Stages
<1>2. StageInv'
  BY DEF StageInv, Holders, FlockMode, Kinds
<1>3. MarkerInv'
  BY DEF MarkerInv, StageInv, Granted, Holders, Transitions
<1>4. EvidenceSurvives'
  BY DEF EvidenceSurvives, MarkerInv, ChildInv, Granted
<1>5. QuietInv'
  BY DEF QuietInv, LockInv, StageInv, FlockMode, Holders, Transitions
<1>6. PendingBarsWork'
  BY DEF PendingBarsWork, LockInv, StageInv, FlockMode, Holders, Granted,
      Transitions
<1>7. LockInv' /\ ChildInv'
  BY DEF LockInv, ChildInv
<1> QED
  BY <1>1, <1>2, <1>3, <1>4, <1>5, <1>6, <1>7 DEF IInv

\* budget/runner.go: native work starts under a marker that is already durable.
LEMMA LaunchInv ==
  ASSUME IInv, NEW p \in Procs, Launch(p)
  PROVE  IInv'
<1> USE NoNameAssumption DEF IInv, TypeOK, Launch
<1>1. TypeOK'
  BY DEF Modes, Kinds, Stages, MarkerInv, Granted
<1>2. ChildInv'
  BY DEF ChildInv, MarkerInv
<1>3. EvidenceSurvives'
  BY DEF EvidenceSurvives, MarkerInv, ChildInv, Granted
<1>4. StageInv' /\ LockInv' /\ MarkerInv' /\ QuietInv' /\ PendingBarsWork'
  BY DEF StageInv, LockInv, MarkerInv, QuietInv, PendingBarsWork, Granted
<1> QED
  BY <1>1, <1>2, <1>3, <1>4 DEF IInv

\* budget/lifecycle.go, Finalize: a terminal record needs the end of the group.
LEMMA FinalizeInv ==
  ASSUME IInv, NEW p \in Procs, Finalize(p)
  PROVE  IInv'
<1> USE NoNameAssumption DEF IInv, TypeOK, Finalize
<1>1. TypeOK'
  BY DEF Modes, Kinds, Stages
<1>2. ChildInv'
  BY DEF ChildInv, MarkerInv
<1>3. EvidenceSurvives'
  BY DEF EvidenceSurvives, MarkerInv, ChildInv, Granted
<1>4. StageInv' /\ LockInv' /\ MarkerInv' /\ QuietInv' /\ PendingBarsWork'
  BY DEF StageInv, LockInv, MarkerInv, QuietInv, PendingBarsWork, Granted
<1> QED
  BY <1>1, <1>2, <1>3, <1>4 DEF IInv

\* installation/transaction.go: only a granted transition moves the barrier, when nobody works.
LEMMA MovePendingInv ==
  ASSUME IInv, NEW p \in Procs, MovePending(p)
  PROVE  IInv'
<1> USE NoNameAssumption DEF IInv, TypeOK, MovePending
<1>1. TypeOK'
  BY DEF Modes, Kinds, Stages
<1>2. PendingBarsWork'
  BY DEF PendingBarsWork, LockInv, StageInv, FlockMode, Holders, Granted,
      Transitions
<1>3. StageInv' /\ LockInv' /\ MarkerInv' /\ ChildInv' /\ EvidenceSurvives' /\ QuietInv'
  BY DEF StageInv, LockInv, MarkerInv, ChildInv, EvidenceSurvives, QuietInv,
      Granted
<1> QED
  BY <1>1, <1>2, <1>3 DEF IInv

\* guard.go, Close: only the marker of finished work is unlinked.
LEMMA UnlinkInv ==
  ASSUME IInv, NEW p \in Procs, Unlink(p)
  PROVE  IInv'
<1> USE NoNameAssumption DEF IInv, TypeOK, Unlink
<1>1. TypeOK'
  BY DEF Modes, Kinds, Stages
<1>2. StageInv'
  BY DEF StageInv, Holders, FlockMode, Kinds
<1>3. MarkerInv'
  BY DEF MarkerInv, StageInv, Granted, Holders, Transitions
<1>4. EvidenceSurvives'
  BY DEF EvidenceSurvives, MarkerInv, ChildInv, Granted
<1>5. QuietInv'
  BY DEF QuietInv, LockInv, StageInv, FlockMode, Holders, Transitions
<1>6. LockInv' /\ ChildInv' /\ PendingBarsWork'
  BY DEF LockInv, ChildInv, PendingBarsWork, Granted
<1> QED
  BY <1>1, <1>2, <1>3, <1>4, <1>5, <1>6 DEF IInv

\* guard.go, Close: what is held is released after the marker is gone.
LEMMA CloseCleanInv ==
  ASSUME IInv, NEW p \in Procs, CloseClean(p)
  PROVE  IInv'
<1> USE NoNameAssumption DEF IInv, TypeOK, CloseClean, Released
<1>1. TypeOK'
  BY DEF Modes, Kinds, Stages
<1>2. StageInv'
  BY DEF StageInv, Holders, FlockMode, Kinds
<1>3. LockInv'
  BY DEF LockInv, StageInv, Holders
<1>4. MarkerInv'
  BY DEF MarkerInv, StageInv, Granted, Holders, Transitions
<1>5. EvidenceSurvives'
  BY DEF EvidenceSurvives, MarkerInv, ChildInv, Granted
<1>6. ChildInv' /\ QuietInv' /\ PendingBarsWork'
  BY DEF ChildInv, QuietInv, PendingBarsWork, Granted
<1> QED
  BY <1>1, <1>2, <1>3, <1>4, <1>5, <1>6 DEF IInv

\* guard.go, closeFiles: everything is released and unfinished work leaves its marker.
LEMMA AbandonInv ==
  ASSUME IInv, NEW p \in Procs, Abandon(p)
  PROVE  IInv'
<1> USE NoNameAssumption DEF IInv, TypeOK, Abandon, Released, Files
<1>1. TypeOK'
  BY DEF Modes, Kinds, Stages
<1>2. StageInv'
  BY DEF StageInv, Holders, FlockMode, Kinds
<1>3. LockInv'
  BY DEF LockInv, StageInv, Holders
<1>4. MarkerInv'
  BY DEF MarkerInv, StageInv, Granted, Holders, Transitions
<1>5. ChildInv' /\ EvidenceSurvives' /\ QuietInv' /\ PendingBarsWork'
  BY DEF ChildInv, EvidenceSurvives, QuietInv, PendingBarsWork, Granted
<1> QED
  BY <1>1, <1>2, <1>3, <1>4, <1>5 DEF IInv

\* The end of a native group does not disturb what is recorded about it.
LEMMA ChildExitInv ==
  ASSUME IInv, NEW n \in Names, ChildExit(n)
  PROVE  IInv'
<1> USE NoNameAssumption DEF IInv, TypeOK, ChildExit
<1>1. TypeOK'
  BY DEF Modes, Kinds, Stages
<1>2. ChildInv'
  BY DEF ChildInv, MarkerInv
<1>3. StageInv' /\ LockInv' /\ MarkerInv' /\ EvidenceSurvives' /\ QuietInv' /\ PendingBarsWork'
  BY DEF StageInv, LockInv, MarkerInv, EvidenceSurvives, QuietInv,
      PendingBarsWork, Granted
<1> QED
  BY <1>1, <1>2, <1>3 DEF IInv

\* docs/BUDGETS.md: a marker is removed only when nothing of its work is left.
LEMMA ReconcileInv ==
  ASSUME IInv, NEW n \in Names, Reconcile(n)
  PROVE  IInv'
<1> USE NoNameAssumption DEF IInv, TypeOK, Reconcile
<1>1. TypeOK'
  BY DEF Modes, Kinds, Stages
<1>2. MarkerInv'
  BY DEF MarkerInv, StageInv, Granted, Holders, Transitions
<1>3. ChildInv'
  BY DEF ChildInv, MarkerInv
<1>4. EvidenceSurvives'
  BY DEF EvidenceSurvives, MarkerInv, ChildInv, Granted
<1>5. StageInv' /\ LockInv' /\ QuietInv' /\ PendingBarsWork'
  BY DEF StageInv, LockInv, QuietInv, PendingBarsWork, Granted
<1> QED
  BY <1>1, <1>2, <1>3, <1>4, <1>5 DEF IInv

\* guard.go, sync: a power failure keeps exactly the durable markers.
LEMMA PowerLossInv ==
  ASSUME IInv, PowerLoss
  PROVE  IInv'
<1> USE NoNameAssumption DEF IInv, TypeOK, PowerLoss
<1>1. TypeOK'
  BY DEF Modes, Kinds, Stages
<1>2. StageInv'
  BY DEF StageInv, Holders, FlockMode, Kinds
<1>3. LockInv'
  BY DEF LockInv, StageInv, Holders
<1>4. MarkerInv'
  BY DEF MarkerInv, StageInv, Granted, Holders, Transitions
<1>5. ChildInv'
  BY DEF ChildInv, MarkerInv
<1>6. EvidenceSurvives'
  BY DEF EvidenceSurvives, MarkerInv, ChildInv, Granted
<1>7. QuietInv' /\ PendingBarsWork'
  BY DEF QuietInv, PendingBarsWork, Granted
<1> QED
  BY <1>1, <1>2, <1>3, <1>4, <1>5, <1>6, <1>7 DEF IInv

\* The inductive step.
LEMMA NextInv == IInv /\ [Next]_vars => IInv'
<1> SUFFICES ASSUME IInv, [Next]_vars  PROVE IInv'
  OBVIOUS
<1>1. CASE UNCHANGED vars
  BY <1>1 DEF vars, IInv, TypeOK, StageInv, LockInv, MarkerInv, ChildInv,
      EvidenceSurvives, QuietInv, PendingBarsWork, Granted
<1>2. ASSUME NEW p \in Procs, NEW k \in Kinds, NEW mode \in Modes,
             AcquireLease(p, k, mode)
      PROVE  IInv'
  BY <1>2, AcquireLeaseInv
<1>3. ASSUME NEW p \in Procs,
             \/ GrantReader(p) \/ AcquireFlock(p) \/ Mark(p)
             \/ ReadActivity(p) \/ Grant(p)
      PROVE  IInv'
  BY <1>3, GrantReaderInv, AcquireFlockInv, MarkInv, ReadActivityInv, GrantInv
<1>4. ASSUME NEW p \in Procs,
             \/ Launch(p) \/ Finalize(p) \/ MovePending(p)
             \/ Unlink(p) \/ CloseClean(p) \/ Abandon(p)
      PROVE  IInv'
  BY <1>4, LaunchInv, FinalizeInv, MovePendingInv, UnlinkInv, CloseCleanInv,
     AbandonInv
<1>5. ASSUME NEW n \in Names, ChildExit(n) \/ Reconcile(n)  PROVE IInv'
  BY <1>5, ChildExitInv, ReconcileInv
<1>6. CASE PowerLoss
  BY <1>6, PowerLossInv
<1> QED
  BY <1>1, <1>2, <1>3, <1>4, <1>5, <1>6 DEF Next

\* Every reachable state satisfies the inductive invariant.
THEOREM Invariant == Spec => []IInv
  BY InitInv, NextInv, PTL DEF Spec

\* The model never leaves its types, whatever fails or crashes.
THEOREM TypeCorrect == Spec => []TypeOK
<1>1. IInv => TypeOK
  BY DEF IInv
<1> QED  BY Invariant, <1>1, PTL

\* guard.go, Exclusive and acquireRecoveryFor: a granted transition overlaps
\* neither another guard owner nor a surviving native process group.
THEOREM TransitionsExclude == Spec => []TransitionExclusive
<1>1. IInv => TransitionExclusive
  <2> SUFFICES ASSUME IInv, NEW p \in Procs, Granted(p, Transitions)
               PROVE  /\ \A q \in Procs \ {p} : ~Granted(q, Transitions \cup {"shared"})
                      /\ children = {}
    BY DEF TransitionExclusive
  <2>1. flock[p] = "ex"
    BY DEF IInv, StageInv, Granted, Transitions, Holders, FlockMode
  <2>2. \A q \in Procs \ {p} : flock[q] = "none"
    BY <2>1 DEF IInv, LockInv
  <2>3. \A q \in Procs \ {p} : ~Granted(q, Transitions \cup {"shared"})
    BY <2>2 DEF IInv, StageInv, Granted, Transitions, Holders, FlockMode
  <2>4. children = {}
    BY DEF IInv, QuietInv, ChildInv, EvidenceSurvives, Granted
  <2> QED  BY <2>3, <2>4
<1> QED  BY Invariant, <1>1, PTL

\* guard.go, pendingAbsent: no shared owner is granted while a publication is
\* pending.
THEOREM PendingBars == Spec => []PendingBarsWork
<1>1. IInv => PendingBarsWork
  BY DEF IInv
<1> QED  BY Invariant, <1>1, PTL

\* guard.go, Close: the evidence of unfinished work is on disk at every moment.
THEOREM EvidenceKept == Spec => []EvidenceSurvives
<1>1. IInv => EvidenceSurvives
  BY DEF IInv
<1> QED  BY Invariant, <1>1, PTL

\* root_lease.go: a granted installer is alone.
THEOREM InstallerIsAlone == Spec => []InstallerAlone
<1>1. IInv => InstallerAlone
  <2> SUFFICES ASSUME IInv, NEW p \in Procs, Granted(p, Transitions),
                      lease[p] = "ex", NEW q \in Procs \ {p}
               PROVE  ~Granted(q, Kinds) /\ (pc[q] # "idle" => lease[q] = "none")
    BY DEF InstallerAlone
  <2>1. flock[p] = "ex" /\ flock[q] = "none" /\ lease[q] = "none"
    BY DEF IInv, StageInv, LockInv, Granted, Transitions, Holders, FlockMode
  <2>2. ~Granted(q, Kinds)
    BY <2>1 DEF IInv, StageInv, Granted, Holders, FlockMode
  <2> QED  BY <2>1, <2>2
<1> QED  BY Invariant, <1>1, PTL

-----------------------------------------------------------------------------
(* The guard implements RuntimeExclusion.                                  *)

\* At most one process holds a granted transition, so the mapped writer is it.
LEMMA OneWriter ==
  ASSUME IInv, NEW p \in Writing
  PROVE  Writing = {p} /\ WriterNow = p /\ p \in Procs /\ WorkNow = {}
<1>1. p \in Procs /\ Granted(p, Transitions) /\ flock[p] = "ex"
  BY DEF IInv, StageInv, Writing, Granted, Transitions, Holders, FlockMode
<1>2. \A q \in Procs \ {p} : flock[q] = "none"
  BY <1>1 DEF IInv, LockInv
<1>3. \A q \in Procs \ {p} : ~Granted(q, Transitions \cup {"shared"})
  BY <1>2 DEF IInv, StageInv, Granted, Transitions, Holders, FlockMode
<1>4. Writing = {p}
  BY <1>1, <1>3 DEF Writing, Granted
<1>5. WriterNow = p
  BY <1>4 DEF WriterNow
<1>6. WorkNow = {}
  <2>1. children = {}
    BY <1>1 DEF IInv, QuietInv, ChildInv, EvidenceSurvives, Granted
  <2>2. {q \in Procs : Granted(q, {"shared"})} = {}
    BY <1>1, <1>3 DEF Granted, Transitions
  <2> QED  BY <2>1, <2>2 DEF WorkNow
<1> QED  BY <1>1, <1>4, <1>5, <1>6

\* Without a granted transition the abstract writer is nobody.
LEMMA NoWriter ==
  ASSUME Writing = {}
  PROVE  WriterNow = NoProc
  BY DEF WriterNow

\* An empty project shows the abstract initial state.
LEMMA RefinementInit == Init => Exclusion!Init
<1> SUFFICES ASSUME Init  PROVE Exclusion!Init
  OBVIOUS
<1>1. Writing = {} /\ WorkNow = {}
  BY DEF Init, Writing, WorkNow, Granted
<1> QED  BY <1>1, NoWriter DEF Exclusion!Init, Init

\* guard.go, acquire: a grant is the abstract start of work or of writing.
LEMMA GrantRefines ==
  ASSUME IInv, IInv', NEW p \in Procs, Grant(p)
  PROVE  [Exclusion!Next]_Exclusion!vars
<1>1. CASE kind[p] = "shared"
  <2>1. flock[p] = "sh" /\ marker[p] \in Names /\ ~pending
    BY <1>1 DEF Grant, IInv, TypeOK, StageInv, MarkerInv, Holders, FlockMode
  <2>2. Writing = {} /\ Writing' = {}
    BY <1>1, <2>1 DEF Grant, IInv, TypeOK, StageInv, LockInv, Writing, Granted,
      Transitions, Holders, FlockMode
  <2>3. WorkNow' = WorkNow \cup {marker[p]}
    BY <1>1 DEF Grant, IInv, TypeOK, WorkNow, Granted
  <2>4. Exclusion!StartWork(marker[p])
    BY <2>1, <2>2, <2>3, NoWriter DEF Exclusion!StartWork, Grant, WriterNow
  <2> QED  BY <2>1, <2>4 DEF Exclusion!Next
<1>2. CASE kind[p] # "shared"
  <2>1. kind[p] \in Transitions /\ flock[p] = "ex"
    BY <1>2 DEF Grant, IInv, TypeOK, StageInv, Kinds, Transitions, Holders, FlockMode
  <2>2. Writing = {}
    BY <2>1 DEF Grant, IInv, StageInv, LockInv, Writing, Granted, Transitions,
      Holders, FlockMode
  <2>3. Writing' = {p}
    BY <2>1, <2>2 DEF Grant, IInv, TypeOK, Writing, Granted
  <2>4. WriterNow' = p
    BY <2>3 DEF WriterNow
  <2>5. WorkNow = {} /\ WorkNow' = WorkNow
    <3>1. {q \in Procs : Granted(q, {"shared"})} = {}
      BY <2>1 DEF Grant, IInv, StageInv, LockInv, Granted, Transitions, Holders,
        FlockMode
    <3>2. children = {}
      BY <2>1 DEF Grant, IInv, QuietInv, ChildInv, EvidenceSurvives
    <3>3. {q \in Procs : Granted(q, {"shared"})}' = {}
      BY <2>1, <3>1 DEF Grant, IInv, TypeOK, Granted, Transitions
    <3> QED  BY <3>1, <3>2, <3>3 DEF WorkNow, Grant
  <2>6. Exclusion!StartWrite(p)
    BY <2>2, <2>4, <2>5, NoWriter DEF Exclusion!StartWrite, Grant
  <2> QED  BY <2>6 DEF Exclusion!Next
<1> QED  BY <1>1, <1>2

\* Acquisition before the grant, and the bookkeeping after it, are invisible.
LEMMA StutterRefines ==
  ASSUME IInv, NEW p \in Procs,
         \/ \E k \in Kinds, mode \in Modes : AcquireLease(p, k, mode)
         \/ GrantReader(p) \/ AcquireFlock(p) \/ Mark(p) \/ ReadActivity(p)
         \/ Launch(p) \/ Finalize(p) \/ CloseClean(p)
  PROVE  UNCHANGED Exclusion!vars
<1>1. \A q \in Procs : Granted(q, {"shared"})' <=> Granted(q, {"shared"})
  BY DEF IInv, TypeOK, AcquireLease, GrantReader, AcquireFlock, Mark, ReadActivity,
    Launch, Finalize, CloseClean, Granted, Files, Released, StageInv,
    Transitions
<1>2. \A q \in Procs : Granted(q, Transitions)' <=> Granted(q, Transitions)
  BY DEF IInv, TypeOK, AcquireLease, GrantReader, AcquireFlock, Mark, ReadActivity,
    Launch, Finalize, CloseClean, Granted, Files, Released, StageInv,
    Transitions
<1>3. \A q \in Procs : Granted(q, {"shared"}) => marker'[q] = marker[q]
  BY DEF IInv, TypeOK, AcquireLease, GrantReader, AcquireFlock, Mark, ReadActivity,
    Launch, Finalize, CloseClean, Granted, Files, Released
<1>4. \/ children' = children
      \/ Granted(p, {"shared"}) /\ children' = children \cup {marker[p]}
  BY DEF AcquireLease, GrantReader, AcquireFlock, Mark, ReadActivity, Launch,
    Finalize, CloseClean, Granted, Files
<1>5. WorkNow' = WorkNow
  BY <1>1, <1>3, <1>4 DEF WorkNow
<1>6. WriterNow' = WriterNow
  <2>1. Writing' = Writing
    BY <1>2 DEF Writing
  <2> QED  BY <2>1 DEF WriterNow
<1>7. pending' = pending
  BY DEF AcquireLease, GrantReader, AcquireFlock, Mark, ReadActivity, Launch,
    Finalize, CloseClean, Files
<1> QED  BY <1>5, <1>6, <1>7 DEF Exclusion!vars

\* The pending marker moves in the hands of the writer.
LEMMA MovePendingRefines ==
  ASSUME IInv, NEW p \in Procs, MovePending(p)
  PROVE  Exclusion!Next
<1>1. p \in Writing
  BY DEF MovePending, Writing, Granted, Transitions
<1>2. WriterNow # NoProc
  BY <1>1, OneWriter, NoProcAssumption
<1>3. WorkNow' = WorkNow /\ WriterNow' = WriterNow /\ pending' \in BOOLEAN
  BY DEF MovePending, WorkNow, WriterNow, Writing, Granted, IInv, TypeOK
<1> QED  BY <1>2, <1>3 DEF Exclusion!Next, Exclusion!MoveBarrier

\* Work stops: its child exits, its owner closes, dies, or the machine does.
LEMMA EndRefines ==
  ASSUME IInv, WorkNow' \subseteq WorkNow, Writing' \subseteq Writing,
         pending' = pending
  PROVE  [Exclusion!Next]_Exclusion!vars
<1>1. CASE Writing' = Writing
  <2>1. WriterNow' = WriterNow
    BY <1>1 DEF WriterNow
  <2> QED  BY <1>1, <2>1 DEF Exclusion!Next, Exclusion!EndWork
<1>2. CASE Writing' # Writing
  <2>1. PICK p \in Writing : TRUE
    BY <1>2
  <2>2. Writing = {p} /\ WriterNow = p /\ p \in Procs /\ WorkNow = {}
    BY OneWriter
  <2>3. WriterNow' = NoProc /\ WorkNow' = WorkNow /\ WriterNow # NoProc
    <3>1. Writing' = {}
      BY <1>2, <2>2
    <3> QED  BY <2>2, <3>1, NoProcAssumption DEF WriterNow
  <2> QED  BY <2>3 DEF Exclusion!Next, Exclusion!EndWrite
<1> QED  BY <1>1, <1>2

\* Every step of the guard is an abstract step or a stutter.
LEMMA StepRefines == IInv /\ IInv' /\ [Next]_vars => [Exclusion!Next]_Exclusion!vars
<1> SUFFICES ASSUME IInv, IInv', [Next]_vars
             PROVE  [Exclusion!Next]_Exclusion!vars
  OBVIOUS
<1>1. CASE UNCHANGED vars
  BY <1>1 DEF vars, Exclusion!vars, WorkNow, WriterNow, Writing, Granted
<1>2. ASSUME NEW p \in Procs,
             \/ \E k \in Kinds, mode \in Modes : AcquireLease(p, k, mode)
             \/ GrantReader(p) \/ AcquireFlock(p) \/ Mark(p) \/ ReadActivity(p)
             \/ Launch(p) \/ Finalize(p) \/ CloseClean(p)
      PROVE  [Exclusion!Next]_Exclusion!vars
  BY <1>2, StutterRefines
<1>3. ASSUME NEW p \in Procs, Grant(p) \/ MovePending(p)
      PROVE  [Exclusion!Next]_Exclusion!vars
  BY <1>3, GrantRefines, MovePendingRefines
<1>4. ASSUME NEW p \in Procs, Unlink(p) \/ Abandon(p)
      PROVE  [Exclusion!Next]_Exclusion!vars
  <2>1. \A q \in Procs : Granted(q, {"shared"})' =>
          Granted(q, {"shared"}) /\ marker'[q] = marker[q]
    BY <1>4 DEF Unlink, Abandon, Released, Granted, IInv, TypeOK
  <2>2. \A q \in Procs : Granted(q, Transitions)' => Granted(q, Transitions)
    BY <1>4 DEF Unlink, Abandon, Released, Granted, IInv, TypeOK
  <2>3. children' = children /\ pending' = pending
    BY <1>4 DEF Unlink, Abandon, Files
  <2>4. WorkNow' \subseteq WorkNow /\ Writing' \subseteq Writing
    BY <2>1, <2>2, <2>3 DEF WorkNow, Writing
  <2> QED  BY <2>3, <2>4, EndRefines
<1>5. ASSUME NEW n \in Names, ChildExit(n)
      PROVE  [Exclusion!Next]_Exclusion!vars
  <2>1. WorkNow' \subseteq WorkNow /\ Writing' = Writing /\ pending' = pending
    BY <1>5 DEF ChildExit, WorkNow, Writing, Granted
  <2> QED  BY <2>1, EndRefines
<1>6. CASE PowerLoss
  <2>1. WorkNow' = {} /\ Writing' = {} /\ pending' = pending
    BY <1>6 DEF PowerLoss, WorkNow, Writing, Granted
  <2> QED  BY <2>1, EndRefines
<1>7. ASSUME NEW n \in Names, Reconcile(n)
      PROVE  [Exclusion!Next]_Exclusion!vars
  BY <1>7 DEF Reconcile, Exclusion!vars, WorkNow, WriterNow, Writing, Granted
<1> QED
  BY <1>1, <1>2, <1>3, <1>4, <1>5, <1>6, <1>7 DEF Next

\* guard.go and root_lease.go together keep the promise their callers were
\* written against: RuntimeExclusion, for every number of controllers.
THEOREM GuardImplementsExclusion == Spec => ImplementsExclusion
<1>1. Init => Exclusion!Init
  BY RefinementInit
<1>2. IInv /\ IInv' /\ [Next]_vars => [Exclusion!Next]_Exclusion!vars
  BY StepRefines
<1> QED
  BY <1>1, <1>2, Invariant, PTL DEF Spec, ImplementsExclusion, Exclusion!Spec

=============================================================================
