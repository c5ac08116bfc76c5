----------------------- MODULE BudgetExecutionProofs ------------------------
(***************************************************************************)
(* Proofs about BudgetExecution for every number of controllers, tasks and *)
(* failures: its types, the limits, that native work stays reserved and    *)
(* evidenced, and that it blocks further admissions.                       *)
(***************************************************************************)
EXTENDS BudgetExecution, FiniteSetTheorems, SequenceTheorems, TLAPS

Early   == {"idle", "guarded", "checked"}
Working == {"admitted", "spawned", "published", "ended"}

\* A controller's row is its own, and active until it is finalized.
RunInv ==
  \A p \in Procs :
    /\ pc[p] \in Early => run[p] = 0 /\ clean[p]
    /\ run[p] # 0 => ledger[run[p]].owner = p
    /\ pc[p] \in Working =>
         run[p] # 0 /\ ledger[run[p]].status = "active" /\ ~clean[p]

\* What supervision reports is true of the native group.
GroupInv ==
  \A p \in Procs :
    /\ pc[p] = "admitted" => run[p] \notin children /\ result[p] = NoResult
    /\ pc[p] \in Early => result[p] = NoResult
    /\ pc[p] \in {"spawned", "published"} => result[p].spawned
    /\ pc[p] = "ended" /\ (result[p].spawned => result[p].sure) =>
         run[p] \notin children

\* The marker of a row is left in place, or held by a controller that will leave it.
EvidenceInv ==
  \A i \in Active \cup children :
    i \in markers \/ \E p \in Procs : pc[p] # "idle" /\ run[p] = i /\ ~clean[p]

IInv == TypeOK /\ RunInv /\ GroupInv /\ EvidenceInv /\ NativeIsReserved

-----------------------------------------------------------------------------
\* An empty ledger and idle controllers satisfy the invariant.
LEMMA InitInv == Init => IInv
<1> SUFFICES ASSUME Init  PROVE IInv
  OBVIOUS
<1>1. ledger \in Seq(Row) /\ Len(ledger) = 0 /\ DOMAIN ledger = {}
  BY EmptySeq, LenProperties DEF Init
<1>2. NoRequest \in Requests
  BY RequestsAssumption DEF NoRequest
<1>3. TypeOK
  BY <1>1, <1>2, LimitsAssumption DEF Init, TypeOK, Stages, Result, NoResult
<1>4. RunInv /\ GroupInv /\ EvidenceInv /\ NativeIsReserved
  BY <1>1 DEF Init, RunInv, GroupInv, EvidenceInv, NativeIsReserved, Early, Working, Active
<1> QED  BY <1>3, <1>4 DEF IInv

\* The bound on crashes and failures is never exceeded.
LEMMA FaultType ==
  ASSUME faults \in 0..MaxFaults, Fault \/ UNCHANGED faults
  PROVE  faults' \in 0..MaxFaults
BY LimitsAssumption DEF Fault

\* lifecycle.go patches one row in place and leaves the others as they are.
LEMMA SetRow ==
  ASSUME ledger \in Seq(Row), NEW i \in DOMAIN ledger, NEW row \in Row,
         ledger' = [ledger EXCEPT ![i] = row]
  PROVE  /\ ledger' \in Seq(Row)
         /\ Len(ledger') = Len(ledger)
         /\ DOMAIN ledger' = DOMAIN ledger
         /\ ledger'[i] = row
         /\ \A j \in DOMAIN ledger \ {i} : ledger'[j] = ledger[j]
<1>1. DOMAIN ledger = 1..Len(ledger)
  BY LenProperties
<1>2. /\ ledger' \in Seq(Row)
      /\ Len(ledger') = Len(ledger)
      /\ \A j \in 1..Len(ledger) : ledger'[j] = IF j = i THEN row ELSE ledger[j]
  BY <1>1, ExceptSeq
<1> QED  BY <1>1, <1>2, LenProperties

\* lifecycle.go, Admit: the new row comes last.
LEMMA AddRow ==
  ASSUME ledger \in Seq(Row), NEW row \in Row, ledger' = Append(ledger, row)
  PROVE  /\ ledger' \in Seq(Row)
         /\ Len(ledger') = Len(ledger) + 1
         /\ DOMAIN ledger' = DOMAIN ledger \cup {Len(ledger) + 1}
         /\ Len(ledger) + 1 \notin DOMAIN ledger
         /\ ledger'[Len(ledger) + 1] = row
         /\ \A j \in DOMAIN ledger : ledger'[j] = ledger[j]
<1>1. DOMAIN ledger = 1..Len(ledger) /\ Len(ledger) \in Nat
  BY LenProperties
<1>2. /\ ledger' \in Seq(Row)
      /\ Len(ledger') = Len(ledger) + 1
      /\ \A j \in 1..Len(ledger) : ledger'[j] = ledger[j]
      /\ ledger'[Len(ledger) + 1] = row
  BY <1>1, AppendProperties
<1>3. DOMAIN ledger' = 1..(Len(ledger) + 1)
  BY <1>2, LenProperties
<1> QED  BY <1>1, <1>2, <1>3

\* The end of a controller process is no step of the ledger.
LEMMA GoneOwners ==
  ASSUME TypeOK, NEW p \in Procs, Gone(p)
  PROVE  /\ UNCHANGED <<ledger, children>>
         /\ alive' \in SUBSET Procs /\ orphans' \in SUBSET DOMAIN ledger
BY DEF Gone, LeftBy, Active, TypeOK

-----------------------------------------------------------------------------
(* One lemma per action: it preserves the inductive invariant.  Each step    *)
(* shows the conjuncts the action can disturb; the last one the rest.        *)

\* runner.go: a plan made without the lock changes nothing that is shared.
LEMMA StartInv ==
  ASSUME IInv, NEW p \in Procs, NEW r \in Requests, Start(p, r)
  PROVE  IInv'
<1> USE DEF IInv, owners, Start, Goto
<1>1. TypeOK'
  BY DEF TypeOK, Stages
<1>2. RunInv' /\ GroupInv'
  BY DEF RunInv, GroupInv, TypeOK, Early, Working
<1>3. EvidenceInv' /\ NativeIsReserved'
  BY DEF EvidenceInv, NativeIsReserved, TypeOK, Active
<1> QED  BY <1>1, <1>2, <1>3

\* runner.go, preflight: a probe that may still run leaves a dirty controller.
LEMMA PreflightInv ==
  ASSUME IInv, NEW p \in Procs, Preflight(p)
  PROVE  IInv'
<1> USE DEF IInv, owners, Preflight, Goto
<1>1. TypeOK'
  <2>1. faults' \in 0..MaxFaults
    BY FaultType DEF TypeOK
  <2>2. pc' \in [Procs -> Stages]
    BY DEF TypeOK, Stages
  <2>4. children' \in SUBSET (0..Len(ledger))
    <3>1. Len(ledger) \in Nat
      BY LenProperties DEF TypeOK
    <3>2. children' = children \/ children' = children \cup {0}
      OBVIOUS
    <3>3. children \subseteq 0..Len(ledger) /\ 0 \in 0..Len(ledger)
      BY <3>1 DEF TypeOK
    <3> QED  BY <3>2, <3>3
  <2>3. clean' \in [Procs -> BOOLEAN]
    BY DEF TypeOK
  <2> QED  BY <2>1, <2>2, <2>3, <2>4 DEF TypeOK
<1>2. RunInv' /\ GroupInv'
  BY DEF RunInv, GroupInv, TypeOK, Early, Working
<1>3. EvidenceInv'
  <2>1. \A q \in Procs : pc[q] # "idle" => pc'[q] # "idle"
    BY DEF TypeOK
  <2>2. \A q \in Procs : ~clean[q] => ~clean'[q]
    BY DEF TypeOK
  <2>3. \/ children' = children
        \/ children' = children \cup {0} /\ pc'[p] = "closing" /\ ~clean'[p] /\ run[p] = 0
    BY DEF TypeOK, RunInv, Early
  <2> QED  BY <2>1, <2>2, <2>3 DEF EvidenceInv, Active
<1>4. NativeIsReserved'
  BY DEF NativeIsReserved, TypeOK, Active
<1> QED  BY <1>1, <1>2, <1>3, <1>4

\* lifecycle.go, Admit: a published reservation makes its controller dirty.
LEMMA AdmitInv ==
  ASSUME IInv, NEW p \in Procs, Admit(p)
  PROVE  IInv'
<1> USE DEF IInv, owners
<1>1. CASE Reserve(p)
  <2> DEFINE n == Len(ledger) + 1
  <2>1. PICK seconds \in Nat : ledger' = Append(ledger, Reservation(p, seconds))
    BY <1>1, LimitsAssumption DEF Reserve
  <2>2. Reservation(p, seconds) \in Row /\ Valid(Reservation(p, seconds))
    BY DEF Reservation, Row, Valid, TypeOK
  <2>3. /\ ledger' \in Seq(Row) /\ Len(ledger') = n
        /\ DOMAIN ledger' = DOMAIN ledger \cup {n} /\ n \notin DOMAIN ledger
        /\ ledger'[n] = Reservation(p, seconds)
        /\ \A j \in DOMAIN ledger : ledger'[j] = ledger[j]
    BY <2>1, <2>2, AddRow DEF TypeOK
  <2>4. Len(ledger) \in Nat /\ DOMAIN ledger = 1..Len(ledger)
    BY LenProperties DEF TypeOK
  <2>5. /\ pc[p] = "checked" /\ pc' \in [Procs -> Stages]
        /\ pc'[p] \in {"admitted", "closing"}
        /\ \A q \in Procs \ {p} : pc'[q] = pc[q]
        /\ run' = [run EXCEPT ![p] = n] /\ clean' = [clean EXCEPT ![p] = FALSE]
        /\ UNCHANGED <<request, result, markers, children, owners>>
    BY <1>1 DEF Reserve, Admit, Goto, TypeOK, Stages
  <2>11. faults' \in 0..MaxFaults
    BY FaultType DEF Admit, TypeOK
  <2>6. TypeOK'
    BY <2>2, <2>3, <2>4, <2>5, <2>11 DEF TypeOK
  <2>7. RunInv' /\ GroupInv'
    BY <2>2, <2>3, <2>4, <2>5 DEF RunInv, GroupInv, TypeOK, Early, Working, Reservation
  <2>8. Active' = Active \cup {n} /\ n \notin Active
    BY <2>3, <2>4 DEF Active, Reservation
  <2>9. EvidenceInv'
    BY <2>4, <2>5, <2>8 DEF EvidenceInv, RunInv, TypeOK, Early
  <2>10. NativeIsReserved'
    BY <2>5, <2>8 DEF NativeIsReserved
  <2> QED  BY <2>6, <2>7, <2>9, <2>10
<1>2. CASE ~Reserve(p)
  <2> USE <1>2 DEF Admit, Goto
  <2>1. TypeOK'
    BY FaultType DEF TypeOK, Stages
  <2>2. RunInv' /\ GroupInv'
    BY DEF RunInv, GroupInv, TypeOK, Early, Working
  <2>3. EvidenceInv' /\ NativeIsReserved'
    BY DEF EvidenceInv, NativeIsReserved, TypeOK, Active
  <2> QED  BY <2>1, <2>2, <2>3
<1> QED  BY <1>1, <1>2

\* native/execute.go: a group starts under an active reservation.
LEMMA SpawnInv ==
  ASSUME IInv, NEW p \in Procs, Spawn(p)
  PROVE  IInv'
<1> USE DEF IInv, owners, Spawn, Goto
<1>1. run[p] \in DOMAIN ledger /\ run[p] \in Active
  BY LenProperties DEF TypeOK, RunInv, Working, Active
<1>2. TypeOK'
  <2>1. faults' \in 0..MaxFaults
    BY FaultType DEF TypeOK
  <2>2. result' \in [Procs -> Result]
    BY ZenonT(60) DEF TypeOK, Result
  <2>3. pc' \in [Procs -> Stages] /\ children' \in SUBSET (0..Len(ledger))
    BY DEF TypeOK, Stages
  <2> QED  BY <2>1, <2>2, <2>3 DEF TypeOK
<1>3. RunInv'
  BY DEF RunInv, TypeOK, Early, Working
<1>4. \A q \in Procs \ {p} : run[q] # run[p]
  BY <1>1 DEF RunInv, TypeOK, Working
<1>5. GroupInv'
  <2>1. CASE pc'[p] = "spawned"
    <3>1. result'[p].spawned
      BY <2>1 DEF TypeOK, Result
    <3> QED  BY <1>1, <1>4, <2>1, <3>1 DEF GroupInv, TypeOK, Early
  <2>2. CASE pc'[p] = "ended"
    <3>1. UNCHANGED <<children, result>>
      BY <2>2 DEF TypeOK
    <3> QED  BY <1>4, <2>2, <3>1 DEF GroupInv, TypeOK, Early
  <2> QED  BY <2>1, <2>2 DEF TypeOK
<1>6. EvidenceInv'
  BY DEF EvidenceInv, RunInv, TypeOK, Active, Working
<1>7. NativeIsReserved'
  BY <1>1 DEF NativeIsReserved, Active
<1> QED  BY <1>2, <1>3, <1>5, <1>6, <1>7

\* lifecycle.go, PublishPID: only the owner's active row learns its process.
LEMMA PublishPIDInv ==
  ASSUME IInv, NEW p \in Procs, PublishPID(p)
  PROVE  IInv'
<1> USE DEF IInv, owners
<1> DEFINE i == run[p]
           row == [ledger[i] EXCEPT !.pid = TRUE]
<1>1. i \in DOMAIN ledger /\ Len(ledger) \in Nat /\ ledger[i] \in Row
  BY LenProperties, ElementOfSeq DEF TypeOK, RunInv, Working, PublishPID
<1>2. /\ row \in Row /\ Valid(row) /\ row.owner = ledger[i].owner
      /\ row.status = ledger[i].status
  BY <1>1 DEF Row, Valid, TypeOK
<1>3. /\ ledger' \in Seq(Row) /\ Len(ledger') = Len(ledger)
      /\ DOMAIN ledger' = DOMAIN ledger
      /\ \A j \in DOMAIN ledger : /\ Valid(ledger'[j])
                                  /\ ledger'[j].owner = ledger[j].owner
                                  /\ ledger'[j].status = ledger[j].status
  <2>1. CASE ledger' = [ledger EXCEPT ![i].pid = TRUE]
    <3>1. /\ ledger' \in Seq(Row) /\ Len(ledger') = Len(ledger)
          /\ DOMAIN ledger' = DOMAIN ledger
          /\ ledger'[i] = row
          /\ \A j \in DOMAIN ledger \ {i} : ledger'[j] = ledger[j]
      BY <1>1, <1>2, <2>1, SetRow DEF TypeOK
    <3> QED  BY <1>2, <3>1 DEF TypeOK
  <2>2. CASE UNCHANGED ledger
    BY <2>2 DEF TypeOK
  <2> QED  BY <2>1, <2>2 DEF PublishPID
<1>4. /\ pc' = [pc EXCEPT ![p] = "published"] /\ pc[p] = "spawned"
      /\ result' \in [Procs -> Result]
      /\ result'[p].spawned
      /\ \A q \in Procs \ {p} : result'[q] = result[q]
      /\ UNCHANGED <<run, request, clean, markers, children, owners>>
  <2>1. /\ pc' = [pc EXCEPT ![p] = "published"] /\ pc[p] = "spawned"
        /\ UNCHANGED <<run, request, clean, markers, children, owners>>
    BY DEF PublishPID, Goto
  <2>2. result[p].spawned /\ result \in [Procs -> Result]
    BY <2>1 DEF GroupInv, TypeOK
  <2>3. \/ result' = [result EXCEPT ![p].doubt = TRUE]
        \/ result' = result
    BY DEF PublishPID
  <2>4. /\ result' \in [Procs -> Result]
        /\ result'[p].spawned
        /\ \A q \in Procs \ {p} : result'[q] = result[q]
    BY <2>2, <2>3 DEF Result
  <2> QED  BY <2>1, <2>4
<1>5. TypeOK'
  <2>1. faults' \in 0..MaxFaults
    BY FaultType DEF TypeOK, PublishPID
  <2> QED  BY <1>3, <1>4, <2>1 DEF TypeOK, Stages
<1>6. RunInv'
  <2>1. \A q \in Procs : run[q] # 0 => run[q] \in DOMAIN ledger
    BY <1>1, LenProperties DEF TypeOK
  <2> QED  BY <1>3, <1>4, <2>1 DEF RunInv, TypeOK, Early, Working
<1>7. GroupInv'
  BY <1>4 DEF GroupInv, TypeOK, Early
<1>8. Active' = Active
  BY <1>3 DEF Active
<1>9. EvidenceInv' /\ NativeIsReserved'
  BY <1>4, <1>8 DEF EvidenceInv, NativeIsReserved, TypeOK
<1> QED  BY <1>5, <1>6, <1>7, <1>9

\* native/execute.go, supervise: a confirmed exit is an exit.
LEMMA SuperviseInv ==
  ASSUME IInv, NEW p \in Procs, Supervise(p)
  PROVE  IInv'
<1> USE DEF IInv, owners
<1>1. run[p] \in DOMAIN ledger /\ Len(ledger) \in Nat /\ ledger[run[p]].reserved \in Nat
  <2>1. run[p] \in 1..Len(ledger) /\ DOMAIN ledger = 1..Len(ledger)
    BY LenProperties DEF TypeOK, RunInv, Working, Supervise
  <2>2. ledger[run[p]] \in Row
    BY <2>1, ElementOfSeq DEF TypeOK
  <2> QED  BY <2>1, <2>2, LenProperties DEF Row, TypeOK
<1>2. PICK elapsed \in 0..(ledger[run[p]].reserved + Grace), sure \in BOOLEAN :
        /\ result' = [result EXCEPT ![p].sure = sure, ![p].elapsed = elapsed]
        /\ sure => children' = children \ {run[p]}
        /\ ~sure => children' = children
  BY DEF Supervise
<1>3. /\ pc[p] = "published" /\ pc' = [pc EXCEPT ![p] = "ended"]
      /\ UNCHANGED <<ledger, run, request, clean, markers, owners>>
      /\ faults' \in 0..MaxFaults
  BY FaultType DEF Supervise, Goto, TypeOK
<1>4. elapsed \in Nat
  BY <1>1, LimitsAssumption
<1>5. /\ result' \in [Procs -> Result] /\ result'[p].spawned
      /\ result'[p].sure = sure
      /\ \A q \in Procs \ {p} : result'[q] = result[q]
  BY <1>2, <1>3, <1>4 DEF TypeOK, Result, GroupInv
<1>6. children' \subseteq children /\ (sure => run[p] \notin children')
  BY <1>2
<1>7. TypeOK'
  BY <1>3, <1>5, <1>6 DEF TypeOK, Stages
<1>8. RunInv'
  BY <1>3 DEF RunInv, TypeOK, Early, Working
<1>9. GroupInv'
  BY <1>3, <1>5, <1>6 DEF GroupInv, TypeOK, Early
<1>10. EvidenceInv' /\ NativeIsReserved'
  BY <1>3, <1>6 DEF EvidenceInv, NativeIsReserved, TypeOK, Active
<1> QED  BY <1>7, <1>8, <1>9, <1>10

\* lifecycle.go, Finalize: a row is completed only when its group has ended, and
\* only then may its marker go.
LEMMA FinalizeInv ==
  ASSUME IInv, NEW p \in Procs, Finalize(p)
  PROVE  IInv'
<1> USE DEF IInv, owners
<1> DEFINE i == run[p]
           row == Final(ledger[i], result[p])
<1>1. /\ i \in DOMAIN ledger /\ Len(ledger) \in Nat /\ ledger[i] \in Row
      /\ DOMAIN ledger = 1..Len(ledger)
  BY LenProperties, ElementOfSeq DEF TypeOK, RunInv, Working, Finalize
<1>2. result[p] \in Result
  BY DEF TypeOK
<1>3. /\ row \in Row /\ Valid(row) /\ row.owner = ledger[i].owner
      /\ row.status = "completed" => i \notin children
      /\ row.status \in {"active", "completed"}
  BY <1>1, <1>2 DEF Row, Valid, Final, Result, GroupInv, Finalize
<1>4. /\ pc[p] = "ended" /\ pc' = [pc EXCEPT ![p] = "closing"]
      /\ UNCHANGED <<run, request, result, markers, children, owners>>
      /\ \A q \in Procs \ {p} : clean'[q] = clean[q]
  BY DEF Finalize, Goto, TypeOK
<1>5. faults' \in 0..MaxFaults
  BY FaultType DEF TypeOK, Finalize
<1>6. \A q \in Procs \ {p} : run[q] # i
  BY <1>1 DEF RunInv, TypeOK
<1>7. CASE ledger' = [ledger EXCEPT ![i] = Final(@, result[p])]
  <2>1. /\ ledger' \in Seq(Row) /\ Len(ledger') = Len(ledger)
        /\ DOMAIN ledger' = DOMAIN ledger
        /\ ledger'[i] = row
        /\ \A j \in DOMAIN ledger \ {i} : ledger'[j] = ledger[j]
    BY <1>1, <1>3, <1>7, SetRow DEF TypeOK
  <2>2. clean' \in [Procs -> BOOLEAN] /\ (clean'[p] => row.status = "completed")
    BY <2>1, <1>4 DEF Finalize, TypeOK, RunInv, Working
  <2>3. TypeOK'
    BY <1>3, <1>4, <1>5, <2>1, <2>2 DEF TypeOK, Stages
  <2>4. RunInv'
    BY <1>1, <1>3, <1>4, <1>6, <2>1 DEF RunInv, TypeOK, Early, Working
  <2>5. GroupInv'
    BY <1>4 DEF GroupInv, TypeOK, Early
  <2>6. \A j \in Active' : j \in Active
    BY <2>1 DEF Active, RunInv, Working, TypeOK, Finalize
  <2>7. row.status = "completed" => i \notin Active'
    BY <2>1 DEF Active
  <2>8. row.status = "active" => i \in Active'
    BY <1>1, <2>1 DEF Active
  <2>9. \A j \in Active \ {i} : j \in Active'
    BY <2>1 DEF Active
  <2>10. NativeIsReserved'
    BY <1>3, <1>4, <2>7, <2>8, <2>9 DEF NativeIsReserved
  <2>11. EvidenceInv'
    <3> SUFFICES ASSUME NEW j \in Active' \cup children'
                 PROVE  j \in markers' \/ \E q \in Procs : pc'[q] # "idle" /\ run'[q] = j /\ ~clean'[q]
      BY DEF EvidenceInv
    <3>1. j \in markers \/ \E q \in Procs : pc[q] # "idle" /\ run[q] = j /\ ~clean[q]
      BY <1>4, <2>6 DEF EvidenceInv
    <3>2. CASE j = i
      <4>1. ~clean'[p]
        BY <3>2, <1>3, <1>4, <2>2, <2>7
      <4> QED  BY <3>2, <4>1, <1>4 DEF TypeOK
    <3>3. CASE j # i
      BY <3>1, <3>3, <1>4 DEF TypeOK
    <3> QED  BY <3>2, <3>3
  <2> QED  BY <2>3, <2>4, <2>5, <2>10, <2>11
<1>8. CASE UNCHANGED <<ledger, clean>>
  <2>1. TypeOK' /\ RunInv' /\ GroupInv'
    BY <1>4, <1>5, <1>8 DEF TypeOK, Stages, RunInv, GroupInv, Early, Working
  <2>2. EvidenceInv' /\ NativeIsReserved'
    BY <1>4, <1>8 DEF EvidenceInv, NativeIsReserved, TypeOK, Active
  <2> QED  BY <2>1, <2>2
<1> QED  BY <1>7, <1>8 DEF Finalize

\* runner.go: Run's local state is forgotten; what is shared stays.
LEMMA ForgetRuns ==
  ASSUME IInv, NEW p \in Procs, Forget(p)
  PROVE  /\ pc' \in [Procs -> Stages] /\ run' \in [Procs -> 0..Len(ledger)]
         /\ request' \in [Procs -> Requests] /\ result' \in [Procs -> Result]
         /\ clean' \in [Procs -> BOOLEAN]
         /\ pc'[p] = "idle" /\ run'[p] = 0 /\ clean'[p] /\ result'[p] = NoResult
         /\ \A q \in Procs \ {p} : /\ pc'[q] = pc[q] /\ run'[q] = run[q]
                                   /\ clean'[q] = clean[q] /\ result'[q] = result[q]
<1>1. Len(ledger) \in Nat
  BY LenProperties DEF IInv, TypeOK
<1>2. NoRequest \in Requests /\ NoResult \in Result
  BY RequestsAssumption DEF NoRequest, NoResult, Result
<1> QED  BY <1>1, <1>2 DEF Forget, Goto, IInv, TypeOK, Stages

\* Guard.Close after Run: what is not clean leaves its marker.
LEMMA CloseInv ==
  ASSUME IInv, NEW p \in Procs, Close(p)
  PROVE  IInv'
<1> USE DEF IInv, owners
<1>1. UNCHANGED <<ledger, children, owners>> /\ Forget(p)
  BY DEF Close
<1>2. /\ markers \subseteq markers' /\ markers' \subseteq markers \cup {run[p]}
      /\ ~clean[p] => run[p] \in markers'
  BY DEF Close
<1>3. TypeOK'
  <2>1. faults' \in 0..MaxFaults
    BY FaultType DEF Close, TypeOK
  <2>2. markers' \in SUBSET (0..Len(ledger))
    BY <1>2 DEF TypeOK
  <2>3. /\ pc' \in [Procs -> Stages] /\ run' \in [Procs -> 0..Len(ledger)]
        /\ request' \in [Procs -> Requests] /\ result' \in [Procs -> Result]
        /\ clean' \in [Procs -> BOOLEAN]
    BY <1>1, ForgetRuns
  <2> QED  BY <1>1, <2>1, <2>2, <2>3 DEF TypeOK
<1>4. RunInv' /\ GroupInv'
  <2>1. /\ pc'[p] = "idle" /\ run'[p] = 0 /\ clean'[p] /\ result'[p] = NoResult
        /\ \A q \in Procs \ {p} : /\ pc'[q] = pc[q] /\ run'[q] = run[q]
                                  /\ clean'[q] = clean[q] /\ result'[q] = result[q]
    BY <1>1, ForgetRuns
  <2>2. RunInv'
    BY <1>1, <2>1 DEF RunInv, Early, Working
  <2>3. GroupInv'
    BY <1>1, <2>1 DEF GroupInv, Early
  <2> QED  BY <2>2, <2>3
<1>5. EvidenceInv' /\ NativeIsReserved'
  BY <1>1, <1>2, ForgetRuns DEF EvidenceInv, NativeIsReserved, Active
<1> QED  BY <1>3, <1>4, <1>5

\* A controller that dies leaves its marker, its group and its row behind.
LEMMA CrashInv ==
  ASSUME IInv, NEW p \in Procs, Crash(p)
  PROVE  IInv'
<1> USE DEF IInv, owners
<1>1. Forget(p) /\ Gone(p) /\ markers' = markers \cup {run[p]}
  BY DEF Crash
<1>2. /\ UNCHANGED <<ledger, children>>
      /\ alive' \in SUBSET Procs /\ orphans' \in SUBSET DOMAIN ledger
  BY <1>1, GoneOwners
<1>3. TypeOK'
  <2>1. faults' \in 0..MaxFaults
    BY FaultType DEF Crash, TypeOK
  <2> QED  BY <1>1, <1>2, <2>1, ForgetRuns DEF TypeOK
<1>4. /\ pc'[p] = "idle" /\ run'[p] = 0 /\ clean'[p] /\ result'[p] = NoResult
      /\ \A q \in Procs \ {p} : /\ pc'[q] = pc[q] /\ run'[q] = run[q]
                                /\ clean'[q] = clean[q] /\ result'[q] = result[q]
  BY <1>1, ForgetRuns
<1>5. RunInv' /\ GroupInv'
  BY <1>2, <1>4 DEF RunInv, GroupInv, Early, Working
<1>6. EvidenceInv' /\ NativeIsReserved'
  BY <1>1, <1>2, <1>4 DEF EvidenceInv, NativeIsReserved, Active
<1> QED  BY <1>3, <1>5, <1>6

\* A process that ends after Run, or another one under its number, changes
\* nothing but who answers for its rows.
LEMMA ExitInv ==
  ASSUME IInv, NEW p \in Procs, Exit(p) \/ Renumber(p)
  PROVE  IInv'
<1> USE DEF IInv, owners
<1>1. /\ UNCHANGED <<ledger, pc, run, request, result, clean, markers, children, faults>>
      /\ alive' \in SUBSET Procs /\ orphans' \in SUBSET DOMAIN ledger
  BY GoneOwners DEF Exit, Renumber, TypeOK
<1> QED
  BY <1>1 DEF TypeOK, RunInv, GroupInv, EvidenceInv, NativeIsReserved, Active

\* A native group may end at any time.
LEMMA ChildExitInv ==
  ASSUME IInv, NEW i, ChildExit(i)
  PROVE  IInv'
BY DEF IInv, owners, ChildExit, TypeOK, RunInv, GroupInv, EvidenceInv, NativeIsReserved, Active

\* docs/BUDGETS.md:144-151: a repaired row had no running group.
LEMMA RepairInv ==
  ASSUME IInv, NEW i \in DOMAIN ledger, Repair(i)
  PROVE  IInv'
<1> USE DEF IInv, owners
<1> DEFINE row == [ledger[i] EXCEPT !.status = "completed", !.outcome = "ended",
                                    !.elapsed = ledger[i].reserved]
<1>1. ledger[i] \in Row
  BY ElementOfSeq, LenProperties DEF TypeOK
<1>2. /\ row \in Row /\ Valid(row) /\ row.owner = ledger[i].owner
      /\ row.status = "completed"
  BY <1>1 DEF Row, Valid
<1>3. ledger' = [ledger EXCEPT ![i] = row]
  BY DEF Repair
<1>4. /\ ledger' \in Seq(Row) /\ Len(ledger') = Len(ledger)
      /\ DOMAIN ledger' = DOMAIN ledger
      /\ ledger'[i] = row
      /\ \A j \in DOMAIN ledger \ {i} : ledger'[j] = ledger[j]
  BY <1>2, <1>3, SetRow DEF TypeOK
<1>5. /\ UNCHANGED <<pc, run, request, result, clean, markers, children, faults, owners>>
      /\ i \notin children /\ \A q \in Procs : pc[q] = "idle"
  BY DEF Repair
<1>6. TypeOK'
  BY <1>2, <1>4, <1>5 DEF TypeOK
<1>7. RunInv' /\ GroupInv'
  BY <1>5 DEF RunInv, GroupInv, Early, Working
<1>8. Active' \subseteq Active /\ Active \ {i} \subseteq Active'
  BY <1>4 DEF Active, Repair
<1>9. EvidenceInv' /\ NativeIsReserved'
  BY <1>5, <1>8 DEF EvidenceInv, NativeIsReserved
<1> QED  BY <1>6, <1>7, <1>9

\* docs/BUDGETS.md:136-143: only the marker of work that is over is removed.
LEMMA ReconcileInv ==
  ASSUME IInv, NEW i, Reconcile(i)
  PROVE  IInv'
BY DEF IInv, owners, Reconcile, TypeOK, RunInv, GroupInv, EvidenceInv, NativeIsReserved, Active

\* The inductive step.
LEMMA NextInv == IInv /\ [Next]_vars => IInv'
<1> SUFFICES ASSUME IInv, [Next]_vars  PROVE IInv'
  OBVIOUS
<1>1. CASE UNCHANGED vars
  BY <1>1 DEF vars, owners, IInv, TypeOK, RunInv, GroupInv, EvidenceInv, NativeIsReserved, Active
<1>2. ASSUME NEW p \in Procs, NEW r \in Requests, Start(p, r)  PROVE IInv'
  BY <1>2, StartInv
<1>3. ASSUME NEW p \in Procs, Step(p)  PROVE IInv'
  BY <1>3, PreflightInv, AdmitInv, SpawnInv, PublishPIDInv, SuperviseInv,
     FinalizeInv, CloseInv DEF Step
<1>4. ASSUME NEW p \in Procs, Crash(p) \/ Exit(p) \/ Renumber(p)  PROVE IInv'
  BY <1>4, CrashInv, ExitInv
<1>5. ASSUME NEW i, ChildExit(i) \/ Reconcile(i)  PROVE IInv'
  BY <1>5, ChildExitInv, ReconcileInv
<1>6. ASSUME NEW i \in DOMAIN ledger, Repair(i)  PROVE IInv'
  BY <1>6, RepairInv
<1> QED  BY <1>1, <1>2, <1>3, <1>4, <1>5, <1>6 DEF Next

\* Every reachable state of the budget satisfies the inductive invariant.
THEOREM Invariant == Spec => []IInv
BY InitInv, NextInv, PTL DEF Spec

\* Whatever fails, the ledger stays one that every reader accepts
\* (history.go, validateRecord).
THEOREM TypeCorrect == Spec => []TypeOK
<1>1. IInv => TypeOK
  BY DEF IInv
<1> QED  BY <1>1, Invariant, PTL

\* lifecycle.go, Finalize: running native work always has a reservation.
THEOREM NativeStaysReserved == Spec => []NativeIsReserved
<1>1. IInv => NativeIsReserved
  BY DEF IInv
<1> QED  BY <1>1, Invariant, PTL

\* runner.go, Run: every reservation and every native group keeps a marker in
\* the transition guard.
THEOREM EvidenceKept == Spec => []ActiveHasEvidence
<1>1. IInv => ActiveHasEvidence
  BY DEF IInv, EvidenceInv, ActiveHasEvidence
<1> QED  BY <1>1, Invariant, PTL

-----------------------------------------------------------------------------
(* The limits.                                                              *)

\* Only an admission adds a row, to a ledger that admits it.
Grows(p) ==
  /\ Admissible(request[p], alive)
  /\ \E row \in Row : /\ ledger' = Append(ledger, row)
                      /\ row.session = request[p].session
                      /\ row.task = request[p].task

\* Nothing else changes what the limits count, except by completing a row.
Shrinks ==
  /\ DOMAIN ledger' = DOMAIN ledger
  /\ \A i \in DOMAIN ledger : /\ ledger'[i].session = ledger[i].session
                              /\ ledger'[i].task = ledger[i].task
                              /\ ledger'[i].status = "active" => ledger[i].status = "active"

\* Every step of the budget is one of the two, as far as the limits go.
LEMMA LedgerSteps ==
  IInv /\ [Next]_vars => (\E p \in Procs : Grows(p)) \/ Shrinks
<1> SUFFICES ASSUME IInv, [Next]_vars, ~Shrinks
             PROVE  \E p \in Procs : Grows(p)
  OBVIOUS
<1> USE DEF IInv, owners
<1>1. ASSUME UNCHANGED ledger  PROVE FALSE
  BY <1>1 DEF Shrinks
<1>2. ASSUME NEW p \in Procs, Gone(p)  PROVE FALSE
  BY <1>1, <1>2 DEF Gone
<1>3. ASSUME NEW p \in Procs, Admit(p)  PROVE Grows(p)
  <2>1. Admissible(request[p], alive) /\ Reserve(p)
    BY <1>1, <1>3 DEF Admit
  <2>2. PICK seconds \in Nat : ledger' = Append(ledger, Reservation(p, seconds))
    BY <2>1, LimitsAssumption DEF Reserve
  <2>3. Reservation(p, seconds) \in Row
    BY DEF Reservation, Row, TypeOK
  <2> QED  BY <2>1, <2>2, <2>3 DEF Grows, Reservation
<1>4. ASSUME NEW p \in Procs, PublishPID(p)  PROVE FALSE
  <2> DEFINE row == [ledger[run[p]] EXCEPT !.pid = TRUE]
  <2>1. run[p] \in DOMAIN ledger /\ ledger[run[p]] \in Row
    BY <1>4, LenProperties, ElementOfSeq DEF PublishPID, TypeOK, RunInv, Working
  <2>2. /\ row \in Row /\ row.session = ledger[run[p]].session
        /\ row.task = ledger[run[p]].task /\ row.status = ledger[run[p]].status
    BY <2>1 DEF Row
  <2>3. ledger' = [ledger EXCEPT ![run[p]] = row]
    BY <1>1, <1>4 DEF PublishPID
  <2> QED  BY <2>1, <2>2, <2>3, SetRow DEF Shrinks, TypeOK
<1>5. ASSUME NEW p \in Procs, Finalize(p)  PROVE FALSE
  <2> DEFINE row == Final(ledger[run[p]], result[p])
  <2>1. /\ run[p] \in DOMAIN ledger /\ ledger[run[p]] \in Row
        /\ ledger[run[p]].status = "active" /\ result[p] \in Result
    BY <1>5, LenProperties, ElementOfSeq DEF Finalize, TypeOK, RunInv, Working
  <2>2. /\ row \in Row /\ row.session = ledger[run[p]].session
        /\ row.task = ledger[run[p]].task
    BY <2>1 DEF Row, Final, Result
  <2>3. ledger' = [ledger EXCEPT ![run[p]] = row]
    BY <1>1, <1>5 DEF Finalize
  <2> QED  BY <2>1, <2>2, <2>3, SetRow DEF Shrinks, TypeOK
<1>6. ASSUME NEW i \in DOMAIN ledger, Repair(i)  PROVE FALSE
  <2> DEFINE row == [ledger[i] EXCEPT !.status = "completed", !.outcome = "ended",
                                      !.elapsed = ledger[i].reserved]
  <2>1. ledger[i] \in Row /\ ledger' = [ledger EXCEPT ![i] = row]
    BY <1>6, LenProperties, ElementOfSeq DEF Repair, TypeOK
  <2>2. /\ row \in Row /\ row.session = ledger[i].session
        /\ row.task = ledger[i].task /\ row.status = "completed"
    BY <2>1 DEF Row
  <2> QED  BY <2>1, <2>2, SetRow DEF Shrinks, TypeOK
<1> QED
  BY <1>1, <1>2, <1>3, <1>4, <1>5, <1>6
  DEF Next, Step, Start, Preflight, Spawn, Supervise, Close, Crash, Exit,
      Renumber, ChildExit, Reconcile, vars

\* The reservations are finitely many, and so is every part of them.
LEMMA LedgerFinite ==
  ASSUME TypeOK
  PROVE  /\ IsFiniteSet(Active)
         /\ \A r : IsFiniteSet(Of(r)) /\ IsFiniteSet(Same(r))
<1>1. IsFiniteSet(DOMAIN ledger)
  <2>1. DOMAIN ledger = 1..Len(ledger) /\ Len(ledger) \in Int
    BY LenProperties DEF TypeOK
  <2> QED  BY <2>1, FS_Interval
<1>2. Active \subseteq DOMAIN ledger /\ \A r : Of(r) \subseteq DOMAIN ledger /\ Same(r) \subseteq DOMAIN ledger
  BY DEF Active, Of, Same
<1> QED  BY <1>1, <1>2, FS_Subset

\* One element more at most, where there was room for one.
LEMMA RoomForOne ==
  ASSUME NEW S, NEW T, NEW x, NEW limit \in Nat, IsFiniteSet(S),
         T \subseteq S \cup {x}, Cardinality(S) < limit
  PROVE  Cardinality(T) <= limit
<1>1. /\ IsFiniteSet(S \cup {x}) /\ Cardinality(S) \in Nat
      /\ Cardinality(S \cup {x}) <= Cardinality(S) + 1
  BY FS_AddElement, FS_CardinalityType
<1>2. Cardinality(T) <= Cardinality(S \cup {x}) /\ IsFiniteSet(T)
  BY <1>1, FS_Subset
<1>3. Cardinality(T) \in Nat /\ Cardinality(S \cup {x}) \in Nat
  BY <1>1, <1>2, FS_CardinalityType
<1> QED  BY <1>1, <1>2, <1>3

\* A step keeps the limits.
LEMMA LimitsStep == IInv /\ LimitsHold /\ [Next]_vars => LimitsHold'
<1> SUFFICES ASSUME IInv, LimitsHold, [Next]_vars  PROVE LimitsHold'
  OBVIOUS
<1>1. /\ IsFiniteSet(Active)
      /\ \A r : IsFiniteSet(Of(r)) /\ IsFiniteSet(Same(r))
  BY LedgerFinite DEF IInv
<1>2. {MaxAttempts, MaxSessionRuns, MaxConcurrent} \subseteq Nat
  BY LimitsAssumption
<1>3. ASSUME NEW p \in Procs, Grows(p)  PROVE LimitsHold'
  <2>1. PICK row \in Row : /\ ledger' = Append(ledger, row)
                           /\ row.session = request[p].session
                           /\ row.task = request[p].task
    BY <1>3 DEF Grows
  <2> DEFINE n == Len(ledger) + 1
  <2>2. /\ DOMAIN ledger' = DOMAIN ledger \cup {n} /\ n \notin DOMAIN ledger
        /\ ledger'[n] = row
        /\ \A j \in DOMAIN ledger : ledger'[j] = ledger[j]
    BY <2>1, AddRow DEF IInv, TypeOK
  <2>3. Active' \subseteq Active \cup {n}
    BY <2>2 DEF Active
  <2>4. Cardinality(Active') <= MaxConcurrent
    <3>1. Cardinality(Active) < MaxConcurrent
      BY <1>3 DEF Grows, Admissible
    <3> HIDE DEF n
    <3> QED  BY <1>1, <1>2, <2>3, <3>1, RoomForOne
  <2>5. ASSUME NEW r \in Requests
        PROVE  Cardinality(Of(r)') <= MaxSessionRuns
    <3>1. CASE r.session = request[p].session
      <4>1. Of(r)' \subseteq Of(r) \cup {n}
        BY <2>2 DEF Of
      <4>2. Of(r) = Of(request[p])
        BY <3>1 DEF Of
      <4>3. Cardinality(Of(r)) < MaxSessionRuns
        BY <4>2, <1>3 DEF Grows, Admissible
      <4> HIDE DEF n
      <4> QED  BY <1>1, <1>2, <4>1, <4>3, RoomForOne
    <3>2. CASE r.session # request[p].session
      <4>1. Of(r)' = Of(r)
        BY <2>1, <2>2, <3>2 DEF Of
      <4> QED  BY <4>1 DEF LimitsHold
    <3> QED  BY <3>1, <3>2
  <2>6. ASSUME NEW r \in Requests
        PROVE  Cardinality(Same(r)') <= MaxAttempts
    <3>1. CASE r.session = request[p].session /\ r.task = request[p].task
      <4>1. Same(r)' \subseteq Same(r) \cup {n}
        BY <2>2 DEF Same, Of
      <4>2. Same(r) = Same(request[p])
        BY <3>1 DEF Same, Of
      <4>3. Cardinality(Same(r)) < MaxAttempts
        BY <4>2, <1>3 DEF Grows, Admissible
      <4> HIDE DEF n
      <4> QED  BY <1>1, <1>2, <4>1, <4>3, RoomForOne
    <3>2. CASE ~(r.session = request[p].session /\ r.task = request[p].task)
      <4>1. Same(r)' = Same(r)
        BY <2>1, <2>2, <3>2 DEF Same, Of
      <4> QED  BY <4>1 DEF LimitsHold
    <3> QED  BY <3>1, <3>2
  <2> QED  BY <2>4, <2>5, <2>6 DEF LimitsHold
<1>4. CASE Shrinks
  <2>1. Active' \subseteq Active
    BY <1>4 DEF Shrinks, Active
  <2>2. \A r \in Requests : Of(r)' = Of(r) /\ Same(r)' = Same(r)
    BY <1>4 DEF Shrinks, Of, Same
  <2>3. Cardinality(Active') <= MaxConcurrent
    <3>1. Cardinality(Active') <= Cardinality(Active) /\ IsFiniteSet(Active')
      BY <1>1, <2>1, FS_Subset
    <3>2. Cardinality(Active) \in Nat /\ Cardinality(Active') \in Nat
      BY <1>1, <3>1, FS_CardinalityType
    <3> QED  BY <1>2, <3>1, <3>2 DEF LimitsHold
  <2> QED  BY <2>2, <2>3 DEF LimitsHold
<1> QED  BY <1>3, <1>4, LedgerSteps

\* plan.go and lifecycle.go: however controllers race, no configured limit is
\* exceeded.
THEOREM LimitsAreKept == Spec => []LimitsHold
<1>1. Init => LimitsHold
  <2> SUFFICES ASSUME Init  PROVE LimitsHold
    OBVIOUS
  <2>1. Active = {} /\ \A r \in Requests : Same(r) = {} /\ Of(r) = {}
    BY DEF Init, Active, Same, Of
  <2> QED  BY <2>1, FS_EmptySet, LimitsAssumption DEF LimitsHold
<1> QED  BY <1>1, LimitsStep, Invariant, PTL DEF Spec

\* plan.go: a group whose controller is gone blocks every admission for which no
\* other process answers under the controller's number.
THEOREM OrphansBlock == Spec => OrphanBlocksAdmission
<1>1. IInv /\ [Next]_vars =>
        [Len(ledger') > Len(ledger) =>
           \A i \in children \ {0} : i \in orphans => Taken(i)]_vars
  <2> SUFFICES ASSUME IInv, [Next]_vars, Len(ledger') > Len(ledger),
                      NEW i \in children \ {0}, i \in orphans
               PROVE  Taken(i)
    OBVIOUS
  <2>1. PICK p \in Procs : Grows(p)
    <3>1. CASE Shrinks
      BY <3>1, LenProperties DEF Shrinks, IInv, TypeOK
    <3> QED  BY <3>1, LedgerSteps
  <2>2. i \in Active
    BY DEF IInv, NativeIsReserved
  <2> QED  BY <2>1, <2>2 DEF Grows, Admissible, Blocks, Taken
<1> QED  BY <1>1, Invariant, PTL DEF Spec, OrphanBlocksAdmission
=============================================================================
