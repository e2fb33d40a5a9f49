--------------------------- MODULE PublicationProofs ---------------------------
(***************************************************************************)
(* Proofs that remote activation keeps its properties, and that source and *)
(* production keep what they promise together, for every set of processes, *)
(* requests, candidates and releases, any number of crashes and any faults.*)
(***************************************************************************)
EXTENDS Publication, RemoteActivationProperties, TLAPS

-----------------------------------------------------------------------------
(***************************************************************************)
(* Remote activation.  A step of process p is described three times: what  *)
(* it may do to the control state (ControlMove), what it may do to the     *)
(* disk (DiskMove), and what p knows after it (OwnStep).  The first two    *)
(* are enough to show that every other process still knows what it knew    *)
(* (OthersKnow): the disk only accumulates what a process relies on, and   *)
(* the pointer and the cancellations belong to the holder of the lock.     *)
(***************************************************************************)
\* A step of p leaves the variables of the others alone and moves the lock
\* only to or from p.
ControlMove(p) ==
    /\ ControlTypeOK'
    /\ \A q \in Proc \ {p} :
          pc'[q] = pc[q] /\ job'[q] = job[q] /\ prev'[q] = prev[q]
    /\ \/ lock' = lock
       \/ lock = NoProc /\ lock' = p
       \/ lock = p /\ lock' = NoProc

\* Databases, quarantined requests and retained base pointers are never
\* removed or overwritten.
WriteOnce ==
    /\ installed \subseteq installed'
    /\ \A i \in RequestId : quarantine[i] # NoRequest => quarantine'[i] = quarantine[i]
    /\ \A i \in RequestId : basePointer[i] # NoRelease => basePointer'[i] = basePointer[i]

Evidence(i) ==
    /\ quarantine[i] # NoRequest
    /\ basePointer[i] = quarantine[i].base
    /\ quarantine[i].target \in installed

DiskMove(p) ==
    /\ DiskTypeOK'
    /\ WriteOnce
    /\ pc[p] \notin Locked => UNCHANGED <<pointer, cancelled>>
    /\ pointer' \in installed
    /\ \A i \in results' : i \in results \/ Evidence(i)

-----------------------------------------------------------------------------
(* One step of a process.                                                  *)

\* The moves of the control state keep to p's own variables.
LEMMA GotoMove ==
    ASSUME TypeOK, NEW p \in Proc, NEW place \in Place, Goto(p, place)
    PROVE  ControlMove(p)
BY DEF TypeOK, ControlTypeOK, ControlMove, Goto

\* The end of a process frees no lock but its own.
LEMMA EndMove ==
    ASSUME TypeOK, NEW p \in Proc, NEW place \in Place, End(p, place)
    PROVE  ControlMove(p)
BY DEF TypeOK, ControlTypeOK, ControlMove, End

\* The lock is taken from nobody.
LEMMA TakeMove ==
    ASSUME TypeOK, NEW p \in Proc, NEW place \in Place, Take(p, place)
    PROVE  ControlMove(p)
BY DEF TypeOK, ControlTypeOK, ControlMove, Take

\* Every step of p is such a move.
LEMMA ControlStep ==
    ASSUME TypeOK, IInv, NEW p \in Proc, Step(p)
    PROVE  ControlMove(p)
<1> USE GotoMove, EndMove, TakeMove DEF Place, Ended, BeforeLock, Publishing,
        Reverting, Recovering, Locked
<1>1. ASSUME NEW r \in Request, Admit(p, r) PROVE ControlMove(p)
  BY <1>1 DEF Admit, ControlMove, TypeOK, ControlTypeOK
<1>2. CASE BeforeLockStep(p)
  <2>1. CASE InspectMismatch(p)
    BY <2>1 DEF InspectMismatch
  <2>2. CASE InspectReplay(p)
    BY <2>2 DEF InspectReplay
  <2>3. CASE InspectFresh(p)
    BY <2>3 DEF InspectFresh, ControlMove, TypeOK, ControlTypeOK, DiskTypeOK
  <2>4. CASE WriteQuarantine(p)
    BY <2>4 DEF WriteQuarantine
  <2>5. CASE WriteBasePointer(p)
    BY <2>5 DEF WriteBasePointer
  <2>6. CASE AnswerStatus(p)
    BY <2>6 DEF AnswerStatus
  <2>7. CASE BeginRollback(p)
    BY <2>7 DEF BeginRollback
  <2>8. CASE LockBusy(p)
    BY <2>8 DEF LockBusy
  <2>9. CASE LockForPublish(p)
    BY <2>9 DEF LockForPublish
  <2>10. CASE LockForRollback(p)
    BY <2>10 DEF LockForRollback
  <2>11. CASE LockForRecovery(p)
    BY <2>11 DEF LockForRecovery
  <2>12. QED
    BY <1>2, <2>1, <2>2, <2>3, <2>4, <2>5, <2>6, <2>7, <2>8, <2>9, <2>10,
       <2>11 DEF BeforeLockStep
<1>3. CASE PublishStep(p)
  <2>1. CASE Stage(p)
    BY <2>1 DEF Stage
  <2>2. CASE ApplyDelta(p)
    BY <2>2 DEF ApplyDelta
  <2>3. CASE InstallDatabase(p)
    BY <2>3 DEF InstallDatabase
  <2>4. CASE FinishInstall(p)
    BY <2>4 DEF FinishInstall
  <2>5. CASE Switch(p)
    BY <2>5 DEF Switch
  <2>6. CASE Activate(p)
    BY <2>6 DEF Activate
  <2>7. CASE Prove(p)
    BY <2>7 DEF Prove, ControlMove, TypeOK, ControlTypeOK, IInv, Knows,
       Ownership
  <2>8. CASE FailProof(p)
    BY <2>8 DEF FailProof
  <2>9. CASE Restore(p)
    BY <2>9 DEF Restore
  <2>10. CASE RestorePointer(p)
    BY <2>10 DEF RestorePointer
  <2>11. CASE ProveRestored(p)
    BY <2>11 DEF ProveRestored
  <2>12. CASE Latch(p)
    BY <2>12 DEF Latch
  <2>13. CASE SaveResult(p)
    BY <2>13 DEF SaveResult
  <2>14. QED
    BY <1>3, <2>1, <2>2, <2>3, <2>4, <2>5, <2>6, <2>7, <2>8, <2>9, <2>10,
       <2>11, <2>12, <2>13 DEF PublishStep
<1>4. CASE RecoveryStep(p)
  <2>1. CASE Recover(p)
    BY <2>1 DEF Recover
  <2>2. CASE ProveRecovered(p)
    BY <2>2 DEF ProveRecovered
  <2>3. CASE FailRecovery(p)
    BY <2>3 DEF FailRecovery
  <2>4. QED
    BY <1>4, <2>1, <2>2, <2>3 DEF RecoveryStep
<1>5. CASE RollbackStep(p)
  <2>1. CASE Cancel(p)
    BY <2>1 DEF Cancel
  <2>2. CASE Revert(p)
    BY <2>2 DEF Revert
  <2>3. CASE RevertPointer(p)
    BY <2>3 DEF RevertPointer
  <2>4. CASE ProveReverted(p)
    BY <2>4 DEF ProveReverted
  <2>5. QED
    BY <1>5, <2>1, <2>2, <2>3, <2>4 DEF RollbackStep
<1>6. CASE Fault(p)
  <2>1. CASE Error(p)
    BY <2>1 DEF Error, Fallible
  <2>2. CASE ErrorUndoing(p)
    BY <2>2 DEF ErrorUndoing
  <2>3. CASE Crash(p)
    BY <2>3, BoundAssumption DEF Crash, ControlMove, TypeOK, ControlTypeOK
  <2>4. QED
    BY <1>6, <2>1, <2>2, <2>3 DEF Fault
<1>7. QED
  BY <1>1, <1>2, <1>3, <1>4, <1>5, <1>6 DEF Step, Run

\* No step removes what another process relies on, only a lock holder moves the
\* pointer, always to an installed release, and a result that is added has its
\* evidence on disk already.
LEMMA DiskStep ==
    ASSUME TypeOK, IInv, NEW p \in Proc, Step(p)
    PROVE  DiskMove(p)
<1> USE RequestAssumption, NoneAssumption DEF DiskMove, WriteOnce, Evidence,
        PointerNamesDatabase, IInv, Knows, Work, Databases, Records, IsPublish,
        OnRecord, Installed, Activated, HoldsPrevious, TypeOK, ControlTypeOK,
        DiskTypeOK, RequestType, disk, Publishing, Reverting, Recovering, Locked,
        Ended
<1>1. ASSUME NEW r \in Request, Admit(p, r) PROVE DiskMove(p)
  BY <1>1 DEF Admit
<1>2. CASE BeforeLockStep(p)
  <2>1. CASE InspectMismatch(p)
    BY <2>1 DEF InspectMismatch, Retained
  <2>2. CASE InspectReplay(p)
    BY <2>2 DEF InspectReplay
  <2>3. CASE InspectFresh(p)
    BY <2>3 DEF InspectFresh, Retained
  <2>4. CASE WriteQuarantine(p)
    BY <2>4 DEF WriteQuarantine, Retained
  <2>5. CASE WriteBasePointer(p)
    BY <2>5 DEF WriteBasePointer
  <2>6. CASE AnswerStatus(p)
    BY <2>6 DEF AnswerStatus
  <2>7. CASE BeginRollback(p)
    BY <2>7 DEF BeginRollback
  <2>8. CASE LockBusy(p)
    BY <2>8 DEF LockBusy
  <2>9. CASE LockForPublish(p)
    BY <2>9 DEF LockForPublish
  <2>10. CASE LockForRollback(p)
    BY <2>10 DEF LockForRollback
  <2>11. CASE LockForRecovery(p)
    BY <2>11 DEF LockForRecovery
  <2>12. QED
    BY <1>2, <2>1, <2>2, <2>3, <2>4, <2>5, <2>6, <2>7, <2>8, <2>9, <2>10,
       <2>11 DEF BeforeLockStep
<1>3. CASE PublishStep(p)
  <2>1. CASE Stage(p)
    BY <2>1 DEF Stage
  <2>2. CASE ApplyDelta(p)
    BY <2>2 DEF ApplyDelta
  <2>3. CASE InstallDatabase(p)
    BY <2>3 DEF InstallDatabase
  <2>4. CASE FinishInstall(p)
    BY <2>4 DEF FinishInstall
  <2>5. CASE Switch(p)
    BY <2>5 DEF Switch, StagePointer
  <2>6. CASE Activate(p)
    BY <2>6 DEF Activate, RenamePointer
  <2>7. CASE Prove(p)
    BY <2>7 DEF Prove
  <2>8. CASE FailProof(p)
    BY <2>8 DEF FailProof
  <2>9. CASE Restore(p)
    BY <2>9 DEF Restore, StagePointer
  <2>10. CASE RestorePointer(p)
    BY <2>10 DEF RestorePointer, RenamePointer
  <2>11. CASE ProveRestored(p)
    BY <2>11 DEF ProveRestored
  <2>12. CASE Latch(p)
    BY <2>12 DEF Latch
  <2>13. CASE SaveResult(p)
    BY <2>13 DEF SaveResult
  <2>14. QED
    BY <1>3, <2>1, <2>2, <2>3, <2>4, <2>5, <2>6, <2>7, <2>8, <2>9, <2>10,
       <2>11, <2>12, <2>13 DEF PublishStep
<1>4. CASE RecoveryStep(p)
  <2>1. CASE Recover(p)
    BY <2>1 DEF Recover
  <2>2. CASE ProveRecovered(p)
    BY <2>2 DEF ProveRecovered
  <2>3. CASE FailRecovery(p)
    BY <2>3 DEF FailRecovery
  <2>4. QED
    BY <1>4, <2>1, <2>2, <2>3 DEF RecoveryStep
<1>5. CASE RollbackStep(p)
  <2>1. CASE Cancel(p)
    BY <2>1 DEF Cancel
  <2>2. CASE Revert(p)
    BY <2>2 DEF Revert, StagePointer
  <2>3. CASE RevertPointer(p)
    BY <2>3 DEF RevertPointer, RenamePointer
  <2>4. CASE ProveReverted(p)
    BY <2>4 DEF ProveReverted
  <2>5. QED
    BY <1>5, <2>1, <2>2, <2>3, <2>4 DEF RollbackStep
<1>6. CASE Fault(p)
  <2>1. CASE Error(p)
    BY <2>1 DEF Error, Fallible, BeforeLock
  <2>2. CASE ErrorUndoing(p)
    BY <2>2 DEF ErrorUndoing
  <2>3. CASE Crash(p)
    BY <2>3 DEF Crash
  <2>4. QED
    BY <1>6, <2>1, <2>2, <2>3 DEF Fault
<1>7. QED
  BY <1>1, <1>2, <1>3, <1>4, <1>5, <1>6 DEF Step, Run

-----------------------------------------------------------------------------
(* What the processes know after it.                                       *)

\* A process that does not move keeps what it knows: if it holds the lock, the
\* one that moves does not and leaves the pointer alone.
LEMMA OthersKnow ==
    ASSUME TypeOK, IInv, NEW p \in Proc, NEW q \in Proc, q # p,
           ControlMove(p), DiskMove(p)
    PROVE  Knows(q)'
<1>1. pc'[q] = pc[q] /\ job'[q] = job[q] /\ prev'[q] = prev[q]
  BY DEF ControlMove
<1>2. lock' = q <=> lock = q
  BY NoneAssumption DEF ControlMove
<1>3. Knows(q) /\ Ownership(p)
  BY DEF IInv, Knows
<1>4. pc[q] \in Locked => UNCHANGED <<pointer, cancelled>>
  BY <1>3 DEF Knows, Ownership, DiskMove
<1>5. pc[q] \notin Ended => /\ job[q] \in Request /\ job[q] # NoRequest
                            /\ job[q].id \in RequestId
                            /\ job[q].base \in Release /\ job[q].base # NoRelease
  BY <1>3, RequestAssumption, NoneAssumption DEF Knows, Work, RequestType
<1>6. Ownership(q)'
  BY <1>1, <1>2, <1>3 DEF Knows, Ownership
<1>7. Work(q)'
  BY <1>1, <1>3 DEF Knows, Work, IsPublish
<1>8. Databases(q)'
  BY <1>1, <1>3 DEF Knows, Databases, IsPublish, DiskMove, WriteOnce
<1>9. Records(q)'
  BY <1>1, <1>3, <1>5 DEF Knows, Records, IsPublish, DiskMove, WriteOnce,
     OnRecord, Recovering, Publishing, Reverting, Ended
<1>10. Activation(q)'
  BY <1>1, <1>3, <1>4 DEF Knows, Activation, AtTarget, PastStaging, Locked,
     Publishing, Reverting, Recovering
<1>11. QED
  BY <1>6, <1>7, <1>8, <1>9, <1>10 DEF Knows

\* A process that has ended knows nothing but that the lock is not its own.
LEMMA EndKnows ==
    ASSUME TypeOK, IInv, NEW p \in Proc, NEW outcome \in Ended, End(p, outcome)
    PROVE  Knows(p)'
BY NoneAssumption DEF TypeOK, ControlTypeOK, End, Knows, Ownership, Work,
   Databases, Records, Activation, HoldsPrevious, Installed, OnRecord,
   PastStaging, AtTarget, Activated, Place, Ended, BeforeLock, Publishing,
   Reverting, Recovering, Locked

\* The process that moves knows what its new place requires.
LEMMA OwnStep ==
    ASSUME TypeOK, IInv, NEW p \in Proc, Step(p)
    PROVE  Knows(p)'
<1> USE EndKnows, RequestAssumption, NoneAssumption DEF IInv, Knows,
        Ownership, Work, Databases, Records, Activation, HoldsPrevious, Installed,
        OnRecord, PastStaging, AtTarget, Activated, TypeOK, ControlTypeOK,
        DiskTypeOK, RequestType, IsPublish, disk, Place, Ended, BeforeLock,
        Publishing, Reverting, Recovering, Locked
<1>1. ASSUME NEW r \in Request, Admit(p, r) PROVE Knows(p)'
  BY <1>1 DEF Admit
<1>2. CASE BeforeLockStep(p)
  <2>1. CASE InspectMismatch(p)
    BY <2>1 DEF InspectMismatch, Retained
  <2>2. CASE InspectReplay(p)
    BY <2>2 DEF InspectReplay, Goto, MustRecover
  <2>3. CASE InspectFresh(p)
    BY <2>3 DEF InspectFresh, Retained, MustRecover, PointerNamesDatabase
  <2>4. CASE WriteQuarantine(p)
    BY <2>4 DEF WriteQuarantine, Retained, Goto
  <2>5. CASE WriteBasePointer(p)
    BY <2>5 DEF WriteBasePointer, Goto
  <2>6. CASE AnswerStatus(p)
    BY <2>6 DEF AnswerStatus
  <2>7. CASE BeginRollback(p)
    BY <2>7 DEF BeginRollback, Goto
  <2>8. CASE LockBusy(p)
    BY <2>8 DEF LockBusy
  <2>9. CASE LockForPublish(p)
    BY <2>9 DEF LockForPublish, Take
  <2>10. CASE LockForRollback(p)
    BY <2>10 DEF LockForRollback, Take, Action
  <2>11. CASE LockForRecovery(p)
    BY <2>11 DEF LockForRecovery, Take
  <2>12. QED
    BY <1>2, <2>1, <2>2, <2>3, <2>4, <2>5, <2>6, <2>7, <2>8, <2>9, <2>10,
       <2>11 DEF BeforeLockStep
<1>3. CASE PublishStep(p)
  <2>1. CASE Stage(p)
    BY <2>1 DEF Stage, Goto, Cancelled
  <2>2. CASE ApplyDelta(p)
    BY <2>2 DEF ApplyDelta, Goto
  <2>3. CASE InstallDatabase(p)
    BY <2>3 DEF InstallDatabase, Goto
  <2>4. CASE FinishInstall(p)
    BY <2>4 DEF FinishInstall, Goto
  <2>5. CASE Switch(p)
    BY <2>5 DEF Switch, StagePointer, Goto, CanReplace
  <2>6. CASE Activate(p)
    BY <2>6 DEF Activate, RenamePointer, Goto
  <2>7. CASE Prove(p)
    BY <2>7 DEF Prove, HealthConfirms
  <2>8. CASE FailProof(p)
    BY <2>8 DEF FailProof, Goto
  <2>9. CASE Restore(p)
    BY <2>9 DEF Restore, StagePointer, Goto, CanReplace
  <2>10. CASE RestorePointer(p)
    BY <2>10 DEF RestorePointer, RenamePointer, Goto
  <2>11. CASE ProveRestored(p)
    BY <2>11 DEF ProveRestored, Goto, HealthConfirms
  <2>12. CASE Latch(p)
    BY <2>12 DEF Latch
  <2>13. CASE SaveResult(p)
    BY <2>13 DEF SaveResult
  <2>14. QED
    BY <1>3, <2>1, <2>2, <2>3, <2>4, <2>5, <2>6, <2>7, <2>8, <2>9, <2>10,
       <2>11, <2>12, <2>13 DEF PublishStep
<1>4. CASE RecoveryStep(p)
  <2>1. CASE Recover(p)
    BY <2>1 DEF Recover, Goto
  <2>2. CASE ProveRecovered(p)
    BY <2>2 DEF ProveRecovered, HealthConfirms
  <2>3. CASE FailRecovery(p)
    BY <2>3 DEF FailRecovery
  <2>4. QED
    BY <1>4, <2>1, <2>2, <2>3 DEF RecoveryStep
<1>5. CASE RollbackStep(p)
  <2>1. CASE Cancel(p)
    BY <2>1 DEF Cancel, Goto
  <2>2. CASE Revert(p)
    BY <2>2 DEF Revert, StagePointer, Goto, CanReplace
  <2>3. CASE RevertPointer(p)
    BY <2>3 DEF RevertPointer, RenamePointer, Goto
  <2>4. CASE ProveReverted(p)
    BY <2>4 DEF ProveReverted, HealthConfirms
  <2>5. QED
    BY <1>5, <2>1, <2>2, <2>3, <2>4 DEF RollbackStep
<1>6. CASE Fault(p)
  <2>1. CASE Error(p)
    BY <2>1 DEF Error, Fallible
  <2>2. CASE ErrorUndoing(p)
    BY <2>2 DEF ErrorUndoing, Goto
  <2>3. CASE Crash(p)
    BY <2>3 DEF Crash
  <2>4. QED
    BY <1>6, <2>1, <2>2, <2>3 DEF Fault
<1>7. QED
  BY <1>1, <1>2, <1>3, <1>4, <1>5, <1>6 DEF Step, Run

-----------------------------------------------------------------------------
(* The inductive invariant.                                                *)

\* The program starts in the type.
LEMMA InitTypeOK == Init => TypeOK
<1> SUFFICES ASSUME Init PROVE TypeOK
  OBVIOUS
<1>1. ControlTypeOK
  BY BoundAssumption DEF Init, ControlTypeOK, Place, Ended
<1>2. DiskTypeOK
  BY InitialAssumption DEF Init, DiskTypeOK
<1>3. QED
  BY <1>1, <1>2 DEF TypeOK

\* At the start nobody runs, and the initial release is installed.
LEMMA InitIInv == Init => IInv
BY NoneAssumption DEF Init, IInv, PointerNamesDatabase, ResultHasEvidence,
   Knows, Ownership, Work, Databases, Records, Activation, Ended, BeforeLock,
   Publishing, Reverting, Recovering, Locked, HoldsPrevious, Installed,
   OnRecord, PastStaging, AtTarget, Activated

\* Every step keeps the invariant.
LEMMA InductiveStep == TypeOK /\ IInv /\ [Next]_vars => (TypeOK /\ IInv)'
<1> SUFFICES ASSUME TypeOK, IInv, [Next]_vars PROVE TypeOK' /\ IInv'
  OBVIOUS
<1>1. CASE UNCHANGED vars
  BY <1>1 DEF vars, disk, TypeOK, ControlTypeOK, DiskTypeOK, IInv,
     PointerNamesDatabase, ResultHasEvidence, Knows, Ownership, Work, Databases,
     Records, Activation, IsPublish
<1>2. ASSUME NEW p \in Proc, Step(p) PROVE TypeOK' /\ IInv'
  <2>1. ControlMove(p) /\ DiskMove(p)
    BY <1>2, ControlStep, DiskStep
  <2>2. TypeOK'
    BY <2>1 DEF TypeOK, ControlMove, DiskMove
  <2>3. PointerNamesDatabase'
    BY <2>1 DEF DiskMove, WriteOnce, PointerNamesDatabase
  <2>4. ResultHasEvidence'
    <3> SUFFICES ASSUME NEW i \in results' PROVE Evidence(i)'
      BY DEF ResultHasEvidence, Evidence
    <3>1. Evidence(i)
      BY <2>1 DEF DiskMove, IInv, ResultHasEvidence, Evidence
    <3>2. i \in RequestId /\ quarantine[i] \in Request /\ basePointer[i] # NoRelease
      BY <2>1, <3>1, RequestAssumption, NoneAssumption
         DEF DiskMove, TypeOK, DiskTypeOK, Evidence, RequestType
    <3>3. QED
      BY <2>1, <3>1, <3>2 DEF DiskMove, WriteOnce, Evidence
  <2>5. ASSUME NEW q \in Proc PROVE Knows(q)'
    BY <1>2, <2>1, OwnStep, OthersKnow
  <2>6. QED
    BY <2>2, <2>3, <2>4, <2>5 DEF IInv
<1>3. QED
  BY <1>1, <1>2 DEF Next

\* Every process always knows what IInv says of its place, whatever the others
\* do and wherever processes crash.
THEOREM Invariance == Spec => [](TypeOK /\ IInv)
<1>1. Init => TypeOK /\ IInv
  BY InitTypeOK, InitIInv
<1>2. QED
  BY <1>1, InductiveStep, PTL DEF Spec

\* No step leaves the type: in particular no pointer is ever written from a
\* variable that was not read before.
THEOREM TypeCorrect == Spec => []TypeOK
BY Invariance, PTL

\* Publications, recoveries and rollbacks exclude each other between taking
\* and releasing the mutation lock.
THEOREM Exclusion == Spec => []MutualExclusion
<1>1. IInv => MutualExclusion
  BY DEF IInv, Knows, Ownership, MutualExclusion
<1>2. QED
  BY <1>1, Invariance, PTL

\* active.json names a complete database at every moment.
THEOREM PointerComplete == Spec => []PointerNamesDatabase
<1>1. IInv => PointerNamesDatabase
  BY DEF IInv
<1>2. QED
  BY <1>1, Invariance, PTL

\* Every saved result is backed by what a replay needs.
THEOREM ResultsBacked == Spec => []ResultHasEvidence
<1>1. IInv => ResultHasEvidence
  BY DEF IInv
<1>2. QED
  BY <1>1, Invariance, PTL

-----------------------------------------------------------------------------
(* What a step may never do.                                               *)

\* Only four actions move the pointer or cancel a release.
LEMMA QuietStep ==
    ASSUME NEW p \in Proc, Step(p)
    PROVE  \/ Activate(p) \/ RestorePointer(p) \/ Cancel(p) \/ RevertPointer(p)
           \/ UNCHANGED <<pointer, cancelled>>
BY DEF Step, Run, BeforeLockStep, PublishStep, RecoveryStep, RollbackStep,
   Fault, Admit, disk, StagePointer, InspectMismatch, InspectReplay,
   InspectFresh, WriteQuarantine, WriteBasePointer, AnswerStatus,
   BeginRollback, LockBusy, LockForPublish, LockForRollback, LockForRecovery,
   Stage, ApplyDelta, InstallDatabase, FinishInstall, Switch, Prove,
   FailProof, Restore, ProveRestored, Latch, SaveResult, Recover,
   ProveRecovered, FailRecovery, Revert, ProveReverted, Error, ErrorUndoing,
   Crash

\* No publication activates a release that an operator rolled back.
THEOREM CancellationHolds == Spec => CancelledStaysDown
<1>1. ASSUME TypeOK, IInv, NEW q \in Proc, Step(q),
             NEW p \in Proc, pc[p] = "renaming", pointer' # pointer
      PROVE  pointer' \notin cancelled
  <2>1. p = q
    <3>1. Ownership(p) /\ Ownership(q)
      BY <1>1 DEF IInv, Knows
    <3>2. pc[q] \in Locked
      BY <1>1, DiskStep DEF DiskMove
    <3>3. QED
      BY <1>1, <3>1, <3>2 DEF Ownership, Locked, Publishing
  <2>2. Activate(p)
    BY <1>1, <2>1, QuietStep DEF RestorePointer, Cancel, RevertPointer
  <2>3. Activation(p)
    BY <1>1 DEF IInv, Knows
  <2>4. QED
    BY <1>1, <2>2, <2>3 DEF Activate, RenamePointer, Activation, PastStaging
<1>2. TypeOK /\ IInv /\ [Next]_vars =>
        [\A p \in Proc : pc[p] = "renaming" /\ pointer' # pointer
                         => pointer' \notin cancelled]_vars
  BY <1>1 DEF Next
<1>3. QED
  BY <1>2, Invariance, PTL DEF Spec, CancelledStaysDown

\* A publication that fails after its activation leaves the previous pointer or
\* the reconciliation marker behind, unless the write of the marker failed.
THEOREM UndoneOrLatched == Spec => RestoredOrLatched
<1>1. ASSUME TypeOK, IInv, NEW q \in Proc, Step(q),
             NEW p \in Proc, pc[p] \in Activated, pc'[p] = "failed"
      PROVE  pointer' = prev[p] \/ blocked' \/ LatchIsLost(p)
  <2>1. p = q
    BY <1>1, ControlStep DEF ControlMove, Activated
  <2>2. ProveRestored(p) \/ Latch(p) \/ Error(p)
    BY <1>1, <2>1 DEF Step, Run, BeforeLockStep, PublishStep, RecoveryStep,
       RollbackStep, Fault, Admit, Activated, TypeOK, ControlTypeOK, Goto,
       Take, Fallible, BeforeLock, InspectMismatch, InspectReplay,
       InspectFresh, WriteQuarantine, WriteBasePointer, AnswerStatus,
       BeginRollback, LockBusy, LockForPublish, LockForRollback,
       LockForRecovery, Stage, ApplyDelta, InstallDatabase, FinishInstall,
       Switch, Activate, Prove, FailProof, Restore, RestorePointer,
       SaveResult, Recover, ProveRecovered, FailRecovery, Cancel, Revert,
       RevertPointer, ProveReverted, Error, ErrorUndoing, Crash
  <2>3. QED
    BY <1>1, <2>1, <2>2 DEF ProveRestored, Latch, HealthConfirms, Goto, disk,
       TypeOK, ControlTypeOK, LatchIsLost, Error, Fallible, BeforeLock, Activated
<1>2. TypeOK /\ IInv /\ [Next]_vars =>
        [\A p \in Proc : pc[p] \in Activated /\ pc'[p] = "failed"
                         => pointer' = prev[p] \/ blocked' \/ LatchIsLost(p)]_vars
  BY <1>1 DEF Next
<1>3. QED
  BY <1>2, Invariance, PTL DEF Spec, RestoredOrLatched

-----------------------------------------------------------------------------
(* Refinement.                                                             *)

\* The processes, files and locks together behave as one register that moves
\* only along the requests.
THEOREM Refinement == Spec => ImplementsRegister
<1>1. Init => Register!Init
  BY DEF Init, Register!Init
<1>2. ASSUME TypeOK, IInv, NEW p \in Proc, Step(p)
      PROVE  Register!Next \/ UNCHANGED <<pointer, cancelled>>
  <2>1. Work(p) /\ Activation(p)
    BY <1>2 DEF IInv, Knows
  <2> DEFINE base == job[p].base
             target == job[p].target
  <2>2. pc[p] \notin Ended =>
          job[p] \in Request /\ base \in Release /\ target \in Release
    BY <2>1, RequestAssumption DEF Work, RequestType
  <2>3. CASE Activate(p)
    <3>1. Register!Publish(base, target)
      BY <2>1, <2>2, <2>3 DEF Activate, RenamePointer, Register!Publish, Work,
         Activation, IsPublish, HoldsPrevious, PastStaging, Publishing, Ended
    <3>2. QED
      BY <2>2, <2>3, <3>1 DEF Register!Next, Activate, Ended
  <2>4. CASE RestorePointer(p)
    <3>1. Register!Undo(base, target)
      BY <2>1, <2>2, <2>4 DEF RestorePointer, RenamePointer, Register!Undo, Work,
         Activation, IsPublish, HoldsPrevious, AtTarget, Publishing, Ended
    <3>2. QED
      BY <2>2, <2>4, <3>1 DEF Register!Next, RestorePointer, Ended
  <2>5. CASE Cancel(p)
    <3>1. CASE base = target
      BY <2>1, <2>5, <3>1 DEF Cancel, Work, HoldsPrevious, Reverting
    <3>2. CASE base # target
      <4>1. Register!TakeDown(base, target)
        BY <2>1, <2>2, <2>5, <3>2 DEF Cancel, Register!TakeDown, Work,
           HoldsPrevious, Reverting, Ended
      <4>2. QED
        BY <2>2, <2>5, <4>1 DEF Register!Next, Cancel, Ended
    <3>3. QED
      BY <3>1, <3>2
  <2>6. CASE RevertPointer(p)
    <3>1. Register!RollBack(base, target)
      BY <2>1, <2>2, <2>6 DEF RevertPointer, RenamePointer, Register!RollBack,
         Work, Activation, HoldsPrevious, Reverting, Ended
    <3>2. QED
      BY <2>2, <2>6, <3>1 DEF Register!Next, RevertPointer, Ended
  <2>7. QED
    BY <1>2, <2>3, <2>4, <2>5, <2>6, QuietStep
<1>3. TypeOK /\ IInv /\ [Next]_vars => [Register!Next]_(Register!vars)
  BY <1>2 DEF Next, Register!vars, vars, disk
<1>4. QED
  BY <1>1, <1>3, Invariance, PTL DEF Spec, ImplementsRegister, Register!Spec

-----------------------------------------------------------------------------
(***************************************************************************)
(* Source and production.  What is known of the remote processes comes     *)
(* from the invariant of remote activation: every step here is one of its  *)
(* steps or leaves it alone.                                               *)
(***************************************************************************)
\* A release is proven: the initial one, or one with a saved result.
Proven(r) == r = Initial \/ \E c \in Candidate : c.target = r /\ c.id \in results

\* The result of this very request is saved.
Saved(c) == c.id \in results /\ quarantine[c.id] = c

AfterReply == {"installing", "switching", "renaming", "reporting"}

\* Whatever waits or works for a candidate knows that its base is proven, and that its
\* own result is saved once its reply was read.
RunInv ==
    /\ PubTypeOK
    /\ at = "idle" => call = NoProc
    /\ Proven(source)
    /\ \A c \in Candidate : kept[c] # NoRelease => Proven(c.base)
    /\ at # "idle" => Proven(cand.base)
    /\ at = "awaiting" => /\ call \in Proc
                          /\ pc[call] \notin Ended => job[call] = cand
                          /\ pc[call] = "done" => Saved(cand)
    /\ at \in AfterReply => Saved(cand)
    /\ \A c \in reported : Saved(c)
    /\ \A p \in Proc : pc[p] \notin Ended /\ job[p] \in Candidate => Proven(job[p].base)

PubInv == TypeOK /\ IInv /\ RunInv

-----------------------------------------------------------------------------
(* The steps of a remote process, as the source sees them.                 *)

\* Results stay, and a new one is its process's own.
LEMMA ResultsGrow ==
    ASSUME NEW p \in Proc, Step(p)
    PROVE  /\ results \subseteq results'
           /\ results' = results \/ SaveResult(p) \/ ProveRecovered(p)
<1>1. UNCHANGED results \/ SaveResult(p) \/ ProveRecovered(p)
  BY DEF Step, Run, BeforeLockStep, PublishStep, RecoveryStep, RollbackStep,
     Fault, Admit, disk, StagePointer, RenamePointer, InspectMismatch, InspectReplay,
     InspectFresh, WriteQuarantine, WriteBasePointer, AnswerStatus,
     BeginRollback, LockBusy, LockForPublish, LockForRollback, LockForRecovery,
     Stage, ApplyDelta, InstallDatabase, FinishInstall, Switch, Activate, Prove,
     FailProof, Restore, RestorePointer, ProveRestored, Latch, Recover,
     FailRecovery, Cancel, Revert, RevertPointer, ProveReverted, Error, ErrorUndoing,
     Crash
<1>2. SaveResult(p) \/ ProveRecovered(p) => results \subseteq results'
  BY DEF SaveResult, ProveRecovered
<1>3. QED
  BY <1>1, <1>2

\* A process keeps its request until it ends, and ends well only with what it was
\* started for: a publication with its result.
LEMMA WorkEnds ==
    ASSUME TypeOK, IInv, NEW p \in Proc, Run(p) \/ Fault(p)
    PROVE  /\ pc[p] \notin Ended
           /\ pc'[p] \notin Ended => job'[p] = job[p]
           /\ \A c : job[p] = c /\ pc'[p] = "done" /\ IsPublish(p) => Saved(c)'
<1> USE DEF TypeOK, ControlTypeOK, Goto, End, Take, Ended
<1>1. CASE BeforeLockStep(p)
  <2>1. IsPublish(p) => ~AnswerStatus(p)
    BY DEF IsPublish, AnswerStatus
  <2>2. QED
    BY <1>1, <2>1 DEF BeforeLockStep, InspectMismatch, InspectReplay,
       InspectFresh, WriteQuarantine, WriteBasePointer, AnswerStatus,
       BeginRollback, LockBusy, LockForPublish, LockForRollback, LockForRecovery
<1>2. CASE PublishStep(p) /\ ~SaveResult(p)
  BY <1>2 DEF PublishStep, Stage, ApplyDelta, InstallDatabase, FinishInstall, Switch,
     Activate, Prove, FailProof, Restore, RestorePointer, ProveRestored, Latch
<1>3. CASE SaveResult(p) \/ ProveRecovered(p)
  <2>1. /\ pc[p] \notin Ended /\ pc'[p] \in Ended
        /\ job[p].id \in results' /\ quarantine' = quarantine
    BY <1>3 DEF SaveResult, ProveRecovered
  <2>2. quarantine[job[p].id] = job[p]
    BY <1>3 DEF SaveResult, ProveRecovered, IInv, Knows, Records, OnRecord, Recovering
  <2>3. \A c : job[p] = c => Saved(c)'
    BY <2>1, <2>2 DEF Saved
  <2>4. QED
    BY <2>1, <2>3
<1>4. CASE Recover(p) \/ FailRecovery(p)
  BY <1>4 DEF Recover, FailRecovery
<1>5. CASE RollbackStep(p)
  <2>1. ~IsPublish(p)
    BY <1>5 DEF IInv, Knows, Work, RollbackStep, Cancel, Revert, RevertPointer, ProveReverted,
       Reverting, IsPublish
  <2>2. QED
    BY <1>5, <2>1 DEF RollbackStep, Cancel, Revert, RevertPointer, ProveReverted
<1>6. CASE Fault(p)
  BY <1>6 DEF Fault, Error, ErrorUndoing, Crash, Fallible, BeforeLock
<1>7. QED
  BY <1>1, <1>2, <1>3, <1>4, <1>5, <1>6 DEF Run, PublishStep, RecoveryStep

\* A step of p as the others see it: results and requests on record stay.
LEMMA RemoteMove ==
    ASSUME TypeOK, IInv, NEW p \in Proc, Step(p)
    PROVE  /\ TypeOK' /\ IInv'
           /\ \A q \in Proc \ {p} : pc'[q] = pc[q] /\ job'[q] = job[q]
           /\ \A r : Proven(r) => Proven(r)'
           /\ \A c \in Candidate : Saved(c) => Saved(c)'
<1>1. ControlMove(p) /\ DiskMove(p) /\ results \subseteq results'
  BY ControlStep, DiskStep, ResultsGrow
<1>2. TypeOK' /\ IInv'
  BY InductiveStep DEF Next
<1>3. \A r : Proven(r) => Proven(r)'
  BY <1>1 DEF Proven
<1>4. ASSUME NEW c \in Candidate, Saved(c) PROVE Saved(c)'
  <2>1. c \in Request /\ c.id \in RequestId /\ c # NoRequest
    BY RequestAssumption, NoneAssumption DEF Candidate, RequestType
  <2>2. QED
    BY <1>1, <1>4, <2>1 DEF Saved, DiskMove, WriteOnce
<1>5. QED
  BY <1>1, <1>2, <1>3, <1>4 DEF ControlMove

\* What the source knows stays true while a remote process other than one it has just
\* started takes a step.
LEMMA RemoteKeepsRun ==
    ASSUME PubInv, NEW p \in Proc, Run(p) \/ Fault(p), UNCHANGED <<sourceDisk, run>>,
           faults' \in 0..MaxFaults
    PROVE  RunInv'
<1>1. Step(p)
  BY DEF Step
<1>2. /\ \A q \in Proc \ {p} : pc'[q] = pc[q] /\ job'[q] = job[q]
      /\ \A r : Proven(r) => Proven(r)'
      /\ \A c \in Candidate : Saved(c) => Saved(c)'
  BY <1>1, RemoteMove DEF PubInv
<1>3. /\ pc[p] \notin Ended
      /\ pc'[p] \notin Ended => job'[p] = job[p]
      /\ \A c : job[p] = c /\ pc'[p] = "done" /\ IsPublish(p) => Saved(c)'
  BY WorkEnds DEF PubInv
<1>4. UNCHANGED <<source, sourceTemp, sourceInstalled, kept, reported, at, cand, call>>
  BY DEF sourceDisk, run
<1>5. PubTypeOK' /\ (at' = "idle" => call' = NoProc)
  BY <1>4 DEF PubInv, RunInv, PubTypeOK
<1>6. at # "idle" => cand \in Candidate
  BY DEF PubInv, RunInv, PubTypeOK
<1>7. Proven(source)' /\ \A c \in Candidate : kept'[c] # NoRelease => Proven(c.base)'
  BY <1>2, <1>4 DEF PubInv, RunInv
<1>8. at' # "idle" => Proven(cand.base)'
  BY <1>2, <1>4 DEF PubInv, RunInv
<1>9. ASSUME at' = "awaiting"
      PROVE  /\ call' \in Proc /\ (pc'[call'] \notin Ended => job'[call'] = cand')
             /\ pc'[call'] = "done" => Saved(cand)'
  <2>1. /\ cand \in Candidate /\ call \in Proc /\ call' = call /\ cand' = cand
        /\ pc[call] \notin Ended => job[call] = cand
        /\ pc[call] = "done" => Saved(cand)
    BY <1>4, <1>6, <1>9 DEF PubInv, RunInv
  <2>2. CASE call = p
    <3>1. job[p] = cand /\ IsPublish(p)
      BY <1>3, <2>1, <2>2 DEF IsPublish, Candidate
    <3>2. PICK c : c = cand
      OBVIOUS
    <3>3. pc'[p] = "done" => Saved(c)'
      BY <1>3, <3>1, <3>2
    <3>4. Saved(c)' => Saved(cand)'
      BY <2>1, <3>2 DEF Saved
    <3>5. QED
      BY <1>3, <2>1, <2>2, <3>1, <3>3, <3>4
  <2>3. CASE call # p
    <3>1. pc'[call] = pc[call] /\ job'[call] = job[call]
      BY <1>2, <2>1, <2>3
    <3>2. Saved(cand) => Saved(cand)'
      BY <1>2, <2>1 DEF Saved
    <3>3. QED
      BY <2>1, <3>1, <3>2
  <2>4. QED
    BY <2>2, <2>3
<1>10. at' \in AfterReply => Saved(cand)'
  BY <1>2, <1>4, <1>6 DEF PubInv, RunInv, AfterReply, Saved
<1>11. \A c \in reported' : Saved(c)'
  BY <1>2, <1>4 DEF PubInv, RunInv, PubTypeOK
<1>12. ASSUME NEW q \in Proc, pc'[q] \notin Ended, job'[q] \in Candidate PROVE Proven(job[q].base)'
  <2>1. pc[q] \notin Ended /\ job'[q] = job[q]
    BY <1>2, <1>3, <1>12
  <2>2. Proven(job[q].base)
    BY <1>12, <2>1 DEF PubInv, RunInv
  <2>3. QED
    BY <1>2, <2>1, <2>2 DEF Proven
<1>13. QED
  BY <1>5, <1>7, <1>8, <1>9, <1>10, <1>11, <1>12 DEF RunInv

\* So it does when a process is started by somebody else, or by the run itself.
LEMMA AdmitKeepsRun ==
    ASSUME PubInv, NEW p \in Proc, NEW r \in Request, Admit(p, r), UNCHANGED <<sourceDisk, faults>>,
           \/ r \notin Candidate /\ p # call /\ UNCHANGED run
           \/ r = cand /\ at = "calling" /\ at' = "awaiting" /\ call' = p /\ UNCHANGED cand
    PROVE  RunInv'
<1>1. Step(p)
  BY DEF Step
<1>2. /\ pc'[p] = "inspecting" /\ job'[p] = r /\ results' = results /\ quarantine' = quarantine
      /\ \A q \in Proc \ {p} : pc'[q] = pc[q] /\ job'[q] = job[q]
  BY DEF Admit, disk, PubInv, TypeOK, ControlTypeOK
<1>3. /\ \A x : Proven(x) <=> Proven(x)'
      /\ \A c : Saved(c) <=> Saved(c)'
  BY <1>2 DEF Proven, Saved
<1>4. UNCHANGED <<source, sourceTemp, sourceInstalled, kept, reported, cand, faults>>
  BY DEF sourceDisk, run
<1>5. PubTypeOK' /\ (at' = "idle" => call' = NoProc)
  BY <1>4 DEF PubInv, RunInv, PubTypeOK, run, RunPlace
<1>6. Proven(source)' /\ \A c \in Candidate : kept'[c] # NoRelease => Proven(c.base)'
  BY <1>3, <1>4 DEF PubInv, RunInv, Proven
<1>7. at' # "idle" => Proven(cand.base)'
  BY <1>3, <1>4 DEF PubInv, RunInv, run, Proven
<1>8. at' = "awaiting" => /\ call' \in Proc /\ (pc'[call'] \notin Ended => job'[call'] = cand')
                          /\ pc'[call'] = "done" => Saved(cand)'
  BY <1>2, <1>3, <1>4 DEF PubInv, RunInv, run, Ended, Saved
<1>9. at' \in AfterReply => Saved(cand)'
  BY <1>3, <1>4 DEF PubInv, RunInv, AfterReply, Saved, run
<1>10. \A c \in reported' : Saved(c)'
  BY <1>3, <1>4 DEF PubInv, RunInv
<1>11. ASSUME NEW q \in Proc, pc'[q] \notin Ended, job'[q] \in Candidate PROVE Proven(job[q].base)'
  <2>1. CASE q = p
    BY <1>2, <1>3, <1>11, <2>1 DEF PubInv, RunInv, Proven
  <2>2. CASE q # p
    BY <1>2, <1>3, <1>11, <2>2 DEF PubInv, RunInv, Proven
  <2>3. QED
    BY <2>1, <2>2
<1>12. QED
  BY <1>5, <1>6, <1>7, <1>8, <1>9, <1>10, <1>11 DEF RunInv

\* The run's own steps, which leave production alone.
LEMMA SourceStep ==
    ASSUME PubInv, UNCHANGED vars,
           \/ \E c \in Candidate : Begin(c)
           \/ CallRefused \/ Reply \/ InstallSource \/ SwitchSource \/ RenameSource
           \/ Report \/ Interrupt \/ UNCHANGED pubVars
    PROVE  RunInv'
<1>1. /\ \A x : Proven(x) <=> Proven(x)'
      /\ \A c : Saved(c) <=> Saved(c)'
      /\ pc' = pc /\ job' = job
  BY DEF vars, disk, Proven, Saved
<1>2. \A q \in Proc : pc'[q] \notin Ended /\ job'[q] \in Candidate => Proven(job[q].base)'
  BY <1>1 DEF PubInv, RunInv, Proven
<1>3. ASSUME at \in AfterReply PROVE cand \in Candidate /\ Saved(cand) /\ Proven(cand.target)
  BY <1>3 DEF PubInv, RunInv, PubTypeOK, AfterReply, Saved, Proven
<1>4. \A c \in Candidate : c # NoRequest /\ c.base \in Release /\ c.target \in Release
  BY RequestAssumption, NoneAssumption DEF Candidate, RequestType
<1> USE DEF PubInv, RunInv, PubTypeOK, RunPlace, AfterReply
<1>5. ASSUME NEW c \in Candidate, Begin(c) PROVE RunInv'
  <2>1. /\ at' = "calling" /\ cand' = c /\ call' = NoProc /\ kept' = [kept EXCEPT ![c] = c.base]
        /\ Proven(c.base)
        /\ UNCHANGED <<source, sourceTemp, sourceInstalled, reported, faults>>
    BY <1>5 DEF Begin
  <2>2. PubTypeOK' /\ (at' = "idle" => call' = NoProc)
    BY <1>4, <2>1
  <2>3. Proven(source)' /\ \A d \in Candidate : kept'[d] # NoRelease => Proven(d.base)'
    BY <1>1, <2>1 DEF Proven
  <2>4. Proven(cand.base)'
    BY <1>1, <2>1 DEF Proven
  <2>5. \A d \in reported' : Saved(d)'
    BY <1>1, <2>1
  <2>6. QED
    BY <1>2, <2>1, <2>2, <2>3, <2>4, <2>5
<1>6. ASSUME EndRun, UNCHANGED <<source, kept>>, sourceTemp' \subseteq Release, faults' \in 0..MaxFaults,
             UNCHANGED sourceInstalled, reported' \subseteq Candidate, \A c \in reported' : Saved(c)
      PROVE  RunInv'
  <2>1. PubTypeOK' /\ at' = "idle" /\ call' = NoProc
    BY <1>6 DEF EndRun
  <2>2. Proven(source)' /\ \A d \in Candidate : kept'[d] # NoRelease => Proven(d.base)'
    BY <1>1, <1>6 DEF Proven
  <2>3. \A d \in reported' : Saved(d)'
    BY <1>1, <1>6
  <2>4. QED
    BY <1>2, <2>1, <2>2, <2>3
<1>7. ASSUME NEW place \in AfterReply, GoOn(place), at # "idle", Saved(cand), UNCHANGED <<kept, reported, faults>>,
             sourceTemp' \subseteq Release, sourceInstalled' \subseteq Release,
             source' \in Release, Proven(source') 
      PROVE  RunInv'
  <2>1. /\ at' \in AfterReply /\ cand' = cand /\ call' = call /\ cand \in Candidate
        /\ PubTypeOK' /\ at' # "idle" /\ at' # "awaiting"
    BY <1>7, <1>4 DEF GoOn
  <2>2. Proven(source)' /\ \A d \in Candidate : kept'[d] # NoRelease => Proven(d.base)'
    BY <1>1, <1>7 DEF Proven
  <2>3. \A d \in reported' : Saved(d)'
    BY <1>1, <1>7
  <2>4. Saved(cand)' /\ Proven(cand.base)'
    BY <1>1, <1>7, <2>1 DEF Saved, Proven
  <2>5. QED
    BY <1>2, <2>1, <2>2, <2>3, <2>4
<1>8. CASE CallRefused
  BY <1>6, <1>8 DEF CallRefused, sourceDisk
<1>9. CASE Reply
  <2>1. CASE pc[call] = "done"
    BY <1>7, <1>9, <2>1 DEF Reply, sourceDisk
  <2>2. CASE pc[call] # "done"
    BY <1>6, <1>9, <2>2 DEF Reply, sourceDisk
  <2>3. QED
    BY <2>1, <2>2
<1>10. CASE InstallSource
  BY <1>3, <1>4, <1>7, <1>10 DEF InstallSource
<1>11. CASE SwitchSource
  <2>1. CASE cand.target \in sourceTemp
    BY <1>6, <1>11, <2>1 DEF SwitchSource
  <2>2. CASE cand.target \notin sourceTemp
    BY <1>3, <1>4, <1>7, <1>11, <2>2 DEF SwitchSource
  <2>3. QED
    BY <2>1, <2>2
<1>12. CASE RenameSource
  <2>1. source' = cand.target /\ Proven(source') /\ source' \in Release /\ Saved(cand) /\ cand \in Candidate
    BY <1>3, <1>4, <1>12 DEF RenameSource
  <2>2. CASE GoOn("reporting")
    BY <1>7, <1>12, <2>1, <2>2 DEF RenameSource
  <2>3. CASE EndRun
    <3>1. PubTypeOK' /\ at' = "idle" /\ call' = NoProc
      BY <1>12, <2>1, <2>3 DEF EndRun, RenameSource
    <3>2. Proven(source)' /\ \A d \in Candidate : kept'[d] # NoRelease => Proven(d.base)'
      BY <1>1, <1>12, <2>1 DEF Proven, RenameSource
    <3>3. \A d \in reported' : Saved(d)'
      BY <1>1, <1>12 DEF RenameSource
    <3>4. QED
      BY <1>2, <3>1, <3>2, <3>3
  <2>4. QED
    BY <1>12, <2>2, <2>3 DEF RenameSource
<1>13. CASE Report
  BY <1>3, <1>6, <1>13 DEF Report
<1>14. CASE Interrupt
  BY FaultBoundAssumption, <1>6, <1>14 DEF Interrupt
<1>15. CASE UNCHANGED pubVars
  <2>1. UNCHANGED <<source, sourceTemp, sourceInstalled, kept, reported, at, cand, call, faults>>
    BY <1>15 DEF pubVars, sourceDisk, run
  <2>2. PubTypeOK' /\ (at' = "idle" => call' = NoProc)
    BY <2>1
  <2>3. QED
    BY <1>1, <1>2, <2>1, <2>2 DEF Proven, Saved
<1>16. QED
  BY <1>5, <1>8, <1>9, <1>10, <1>11, <1>12, <1>13, <1>14, <1>15

\* Every step of source and production is one of these.
LEMMA PubStep == PubInv /\ [PubNext]_pubVars => PubInv'
<1> SUFFICES ASSUME PubInv, [PubNext]_pubVars PROVE PubInv'
  OBVIOUS
<1>1. ASSUME UNCHANGED vars,
             \/ \E c \in Candidate : Begin(c)
             \/ CallRefused \/ Reply \/ InstallSource \/ SwitchSource \/ RenameSource
             \/ Report \/ Interrupt \/ UNCHANGED pubVars
      PROVE  PubInv'
  BY <1>1, SourceStep, InductiveStep DEF PubInv
<1>2. ASSUME NEW p \in Proc, Call(p) PROVE PubInv'
  <2>1. cand \in Request /\ Admit(p, cand)
    BY <1>2 DEF Call, PubInv, RunInv, PubTypeOK, Candidate
  <2>2. Step(p)
    BY <2>1 DEF Step
  <2>3. RunInv'
    BY <1>2, <2>1, AdmitKeepsRun DEF Call
  <2>4. QED
    BY <2>2, <2>3, RemoteMove DEF PubInv
<1>3. ASSUME NEW p \in Proc, RemoteStep(p) \/ RemoteFault(p) PROVE PubInv'
  <2>1. Run(p) \/ Fault(p)
    BY <1>3 DEF RemoteStep, RemoteFault
  <2>2. UNCHANGED <<sourceDisk, run>> /\ faults' \in 0..MaxFaults
    BY <1>3, FaultBoundAssumption DEF RemoteStep, RemoteFault, PubInv, RunInv, PubTypeOK
  <2>3. RunInv'
    BY <2>1, <2>2, RemoteKeepsRun
  <2>4. Step(p)
    BY <2>1 DEF Step
  <2>5. QED
    BY <2>3, <2>4, RemoteMove DEF PubInv
<1>4. ASSUME NEW p \in Proc, NEW r \in Request \ Candidate, Operate(p, r) PROVE PubInv'
  <2>1. Admit(p, r) /\ UNCHANGED <<sourceDisk, faults>> /\ UNCHANGED run /\ p # call
    BY <1>4 DEF Operate
  <2>2. RunInv'
    BY <2>1, AdmitKeepsRun
  <2>3. Step(p)
    BY <2>1 DEF Step
  <2>4. QED
    BY <2>2, <2>3, RemoteMove DEF PubInv
<1>5. CASE UNCHANGED pubVars
  BY <1>1, <1>5 DEF pubVars
<1>6. QED
  BY <1>1, <1>2, <1>3, <1>4, <1>5 DEF PubNext, RunStep, SomeCall, Begin, CallRefused, Reply, InstallSource,
     SwitchSource, RenameSource, Report, Interrupt

\* At the start nothing is called, kept or reported.
LEMMA PubBegins == PubInit => PubInv
<1> SUFFICES ASSUME PubInit PROVE PubInv
  OBVIOUS
<1>1. TypeOK /\ IInv
  BY InitTypeOK, InitIInv DEF PubInit
<1>2. PubTypeOK
  BY InitialAssumption, FaultBoundAssumption DEF PubInit, PubTypeOK, RunPlace
<1>3. \A p \in Proc : pc[p] = "idle"
  BY DEF PubInit, Init
<1>4. QED
  BY <1>1, <1>2, <1>3, NoneAssumption DEF PubInit, PubInv, RunInv, Proven, AfterReply, Ended

\* Every step is one of production, or leaves production alone.
LEMMA ProductionStep == PubInv /\ [PubNext]_pubVars => UNCHANGED vars \/ \E p \in Proc : Step(p)
<1> SUFFICES ASSUME PubInv, [PubNext]_pubVars, ~UNCHANGED vars PROVE \E p \in Proc : Step(p)
  OBVIOUS
<1>1. \A p \in Proc : Call(p) => Step(p)
  BY DEF Call, Step, PubInv, RunInv, PubTypeOK, Candidate
<1>2. \A p \in Proc : RemoteStep(p) \/ RemoteFault(p) => Step(p)
  BY DEF RemoteStep, RemoteFault, Step
<1>3. \A p \in Proc : \A r \in Request \ Candidate : Operate(p, r) => Step(p)
  BY DEF Operate, Step
<1>4. QED
  BY <1>1, <1>2, <1>3 DEF PubNext, RunStep, SomeCall, Begin, CallRefused, Reply, InstallSource,
     SwitchSource, RenameSource, Report, Interrupt, pubVars

\* Within the publication of candidates, and with every fault of either host, production
\* is the boundary RemoteActivation describes: whatever is proved of that holds here, and
\* production is the register of its abstract specification.
THEOREM ProductionImplements == PubSpec => Spec /\ ImplementsRegister
<1>1. PubInit => Init
  BY DEF PubInit
<1>2. PubInv /\ [PubNext]_pubVars => [Next]_vars
  BY ProductionStep DEF Next
<1>3. PubSpec => Spec
  BY <1>1, <1>2, PubBegins, PubStep, PTL DEF PubSpec, Spec
<1>4. QED
  BY <1>3, Refinement, PTL

\* Whatever replies are lost and calls repeated, and wherever either host fails, the
\* source only follows releases whose publication was proven and recorded in production.
THEOREM SourceFollows == PubSpec => []SourceFollowsProduction
<1>1. PubInv => SourceFollowsProduction
  BY DEF PubInv, RunInv, Proven, SourceFollowsProduction
<1>2. QED
  BY <1>1, PubBegins, PubStep, PTL DEF PubSpec

\* Nothing is ever activated on top of a release that was not proven.
THEOREM ProvenBases == PubSpec => BuildsOnProven
<1>1. ASSUME PubInv, NEW p \in Proc, pc[p] = "renaming"
      PROVE  pointer = Initial \/ \E c \in Candidate : c.target = pointer /\ c.id \in results
  <2>1. Work(p) /\ Activation(p)
    BY <1>1 DEF PubInv, IInv, Knows
  <2>2. pointer = job[p].base /\ job[p] \in Candidate
    BY <1>1, <2>1 DEF Work, Activation, Publishing, HoldsPrevious, Ended, IsPublish, Candidate
  <2>3. Proven(job[p].base)
    BY <1>1, <2>2 DEF PubInv, RunInv, Ended
  <2>4. QED
    BY <2>2, <2>3 DEF Proven
<1>2. PubInv /\ [PubNext]_pubVars =>
        [\A p \in Proc : pc[p] = "renaming" /\ pointer' # pointer =>
           pointer = Initial \/ \E c \in Candidate : c.target = pointer /\ c.id \in results]_pubVars
  BY <1>1
<1>3. QED
  BY <1>2, PubBegins, PubStep, PTL DEF PubSpec, BuildsOnProven

-----------------------------------------------------------------------------
(* What was reported stays, for requests of the kind Publication describes. *)

\* x is t or was built on it, directly or through others.
Follows(x, t) ==
    \A S \in SUBSET Release :
        t \in S /\ (\A c \in Candidate : c.base \in S => c.target \in S) => x \in S

\* What was built on a release that follows t follows t.
LEMMA FollowsOn ==
    ASSUME NEW x, NEW t, NEW c \in Candidate, Follows(x, t), c.base = x
    PROVE  Follows(c.target, t)
BY DEF Follows

\* A release that was built on t, other than t itself, has its base at t or above it.
LEMMA FollowsBack ==
    ASSUME OwnReleases, NEW t \in Release, NEW c \in Candidate, Follows(c.target, t), c.target # t
    PROVE  Follows(c.base, t)
<1> SUFFICES ASSUME NEW S \in SUBSET Release, t \in S,
                    \A d \in Candidate : d.base \in S => d.target \in S, c.base \notin S
             PROVE  FALSE
  BY DEF Follows
<1>1. \A d \in Candidate : d.base \in S \ {c.target} => d.target \in S \ {c.target}
  BY DEF OwnReleases
<1>2. t \in S \ {c.target} /\ S \ {c.target} \in SUBSET Release
  OBVIOUS
<1>3. c.target \in S \ {c.target}
  BY <1>1, <1>2 DEF Follows
<1>4. QED
  BY <1>3

\* A release does not follow the one that was built on it.
LEMMA FollowsNotBase ==
    ASSUME NEW number \in [Release -> Nat], Successors(number), NEW c \in Candidate
    PROVE  ~Follows(c.base, c.target)
<1> DEFINE above == {r \in Release : number[r] >= number[c.target]}
<1>1. \A d \in Candidate : d.base \in Release /\ d.target \in Release
  BY RequestAssumption DEF Candidate, RequestType
<1>2. \A d \in Candidate : d.base \in above => d.target \in above
  <2> SUFFICES ASSUME NEW d \in Candidate, number[d.base] >= number[c.target]
               PROVE  number[d.target] >= number[c.target]
    BY <1>1
  <2>1. number[d.target] > number[d.base]
    BY DEF Successors
  <2>2. number[d.target] \in Nat /\ number[d.base] \in Nat /\ number[c.target] \in Nat
    BY <1>1
  <2>3. QED
    BY <2>1, <2>2
<1>3. c.target \in above
  BY <1>1
<1>4. c.base \notin above
  BY <1>1 DEF Successors
<1>5. QED
  BY <1>2, <1>3, <1>4 DEF Follows

\* The publication of c is proven: its result is saved, or a process is about to.
Settled(c) == Saved(c) \/ \E q \in Proc : pc[q] = "saving" /\ job[q] = c

\* A settled release is active, or below the active one, until it is taken down; and a
\* process that activated one and may still undo that is the first to do so.
SettledInv ==
    /\ \A c \in Candidate : Settled(c) /\ c.target \notin cancelled => Follows(pointer, c.target)
    /\ \A p \in Proc : pc[p] \in AtTarget => ~Settled(job[p])

\* A publication is settled by the proof of its own process, while its release is active.
LEMMA SettledNew ==
    ASSUME TypeOK, IInv, NEW p \in Proc, Step(p), NEW c \in Candidate, Settled(c)', ~Settled(c)
    PROVE  /\ job[p] = c /\ pc[p] \in {"proving", "reproving"}
           /\ pointer = c.target /\ UNCHANGED <<pointer, cancelled>>
           /\ pc'[p] \notin AtTarget
<1>1. ControlMove(p) /\ DiskMove(p)
  BY ControlStep, DiskStep
<1>2. c.id \in RequestId /\ c # NoRequest
  BY RequestAssumption, NoneAssumption DEF Candidate, RequestType
<1>3. CASE c.id \in results' /\ quarantine'[c.id] = c
  <2>1. c.id \notin results
    <3>1. SUFFICES ASSUME c.id \in results PROVE Saved(c)
      BY DEF Settled
    <3>2. quarantine[c.id] # NoRequest
      BY <3>1 DEF IInv, ResultHasEvidence
    <3>3. QED
      BY <1>1, <1>2, <1>3, <3>1, <3>2 DEF Saved, DiskMove, WriteOnce
  <2>2. SaveResult(p) \/ ProveRecovered(p)
    BY <1>3, <2>1, ResultsGrow
  <2>3. job[p] = c
    <3>1. quarantine[job[p].id] = job[p] /\ quarantine' = quarantine /\ results' = results \cup {job[p].id}
      BY <2>2 DEF SaveResult, ProveRecovered, IInv, Knows, Records, OnRecord, Recovering
    <3>2. QED
      BY <1>3, <2>1, <3>1
  <2>4. ~SaveResult(p)
    BY <2>3 DEF SaveResult, Settled
  <2>5. QED
    BY <2>2, <2>3, <2>4 DEF ProveRecovered, HealthConfirms, TypeOK, ControlTypeOK, End, AtTarget
<1>4. CASE \E q \in Proc : pc'[q] = "saving" /\ job'[q] = c
  <2>1. PICK q \in Proc : pc'[q] = "saving" /\ job'[q] = c
    BY <1>4
  <2>2. q = p /\ pc'[p] = "saving"
    BY <1>1, <2>1 DEF ControlMove, Settled
  <2>3. pc[p] # "saving" \/ job'[p] # job[p]
    BY <2>1, <2>2 DEF Settled
  <2>4. Run(p) \/ Fault(p)
    <3>1. \A r \in Request : Admit(p, r) => pc'[p] = "inspecting"
      BY DEF Admit, TypeOK, ControlTypeOK
    <3>2. QED
      BY <2>2, <3>1 DEF Step
  <2>5. job'[p] = job[p]
    BY <2>2, <2>4, WorkEnds DEF Ended
  <2>6. Prove(p)
    <3> USE DEF TypeOK, ControlTypeOK, Goto, End, Take, Ended
    <3>1. ~BeforeLockStep(p)
      BY <2>2 DEF BeforeLockStep, InspectMismatch, InspectReplay,
         InspectFresh, WriteQuarantine, WriteBasePointer, AnswerStatus,
         BeginRollback, LockBusy, LockForPublish, LockForRollback, LockForRecovery
    <3>2. ~RecoveryStep(p) /\ ~RollbackStep(p)
      BY <2>2 DEF RecoveryStep, Recover, ProveRecovered, FailRecovery,
         RollbackStep, Cancel, Revert, RevertPointer, ProveReverted
    <3>3. ~Fault(p)
      BY <2>2 DEF Fault, Error, ErrorUndoing, Crash
    <3>4. PublishStep(p) => Prove(p)
      BY <2>2 DEF PublishStep, Stage, ApplyDelta, InstallDatabase, FinishInstall, Switch,
         Activate, FailProof, Restore, RestorePointer, ProveRestored, Latch, SaveResult
    <3>5. QED
      BY <2>4, <3>1, <3>2, <3>3, <3>4 DEF Run
  <2>7. QED
    BY <2>1, <2>2, <2>5, <2>6 DEF Prove, HealthConfirms, disk, AtTarget
<1>5. QED
  BY <1>3, <1>4 DEF Settled, Saved

\* Only an activation leads to where a release may be undone, with the request it had.
LEMMA TargetMove ==
    ASSUME TypeOK, IInv, NEW p \in Proc, Step(p), pc'[p] \in AtTarget
    PROVE  job'[p] = job[p] /\ (pc[p] \in AtTarget \/ Activate(p))
<1>1. Run(p) \/ Fault(p)
  <2>1. \A r \in Request : Admit(p, r) => pc'[p] = "inspecting"
    BY DEF Admit, TypeOK, ControlTypeOK
  <2>2. QED
    BY <2>1 DEF Step, AtTarget
<1>2. job'[p] = job[p]
  BY <1>1, WorkEnds DEF Ended, AtTarget
<1> USE DEF TypeOK, ControlTypeOK, Goto, End, Take, Ended, AtTarget
<1>3. ~BeforeLockStep(p)
  BY DEF BeforeLockStep, InspectMismatch, InspectReplay,
     InspectFresh, WriteQuarantine, WriteBasePointer, AnswerStatus,
     BeginRollback, LockBusy, LockForPublish, LockForRollback, LockForRecovery
<1>4. ~RecoveryStep(p) /\ ~RollbackStep(p)
  BY DEF RecoveryStep, Recover, ProveRecovered, FailRecovery,
     RollbackStep, Cancel, Revert, RevertPointer, ProveReverted
<1>5. ~Fault(p)
  BY DEF Fault, Error, ErrorUndoing, Crash
<1>6. PublishStep(p) => pc[p] \in AtTarget \/ Activate(p)
  BY DEF PublishStep, Stage, ApplyDelta, InstallDatabase, FinishInstall, Switch, Prove,
     FailProof, Restore, RestorePointer, ProveRestored, Latch, SaveResult
<1>7. QED
  BY <1>1, <1>2, <1>3, <1>4, <1>5, <1>6 DEF Run

\* Cancellations stay.
LEMMA CancelledGrow ==
    ASSUME NEW p \in Proc, Step(p) PROVE cancelled \subseteq cancelled'
<1>1. Activate(p) \/ RestorePointer(p) \/ Cancel(p) \/ RevertPointer(p) \/ UNCHANGED <<pointer, cancelled>>
  BY QuietStep
<1>2. Activate(p) \/ RestorePointer(p) \/ RevertPointer(p) => cancelled' = cancelled
  BY DEF Activate, RestorePointer, RevertPointer, RenamePointer
<1>3. QED
  BY <1>1, <1>2 DEF Cancel

\* A remote step keeps what is settled where it is.
LEMMA SettledStep ==
    ASSUME TypeOK, IInv, SettledInv, OwnReleases, StepBack,
           NEW number \in [Release -> Nat], Successors(number), NEW p \in Proc, Step(p)
    PROVE  SettledInv'
<1>1. /\ ControlMove(p) /\ DiskMove(p) /\ cancelled \subseteq cancelled'
      /\ Work(p) /\ Activation(p) /\ Ownership(p)
  BY ControlStep, DiskStep, CancelledGrow DEF IInv, Knows
<1>2. \A c \in Candidate : c.target \in Release /\ c.base \in Release
  BY RequestAssumption DEF Candidate, RequestType
<1>3. pc[p] \in Publishing => job[p] \in Candidate
  BY <1>1 DEF Work, IsPublish, Candidate, Publishing, Ended
<1>4. ASSUME NEW c \in Candidate, Settled(c)', c.target \notin cancelled'
      PROVE  Follows(pointer, c.target)'
  <2>1. c.target \notin cancelled
    BY <1>1, <1>4
  <2>2. CASE ~Settled(c)
    <3>1. pointer' = c.target
      BY <1>4, <2>2, SettledNew
    <3>2. QED
      BY <3>1 DEF Follows
  <2>3. CASE Settled(c)
    <3>1. PICK x : x = pointer
      OBVIOUS
    <3>2. Follows(x, c.target)
      BY <2>1, <2>3, <3>1 DEF SettledInv
    <3>3. PICK y : y = pointer'
      OBVIOUS
    <3>4. SUFFICES Follows(y, c.target)
      BY <3>3 DEF Follows
    <3>5. CASE y = x
      BY <3>2, <3>5
    <3>6. CASE Activate(p)
      <4>1. job[p] \in Candidate /\ job[p].base = x /\ job[p].target = y
        BY <1>1, <1>3, <3>1, <3>3, <3>6
           DEF Activate, RenamePointer, Work, Activation, Publishing, HoldsPrevious
      <4>2. QED
        BY <3>2, <4>1, FollowsOn
    <3>7. CASE RestorePointer(p)
      <4>1. job[p] \in Candidate /\ job[p].target = x /\ job[p].base = y /\ ~Settled(job[p])
        BY <1>1, <1>3, <3>1, <3>3, <3>7
           DEF RestorePointer, RenamePointer, Work, Activation, Publishing, HoldsPrevious,
               AtTarget, SettledInv
      <4>2. x # c.target
        BY <2>3, <4>1 DEF OwnReleases
      <4>3. QED
        BY <1>2, <3>2, <4>1, <4>2, FollowsBack
    <3>8. CASE RevertPointer(p)
      <4>1. /\ job[p] \in Request /\ job[p].action = "rollback"
            /\ job[p].base = x /\ job[p].target = y
            /\ x = y \/ x \in cancelled
        BY <1>1, <3>1, <3>3, <3>8
           DEF RevertPointer, RenamePointer, Work, Activation, Reverting, HoldsPrevious, Ended
      <4>2. CASE x = y
        BY <3>2, <4>2
      <4>3. CASE x # y
        <5>1. PICK d \in Candidate : d.target = x /\ d.base = y
          BY <4>1, <4>3 DEF StepBack
        <5>2. x # c.target
          BY <2>1, <4>1, <4>3
        <5>3. QED
          BY <1>2, <3>2, <5>1, <5>2, FollowsBack
      <4>4. QED
        BY <4>2, <4>3
    <3>9. QED
      BY <3>1, <3>3, <3>5, <3>6, <3>7, <3>8, QuietStep DEF Cancel
  <2>4. QED
    BY <2>2, <2>3
<1>5. ASSUME NEW q \in Proc, pc'[q] \in AtTarget PROVE ~Settled(job[q])'
  <2>1. PICK c : c = job'[q]
    OBVIOUS
  <2>2. job[q] = c /\ c \in Candidate /\ ~Settled(c)
    <3>1. CASE q # p
      <4>1. pc[q] \in AtTarget /\ job[q] = c
        BY <1>1, <1>5, <2>1, <3>1 DEF ControlMove
      <4>2. job[q] \in Candidate
        BY <4>1 DEF IInv, Knows, Work, IsPublish, Candidate, Publishing, Ended, AtTarget
      <4>3. QED
        BY <4>1, <4>2 DEF SettledInv
    <3>2. CASE q = p
      <4>1. job[p] = c /\ (pc[p] \in AtTarget \/ Activate(p))
        BY <1>5, <2>1, <3>2, TargetMove
      <4>2. CASE pc[p] \in AtTarget
        <5>1. job[p] \in Candidate
          BY <1>3, <4>2 DEF Publishing, AtTarget
        <5>2. QED
          BY <3>2, <4>1, <4>2, <5>1 DEF SettledInv
      <4>3. CASE Activate(p)
        <5>1. c \in Candidate /\ pointer = c.base /\ c.target \notin cancelled
          BY <1>1, <1>3, <4>1, <4>3
             DEF Activate, Work, Activation, Publishing, HoldsPrevious, PastStaging
        <5>2. ~Follows(pointer, c.target)
          BY <5>1, FollowsNotBase
        <5>3. QED
          BY <3>2, <4>1, <5>1, <5>2 DEF SettledInv
      <4>4. QED
        BY <4>1, <4>2, <4>3
    <3>3. QED
      BY <3>1, <3>2
  <2>3. ASSUME Settled(c)' PROVE FALSE
    <3>1. job[p] = c /\ pc[p] \in {"proving", "reproving"} /\ pc'[p] \notin AtTarget
      BY <2>2, <2>3, SettledNew
    <3>2. q # p
      BY <1>5, <3>1
    <3>3. pc[q] \in AtTarget
      BY <1>1, <1>5, <3>2 DEF ControlMove
    <3>4. lock = p /\ lock = q
      BY <3>1, <3>3 DEF IInv, Knows, Ownership, Locked, Publishing, Recovering, AtTarget
    <3>5. QED
      BY <3>2, <3>4
  <2>4. ~Settled(c)' => ~Settled(job[q])'
    BY <2>1 DEF Settled, Saved
  <2>5. QED
    BY <2>3, <2>4
<1>6. QED
  BY <1>4, <1>5 DEF SettledInv

\* At the start nothing is settled, and no step unsettles anything.
LEMMA SettledBegins == PubInit => SettledInv
BY DEF PubInit, Init, SettledInv, Settled, Saved, AtTarget

\* Steps of the source leave what is settled as it is.
LEMMA SettledKept ==
    ASSUME OwnReleases, StepBack, NEW number \in [Release -> Nat], Successors(number)
    PROVE  PubInv /\ SettledInv /\ [PubNext]_pubVars => SettledInv'
<1>1. SettledInv /\ UNCHANGED vars => SettledInv'
  <2> SUFFICES ASSUME SettledInv, UNCHANGED vars PROVE SettledInv'
    OBVIOUS
  <2>1. pc' = pc /\ job' = job /\ pointer' = pointer /\ cancelled' = cancelled
        /\ results' = results /\ quarantine' = quarantine
    BY DEF vars, disk
  <2>2. \A c : Settled(c)' <=> Settled(c)
    BY <2>1 DEF Settled, Saved
  <2>3. \A p \in Proc : Settled(job[p])' <=> Settled(job[p])
    BY <2>1 DEF Settled, Saved
  <2>4. \A t : Follows(pointer, t)' <=> Follows(pointer, t)
    BY <2>1 DEF Follows
  <2>5. QED
    BY <2>1, <2>2, <2>3, <2>4 DEF SettledInv
<1>2. QED
  BY <1>1, ProductionStep, SettledStep DEF PubInv

\* With requests of that kind, a release reported as published leaves production only for
\* one built on it or by an explicit rollback, whatever late and repeated processes do.
THEOREM ReportsStand ==
    ASSUME OwnReleases, StepBack, NEW number \in [Release -> Nat], Successors(number)
    PROVE  PubSpec => ReportedStays
<1>1. ASSUME PubInv, SettledInv, NEW p \in Proc, Step(p),
             NEW c \in reported, pointer = c.target, pointer' # pointer
      PROVE  \/ c.target \in cancelled
             \/ \E d \in Candidate : d.base = c.target /\ d.target = pointer'
  <2>1. Work(p) /\ Activation(p)
    BY <1>1 DEF PubInv, IInv, Knows
  <2>2. c \in Candidate /\ Settled(c)
    BY <1>1 DEF PubInv, RunInv, PubTypeOK, Settled
  <2>3. CASE Activate(p)
    <3>1. job[p] \in Candidate /\ job[p].base = pointer /\ job[p].target = pointer'
      BY <2>1, <2>3 DEF Activate, RenamePointer, Work, Activation, Publishing, HoldsPrevious,
         Ended, IsPublish, Candidate
    <3>2. QED
      BY <1>1, <3>1
  <2>4. CASE RestorePointer(p)
    <3>1. job[p] \in Candidate /\ job[p].target = pointer /\ ~Settled(job[p])
      BY <1>1, <2>1, <2>4 DEF RestorePointer, Work, Activation, Publishing, AtTarget,
         Ended, IsPublish, Candidate, SettledInv
    <3>2. QED
      BY <1>1, <2>2, <3>1 DEF OwnReleases
  <2>5. CASE RevertPointer(p)
    BY <1>1, <2>1, <2>5 DEF RevertPointer, RenamePointer, Activation
  <2>6. QED
    BY <1>1, <2>3, <2>4, <2>5, QuietStep DEF Cancel
<1>2. PubInv /\ SettledInv /\ [PubNext]_pubVars =>
        [\A c \in reported :
            pointer = c.target /\ pointer' # pointer =>
               \/ c.target \in cancelled
               \/ \E d \in Candidate : d.base = c.target /\ d.target = pointer']_pubVars
  BY ProductionStep, <1>1 DEF vars, disk
<1>3. QED
  BY <1>2, PubBegins, PubStep, SettledBegins, SettledKept, PTL DEF PubSpec, ReportedStays

-----------------------------------------------------------------------------
(* Production is at most one publication ahead of the source.               *)

\* The source has come to the base of whatever is published or active: it never goes
\* back, and a request leaves it only while it is there.
AheadInv ==
    /\ at # "idle" => source \in {cand.base, cand.target}
    /\ \A p \in Proc : pc[p] \notin Ended /\ job[p] \in Candidate => Follows(source, job[p].base)
    /\ \A c \in Candidate : c.target = pointer => Follows(source, c.base)
    /\ AtMostOneAhead

\* What follows a release follows the one it was built on.
LEMMA FollowsUp ==
    ASSUME NEW x, NEW c \in Candidate, Follows(x, c.target)
    PROVE  Follows(x, c.base)
BY DEF Follows

\* What follows t and is not t was built on something that follows t.
LEMMA FollowsLast ==
    ASSUME NEW t \in Release, NEW x, Follows(x, t), x # t
    PROVE  \E c \in Candidate : c.target = x /\ Follows(c.base, t)
<1> SUFFICES ASSUME \A c \in Candidate : c.target = x => ~Follows(c.base, t) PROVE FALSE
  OBVIOUS
<1> DEFINE others == {r \in Release : Follows(r, t)} \ {x}
<1>1. t \in others
  BY DEF Follows
<1>2. \A c \in Candidate : c.base \in Release /\ c.target \in Release
  BY RequestAssumption DEF Candidate, RequestType
<1>3. \A c \in Candidate : c.base \in others => c.target \in others
  BY <1>2, FollowsOn
<1>4. QED
  BY <1>1, <1>3 DEF Follows

\* Following is transitive.
LEMMA FollowsFrom ==
    ASSUME NEW x, NEW y, NEW z, Follows(x, y), Follows(y, z)
    PROVE  Follows(x, z)
BY DEF Follows

\* A step of production while the source stays.
LEMMA AheadRemote ==
    ASSUME PubInv, SettledInv, AheadInv, OwnReleases, StepBack,
           NEW number \in [Release -> Nat], Successors(number), number[Initial] = 0,
           NEW p \in Proc, Step(p), source' = source,
           at' # "idle" => at # "idle" /\ cand' = cand,
           pc'[p] \notin Ended /\ job'[p] \in Candidate => Follows(source, job'[p].base)
    PROVE  AheadInv'
<1>1. at' # "idle" => source' \in {cand'.base, cand'.target}
  BY DEF AheadInv
<1>2. ASSUME NEW q \in Proc, pc'[q] \notin Ended, job'[q] \in Candidate
      PROVE  Follows(source, job[q].base)'
  <2>1. Follows(source, job'[q].base)
    BY <1>2, RemoteMove DEF PubInv, AheadInv
  <2>2. QED
    BY <2>1 DEF Follows
<1>3. \A c \in Candidate : c.base \in Release /\ c.target \in Release /\ c.target # Initial
  BY RequestAssumption DEF Candidate, RequestType, Successors
<1>4. Work(p) /\ Activation(p) /\ Records(p)
  BY DEF PubInv, IInv, Knows
<1>5. cancelled \subseteq cancelled'
  BY CancelledGrow
<1> DEFINE Reached(x) == \A c \in Candidate : c.target = x => Follows(source, c.base)
           OneAhead(x) == x = source \/ (\E c \in Candidate : c.base = source /\ c.target = x)
<1>6. Reached(pointer) /\ (OneAhead(pointer) \/ source \in cancelled)
  BY DEF AheadInv, AtMostOneAhead
<1>7. Reached(pointer') /\ (OneAhead(pointer') \/ source \in cancelled') => AheadInv'
  <2> SUFFICES ASSUME Reached(pointer'), OneAhead(pointer') \/ source \in cancelled'
               PROVE  AheadInv'
    OBVIOUS
  <2>1. \A c \in Candidate : c.target = pointer' => Follows(source, c.base)'
    BY DEF Follows
  <2>2. AtMostOneAhead'
    BY DEF AtMostOneAhead
  <2>3. QED
    BY <1>1, <1>2, <2>1, <2>2 DEF AheadInv
<1>8. CASE Activate(p)
  <2>1. PICK c \in Candidate : c = job[p] /\ pointer = c.base /\ pointer' = c.target /\ pc[p] \notin Ended
    BY <1>4, <1>8 DEF Activate, RenamePointer, Work, Activation, Publishing, HoldsPrevious,
       Ended, IsPublish, Candidate
  <2>2. Follows(source, c.base)
    BY <2>1 DEF AheadInv
  <2>3. Reached(pointer')
    BY <2>1, <2>2 DEF OwnReleases
  <2>4. ASSUME NEW d \in Candidate, d.base = source, d.target = pointer PROVE FALSE
    BY <2>1, <2>2, <2>4, FollowsNotBase
  <2>5. OneAhead(pointer') \/ source \in cancelled'
    BY <1>5, <1>6, <2>1, <2>4
  <2>6. QED
    BY <1>7, <2>3, <2>5
<1>9. CASE RestorePointer(p)
  <2>1. PICK c \in Candidate : /\ c = job[p] /\ pointer = c.target /\ pointer' = c.base
                               /\ pc[p] \notin Ended /\ ~Settled(c) /\ quarantine[c.id] = c
    BY <1>4, <1>9 DEF RestorePointer, RenamePointer, Work, Activation, Records, Publishing,
       HoldsPrevious, AtTarget, OnRecord, Ended, IsPublish, Candidate, SettledInv
  <2>2. Follows(source, c.base)
    BY <2>1 DEF AheadInv
  <2>3. Reached(pointer')
    BY <2>1, <2>2, FollowsUp
  <2>4. source # c.target
    <3>1. SUFFICES ASSUME source = c.target PROVE FALSE
      OBVIOUS
    <3>2. PICK d \in Candidate : d.target = source /\ d.id \in results
      BY <1>3, <3>1 DEF PubInv, RunInv, Proven
    <3>3. c.id \in results
      BY <3>1, <3>2 DEF OwnReleases
    <3>4. QED
      BY <2>1, <3>3 DEF Settled, Saved
  <2>5. ASSUME NEW d \in Candidate, d.base = source, d.target = pointer PROVE pointer' = source
    BY <2>1, <2>5 DEF OwnReleases
  <2>6. OneAhead(pointer') \/ source \in cancelled'
    BY <1>5, <1>6, <2>1, <2>4, <2>5
  <2>7. QED
    BY <1>7, <2>3, <2>6
<1>10. CASE RevertPointer(p)
  <2>1. PICK r \in Request : /\ r = job[p] /\ r.action = "rollback" /\ pointer = r.base /\ pointer' = r.target
                             /\ r.base = r.target \/ r.base \in cancelled
    BY <1>4, <1>10 DEF RevertPointer, RenamePointer, Work, Activation, Reverting,
       HoldsPrevious, Ended
  <2>2. CASE r.base = r.target
    BY <1>5, <1>6, <1>7, <2>1, <2>2
  <2>3. CASE r.base # r.target
    <3>1. PICK c \in Candidate : c.target = pointer /\ c.base = pointer'
      BY <2>1, <2>3 DEF StepBack
    <3>2. Follows(source, c.base)
      BY <1>6, <3>1
    <3>3. Reached(pointer')
      BY <3>1, <3>2, FollowsUp
    <3>4. ASSUME NEW d \in Candidate, d.base = source, d.target = pointer PROVE pointer' = source
      BY <3>1, <3>4 DEF OwnReleases
    <3>5. OneAhead(pointer') \/ source \in cancelled'
      BY <1>5, <1>6, <2>1, <2>3, <3>4
    <3>6. QED
      BY <1>7, <3>3, <3>5
  <2>4. QED
    BY <2>2, <2>3
<1>11. CASE pointer' = pointer
  BY <1>5, <1>6, <1>7, <1>11
<1>12. QED
  BY <1>8, <1>9, <1>10, <1>11, QuietStep DEF Cancel

\* A step of the source while production stays.
LEMMA AheadSource ==
    ASSUME PubInv, SettledInv, AheadInv,
           NEW number \in [Release -> Nat], Successors(number),
           UNCHANGED vars,
           \/ \E c \in Candidate : Begin(c)
           \/ CallRefused \/ Reply \/ InstallSource \/ SwitchSource \/ RenameSource
           \/ Report \/ Interrupt \/ UNCHANGED pubVars
    PROVE  AheadInv'
<1>1. pc' = pc /\ job' = job /\ pointer' = pointer /\ cancelled' = cancelled
  BY DEF vars, disk
<1>2. \A c \in Candidate : c.base \in Release /\ c.target \in Release /\ c # NoRequest
  BY RequestAssumption, NoneAssumption DEF Candidate, RequestType
<1>3. ASSUME source' = source, at' # "idle" => source \in {cand'.base, cand'.target} PROVE AheadInv'
  BY <1>1, <1>3 DEF AheadInv, AtMostOneAhead, Follows
<1>4. ASSUME NEW c \in Candidate, Begin(c) PROVE AheadInv'
  <2>1. source \in {c.base, c.target}
    BY <1>2, <1>4 DEF Begin
  <2>2. QED
    BY <1>3, <1>4, <2>1 DEF Begin
<1>5. CASE RenameSource
  <2>1. PICK c \in Candidate : c = cand /\ Saved(c) /\ source' = c.target /\ source \in {c.base, c.target}
    BY <1>5 DEF RenameSource, PubInv, RunInv, PubTypeOK, AfterReply, AheadInv
  <2>2. at' # "idle" => cand' = c
    BY <1>5, <2>1 DEF RenameSource, GoOn, EndRun
  <2>3. CASE source = c.target
    BY <1>3, <2>1, <2>2, <2>3
  <2>4. CASE source = c.base
    <3>1. \A x : Follows(source, x) => Follows(c.target, x)
      BY <2>4, FollowsOn
    <3>2. \A x : Follows(source, x) => Follows(source, x)'
      BY <2>1, <3>1 DEF Follows
    <3>3. \A q \in Proc : pc'[q] \notin Ended /\ job'[q] \in Candidate => Follows(source, job[q].base)'
      BY <1>1, <3>2 DEF AheadInv
    <3>4. \A d \in Candidate : d.target = pointer' => Follows(source, d.base)'
      BY <1>1, <3>2 DEF AheadInv
    <3>5. ASSUME c.target \notin cancelled, pointer # c.target PROVE FALSE
      <4>1. Follows(pointer, c.target)
        BY <2>1, <3>5 DEF SettledInv, Settled
      <4>2. PICK d \in Candidate : d.target = pointer /\ Follows(d.base, c.target)
        BY <1>2, <3>5, <4>1, FollowsLast
      <4>3. Follows(c.base, d.base)
        BY <2>4, <4>2 DEF AheadInv
      <4>4. Follows(c.base, c.target)
        BY <4>2, <4>3, FollowsFrom
      <4>5. QED
        BY <4>4, FollowsNotBase
    <3>6. AtMostOneAhead'
      BY <1>1, <2>1, <3>5 DEF AtMostOneAhead
    <3>7. QED
      BY <2>1, <2>2, <3>3, <3>4, <3>6 DEF AheadInv
  <2>5. QED
    BY <2>1, <2>3, <2>4
<1>6. CASE CallRefused \/ Reply \/ InstallSource \/ SwitchSource \/ Report \/ Interrupt
  <2>1. source' = source /\ at # "idle"
    BY <1>6 DEF CallRefused, Reply, InstallSource, SwitchSource, Report, Interrupt, sourceDisk
  <2>2. at' # "idle" => cand' = cand
    BY <1>6 DEF CallRefused, Reply, InstallSource, SwitchSource, Report, Interrupt, EndRun, GoOn
  <2>3. QED
    BY <1>3, <2>1, <2>2 DEF AheadInv
<1>7. CASE UNCHANGED pubVars
  BY <1>3, <1>7 DEF pubVars, sourceDisk, run, AheadInv
<1>8. QED
  BY <1>4, <1>5, <1>6, <1>7

\* With requests of that kind, production is never more than one publication ahead of the
\* source: replies are lost, attempts overlap and late ones arrive, but whatever is
\* activated was prepared on a release the source had come to.
THEOREM OneAhead ==
    ASSUME OwnReleases, StepBack,
           NEW number \in [Release -> Nat], Successors(number), number[Initial] = 0
    PROVE  PubSpec => []AtMostOneAhead
<1>1. PubInit => AheadInv
  <2> SUFFICES ASSUME PubInit PROVE AheadInv
    OBVIOUS
  <2>1. \A c \in Candidate : c.base \in Release /\ c.target \in Release /\ c.target # Initial
    BY RequestAssumption DEF Candidate, RequestType, Successors
  <2>2. at = "idle" /\ source = Initial /\ pointer = Initial /\ \A p \in Proc : pc[p] = "idle"
    BY DEF PubInit, Init
  <2>3. QED
    BY <2>1, <2>2 DEF AheadInv, AtMostOneAhead, Ended
<1>2. ASSUME PubInv, SettledInv, AheadInv, [PubNext]_pubVars PROVE AheadInv'
  <2>1. ASSUME UNCHANGED vars,
               \/ \E c \in Candidate : Begin(c)
               \/ CallRefused \/ Reply \/ InstallSource \/ SwitchSource \/ RenameSource
               \/ Report \/ Interrupt \/ UNCHANGED pubVars
        PROVE  AheadInv'
    BY <1>2, <2>1, AheadSource
  <2>2. ASSUME NEW p \in Proc, Call(p) PROVE AheadInv'
    <3>1. PICK c \in Candidate : c = cand /\ Admit(p, c) /\ source \in {c.base, c.target}
      BY <1>2, <2>2 DEF Call, PubInv, RunInv, PubTypeOK, AheadInv
    <3>2. source' = source /\ at # "idle" /\ cand' = cand
      BY <2>2 DEF Call, sourceDisk
    <3>3. Step(p)
      BY <3>1 DEF Step, Candidate
    <3>4. job'[p] = c
      BY <1>2, <3>1 DEF Admit, PubInv, TypeOK, ControlTypeOK
    <3>5. Follows(source, c.base)
      BY <3>1 DEF Follows
    <3>6. QED
      BY <1>2, <3>2, <3>3, <3>4, <3>5, AheadRemote
  <2>3. ASSUME NEW p \in Proc, RemoteStep(p) \/ RemoteFault(p) PROVE AheadInv'
    <3>1. (Run(p) \/ Fault(p)) /\ source' = source /\ at' = at /\ cand' = cand
      BY <2>3 DEF RemoteStep, RemoteFault, sourceDisk, run
    <3>2. pc'[p] \notin Ended => pc[p] \notin Ended /\ job'[p] = job[p]
      BY <1>2, <3>1, WorkEnds DEF PubInv
    <3>3. Step(p)
      BY <3>1 DEF Step
    <3>4. pc'[p] \notin Ended /\ job'[p] \in Candidate => Follows(source, job'[p].base)
      BY <1>2, <3>2 DEF AheadInv
    <3>5. QED
      BY <1>2, <3>1, <3>3, <3>4, AheadRemote
  <2>4. ASSUME NEW p \in Proc, NEW r \in Request \ Candidate, Operate(p, r) PROVE AheadInv'
    <3>1. Admit(p, r) /\ source' = source /\ at' = at /\ cand' = cand
      BY <2>4 DEF Operate, sourceDisk, run
    <3>2. job'[p] = r
      BY <1>2, <3>1 DEF Admit, PubInv, TypeOK, ControlTypeOK
    <3>3. Step(p)
      BY <3>1 DEF Step
    <3>4. QED
      BY <1>2, <3>1, <3>2, <3>3, AheadRemote
  <2>5. CASE UNCHANGED pubVars
    BY <2>1, <2>5 DEF pubVars
  <2>6. QED
    BY <1>2, <2>1, <2>2, <2>3, <2>4, <2>5 DEF PubNext, RunStep, SomeCall, Begin, CallRefused, Reply,
       InstallSource, SwitchSource, RenameSource, Report, Interrupt
<1>3. AheadInv => AtMostOneAhead
  BY DEF AheadInv
<1>4. QED
  BY <1>1, <1>2, <1>3, PubBegins, PubStep, SettledBegins, SettledKept, PTL DEF PubSpec
=============================================================================
