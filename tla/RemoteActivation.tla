--------------------------- MODULE RemoteActivation ---------------------------
(***************************************************************************)
(* Content activation on the production host (Local Ru).                   *)
(*                                                                         *)
(* Every SSH call starts one process of the forced command, which runs     *)
(* activate_request once: it quarantines the request, stages a release     *)
(* database, switches the pointer active.json under the host-local         *)
(* mutation lock, asks the API for its health and either saves a result or *)
(* puts the previous pointer back.  Several such processes may overlap:    *)
(* the caller gives up after 60 seconds while its remote process lives on, *)
(* and an operator may send an explicit rollback at any time.              *)
(*                                                                         *)
(* One action is one durable effect of the code, or one read the code acts *)
(* on later, so that other processes and crashes fall between them.  What  *)
(* is on disk survives a crash; the process's variables and its flock do   *)
(* not.  A release stands for its pointer bytes, its release id and its    *)
(* state hash, which the code always checks together.                      *)
(***************************************************************************)
EXTENDS Naturals, FiniteSets

CONSTANTS
    Proc,           \* processes of the forced command
    Release,        \* releases that pointers and databases can name
    RequestId,      \* values of requestId
    Request,        \* requests that may arrive, see RequestType
    Initial,        \* the release active at the start
    MaxCrashes,     \* bound: process crashes in one behaviour
    CrashPlaces,    \* where a process may crash; Place, unless a run narrows it
    FsyncMayFail,   \* may fsync of the directory fail after the rename?
    NoProc, NoRelease, NoRequest

Action == {"publish", "rollback", "status"}

\* base is the release the request's fence (expectedCurrentPointerSha256) and
\* its delta start from; target is what it activates.
RequestType == [id: RequestId, action: Action, base: Release, target: Release]

ASSUME RequestAssumption == Request \subseteq RequestType
ASSUME InitialAssumption == Initial \in Release
ASSUME BoundAssumption == MaxCrashes \in Nat
ASSUME FaultAssumption == FsyncMayFail \in BOOLEAN
ASSUME NoneAssumption ==
    NoProc \notin Proc /\ NoRelease \notin Release /\ NoRequest \notin Request

VARIABLES
    pc,           \* where each process is
    job,          \* the request it works on
    prev,         \* previous_bytes: the pointer it read before the lock
    lock,         \* holder of radar-mutation.lock
    pointer,      \* active.json
    pointerTemp,  \* contents x with a staging file .active.<sha(x)>.next
    quarantine,   \* incoming/<id>.json
    basePointer,  \* incoming/<id>.base-pointer.json
    staging,      \* incoming/<id>.staging.sqlite
    installTemp,  \* releases with a staging file of _install_database
    installed,    \* releases/<token>.sqlite present, complete
    cancelled,    \* rolled-back-<release> markers
    blocked,      \* the NEEDS_RECONCILIATION marker
    results,      \* ids with a saved "published" result
    crashes       \* crashes so far

disk == <<pointer, pointerTemp, quarantine, basePointer, staging, installTemp,
          installed, cancelled, blocked, results>>
vars == <<pc, job, prev, lock, disk, crashes>>

Ended == {"idle", "done", "failed"}
BeforeLock == {"inspecting", "quarantining", "basing", "locking",
               "relocking"}
\* A process in these places holds the mutation lock.
Publishing == {"staging", "applying", "installing", "renamingInstall",
               "switching", "renaming", "proving", "restoring",
               "renamingBack", "provingBack", "latching"}
Reverting == {"cancelling", "reverting", "renamingRevert", "provingRevert"}
Recovering == {"recovering", "reproving"}
Locked == Publishing \cup Reverting \cup Recovering
Place == Ended \cup BeforeLock \cup Locked \cup {"saving"}

\* Where an error simply ends the process; those of the other places are in
\* their actions.
Fallible == (BeforeLock \ {"inspecting"}) \cup {"saving", "recovering"} \cup
            {"staging", "applying", "installing", "renamingInstall",
             "switching", "renaming", "latching", "cancelling", "reverting",
             "renamingRevert"}

\* Between these places the pointer names the target and its failure must be
\* undone.
Activated == {"proving", "restoring", "renamingBack", "provingBack", "latching"}

ControlTypeOK ==
    /\ pc \in [Proc -> Place]
    /\ job \in [Proc -> Request \cup {NoRequest}]
    /\ prev \in [Proc -> Release \cup {NoRelease}]
    /\ lock \in Proc \cup {NoProc}
    /\ crashes \in 0..MaxCrashes

DiskTypeOK ==
    /\ pointer \in Release
    /\ pointerTemp \subseteq Release
    /\ quarantine \in [RequestId -> Request \cup {NoRequest}]
    /\ basePointer \in [RequestId -> Release \cup {NoRelease}]
    /\ staging \in [RequestId -> {"absent", "partial", "ready"}]
    /\ installTemp \subseteq Release
    /\ installed \subseteq Release
    /\ cancelled \subseteq Release
    /\ blocked \in BOOLEAN
    /\ results \subseteq RequestId

TypeOK == ControlTypeOK /\ DiskTypeOK

Init ==
    /\ pc = [p \in Proc |-> "idle"]
    /\ job = [p \in Proc |-> NoRequest]
    /\ prev = [p \in Proc |-> NoRelease]
    /\ lock = NoProc
    /\ pointer = Initial
    /\ pointerTemp = {}
    /\ quarantine = [i \in RequestId |-> NoRequest]
    /\ basePointer = [i \in RequestId |-> NoRelease]
    /\ staging = [i \in RequestId |-> "absent"]
    /\ installTemp = {}
    /\ installed = {Initial}
    /\ cancelled = {}
    /\ blocked = FALSE
    /\ results = {}
    /\ crashes = 0

-----------------------------------------------------------------------------
(* Moves of one process's control state.                                   *)

Goto(p, place) ==
    /\ pc' = [pc EXCEPT ![p] = place]
    /\ UNCHANGED <<job, prev, lock, crashes>>

\* The process returns or raises; if it holds the lock, its finally clause
\* releases it.
End(p, outcome) ==
    /\ pc' = [pc EXCEPT ![p] = outcome]
    /\ job' = [job EXCEPT ![p] = NoRequest]
    /\ prev' = [prev EXCEPT ![p] = NoRelease]
    /\ lock' = IF lock = p THEN NoProc ELSE lock
    /\ UNCHANGED crashes

Retained(p) == quarantine[job[p].id] # NoRequest
IsPublish(p) == job[p].action = "publish"

-----------------------------------------------------------------------------
(* Before the lock.                                                        *)

\* The process starts: both markers are looked at here, without the lock.
Admit(p, r) ==
    /\ pc[p] \in Ended
    /\ ~blocked
    /\ r.action = "publish" => r.target \notin cancelled
    /\ pc' = [pc EXCEPT ![p] = "inspecting"]
    /\ job' = [job EXCEPT ![p] = r]
    /\ UNCHANGED <<prev, lock, disk, crashes>>

\* The quarantined copy, the pointer and the saved result are read.  An exact
\* publication that was retained and has completed, or whose fence no longer
\* matches, can only be recovered.
InspectMismatch(p) ==
    /\ pc[p] = "inspecting"
    /\ \/ Retained(p) /\ quarantine[job[p].id] # job[p]
       \/ pointer # job[p].base /\ ~(Retained(p) /\ IsPublish(p))
    /\ End(p, "failed")
    /\ UNCHANGED disk

MustRecover(p) ==
    /\ IsPublish(p)
    /\ quarantine[job[p].id] = job[p]
    /\ pointer # job[p].base \/ job[p].id \in results

InspectReplay(p) ==
    /\ pc[p] = "inspecting"
    /\ MustRecover(p)
    /\ Goto(p, "relocking")
    /\ UNCHANGED disk

InspectFresh(p) ==
    /\ pc[p] = "inspecting"
    /\ quarantine[job[p].id] \in {NoRequest, job[p]}
    /\ pointer = job[p].base
    /\ ~MustRecover(p)
    /\ prev' = [prev EXCEPT ![p] = pointer]
    /\ pc' = [pc EXCEPT ![p] = IF Retained(p) THEN "basing" ELSE "quarantining"]
    /\ UNCHANGED <<job, lock, disk, crashes>>

\* atomic_write_new: a concurrent process may have written the name first.
WriteQuarantine(p) ==
    /\ pc[p] = "quarantining"
    /\ \/ /\ Retained(p)
          /\ End(p, "failed")
          /\ UNCHANGED quarantine
       \/ /\ ~Retained(p)
          /\ quarantine' = [quarantine EXCEPT ![job[p].id] = job[p]]
          /\ Goto(p, "basing")
    /\ UNCHANGED <<pointer, pointerTemp, basePointer, staging, installTemp,
                   installed, cancelled, blocked, results>>

\* Variant: the base pointer is not retained.
SkipBasePointer(p) ==
    /\ pc[p] = "basing"
    /\ IsPublish(p)
    /\ Goto(p, "locking")
    /\ UNCHANGED disk

\* Only a publication retains the pointer it starts from; a rollback goes on to
\* verify its target and a status request is answered.
WriteBasePointer(p) ==
    /\ pc[p] = "basing"
    /\ IsPublish(p)
    /\ LET kept == basePointer[job[p].id]
       IN  \/ /\ kept \notin {NoRelease, prev[p]}
              /\ End(p, "failed")
              /\ UNCHANGED basePointer
           \/ /\ kept \in {NoRelease, prev[p]}
              /\ basePointer' = [basePointer EXCEPT ![job[p].id] = prev[p]]
              /\ Goto(p, "locking")
    /\ UNCHANGED <<pointer, pointerTemp, quarantine, staging, installTemp,
                   installed, cancelled, blocked, results>>

AnswerStatus(p) ==
    /\ pc[p] = "basing"
    /\ job[p].action = "status"
    /\ End(p, "done")
    /\ UNCHANGED disk

\* Variant: the rollback target is not verified.
BeginUncheckedRollback(p) ==
    /\ pc[p] = "basing"
    /\ job[p].action = "rollback"
    /\ Goto(p, "locking")
    /\ UNCHANGED disk

BeginRollback(p) ==
    /\ pc[p] = "basing"
    /\ job[p].action = "rollback"
    /\ IF job[p].target \in installed THEN Goto(p, "locking") ELSE End(p, "failed")
    /\ UNCHANGED disk

-----------------------------------------------------------------------------
(* The mutation lock is taken without waiting.                             *)

Take(p, place) ==
    /\ lock = NoProc
    /\ lock' = p
    /\ pc' = [pc EXCEPT ![p] = place]
    /\ UNCHANGED <<job, prev, crashes>>

LockBusy(p) ==
    /\ pc[p] \in {"locking", "relocking"}
    /\ lock # NoProc
    /\ End(p, "failed")
    /\ UNCHANGED disk

LockForPublish(p) ==
    /\ pc[p] = "locking"
    /\ IsPublish(p)
    /\ Take(p, "staging")
    /\ UNCHANGED disk

LockForRollback(p) ==
    /\ pc[p] = "locking"
    /\ ~IsPublish(p)
    /\ Take(p, "cancelling")
    /\ UNCHANGED disk

\* Variant: recovery proves without the lock.
RecoverUnlocked(p) ==
    /\ pc[p] = "relocking"
    /\ Goto(p, "recovering")
    /\ UNCHANGED disk

LockForRecovery(p) ==
    /\ pc[p] = "relocking"
    /\ Take(p, "recovering")
    /\ UNCHANGED disk

-----------------------------------------------------------------------------
(* Staging and installation of the release database.                       *)

\* Variant: the marker is not read again.
NeverCancelled(p) == FALSE

Cancelled(p) == job[p].target \in cancelled

\* The cancellation marker is read again now that the lock is held.
\* apply_delta_to_staging first copies the base database to the staging path
\* and then rewrites the copy; a crash in between leaves a copy that is not
\* the target and is refused by every later attempt.
Stage(p) ==
    /\ pc[p] = "staging"
    /\ LET id == job[p].id
           present == job[p].target \in installed
           Refused == Cancelled(p) \/ (~present /\ staging[id] = "partial")
       IN  \/ /\ Refused
              /\ End(p, "failed")
              /\ UNCHANGED staging
           \/ /\ ~Refused
              /\ present
              /\ Goto(p, "switching")
              /\ UNCHANGED staging
           \/ /\ ~Refused
              /\ ~present
              /\ staging[id] = "ready"
              /\ Goto(p, "installing")
              /\ UNCHANGED staging
           \/ /\ ~Refused
              /\ ~present
              /\ staging[id] = "absent"
              /\ staging' = [staging EXCEPT ![id] = "partial"]
              /\ Goto(p, "applying")
    /\ UNCHANGED <<pointer, pointerTemp, quarantine, basePointer, installTemp,
                   installed, cancelled, blocked, results>>

ApplyDelta(p) ==
    /\ pc[p] = "applying"
    /\ staging' = [staging EXCEPT ![job[p].id] = "ready"]
    /\ Goto(p, "installing")
    /\ UNCHANGED <<pointer, pointerTemp, quarantine, basePointer, installTemp,
                   installed, cancelled, blocked, results>>

\* The staging name depends only on the content and is opened with O_EXCL: one
\* that a crashed process left behind fails the installation.
InstallDatabase(p) ==
    /\ pc[p] = "installing"
    /\ IF job[p].target \in installTemp
       THEN End(p, "failed") /\ UNCHANGED installTemp
       ELSE /\ installTemp' = installTemp \cup {job[p].target}
            /\ Goto(p, "renamingInstall")
    /\ UNCHANGED <<pointer, pointerTemp, quarantine, basePointer, staging,
                   installed, cancelled, blocked, results>>

FinishInstall(p) ==
    /\ pc[p] = "renamingInstall"
    /\ installTemp' = installTemp \ {job[p].target}
    /\ installed' = installed \cup {job[p].target}
    /\ Goto(p, "switching")
    /\ UNCHANGED <<pointer, pointerTemp, quarantine, basePointer, staging,
                   cancelled, blocked, results>>

-----------------------------------------------------------------------------
(* replace_pointer, used for activation, for its undoing and for an        *)
(* explicit rollback.                                                      *)

\* Variant: the pointer is replaced whatever it is.
CanOverwrite(content, expected) == content \notin pointerTemp

\* It refuses a pointer other than the expected one, and a staging file that
\* already exists.
CanReplace(content, expected) == pointer = expected /\ content \notin pointerTemp

StagePointer(content) ==
    /\ pointerTemp' = pointerTemp \cup {content}
    /\ UNCHANGED <<pointer, quarantine, basePointer, staging, installTemp,
                   installed, cancelled, blocked, results>>

RenamePointer(content) ==
    /\ pointer' = content
    /\ pointerTemp' = pointerTemp \ {content}
    /\ UNCHANGED <<quarantine, basePointer, staging, installTemp, installed,
                   cancelled, blocked, results>>

Switch(p) ==
    /\ pc[p] = "switching"
    /\ IF CanReplace(job[p].target, prev[p])
       THEN StagePointer(job[p].target) /\ Goto(p, "renaming")
       ELSE End(p, "failed") /\ UNCHANGED disk

\* "activated" is set only after replace_pointer returned: an error after its
\* rename is raised to the caller as one before it.
Activate(p) ==
    /\ pc[p] = "renaming"
    /\ RenamePointer(job[p].target)
    /\ \/ Goto(p, "proving")
       \/ FsyncMayFail /\ End(p, "failed")

-----------------------------------------------------------------------------
(* Proof of an activation, and its undoing.                                *)

\* What the API reports can equal the expected markers only when the pointer
\* names them; a check may fail for any reason at any time.
HealthConfirms(release) == pointer = release

Prove(p) ==
    /\ pc[p] = "proving"
    /\ HealthConfirms(job[p].target)
    /\ lock' = NoProc
    /\ pc' = [pc EXCEPT ![p] = "saving"]
    /\ UNCHANGED <<job, prev, disk, crashes>>

\* Variant: the error is raised without undoing the activation.
RaiseUnproven(p) ==
    /\ pc[p] = "proving"
    /\ End(p, "failed")
    /\ UNCHANGED disk

FailProof(p) ==
    /\ pc[p] = "proving"
    /\ Goto(p, "restoring")
    /\ UNCHANGED disk

Restore(p) ==
    /\ pc[p] = "restoring"
    /\ IF CanReplace(prev[p], job[p].target)
       THEN StagePointer(prev[p]) /\ Goto(p, "renamingBack")
       ELSE Goto(p, "latching") /\ UNCHANGED disk

RestorePointer(p) ==
    /\ pc[p] = "renamingBack"
    /\ RenamePointer(prev[p])
    /\ \/ Goto(p, "provingBack")
       \/ FsyncMayFail /\ Goto(p, "latching")

ProveRestored(p) ==
    /\ pc[p] = "provingBack"
    /\ \/ HealthConfirms(prev[p]) /\ End(p, "failed")
       \/ Goto(p, "latching")
    /\ UNCHANGED disk

Latch(p) ==
    /\ pc[p] = "latching"
    /\ blocked' = TRUE
    /\ End(p, "failed")
    /\ UNCHANGED <<pointer, pointerTemp, quarantine, basePointer, staging,
                   installTemp, installed, cancelled, results>>

\* The result is written after the lock was released.
SaveResult(p) ==
    /\ pc[p] = "saving"
    /\ results' = results \cup {job[p].id}
    /\ End(p, "done")
    /\ UNCHANGED <<pointer, pointerTemp, quarantine, basePointer, staging,
                   installTemp, installed, cancelled, blocked>>

-----------------------------------------------------------------------------
(* Replay of a retained publication: prove it, never activate it.          *)

\* Variant: recovery expects the pointer of the first attempt.
RecoverFromBase(p) ==
    /\ pc[p] = "recovering"
    /\ IF ~blocked /\ pointer = job[p].base
       THEN Goto(p, "reproving")
       ELSE End(p, "failed")
    /\ UNCHANGED disk

Recover(p) ==
    /\ pc[p] = "recovering"
    /\ IF /\ ~blocked
          /\ job[p].target \notin cancelled
          /\ basePointer[job[p].id] = job[p].base
          /\ pointer = job[p].target
          /\ pointer \in installed
       THEN Goto(p, "reproving")
       ELSE End(p, "failed")
    /\ UNCHANGED disk

ProveRecovered(p) ==
    /\ pc[p] = "reproving"
    /\ HealthConfirms(job[p].target)
    /\ results' = results \cup {job[p].id}
    /\ End(p, "done")
    /\ UNCHANGED <<pointer, pointerTemp, quarantine, basePointer, staging,
                   installTemp, installed, cancelled, blocked>>

FailRecovery(p) ==
    /\ pc[p] = "reproving"
    /\ End(p, "failed")
    /\ UNCHANGED disk

-----------------------------------------------------------------------------
(* Explicit rollback: the cancellation is durable before the pointer moves. *)

Cancel(p) ==
    /\ pc[p] = "cancelling"
    /\ cancelled' = IF prev[p] = job[p].target THEN cancelled
                    ELSE cancelled \cup {prev[p]}
    /\ Goto(p, "reverting")
    /\ UNCHANGED <<pointer, pointerTemp, quarantine, basePointer, staging,
                   installTemp, installed, blocked, results>>

Revert(p) ==
    /\ pc[p] = "reverting"
    /\ IF CanReplace(job[p].target, prev[p])
       THEN StagePointer(job[p].target) /\ Goto(p, "renamingRevert")
       ELSE End(p, "failed") /\ UNCHANGED disk

RevertPointer(p) ==
    /\ pc[p] = "renamingRevert"
    /\ RenamePointer(job[p].target)
    /\ \/ Goto(p, "provingRevert")
       \/ FsyncMayFail /\ End(p, "failed")

\* An unhealthy rollback is reported to the operator; nothing is undone.
ProveReverted(p) ==
    /\ pc[p] = "provingRevert"
    /\ \/ HealthConfirms(job[p].target) /\ End(p, "done")
       \/ End(p, "failed")
    /\ UNCHANGED disk

-----------------------------------------------------------------------------
(* Errors and crashes.                                                     *)

\* A system call fails, or an asset or a staged release is not what the request
\* says.  The code removes the staging file it created; a copy that could not
\* be turned into the target stays.  The marker of a failed undoing is written
\* by a system call too: when that fails, nothing blocks the host.
Error(p) ==
    /\ pc[p] \in Fallible
    /\ End(p, "failed")
    /\ pointerTemp' = IF pc[p] \in {"renaming", "renamingRevert"}
                      THEN pointerTemp \ {job[p].target} ELSE pointerTemp
    /\ installTemp' = IF pc[p] = "renamingInstall"
                      THEN installTemp \ {job[p].target} ELSE installTemp
    /\ UNCHANGED <<pointer, quarantine, basePointer, staging, installed,
                   cancelled, blocked, results>>

\* The same while the previous pointer is put back.
ErrorUndoing(p) ==
    /\ pc[p] = "renamingBack"
    /\ Goto(p, "latching")
    /\ pointerTemp' = pointerTemp \ {prev[p]}
    /\ UNCHANGED <<pointer, quarantine, basePointer, staging, installTemp,
                   installed, cancelled, blocked, results>>

\* The process is killed, or the host restarts it: the kernel drops its flock.
Crash(p) ==
    /\ pc[p] \in CrashPlaces \ Ended
    /\ crashes < MaxCrashes
    /\ crashes' = crashes + 1
    /\ pc' = [pc EXCEPT ![p] = "idle"]
    /\ job' = [job EXCEPT ![p] = NoRequest]
    /\ prev' = [prev EXCEPT ![p] = NoRelease]
    /\ lock' = IF lock = p THEN NoProc ELSE lock
    /\ UNCHANGED disk

BeforeLockStep(p) ==
    \/ InspectMismatch(p) \/ InspectReplay(p) \/ InspectFresh(p)
    \/ WriteQuarantine(p) \/ WriteBasePointer(p)
    \/ AnswerStatus(p) \/ BeginRollback(p)
    \/ LockBusy(p) \/ LockForPublish(p) \/ LockForRollback(p)
    \/ LockForRecovery(p)

PublishStep(p) ==
    \/ Stage(p) \/ ApplyDelta(p) \/ InstallDatabase(p) \/ FinishInstall(p)
    \/ Switch(p) \/ Activate(p) \/ Prove(p) \/ FailProof(p)
    \/ Restore(p) \/ RestorePointer(p) \/ ProveRestored(p) \/ Latch(p)
    \/ SaveResult(p)

RecoveryStep(p) == Recover(p) \/ ProveRecovered(p) \/ FailRecovery(p)

RollbackStep(p) == Cancel(p) \/ Revert(p) \/ RevertPointer(p) \/ ProveReverted(p)

\* What a started process does by itself.
Run(p) == BeforeLockStep(p) \/ PublishStep(p) \/ RecoveryStep(p) \/ RollbackStep(p)

Fault(p) == Error(p) \/ ErrorUndoing(p) \/ Crash(p)

Step(p) == Run(p) \/ Fault(p) \/ \E r \in Request : Admit(p, r)

Next == \E p \in Proc : Step(p)

Spec == Init /\ [][Next]_vars
=============================================================================
