---------------------- MODULE RemoteActivationProperties ----------------------
(***************************************************************************)
(* What RemoteActivation must keep true, and the abstract register it      *)
(* implements.                                                             *)
(***************************************************************************)
EXTENDS RemoteActivation

\* Process p passes from place a to place b in this step.
Passes(p, a, b) == pc[p] = a /\ pc'[p] = b

\* Two processes are never both between acquire_mutation_lock and its release,
\* although both may have read the same pointer before it.
MutualExclusion ==
    \A p, q \in Proc : pc[p] \in Locked /\ pc[q] \in Locked => p = q

\* active.json always names a complete release database: activation,
\* automatic restore and explicit rollback all switch to an installed one,
\* whatever crashed before.
PointerNamesDatabase == pointer \in installed

\* A release that an operator rolled back is never activated again by a
\* publication, neither by a replay of the retained request nor by a copy of
\* it that had passed the first check before the marker was written.
CancelledStaysDown ==
    [][\A p \in Proc : pc[p] = "renaming" /\ pointer' # pointer
                       => pointer' \notin cancelled]_vars

\* The undoing failed, and so did the write of the marker: the handler raises
\* and leaves the unproven pointer on a host that accepts publications.
LatchIsLost(p) == pc[p] = "latching" /\ Error(p)

\* A publication that ends in an error after it was activated leaves the
\* previous pointer in place, or leaves the host latched, whatever of the
\* undoing fails and whoever else is at work; the write of the marker itself is
\* the only call whose failure leaves neither.
RestoredOrLatched ==
    [][\A p \in Proc : pc[p] \in Activated /\ pc'[p] = "failed"
                       => pointer' = prev[p] \/ blocked' \/ LatchIsLost(p)]_vars

\* A saved result is never a claim about a release that did not become active:
\* its request was quarantined, its base pointer retained, its database
\* installed, and a later replay can find all of them.
ResultHasEvidence ==
    \A i \in results :
        /\ quarantine[i] # NoRequest
        /\ basePointer[i] = quarantine[i].base
        /\ quarantine[i].target \in installed

\* What every process knows at every place, which makes the properties above
\* inductive: who holds the lock, which request and pointer it works from, what
\* is on disk on its behalf, and which release is active.
AtTarget == {"proving", "restoring", "renamingBack"}
HoldsPrevious == {"quarantining", "basing", "locking", "saving"} \cup Publishing
                 \cup Reverting
PastStaging == {"applying", "installing", "renamingInstall", "switching", "renaming"}
Installed == {"switching", "renaming", "saving"} \cup Activated
OnRecord == {"locking", "saving"} \cup Publishing

Ownership(p) == pc[p] \in Locked <=> lock = p

Work(p) ==
    /\ pc[p] \notin Ended => job[p] \in Request
    /\ pc[p] \in Publishing \cup Recovering \cup {"relocking", "saving"} => IsPublish(p)
    /\ pc[p] \in Reverting => job[p].action = "rollback"
    /\ pc[p] = "locking" => job[p].action # "status"
    /\ pc[p] \in HoldsPrevious => prev[p] = job[p].base

Databases(p) ==
    /\ pc[p] \in HoldsPrevious => prev[p] \in installed
    /\ pc[p] \in Installed => job[p].target \in installed
    /\ pc[p] \in {"locking"} \cup Reverting /\ ~IsPublish(p)
          => job[p].target \in installed

Records(p) ==
    /\ pc[p] \in {"basing", "relocking"} \cup OnRecord \cup Recovering \cup Reverting =>
          quarantine[job[p].id] = job[p]
    /\ pc[p] \in OnRecord \cup {"reproving"} /\ IsPublish(p)
          => basePointer[job[p].id] = job[p].base
    /\ pc[p] = "reproving" => job[p].target \in installed

Activation(p) ==
    /\ pc[p] \in {"renaming", "renamingRevert"} => pointer = prev[p]
    /\ pc[p] \in AtTarget => pointer = job[p].target
    /\ pc[p] \in PastStaging => job[p].target \notin cancelled
    /\ pc[p] \in {"reverting", "renamingRevert"} =>
          prev[p] = job[p].target \/ prev[p] \in cancelled

Knows(p) == Ownership(p) /\ Work(p) /\ Databases(p) /\ Records(p) /\ Activation(p)

\* A process undoes or reverts only what it finds unchanged, a result is saved
\* only for a publication on record, and no crash breaks any of it.
IInv == PointerNamesDatabase /\ ResultHasEvidence /\ \A p \in Proc : Knows(p)

\* The pointer moves only along a request: forward from the exact base a
\* publication was built on, back to it when it is undone, or along an explicit
\* rollback recorded before the move.
Register == INSTANCE ReleaseRegister WITH
    active <- pointer,
    takenDown <- cancelled,
    Forward <- {<<r.base, r.target>> : r \in {s \in Request : s.action = "publish"}},
    Backward <- {<<r.base, r.target>> : r \in {s \in Request : s.action = "rollback"}}
ImplementsRegister == Register!Spec

\* ADR 0002, section 4, says of a rollback that could not be proven that it
\* "blocks future publishing".  The marker is read before the mutation lock is
\* taken and never again by a publication, so one that was already past that
\* read still activates its release.
BlockedStopsPublishing ==
    [][\A p \in Proc : pc[p] = "renaming" /\ blocked => pointer' = pointer]_vars

\* README.md, release gates: any error after content activation must restore
\* the previous pointer, otherwise further publications are blocked.  An error
\* of replace_pointer after its rename is handled as one before it.
ErrorAfterActivationRestores ==
    [][\A p \in Proc : Passes(p, "renaming", "failed")
                       => pointer' = prev[p] \/ blocked']_vars
=============================================================================
