---------------------------- MODULE MCPublication ----------------------------
(* The instances of Publication that TLC checks. *)
EXTENDS Publication, TLC

CONSTANTS b0, y, z, w, p1, p2

MCRelease == {b0, y, z, w}

MkRequest(id, action, base, target) ==
    [id |-> id, action |-> action, base |-> base, target |-> target]

\* y and w compete for b0, z follows y, and the operator may take y down.
MCRequest == {
    MkRequest("pubY", "publish", b0, y),
    MkRequest("pubW", "publish", b0, w),
    MkRequest("pubZ", "publish", y, z),
    MkRequest("backY", "rollback", y, b0)}

\* One candidate and its successor.
ChainRequest == {
    MkRequest("pubY", "publish", b0, y),
    MkRequest("pubZ", "publish", y, z),
    MkRequest("backY", "rollback", y, b0)}

MCRequestId == {r.id : r \in MCRequest}

\* They are requests of the ordinary kind.
ASSUME OrdinaryAssumption ==
    OwnReleases /\ StepBack /\ Successors(b0 :> 0 @@ y :> 1 @@ w :> 1 @@ z :> 2)

Symmetry == Permutations({p1, p2})
=============================================================================
