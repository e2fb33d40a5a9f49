-------------------------- MODULE MCRemoteActivation --------------------------
(* The instance of RemoteActivation that TLC checks. *)
EXTENDS RemoteActivationProperties, TLC

CONSTANTS b0, y, w, p1, p2

MCRelease == {b0, y, w}

MkRequest(id, action, base, target) ==
    [id |-> id, action |-> action, base |-> base, target |-> target]

\* y and w compete for b0.  The operator may take y down, also to a release
\* that may not be installed, or ask for the status under an id that another
\* request may have used.
MCRequest == {
    MkRequest("pubY", "publish", b0, y),
    MkRequest("pubW", "publish", b0, w),
    MkRequest("backY", "rollback", y, b0),
    MkRequest("swapY", "rollback", y, w),
    MkRequest("backY", "status", y, y)}
MCRequestId == {r.id : r \in MCRequest}

\* The two publications alone, for the shortest counterexamples.
RaceRequest == {MkRequest("pubY", "publish", b0, y), MkRequest("pubW", "publish", b0, w)}

Symmetry == Permutations({p1, p2})
=============================================================================
