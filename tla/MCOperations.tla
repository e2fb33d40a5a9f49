----------------------------- MODULE MCOperations -----------------------------
(***************************************************************************)
(* One instance of each component of the operator's side that shares no    *)
(* state with the others: the retention of content, the audit journal, the *)
(* deployment of applications and the review of issues.  The component     *)
(* that moves is chosen at the start; the others stay as they began.       *)
(***************************************************************************)
EXTENDS ContentRetention, AuditJournal, ApplicationDeploy, IssueReview, TLC

CONSTANTS b0, y, w, v, p1, p2, e1, e2, r1, r2, r3

VARIABLE moving

RetainedRelease == {b0, y, w, v}

MkRequest(id, action, base, target) ==
    [id |-> id, action |-> action, base |-> base, target |-> target]

\* Three publications in a row, the last two of which are taken back at once.
ChainRequests == {
    MkRequest("pubY", "publish", b0, y),
    MkRequest("pubW", "publish", y, w),
    MkRequest("pubV", "publish", w, v),
    MkRequest("backV", "rollback", v, y)}
ChainIds == {r.id : r \in ChainRequests}

\* The first application is approved a second time; the second one carries a
\* migration more.
TwoApplications == {[app |-> "a1", stamp |-> 1], [app |-> "a1", stamp |-> 2],
                    [app |-> "a2", stamp |-> 2]}
Migrations == [a1 |-> {1}, a2 |-> {1, 2}]

\* Two corrections of one issue and one of another.
Issues == [r \in Reviews |-> IF r = r3 THEN "second" ELSE "first"]
MadeForNone == [r \in Reviews |-> {}]

OperationsInit ==
    /\ RetentionInit /\ JournalInit /\ DeployInit /\ ReviewInit
    /\ moving \in {"retention", "journal", "deployment", "review"}

OperationsNext ==
    /\ UNCHANGED moving
    /\ \/ /\ moving = "retention" /\ RetentionNext
          /\ UNCHANGED <<journalVars, deployVars, reviewVars>>
       \/ /\ moving = "journal" /\ JournalNext
          /\ UNCHANGED <<allVars, deployVars, reviewVars>>
       \/ /\ moving = "deployment" /\ Deploy
          /\ UNCHANGED <<allVars, journalVars, reviewVars>>
       \/ /\ moving = "review" /\ ReviewNext
          /\ UNCHANGED <<allVars, journalVars, deployVars>>

OperationsSpec ==
    OperationsInit /\ [][OperationsNext]_<<moving, allVars, journalVars, deployVars, reviewVars>>

\* The state of each component is of its kind.
OperationsTypeOK == RetentionTypeOK /\ JournalTypeOK /\ DeployTypeOK /\ ReviewTypeOK

OperationsSymmetry ==
    Permutations({p1, p2}) \cup Permutations({e1, e2})
=============================================================================
