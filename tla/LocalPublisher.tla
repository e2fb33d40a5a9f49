---------------------------- MODULE LocalPublisher ----------------------------
(***************************************************************************)
(* The journalled publisher of source and production                       *)
(* (LocalPublisherSimulator and PublisherStateMachine).                    *)
(*                                                                         *)
(* publish() runs under the mutation lock, so one run is active at a time. *)
(* It brings a candidate from one state of the accepted graph to the next; *)
(* each transition is appended to the journal after the effects it stands  *)
(* for.  A run that is interrupted is repeated with the same input and     *)
(* goes on from the last journalled state, after comparing both pointers   *)
(* with what that state leads it to expect.                                *)
(*                                                                         *)
(* The journal is what its verified records say of each candidate;         *)
(* appending a record is one step here.                                    *)
(***************************************************************************)
EXTENDS Naturals

CONSTANTS
    Release,
    Candidate,      \* deltas, by the releases they start from and lead to
    Initial,        \* the release installed on both hosts
    MaxFaults,      \* bound: interrupted runs in one behaviour
    FaultPlaces,    \* where a run may be interrupted; Place, unless narrowed
    NoRelease, NoCandidate

ASSUME CandidateAssumption == Candidate \subseteq [base: Release, target: Release]
ASSUME DistinctAssumption ==
    /\ \A c \in Candidate : c.base # c.target
    /\ \A c, d \in Candidate : c.target = d.target => c = d
ASSUME InitialAssumption ==
    Initial \in Release /\ \A c \in Candidate : c.target # Initial
ASSUME BoundAssumption == MaxFaults \in Nat
ASSUME NoneAssumption == NoRelease \notin Release /\ NoCandidate \notin Candidate

VARIABLES
    journal,      \* the state of each candidate, "none" before it is received
    source,       \* active.json of the source
    production,   \* active.json of production
    copies,       \* releases/<target>.sqlite on either host
    staging,      \* the files .active.json.<sha>.next of either host, by release
    previous,     \* previous/production-<candidate>.json
    results,      \* results/<candidate>.json
    at,           \* where the run is
    cand,         \* its candidate
    faults        \* faults so far

disk == <<journal, source, production, copies, staging, previous, results>>
vars == <<disk, at, cand, faults>>

Host == {"source", "production"}

\* The state a check or an effect that passes leads to, see TRANSITIONS.
Passed == [RECEIVED          |-> "VALIDATED",
           VALIDATED         |-> "SOURCE_STAGED",
           SOURCE_STAGED     |-> "ARTIFACTS_BUILT",
           ARTIFACTS_BUILT   |-> "DELTA_BUILT",
           DELTA_BUILT       |-> "REMOTE_STAGED",
           REMOTE_STAGED     |-> "REMOTE_VERIFIED",
           REMOTE_VERIFIED   |-> "REMOTE_ACTIVE",
           REMOTE_ACTIVE     |-> "API_REOPENED",
           API_REOPENED      |-> "LOOPBACK_VERIFIED",
           LOOPBACK_VERIFIED |-> "PUBLIC_VERIFIED",
           PUBLIC_VERIFIED   |-> "SOURCE_COMMITTED",
           SOURCE_COMMITTED  |-> "SUCCEEDED"]

Failed == "FAILED_POST_REMOTE_ACTIVATION"
Blocking == "NEEDS_RECONCILIATION"
\* Of the terminal states publish() reaches these; nothing rejects a candidate
\* or fails it before activation, it is only retried.
Terminal == {"SUCCEEDED", "ROLLED_BACK", Blocking}
Active == {"REMOTE_ACTIVE", "API_REOPENED", "LOOPBACK_VERIFIED",
           "PUBLIC_VERIFIED", "SOURCE_COMMITTED"}
State == DOMAIN Passed \cup Terminal \cup {Failed}

Place == {"idle", "resuming", "working", "applying", "switching", "renaming",
          "activated", "restoring", "restored", "committing", "committed", "closing"}

TypeOK ==
    /\ journal \in [Candidate -> State \cup {"none"}]
    /\ source \in Release
    /\ production \in Release
    /\ {copies, staging} \subseteq [Host -> [Release -> {"absent", "partial", "ready"}]]
    /\ previous \in [Candidate -> Release \cup {NoRelease}]
    /\ results \in [Candidate -> {"none", "published", "ROLLED_BACK", Blocking}]
    /\ at \in Place
    /\ cand \in Candidate \cup {NoCandidate}
    /\ faults \in 0..MaxFaults
    /\ at = "idle" <=> cand = NoCandidate

Init ==
    /\ journal = [c \in Candidate |-> "none"]
    /\ source = Initial
    /\ production = Initial
    /\ copies = [h \in Host |-> [r \in Release |->
                    IF r = Initial THEN "ready" ELSE "absent"]]
    /\ staging = [h \in Host |-> [r \in Release |-> "absent"]]
    /\ previous = [c \in Candidate |-> NoRelease]
    /\ results = [c \in Candidate |-> "none"]
    /\ at = "idle"
    /\ cand = NoCandidate
    /\ faults = 0

Blocked == \E c \in Candidate : journal[c] = Blocking

Goto(place) == at' = place /\ UNCHANGED <<cand, faults>>

\* The run returns or raises, and the lock is released.
End == at' = "idle" /\ cand' = NoCandidate /\ UNCHANGED faults

Append(state) == journal' = [journal EXCEPT ![cand] = state]

\* The run's candidate is in this state and no effect of it is under way.
In(state) == at = "working" /\ journal[cand] = state

-----------------------------------------------------------------------------
(* The start of a run.                                                     *)

Receive(c) ==
    /\ at = "idle"
    /\ journal[c] = "none"
    /\ ~Blocked
    /\ journal' = [journal EXCEPT ![c] = "RECEIVED"]
    /\ at' = "resuming"
    /\ cand' = c
    /\ UNCHANGED <<source, production, copies, staging, previous, results, faults>>

\* A candidate the journal knows is not refused by the blocking state.
Reopen(c) ==
    /\ at = "idle"
    /\ journal[c] # "none"
    /\ at' = "resuming"
    /\ cand' = c
    /\ UNCHANGED <<disk, faults>>

Begin(c) == Receive(c) \/ Reopen(c)

\* A run that ended after its terminal transition may have left no result; that
\* of a rollback is only written while both hosts are still at its base.
Answer ==
    /\ at = "resuming"
    /\ journal[cand] \in Terminal
    /\ LET lost == results[cand] = "none"
           proven == \/ journal[cand] = Blocking
                     \/ /\ journal[cand] = "ROLLED_BACK"
                        /\ production = cand.base
                        /\ source = cand.base
       IN  results' = IF lost /\ proven
                      THEN [results EXCEPT ![cand] = journal[cand]] ELSE results
    /\ End
    /\ UNCHANGED <<journal, source, production, copies, staging, previous>>

ExpectedSource == IF journal[cand] = "SOURCE_COMMITTED" THEN cand.target ELSE cand.base

\* Variant: the comparison with the position of REMOTE_ACTIVE is strict.
ExpectedProductionStrict ==
    CASE journal[cand] = Failed -> {cand.base, cand.target}
      [] journal[cand] \in Active \ {"REMOTE_ACTIVE"} -> {cand.target}
      [] OTHER -> {cand.base}

ExpectedProduction ==
    CASE journal[cand] = Failed -> {cand.base, cand.target}
      [] journal[cand] \in Active -> {cand.target}
      [] OTHER -> {cand.base}

\* Variant: the pointers are not compared with the checkpoint.
ResumeUnchecked ==
    /\ at = "resuming"
    /\ journal[cand] \notin Terminal
    /\ Goto("working")
    /\ UNCHANGED disk

\* Variant: only the source is compared.
ResumeSourceOnly ==
    /\ at = "resuming"
    /\ journal[cand] \notin Terminal
    /\ IF source = ExpectedSource THEN Goto("working") ELSE End
    /\ UNCHANGED disk

Resume ==
    /\ at = "resuming"
    /\ journal[cand] \notin Terminal
    /\ IF source = ExpectedSource /\ production \in ExpectedProduction
       THEN Goto("working") ELSE End
    /\ UNCHANGED disk

-----------------------------------------------------------------------------
(* From RECEIVED to REMOTE_VERIFIED.                                       *)

\* Variant: the digest of a copy that exists is not compared with the delta.
VerifiedExists(host) == copies[host][cand.target] # "absent"

\* _verify_target: a copy that is not the delta's target is refused.
Verified(host) == copies[host][cand.target] = "ready"

StagingState == [source |-> "VALIDATED", production |-> "DELTA_BUILT"]

\* _apply_or_reuse: the copy of the base is written to the target's own path
\* and turned into the target there; Apply leaves the transition to Stage.
Stage(host) ==
    /\ In(StagingState[host])
    /\ \/ /\ copies[host][cand.target] = "absent"
          /\ copies' = [copies EXCEPT ![host][cand.target] = "partial"]
          /\ Goto("applying")
          /\ UNCHANGED journal
       \/ /\ copies[host][cand.target] # "absent"
          /\ IF Verified(host)
             THEN Append(Passed[journal[cand]]) /\ Goto("working")
             ELSE End /\ UNCHANGED journal
          /\ UNCHANGED copies
    /\ UNCHANGED <<source, production, staging, previous, results>>

Apply(host) ==
    /\ at = "applying"
    /\ journal[cand] = StagingState[host]
    /\ copies' = [copies EXCEPT ![host][cand.target] = "ready"]
    /\ Goto("working")
    /\ UNCHANGED <<journal, source, production, staging, previous, results>>

\* The states in which a run only checks what is there.
Checked == {"RECEIVED", "SOURCE_STAGED", "ARTIFACTS_BUILT", "REMOTE_STAGED",
            "REMOTE_ACTIVE", "API_REOPENED"}

Holds ==
    CASE journal[cand] = "SOURCE_STAGED" -> Verified("source")
      [] journal[cand] = "REMOTE_STAGED" -> Verified("production")
      [] journal[cand] = "REMOTE_ACTIVE" -> copies["production"][production] = "ready"
      [] journal[cand] = "API_REOPENED" -> production = cand.target
      [] OTHER -> TRUE

Check ==
    /\ at = "working"
    /\ journal[cand] \in Checked
    /\ IF Holds
       THEN Append(Passed[journal[cand]]) /\ Goto("working")
       ELSE End /\ UNCHANGED journal
    /\ UNCHANGED <<source, production, copies, staging, previous, results>>

-----------------------------------------------------------------------------
(* _replace_pointer: a staging file left behind is used if it is complete  *)
(* and refused if it is not.                                               *)

OpenPointer(host, content, place) ==
    /\ IF staging[host][content] = "partial" THEN End ELSE Goto(place)
    /\ staging' = IF staging[host][content] = "absent"
                  THEN [staging EXCEPT ![host][content] = "partial"] ELSE staging

MoveProduction(content) ==
    /\ production' = content
    /\ staging' = [staging EXCEPT !["production"][content] = "absent"]
    /\ UNCHANGED <<journal, source, copies, previous, results>>

-----------------------------------------------------------------------------
(* Activation, verification, commit.                                       *)

SavePrevious ==
    /\ In("REMOTE_VERIFIED")
    /\ IF previous[cand] \in {NoRelease, production}
       THEN /\ previous' = [previous EXCEPT ![cand] = production]
            /\ Goto("switching")
       ELSE End /\ UNCHANGED previous
    /\ UNCHANGED <<journal, source, production, copies, staging, results>>

Switch ==
    /\ at = "switching"
    /\ OpenPointer("production", cand.target, "renaming")
    /\ UNCHANGED <<journal, source, production, copies, previous, results>>

Rename ==
    /\ at = "renaming"
    /\ MoveProduction(cand.target)
    /\ Goto("activated")

Activated ==
    /\ at = "activated"
    /\ Append("REMOTE_ACTIVE")
    /\ Goto("working")
    /\ UNCHANGED <<source, production, copies, staging, previous, results>>

\* The public smoke passes or fails.
Smoke ==
    /\ In("LOOPBACK_VERIFIED")
    /\ Append("PUBLIC_VERIFIED") \/ Append(Failed)
    /\ Goto("working")
    /\ UNCHANGED <<source, production, copies, staging, previous, results>>

CommitSource ==
    /\ In("PUBLIC_VERIFIED")
    /\ OpenPointer("source", cand.target, "committing")
    /\ UNCHANGED <<journal, source, production, copies, previous, results>>

RenameSource ==
    /\ at = "committing"
    /\ source' = cand.target
    /\ staging' = [staging EXCEPT !["source"][cand.target] = "absent"]
    /\ Goto("committed")
    /\ UNCHANGED <<journal, production, copies, previous, results>>

Committed ==
    /\ at = "committed"
    /\ Append("SOURCE_COMMITTED")
    /\ Goto("working")
    /\ UNCHANGED <<source, production, copies, staging, previous, results>>

SaveResult ==
    /\ In("SOURCE_COMMITTED")
    /\ results[cand] = "none"
    /\ results' = [results EXCEPT ![cand] = "published"]
    /\ Goto("working")
    /\ UNCHANGED <<journal, source, production, copies, staging, previous>>

Succeed ==
    /\ In("SOURCE_COMMITTED")
    /\ results[cand] = "published"
    /\ Append("SUCCEEDED")
    /\ End
    /\ UNCHANGED <<source, production, copies, staging, previous, results>>

-----------------------------------------------------------------------------
(* After a failed smoke.                                                   *)

\* Variant: the rollback is journalled before it is done.
RestoreUndone ==
    /\ In(Failed)
    /\ Append("ROLLED_BACK")
    /\ Goto("closing")
    /\ UNCHANGED <<source, production, copies, staging, previous, results>>

Restore ==
    /\ In(Failed)
    /\ OpenPointer("production", previous[cand], "restoring")
    /\ UNCHANGED <<journal, source, production, copies, previous, results>>

RenameBack ==
    /\ at = "restoring"
    /\ MoveProduction(previous[cand])
    /\ Goto("restored")

ProveRestored ==
    /\ at = "restored"
    /\ IF copies["production"][production] = "ready"
       THEN Append("ROLLED_BACK") /\ Goto("closing")
       ELSE End /\ UNCHANGED journal
    /\ UNCHANGED <<source, production, copies, staging, previous, results>>

\* The rollback cannot be proven.
Block ==
    /\ In(Failed)
    /\ Append(Blocking)
    /\ Goto("closing")
    /\ UNCHANGED <<source, production, copies, staging, previous, results>>

SaveFailure ==
    /\ at = "closing"
    /\ results' = [results EXCEPT ![cand] = journal[cand]]
    /\ End
    /\ UNCHANGED <<journal, source, production, copies, staging, previous>>

-----------------------------------------------------------------------------
Complete(host, content) == staging' = [staging EXCEPT ![host][content] = "ready"]

\* The run is killed, or an operation of it fails and the exception leaves:
\* neither removes anything.  A staging file of the pointer may be complete.
Interrupt ==
    /\ at \in FaultPlaces \ {"idle"}
    /\ faults < MaxFaults
    /\ faults' = faults + 1
    /\ \/ UNCHANGED staging
       \/ at = "renaming" /\ Complete("production", cand.target)
       \/ at = "restoring" /\ Complete("production", previous[cand])
       \/ at = "committing" /\ Complete("source", cand.target)
    /\ at' = "idle"
    /\ cand' = NoCandidate
    /\ UNCHANGED <<journal, source, production, copies, previous, results>>

Forward ==
    \/ Check \/ SavePrevious \/ Switch \/ Rename \/ Activated \/ Smoke
    \/ CommitSource \/ RenameSource \/ Committed \/ SaveResult \/ Succeed
    \/ \E h \in Host : Stage(h) \/ Apply(h)

Backward == Restore \/ RenameBack \/ ProveRestored \/ Block \/ SaveFailure

Run == Answer \/ Resume \/ Forward \/ Backward

Next == Run \/ Interrupt \/ \E c \in Candidate : Begin(c)

Spec == Init /\ [][Next]_vars

\* A run goes on unless it is interrupted, and every candidate is presented
\* again with the same input.
FairSpec == Spec /\ WF_vars(Run) /\ \A c \in Candidate : SF_vars(Begin(c))
=============================================================================
