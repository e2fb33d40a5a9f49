--------------------------- MODULE ContentRetention ---------------------------
(***************************************************************************)
(* The daily retention pass on the production host                         *)
(* (v2/tools/rotate_content_state.py, mode "remote"), beside the processes *)
(* of RemoteActivation.                                                    *)
(*                                                                         *)
(* A pass holds the mutation lock.  The requests that it reads, the saved  *)
(* results and the check of a rollback's target are outside of the lock.   *)
(***************************************************************************)
EXTENDS RemoteActivationProperties, Sequences, SequencesExt

CONSTANTS
    Retention,          \* a pass, as a holder of the mutation lock
    MinimumReleases,    \* --minimum-releases
    MaxPasses           \* bound: passes

ASSUME RetentionAssumption ==
    /\ Retention \notin Proc \cup {NoProc}
    /\ MinimumReleases \in Nat /\ MinimumReleases >= 2 /\ MaxPasses \in Nat

VARIABLES
    byAge,      \* the installed databases, the oldest first
    candidates, \* files that the pass has still to unlink
    planned,    \* the active database of its plan
    listed,     \* the requests that its plan has read
    struck,     \* a pass took the verified target of a rollback it had not read
    passes

retentionVars == <<byAge, candidates, planned, listed, struck, passes>>
allVars == <<vars, retentionVars>>

File == {[kind |-> "database", name |-> d] : d \in Release}
        \cup {[kind |-> "staging", name |-> i] : i \in RequestId}

RetentionTypeOK ==
    /\ DiskTypeOK
    /\ lock \in Proc \cup {NoProc, Retention}
    /\ ToSet(byAge) = installed /\ Len(byAge) = Cardinality(installed)
    /\ candidates \subseteq File
    /\ planned \in Release \cup {NoRelease}
    /\ planned # NoRelease <=> lock = Retention
    /\ listed \subseteq RequestId /\ struck \in BOOLEAN
    /\ passes \in 0..MaxPasses

RetentionInit ==
    /\ Init
    /\ byAge = <<Initial>>
    /\ candidates = {} /\ planned = NoRelease /\ listed = {} /\ struck = FALSE
    /\ passes = 0

----------------------------------------------------------------------------
(* The plan.                                                               *)

Newest == {byAge[k] : k \in {k \in DOMAIN byAge : k > Len(byAge) - MinimumReleases}}

\* A request whose saved result proves a publication needs nothing any more.
Unresolved == {i \in RequestId : quarantine[i] # NoRequest /\ i \notin results}

\* What an unresolved request may still need: a publication its retained base
\* and its target, a rollback its target, a status nothing.
Needs(i) ==
    CASE quarantine[i].action = "publish" ->
           {quarantine[i].target} \cup ({basePointer[i]} \ {NoRelease})
      [] quarantine[i].action = "rollback" -> {quarantine[i].target}
      [] OTHER -> {}

\* Variant: what requests name is not kept.
ProtectedOld == {pointer} \cup Newest

Protected == {pointer} \cup Newest \cup UNION {Needs(i) : i \in Unresolved}

\* The databases that were installed first are older than the cutoff; a staging
\* database goes when its request has completed.
Candidates(age, stagings) ==
    {[kind |-> "database", name |-> byAge[k]] :
        k \in {k \in 1..age : byAge[k] \notin Protected}}
    \cup {[kind |-> "staging", name |-> i] : i \in stagings}

CompletedStagings == {i \in results : staging[i] # "absent"}

\* _acquire_lock, the marker, _verify_active and _remote_plan.  The lock is
\* not waited for; a latched host is left alone.
Plan ==
    /\ lock = NoProc
    /\ passes < MaxPasses /\ passes' = passes + 1
    /\ ~blocked /\ pointer \in installed
    /\ lock' = Retention
    /\ planned' = pointer
    /\ listed' = {i \in RequestId : quarantine[i] # NoRequest}
    /\ \E age \in 0..Len(byAge), stagings \in SUBSET CompletedStagings :
          candidates' = Candidates(age, stagings)
    /\ UNCHANGED <<pc, job, prev, crashes, disk, byAge, struck>>

----------------------------------------------------------------------------
(* The unlinks, and the second look at the active database.                *)

\* A rollback that has found database d and waits for the lock, by a request
\* that was written after the plan had read them.
Overlooked(d) ==
    \E p \in Proc : /\ pc[p] = "locking" /\ ~IsPublish(p)
                    /\ job[p].target = d /\ job[p].id \notin listed

Unlink ==
    /\ lock = Retention
    /\ \E file \in candidates :
          /\ candidates' = candidates \ {file}
          /\ IF file.kind = "database"
             THEN /\ installed' = installed \ {file.name}
                  /\ byAge' = Remove(byAge, file.name)
                  /\ struck' = (struck \/ Overlooked(file.name))
                  /\ UNCHANGED staging
             ELSE /\ staging' = [staging EXCEPT ![file.name] = "absent"]
                  /\ UNCHANGED <<installed, byAge, struck>>
    /\ UNCHANGED <<pc, job, prev, lock, crashes, pointer, pointerTemp, quarantine, basePointer,
                   installTemp, cancelled, blocked, results, planned, listed, passes>>

\* The pass ends, fails (a file changed after planning) or is killed.
EndPass ==
    /\ lock = Retention
    /\ lock' = NoProc /\ candidates' = {} /\ planned' = NoRelease /\ listed' = {}
    /\ UNCHANGED <<pc, job, prev, crashes, disk, byAge, struck, passes>>

\* An activation process that installs a database makes it the newest.
ActivationStep ==
    /\ Next
    /\ byAge' = IF installed' = installed THEN byAge
                ELSE byAge \o SetToSeq(installed' \ installed)
    /\ UNCHANGED <<candidates, planned, listed, struck, passes>>

RetentionNext == ActivationStep \/ Plan \/ Unlink \/ EndPass
RetentionSpec == RetentionInit /\ [][RetentionNext]_allVars

----------------------------------------------------------------------------
\* The active database of a plan is still active when the pass ends, and the
\* databases of active.json and of the pointer a running publication will put
\* back are there, while releases are installed, undone and rolled back and
\* requests arrive between the plan and its unlinks.  Only one order of steps
\* ends otherwise: a rollback's request is written after the plan has read the
\* requests, its target is verified outside of the lock, and the pass removes it.
UndoneIsThere ==
    struck \/ /\ pointer \in installed
              /\ planned # NoRelease => pointer = planned
              /\ \A p \in Proc : pc[p] \in Activated => prev[p] \in installed

\* The rotator never removes databases referenced by unresolved remote requests
\* (v2/docs/content-retention-2026-09-16.md).
ReferencedStays ==
    [][\A i \in Unresolved : Needs(i) \cap installed \subseteq installed']_allVars
=============================================================================
