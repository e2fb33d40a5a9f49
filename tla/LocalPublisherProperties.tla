------------------------ MODULE LocalPublisherProperties ------------------------
(***************************************************************************)
(* What LocalPublisher must keep true across interrupted and repeated runs *)
(* of several candidates.                                                  *)
(***************************************************************************)
EXTENDS LocalPublisher

\* Both pointers name complete, verified databases, although a run may have
\* been interrupted while it wrote one.
PointersComplete ==
    copies["source"][source] = "ready" /\ copies["production"][production] = "ready"

\* When production is ahead of the source, exactly one candidate accounts for
\* it: the journal holds it between its activation and its end, and no other
\* candidate has moved either pointer meanwhile.
InFlight == {"REMOTE_VERIFIED", Failed, Blocking} \cup (Active \ {"SOURCE_COMMITTED"})
OneAccountsForProduction ==
    production # source =>
        \E c \in Candidate : /\ c.base = source
                             /\ c.target = production
                             /\ journal[c] \in InFlight

\* What is reported is what happened: success only when the source followed,
\* rollback only when it was proven, and SUCCEEDED never without a report.
ReportsTrue ==
    \A c \in Candidate :
        /\ results[c] = "published" => journal[c] \in {"SOURCE_COMMITTED", "SUCCEEDED"}
        /\ results[c] \in {"ROLLED_BACK", Blocking} => journal[c] = results[c]
        /\ journal[c] = "SUCCEEDED" => results[c] = "published"

\* A release that was rolled back is active nowhere, now or later.
RolledBackStaysDown ==
    \A c \in Candidate : journal[c] = "ROLLED_BACK" => c.target \notin {source, production}

\* A release that succeeded leaves a host only for one that was built on it.
SucceededStays ==
    [][\A c \in Candidate : journal[c] = "SUCCEEDED" =>
        /\ production = c.target /\ production' # production
               => \E d \in Candidate : d.base = c.target /\ d.target = production'
        /\ source = c.target /\ source' # source
               => \E d \in Candidate : d.base = c.target /\ d.target = source']_vars

-----------------------------------------------------------------------------
(* What a run knows, as an inductive invariant.                            *)

\* A place belongs to one state of the journal, or to a few.
PlaceFits ==
    /\ at = "resuming" => journal[cand] # "none"
    /\ at = "working" => journal[cand] \in DOMAIN Passed \cup {Failed}
    /\ at = "applying" => journal[cand] \in {"VALIDATED", "DELTA_BUILT"}
    /\ at \in {"switching", "renaming", "activated"} => journal[cand] = "REMOTE_VERIFIED"
    /\ at \in {"committing", "committed"} => journal[cand] = "PUBLIC_VERIFIED"
    /\ at \in {"restoring", "restored"} => journal[cand] = Failed
    /\ at = "closing" => journal[cand] \in {"ROLLED_BACK", Blocking}

\* Once a run has compared the pointers, they are where its checkpoint or its
\* own last effect leaves them.
PointersFit ==
    at \notin {"idle", "resuming", "closing"} =>
        /\ source = IF at = "committed" THEN cand.target ELSE ExpectedSource
        /\ at \notin {"activated", "restored"} => production \in ExpectedProduction
        /\ at = "activated" => production = cand.target
        /\ at = "restored" => production = cand.base

\* Copies that the journal says were verified are complete, and so is the copy
\* a rollback goes back to.
CopiesVerified ==
    \A c \in Candidate :
        /\ journal[c] \in (DOMAIN Passed \ {"RECEIVED", "VALIDATED"}) \cup {Failed} =>
               copies["source"][c.target] = "ready"
        /\ journal[c] \in {"REMOTE_STAGED", "REMOTE_VERIFIED", Failed} \cup Active =>
               copies["production"][c.base] = "ready" /\ copies["production"][c.target] = "ready"

\* The pointer kept for a rollback is the candidate's base.
PreviousKept ==
    /\ \A c \in Candidate :
          /\ previous[c] \in {NoRelease, c.base}
          /\ journal[c] \in Active \cup {Failed} => previous[c] = c.base
    /\ at \in {"switching", "renaming", "activated"} => previous[cand] = cand.base

\* Wherever a run stands, and whatever it was interrupted at, its place, the
\* pointers, the copies and the retained pointer agree with the journal.
IInv ==
    /\ PlaceFits /\ PointersFit /\ CopiesVerified /\ PreviousKept
    /\ PointersComplete /\ OneAccountsForProduction /\ ReportsTrue /\ RolledBackStaysDown

-----------------------------------------------------------------------------
\* Both pointers move only as a pair of hosts with one publication at a time.
Pair == INSTANCE PairedRelease
ImplementsPair == Pair!Spec

\* v2/README.md says that retries with the same input "recover crashes before
\* activation, after activation, ...".  A run that was killed after it replaced
\* the production pointer and before it journalled REMOTE_ACTIVE leaves a
\* pointer that every retry finds different from its checkpoint.
CrashRecovers == \A c \in Candidate : journal[c] # "none" ~> journal[c] \in Terminal
=============================================================================
