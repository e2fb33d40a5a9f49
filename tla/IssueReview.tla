----------------------------- MODULE IssueReview -----------------------------
(***************************************************************************)
(* The owner's corrections of published issues: the queue of the editor    *)
(* service (kx/src/radar_kx/issue_reviews.py), the worker that takes them  *)
(* from the control host to publish_candidate                              *)
(* (v2/tools/process_issue_reviews.py), and the daily publication beside   *)
(* it.                                                                     *)
(*                                                                         *)
(* A release is the sequence of the publications that made it.  A review   *)
(* stands for the composition it was made for, its labels and the cards it *)
(* removes; the composition of an issue is the set of corrections of that  *)
(* issue that a release contains.  publish_candidate is reduced to what    *)
(* the module Publication shows of it: it holds a lock, its request may    *)
(* arrive late or never, and it may end after each of its effects.         *)
(***************************************************************************)
EXTENDS Naturals, Sequences, FiniteSets, SequencesExt

CONSTANTS
    Reviews,        \* corrections an owner may confirm
    IssueOf,        \* the issue of each, [Reviews -> issues]
    MadeFor,        \* the composition it is made for, [Reviews -> SUBSET Reviews]
    BuildLimit,     \* builds for one confirmation (3 in the code)
    MaxRetries,     \* bound: repeated confirmations of one review
    MaxDaily,       \* bound: daily candidates
    MaxFaults       \* bound: lost calls, failed builds and killed processes

ASSUME ReviewAssumption ==
    /\ IsFiniteSet(Reviews) /\ "daily" \notin Reviews
    /\ DOMAIN IssueOf = Reviews /\ MadeFor \in [Reviews -> SUBSET Reviews]
    /\ {BuildLimit, MaxRetries, MaxDaily, MaxFaults} \subseteq Nat

VARIABLES
    confirmed,      \* reviews whose preview was confirmed and not yet stored
    status, retry,  \* the queue's entries
    worker,         \* the run that holds worker.lock
    attempts,       \* build directories of each review
    build,          \* build.json of each
    source,         \* the source's active release
    production,     \* production's active release
    receipts,       \* requests/<candidate>.base-pointer.json
    inFlight,       \* requests that production may still act on
    reports,        \* results/<candidate>.json
    finished,       \* result.json of each review
    publication,    \* publish_candidate in progress
    daily,          \* daily candidates built so far
    faults

queueVars == <<confirmed, status, retry>>
buildVars == <<attempts, build, finished>>
hostVars == <<source, production, receipts, inFlight, reports>>
reviewVars == <<queueVars, worker, buildVars, hostVars, publication, daily, faults>>

----------------------------------------------------------------------------
Active == {"queued", "running"}
NoBuild == [base |-> "none"]
NoPublication == [step |-> "none"]
NoWorker == [step |-> "none"]

\* A candidate: its name <<review, attempt>> or <<"daily", number>>, and the
\* release it was built from.
After(c) == Append(c.base, c.name)
Composition(release, issue) ==
    {r \in Reviews : IssueOf[r] = issue /\ \E k \in DOMAIN release : release[k][1] = r}

IsCandidate(c) == c.name[1] \in Reviews \cup {"daily"} /\ c.name[2] \in Nat

ReviewTypeOK ==
    /\ confirmed \subseteq Reviews
    /\ status \in [Reviews -> {"absent", "queued", "running", "published", "failed"}]
    /\ retry \in [Reviews -> 0..MaxRetries]
    /\ attempts \in [Reviews -> 0..(BuildLimit * (MaxRetries + 1))]
    /\ \A r \in Reviews : build[r] # NoBuild => IsCandidate(build[r])
    /\ \A c \in receipts \cup inFlight \cup reports : IsCandidate(c)
    /\ reports \subseteq receipts /\ inFlight \subseteq receipts
    /\ finished \subseteq Reviews
    /\ daily \in 0..MaxDaily /\ faults \in 0..MaxFaults

ReviewInit ==
    /\ confirmed = {}
    /\ status = [r \in Reviews |-> "absent"] /\ retry = [r \in Reviews |-> 0]
    /\ worker = NoWorker
    /\ attempts = [r \in Reviews |-> 0] /\ build = [r \in Reviews |-> NoBuild]
    /\ finished = {}
    /\ source = <<>> /\ production = <<>>
    /\ receipts = {} /\ inFlight = {} /\ reports = {}
    /\ publication = NoPublication /\ daily = 0 /\ faults = 0

ReviewFault == faults < MaxFaults /\ faults' = faults + 1

----------------------------------------------------------------------------
(* The editor service.                                                     *)

\* issue_review reads the report and the public issue, and preview compares
\* both with what the owner saw.
Preview(r) ==
    /\ status[r] \in {"absent", "failed"} /\ r \notin confirmed
    /\ Composition(production, IssueOf[r]) = MadeFor[r]
    /\ confirmed' = confirmed \cup {r}
    /\ UNCHANGED <<status, retry, worker, buildVars, hostVars, publication, daily, faults>>

\* ReviewQueue.submit under its lock: one correction of an issue at a time, and
\* a failed one starts again with more builds.
Submit(r) ==
    /\ r \in confirmed /\ confirmed' = confirmed \ {r}
    /\ retry[r] < MaxRetries \/ status[r] # "failed"
    /\ IF \E q \in Reviews : IssueOf[q] = IssueOf[r] /\ status[q] \in Active
       THEN UNCHANGED <<status, retry>>
       ELSE /\ status' = [status EXCEPT ![r] = "queued"]
            /\ retry' = [retry EXCEPT ![r] = IF status[r] = "failed" THEN @ + 1 ELSE @]
    /\ UNCHANGED <<worker, buildVars, hostVars, publication, daily, faults>>

\* ReviewQueue.update: published and failed are final.
Report(r, new) ==
    status' = [status EXCEPT ![r] = IF @ \in {"published", "failed"} THEN @ ELSE new]

----------------------------------------------------------------------------
(* The worker.  A call of the editor that fails while an error is reported *)
(* ends the run, as a kill does.                                           *)

BeginReview ==
    /\ worker = NoWorker
    /\ \E r \in Reviews : status[r] \in Active
    /\ \E jobs \in SetToSeqs({r \in Reviews : status[r] \in Active}) :
          worker' = [step |-> "next", jobs |-> jobs]
    /\ UNCHANGED <<queueVars, buildVars, hostVars, publication, daily, faults>>

Job == Head(worker.jobs)
Continue == worker' = IF Len(worker.jobs) > 1 THEN [step |-> "next", jobs |-> Tail(worker.jobs)]
                      ELSE NoWorker

TakeReview ==
    /\ worker.step = "next"
    /\ Report(Job, "running")
    /\ worker' = [worker EXCEPT !.step = IF Job \in finished THEN "finish" ELSE "decide"]
    /\ UNCHANGED <<confirmed, retry, buildVars, hostVars, publication, daily, faults>>

\* A package is used again when its request was begun or its base is current.
StillValid(r) ==
    build[r] # NoBuild /\ (build[r] \in receipts \/ build[r].base = source)

Decide ==
    /\ worker.step = "decide"
    /\ worker' = IF StillValid(Job) THEN [worker EXCEPT !.step = "publish"]
                 ELSE [step |-> "validate", jobs |-> worker.jobs, pointer |-> source]
    /\ UNCHANGED <<queueVars, buildVars, hostVars, publication, daily, faults>>

\* Variant: the confirmed composition is not compared again.
ApprovedAlways(r, local) == TRUE

\* validate_selection for the public issue, and the local one must agree.
Approved(r, local) ==
    /\ Composition(production, IssueOf[r]) = MadeFor[r]
    /\ Composition(local, IssueOf[r]) = MadeFor[r]

Validate ==
    /\ worker.step = "validate"
    /\ IF Approved(Job, worker.pointer) /\ attempts[Job] < BuildLimit * (retry[Job] + 1)
       THEN worker' = [worker EXCEPT !.step = "build"] /\ UNCHANGED status
       ELSE Report(Job, "failed") /\ Continue
    /\ UNCHANGED <<confirmed, retry, buildVars, hostVars, publication, daily, faults>>

Build ==
    /\ worker.step = "build"
    /\ attempts' = [attempts EXCEPT ![Job] = @ + 1]
    /\ \/ /\ build' = [build EXCEPT ![Job] =
                [name |-> <<Job, attempts[Job] + 1>>, base |-> worker.pointer]]
          /\ worker' = [step |-> "publish", jobs |-> worker.jobs]
          /\ UNCHANGED faults
       \/ ReviewFault /\ Continue /\ UNCHANGED build
    /\ UNCHANGED <<queueVars, finished, hostVars, publication, daily>>

Publish ==
    /\ worker.step = "publish"
    /\ publication = NoPublication
    /\ publication' = [step |-> "begin", candidate |-> build[Job]]
    /\ worker' = [worker EXCEPT !.step = "publishing"]
    /\ UNCHANGED <<queueVars, buildVars, hostVars, daily, faults>>

InPublication == publication # NoPublication /\ publication.candidate = build[Job]

\* What publish_candidate returned, or that it raised.
Returned ==
    /\ worker.step = "publishing"
    /\ ~InPublication
    /\ IF build[Job] \in reports
       THEN finished' = finished \cup {Job} /\ worker' = [worker EXCEPT !.step = "finish"]
       ELSE Continue /\ UNCHANGED finished
    /\ UNCHANGED <<queueVars, attempts, build, hostVars, publication, daily, faults>>

FinishReview ==
    /\ worker.step = "finish"
    /\ Report(Job, "published") /\ Continue
    /\ UNCHANGED <<confirmed, retry, buildVars, hostVars, publication, daily, faults>>

\* The worker is killed, with the publication that it runs.
WorkerEnds ==
    /\ worker # NoWorker
    /\ ReviewFault
    /\ worker' = NoWorker
    /\ publication' = IF worker.step = "publishing" /\ InPublication
                      THEN NoPublication ELSE publication
    /\ UNCHANGED <<queueVars, buildVars, hostVars, daily>>

----------------------------------------------------------------------------
(* publish_candidate, for a correction and for the daily issue.            *)

\* The daily run builds from the source as it is, under the same lock.
DailyPublishes ==
    /\ publication = NoPublication
    /\ daily < MaxDaily /\ daily' = daily + 1
    /\ publication' = [step |-> "begin", candidate |-> [name |-> <<"daily", daily + 1>>,
                                                        base |-> source]]
    /\ UNCHANGED <<queueVars, worker, buildVars, hostVars, faults>>

\* A run that was lost is repeated with the same candidate.
DailyRepeats ==
    /\ publication = NoPublication
    /\ \E c \in receipts \ reports :
          /\ c.name[1] = "daily"
          /\ publication' = [step |-> "begin", candidate |-> c]
    /\ UNCHANGED <<queueVars, worker, buildVars, hostVars, daily, faults>>

Candidate == publication.candidate
EndPublication == publication' = NoPublication

\* A saved result is replayed; another base than the source's pointer, or than
\* the one retained before the source moved to this very candidate, is refused.
OpenRequest ==
    /\ publication.step = "begin"
    /\ IF Candidate \notin reports
          /\ \/ source = Candidate.base
             \/ source = After(Candidate) /\ Candidate \in receipts
       THEN /\ receipts' = receipts \cup {Candidate}
            /\ publication' = [publication EXCEPT !.step = "send"]
       ELSE EndPublication /\ UNCHANGED receipts
    /\ UNCHANGED <<queueVars, worker, buildVars, source, production, inFlight, reports,
                   daily, faults>>

Send ==
    /\ publication.step = "send"
    /\ inFlight' = inFlight \cup {Candidate}
    /\ publication' = [publication EXCEPT !.step = "wait"]
    /\ UNCHANGED <<queueVars, worker, buildVars, source, production, receipts, reports,
                   daily, faults>>

\* Production acts on a request now or after its caller has given up: it moves
\* only from the exact base, and a repeated request finds itself published.
ProductionActs(c) ==
    /\ c \in inFlight
    /\ production = c.base
    /\ production' = After(c)
    /\ UNCHANGED <<queueVars, worker, buildVars, source, receipts, inFlight, reports,
                   publication, daily, faults>>

Vanish(c) ==
    /\ c \in inFlight
    /\ production # c.base
    /\ publication.step = "wait" => publication.candidate # c
    /\ inFlight' = inFlight \ {c}
    /\ UNCHANGED <<queueVars, worker, buildVars, source, production, receipts, reports,
                   publication, daily, faults>>

Answered ==
    /\ publication.step = "wait"
    /\ production = After(Candidate)
    /\ publication' = [publication EXCEPT !.step = "commit"]
    /\ UNCHANGED <<queueVars, worker, buildVars, hostVars, daily, faults>>

\* Production refuses another base.
Refused ==
    /\ publication.step = "wait"
    /\ production \notin {Candidate.base, After(Candidate)}
    /\ EndPublication
    /\ UNCHANGED <<queueVars, worker, buildVars, hostVars, daily, faults>>

Commit ==
    /\ publication.step = "commit"
    /\ source' = After(Candidate)
    /\ publication' = [publication EXCEPT !.step = "report"]
    /\ UNCHANGED <<queueVars, worker, buildVars, production, receipts, inFlight, reports,
                   daily, faults>>

SaveReport ==
    /\ publication.step = "report"
    /\ reports' = reports \cup {Candidate}
    /\ EndPublication
    /\ UNCHANGED <<queueVars, worker, buildVars, source, production, receipts, inFlight,
                   daily, faults>>

\* The connection, the process or a file fails.
PublicationFails ==
    /\ publication # NoPublication
    /\ ReviewFault
    /\ EndPublication
    /\ UNCHANGED <<queueVars, worker, buildVars, hostVars, daily>>

----------------------------------------------------------------------------
WorkerStep == BeginReview \/ TakeReview \/ Decide \/ Validate \/ Build \/ Publish \/ Returned \/ FinishReview
PublisherStep == OpenRequest \/ Send \/ Answered \/ Refused \/ Commit \/ SaveReport

ReviewNext ==
    \/ \E r \in Reviews : Preview(r) \/ Submit(r)
    \/ WorkerStep \/ PublisherStep
    \/ DailyPublishes \/ DailyRepeats
    \/ \E c \in inFlight : ProductionActs(c) \/ Vanish(c)
    \/ WorkerEnds \/ PublicationFails

ReviewSpec == ReviewInit /\ [][ReviewNext]_reviewVars

\* cron starts the worker every two minutes; a started run and a started
\* publication go on; a request that arrived is answered; the daily issue leaves
\* the lock free for most of the day.
ReviewFairness ==
    /\ WF_reviewVars(WorkerStep) /\ SF_reviewVars(Publish)
    /\ WF_reviewVars(PublisherStep)
    /\ WF_reviewVars(DailyRepeats)
    /\ WF_reviewVars(\E c \in inFlight : ProductionActs(c))
ReviewFairSpec == ReviewSpec /\ ReviewFairness

----------------------------------------------------------------------------
\* A correction is made to exactly the composition the owner approved, and only
\* once, however often it is confirmed, built, sent and repeated, and whatever
\* is published between its validation and its arrival.
AppliedAsApproved ==
    \A k \in DOMAIN production :
        LET r == production[k][1] IN
        r \in Reviews => Composition(SubSeq(production, 1, k - 1), IssueOf[r]) = MadeFor[r]

\* The status tells the owner the truth: a published correction is part of both
\* hosts' releases, and a failed one is in neither and will never arrive.
StatusTrue ==
    \A r \in Reviews :
        LET Holds(release) == r \in Composition(release, IssueOf[r]) IN
        /\ status[r] = "published" => Holds(source) /\ Holds(production)
        /\ status[r] = "failed" =>
              ~Holds(production) /\ \A c \in inFlight : c.name[1] # r

\* Repetitions replay the saved package, including the recovery of the local
\* pointer after the remote activation (v2/docs/adr-0022): a correction that
\* production has is reported as published in the end.
AppliedIsReported ==
    \A r \in Reviews :
        r \in Composition(production, IssueOf[r]) ~> status[r] = "published"
=============================================================================
