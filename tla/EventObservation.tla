---------------------------- MODULE EventObservation ----------------------------
(***************************************************************************)
(* The observation of repeated events after an issue is published.  The    *)
(* publisher only starts a detached worker per date; the worker fetches    *)
(* the issue that is served, asks a model about its pairs in passes over a *)
(* cache, saves every report locally and on the server, and tells the      *)
(* owner.  Workers die, uploads time out and land later, and the owner     *)
(* corrects issues meanwhile.  What is not finished is found again by the  *)
(* launches of the next days from the files that are there.                *)
(***************************************************************************)
EXTENDS Integers, FiniteSets, SequencesExt

CONSTANTS
  Dates,           \* dates of earlier issues
  Today,           \* a later date, whose own observation is like theirs
  Large,           \* dates whose issue has more pairs than are ever asked about (MAX_PAIRS)
  Batches,         \* batches of the pairs of an issue that are asked about
  MaxCalls,        \* batches a pass may ask the model about (MAX_CALLS)
  MaxPasses,       \* passes of one worker over the batches
  MaxReports,      \* bound: reports made of a version of a large issue before a launch
  MaxCorrections,  \* bound: corrections of published issues
  MaxFaults        \* bound: deaths, timeouts and unusable answers

ASSUME ObservationAssumption ==
  /\ Dates \subseteq Nat /\ IsFiniteSet(Dates)
  /\ Today \in Nat /\ \A d \in Dates : d < Today
  /\ Large \subseteq Dates
  /\ Batches \in Nat \ {0} /\ MaxCalls \in Nat \ {0} /\ MaxPasses \in Nat \ {0}

VARIABLES
  version,      \* version of each date's issue that is served
  owed,         \* dates whose correction is published and whose launch has not come yet
  jobs,         \* jobs/<date>.json: "pending" or "done"
  spawned,      \* dates with a process that has not tried the lock of its date
  worker,       \* the process that holds each date's lock
  latest,       \* <issueHash>.json of the local root
  made,         \* reports made of each version, their generatedAt
  cache,        \* batches of each version whose answer is in the cache
  receipts,     \* receipts/: reports the server confirmed
  told,         \* notifications/: reports the owner was sent
  served,       \* <issueHash>.json of the server
  late,         \* uploads the worker gave up that the server has yet to handle
  corrections, faults   \* counters of the bounds

obsVars == <<version, owed, jobs, spawned, worker, latest, made, cache, receipts, told,
             served, late, corrections, faults>>

Keys == Dates \X {1, 2}
NoReport == [status |-> "none"]
NoWorker == [pc |-> "idle"]
ReportOf(k, n, status, answered) ==
  [key |-> k, generated |-> n, status |-> status, answered |-> answered]

\* The issues are published, and a launch followed, whose process may have died at once;
\* before a launch there is no job, which is the same as one that is done.
ObservationInit ==
  /\ version = [d \in Dates |-> 1] /\ owed = {}
  /\ jobs \in [Dates -> {"pending", "done"}]
  /\ spawned \in SUBSET {d \in Dates : jobs[d] = "pending"}
  /\ worker = [d \in Dates |-> NoWorker]
  /\ latest = [k \in Keys |-> NoReport]
  /\ made = [k \in Keys |-> 0] /\ cache = [k \in Keys |-> 0]
  /\ receipts = {} /\ told = {}
  /\ served = [k \in Keys |-> NoReport]
  /\ late = {} /\ corrections = 0 /\ faults = 0

Fault == faults < MaxFaults /\ faults' = faults + 1
NoFault == UNCHANGED faults

-----------------------------------------------------------------------------
(***************************************************************************)
(* launch_observation.                                                     *)
(***************************************************************************)
\* A version whose latest report is complete, confirmed by the server, and told.
Settled(k) ==
  /\ latest[k].status = "complete"
  /\ latest[k] \in receipts /\ latest[k] \in told

Untold(r) == r.status # "pending" /\ r \notin told

\* A launch finds a report that is not complete, not confirmed or not told.
Unfinished(k) ==
  /\ latest[k] # NoReport
  /\ latest[k].status # "complete" \/ latest[k] \notin receipts \/ Untold(latest[k])

\* Earlier dates with such a report, of whatever version of the issue, or with a job
\* that is still pending.
Backlog(day) ==
  {d \in Dates : d < day /\ (jobs[d] = "pending" \/ \E k \in Keys : k[1] = d /\ Unfinished(k))}

\* Variant: one old date with every launch.
ResumedOne(day) == LET old == SetToSortSeq(Backlog(day), <) IN {old[i] : i \in DOMAIN old \cap 1..1}

\* The two oldest.
Resumed(day) == LET old == SetToSortSeq(Backlog(day), <) IN {old[i] : i \in DOMAIN old \cap 1..2}

LaunchFor(day) ==
  LET days == ({day} \cap Dates) \cup Resumed(day)
  IN  /\ jobs' = [d \in Dates |-> IF d \in days THEN "pending" ELSE jobs[d]]
      /\ spawned' = spawned \cup days

\* Every run of the daily launcher ends with it, the replay of a complete date included.
\* The earlier dates stay in its window of 45 days, and the workers of the day before
\* are over: their passes have limits (MAX_CALLS, RUN_SECONDS).
DailyLaunch ==
  /\ spawned = {} /\ \A d \in Dates : worker[d] = NoWorker
  /\ LaunchFor(Today)
  /\ UNCHANGED <<version, owed, worker, latest, made, cache, receipts, told, served, late,
                 corrections, faults>>

\* process_issue_reviews publishes a correction, says so to the editor, and launches ...
Correct(d) ==
  /\ version[d] = 1 /\ corrections < MaxCorrections
  /\ version' = [version EXCEPT ![d] = 2]
  /\ owed' = owed \cup {d}
  /\ corrections' = corrections + 1
  /\ UNCHANGED <<jobs, spawned, worker, latest, made, cache, receipts, told, served, late, faults>>

LaunchAfterCorrection(d) ==
  /\ d \in owed /\ owed' = owed \ {d}
  /\ LaunchFor(d)
  /\ UNCHANGED <<version, worker, latest, made, cache, receipts, told, served, late,
                 corrections, faults>>

\* ... unless it dies in between: a review that is published is not taken up again.
ReviewerDies(d) ==
  /\ d \in owed /\ owed' = owed \ {d} /\ Fault
  /\ UNCHANGED <<version, jobs, spawned, worker, latest, made, cache, receipts, told, served,
                 late, corrections>>

-----------------------------------------------------------------------------
(***************************************************************************)
(* The worker of a date.                                                   *)
(***************************************************************************)
At(d, pc) == worker[d].pc = pc
Become(d, w) == worker' = [worker EXCEPT ![d] = w]
GoTo(d, pc) == Become(d, [worker[d] EXCEPT !.pc = pc])
KeyOf(d) == worker[d].report.key

\* The lock of the date is taken without waiting; without it the process ends.  The
\* issue that is served is fetched: a complete report of its version is delivered again,
\* otherwise an empty one says that the check has begun.  Beyond its bound a large issue is
\* one that could not be fetched.
BeginObservation(d) ==
  LET k == <<d, version[d]>>
      kept == latest[k].status = "complete"
  IN  /\ d \in spawned /\ spawned' = spawned \ {d}
      /\ \/ ~At(d, "idle") /\ UNCHANGED <<jobs, made, worker>>
         \/ /\ At(d, "idle") /\ jobs' = [jobs EXCEPT ![d] = "pending"]
            /\ \/ /\ kept /\ UNCHANGED made
                  /\ Become(d, [pc |-> "save", stage |-> "final", report |-> latest[k], pass |-> 0])
               \/ /\ ~kept /\ (d \in Large => made[k] < MaxReports)
                  /\ made' = [made EXCEPT ![k] = @ + 1]
                  /\ Become(d, [pc |-> "save", stage |-> "base", pass |-> 0,
                                report |-> ReportOf(k, made[k] + 1, "pending", 0)])
               \/ /\ d \in Large /\ made[k] >= MaxReports
                  /\ UNCHANGED <<made, worker>>
      /\ UNCHANGED <<version, owed, latest, cache, receipts, told, served, late,
                     corrections, faults>>

\* install_observation, under its own lock on the server.
\* Variant: whatever is of the version that is served is installed.
InstallableAnyway(r) == version[r.key[1]] = r.key[2]

Installable(r) ==
  /\ version[r.key[1]] = r.key[2]
  /\ served[r.key] # NoReport => served[r.key].generated <= r.generated

\* What fails in the passes ends them: the report at hand is saved once more, as an error.
PassesFail(d) == Become(d, [worker[d] EXCEPT !.pc = "save", !.stage = "final", !.report.status = "error"])

\* A failed upload of another report ends the worker.
UploadFails(d) ==
  IF worker[d].stage = "pass" THEN PassesFail(d) ELSE Become(d, NoWorker)

\* save: the report and the latest file of its version are written, the report is
\* uploaded, the answer is kept as a receipt.  The answer, or the rest of the steps, may
\* be lost, and the upload may land late or never.
Save(d) ==
  LET r == worker[d].report
  IN  /\ At(d, "save")
      /\ latest' = [latest EXCEPT ![r.key] = r]
      /\ \/ /\ Installable(r) /\ served' = [served EXCEPT ![r.key] = r]
            /\ receipts' = receipts \cup {r}
            /\ GoTo(d, "job") /\ NoFault /\ UNCHANGED late
         \/ /\ ~Installable(r) /\ UploadFails(d)
            /\ NoFault /\ UNCHANGED <<receipts, served, late>>
         \/ /\ Fault /\ late' = late \cup {r} /\ UploadFails(d)
            /\ UNCHANGED <<receipts, served>>
      /\ UNCHANGED <<version, owed, jobs, spawned, made, cache, told, corrections>>

UploadLands ==
  /\ \E r \in late :
       /\ late' = late \ {r}
       /\ served' = IF Installable(r) THEN [served EXCEPT ![r.key] = r] ELSE served
  /\ UNCHANGED <<version, owed, jobs, spawned, worker, latest, made, cache, receipts, told,
                 corrections, faults>>

\* The last write of save is the job, which is done with a complete report.
WriteJob(d) ==
  LET w == worker[d]
      complete == w.report.status = "complete"
  IN  /\ At(d, "job")
      /\ jobs' = [jobs EXCEPT ![d] = IF complete THEN "done" ELSE "pending"]
      /\ CASE w.stage = "final" -> GoTo(d, "notify")
           [] w.stage = "pass" /\ (complete \/ w.pass = MaxPasses) ->
                Become(d, [w EXCEPT !.pc = "save", !.stage = "final"])
           [] OTHER -> GoTo(d, "analyze")
      /\ UNCHANGED <<version, owed, spawned, latest, made, cache, receipts, told, served, late,
                     corrections, faults>>

\* One pass: batches of the cache cost nothing; an answer that is missing or cannot be
\* used leaves its batch open, as the limit of calls does.  The cards of the days before
\* may be unreadable.
Analyze(d) ==
  LET w == worker[d]
      k == KeyOf(d)
      reach == Min({cache[k] + MaxCalls, Batches})
  IN  /\ At(d, "analyze")
      /\ \/ \E n \in cache[k]..reach :
              /\ IF n = reach THEN NoFault ELSE Fault
              /\ cache' = [cache EXCEPT ![k] = n]
              /\ made' = [made EXCEPT ![k] = @ + 1]
              /\ Become(d, [pc |-> "save", stage |-> "pass", pass |-> w.pass + 1,
                   report |-> ReportOf(k, made[k] + 1,
                                CASE n = 0 -> "error"
                                  [] n = Batches /\ d \notin Large -> "complete"
                                  [] OTHER -> "partial", n)])
         \/ w.stage = "base" /\ Fault /\ PassesFail(d) /\ UNCHANGED <<cache, made>>
      /\ UNCHANGED <<version, owed, jobs, spawned, latest, receipts, told, served, late, corrections>>

\* The owner is told of a result once; a message that fails is left to a later day.
Notify(d) ==
  LET r == worker[d].report
  IN  /\ At(d, "notify")
      /\ \/ told' = told \cup {r} /\ NoFault
         \/ r \notin told /\ Fault /\ UNCHANGED told
      /\ Become(d, NoWorker)
      /\ UNCHANGED <<version, owed, jobs, spawned, latest, made, cache, receipts, served, late,
                     corrections>>

WorkerDies(d) ==
  /\ ~At(d, "idle") /\ Fault
  /\ Become(d, NoWorker)
  /\ UNCHANGED <<version, owed, jobs, spawned, latest, made, cache, receipts, told, served, late,
                 corrections>>

WorkerStep(d) ==
  Save(d) \/ WriteJob(d) \/ Analyze(d) \/ Notify(d)

ObservationNext ==
  \/ DailyLaunch \/ UploadLands
  \/ \E d \in Dates :
       \/ BeginObservation(d) \/ WorkerStep(d) \/ WorkerDies(d)
       \/ Correct(d) \/ LaunchAfterCorrection(d) \/ ReviewerDies(d)

\* Processes that were started and workers that have their lock go on unless they die,
\* and the scheduler launches every day.
Goes == DailyLaunch \/ \E d \in Dates : BeginObservation(d) \/ WorkerStep(d)

ObservationSpec == ObservationInit /\ [][ObservationNext]_obsVars /\ WF_obsVars(Goes)

-----------------------------------------------------------------------------
ObservationTypeOK ==
  /\ version \in [Dates -> 1..2] /\ owed \subseteq Dates /\ spawned \subseteq Dates
  /\ jobs \in [Dates -> {"pending", "done"}]
  /\ made \in [Keys -> Nat] /\ cache \in [Keys -> 0..Batches]
  /\ told \subseteq {r \in receipts : r.status # "pending"}
  /\ corrections \in 0..MaxCorrections /\ faults \in 0..MaxFaults

\* What the server confirmed stays: under the version it speaks of the server holds a
\* report of the same pass, whose findings are the same and whose status alone may be
\* another, or a report of a later one, whenever an upload given up before may land
\* (install_observation, save).
ReceiptStands ==
  \A r \in receipts :
    LET s == served[r.key]
    IN  /\ s # NoReport
        /\ \/ s.generated > r.generated
           \/ s.generated = r.generated /\ s.answered = r.answered

\* Dates that every launch finds unfinished: nobody finishes the report of a version that
\* was corrected since, and that of a large issue never becomes complete.
Stuck == {d \in Dates : \E n \in {1, 2} : Unfinished(<<d, n>>) /\ (n # version[d] \/ d \in Large)}

\* Unless two dates are stuck, every observation that was launched ends complete,
\* confirmed and told, although a launch resumes only the two oldest dates; two dates that
\* are stuck leave no place for the others (launch_observation).
ObservedInTheEnd ==
  <>[](Cardinality(Stuck) < 2)
    => <>[](\A d \in Dates \ Large :
              LET k == <<d, version[d]>>
              IN  jobs[d] = "pending" \/ latest[k] # NoReport => Settled(k))

\* "A new version passes the usual publication of V2 and a repeated observation"
\* (v2/docs/event-observation-operations.md): a corrected version whose launch was made is
\* observed, under observation, or marked for the launches of the next days.
NewVersionKnown ==
  \A d \in Dates :
    version[d] = 2 /\ d \notin owed \cup spawned /\ At(d, "idle")
      => jobs[d] = "pending" \/ latest[<<d, 2>>] # NoReport
=============================================================================
