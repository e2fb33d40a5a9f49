------------------------------- MODULE DailyRun -------------------------------
(***************************************************************************)
(* The launches that bring one day's Legacy issue to the V2 site.  A       *)
(* launch finds a date, makes an attempt, retains the package it built (or *)
(* takes the one retained first), publishes it and writes the report that  *)
(* completes the date.  Launches overlap (the scheduler's and one by       *)
(* hand), die at any step and lose replies; corrections and publications   *)
(* by hand move the source in between, and Legacy writes its files again   *)
(* whenever it likes: a launch reads them several times, without a lock.   *)
(* Abstracted: the comparison with the Legacy issue, which only decides    *)
(* whether the report raises an alert.                                     *)
(***************************************************************************)
EXTENDS Integers, Sequences, FiniteSets, FiniteSetsExt

CONSTANTS
  Launchers,      \* processes of the daily launcher
  Dates,          \* issue dates, consecutive naturals
  NotBefore,      \* the first date the daily contour owns
  LookbackDays,
  Legacy,         \* Legacy[v] is version v of an issue: a function from its cards
                  \* to what V2 makes of them: the text and whether it is in the window
  MaxByHand,      \* bound: publications that are not a launch's
  MaxDeaths,      \* bound: launchers killed and replies lost
  MaxAttempts     \* bound: attempts of all dates

Unlocked == "unlocked"

ASSUME DailyRunAssumption ==
  /\ Dates \subseteq Nat /\ IsFiniteSet(Dates) /\ NotBefore \in Nat
  /\ LookbackDays \in Nat \ {0}
  /\ Len(Legacy) \in Nat /\ DOMAIN Legacy = 1..Len(Legacy)
  /\ Unlocked \notin Launchers

VARIABLES
  today,
  exported,    \* version of each date's Legacy issue, 0 before it is exported
  attempts,    \* publication-input.json of each date's attempt-NNN directories
  reported,    \* dates with their combined-report.json
  source,      \* the release behind the source pointer
  production,  \* the release production serves
  prepared,    \* requests/ and releases/: the base and package retained for a date
  results,     \* results/: dates whose publication result is saved
  lock,        \* holder of the mutation lock of the publisher's root
  launcher,    \* what each launcher is doing
  byHand, deaths   \* counters of the bounds

dailyVars == <<today, exported, attempts, reported, source, production, prepared, results,
               lock, launcher, byHand, deaths>>

None == [none |-> TRUE]
Waiting == [pc |-> "idle"]

\* f with v at x.
With(f, x, v) == [y \in DOMAIN f \cup {x} |-> IF y = x THEN v ELSE f[y]]

\* The issue V2 makes of a version: a function from cards to texts.
Eligible(v) == {u \in DOMAIN Legacy[v] : Legacy[v][u].eligible}
IssueOf(v) == [u \in Eligible(v) |-> Legacy[v][u].text]

DailyRunInit ==
  /\ today = Min(Dates)
  /\ exported = [d \in Dates |-> 0]
  /\ attempts = [d \in Dates |-> <<>>]
  /\ reported = {}
  /\ source = [id |-> <<"seed", 0>>, issues |-> << >>]
  /\ production = source
  /\ prepared = << >>
  /\ results = {}
  /\ lock = Unlocked
  /\ launcher = [l \in Launchers |-> Waiting]
  /\ byHand = 0 /\ deaths = 0

Doing(l, pc) == launcher[l].pc = pc
Becomes(l, state) == launcher' = [launcher EXCEPT ![l] = state]
Fails(l) == Becomes(l, Waiting)
Step(l, pc) == Becomes(l, [launcher[l] EXCEPT !.pc = pc])

-----------------------------------------------------------------------------
(***************************************************************************)
(* The world around the launcher.                                          *)
(***************************************************************************)
NextDay ==
  /\ today + 1 \in Dates
  /\ today' = today + 1
  /\ UNCHANGED <<exported, attempts, reported, source, production, prepared, results, lock,
                 launcher, byHand, deaths>>

\* Legacy writes its issues at night and again by hand, also for the dates it wrote
\* before, and waits for no launch.
ExportIssue ==
  /\ \E d \in Dates :
       /\ d <= today /\ exported[d] < Len(Legacy)
       /\ exported' = [exported EXCEPT ![d] = @ + 1]
  /\ UNCHANGED <<today, attempts, reported, source, production, prepared, results, lock,
                 launcher, byHand, deaths>>

\* A correction gives an issue any composition: of the cards of every version, also those
\* outside of the window, with any of their texts.
AllCards == UNION {DOMAIN Legacy[v] : v \in DOMAIN Legacy}
Texts == UNION {{Legacy[v][u].text : u \in DOMAIN Legacy[v]} : v \in DOMAIN Legacy}
Compositions == UNION {[S -> Texts] : S \in SUBSET AllCards \ {{}}}
Corrected(issues) == {With(issues, d, i) : d \in DOMAIN issues, i \in Compositions}

\* An issue may be built and published with the tools themselves; a gazette leaves the
\* issues alone.
PublishByHand ==
  /\ lock = Unlocked /\ source = production /\ byHand < MaxByHand
  /\ \E issues \in
       {source.issues} \cup Corrected(source.issues)
       \cup {With(source.issues, d, IssueOf(exported[d])) :
               d \in {x \in Dates \ DOMAIN source.issues : exported[x] > 0}} :
       source' = [id |-> <<"hand", byHand + 1>>, issues |-> issues]
  /\ production' = source'
  /\ byHand' = byHand + 1
  /\ UNCHANGED <<today, exported, attempts, reported, prepared, results, lock, launcher, deaths>>

-----------------------------------------------------------------------------
(***************************************************************************)
(* Which date, and which package.                                          *)
(***************************************************************************)
Reported(d) == d \in reported

\* find_stage15_catchup: the oldest exported date of the window without a report.
Unfinished ==
  {d \in Dates : /\ today - LookbackDays < d /\ d <= today /\ d >= NotBefore
                 /\ exported[d] > 0 /\ ~Reported(d)}

\* The launcher asks for today or, by hand, for any date; only the scheduler's falls
\* back to an unfinished date when there is no export.
Selected ==
  {d \in Dates : d <= today /\ exported[d] > 0}
  \cup (IF exported[today] = 0 /\ Unfinished # {} THEN {Min(Unfinished)} ELSE {})

Attempted == UNION {{d} \X DOMAIN attempts[d] : d \in Dates}

\* A date that has its report is complete: the launch prints it and ends.
Launch(l) ==
  /\ Doing(l, "idle")
  /\ \E d \in Selected :
       /\ ~Reported(d) /\ Cardinality(Attempted) < MaxAttempts
       /\ attempts' = [attempts EXCEPT ![d] = Append(@, None)]
       /\ Becomes(l, [pc |-> "started", date |-> d, attempt |-> Len(attempts[d]) + 1,
                      sha |-> 0, base |-> None, package |-> None, retry |-> FALSE])
  /\ UNCHANGED <<today, exported, reported, source, production, prepared, results, lock,
                 byHand, deaths>>

Retained(d) == {n \in DOMAIN attempts[d] : attempts[d][n] # None}

\* _publication_for_attempt: the package retained first, bound to the Legacy file it was
\* retained with; nothing to publish when the source has the issue; else a build.
Choose(l) ==
  LET job == launcher[l]
      kept == Retained(job.date)
      first == attempts[job.date][Min(kept)]
  IN  /\ Doing(l, "started")
      /\ IF kept # {}
         THEN IF first.sha # exported[job.date] THEN Fails(l)
              ELSE Becomes(l, [job EXCEPT !.pc = "chosen", !.sha = first.sha,
                                          !.package = first.package, !.retry = TRUE])
         ELSE IF job.date \in DOMAIN source.issues
         THEN Becomes(l, [job EXCEPT !.pc = "published"])
         ELSE Becomes(l, [job EXCEPT !.pc = "pointing", !.sha = exported[job.date]])
      /\ UNCHANGED <<today, exported, attempts, reported, source, production, prepared, results,
                     lock, byHand, deaths>>

\* _build_candidate reads the pointer of the source again ...
PickBase(l) ==
  /\ Doing(l, "pointing")
  /\ Becomes(l, [launcher[l] EXCEPT !.pc = "building", !.base = source])
  /\ UNCHANGED <<today, exported, attempts, reported, source, production, prepared, results,
                 lock, byHand, deaths>>

PackageOf(job) == [version |-> exported[job.date], base |-> job.base, built |-> job.attempt]

\* Variant: the builder relies on what the launch saw of the source.
BuildUnchecked(l) ==
  /\ Doing(l, "building")
  /\ Becomes(l, [launcher[l] EXCEPT !.pc = "chosen", !.package = PackageOf(launcher[l])])
  /\ UNCHANGED <<today, exported, attempts, reported, source, production, prepared, results,
                 lock, byHand, deaths>>

\* ... and the builder, in files of its own, reads the Legacy file again, maybe another
\* version of it.  The base must lack the issue (_validate_daily_preconditions).  The bytes
\* of a package are its own: two builds of one version differ.
BuildPackage(l) ==
  LET job == launcher[l]
  IN  /\ Doing(l, "building")
      /\ IF job.date \in DOMAIN job.base.issues THEN Fails(l)
         ELSE Becomes(l, [job EXCEPT !.pc = "chosen", !.package = PackageOf(job)])
      /\ UNCHANGED <<today, exported, attempts, reported, source, production, prepared, results,
                     lock, byHand, deaths>>

RetainInput(l) ==
  LET job == launcher[l]
  IN  /\ Doing(l, "chosen")
      /\ attempts' = [attempts EXCEPT ![job.date][job.attempt] =
                        [sha |-> job.sha, package |-> job.package]]
      /\ Step(l, "retained")
      /\ UNCHANGED <<today, exported, reported, source, production, prepared, results, lock,
                     byHand, deaths>>

-----------------------------------------------------------------------------
(***************************************************************************)
(* publish_candidate, under the mutation lock.                             *)
(***************************************************************************)
ReleaseId(d) == <<"daily", d>>

\* The release of a date: the issues of its base and the issue of its package.
ReleaseOf(d) ==
  [id     |-> ReleaseId(d),
   issues |-> With(prepared[d].base.issues, d, IssueOf(prepared[d].package.version))]

\* A saved result is replayed.  Otherwise the candidate must be bound to the source, or to
\* the retained base when the source already is at its release, and a release prepared
\* before must be the one this package makes.
Prepare(l) ==
  LET job == launcher[l]
      d == job.date
      base == IF source.id = ReleaseId(d) /\ d \in DOMAIN prepared THEN prepared[d].base ELSE source
      bound == base = job.package.base
      known == d \in DOMAIN prepared
  IN  /\ Doing(l, "retained")
      /\ \/ /\ lock # Unlocked /\ Fails(l)
            /\ UNCHANGED <<prepared, lock>>
         \/ /\ lock = Unlocked /\ d \in results /\ Step(l, "published")
            /\ UNCHANGED <<prepared, lock>>
         \/ /\ lock = Unlocked /\ d \notin results /\ ~bound
            /\ Becomes(l, [pc |-> "refused", retry |-> job.retry])
            /\ UNCHANGED <<prepared, lock>>
         \/ /\ lock = Unlocked /\ d \notin results /\ bound /\ known
            /\ prepared[d] # [base |-> base, package |-> job.package]
            /\ Fails(l)
            /\ UNCHANGED <<prepared, lock>>
         \/ /\ lock = Unlocked /\ d \notin results /\ bound
            /\ known => prepared[d] = [base |-> base, package |-> job.package]
            /\ prepared' = With(prepared, d, [base |-> base, package |-> job.package])
            /\ lock' = l /\ Step(l, "sending")
      /\ UNCHANGED <<today, exported, attempts, reported, source, production, results, byHand, deaths>>

ReportRefused(l) ==
  /\ Doing(l, "refused") /\ Fails(l)
  /\ UNCHANGED <<today, exported, attempts, reported, source, production, prepared, results, lock,
                 byHand, deaths>>

\* Production applies the request to the base it is bound to, or finds it applied; its
\* answer may be lost.
Send(l) ==
  LET d == launcher[l].date
      there == production = ReleaseOf(d)
      fits == production = prepared[d].base
  IN  /\ Doing(l, "sending")
      /\ production' = IF ~there /\ fits THEN ReleaseOf(d) ELSE production
      /\ \/ /\ there \/ fits
            /\ Step(l, "answered")
            /\ UNCHANGED <<lock, deaths>>
         \/ /\ there \/ fits => deaths < MaxDeaths
            /\ deaths' = deaths + (IF there \/ fits THEN 1 ELSE 0)
            /\ Fails(l) /\ lock' = Unlocked
      /\ UNCHANGED <<today, exported, attempts, reported, source, prepared, results, byHand>>

AdvanceSource(l) ==
  /\ Doing(l, "answered")
  /\ source' = ReleaseOf(launcher[l].date)
  /\ Step(l, "committed")
  /\ UNCHANGED <<today, exported, attempts, reported, production, prepared, results, lock,
                 byHand, deaths>>

SaveResult(l) ==
  /\ Doing(l, "committed")
  /\ results' = results \cup {launcher[l].date}
  /\ lock' = Unlocked
  /\ Step(l, "published")
  /\ UNCHANGED <<today, exported, attempts, reported, source, production, prepared, byHand, deaths>>

-----------------------------------------------------------------------------
(***************************************************************************)
(* The report that completes the date.                                     *)
(***************************************************************************)

\* What the site serves is fetched, and combined-report.json is created once; the second
\* of two launches fails on it.
WriteReport(l) ==
  /\ Doing(l, "published")
  /\ reported' = IF launcher[l].date \in DOMAIN production.issues
                 THEN reported \cup {launcher[l].date} ELSE reported
  /\ Fails(l)
  /\ UNCHANGED <<today, exported, attempts, source, production, prepared, results, lock,
                 byHand, deaths>>

\* Killed, out of time, or refused by a model: the attempt stays as it is.
LauncherDies(l) ==
  /\ ~Doing(l, "idle") /\ deaths < MaxDeaths
  /\ Fails(l)
  /\ lock' = IF lock = l THEN Unlocked ELSE lock
  /\ deaths' = deaths + 1
  /\ UNCHANGED <<today, exported, attempts, reported, source, production, prepared, results, byHand>>

DailyRunNext ==
  \/ NextDay \/ ExportIssue \/ PublishByHand
  \/ \E l \in Launchers :
       \/ Launch(l) \/ Choose(l) \/ PickBase(l) \/ BuildPackage(l) \/ RetainInput(l)
       \/ Prepare(l) \/ ReportRefused(l) \/ Send(l) \/ AdvanceSource(l) \/ SaveResult(l)
       \/ WriteReport(l) \/ LauncherDies(l)

DailyRunSpec == DailyRunInit /\ [][DailyRunNext]_dailyVars

-----------------------------------------------------------------------------
DailyRunTypeOK ==
  /\ today \in Dates /\ exported \in [Dates -> 0..Len(Legacy)]
  /\ lock \in Launchers \cup {Unlocked}
  /\ results \subseteq DOMAIN prepared /\ DOMAIN prepared \subseteq Dates
  /\ reported \subseteq Dates
  /\ byHand \in 0..MaxByHand /\ deaths \in 0..MaxDeaths

\* Every issue that old has is in new as it was.
StandsIn(old, new) ==
  \A d \in DOMAIN old.issues : d \in DOMAIN new.issues /\ new.issues[d] = old.issues[d]

\* Launches only add: whatever a launch retained, overslept, sends again or finds when it
\* looks a second time, no step of it changes or takes back an issue that production
\* serves or the source holds: neither another date's, nor a correction of its own, nor
\* the same date's as somebody published it meanwhile.
IssuesStand ==
  [][byHand' = byHand => StandsIn(source, source') /\ StandsIn(production, production')]_dailyVars

\* "combined-report.json is the only completion marker. An incomplete date is retryable"
\* (docs/radar-stage15-daily-hardening-2026-08-21.md): a retry of the retained package is
\* not refused for the release it is bound to.
IncompleteIsRetryable == \A l \in Launchers : ~(Doing(l, "refused") /\ launcher[l].retry)
=============================================================================
