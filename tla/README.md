# AGPM Radar: TLA+ models, checks and proofs

This directory is the verification project of AGPM Radar. Its modules are
translated from the code under `v2/`, `kx/` and `pipeline/`; `PROJECT.json` names
for every definition the lines it stands for, and lists the hazards of the code
at their lines with the properties that watch them. All paths below are relative
to the repository's root.

## 1. The system

Every night the **pipeline** (`pipeline/scripts`) collects public sources, makes
the report of the day and publishes the first Radar from a SQLite database that
is rebuilt each time. The **second Radar** (`v2/`) turns the exported issue into
a candidate, replays its mutations on a staging copy of the active database,
finalizes the copy as an immutable *release* and derives a delta. The delta goes
from the **source** host (EU) to the **production** host (RU) over a
forced-command SSH connection; production applies it, switches the pointer
`active.json`, proves health and answers, and only then does the source move its
own pointer. The **knowledge system** (`kx/`) keeps a corpus in PostgreSQL, reads
it with models, lets editors decide, and publishes slices of it to readers.

### Inventory

| Component | State | Operations | What makes it correct |
|---|---|---|---|
| Remote activation (`v2/packages/publisher/remote_activation.py`) | `active.json`, `releases/`, `incoming/<id>.*`, cancellation markers, the latch, saved results | publish, replay, rollback, status; several processes at once | the pointer names a complete database and moves only along a request; an error is undone or latched, or the writing of the latch failed too; what was taken down stays down |
| Mutation lock (`v2/packages/storage/mutation_lock.py`) | an flock, dropped at a crash | acquire without waiting, release | mutual exclusion |
| Source orchestration (`remote_orchestration.py`) | source pointer and releases, retained base pointers, reports | `publish_candidate`, repeated after every failure | the source moves only after production's proof; a reported release is not undone by late processes |
| Local publisher (`local_simulation.py`, `state_machine.py`) | a journal of checkpoints, two local roots | publish, resume, roll back | what is active is explained by the journal |
| Audit journal (`audit_journal.py`) | a file of hashed records | append, verify | one chain; acknowledged records stay |
| Active database of the API (`v2/apps/api/database.py`) | the opened database and its pointer bytes | execute, reopen | an answer comes from a release that was active since the request arrived |
| Content retention (`v2/tools/rotate_content_state.py`) | databases, requests, results | plan and apply, daily | nothing a pointer will name is removed |
| Application deployment (`v2/packages/deployment/`) | three references per endpoint, databases | deploy, roll back | a deployment is applied or undone as a whole |
| Candidates and delta (`v2/packages/domain`, `v2/packages/delta/engine.py`) | staging copies, a package store | compose, bind, replay, mark, derive, apply | production reaches the source's rows; nothing is registered twice |
| Daily run (`v2/tools/run_stage15_dual.py`) | attempts, retained inputs, reports | launch, retry, publish, report | no launch changes or takes back an issue that is served |
| Dual run (`v2/packages/domain/dual_run.py`) | a snapshot and its two copies | fork, run, compare | both branches read the collected bytes |
| Reviews of issues (`kx/src/radar_kx/issue_reviews.py`, `v2/tools/process_issue_reviews.py`) | statuses of corrections, packages, results | confirm, build, publish, report | a correction is made to what the owner approved, once; the status is true |
| Event observation (`v2/tools/observe_issue_events.py`, `v2/packages/publisher/event_observation.py`) | reports, receipts, jobs on two hosts | launch, analyse, upload, notify | what was confirmed stays; what began is told |
| Report of the day (`pipeline/scripts/agpm_radar_report.py`, `agpm_radar_daily.sh`) | report files, the deferred queue | collect, compose, report | a deferred material is not lost |
| First Radar (`pipeline/scripts`: `docx_backfill`, `openclaw_analysis`, `export`, ...) | issues, cards, texts, analyses, JSON files | rebuild, classify, analyse, export | what readers see first accounts for its cards |
| Knowledge fetch queue (`kx/src/radar_kx/{database,worker,fetcher}.py`) | rows with leases, versions, bodies | claim, download, record, re-parse, operator's commands | what is called succeeded has text; texts do not go back |
| Knowledge releases (`database.py`, `release.py`, `publication.py`) | quotations, decisions, releases, a pointer, an event log | publish quotations, build, switch | releases hold what was decided; events tell the active one |
| Model gateway (`orchestrator.py`) | calls, audit rows | a chain of models with waits and rounds, a probe for tools | what left is in the audit, except a last post whose reply cannot be decoded, and the probe |
| Knowledge chain (`cli.py`, `database.py`) | fragments, statements, readings, links, gaps | four passes, catch-up, the owner's desk | an admitted statement has its place; rejected ones take no part |
| Agents (`agent_api.py`, `v2/apps/web/app.mjs`) | keys, windows, kept answers | ask, stream, fall back | revocation lands; told answers are kept |
| Radar page (`v2/apps/web/app.mjs`) | choice, loads, timers, history | choose, type, step, retry | what is called current is what was chosen |
| Public API service, contracts, validation, renderers, legacy bridge, `design/`, `docs/`, `contracts/v1`, `fixtures/`, `work/` | none, or a rate limiter | pure functions, read-only queries, one-off imports | not modelled |

Hard are: mutations decided on reads made before the lock; processes that
outlive the connection that started them; retries of what was already done;
operators who act in between; sequences of durable steps any of which may be the
last; transactions at READ COMMITTED, whose statements see different states; and
replies that arrive after the reader has moved on.

## 2. Modules

| Module | Models |
|---|---|
| `ReleaseRegister`, `PairedRelease` | abstract specifications: one register of the active release; a publisher of two hosts |
| `RemoteActivation`, `RemoteActivationProperties` | processes of `activate_request` on production; properties, the inductive invariant and the refinement of `ReleaseRegister` |
| `Publication` | `publish_candidate`, the SSH calls, the operator and faults of both hosts; EXTENDS `RemoteActivationProperties` |
| `LocalPublisher`, `LocalPublisherProperties` | the journalled publisher, interrupted and repeated; refinement of `PairedRelease` |
| `ContentRetention` | the daily pass beside the processes of `RemoteActivation` (EXTENDS it) |
| `AuditJournal`, `ApplicationDeploy`, `IssueReview` | appends and readings; deployments; corrections from the owner to production |
| `ContentRows`, `Derivation` | rows, mutations and deltas as operators; builders, the shared store and one publisher (EXTENDS `ContentRows`) |
| `DailyRun`, `DualRun` | overlapping launches of one day's issue; one snapshot and two branches |
| `EventObservation`, `DailyReport`, `LegacyPublish` | observation of repeated events; the report with its deferred queue; the first Radar's night |
| `FetchQueue`, `KnowledgeRelease`, `ModelGateway`, `KnowledgeChain` | the knowledge system |
| `AgentTurn`, `RadarPage`, `ActiveDatabase` | what readers meet |
| `MCRemoteActivation`, `MCPublication`, `MCProgress`, `MCOperations`, `MCSite`, `MCKnowledge`, `MCDaily`, `MCPipeline` | TLC's instances |
| `PublicationProofs`, `LocalPublisherProofs`, `OperationsProofs`, `SiteProofs`, `KnowledgeProofs`, `ContentProofs`, `DailyProofs`, `PipelineProofs` | the theorems and their proofs |

In every module an action is the code between two durable effects, or between a
read and the step that acts on it; what is local to a process is lost when it is
killed, what is on disk or committed survives. Some modules hold a faulty form
of a definition right before it (an operator of the same parameters that no
specification refers to): the mutants of `PROJECT.json` put it in the
definition's place to see that the property notices.

**RemoteActivation.** One process of the forced command is one
`activate_request`. `pc[p]` is its place; `job[p]` and `prev[p]` are `request`
and `previous_bytes`. A release stands for its id, state hash and pointer bytes,
which the code always compares together; a request stands for its exact bytes.

| Actions | Code in `remote_activation.py` |
|---|---|
| `Admit` | both markers read without the lock, 443-448 |
| `InspectMismatch`, `InspectReplay`, `InspectFresh` | quarantined copy, pointer fence, saved result, 449-474 |
| `WriteQuarantine`, `WriteBasePointer`, `AnswerStatus`, `BeginRollback` | 475-507 |
| `LockFor...`, `LockBusy` | `acquire_mutation_lock`, non-blocking |
| `Stage`, `ApplyDelta`, `InstallDatabase`, `FinishInstall` | 565-586, `_install_database`, `apply_delta_to_staging` |
| `Switch`, `Activate` | `replace_pointer`: the fence, the O_EXCL staging file, the rename, the fsync that may fail |
| `Prove`, `FailProof`, `Restore`, `RestorePointer`, `ProveRestored`, `Latch` | health, the exception handler, the latch, 589-634; writing the latch may fail, too |
| `SaveResult` | after the lock was released, 635-638 |
| `Recover`, `ProveRecovered`, `FailRecovery` | `_recover_publication` |
| `Cancel`, `Revert`, `RevertPointer`, `ProveReverted` | explicit rollback, 508-549 |
| `Error`, `ErrorUndoing`, `Crash` | a failing system call or check; a killed process |

A health check can succeed only while the pointer names the expected release,
and may fail at any time.

**Publication.** `publish_candidate` holds the source's own lock, so there is one
run (`at`, `cand`, `call`). The remote process it calls is a process of
`RemoteActivation` and goes on when the run ends. `Interrupt` ends the run
anywhere; only a killed run leaves the staging file of its `replace_pointer`.

**LocalPublisher.** `at` is the run's place and `cand` its candidate; `Receive`
and `Reopen` start one, `Answer` replays a terminal state, `Resume` compares both
pointers with the checkpoint, and from then on the state in the journal decides.
One append to the journal is one step here; a crash inside one is the subject of
`AuditJournal`, where a record reaches the file in several writes and `HostCrash`
keeps a prefix of what was not synced.

**ContentRetention.** A pass holds the mutation lock from `Plan` through its
`Unlink`s to `EndPass`. Requests and results are written outside of the lock, and
a rollback's target is verified outside of it too.

**ApplicationDeploy.** `Copy`, `Migrate` and `Compatibility` prepare the two
databases; a switching phase has eight steps, each reference being replaced
through an `.active.<sha>.next` file. Nothing records how far a deployment came:
`Kill` leaves the references, and the next run begins from them.

**IssueReview.** `WorkerStep` is `process_issue_reviews.py`, `PublisherStep` a
`publish_candidate` reduced to what `Publication` shows of it: its request may
arrive late or never (`Vanish`), and it may end after any effect. A release is
the sequence of the publications that made it.

**ContentRows, Derivation.** A database is a function from row identities to
rows. `Executed` is one mutation with its keys, cascades and unique columns;
`DeltaOperations` is `build_delta`, `Applied` its replay: the state after the
first n mutations is a recursive function of n (`Replay`). Both put mutations in
order by giving each the place that counts what comes before it (`Places`,
`Ordered`), which is what a sort by a key does. `Derivation` runs two
builders (`Compose` to `FinishPackage`, with both checks of the store) beside one
publisher (`OpenCandidate` to `SaveEvidence`).

**DailyRun, DualRun.** A launch goes `Launch`, `Choose`, `PickBase`,
`BuildPackage`, `RetainInput`, `Prepare`, `Send`, `AdvanceSource`, `SaveResult`,
`WriteReport` and may die anywhere. It looks at the source in `Choose` and again
in `PickBase`, and at the Legacy file in `Choose` and again in `BuildPackage`;
`ExportIssue` and `PublishByHand`, whose corrections give an issue any
composition, fall between. The comparison with the Legacy issue only decides
whether the report raises an alert and is left out.
`DualRun` lets something of the same account write into the snapshot or either
copy (`ForeignWrite`).

**EventObservation, DailyReport, LegacyPublish.** One worker per date with its
uploads, which may land after the worker gave them up (`UploadLands`), and with the
error report that ends failing passes (`PassesFail`); the dates of `Large` have
more pairs than `MAX_PAIRS` and never become complete. The run of a day from
`Collect` to `FinishRun`, aborted between any two files. The night's scripts in
their order, each of which may end early. That the night begins with its own
report is a gate outside of the repository
(`docs/legacy-baseline-2026-08-19.md:105`), and a report has at most 10 cards,
while the models are asked for 20 (`--max-materials`): `ReportArrives` and
`PublishAssumption` say so.

**FetchQueue.** A claim is `ClaimRead`, `ClaimLock` and `ClaimCommit`, because
its statements see what is committed when each begins; `Download` and `Record`
are the fetch and `record_fetch_result`. Re-parses and the acquisition ladder
are passes of several steps beside the workers.

**KnowledgeRelease.** Builds (`BuildBegin`, `BuildStatements`, `BuildWrite`) and
switches (`PublishRead`/`Write`, `RollbackRead`/`Write`) are several statements
each, with editors' decisions in between. **ModelGateway**: a call is killed also
between its post and its row; a 200 that cannot be decoded escapes from `run`
(`ReplyUndecodable`), and `supports_tools` posts by itself (`EndToolProbe`). **KnowledgeChain**: a pass takes its work list
once and writes item by item; two passes overlap. **AgentTurn**: the page's turn,
its two handler threads, the key guard and the budget, step by step.

**RadarPage.** A reload counts a generation; replies, timers, typing, clicks and
steps of the history interleave. **ActiveDatabase**: the four reads of the
pointer in `_ensure_opened` are four actions; `during[t]` records for the
property what the pointer named since the request arrived, `slipped` and
`wavered` that it moved between the two reads around an open. The pointer moves
both ways, as publications, restores and rollbacks move it.

## 3. Runs

| Run | What moves | Properties | Distinct states |
|---|---|---|---|
| `RemoteActivation` | 2 processes, 3 releases, 5 requests, 2 crashes, failing fsync | `PointerNamesDatabase`, `ResultHasEvidence`, `CancelledStaysDown`, `RestoredOrLatched`, `ImplementsRegister` | 355,179 |
| `ErrorAfterRename` | 2 publications, fsync may fail | **violated**: `ErrorAfterActivationRestores` | |
| `Publication` | 2 remote processes, 4 releases, 3 candidates, an operator, 2 faults | `SourceFollowsProduction`, `BuildsOnProven`, `ReportedStays` | 1,323,516 |
| `InDoubt` | a candidate and its successor, an operator, 1 fault | `InDoubtResolves` | 80,118 |
| `Progress` | the local publisher with 3 candidates and 3 interruptions; the fetch queue with 2 documents, 1 worker of 2 slots, 1 death | `PointersComplete`, `OneAccountsForProduction`, `RolledBackStaysDown`, `SucceededStays`, `ImplementsPair`, `ConvergesUnlessTorn`, `QueueDrains` | 104,083 |
| `Site` | database manager; Radar page; knowledge releases; fetch queue | `AnswerCurrent`, `ShowsTheChoice`, `EventsTellActive`, `SucceededHasText` | 626,522 |
| `Operations` | retention beside activations; audit journal; deployments; reviews | `UndoneIsThere`, `ChainIntact`, `AckedStays`, `EndsAsAWhole`, `AppliedAsApproved` | 1,034,079 |
| `Knowledge` | model gateway; chain of passes; turns of readers | `LedgerCovers`, `PlacedOrGap`, `PromotionStands`, `RevocationLands`, `AnswerIsKept` | 3,475,960 |
| `Daily` | derivation of rows; daily launches; dual run | `SameRows`, `OneOfEach`, `AsDesired`, `IssuesStand`, `SameInput` | 260,258 |
| `ReplacesTheIssue` | one candidate | **violated**: `ReplacesTheIssue` | |
| `Pipeline` | event observation; report of the day; the first Radar's night | `ReceiptStands`, `PromiseKept`, `FrontIsAccounted`, `ObservedInTheEnd`, `AnalysisStays` | 1,889,374 |
| `DeferredIsReported` | the report of the day without faults | **violated**: `DeferredIsReported` | |

**Harnesses.** Components that share no state are checked in one run: an MC
module holds one instance of each, `moving` chooses at the start which one takes
steps, and the others stay as they began. The states of such a run are the sum,
not the product, of its components', and a counterexample is one of a single
component. The components that do interact are composed in modules of their own
(`Publication` with `RemoteActivation`, `ContentRetention` with
`RemoteActivation`, the branches of `Derivation`).

**Bounds.** Two processes are what any of the races needs: one that holds a
stale read and one that acts. Each instance is chosen so that every branch of
the handlers is taken, and the passing runs fire every action between them.

- `RemoteActivation`, `Publication`: two publications compete for one base, a
  third follows one of them, and rollbacks go to an installed and to a possibly
  missing release. Two crashes allow one during the recovery from another; faults
  of both hosts share `MaxFaults`.
- `Progress`: two candidates for one base and a successor, so that a run can be
  resumed after others have published; three interruptions, so that each can be
  interrupted. The queue has a page with two contents and a worker that dies.
- `Site`: four moves of the pointer between three releases, in both directions: more
  than three attempts can lose to, and a publication that is undone between two
  reads. The page is opened at the address of an absent date
  and has three reloads and three acts of the reader. Two operators share three
  switches and two builds. The queue's documents share a host.
- `Operations`: four databases under `MinimumReleases` = 2, and a rollback over two
  of them: its target is among those a pass may remove. `MaxPasses` = 1. Two appenders, two events and two crashes, also of the host.
  Two applications, one approved twice, three runs and two kills. Two corrections
  of one issue and one of another.
- `Knowledge`: an ordinary call, a pinned one, one over the cap, one of a
  model that is not allowed, and a probe for tools; two passes, of which one is the catch-up; a client
  that asks once and once more by JSON while its stream breaks.
- `Daily`: contents that add, drop, move and repeat cards and cite one left out;
  two builders and three pairs of names of which two share an id and two a key;
  two launchers and two attempts of two dates, two versions of an issue, of which
  the second one has another text and takes a card more into the window, and one
  publication by hand.
- `Pipeline`: three earlier dates, of which the first one is large, two batches of
  pairs in two passes of one call each, two reports of a large issue, one
  correction and one fault: two dates fill the places a launch has for old ones,
  and the third one waits. Three stories under a limit of one; two articles, which
  are published alike (`InOrder`), and two nights.

Symmetry (`Permutations` of processes, threads, operators, slots, events,
launchers) is used in runs of safety properties only. `CHECK_DEADLOCK FALSE`
stands in every configuration, because the systems may stop: a host whose latch
is set refuses everything, and the bounded inputs of each instance are used up.

**Fairness.** `FairPubSpec`: a started run and a started remote process go on
(`WF`; sequential programs); a candidate without result is tried again (`SF` of
`Begin`; the tools repeat a publication until it is answered); a call finds a
process in the end (`SF` of `SomeCall`; one is started per connection); a
healthy release is not called unhealthy forever (`SF` of `ProveRecovered`).
`MCProgress`: `WF` of the publisher's `Run` and `SF` of `Begin`, as
`v2/README.md:184` asks for repetition; for the queue `WF` of each worker's claim
(`radar-kx-ingest.service` restarts it: `Restart=on-failure`), of downloads and
records (requests have timeouts), and of the passing of time (`BecomeDue`, and
`LeaseEnds` of rows nobody fetches). `torn` notes an interruption between two
effects that no checkpoint explains: after one, convergence is not promised.
`MCPipeline`: one `WF` on some step of the launches and workers (`Goes`): the
timer launches once a day and `MAX_CALLS` and `RUN_SECONDS` end each worker.
`ObservedInTheEnd` has a premise: from some time on, fewer than two dates are
stuck (`Stuck`). Two such dates stay the two oldest that every launch resumes and
starve the others, which TLC shows without the premise.
Faults, operators and failures have no fairness anywhere.

### Disagreements between code and documents

With a run:

1. *Error after the rename.* `README.md:34` requires any error after content
   activation to restore the previous pointer or to block; an error in
   `replace_pointer` after `os.replace` does neither
   (`remote_activation.py:587`). Run `ErrorAfterRename`.
2. *A correction that moves a card up.* Its `issue_materials` rows are written
   one by one under `UNIQUE (issue_id, sort_order)`, so a card that takes a place
   its holder has not left yet is refused (`candidate_mutations.py:453`). Run
   `ReplacesTheIssue`.
3. *The second report of a day.* It replaces the first but reads the queue that
   the first has already advanced (`agpm_radar_daily.sh:26`). Run
   `DeferredIsReported`.

Stated in the modules, without a run of their own. Each is a definition that
quotes the document, and TLC violates it on an instance of its module (some need
other bounds than the run's):

| Definition | Code | Document |
|---|---|---|
| `BlockedStopsPublishing` | the latch is read only before the lock, `remote_activation.py:443` | `docs/adr/0002-...md:61`: an unproven rollback "blocks future publishing" |
| `RetryContinues` | a stale `.active.<sha>.next` refuses every repetition, `remote_orchestration.py:282` | `docs/migration-plan-review-2026-08-19.md:519-523`: a repetition continues safely |
| `CrashRecovers` | a kill between pointer and checkpoint refuses the moved pointer, `local_simulation.py:629` | `v2/README.md:184`: retries recover crashes after activation |
| `RestoredBeforeNext` | nothing records an unfinished deployment, `local_release.py` | `v2/README.md:217-218`: restored and proven before another deploy |
| `ReferencedStays` | requests are read once, before the unlinks; a rollback over two releases, `rotate_content_state.py:366` | `v2/docs/content-retention-2026-09-16.md:20-21` |
| `IncompleteIsRetryable` | a retained package is refused once the source moved on, `remote_orchestration.py:199` | `docs/radar-stage15-daily-hardening-2026-08-21.md:16`: "An incomplete date is retryable" |
| `NewVersionKnown` | the job of the older version ends as complete (`observe_issue_events.py:386`), and a reviewer killed after the status launches nothing (`process_issue_reviews.py:208`) | `v2/docs/event-observation-operations.md:73` |
| `AppliedIsReported` | a run killed before its report was saved is refused once a daily issue moved the source on, and the correction stays "running", `remote_orchestration.py:190` | `v2/docs/adr-0022-...md:33-38` |
| `StoredSuccessStays` | the nightly rebuild deletes all materials, and the texts cascade (`agpm_radar_docx_backfill.py:763`, `data/db/migrations/006_...sql:21`) | `agpm_radar_openclaw_analysis.py:708`: "a stored success stays" |
| `WaitingCanBeClaimed` | a planned retry keeps attempts that no claim takes, `database.py:2851` | `docs/radar-kx-production-fulltext-2026-08-21.md:130`: "failed/retryable" |
| `ReparseKeepsText` | with two workers, a body is dated by the end of its attempt: a pass may put an older edition over the text recorded since it began | `reparse_perimeter_gaps`: completes documents without full text |
| `RejectedIdeaStaysOut` | a slice is read in several statements, `database.py:3668` | `_slice_rows`: "only what somebody already confirmed" |
| `RollbackReturns` | the event before the last need not be what was active, `database.py:3923` | `database.py:3915`: "back to whatever was active before the last publish" |
| `ReconcileKnows` | a statement's fingerprint holds how much evidence is confirmed, not which, `release.py:113` | `release.py:199`: "What must never happen is not knowing" |
| `BudgetHolds` | a budget is read between passes, a call may leave several rows | `kx/deploy/radar-kx-catch-up.service:16` |
| `RecordsOnce` | two passes that took one fragment in their work lists both write its statements | `database.py:2093`: "records nothing twice" |
| `GapIsAdmitted` | a second reading notes a gap although the first one, which stands, rejected the statement | `kx.gaps` is what the base lacks |
| `AbsentFallsBack` | the page falls back to a view that its address does not reopen | `app.mjs:2469-2470` |

Met while modelling and left as remarks: after a rollback over two releases a
late copy of an older publication may pass its fence and be activated
(`remote_activation.py:501-517`; `ReportedStays` needs single rollbacks); when
writing the latch fails after the restore failed (`remote_activation.py:629-630`),
an error after activation neither restores nor blocks, as `README.md:34` wants
(`LatchIsLost`); equal pointer bytes before and after an open do not show that the
bytes between them were the same when a publication is undone or rolled back
meanwhile (`database.py:182` of the API): the database kept open is then another
one than its bytes name until the pointer moves again (`wavered`); retention may
unlink the target that a rollback has just verified (`struck`,
`rotate_content_state.py:366`); "Every call is audited"
(`docs/adr/0005-knowledge-base-processing-planes-and-egress.md:43`,
`orchestrator.py:16`), but a 200 that is not UTF-8 raises a `UnicodeDecodeError`
that `orchestrator.py:498` lets through without a row, and `supports_tools`
(`orchestrator.py:319-361`) posts without a row and without a look at
`ALLOWED_MODELS`; the daily comparison counts what was left out
(`run_stage15_dual.py:246-286`), so a correction that exchanges cards, or an export
between the reads of a launch (`run_stage15_dual.py:382`, `452`, `478`,
`build_stage14_daily.py:336`), is called explained when the counts happen to agree:
no property is stated about a report without alert; two dates whose observation
cannot become complete, by a correction while it was unfinished or by more than
`MAX_PAIRS` pairs, take both places of every launch
(`observe_issue_events.py:281`, `177`, `225-231`); an append to the audit
journal may return before the creator of the file synced its directory
(`AckedStays` has the premise `linked`); two workers of the fetch queue exceed
`PerHost` and the attempts between them (`HostLimit`, `AttemptsBounded`); a death
in the middle of `write_deferred_queue` loses the queue (`PromiseKept` has the
premise `~torn`); `filter_previously_reported` (`agpm_radar_report.py:626`) is
called by nothing.

## 4. Proofs

The theorems hold for all values of the constants that satisfy the named
assumptions of their modules: any number of processes, releases, documents,
requests, crashes and failures. Their proofs share one form. A conjunction of
what each actor knows at each place is shown to begin, to survive every action
(one lemma or step per action), and to imply the property; the last step is
temporal. TLC checked each of these invariants on an instance before it was
proved.

| Theorem | States | Needs besides the named assumptions |
|---|---|---|
| `PublicationProofs`: `Invariance`, `TypeCorrect`, `Exclusion` | `[](TypeOK /\ IInv)`, `[]TypeOK`, `[]MutualExclusion` | |
| `PointerComplete`, `ResultsBacked` | `[]PointerNamesDatabase`, `[]ResultHasEvidence` | |
| `CancellationHolds`, `UndoneOrLatched` | `CancelledStaysDown`, `RestoredOrLatched` | |
| `Refinement` | `ImplementsRegister` | |
| `ProductionImplements` | `PubSpec => Spec /\ ImplementsRegister` | |
| `SourceFollows`, `ProvenBases` | `[]SourceFollowsProduction`, `BuildsOnProven` | |
| `ReportsStand` | `ReportedStays` | `OwnReleases`, `StepBack`, `Successors(number)` |
| `OneAhead` | `[]AtMostOneAhead` | the same, and `number[Initial] = 0` |
| `LocalPublisherProofs`: `Invariance`, `TypeCorrect` | `[](TypeOK /\ IInv)`, `[]TypeOK` | |
| `PointersAreComplete`, `ProductionAccounted`, `ReportsAreTrue`, `RolledBackIsDown`, `SuccessIsBuiltOn`, `Refinement` | `PointersComplete`, `OneAccountsForProduction`, `ReportsTrue`, `RolledBackStaysDown`, `SucceededStays`, `ImplementsPair` | |
| `OperationsProofs`: `ChainStaysIntact`, `AcknowledgedStays` | `[]ChainIntact`, `AckedStays` | |
| `DeploymentsEndWhole`, `ServedMigrated` | `EndsAsAWhole`, `[]ServedIsMigrated` | |
| `CorrectionsAsApproved`, `OwnersAreTold` | `[]AppliedAsApproved`, `[]StatusTrue` | |
| `UndoneStays` | `[]UndoneIsThere` | |
| `SiteProofs`: `AnswersAreCurrent`, `OpenedWithItsBytes` | `AnswerCurrent`, `[]KeptWithItsBytes` | |
| `CurrentIsChosen`, `PageGoesOn`, `FooterBelongs` | `[]ShowsTheChoice`, `[]SomethingAhead`, `[]FooterOfTheNews` | |
| `EventsNameActive`, `CitedAreDecided`, `ForeignsAreTranslated` | `[]EventsTellActive`, `[]CitedIsDecided`, `[]ForeignTranslated` | |
| `SucceededHaveText`, `TextsGoForward` | `[]SucceededHasText`, `NeverOlderText` | |
| `LoneWorkerKeepsLimits` | `[](AttemptsBounded /\ HostLimit)` | `Lone` |
| `KnowledgeProofs`: `WhatCrossedIsAudited` | `[]LedgerCovers` | |
| `AdmittedHavePlace`, `OwnersPromotionsStand`, `RejectedTakeNoPart` | `[]PlacedOrGap`, `[]PromotionStands`, `[]RejectedStaysOut` | |
| `RevocationsLand`, `ToldAnswersAreKept`, `CachedAnswersAreFresh`, `RefusalsAreSearched` | `[]RevocationLands`, `[]AnswerIsKept`, `[]FreshFromCache`, `[]RefusalWasSearched` | |
| `ContentProofs`: `DeltaApplies` | `Applied(base, DeltaOperations(base, target)) = target` | `Sound(base)`, `Sound(target)`, `DeletesAllowed`, `NoCrossing` |
| `StagingHolds` | a replay of a candidate that commits: `Staged(db, c, r)`, `Sound(r)`, `NoCrossing(db, r)` | `Sound(db)`, `CandidateFits(c)`, `Bindable(db, c)` |
| `DailyProofs`: `DerivationInvHolds` | `[]DerivationInv` | |
| `RowsAreTheSame`, `ServedAsDesired` | `[]SameRows`, `[]AsDesired` | |
| `PackagesAreUnique`, `LaunchesOnlyAdd` | `[]OneOfEach`, `IssuesStand` | |
| `OneWriteIsNoticed` | `SameInput` | `MaxWrites <= 1` |
| `PipelineProofs`: `ConfirmedReportsStand`, `OwnerHearsOfConfirmed` | `[]ReceiptStands`, `[]ToldIsConfirmed` | |
| `PromisesAreKept` | `[]PromiseKept` | |
| `FrontAccounted`, `AnalysesStay` | `[]FrontIsAccounted`, `AnalysisStays` | |

**What the extra hypotheses mean.**

- *Ordinary requests* (`Publication`). `OwnReleases`: a release is the target of
  one candidate (its id is derived from the candidate). `Successors`: a target's
  sequence number is larger than its base's, as `mark_release` writes it.
  `StepBack`: an operator takes back one publication at a time. Without
  `StepBack` TLC violates `ReportedStays`: after a rollback over two releases a
  late copy of the first publication finds the pointer at its base again.
  `MCPublication` assumes them of its instance (`OrdinaryAssumption`), so TLC
  evaluates them.
- *One worker* (`Lone`). The queue is run by one service; with two workers TLC
  violates both limits, since a claim counts leases before it locks its rows.
- *One foreign write* (`MaxWrites <= 1`). Two writes can change a copy and change
  it back between the two attestations.

**The arguments.** *RemoteActivation*: none of the properties is inductive by
itself; that `Activate` installs a complete database rests on what `Stage` found
and on nobody else having held the lock since. `IInv` says what each process
knows at each place. The proof shows for each action how it moves the acting
process (`ControlMove`), what it does to disk (`DiskMove`) and that records are
write-once (`WriteOnce`). From these frames alone the others keep their
knowledge (`OthersKnow`), because it is write-once or guarded by the lock; the
acting process gains its own (`OwnStep`).
*Publication*: every step is a step of `RemoteActivation` or leaves its variables
alone, so everything proved there holds here; `RunInv` adds that whatever works
for a candidate knows its base is proven. `SettledInv` places each settled
release at or below the active one (`Follows`), and `AheadInv` says the source
has come to the base of whatever is published.
*LocalPublisher*: the run's place fits the journal (`PlaceFits`), the pointers are
where its last effect left them (`PointersFit`), copies called verified are
complete (`CopiesVerified`), the retained pointer is the base (`PreviousKept`).
*AuditJournal*: who writes has verified the records as they are, because the lock
excludes other writers (`SeenIsCurrent`); what was acknowledged is synced.
*ApplicationDeploy*: in a phase of eight switches the fourth has proved an
endpoint, and what follows leaves it alone (`SwitchingFits`); `MigratedInv`
follows each database from its copy through both transactions, also when a retry
finds what a killed run left. *IssueReview*: a correction is asked of production
with one package, built from a release with the approved composition (`Sound`);
`TruthInv` ties statuses, jobs, packages and requests on their way together.
*ContentRetention*: a pass holds the lock since it looked at the pointer, and
unlinks nothing that the pointer or a rollback among the requests it has read
names (`PassFits`); whatever a process goes on to name is there (`Keeps`), unless
it is a rollback the pass has not read (`struck`).
*ActiveDatabase*: what a reopening thread has read is what the pointer named since
its request arrived, and is what it read first, unless the pointer moved between
(`ReopeningFits`). *RadarPage*: only the last generation draws, and it asked
for what is chosen now; whatever takes away the last thing to wait for leaves
another (`AheadOfPage`). *FetchQueue*: a site answers 304 only to a validator that
came with a complete text (`ValidatorsFit`, `TaskFits`); what was seen of a page
at one moment is not newer than what any later fetch brings (`AgesFit`), for
versions, bodies, rows and fetches in flight; under one worker a claim's picks and
the live leases of a host stay within its limit (`LimitsFit`), counted with
`FiniteSetTheorems`.
*ModelGateway*: before a post every row is written (`RowsOwed`, `RowsNameModels`).
*KnowledgeChain*: a pass took what it has in hand from what was admitted
(`TookFrom`), and an admission is never withdrawn. *AgentTurn*: what a thread knows
of a key was true when it read it, or was kept from a read at most `KeptFor` old
(`ThreadFits`, `KeyFits`); what it found was searched and is not older than its
question (`SearchInv`). *Derivation*: a builder that writes holds the store's
lock since its second check (`StoreInv`); the rest of the argument has a
paragraph of its own below. *DailyRun*: every package a
launch has built or retained has a base without its date (`AttemptsFit`,
`JobFits`), every prepared release adds its date to its retained base, and the
source, where it is at such a release, is that one (`ReleasesFit`): what a launch
sends or advances to has the issues of what it replaces, as they are. *DualRun*: a branch that was
started on the collected bytes and read others has used up the one write
(`DualInv`). *EventObservation*: no report is of a pass yet
to come, and all reports of one pass, its error report too, have the same findings
(`PassesAgree`); so what the server takes over a confirmed report is of that pass
or a later one.
*DailyReport*: the queue on disk, or the one about to be written, holds what was
promised (`QueueHolds`, `NextQueueHolds`). *LegacyPublish*: while cards are asked
for, each has its row, or is still to be asked for or written (`CardsAccounted`).

*The rows of a release* (`ContentProofs`, then `DailyProofs`). What a replay does
to a database is an induction over the mutations of a document of any length. It
is done on a set: the numbers n for which the statement about the first n
mutations holds contain 0 and, with n, n + 1; were one missing, the least of the
missing ones would contradict that (`UpTo`, from `NatLessThanWellFounded`).
That way a replay is shown to leave each row a document names as the document
has it and every other row alone (`After`). The order of the mutations needs no
induction: places given by counting differ for different mutations and stay within
their number, so they list the set in its order (`Places`, `Ordered`).

A delta deletes children before parents, writes parents before children and
writes each table by rising keys, so no foreign key is broken on its way. Unique
columns need more: a row could take a place (an issue's `sort_order`, a date)
that a later row of the same table has yet to leave, and the schema would refuse
a delta between two sound databases. `NoCrossing` says that no such pair exists,
and it is not assumed of the system but found in it: the candidate's own
mutations were replayed on the staging copy by rising keys as well and were
committed (`CommittedCrossesNothing`), and marking the copy as a release adds
nothing that crosses. `StagingHolds` and `DeltaApplies` are the two halves.

`DerivationInv` carries this through the interleavings: each package of the store
was staged from the rows of the release its candidate is bound to
(`PackagesFit`); each release file is a package's staging copy, marked or not yet
(`FilesFit`); each retained base and both pointers hold the rows of a release
(`BasesFit`, `PointersFit`), and those never change once the file is marked; a
delta that was sent applies to its base with the file's rows as the result
(`PublisherFits`). `SameRows` and `AsDesired` follow from it.

**What stays with TLC.** Liveness: `InDoubtResolves`, `ConvergesUnlessTorn`,
`QueueDrains`, `ObservedInTheEnd`. Fairness is out of the prover's reach.

Every other property of the passing runs is stated by a theorem. The theorems
about properties that no run lists (`MutualExclusion`, `ReportsTrue`,
`ServedIsMigrated`, `StatusTrue`, `AtMostOneAhead`, `KeptWithItsBytes`,
`SomethingAhead`, `FooterOfTheNews`, `CitedIsDecided`, `ForeignTranslated`,
`NeverOlderText`, `AttemptsBounded`, `HostLimit`, `RejectedStaysOut`,
`FreshFromCache`, `RefusalWasSearched`, `ToldIsConfirmed`) say what the code does
beyond them; TLC agreed with each on an instance of its module before it was
proved.

## 5. Not modelled, and the plan

Wall-clock dates beyond their order, file permissions and ownership, texts and
their rendering, and HTTP are left out. The public API service (read-only
queries, a rate limiter), contracts, validation and renderers (pure functions),
the one-off legacy bridge, report generators and smoke tests, the login and the
queues of the editor, and the validation of a project manager's report are not
modelled. `PROJECT.json` says for each component how far it is.

Next:

1. `ContentRetention` on the source (`work_root`), and the rate limiter of the API;
2. the editor's queues with their transactions (`editor_queues.py`).
