------------------------------ MODULE DailyReport ------------------------------
(***************************************************************************)
(* The nightly run that makes the report of the day: collection, the batch *)
(* of at most Limit materials, the report, the queue of what was deferred, *)
(* and, when the batch is small, a second collection and a second report   *)
(* of the same day.  Steps fail, the host dies between two writes, and the *)
(* run of a day is repeated by hand.                                       *)
(***************************************************************************)
EXTENDS Naturals, FiniteSets

CONSTANTS
  Stories,        \* materials the sources may show
  ManualStories,  \* those of a manual source: seen again, they are of the day again
  LastDay,        \* bound: days
  Limit,          \* DAILY_REPORT_LIMIT
  LowYield,       \* RADAR_LOW_YIELD_THRESHOLD
  MaxStarts,      \* bound: runs of one day
  MaxAborts       \* bound: failed steps and deaths

ASSUME ReportAssumption ==
  /\ IsFiniteSet(Stories) /\ ManualStories \subseteq Stories
  /\ LastDay \in Nat \ {0} /\ Limit \in Nat \ {0} /\ LowYield \in Nat

VARIABLES
  day,        \* the date of the run
  first,      \* materials.jsonl: day of first_seen_at, 0 where the material is not there
  last,       \* materials.jsonl: day of last_seen_at
  deferred,   \* daily-deferred.jsonl: first_deferred_for of each material, 0 where it has no line
  archive,    \* reports/: the materials of each day's Markdown
  stage,      \* the running scripts
  finished,   \* a run of the day came to its end
  starts, aborts,     \* counters of the bounds
  promised,   \* history: day each material was deferred, until a report carries it
  carried,    \* history: materials that were deferred when the day began
  torn        \* history: a death between the two halves of writing the queue

reportVars == <<day, first, last, deferred, archive, stage, finished, starts, aborts,
                promised, carried, torn>>

Days == 1..LastDay
Idle == [pc |-> "idle"]
Queued(queue) == {m \in Stories : queue[m] # 0}

ReportInit ==
  /\ day = 1 /\ archive = [d \in Days |-> {}] /\ stage = Idle /\ finished = FALSE
  /\ first = [m \in Stories |-> 0] /\ last = first /\ deferred = first /\ promised = first
  /\ starts = 0 /\ aborts = 0 /\ carried = {} /\ torn = FALSE

-----------------------------------------------------------------------------
(***************************************************************************)
(* agpm_radar_collect.py                                                   *)
(***************************************************************************)
\* update_materials: a new material is first seen today, a known one is seen again; the
\* file is replaced in one step.
Seen(found) ==
  /\ first' = [m \in Stories |-> IF m \in found /\ first[m] = 0 THEN day ELSE first[m]]
  /\ last' = [m \in Stories |-> IF m \in found THEN day ELSE last[m]]

\* The run of the day, by the timer or by hand.  Sources fail one by one.
Collect(found) ==
  /\ stage = Idle /\ starts < MaxStarts
  /\ Seen(found)
  /\ stage' = [pc |-> "collected", again |-> FALSE]
  /\ starts' = starts + 1 /\ finished' = FALSE
  /\ UNCHANGED <<day, deferred, archive, aborts, promised, carried, torn>>

\* The batch was small: web research alone, and the report of the day once more.
CollectMore(found) ==
  /\ stage.pc = "queued" /\ ~stage.again /\ Cardinality(stage.batch) <= LowYield
  /\ Seen(found)
  /\ stage' = [pc |-> "collected", again |-> TRUE]
  /\ UNCHANGED <<day, deferred, archive, finished, starts, aborts, promised, carried, torn>>

-----------------------------------------------------------------------------
(***************************************************************************)
(* agpm_radar_report.py                                                    *)
(***************************************************************************)
\* in_daily_candidate_window for the day of the run.
Candidates ==
  {m \in Stories : \/ first[m] = day
                   \/ m \in ManualStories /\ last[m] = day}

\* priority: deferred ones by the day they were deferred first, then the others; a deferred
\* copy and its mark stay when the material is of the window, too.
Precedes(queue, i, j) ==
  \/ queue[j] = 0
  \/ queue[i] # 0 /\ queue[i] <= queue[j]

\* select_daily_batch, for some order of the scores.
DayBatches(queue, included) ==
  {batch \in SUBSET included :
     /\ Cardinality(batch) = IF Cardinality(included) <= Limit THEN Cardinality(included)
                                                               ELSE Limit
     /\ \A i \in batch, j \in included \ batch : Precedes(queue, i, j)}

\* mark_deferred: the first day stays.
Postponed(queue, rest) ==
  [m \in Stories |-> IF m \notin rest THEN 0
                     ELSE IF queue[m] # 0 THEN queue[m] ELSE day]

\* One report is put together: what is a copy, leads nowhere or is judged not to be of
\* the subject is out of it, and of the queue.
Compose(out) ==
  /\ stage.pc = "collected"
  /\ LET all == Candidates \cup Queued(deferred)
         included == all \ out
     IN  /\ out \subseteq all
         /\ \E batch \in DayBatches(deferred, included) :
              stage' = [pc |-> "composed", again |-> stage.again, batch |-> batch,
                        queue |-> Postponed(deferred, included \ batch), out |-> out]
  /\ UNCHANGED <<day, first, last, deferred, archive, finished, starts, aborts, promised,
                 carried, torn>>

\* The Markdown of the day replaces an earlier one.
WriteReport ==
  /\ stage.pc = "composed"
  /\ archive' = [archive EXCEPT ![day] = stage.batch]
  /\ promised' = [m \in Stories |-> IF m \in stage.batch THEN 0 ELSE promised[m]]
  /\ stage' = [stage EXCEPT !.pc = "reported"]
  /\ UNCHANGED <<day, first, last, deferred, finished, starts, aborts, carried, torn>>

\* write_deferred_queue opens the file, which empties it ...
EmptyQueue ==
  /\ stage.pc = "reported"
  /\ deferred' = [m \in Stories |-> 0]
  /\ stage' = [stage EXCEPT !.pc = "emptied"]
  /\ UNCHANGED <<day, first, last, archive, finished, starts, aborts, promised, carried, torn>>

\* Variant: the queue is advanced before the report is written.
FillQueueBefore ==
  /\ stage.pc \in {"composed", "emptied"}
  /\ deferred' = stage.queue
  /\ promised' = [m \in Stories |-> IF stage.queue[m] # 0 /\ promised[m] = 0 THEN day
                                    ELSE IF m \in stage.out THEN 0 ELSE promised[m]]
  /\ carried' = carried \ stage.out
  /\ stage' = IF stage.pc = "emptied" THEN [stage EXCEPT !.pc = "queued"] ELSE stage
  /\ UNCHANGED <<day, first, last, archive, finished, starts, aborts, torn>>

\* ... and fills it.
FillQueue ==
  /\ stage.pc = "emptied"
  /\ deferred' = stage.queue
  /\ promised' = [m \in Stories |-> IF stage.queue[m] # 0 /\ promised[m] = 0 THEN day
                                    ELSE IF m \in stage.out THEN 0 ELSE promised[m]]
  /\ carried' = carried \ stage.out
  /\ stage' = [stage EXCEPT !.pc = "queued"]
  /\ UNCHANGED <<day, first, last, archive, finished, starts, aborts, torn>>

-----------------------------------------------------------------------------
(***************************************************************************)
(* agpm_radar_daily.sh                                                     *)
(***************************************************************************)
\* The statistics and the copy of the corpus.
FinishRun ==
  /\ stage.pc = "queued" /\ (stage.again \/ Cardinality(stage.batch) > LowYield)
  /\ stage' = Idle /\ finished' = TRUE
  /\ UNCHANGED <<day, first, last, deferred, archive, starts, aborts, promised, carried, torn>>

\* A step raises, and "set -e" ends the run; or the host dies.
AbortRun ==
  /\ stage # Idle /\ aborts < MaxAborts
  /\ torn' = (torn \/ stage.pc = "emptied")
  /\ stage' = Idle /\ aborts' = aborts + 1
  /\ UNCHANGED <<day, first, last, deferred, archive, finished, starts, promised, carried>>

\* The next day, whatever became of the run of this one.
NextDay ==
  /\ stage = Idle /\ day < LastDay
  /\ day' = day + 1 /\ starts' = 0 /\ finished' = FALSE
  /\ carried' = Queued(deferred)
  /\ UNCHANGED <<first, last, deferred, archive, stage, aborts, promised, torn>>

ReportNext ==
  \/ \E found \in SUBSET Stories : Collect(found) \/ CollectMore(found)
  \/ \E out \in SUBSET Stories : Compose(out)
  \/ WriteReport \/ EmptyQueue \/ FillQueue \/ FinishRun \/ AbortRun \/ NextDay

ReportSpec == ReportInit /\ [][ReportNext]_reportVars

-----------------------------------------------------------------------------
\* The state is of its kind; each day of a mark is a day that was.
ReportTypeOK ==
  /\ day \in Days /\ finished \in BOOLEAN /\ torn \in BOOLEAN
  /\ {first, last, deferred, promised} \subseteq [Stories -> 0..day]
  /\ archive \in [Days -> SUBSET Stories] /\ carried \subseteq Stories

\* A material that was deferred has its line in the queue until a report carries it,
\* however runs fail and are repeated: the queue is never ahead of the report.  (A death
\* in the middle of writing the queue loses the queue; write_deferred_queue does not
\* replace the file in one step.)
PromiseKept ==
  ~torn /\ stage = Idle => \A m \in Stories : promised[m] # 0 => deferred[m] # 0

\* What was deferred before the day is in the report of the day when its run has come to
\* its end, or waits on.  The code reads the queue again, which its first report of the
\* day has already advanced, when the batch was small.
DeferredIsReported ==
  finished /\ ~torn => carried \subseteq archive[day] \cup Queued(deferred)
===============================================================================
