----------------------------- MODULE PipelineProofs -----------------------------
(***************************************************************************)
(* Proofs about the nightly work of MCPipeline, for any dates, materials,  *)
(* limits, faults and repetitions:                                         *)
(*   - the observation of events: what the server confirmed stays;         *)
(*   - the report of the day: a deferred material keeps its place;         *)
(*   - the publication of the first Radar: the issue shown first accounts  *)
(*     for its cards, and analyses of earlier dates stay.                  *)
(* Each part has an inductive invariant, a lemma for its initial states    *)
(* and one for its steps, action by action.                                *)
(***************************************************************************)
EXTENDS EventObservation, DailyReport, LegacyPublish, TLAPS

-----------------------------------------------------------------------------
(* Observation of repeated events.                                         *)

Report == [key : Keys, generated : Nat,
           status : {"pending", "partial", "complete", "error"}, answered : 0..Batches]
Worker == [pc : {"save", "job", "analyze", "notify"}, stage : {"base", "pass", "final"},
           report : Report, pass : Nat]

\* Reports and workers are of their kinds.
ObservationKinds ==
  /\ version \in [Dates -> {1, 2}]
  /\ worker \in [Dates -> Worker \cup {NoWorker}]
  /\ latest \in [Keys -> Report \cup {NoReport}]
  /\ served \in [Keys -> Report \cup {NoReport}]
  /\ made \in [Keys -> Nat] /\ cache \in [Keys -> 0..Batches]
  /\ late \subseteq Report /\ receipts \subseteq Report

\* A worker speaks to the owner of what the server confirmed, and of nothing unfinished.
WorkerKnows ==
  \A d \in Dates :
    /\ worker[d] # NoWorker /\ worker[d].pc \in {"job", "notify"} => worker[d].report \in receipts
    /\ worker[d] # NoWorker /\ worker[d].stage \in {"pass", "final"} =>
         worker[d].report.status # "pending"
    /\ worker[d] # NoWorker /\ worker[d].pc = "notify" => worker[d].stage = "final"

ToldIsConfirmed == told \subseteq {r \in receipts : r.status # "pending"}

\* Every report there is, wherever it lies.
Reports ==
  (receipts \cup late \cup {latest[k] : k \in Keys} \cup {served[k] : k \in Keys}
   \cup {worker[d].report : d \in {e \in Dates : worker[e] # NoWorker}}) \ {NoReport}

\* Reports of one pass, or of one beginning.
Alike(r, s) == r.key = s.key /\ r.generated = s.generated

\* They differ in their status at most, and none is of a pass that is yet to come.
PassesAgree ==
  /\ \A r \in Reports : r.generated <= made[r.key]
  /\ \A r, s \in Reports : Alike(r, s) => r.answered = s.answered

ObservationInv ==
  ObservationKinds /\ ReceiptStands /\ WorkerKnows /\ ToldIsConfirmed /\ PassesAgree

\* Nothing is confirmed yet.
LEMMA ObservationBegins == ObservationInit => ObservationInv
BY ObservationAssumption
   DEF ObservationInit, ObservationInv, ObservationKinds, ReceiptStands, WorkerKnows,
       ToldIsConfirmed, PassesAgree, Reports, NoWorker, NoReport

\* The lesser of two numbers is at most the second.
LEMMA LesserOfTwo == ASSUME NEW x \in Nat, NEW y \in Nat PROVE Min({x, y}) \in Nat /\ Min({x, y}) <= y
<1>1. x <= y => Min({x, y}) = x
  BY DEF Min
<1>2. y < x => Min({x, y}) = y
  BY DEF Min
<1>3. QED
  BY <1>1, <1>2

\* Reports are of their kind.
LEMMA ReportsAreReports == ASSUME ObservationKinds PROVE Reports \subseteq Report
BY DEF ObservationKinds, Reports, Worker, NoWorker

\* A report is copied from place to place, or its status alone is changed.
LEMMA CopiesAgree ==
  ASSUME PassesAgree, made' = made,
         \A r \in Reports' : \E s \in Reports : Alike(r, s) /\ r.answered = s.answered
  PROVE  PassesAgree'
BY DEF PassesAgree, Alike

\* A new report is of a pass that none was of.
LEMMA NewAgrees ==
  ASSUME ObservationKinds, PassesAgree, NEW k \in Keys, NEW e, e.key = k, e.generated = made[k] + 1,
         made' = [made EXCEPT ![k] = @ + 1], Reports' \subseteq Reports \cup {e}
  PROVE  PassesAgree'
<1>1. \A r \in Reports : r.key \in Keys /\ r.generated \in Nat
  BY ReportsAreReports DEF Report
<1>2. \A j \in Keys : made[j] \in Nat /\ made'[j] = IF j = k THEN made[k] + 1 ELSE made[j]
  BY DEF ObservationKinds
<1>3. \A r \in Reports' : r.generated <= made'[r.key]
  BY <1>1, <1>2 DEF PassesAgree
<1>4. ASSUME NEW r \in Reports, Alike(r, e) PROVE FALSE
  BY <1>1, <1>2, <1>4 DEF PassesAgree, Alike
<1>5. \A r, s \in Reports' : Alike(r, s) => r.answered = s.answered
  BY <1>4 DEF PassesAgree, Alike
<1>6. QED
  BY <1>3, <1>5 DEF PassesAgree

\* A worker is either none or complete, and NoReport is no report.
LEMMA WorkerIsWhole ==
  ASSUME ObservationKinds, NEW d \in Dates, worker[d].pc # "idle"
  PROVE  worker[d] \in Worker /\ worker[d] # NoWorker
BY DEF ObservationKinds, NoWorker

\* A date with the version of its issue is a key of a report.
LEMMA KeysOfDates ==
  ASSUME ObservationKinds, NEW d \in Dates PROVE <<d, version[d]>> \in Keys
BY DEF ObservationKinds, Keys

\* Where the reports lie after a step that moves some of them.
LEMMA ReportsMove ==
  ASSUME ObservationKinds, NEW d \in Dates, NEW v, NEW moved,
         worker' = [worker EXCEPT ![d] = v], v = NoWorker \/ v.report \in moved,
         receipts' \subseteq receipts \cup moved, late' \subseteq late \cup moved,
         \A k \in Keys : latest'[k] = latest[k] \/ latest'[k] \in moved,
         \A k \in Keys : served'[k] = served[k] \/ served'[k] \in moved
  PROVE  Reports' \subseteq Reports \cup moved
<1>1. \A c \in Dates : worker'[c] = IF c = d THEN v ELSE worker[c]
  BY DEF ObservationKinds
<1> SUFFICES ASSUME NEW r \in Reports', r \notin moved PROVE r \in Reports
  OBVIOUS
<1>2. r # NoReport
  BY DEF Reports
<1>3. CASE r \in receipts' \/ r \in late'
  BY <1>2, <1>3 DEF Reports
<1>4. CASE \E k \in Keys : r = latest'[k] \/ r = served'[k]
  BY <1>2, <1>4 DEF Reports
<1>5. CASE \E c \in Dates : worker'[c] # NoWorker /\ r = worker'[c].report
  BY <1>1, <1>2, <1>5 DEF Reports
<1>6. QED
  BY <1>3, <1>4, <1>5 DEF Reports

\* What is moved was there before.
LEMMA NothingNew ==
  ASSUME PassesAgree, made' = made, NEW moved, Reports' \subseteq Reports \cup moved,
         \A r \in moved : \E s \in Reports : Alike(r, s) /\ r.answered = s.answered
  PROVE  PassesAgree'
BY CopiesAgree DEF Alike

\* What is installed is of the same pass as what was confirmed, or of a later one.
LEMMA ConfirmedStands ==
  ASSUME ObservationKinds, ReceiptStands, PassesAgree, NEW r \in Reports, Installable(r),
         served' = [served EXCEPT ![r.key] = r],
         receipts' = receipts \/ receipts' = receipts \cup {r}
  PROVE  ReceiptStands'
<1>1. r # NoReport /\ r.key \in Keys /\ r.generated \in Nat
  BY ReportsAreReports DEF Report, Reports
<1> SUFFICES ASSUME NEW s \in receipts'
             PROVE  /\ served'[s.key] # NoReport
                    /\ \/ served'[s.key].generated > s.generated
                       \/ /\ served'[s.key].generated = s.generated
                          /\ served'[s.key].answered = s.answered
  BY DEF ReceiptStands
<1>2. s \in Reports /\ s.key \in Keys /\ s.generated \in Nat
  BY <1>1, ReportsAreReports DEF ObservationKinds, Report, Reports, NoReport
<1>3. CASE s.key # r.key
  BY <1>1, <1>2, <1>3 DEF ObservationKinds, ReceiptStands
<1>4. CASE s.key = r.key
  <2>1. served'[s.key] = r
    BY <1>1, <1>4 DEF ObservationKinds
  <2>2. CASE s = r
    BY <1>1, <2>1, <2>2
  <2>3. CASE s \in receipts
    <3>1. served[r.key] # NoReport /\ served[r.key].generated >= s.generated
      BY <1>2, <1>4, <2>3 DEF ReceiptStands, ObservationKinds, Report
    <3>2. served[r.key] \in Report
      BY <1>1, <3>1 DEF ObservationKinds
    <3>3. served[r.key].generated \in Nat /\ served[r.key].generated <= r.generated
      BY <3>1, <3>2 DEF Installable, Report
    <3>4. r.generated > s.generated \/ Alike(r, s)
      BY <1>1, <1>2, <1>4, <3>1, <3>3 DEF Alike
    <3>5. Alike(r, s) => r.generated = s.generated /\ r.answered = s.answered
      BY <1>2 DEF PassesAgree, Alike
    <3>6. QED
      BY <1>1, <2>1, <3>4, <3>5
  <2>4. QED
    BY <2>2, <2>3
<1>5. QED
  BY <1>3, <1>4

\* No step takes back what was confirmed.
LEMMA ObservationStep == ObservationInv /\ [ObservationNext]_obsVars => ObservationInv'
<1> SUFFICES ASSUME ObservationInv, [ObservationNext]_obsVars PROVE ObservationInv'
  OBVIOUS
<1> USE DEF ObservationInv, ToldIsConfirmed
<1>1. CASE UNCHANGED obsVars
  BY <1>1 DEF obsVars, ObservationKinds, ReceiptStands, WorkerKnows, PassesAgree, Reports
<1>2. ASSUME UNCHANGED <<version, worker, latest, made, cache, late, receipts, told, served>>
      PROVE  ObservationInv'
  BY <1>2 DEF ObservationKinds, ReceiptStands, WorkerKnows, PassesAgree, Reports
<1>3. CASE DailyLaunch \/ \E d \in Dates : LaunchAfterCorrection(d) \/ ReviewerDies(d)
  BY <1>2, <1>3 DEF DailyLaunch, LaunchAfterCorrection, ReviewerDies
<1>4. CASE UploadLands
  <2>1. PICK r \in late : /\ late' = late \ {r}
                          /\ served' = IF Installable(r) THEN [served EXCEPT ![r.key] = r]
                                                         ELSE served
    BY <1>4 DEF UploadLands
  <2>2. r \in Report /\ r.key \in Keys /\ r \in Reports
    BY DEF ObservationKinds, Report, Reports, NoReport
  <2>3. UNCHANGED <<version, worker, latest, made, cache, receipts, told>>
    BY <1>4 DEF UploadLands
  <2>6. PassesAgree'
    <3>1. \A k \in Keys : served'[k] = served[k] \/ served'[k] = r
      BY <2>1, <2>2 DEF ObservationKinds
    <3>2. Reports' \subseteq Reports
      BY <2>1, <2>2, <2>3, <3>1 DEF Reports
    <3>3. QED
      BY <2>3, <3>2, CopiesAgree DEF Alike
  <2>4. ReceiptStands'
    <3>1. CASE Installable(r)
      BY <2>1, <2>2, <2>3, <3>1, ConfirmedStands
    <3>2. CASE ~Installable(r)
      BY <2>1, <2>3, <3>2 DEF ReceiptStands
    <3>3. QED
      BY <3>1, <3>2
  <2>5. QED
    BY <2>1, <2>2, <2>3, <2>4, <2>6 DEF ObservationKinds, WorkerKnows
<1>5. ASSUME NEW d \in Dates, Correct(d) PROVE ObservationInv'
  BY <1>5 DEF Correct, ObservationKinds, ReceiptStands, WorkerKnows, PassesAgree, Reports
<1>6. ASSUME NEW d \in Dates, BeginObservation(d) PROVE ObservationInv'
  <2> DEFINE k == <<d, version[d]>>
  <2>1. k \in Keys
    BY KeysOfDates
  <2>2. UNCHANGED <<version, latest, cache, late, receipts, told, served>>
    BY <1>6 DEF BeginObservation
  <2>4. CASE /\ latest[k].status = "complete" /\ made' = made
             /\ worker' = [worker EXCEPT ![d] = [pc |-> "save", stage |-> "final",
                                                 report |-> latest[k], pass |-> 0]]
    <3>1. latest[k] \in Report /\ latest[k].status # "pending" /\ latest[k] \in Reports
      BY <2>1, <2>4 DEF ObservationKinds, NoReport, Reports
    <3>2. /\ made' = made
          /\ worker' = [worker EXCEPT ![d] = [pc |-> "save", stage |-> "final",
                                              report |-> latest[k], pass |-> 0]]
      BY <2>4
    <3>7. PassesAgree'
      <4>1. Reports' \subseteq Reports \cup {latest[k]}
        BY <2>2, <3>2, ReportsMove
      <4>2. QED
        BY <3>1, <3>2, <4>1, CopiesAgree DEF Alike
    <3>3. [pc |-> "save", stage |-> "final", report |-> latest[k], pass |-> 0] \in Worker
      BY <3>1 DEF Worker
    <3>4. ObservationKinds'
      BY <2>2, <3>2, <3>3 DEF ObservationKinds
    <3>5. WorkerKnows'
      BY <2>2, <3>1, <3>2 DEF WorkerKnows, ObservationKinds
    <3>6. QED
      BY <2>2, <3>4, <3>5, <3>7 DEF ReceiptStands
  <2>5. CASE /\ made' = [made EXCEPT ![k] = @ + 1]
             /\ worker' = [worker EXCEPT ![d] =
                             [pc |-> "save", stage |-> "base", pass |-> 0,
                              report |-> ReportOf(k, made[k] + 1, "pending", 0)]]
    <3> DEFINE r == ReportOf(k, made[k] + 1, "pending", 0)
    <3>1. r \in Report
      BY <2>1, ObservationAssumption DEF ReportOf, Report, ObservationKinds
    <3>2. /\ made' = [made EXCEPT ![k] = @ + 1]
          /\ worker' = [worker EXCEPT ![d] = [pc |-> "save", stage |-> "base", pass |-> 0,
                                              report |-> r]]
      BY <2>5
    <3>7. PassesAgree'
      <4>1. Reports' \subseteq Reports \cup {r}
        BY <2>2, <3>2, ReportsMove
      <4>2. r.key = k /\ r.generated = made[k] + 1
        BY DEF ReportOf
      <4> HIDE DEF r
      <4>3. QED
        BY <2>1, <3>2, <4>1, <4>2, NewAgrees
    <3>3. [pc |-> "save", stage |-> "base", pass |-> 0, report |-> r] \in Worker
      BY <3>1 DEF Worker
    <3>4. ObservationKinds'
      <4>1. made' \in [Keys -> Nat]
        BY <2>1, <3>2 DEF ObservationKinds
      <4>2. worker' \in [Dates -> Worker \cup {NoWorker}]
        BY <3>2, <3>3 DEF ObservationKinds
      <4>3. QED
        BY <2>2, <4>1, <4>2 DEF ObservationKinds
    <3>5. WorkerKnows'
      BY <2>2, <3>2 DEF WorkerKnows, ObservationKinds
    <3>6. QED
      BY <2>2, <3>4, <3>5, <3>7 DEF ReceiptStands
  <2>6. CASE UNCHANGED <<made, worker>>
    BY <1>2, <2>2, <2>6
  <2>7. QED
    BY <1>6, <2>4, <2>5, <2>6 DEF BeginObservation, Become
<1>7. ASSUME NEW d \in Dates, worker' = [worker EXCEPT ![d] = NoWorker],
             UNCHANGED <<version, latest, made, cache, late, receipts, served>>,
             told' = told \/ (told' = told \cup {worker[d].report} /\ worker[d].pc = "notify"
                              /\ worker[d] # NoWorker)
      PROVE  ObservationInv'
  <2>1. Reports' \subseteq Reports
    <3>1. Reports' \subseteq Reports \cup {}
      BY <1>7, ReportsMove
    <3>2. QED
      BY <3>1
  <2>2. PassesAgree'
    BY <1>7, <2>1, CopiesAgree DEF Alike
  <2>3. QED
    BY <1>7, <2>2 DEF ObservationKinds, ReceiptStands, WorkerKnows
<1>8. ASSUME NEW d \in Dates, Notify(d) \/ WorkerDies(d) PROVE ObservationInv'
  <2>1. worker[d] # NoWorker
    BY <1>8 DEF Notify, WorkerDies, At, NoWorker
  <2>2. QED
    BY <1>7, <1>8, <2>1 DEF Notify, WorkerDies, Become, At
<1>13. ASSUME NEW d \in Dates, worker[d] \in Worker, worker[d].pc # "idle", PassesFail(d),
              UNCHANGED <<version, made, cache, told, served, receipts>>,
              latest' = latest \/ latest' = [latest EXCEPT ![worker[d].report.key] = worker[d].report],
              late' = late \/ late' = late \cup {worker[d].report}
       PROVE  ObservationInv'
  <2> DEFINE r == worker[d].report
             e == [r EXCEPT !.status = "error"]
             w == [worker[d] EXCEPT !.pc = "save", !.stage = "final", !.report = e]
  <2>1. r \in Report /\ r.key \in Keys /\ r \in Reports
    BY <1>13 DEF Worker, Report, Reports, NoReport, NoWorker
  <2>2. e \in Report /\ e.status = "error" /\ Alike(e, r) /\ e.answered = r.answered
    BY <2>1 DEF Report, Alike
  <2>3. worker' = [worker EXCEPT ![d] = w]
    BY <1>13 DEF PassesFail, Become
  <2> HIDE DEF e
  <2>4. w \in Worker /\ w.report = e /\ w.pc = "save"
    BY <1>13, <2>2 DEF Worker
  <2> HIDE DEF w, r
  <2>5. ObservationKinds'
    <3>1. latest' \in [Keys -> Report \cup {NoReport}] /\ late' \subseteq Report
      BY <1>13, <2>1 DEF ObservationKinds, r
    <3>2. QED
      BY <1>13, <2>3, <2>4, <3>1 DEF ObservationKinds
  <2>6. WorkerKnows'
    BY <1>13, <2>2, <2>3, <2>4 DEF WorkerKnows, ObservationKinds
  <2>7. PassesAgree'
    <3>1. \A k \in Keys : latest'[k] = latest[k] \/ latest'[k] \in {r, e}
      BY <1>13, <2>1 DEF ObservationKinds, r
    <3>2. late' \subseteq late \cup {r, e}
      BY <1>13 DEF r
    <3>3. Reports' \subseteq Reports \cup {r, e}
      BY <1>13, <2>3, <2>4, <3>1, <3>2, ReportsMove
    <3>4. \A q \in {r, e} : \E o \in Reports : Alike(q, o) /\ q.answered = o.answered
      BY <2>1, <2>2 DEF Alike
    <3>5. QED
      BY <1>13, <3>3, <3>4, NothingNew
  <2>8. QED
    BY <1>13, <2>5, <2>6, <2>7 DEF ReceiptStands
<1>9. ASSUME NEW d \in Dates, Save(d) PROVE ObservationInv'
  <2> DEFINE r == worker[d].report
  <2>1. worker[d] \in Worker /\ worker[d] # NoWorker /\ worker[d].pc = "save"
    BY <1>9, WorkerIsWhole DEF Save, At
  <2>2. r \in Report /\ r.key \in Keys /\ r \in Reports
    BY <2>1 DEF Worker, Report, Reports, NoReport
  <2>3. /\ latest' = [latest EXCEPT ![r.key] = r]
        /\ UNCHANGED <<version, made, cache, told>>
    BY <1>9 DEF Save
  <2>4. /\ latest' \in [Keys -> Report \cup {NoReport}]
        /\ \A k \in Keys : latest'[k] = latest[k] \/ latest'[k] = r
    BY <2>2, <2>3 DEF ObservationKinds
  <2>5. CASE /\ Installable(r) /\ served' = [served EXCEPT ![r.key] = r]
             /\ receipts' = receipts \cup {r} /\ late' = late /\ GoTo(d, "job")
    <3>1. ReceiptStands'
      BY <2>2, <2>5, ConfirmedStands
    <3>2. /\ worker' = [worker EXCEPT ![d] = [worker[d] EXCEPT !.pc = "job"]]
          /\ [worker[d] EXCEPT !.pc = "job"] \in Worker
      BY <2>1, <2>5 DEF GoTo, Become, Worker
    <3>3. ObservationKinds'
      BY <2>2, <2>3, <2>4, <2>5, <3>2 DEF ObservationKinds
    <3>4. WorkerKnows'
      BY <2>1, <2>5, <3>2 DEF WorkerKnows, ObservationKinds, Worker
    <3>5. PassesAgree'
      <4>1. \A k \in Keys : served'[k] = served[k] \/ served'[k] = r
        BY <2>2, <2>5 DEF ObservationKinds
      <4>2. [worker[d] EXCEPT !.pc = "job"].report = r
        BY <2>1 DEF Worker
      <4> HIDE DEF r
      <4>3. Reports' \subseteq Reports \cup {r}
        BY <2>4, <2>5, <3>2, <4>1, <4>2, ReportsMove
      <4>4. QED
        BY <2>2, <2>3, <4>3, CopiesAgree DEF Alike
    <3>6. QED
      BY <2>3, <2>5, <3>1, <3>3, <3>4, <3>5
  <2>6. CASE /\ UploadFails(d) /\ receipts' = receipts /\ served' = served
             /\ late' = late \/ late' = late \cup {r}
    <3>1. CASE worker[d].stage = "pass"
      BY <1>13, <2>1, <2>3, <2>6, <3>1 DEF UploadFails
    <3>2. CASE worker[d].stage # "pass"
      <4>1. worker' = [worker EXCEPT ![d] = NoWorker]
        BY <2>6, <3>2 DEF UploadFails, Become
      <4>2. ObservationKinds'
        BY <2>2, <2>3, <2>4, <2>6, <4>1 DEF ObservationKinds
      <4>3. WorkerKnows'
        BY <2>6, <4>1 DEF WorkerKnows, ObservationKinds
      <4>4. Reports' \subseteq Reports \cup {r}
        BY <2>4, <2>6, <4>1, ReportsMove
      <4>5. PassesAgree'
        BY <2>2, <2>3, <4>4, CopiesAgree DEF Alike
      <4>6. QED
        BY <2>3, <2>6, <4>2, <4>3, <4>5 DEF ReceiptStands
    <3>3. QED
      BY <3>1, <3>2
  <2>7. QED
    BY <1>9, <2>5, <2>6 DEF Save
<1>10. ASSUME NEW d \in Dates, WriteJob(d) PROVE ObservationInv'
  <2> DEFINE w == worker[d]
  <2>1. w \in Worker /\ w # NoWorker /\ w.pc = "job"
    BY <1>10, WorkerIsWhole DEF WriteJob, At
  <2>2. UNCHANGED <<version, latest, made, cache, receipts, told, served, late>>
    BY <1>10 DEF WriteJob
  <2>3. PICK v \in {[w EXCEPT !.pc = "notify"], [w EXCEPT !.pc = "analyze"],
                    [w EXCEPT !.pc = "save", !.stage = "final"]} :
          /\ worker' = [worker EXCEPT ![d] = v]
          /\ v.pc = "notify" => w.stage = "final"
          /\ v.stage # w.stage => w.stage = "pass"
    BY <1>10, <2>1 DEF WriteJob, GoTo, Become, Worker
  <2>4. v \in Worker /\ v.report = w.report /\ v.pc # "job"
    BY <2>1, <2>3 DEF Worker
  <2>5. v.stage \in {"pass", "final"} => w.stage \in {"pass", "final"}
    BY <2>1, <2>3
  <2>6. w.report \in receipts
    BY <2>1 DEF WorkerKnows
  <2>7. v.pc = "notify" => v.stage = "final"
    BY <2>1, <2>3 DEF Worker
  <2>8. ObservationKinds'
    BY <2>2, <2>3, <2>4 DEF ObservationKinds
  <2>9. WorkerKnows'
    BY <2>1, <2>2, <2>3, <2>4, <2>5, <2>6, <2>7 DEF WorkerKnows, ObservationKinds
  <2>10. PassesAgree'
    <3>1. w.report \in Reports
      BY <2>1 DEF Reports, Worker, Report, NoReport
    <3>2. Reports' \subseteq Reports \cup {w.report}
      BY <2>2, <2>3, <2>4, ReportsMove
    <3>3. QED
      BY <2>2, <3>1, <3>2, CopiesAgree DEF Alike
  <2>11. QED
    BY <2>2, <2>8, <2>9, <2>10 DEF ReceiptStands
<1>11. ASSUME NEW d \in Dates, Analyze(d) PROVE ObservationInv'
  <2> DEFINE k == worker[d].report.key
  <2>1. worker[d] \in Worker /\ k \in Keys /\ worker[d].pass \in Nat
    BY <1>11, WorkerIsWhole DEF Analyze, At, Worker, Report
  <2>2. UNCHANGED <<version, latest, receipts, told, served, late>>
    BY <1>11 DEF Analyze
  <2>3. CASE PassesFail(d) /\ UNCHANGED <<cache, made>>
    BY <1>11, <1>13, <2>1, <2>2, <2>3 DEF Analyze, At
  <2>4. ASSUME NEW n \in 0..Batches, NEW status \in {"partial", "complete", "error"},
               made' = [made EXCEPT ![k] = @ + 1], cache' = [cache EXCEPT ![k] = n],
               worker' = [worker EXCEPT ![d] =
                            [pc |-> "save", stage |-> "pass", pass |-> worker[d].pass + 1,
                             report |-> ReportOf(k, made[k] + 1, status, n)]]
        PROVE  ObservationInv'
    <3> DEFINE r == ReportOf(k, made[k] + 1, status, n)
               v == [pc |-> "save", stage |-> "pass", pass |-> worker[d].pass + 1, report |-> r]
    <3>1. r \in Report /\ r.status # "pending" /\ r.key = k /\ r.generated = made[k] + 1
      BY <2>1, <2>4 DEF ReportOf, Report, ObservationKinds
    <3>2. worker' = [worker EXCEPT ![d] = v]
      BY <2>4
    <3> HIDE DEF r
    <3>3. v \in Worker /\ v.pc = "save" /\ v.report = r
      BY <2>1, <3>1 DEF Worker
    <3> HIDE DEF v
    <3>4. ObservationKinds'
      <4>1. made' \in [Keys -> Nat] /\ cache' \in [Keys -> 0..Batches]
        BY <2>1, <2>4 DEF ObservationKinds
      <4>2. QED
        BY <2>2, <3>2, <3>3, <4>1 DEF ObservationKinds
    <3>5. WorkerKnows'
      BY <2>2, <3>1, <3>2, <3>3 DEF WorkerKnows, ObservationKinds
    <3>6. PassesAgree'
      <4>1. Reports' \subseteq Reports \cup {r}
        BY <2>2, <3>2, <3>3, ReportsMove
      <4>2. QED
        BY <2>1, <2>4, <3>1, <4>1, NewAgrees
    <3>7. QED
      BY <2>2, <3>4, <3>5, <3>6 DEF ReceiptStands
  <2>5. ASSUME NEW n \in cache[k]..Min({cache[k] + MaxCalls, Batches}) PROVE n \in 0..Batches
    <3>1. cache[k] \in 0..Batches /\ cache[k] + MaxCalls \in Nat /\ Batches \in Nat
      BY <2>1, ObservationAssumption DEF ObservationKinds
    <3> DEFINE m == Min({cache[k] + MaxCalls, Batches})
    <3>2. m \in Nat /\ m <= Batches
      BY <3>1, LesserOfTwo
    <3>3. n \in cache[k]..m
      BY <2>5
    <3> HIDE DEF m
    <3>4. QED
      BY <3>1, <3>2, <3>3
  <2>6. CASE ~(PassesFail(d) /\ UNCHANGED <<cache, made>>)
    <3>1. PICK n \in cache[k]..Min({cache[k] + MaxCalls, Batches}) :
            /\ cache' = [cache EXCEPT ![k] = n] /\ made' = [made EXCEPT ![k] = @ + 1]
            /\ Become(d, [pc |-> "save", stage |-> "pass", pass |-> worker[d].pass + 1,
                          report |-> ReportOf(k, made[k] + 1,
                                       CASE n = 0 -> "error"
                                         [] n = Batches /\ d \notin Large -> "complete"
                                         [] OTHER -> "partial", n)])
      BY <1>11, <2>6 DEF Analyze, KeyOf
    <3> DEFINE status == CASE n = 0 -> "error"
                           [] n = Batches /\ d \notin Large -> "complete"
                           [] OTHER -> "partial"
    <3>2. n \in 0..Batches
      BY <2>5
    <3>3. status \in {"partial", "complete", "error"}
      OBVIOUS
    <3> HIDE DEF status
    <3>4. worker' = [worker EXCEPT ![d] =
                       [pc |-> "save", stage |-> "pass", pass |-> worker[d].pass + 1,
                        report |-> ReportOf(k, made[k] + 1, status, n)]]
      BY <3>1 DEF Become, status
    <3>5. QED
      BY <2>4, <3>1, <3>2, <3>3, <3>4
  <2>7. QED
    BY <2>3, <2>6
<1>12. QED
  BY <1>1, <1>3, <1>4, <1>5, <1>6, <1>8, <1>9, <1>10, <1>11
     DEF ObservationNext, WorkerStep

\* Whatever the server confirmed, it still holds the findings of, or a report of a later
\* pass, for any number of deaths, timeouts, corrections and uploads that land late.
THEOREM ConfirmedReportsStand == ObservationSpec => []ReceiptStands
<1>1. ObservationInv => ReceiptStands
  BY DEF ObservationInv
<1>2. QED
  BY ObservationBegins, ObservationStep, <1>1, PTL DEF ObservationSpec

\* The owner is told only of results that are confirmed and are results, whichever worker
\* of a date was interrupted where (notify_result).
THEOREM OwnerHearsOfConfirmed == ObservationSpec => []ToldIsConfirmed
<1>1. ObservationInv => ToldIsConfirmed
  BY DEF ObservationInv
<1>2. QED
  BY ObservationBegins, ObservationStep, <1>1, PTL DEF ObservationSpec

-----------------------------------------------------------------------------
(* The report of the day.                                                  *)

DayMark == 0..LastDay
MadeStage == [pc : {"composed", "reported", "emptied", "queued"}, again : BOOLEAN,
              batch : SUBSET Stories, queue : [Stories -> DayMark], out : SUBSET Stories]

\* The lists, the files and the run are of their kinds.
ReportKinds ==
  /\ day \in Days /\ torn \in BOOLEAN
  /\ deferred \in [Stories -> DayMark] /\ promised \in [Stories -> DayMark]
  /\ stage \in {Idle} \cup [pc : {"collected"}, again : BOOLEAN] \cup MadeStage

\* The queue on the disk holds what was promised, unless it is being written.
QueueHolds ==
  ~torn /\ stage.pc # "emptied" => \A m \in Stories : promised[m] # 0 => deferred[m] # 0

\* The queue that will be written holds what was promised, except what the report of
\* the day carries or what turned out not to be worth a report.
NextQueueHolds ==
  ~torn /\ stage.pc \in {"composed", "reported", "emptied"} =>
    \A m \in Stories : promised[m] # 0 =>
      stage.queue[m] # 0 \/ m \in stage.batch \cup stage.out

\* Once the report is written, nothing it carries is promised any more.
CarriedIsPaid ==
  stage.pc \in {"reported", "emptied"} => \A m \in stage.batch : promised[m] = 0

ReportInv == ReportKinds /\ QueueHolds /\ NextQueueHolds /\ CarriedIsPaid

\* Nothing is promised at the beginning.
LEMMA ReportBegins == ReportInit => ReportInv
<1> SUFFICES ASSUME ReportInit PROVE ReportInv
  OBVIOUS
<1>1. /\ promised = [m \in Stories |-> 0] /\ deferred = promised
      /\ stage = Idle /\ torn = FALSE /\ day = 1
  BY DEF ReportInit
<1>2. ReportKinds
  <2>1. 0 \in DayMark /\ 1 \in Days
    BY ReportAssumption DEF DayMark, Days
  <2>2. promised \in [Stories -> DayMark]
    BY <1>1, <2>1
  <2>3. QED
    BY <1>1, <2>1, <2>2 DEF ReportKinds
<1>3. QED
  BY <1>1, <1>2 DEF ReportInv, QueueHolds, NextQueueHolds, CarriedIsPaid, Idle

\* A deferred material that is neither in the batch nor out of the report keeps its mark.
LEMMA PostponedKeeps ==
  ASSUME ReportKinds, NEW rest \in SUBSET Stories
  PROVE  /\ Postponed(deferred, rest) \in [Stories -> DayMark]
         /\ \A m \in rest : Postponed(deferred, rest)[m] # 0
BY ReportAssumption DEF ReportKinds, Postponed, DayMark, Days

\* No step of a run, and no end of one, breaks a promise.
LEMMA ReportStep == ReportInv /\ [ReportNext]_reportVars => ReportInv'
<1> SUFFICES ASSUME ReportInv, [ReportNext]_reportVars PROVE ReportInv'
  OBVIOUS
<1> USE DEF ReportInv
<1>1. CASE UNCHANGED reportVars
  BY <1>1 DEF reportVars, ReportKinds, QueueHolds, NextQueueHolds, CarriedIsPaid
<1>2. ASSUME NEW found \in SUBSET Stories, Collect(found) \/ CollectMore(found)
      PROVE  ReportInv'
  <2>1. stage.pc \in {"idle", "queued"} /\ UNCHANGED <<day, deferred, promised, torn>>
    BY <1>2 DEF Collect, CollectMore, Idle
  <2>2. ASSUME NEW again \in BOOLEAN, stage' = [pc |-> "collected", again |-> again]
        PROVE  ReportInv'
    <3>1. stage' \in [pc : {"collected"}, again : BOOLEAN] /\ stage'.pc = "collected"
      BY <2>2
    <3>2. QED
      BY <2>1, <3>1 DEF ReportKinds, QueueHolds, NextQueueHolds, CarriedIsPaid
  <2>3. QED
    BY <1>2, <2>2 DEF Collect, CollectMore
<1>3. ASSUME NEW out \in SUBSET Stories, Compose(out) PROVE ReportInv'
  <2> DEFINE all == Candidates \cup Queued(deferred)
             included == all \ out
  <2>1. PICK batch \in DayBatches(deferred, included) :
          stage' = [pc |-> "composed", again |-> stage.again, batch |-> batch,
                    queue |-> Postponed(deferred, included \ batch), out |-> out]
    BY <1>3 DEF Compose
  <2>2. all \subseteq Stories
    BY DEF Candidates, Queued
  <2>3. batch \in SUBSET included /\ included \ batch \in SUBSET Stories
    BY <2>1, <2>2 DEF DayBatches
  <2>4. stage \in [pc : {"collected"}, again : BOOLEAN]
    BY <1>3 DEF Compose, ReportKinds, Idle, MadeStage
  <2>5. UNCHANGED <<day, deferred, promised, torn>>
    BY <1>3 DEF Compose
  <2> HIDE DEF included
  <2>6. ReportKinds'
    <3>1. stage' \in MadeStage
      BY <2>1, <2>2, <2>3, <2>4, PostponedKeeps DEF MadeStage, included
    <3>2. QED
      BY <2>5, <3>1 DEF ReportKinds
  <2>7. QueueHolds'
    BY <2>1, <2>4, <2>5 DEF QueueHolds
  <2>8. NextQueueHolds'
    <3> SUFFICES ASSUME ~torn, NEW m \in Stories, promised[m] # 0, m \notin batch, m \notin out
                 PROVE  Postponed(deferred, included \ batch)[m] # 0
      BY <2>1, <2>5 DEF NextQueueHolds
    <3>1. deferred[m] # 0
      BY <2>4 DEF QueueHolds
    <3>2. m \in included \ batch
      BY <3>1 DEF included, Queued
    <3>3. QED
      BY <2>3, <3>2, PostponedKeeps
  <2>9. QED
    BY <2>1, <2>6, <2>7, <2>8 DEF CarriedIsPaid
<1>4. ASSUME WriteReport \/ EmptyQueue \/ FillQueue
      PROVE  stage \in MadeStage /\ stage # Idle
  BY <1>4 DEF WriteReport, EmptyQueue, FillQueue, ReportKinds, Idle
<1>5. CASE WriteReport
  <2>1. stage' = [stage EXCEPT !.pc = "reported"] /\ stage' \in MadeStage
    BY <1>4, <1>5 DEF WriteReport, MadeStage
  <2>2. promised' = [m \in Stories |-> IF m \in stage.batch THEN 0 ELSE promised[m]]
    BY <1>5 DEF WriteReport
  <2>3. promised' \in [Stories -> DayMark]
    BY <2>2, ReportAssumption DEF ReportKinds, DayMark
  <2>4. stage'.batch = stage.batch /\ stage'.queue = stage.queue /\ stage'.out = stage.out
    BY <1>4, <1>5, <2>1 DEF MadeStage
  <2>5. UNCHANGED <<day, deferred, torn>> /\ stage.pc = "composed"
    BY <1>5 DEF WriteReport
  <2>6. stage'.pc = "reported"
    BY <1>4, <1>5, <2>1 DEF MadeStage
  <2>7. \A m \in Stories : promised'[m] # 0 => promised[m] # 0 /\ m \notin stage.batch
    BY <2>2
  <2>8. CarriedIsPaid'
    <3>1. stage.batch \subseteq Stories
      BY <1>4, <1>5 DEF MadeStage
    <3>2. QED
      BY <2>2, <2>4, <3>1 DEF CarriedIsPaid
  <2>9. QED
    BY <2>1, <2>3, <2>4, <2>5, <2>6, <2>7, <2>8 DEF ReportKinds, QueueHolds, NextQueueHolds
<1>6. CASE EmptyQueue
  <2>1. stage' = [stage EXCEPT !.pc = "emptied"] /\ stage' \in MadeStage
    BY <1>4, <1>6 DEF EmptyQueue, MadeStage
  <2>2. deferred' \in [Stories -> DayMark]
    BY <1>6, ReportAssumption DEF EmptyQueue, DayMark
  <2>3. /\ stage'.batch = stage.batch /\ stage'.queue = stage.queue /\ stage'.out = stage.out
        /\ stage'.pc = "emptied"
    BY <1>4, <1>6, <2>1 DEF MadeStage
  <2>4. UNCHANGED <<day, promised, torn>> /\ stage.pc = "reported"
    BY <1>6 DEF EmptyQueue
  <2>5. QED
    BY <2>1, <2>2, <2>3, <2>4 DEF ReportKinds, QueueHolds, NextQueueHolds, CarriedIsPaid
<1>7. CASE FillQueue
  <2>1. stage' = [stage EXCEPT !.pc = "queued"] /\ stage' \in MadeStage
    BY <1>4, <1>7 DEF FillQueue, MadeStage
  <2>2. /\ deferred' = stage.queue
        /\ promised' = [m \in Stories |-> IF stage.queue[m] # 0 /\ promised[m] = 0 THEN day
                                          ELSE IF m \in stage.out THEN 0 ELSE promised[m]]
        /\ UNCHANGED <<day, torn>> /\ stage.pc = "emptied"
    BY <1>7 DEF FillQueue
  <2>3. deferred' \in [Stories -> DayMark]
    BY <1>4, <1>7, <2>2 DEF MadeStage
  <2>4. promised' \in [Stories -> DayMark]
    BY <2>2, ReportAssumption DEF ReportKinds, DayMark, Days
  <2>5. stage'.pc = "queued"
    BY <1>4, <1>7, <2>1 DEF MadeStage
  <2>6. QueueHolds'
    <3> SUFFICES ASSUME ~torn, NEW m \in Stories, promised'[m] # 0 PROVE stage.queue[m] # 0
      BY <2>2 DEF QueueHolds
    <3>1. CASE promised[m] # 0
      <4>1. m \notin stage.out /\ m \notin stage.batch
        BY <2>2, <3>1 DEF CarriedIsPaid
      <4>2. QED
        BY <2>2, <3>1, <4>1 DEF NextQueueHolds
    <3>2. CASE promised[m] = 0
      BY <2>2, <3>2
    <3>3. QED
      BY <3>1, <3>2
  <2>7. QED
    BY <2>1, <2>2, <2>3, <2>4, <2>5, <2>6 DEF ReportKinds, NextQueueHolds, CarriedIsPaid
<1>8. CASE FinishRun \/ AbortRun
  <2>1. /\ stage' = Idle /\ UNCHANGED <<day, deferred, promised>>
        /\ torn' \in BOOLEAN /\ (~torn' => ~torn /\ stage.pc # "emptied")
    BY <1>8 DEF FinishRun, AbortRun, ReportKinds
  <2>2. QED
    BY <2>1 DEF ReportKinds, QueueHolds, NextQueueHolds, CarriedIsPaid, Idle
<1>9. CASE NextDay
  <2>1. day' \in Days
    BY <1>9, ReportAssumption DEF NextDay, ReportKinds, Days
  <2>2. QED
    BY <1>9, <2>1 DEF NextDay, ReportKinds, QueueHolds, NextQueueHolds, CarriedIsPaid
<1>10. QED
  BY <1>1, <1>2, <1>3, <1>5, <1>6, <1>7, <1>8, <1>9 DEF ReportNext

\* However often a day's run fails, dies or is repeated: between the runs every material
\* that was deferred has its line in the queue until a report carries it.
THEOREM PromisesAreKept == ReportSpec => []PromiseKept
<1>1. ReportInv => PromiseKept
  BY DEF ReportInv, QueueHolds, PromiseKept, Idle
<1>2. QED
  BY ReportBegins, ReportStep, <1>1, PTL DEF ReportSpec

-----------------------------------------------------------------------------
(* The publication of the first Radar.                                     *)

Asks == [pc : {"cards"}, left : SUBSET CardKeys, ready : SUBSET CardKeys, byHand : BOOLEAN]
TextStatus == {"none", "success", "fallback", "error"}
PlainScripts == {"rebuild", "classify", "theses", "daily", "brief", "export"}

\* Reports, cards and texts are of dates that were.
PublishKinds ==
  /\ night \in Nights
  /\ \A d \in Nights : reported[d] # NoFile => d <= night
  /\ reported \in [Nights -> {NoFile} \cup [articles : SUBSET Articles]]
  /\ issues \subseteq 1..night
  /\ cards \subseteq CardKeys
  /\ texts \in [CardKeys -> TextStatus]
  /\ script \in {Done} \cup [pc : PlainScripts] \cup Asks \cup [pc : {"issues"}, left : SUBSET Nights]

\* The scripts of the night work on an issue of that night.
NightHasIssue ==
  /\ script.pc = "rebuild" => reported[night] # NoFile
  /\ script.pc \in PlainScripts \ {"rebuild"} => night \in issues
  /\ script.pc = "cards" => script.byHand \/ night \in issues

\* While cards are asked for, each has its row, or is still to be asked for or written.
CardsAccounted ==
  /\ script.pc = "cards" =>
       \A c \in CardsOf(night) : c \in script.left \cup script.ready \/ texts[c] # "none"
  /\ script.pc = "export" => \A c \in CardsOf(night) : texts[c] # "none"

PublishInv == PublishKinds /\ NightHasIssue /\ CardsAccounted /\ FrontIsAccounted

\* Nothing is published yet.
LEMMA PublishBegins == PublishInit => PublishInv
<1> SUFFICES ASSUME PublishInit PROVE PublishInv
  OBVIOUS
<1>1. PublishKinds
  BY PublishAssumption DEF PublishInit, PublishKinds, Nights, Done, TextStatus
<1>2. QED
  BY <1>1 DEF PublishInit, PublishInv, NightHasIssue, CardsAccounted, FrontIsAccounted, Done,
              PlainScripts

\* The issue of the night is the newest one.
LEMMA NewestIssue ==
  ASSUME night \in Nat, issues \subseteq 1..night, night \in issues PROVE Max(issues) = night
<1>1. \A d \in issues : d \in Nat /\ d <= night
  OBVIOUS
<1>2. \E x \in issues : \A y \in issues : x >= y
  BY <1>1
<1>3. Max(issues) \in issues /\ \A y \in issues : Max(issues) >= y
  BY <1>2 DEF Max
<1>4. Max(issues) >= night /\ Max(issues) \in Nat /\ Max(issues) <= night
  BY <1>1, <1>3
<1>5. QED
  BY <1>4

\* Each step of the night leaves what follows it something to show for every card.
LEMMA PublishStep == PublishInv /\ [PublishNext]_publishVars => PublishInv'
<1> SUFFICES ASSUME PublishInv, [PublishNext]_publishVars PROVE PublishInv'
  OBVIOUS
<1> USE DEF PublishInv
<1>1. CASE UNCHANGED publishVars
  BY <1>1 DEF publishVars, PublishKinds, NightHasIssue, CardsAccounted, FrontIsAccounted, CardsOf
<1>2. ASSUME NEW found \in SUBSET Articles, ReportArrives(found) PROVE PublishInv'
  <2>1. /\ reported' = [reported EXCEPT ![night] = [articles |-> found]]
        /\ script' = [pc |-> "rebuild"]
        /\ UNCHANGED <<night, issues, cards, texts, front>>
    BY <1>2 DEF ReportArrives
  <2>2. [articles |-> found] \in [articles : SUBSET Articles]
    OBVIOUS
  <2>3. [articles |-> found] # NoFile
    BY DEF NoFile
  <2>4. script' \in [pc : PlainScripts] /\ script'.pc = "rebuild"
    BY <2>1 DEF PlainScripts
  <2>5. PublishKinds'
    BY <2>1, <2>2, <2>4 DEF PublishKinds, Nights
  <2>6. NightHasIssue'
    BY <2>1, <2>3, <2>4 DEF NightHasIssue, PublishKinds, PlainScripts
  <2>7. QED
    BY <2>1, <2>4, <2>5, <2>6 DEF CardsAccounted, FrontIsAccounted
<1>3. CASE Rebuild
  <2>1. /\ script.pc = "rebuild" /\ script' = [pc |-> "classify"]
        /\ issues' = issues \cup Dated /\ cards' = Reported
        /\ texts' = [c \in CardKeys |-> "none"]
        /\ UNCHANGED <<night, reported, front>>
    BY <1>3 DEF Rebuild
  <2>2. script' \in [pc : PlainScripts] /\ script'.pc = "classify"
    BY <2>1 DEF PlainScripts
  <2>3. Dated \subseteq 1..night /\ Reported \subseteq CardKeys
    BY DEF Dated, Reported, PublishKinds, Nights
  <2>4. night \in Dated
    BY <2>1 DEF Dated, NightHasIssue, PublishKinds
  <2>5. PublishKinds'
    BY <2>1, <2>2, <2>3 DEF PublishKinds, TextStatus
  <2>6. QED
    BY <2>1, <2>2, <2>4, <2>5 DEF NightHasIssue, CardsAccounted, FrontIsAccounted
\* The steps that touch neither cards nor texts nor issues.
<1>4. ASSUME UNCHANGED <<night, reported, issues, cards, texts, front>>,
             NEW next \in PlainScripts \ {"rebuild", "export"}, script' = [pc |-> next],
             script.pc \in PlainScripts \ {"rebuild"}
      PROVE  PublishInv'
  <2>1. script' \in [pc : PlainScripts] /\ script'.pc = next
    BY <1>4
  <2>2. next # "rebuild" /\ next # "cards" /\ next # "export"
    BY <1>4 DEF PlainScripts
  <2>3. QED
    BY <1>4, <2>1, <2>2
       DEF PublishKinds, NightHasIssue, CardsAccounted, FrontIsAccounted
<1>5. CASE (\E failed \in SUBSET CardKeys : Classify(failed))
             \/ (\E some \in SUBSET Nights : Summarise(some))
             \/ (\E status \in {"success", "error"} : AnalyseDay(status))
  BY <1>4, <1>5 DEF Classify, Summarise, AnalyseDay, PlainScripts
<1>6. ASSUME UNCHANGED <<night, reported, issues, cards, texts, front>>, script' = Done
      PROVE  PublishInv'
  BY <1>6 DEF PublishKinds, NightHasIssue, CardsAccounted, FrontIsAccounted, Done, PlainScripts
<1>7. CASE NothingJudged \/ ExportIndex \/ EndsEarly
  BY <1>6, <1>7 DEF NothingJudged, ExportIndex, EndsEarly
<1>8. CASE NothingToAnalyse
  <2>1. /\ script.pc = "daily" /\ CardsOf(night) = {} /\ script' = [pc |-> "export"]
        /\ UNCHANGED <<night, reported, issues, cards, texts, front>>
    BY <1>8 DEF NothingToAnalyse
  <2>2. script' \in [pc : PlainScripts] /\ script'.pc = "export"
    BY <2>1 DEF PlainScripts
  <2>3. night \in issues
    BY <2>1 DEF NightHasIssue, PlainScripts
  <2>4. CardsOf(night)' = {}
    BY <2>1 DEF CardsOf
  <2>5. QED
    BY <2>1, <2>2, <2>3, <2>4 DEF PublishKinds, NightHasIssue, CardsAccounted, FrontIsAccounted
<1>9. AsksCards \in Asks /\ AsksCards.left = CardsOf(night) /\ ~AsksCards.byHand
      /\ AsksCards.pc = "cards"
  BY DEF AsksCards, Asks, CardsOf, PublishKinds
<1>10. ASSUME UNCHANGED <<night, reported, issues, cards, texts, front>>,
              script' \in Asks, script'.left = CardsOf(night),
              script'.byHand \/ night \in issues
       PROVE  PublishInv'
  <2>1. script'.pc = "cards"
    BY <1>10 DEF Asks
  <2>2. QED
    BY <1>10, <2>1
       DEF PublishKinds, NightHasIssue, CardsAccounted, FrontIsAccounted, CardsOf, PlainScripts
<1>11. ASSUME NEW status, BriefDay(status) PROVE PublishInv'
  <2>1. night \in issues
    BY <1>11 DEF BriefDay, NightHasIssue, PlainScripts
  <2>2. QED
    BY <1>9, <1>10, <1>11, <2>1 DEF BriefDay
<1>12. CASE CardsByHand
  <2>1. script' = [AsksCards EXCEPT !.byHand = TRUE]
    BY <1>12 DEF CardsByHand
  <2>2. script' \in Asks /\ script'.left = CardsOf(night) /\ script'.byHand
    BY <1>9, <2>1 DEF Asks
  <2>3. QED
    BY <1>10, <1>12, <2>2 DEF CardsByHand
<1>13. ASSUME script.pc = "cards" PROVE script \in Asks
  BY <1>13 DEF PublishKinds, Done, PlainScripts
<1>14. ASSUME NEW c \in CardKeys, NEW status \in {"fallback", "error"}
       PROVE  /\ Mark(c, status)[c] # "none"
              /\ Mark(c, status) \in [CardKeys -> TextStatus]
              /\ \A e \in CardKeys : texts[e] # "none" => Mark(c, status)[e] # "none"
  BY <1>14 DEF Mark, PublishKinds, TextStatus
\* What happens to one card while cards are asked for.
<1>15. ASSUME script \in Asks, NEW c \in CardKeys, NEW left, NEW ready,
              left \in SUBSET CardKeys, ready \in SUBSET CardKeys,
              script' = [pc |-> "cards", left |-> left, ready |-> ready, byHand |-> script.byHand],
              UNCHANGED <<night, reported, issues, cards, front>>,
              texts' \in [CardKeys -> TextStatus],
              \A e \in CardKeys : texts[e] # "none" => texts'[e] # "none",
              \A e \in script.left \cup script.ready :
                e \in left \cup ready \/ texts'[e] # "none"
       PROVE  PublishInv'
  <2>1. script' \in Asks /\ script'.pc = "cards" /\ script'.byHand = script.byHand
        /\ script'.left = left /\ script'.ready = ready /\ script.pc = "cards"
    BY <1>15 DEF Asks
  <2>2. CardsOf(night)' = CardsOf(night) /\ CardsOf(night) \subseteq CardKeys
    BY <1>15 DEF CardsOf, PublishKinds
  <2>3. PublishKinds'
    BY <1>15, <2>1 DEF PublishKinds
  <2>4. CardsAccounted'
    BY <1>15, <2>1, <2>2 DEF CardsAccounted
  <2>5. QED
    BY <1>15, <2>1, <2>3, <2>4 DEF NightHasIssue, FrontIsAccounted, PlainScripts
<1>16. ASSUME NEW c \in CardKeys, NEW status \in {"fallback", "error"}, CardLacks(c, status)
       PROVE  PublishInv'
  <2>1. script \in Asks
    BY <1>13, <1>16 DEF CardLacks
  <2>2. /\ script' = [pc |-> "cards", left |-> script.left \ {c}, ready |-> script.ready,
                     byHand |-> script.byHand]
        /\ script.left \ {c} \in SUBSET CardKeys /\ script.ready \in SUBSET CardKeys
    BY <1>16, <2>1 DEF CardLacks, Asks
  <2>3. texts' = Mark(c, status) /\ UNCHANGED <<night, reported, issues, cards, front>>
    BY <1>16 DEF CardLacks
  <2>4. QED
    BY <1>14, <1>15, <2>1, <2>2, <2>3
<1>17. ASSUME NEW c \in CardKeys, CardMade(c) PROVE PublishInv'
  <2>1. script \in Asks
    BY <1>13, <1>17 DEF CardMade
  <2>2. /\ script' = [pc |-> "cards", left |-> script.left \ {c}, ready |-> script.ready \cup {c},
                     byHand |-> script.byHand]
        /\ script.left \ {c} \in SUBSET CardKeys /\ script.ready \cup {c} \in SUBSET CardKeys
    BY <1>17, <2>1 DEF CardMade, Asks
  <2>3. UNCHANGED <<night, reported, issues, cards, front, texts>>
    BY <1>17 DEF CardMade
  <2>4. texts' \in [CardKeys -> TextStatus]
    BY <2>3 DEF PublishKinds
  <2>5. QED
    BY <1>15, <2>1, <2>2, <2>3, <2>4
<1>18. ASSUME NEW c \in CardKeys, CardRepeats(c) PROVE PublishInv'
  <2>1. script \in Asks
    BY <1>13, <1>18 DEF CardRepeats
  <2>2. /\ script' = [pc |-> "cards", left |-> script.left, ready |-> script.ready \ {c},
                     byHand |-> script.byHand]
        /\ script.left \in SUBSET CardKeys /\ script.ready \ {c} \in SUBSET CardKeys
    BY <1>18, <2>1 DEF CardRepeats, Asks
  <2>3. texts' = Mark(c, "error") /\ UNCHANGED <<night, reported, issues, cards, front>>
    BY <1>18 DEF CardRepeats
  <2>4. QED
    BY <1>14, <1>15, <2>1, <2>2, <2>3
<1>19. CASE WriteCards
  <2>1. /\ script.pc = "cards" /\ script.left = {}
        /\ texts' = [c \in CardKeys |-> IF c \in script.ready THEN "success" ELSE texts[c]]
        /\ script' = IF script.byHand THEN Done ELSE [pc |-> "export"]
        /\ UNCHANGED <<night, reported, issues, cards, front>>
    BY <1>19 DEF WriteCards
  <2>2. texts' \in [CardKeys -> TextStatus]
    BY <2>1 DEF PublishKinds, TextStatus
  <2>3. \A c \in CardsOf(night)' : texts'[c] # "none"
    BY <2>1 DEF CardsOf, PublishKinds, CardsAccounted
  <2>4. CASE script.byHand
    BY <2>1, <2>2, <2>4
       DEF PublishKinds, NightHasIssue, CardsAccounted, FrontIsAccounted, Done, PlainScripts
  <2>5. CASE ~script.byHand
    <3>1. script' \in [pc : PlainScripts] /\ script'.pc = "export"
      BY <2>1, <2>5 DEF PlainScripts
    <3>2. night \in issues
      BY <2>1, <2>5 DEF NightHasIssue
    <3>3. PublishKinds'
      BY <2>1, <2>2, <3>1 DEF PublishKinds
    <3>4. QED
      BY <2>1, <2>3, <3>1, <3>2, <3>3 DEF NightHasIssue, CardsAccounted, FrontIsAccounted
  <2>6. QED
    BY <2>4, <2>5
<1>20. ASSUME UNCHANGED <<night, reported, issues, cards, texts>>,
              script' \in [pc : {"issues"}, left : SUBSET Nights], FrontIsAccounted'
       PROVE  PublishInv'
  <2>1. script'.pc = "issues"
    BY <1>20
  <2>2. QED
    BY <1>20, <2>1 DEF PublishKinds, NightHasIssue, CardsAccounted, PlainScripts
<1>21. CASE ExportFront
  <2>1. /\ script.pc = "export" /\ script' = [pc |-> "issues", left |-> issues]
        /\ front' = IF issues = {} THEN front ELSE Payload(Max(issues))
        /\ UNCHANGED <<night, reported, issues, cards, texts>>
    BY <1>21 DEF ExportFront
  <2>2. night \in issues
    BY <2>1 DEF NightHasIssue, PlainScripts
  <2>3. front' = Payload(night)
    BY <2>1, <2>2, NewestIssue DEF PublishKinds, Nights
  <2>4. FrontIsAccounted'
    <3> SUFFICES ASSUME NEW a \in front'.cards PROVE front'.texts[a] # "none"
      BY DEF FrontIsAccounted
    <3>1. PICK c \in CardsOf(night) : a = c[2]
      BY <2>3 DEF Payload
    <3>2. c = <<night, a>> /\ a \in Articles
      BY <3>1 DEF CardsOf, PublishKinds, CardKeys
    <3>3. front'.texts[a] = texts[<<night, a>>]
      BY <2>3, <3>2 DEF Payload
    <3>4. QED
      BY <2>1, <3>2, <3>3 DEF CardsAccounted
  <2>5. script' \in [pc : {"issues"}, left : SUBSET Nights]
    BY <2>1, PublishAssumption DEF PublishKinds, Nights
  <2>6. QED
    BY <1>20, <2>1, <2>4, <2>5
<1>22. CASE ExportIssue
  <2>1. script \in [pc : {"issues"}, left : SUBSET Nights]
    BY <1>22 DEF ExportIssue, PublishKinds, Done, Asks, PlainScripts
  <2>2. /\ \E d : script' = [script EXCEPT !.left = @ \ {d}]
        /\ UNCHANGED <<night, reported, issues, cards, texts, front>>
    BY <1>22 DEF ExportIssue
  <2>3. script' \in [pc : {"issues"}, left : SUBSET Nights]
    BY <2>1, <2>2
  <2>4. QED
    BY <1>20, <2>2, <2>3 DEF FrontIsAccounted
<1>23. CASE NextNight
  <2>1. /\ script = Done /\ night' = night + 1 /\ night < LastNight
        /\ UNCHANGED <<reported, script, issues, cards, texts, front>>
    BY <1>23 DEF NextNight
  <2>2. PublishKinds'
    BY <2>1, PublishAssumption DEF PublishKinds, Nights
  <2>3. QED
    BY <2>1, <2>2 DEF NightHasIssue, CardsAccounted, FrontIsAccounted, Done, PlainScripts
<1>24. QED
  BY <1>1, <1>2, <1>3, <1>5, <1>7, <1>8, <1>11, <1>12, <1>16, <1>17, <1>18, <1>19, <1>21,
     <1>22, <1>23
     DEF PublishNext

\* The issue that is shown first accounts for the texts of all its cards, for any number
\* of nights, publications, failing models and early ends.
THEOREM FrontAccounted == PublishSpec => []FrontIsAccounted
<1>1. PublishInv => FrontIsAccounted
  BY DEF PublishInv
<1>2. QED
  BY PublishBegins, PublishStep, <1>1, PTL DEF PublishSpec

\* The analysis a model made of an earlier date stays: the rebuild keeps the issues, the
\* rules recognise it, and the models are asked for the night's date alone.
THEOREM AnalysesStay == PublishSpec => AnalysisStays
<1>1. ASSUME PublishInv, [PublishNext]_publishVars,
             NEW d \in Nights, d < night, analysis[d] = "success"
      PROVE  analysis'[d] = "success"
  <2>1. CASE UNCHANGED analysis
    BY <1>1, <2>1
  <2>2. ASSUME NEW failed \in SUBSET Nights, Summarise(failed) PROVE analysis'[d] = "success"
    BY <1>1, <2>2 DEF Summarise, Current
  <2>3. ASSUME NEW status, AnalyseDay(status) PROVE analysis'[d] = "success"
    <3>1. night \in Nat /\ d # night
      BY <1>1 DEF PublishInv, PublishKinds, Nights
    <3>2. QED
      BY <1>1, <2>3, <3>1 DEF AnalyseDay
  <2>4. QED
    BY <1>1, <2>1, <2>2, <2>3
       DEF PublishNext, publishVars, ReportArrives, Rebuild, Classify, NothingToAnalyse, BriefDay,
           CardsByHand, CardLacks, CardMade, CardRepeats, WriteCards, ExportFront, NothingJudged,
           ExportIssue, ExportIndex, EndsEarly, NextNight
<1>2. PublishInv /\ [PublishNext]_publishVars =>
        [\A d \in Nights : d < night /\ analysis[d] = "success" => analysis'[d] = "success"]_publishVars
  BY <1>1
<1>3. QED
  BY PublishBegins, PublishStep, <1>2, PTL DEF PublishSpec, AnalysisStays
=============================================================================
