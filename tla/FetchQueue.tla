------------------------------ MODULE FetchQueue ------------------------------
(***************************************************************************)
(* The fetch queue of the knowledge system: PostgreSQL rows with leases,   *)
(* worker processes that claim, download and record (worker.py, fetcher.py *)
(* and the queue's handlers in database.py), and the operator's commands.  *)
(*                                                                         *)
(* Transactions run at READ COMMITTED: a statement reads what was          *)
(* committed when it began.  A claim is therefore several steps, and a row *)
(* it chose may have changed when it locks it: FOR UPDATE SKIP LOCKED      *)
(* re-reads the row but only the join on document_id is evaluated again.   *)
(***************************************************************************)
EXTENDS Naturals, FiniteSets

CONSTANTS
    Docs,           \* documents a manifest or a perimeter may name
    Perimeter,      \* those a published issue selected
    Host,           \* [Docs -> hosts]
    Workers,        \* worker processes
    Slots,          \* concurrent fetches of one worker
    MaxAttempts,    \* settings.max_attempts
    PerHost,        \* settings.max_in_flight_per_host
    MaxRung,        \* rungs of a host's ladder above the first
    MaxEdition,     \* bound: contents a page has in turn
    Parse,          \* what the parser makes of each, [Docs -> sequences]
    MaxTime,        \* bound: downloaded bodies, [Docs -> numbers]
    MaxFaults,      \* bound: dying workers, leases that end during the fetch
    MaxCommands     \* bound: commands of the operator

ASSUME DocsAssumption == Perimeter \subseteq Docs /\ IsFiniteSet(Docs)
ASSUME SlotsAssumption == Slots # {} /\ IsFiniteSet(Slots)
ASSUME ParseAssumption ==
    \A d \in Docs : /\ DOMAIN Parse[d] \subseteq 1..MaxEdition
                    /\ 1 \in DOMAIN Parse[d]
                    /\ \A e \in DOMAIN Parse[d] :
                          Parse[d][e] \in {"complete", "partial", "unreadable"}
ASSUME BoundsAssumption ==
    /\ MaxAttempts \in Nat \ {0} /\ PerHost \in Nat \ {0}
    /\ {MaxRung, MaxEdition, MaxFaults, MaxCommands} \subseteq Nat
    /\ MaxTime \in [Docs -> Nat]

VARIABLES
    queue,      \* rows of fetch_queue
    best,       \* documents.best_version_id
    stored,     \* document_versions
    bodies,     \* retained bodies of fetch_attempts, by document
    validator,  \* content of the attempt whose etag the next request sends
    page,       \* what each site served last
    time,       \* downloads of each document so far
    txn,        \* a worker's claim in progress
    flight,     \* a worker's fetches
    pass,       \* an operator's pass over rows it read: reparse or plan
    faults, commands    \* how many there were

tables == <<queue, best, stored, bodies, validator>>
world == <<page, time>>
bounds == <<faults, commands>>
vars == <<tables, world, txn, flight, pass, bounds>>

----------------------------------------------------------------------------
(* Rows, versions and tasks.  A version is identified by its document, its *)
(* body and the parser release.  Editions are what the site served; a file *)
(* that an operator hands over and the two kinds of legacy cache are other *)
(* bodies; 0 stands for none.                                              *)

Status == {"none", "pending", "running", "retry", "succeeded", "failed"}
\* An error code by what next_step makes of it: the ladder ends, or goes on.
ErrorClass == {"none", "final", "hinted"}
Row == [status: Status, attempts: Nat, lapsed: BOOLEAN, due: BOOLEAN,
        high: BOOLEAN, override: BOOLEAN, error: ErrorClass,
        rung: Nat, tried: SUBSET Nat, terminal: BOOLEAN]
NoRow == [status |-> "none", attempts |-> 0, lapsed |-> FALSE, due |-> TRUE,
          high |-> FALSE, override |-> FALSE, error |-> "none",
          rung |-> 0, tried |-> {}, terminal |-> FALSE]

Edition == 1..MaxEdition
Artifact == MaxEdition + 1
Snapshot == MaxEdition + 2
Excerpt == MaxEdition + 3
Content == 1..Excerpt
ParserRelease == {0, 1}       \* the parser release of the workers, a later one
Version == [edition: Content, release: ParserRelease]
NoVersion == [edition |-> 0, release |-> 0]
StoredVersion == [complete: BOOLEAN, at: Nat]

Result == {"open", "complete", "partial", "unreadable", "unchanged", "transient", "refused", "ended"}
HasBody == {"complete", "partial", "unreadable"}
Task == [doc: Docs, attempts: Nat, etag: 0..MaxEdition, override: BOOLEAN,
         result: Result, edition: 0..MaxEdition, at: Nat]
Free == [result |-> "free"]

Body == [edition: Edition \cup {Snapshot}, finished: Nat]

NoTxn == [step |-> "none", expired |-> {}, chosen |-> {}, picked |-> {}]
NoPass == [kind |-> "none", rows |-> {}]

TypeOK ==
    /\ queue \in [Docs -> Row]
    /\ best \in [Docs -> Version \cup {NoVersion}]
    /\ \A d \in Docs : /\ DOMAIN stored[d] \subseteq Version
                       /\ \A v \in DOMAIN stored[d] : stored[d][v] \in StoredVersion
                       /\ bodies[d] \subseteq Body
    /\ validator \in [Docs -> 0..MaxEdition]
    /\ page \in [Docs -> Edition]
    /\ \A d \in Docs : time[d] \in 0..MaxTime[d]
    /\ flight \in [Workers -> [Slots -> Task \cup {Free}]]
    /\ faults \in 0..MaxFaults /\ commands \in 0..MaxCommands

Init ==
    /\ queue = [d \in Docs |-> NoRow]
    /\ best = [d \in Docs |-> NoVersion]
    /\ stored = [d \in Docs |-> <<>>]
    /\ bodies = [d \in Docs |-> {}]
    /\ validator = [d \in Docs |-> 0]
    /\ page = [d \in Docs |-> 1]
    /\ time = [d \in Docs |-> 0]
    /\ txn = [w \in Workers |-> NoTxn]
    /\ flight = [w \in Workers |-> [s \in Slots |-> Free]]
    /\ pass = NoPass
    /\ faults = 0 /\ commands = 0

----------------------------------------------------------------------------
(* Statements over a row, and the rows that a claim in progress holds.     *)

Fault == faults < MaxFaults /\ faults' = faults + 1
Command == commands < MaxCommands /\ commands' = commands + 1
Locked(d) == \E w \in Workers : d \in txn[w].expired \cup txn[w].picked
Incomplete(d) == \A v \in DOMAIN stored[d] : ~stored[d][v].complete
FreeSlots(w) == {s \in Slots : flight[w][s] = Free}
Fetching(d) == \E w \in Workers, s \in Slots :
                   flight[w][s] # Free /\ flight[w][s].doc = d

\* Variant: an expired lease gets a status the table's CHECK does not know.
ReleasedExpired(row) == [row EXCEPT !.status = "expired", !.lapsed = FALSE]

\* "UPDATE ... WHERE status = 'running' AND lease_until < now" on one row.
Released(row) ==
    [row EXCEPT !.status = "retry", !.lapsed = FALSE, !.due = TRUE, !.error = "hinted",
                !.attempts = IF @ > 0 THEN @ - 1 ELSE 0]

Requeued(row) ==
    [row EXCEPT !.status = "retry", !.attempts = 0, !.lapsed = FALSE, !.due = TRUE]

\* What a version's insertion and the update of best_version_id leave: a row
\* that is there stays as it is, and a complete parse replaces an older best.
Insert(d, v, complete, at) ==
    /\ stored' = [stored EXCEPT ![d] =
                     [u \in DOMAIN @ \cup {v} |->
                         IF u \in DOMAIN @ THEN @[u] ELSE [complete |-> complete, at |-> at]]]
    /\ best' = IF /\ complete
                  /\ best[d] = NoVersion \/ stored[d][best[d]].at <= at
               THEN [best EXCEPT ![d] = v] ELSE best

----------------------------------------------------------------------------
(* claim_tasks.                                                            *)

\* What the transaction reads: its own uncommitted update of the expired rows
\* over the committed ones.
RowInClaim(expired, d) == IF d \in expired THEN Released(queue[d]) ELSE queue[d]

Waiting(row) ==
    row.status \in {"pending", "retry"} /\ row.due /\ row.attempts < MaxAttempts

Load(expired, h) ==
    Cardinality({d \in Docs \ expired : Host[d] = h /\ queue[d].status = "running"})
Before(c, d) == queue[c].high \/ ~queue[d].high
SmallerOf(a, b) == IF a < b THEN a ELSE b
FirstOf(part, rows, n) ==
    /\ part \subseteq rows
    /\ Cardinality(part) = SmallerOf(n, Cardinality(rows))
    /\ \A c \in part, d \in rows \ part : Before(c, d)

\* The transaction takes the expired leases back, waiting for a row that
\* another claim holds, and the second statement reads its snapshot: the first
\* rows of each host up to its limit, and of those the first up to the free
\* slots.  (Commits between the two statements commute with the first, which
\* locks what it changes.)  A claim that changes nothing is left out.
ClaimRead(w) ==
    LET expired == {d \in Docs : queue[d].status = "running" /\ queue[d].lapsed}
        ready == {d \in Docs : Waiting(RowInClaim(expired, d))}
        room(h) == IF Load(expired, h) < PerHost THEN PerHost - Load(expired, h) ELSE 0
    IN
    /\ txn[w] = NoTxn
    /\ FreeSlots(w) # {}
    /\ \A d \in expired : ~Locked(d)
    /\ \E ranked \in SUBSET ready : \E chosen \in SUBSET ranked :
          /\ \A h \in {Host[d] : d \in Docs} :
                FirstOf({d \in ranked : Host[d] = h}, {d \in ready : Host[d] = h}, room(h))
          /\ FirstOf(chosen, ranked, Cardinality(FreeSlots(w)))
          /\ chosen # {} \/ expired # {}
          /\ txn' = [txn EXCEPT ![w] = [step |-> "chosen", expired |-> expired,
                                        chosen |-> chosen, picked |-> {}]]
    /\ UNCHANGED <<tables, world, flight, pass, bounds>>

\* FOR UPDATE SKIP LOCKED, on the rows as they are now.
ClaimLock(w) ==
    /\ txn[w].step = "chosen"
    /\ LET others == UNION {txn[v].expired \cup txn[v].picked : v \in Workers \ {w}}
       IN txn' = [txn EXCEPT ![w].step = "picked", ![w].picked = txn[w].chosen \ others]
    /\ UNCHANGED <<tables, world, flight, pass, bounds>>

\* The update, the tasks read back and the commit; each task goes to a slot.
ClaimCommit(w) ==
    /\ txn[w].step = "picked"
    /\ queue' = [d \in Docs |->
          IF d \in txn[w].picked
          THEN [RowInClaim(txn[w].expired, d) EXCEPT !.status = "running", !.attempts = @ + 1, !.lapsed = FALSE]
          ELSE RowInClaim(txn[w].expired, d)]
    /\ \E seat \in [txn[w].picked -> FreeSlots(w)] :
          /\ \A c, d \in txn[w].picked : seat[c] = seat[d] => c = d
          /\ flight' = [flight EXCEPT ![w] = [s \in Slots |->
                IF \E d \in txn[w].picked : seat[d] = s
                THEN LET d == CHOOSE d \in txn[w].picked : seat[d] = s
                     IN [doc |-> d, attempts |-> queue'[d].attempts, etag |-> validator[d],
                         override |-> queue[d].override, result |-> "open",
                         edition |-> 0, at |-> 0]
                ELSE flight[w][s]]]
    /\ txn' = [txn EXCEPT ![w] = NoTxn]
    /\ UNCHANGED <<best, stored, bodies, validator, world, pass, bounds>>

----------------------------------------------------------------------------
(* fetch_document.  The parse depends on the content alone; a site answers *)
(* 304 only to a request that named the content it still serves.           *)

PageAnswer(t, edition) ==
    LET d == t.doc IN
    {[t EXCEPT !.result = r, !.edition = edition, !.at = 2 * (time[d] + 1)] :
        r \in IF time[d] < MaxTime[d] THEN {Parse[d][edition]} ELSE {}}
    \cup {[t EXCEPT !.result = r] : r \in {"transient", "ended"}}
    \cup {[t EXCEPT !.result = "refused"] : x \in IF t.override THEN {} ELSE {1}}
    \cup {[t EXCEPT !.result = "unchanged"] : x \in IF t.etag = edition THEN {1} ELSE {}}

\* The site may have moved on to a later edition since the last request.
Download(w, s) ==
    /\ flight[w][s] # Free /\ flight[w][s].result = "open"
    /\ LET d == flight[w][s].doc IN
       \E edition \in DOMAIN Parse[d] : \E t \in PageAnswer(flight[w][s], edition) :
          /\ edition >= page[d]
          /\ t.result \in HasBody \cup {"unchanged"} \/ edition = page[d]
          /\ flight' = [flight EXCEPT ![w][s] = t]
          /\ page' = [page EXCEPT ![d] = edition]
          /\ time' = [time EXCEPT ![d] = IF t.result \in HasBody THEN @ + 1 ELSE @]
    /\ UNCHANGED <<tables, txn, pass, bounds>>

\* record_fetch_result.  The worker's own claims and records are sequential;
\* the lease the task was claimed under is not looked at.
\* Variant: text that is too short counts as success.
NextStatusLenient(t) ==
    IF t.result \in {"complete", "partial", "unchanged"} THEN "succeeded" ELSE "failed"

NextStatus(t) ==
    CASE t.result \in {"complete", "unchanged"} -> "succeeded"
      [] t.result = "transient" /\ t.attempts < MaxAttempts -> "retry"
      [] OTHER -> "failed"

ErrorOf(t) ==
    CASE t.result \in {"complete", "unchanged"} -> "none"
      [] t.result \in {"partial", "unreadable", "refused"} -> "hinted"
      [] OTHER -> "final"

Record(w, s) ==
    LET t == flight[w][s]
        d == t.doc
        finished == 2 * time[d] + 1
    IN
    /\ txn[w] = NoTxn
    /\ t # Free /\ t.result # "open"
    /\ ~Locked(d)
    /\ IF t.result \in {"complete", "partial"}
       THEN Insert(d, [edition |-> t.edition, release |-> 0], t.result = "complete", t.at)
       ELSE UNCHANGED <<best, stored>>
    /\ bodies' = IF t.result \in HasBody
                 THEN [bodies EXCEPT ![d] = @ \cup
                          {[edition |-> t.edition, finished |-> finished]}]
                 ELSE bodies
    /\ validator' = CASE t.result = "complete" /\ ~t.override ->
                              [validator EXCEPT ![d] = t.edition]
                      [] t.result = "unchanged" /\ ~t.override ->
                              [validator EXCEPT ![d] = t.etag]
                      [] OTHER -> validator
    /\ queue' = [queue EXCEPT ![d].status = NextStatus(t),
                              ![d].due = (NextStatus(t) # "retry"),
                              ![d].lapsed = FALSE,
                              ![d].error = ErrorOf(t)]
    /\ flight' = [flight EXCEPT ![w][s] = Free]
    /\ UNCHANGED <<world, txn, pass, bounds>>

\* The clock: a retry's delay ends; a lease ends while its fetch goes on, or
\* after the worker that held it died.
BecomeDue(d) ==
    /\ queue[d].status = "retry" /\ ~queue[d].due
    /\ queue' = [queue EXCEPT ![d].due = TRUE]
    /\ UNCHANGED <<best, stored, bodies, validator, world, txn, flight, pass, bounds>>

LeaseEnds(d) ==
    /\ queue[d].status = "running" /\ ~queue[d].lapsed
    /\ IF Fetching(d) THEN Fault ELSE UNCHANGED faults
    /\ queue' = [queue EXCEPT ![d].lapsed = TRUE]
    /\ UNCHANGED <<best, stored, bodies, validator, world, txn, flight, pass, commands>>

\* A killed process, a full disk or an exception the fetcher does not name:
\* the open claim is rolled back and every unrecorded fetch is lost.
WorkerDies(w) ==
    /\ txn[w] # NoTxn \/ FreeSlots(w) # Slots
    /\ Fault
    /\ txn' = [txn EXCEPT ![w] = NoTxn]
    /\ flight' = [flight EXCEPT ![w] = [s \in Slots |-> Free]]
    /\ UNCHANGED <<tables, world, pass, commands>>

----------------------------------------------------------------------------
(* Imports and the operator's commands, one transaction each.              *)

Keep == UNCHANGED <<world, txn, flight, faults>>

\* import_manifest and import_issue_perimeter; documents that have a row keep it.
Import(docs, high) ==
    /\ high => docs \subseteq Perimeter
    /\ \E d \in docs : queue[d].status = "none"
    /\ queue' = [d \in Docs |->
          IF d \in docs /\ queue[d].status = "none"
          THEN [NoRow EXCEPT !.status = "pending", !.high = high] ELSE queue[d]]
    /\ UNCHANGED <<best, stored, bodies, validator, world, txn, flight, pass, bounds>>

\* requeue_failed, for every failure or for one error code.
RequeueFailed(codes) ==
    /\ Command
    /\ \A d \in Docs : queue[d].status = "failed" => ~Locked(d)
    /\ queue' = [d \in Docs |->
          IF queue[d].status = "failed" /\ queue[d].error \in codes
          THEN Requeued(queue[d]) ELSE queue[d]]
    /\ Keep /\ UNCHANGED <<best, stored, bodies, validator, pass>>

\* prepare_perimeter.
PreparePerimeter(override, requeue) ==
    /\ Command
    /\ \A d \in Perimeter : ~Locked(d)
    /\ LET Prepared(d) ==
              LET row == [queue[d] EXCEPT
                             !.high = TRUE,
                             !.override = @ \/ (override /\ best[d] = NoVersion)]
              IN IF requeue /\ best[d] = NoVersion /\ row.status = "failed"
                 THEN Requeued(row) ELSE row
       IN queue' = [d \in Docs |-> IF d \in Perimeter /\ queue[d].status # "none"
                                   THEN Prepared(d) ELSE queue[d]]
    /\ Keep /\ UNCHANGED <<best, stored, bodies, validator, pass>>

\* store_artifact_version: a file with the date its provider gave it.
StoreArtifact(d, complete, at) ==
    /\ Command
    /\ ~Locked(d)
    /\ Insert(d, [edition |-> Artifact, release |-> 0], complete, at)
    /\ queue' = IF complete /\ queue[d].status \notin {"none", "succeeded"}
                THEN [queue EXCEPT ![d].status = "succeeded", ![d].lapsed = FALSE]
                ELSE queue
    /\ Keep /\ UNCHANGED <<bodies, validator, pass>>

\* store_cached_version: the legacy caches, older than any download.
StoreCached(d, content, complete) ==
    /\ Command
    /\ complete => content = Snapshot
    /\ Insert(d, [edition |-> content, release |-> 0], complete, 0)
    /\ bodies' = IF content = Snapshot
                 THEN [bodies EXCEPT ![d] = @ \cup {[edition |-> Snapshot, finished |-> 0]}]
                 ELSE bodies
    /\ Keep /\ UNCHANGED <<queue, validator, pass>>

----------------------------------------------------------------------------
(* Two passes read their rows first and write them one by one.             *)

\* reparse_perimeter_gaps: the retained bodies of documents without a best
\* version, each at its last attempt; a truncated cache is not among them.
ReparseRead ==
    /\ pass = NoPass /\ Command
    /\ LET Last(d, b) == \A c \in bodies[d] : c.edition = b.edition => c.finished <= b.finished
       IN pass' = [kind |-> "reparse",
                   rows |-> {[doc |-> d, body |-> b] : d \in {d \in Perimeter : best[d] = NoVersion},
                                                      b \in UNION {bodies[d] : d \in Docs}}
                            \cap {r \in [doc : Docs, body : UNION {bodies[d] : d \in Docs}] :
                                     r.body \in bodies[r.doc] /\ Last(r.doc, r.body)}]
    /\ Keep /\ UNCHANGED <<tables>>

\* One of them parses completely, at a lower threshold or in a later release.
Reparse(r, release) ==
    LET d == r.doc IN
    /\ pass.kind = "reparse" /\ r \in pass.rows
    /\ ~Locked(d)
    /\ Insert(d, [edition |-> r.body.edition, release |-> release], TRUE, r.body.finished)
    /\ queue' = IF queue[d].status \notin {"none", "succeeded"}
                THEN [queue EXCEPT ![d].status = "succeeded", ![d].error = "none", ![d].due = TRUE]
                ELSE queue
    /\ pass' = [pass EXCEPT !.rows = @ \ {r}]
    /\ Keep /\ UNCHANGED <<bodies, validator, commands>>

\* plan_acquisition: the rows without complete text and without a verdict.
PlanRead ==
    /\ pass = NoPass /\ Command
    /\ pass' = [kind |-> "plan",
                rows |-> {[doc |-> d, rung |-> queue[d].rung, error |-> queue[d].error,
                           tried |-> queue[d].tried \cup {queue[d].rung}] :
                          d \in {d \in Docs : /\ queue[d].status # "none"
                                              /\ ~queue[d].terminal /\ Incomplete(d)}}]
    /\ Keep /\ UNCHANGED tables

\* next_step: a transient or a final error ends the ladder, and so does a host
\* whose profile has no further rung; otherwise the next rung is tried.
PlanTerminal(r) ==
    /\ pass.kind = "plan" /\ r \in pass.rows
    /\ ~Locked(r.doc)
    /\ queue' = [queue EXCEPT ![r.doc].tried = r.tried, ![r.doc].terminal = TRUE]
    /\ pass' = [pass EXCEPT !.rows = @ \ {r}]
    /\ Keep /\ UNCHANGED <<best, stored, bodies, validator, commands>>

Escalate(r) ==
    /\ pass.kind = "plan" /\ r \in pass.rows
    /\ r.error # "final"
    /\ ~Locked(r.doc)
    /\ \E rung \in (1..MaxRung) \ r.tried :
          queue' = [queue EXCEPT ![r.doc].rung = rung, ![r.doc].tried = r.tried,
                                 ![r.doc].status = "retry", ![r.doc].due = TRUE]
    /\ pass' = [pass EXCEPT !.rows = @ \ {r}]
    /\ Keep /\ UNCHANGED <<best, stored, bodies, validator, commands>>

\* Rows that do not parse are left; a pass may also be interrupted.
PassEnds ==
    /\ pass # NoPass
    /\ pass' = NoPass
    /\ Keep /\ UNCHANGED <<tables, commands>>

----------------------------------------------------------------------------
Claim(w) == ClaimRead(w) \/ ClaimLock(w) \/ ClaimCommit(w)

Operate ==
    \/ \E d \in Docs, high \in BOOLEAN : Import({d}, high)
    \/ \E codes \in SUBSET ErrorClass : RequeueFailed(codes)
    \/ \E override, requeue \in BOOLEAN : PreparePerimeter(override, requeue)
    \/ \E d \in Docs, complete \in BOOLEAN : \E at \in {0, 2 * time[d] + 1} :
          StoreArtifact(d, complete, at)
    \/ \E d \in Docs, content \in {Snapshot, Excerpt}, complete \in BOOLEAN :
          StoreCached(d, content, complete)
    \/ ReparseRead \/ PlanRead \/ PassEnds
    \/ \E r \in pass.rows, release \in ParserRelease : Reparse(r, release)
    \/ \E r \in pass.rows : PlanTerminal(r) \/ Escalate(r)

Next ==
    \/ \E w \in Workers : Claim(w) \/ WorkerDies(w)
    \/ \E w \in Workers, s \in Slots : Download(w, s) \/ Record(w, s)
    \/ \E d \in Docs : BecomeDue(d) \/ LeaseEnds(d)
    \/ Operate

Spec == Init /\ [][Next]_vars

\* Workers go on and are started again by their timer (radar-kx-ingest.timer),
\* every request has a timeout, and time passes.  Operators, sites and faults
\* owe nothing.
Fairness ==
    /\ \A w \in Workers : WF_vars(Claim(w))
    /\ \A w \in Workers, s \in Slots : WF_vars(Download(w, s)) /\ WF_vars(Record(w, s))
    /\ \A d \in Docs : WF_vars(BecomeDue(d)) /\ WF_vars(~Fetching(d) /\ LeaseEnds(d))

FairSpec == Spec /\ Fairness

----------------------------------------------------------------------------
(* Properties.                                                             *)

\* A document whose row says succeeded has text: through 304 answers, late
\* results, imported files and re-parses (record_fetch_result,
\* store_artifact_version, reparse_perimeter_gaps).
SucceededHasText ==
    \A d \in Docs : queue[d].status = "succeeded" => best[d] # NoVersion

\* With one worker no host has more live leases than its limit, whatever the
\* operator commits between the statements of a claim (claim_tasks).
HostLimit ==
    \A h \in {Host[d] : d \in Docs} :
        Cardinality({d \in Docs : Host[d] = h /\ queue[d].status = "running"
                                 /\ ~queue[d].lapsed}) <= PerHost

\* With one worker no row is attempted more often than the settings allow
\* between two requeues, however leases end (claim_tasks, record_fetch_result).
AttemptsBounded == \A d \in Docs : queue[d].attempts <= MaxAttempts

\* A document's text never goes back to an older edition of its page, though
\* results of two fetches may be recorded in either order (_insert_version).
\* Re-parses are the subject of ReparseKeepsText.
KeepsNewest(d) ==
    {best[d].edition, best'[d].edition} \subseteq Edition
        => best'[d].edition >= best[d].edition
NeverOlderText == [][pass.kind = "reparse" \/ \A d \in Docs : KeepsNewest(d)]_vars

\* A re-parse completes documents that still lack full text: it never puts an
\* older edition in the place of a text recorded since the pass began
\* (reparse_perimeter_gaps).
ReparseKeepsText == [][\A d \in Docs : KeepsNewest(d)]_vars

\* Every queued document is settled in the end: dead workers' leases are taken
\* back, retries are tried until they succeed or the attempts are used up.
Settled(d) ==
    \/ queue[d].status \in {"none", "succeeded", "failed"}
    \/ queue[d].status = "retry" /\ queue[d].attempts >= MaxAttempts
Drains == <>[](\A d \in Docs : Settled(d))

\* A row that waits for a retry can be claimed again; otherwise it is neither
\* failed nor retryable (plan_acquisition).
WaitingCanBeClaimed ==
    \A d \in Docs : queue[d].status = "retry" => queue[d].attempts < MaxAttempts

=============================================================================
