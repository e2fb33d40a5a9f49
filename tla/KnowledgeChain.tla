--------------------------- MODULE KnowledgeChain ---------------------------
(***************************************************************************)
(* The four passes that turn fetched text into knowledge, and the owner's  *)
(* two queues over what they wrote: extract-claims, read-claims,           *)
(* link-claims and find-entities of kx/src/radar_kx/cli.py, alone or in a  *)
(* row under one budget of model calls (catch-up), over the tables         *)
(* database.py writes.  A pass takes its work list once, asks the model    *)
(* item by item and writes each answer in a transaction of its own; two    *)
(* passes may overlap (the timer's catch-up and an operator's kxorch).     *)
(* Abstracted: a batch holds one item, so a call per item (CALLS_PER_ITEM  *)
(* = 1); a fragment yields one exact quotation; the backbone is one topic; *)
(* a statement has fewer neighbours than LINK_NEIGHBOURS; a call of        *)
(* ModelGateway leaves 1..CallRows rows of egress_audit.                   *)
(***************************************************************************)
EXTENDS Naturals, Sequences, FiniteSets, SequencesExt

CONSTANTS
    Fragments,      \* complete chunks of the scope
    Document,       \* the first source of each fragment's statements
    Passes,         \* processes, each started at most once
    Commands,       \* what each pass may be started as
    Budget,         \* catch-up --budget
    CallRows,       \* most rows one model call leaves in egress_audit
    PromotionFloor, \* PROMOTION_FLOOR
    FailedBefore,   \* fragments whose run failed on an earlier day
    Stale,          \* the statements whose valid_until lies in the past
    MaxClaims,      \* bound: statements written
    MaxDecisions,   \* bound: verdicts of the owner
    Nothing         \* no item

Stages == <<"extract-claims", "read-claims", "link-claims", "find-entities">>
Admissions == {"knowledge", "rejected"}
LinkTypes == {"supports", "contradicts"}

ASSUME ChainAssumption ==
    /\ Commands \in [Passes -> SUBSET (ToSet(Stages) \cup {"catch-up"})]
    /\ {Budget, PromotionFloor, MaxClaims} \subseteq Nat /\ CallRows \in Nat \ {0}

VARIABLES
    pass,       \* per process: command, stage, work list, item being asked about
    spent,      \* rows of egress_audit
    runs,       \* processing_runs: status per fragment
    open,       \* extraction_candidates with status open, per fragment
    claims,     \* claims: the fragment of each statement, by id
    reading,    \* claim_reading: admission per statement
    placed,     \* claim_topics
    gaps,       \* claim_gaps
    links,      \* knowledge_links
    judged,     \* link_judgements: pairs left unlinked
    named,      \* entity_reads: statements read for what they name
    embedded,   \* text_embeddings of exact quotations
    status,     \* knowledge_status_current per statement
    shown,      \* items on the owner's open page, per queue
    decisions   \* editorial_decisions, in order

tables == <<runs, open, claims, reading, placed, gaps, links, judged, named,
            embedded, status>>
desk == <<shown, decisions>>
chainVars == <<pass, spent, tables, desk>>

Ids == 1..MaxClaims
Statements == 1..Len(claims)

-----------------------------------------------------------------------------

Asleep == [command |-> "none", stage |-> 0, todo |-> {}, item |-> Nothing,
           seen |-> "none", base |-> 0, mark |-> "none"]

ChainInit ==
    /\ pass = [p \in Passes |-> Asleep]
    /\ spent = 0
    /\ runs = [f \in Fragments |-> IF f \in FailedBefore THEN "failed" ELSE "none"]
    /\ open = [f \in Fragments |-> IF f \in FailedBefore THEN {"failure"} ELSE {}]
    /\ claims = <<>>
    /\ reading = [c \in Ids |-> "none"]
    /\ placed = {} /\ gaps = {} /\ links = {} /\ judged = {}
    /\ named = {} /\ embedded = {}
    /\ status = [c \in Ids |-> "none"]
    /\ shown = {} /\ decisions = <<>>

\* What each pass still has in front of it.
Unread == {c \in Statements : reading[c] = "none"}

Admitted == {c \in Statements : reading[c] = "knowledge"}
Unnamed == {c \in Admitted : c \notin named}

Linked(a, b) == \E t \in LinkTypes : <<a, b, t>> \in links

Shortlist ==
    {q \in Ids \X Ids :
        /\ q[1] < q[2]
        /\ {q[1], q[2]} \subseteq Admitted \cap embedded \cap placed
        /\ ~Linked(q[1], q[2]) /\ q \notin judged}

Pending(stage) ==
    CASE stage = "extract-claims" -> {f \in Fragments : runs[f] # "succeeded"}
      [] stage = "read-claims" -> Unread
      [] stage = "link-claims" -> Shortlist
      [] stage = "find-entities" -> Unnamed

WorkLists(stage, limit) ==
    LET all == Pending(stage) IN
    {w \in SUBSET all : Cardinality(w) = (IF Cardinality(all) < limit THEN Cardinality(all) ELSE limit)}

-----------------------------------------------------------------------------
\* The passes.

\* main opens a row of chain_passes for the commands of the timers.
StartPass(p) ==
    /\ pass[p].mark = "none"
    /\ \E c \in Commands[p] :
          pass' = [pass EXCEPT ![p] = [Asleep EXCEPT !.command = c, !.base = spent,
                                                     !.mark = "running"]]
    /\ UNCHANGED <<spent, tables, desk>>

Left(p) == IF spent - pass[p].base >= Budget THEN 0 ELSE Budget - (spent - pass[p].base)

In(p, stage) == pass[p].stage > 0 /\ Stages[pass[p].stage] = stage

\* read-claims is done when it has granted the birth statuses.
StageDone(p) ==
    /\ pass[p].todo = {} /\ pass[p].item = Nothing
    /\ In(p, "read-claims") => pass[p].seen = "granted"

\* The first stage of a pass, or the next one of a catch-up: a stage whose
\* budget is gone is skipped, any other is sized by what is left.
OpenStage(p) ==
    LET k == pass[p] IN
    /\ k.mark = "running" /\ StageDone(p)
    /\ IF k.command = "catch-up"
       THEN /\ k.stage < Len(Stages)
            /\ IF Left(p) = 0
               THEN pass' = [pass EXCEPT ![p].stage = @ + 1, ![p].seen = "granted"]
               ELSE \E w \in WorkLists(Stages[k.stage + 1], Left(p)) :
                        pass' = [pass EXCEPT ![p].stage = @ + 1, ![p].todo = w, ![p].seen = "none"]
       ELSE /\ k.stage = 0
            /\ \E s \in 1..Len(Stages), w \in SUBSET Pending(k.command) :
                  /\ Stages[s] = k.command
                  /\ pass' = [pass EXCEPT ![p].stage = s, ![p].todo = w]
    /\ UNCHANGED <<spent, tables, desk>>

\* One call of the gateway about one item, and the rows it leaves.
Ask(p) ==
    /\ pass[p].mark = "running" /\ pass[p].item = Nothing
    /\ \E i \in pass[p].todo, n \in 1..CallRows :
          /\ pass' = [pass EXCEPT ![p].todo = @ \ {i}, ![p].item = i, ![p].seen = "none"]
          /\ spent' = spent + n
    /\ UNCHANGED <<tables, desk>>

Put(p) == pass' = [pass EXCEPT ![p].item = Nothing, ![p].seen = "none"]

\* Reading, linking and naming leave a batch whose answer is of no use alone.
Refused(p) ==
    /\ pass[p].item # Nothing /\ ~In(p, "extract-claims")
    /\ Put(p)
    /\ UNCHANGED <<spent, tables, desk>>

\* Variant: every statement is born again.
GrantAlways ==
    status' = [c \in Ids |-> IF c \in Statements THEN "observed_signal" ELSE status[c]]

\* read-claims ends by giving every statement without one its birth status.
GrantBirth ==
    status' = [c \in Ids |-> IF c \in Statements /\ status[c] = "none"
                             THEN "observed_signal" ELSE status[c]]

EndRead(p) ==
    /\ pass[p].mark = "running" /\ In(p, "read-claims")
    /\ pass[p].todo = {} /\ pass[p].item = Nothing /\ pass[p].seen = "none"
    /\ GrantBirth
    /\ pass' = [pass EXCEPT ![p].seen = "granted"]
    /\ UNCHANGED <<spent, runs, open, claims, reading, placed, gaps, links, judged,
                   named, embedded, desk>>

Over(p) == [Asleep EXCEPT !.command = pass[p].command, !.base = pass[p].base]

EndPass(p) ==
    /\ pass[p].mark = "running" /\ pass[p].stage > 0 /\ StageDone(p)
    /\ pass[p].command = "catch-up" => pass[p].stage = Len(Stages)
    /\ pass' = [pass EXCEPT ![p] = [Over(p) EXCEPT !.mark = "succeeded"]]
    /\ UNCHANGED <<spent, tables, desk>>

\* Killed between two transactions: the row of chain_passes stays running.
KillPass(p) ==
    /\ pass[p].mark = "running"
    /\ pass' = [pass EXCEPT ![p] = [Over(p) EXCEPT !.mark = "killed"]]
    /\ UNCHANGED <<spent, tables, desk>>

-----------------------------------------------------------------------------
\* extract-claims: record_extraction.

\* What one answer leaves: an exact quotation becomes a statement, an inexact
\* one a candidate, a failed call a failed run with a candidate saying so.
Write(f, answer, kept) ==
    CASE answer = "exact" ->
            /\ Len(claims) < MaxClaims
            /\ claims' = Append(claims, f)
            /\ open' = [open EXCEPT ![f] = kept]
            /\ runs' = [runs EXCEPT ![f] = "succeeded"]
      [] answer = "inexact" ->
            /\ open' = [open EXCEPT ![f] = kept \cup {"quotation"}]
            /\ runs' = [runs EXCEPT ![f] = "succeeded"]
            /\ UNCHANGED claims
      [] answer = "failure" ->
            /\ open' = [open EXCEPT ![f] = kept \cup {"failure"}]
            /\ runs' = [runs EXCEPT ![f] = "failed"]
            /\ UNCHANGED claims

Answers == {"exact", "inexact", "failure"}

\* The recipe has no run for the fragment yet: the insert succeeds.
RecordFirst(p) ==
    LET f == pass[p].item IN
    /\ f # Nothing /\ In(p, "extract-claims") /\ runs[f] = "none"
    /\ \E a \in Answers : Write(f, a, open[f])
    /\ Put(p)
    /\ UNCHANGED <<spent, reading, placed, gaps, links, judged, named,
                   embedded, status, desk>>

\* It has one: its status is read ...
ReadRun(p) ==
    LET f == pass[p].item IN
    /\ f # Nothing /\ In(p, "extract-claims") /\ runs[f] # "none" /\ pass[p].seen = "none"
    /\ IF runs[f] = "succeeded" THEN Put(p)
       ELSE pass' = [pass EXCEPT ![p].seen = "failed"]
    /\ UNCHANGED <<spent, tables, desk>>

\* What a retry leaves of the previous attempt's open candidates.
KeptByRetry(f) == {}

\* ... and a failed run is taken over: what it left open is discarded.
RecordRetry(p) ==
    LET f == pass[p].item IN
    /\ f # Nothing /\ In(p, "extract-claims") /\ pass[p].seen = "failed"
    /\ \E a \in Answers : Write(f, a, KeptByRetry(f))
    /\ Put(p)
    /\ UNCHANGED <<spent, reading, placed, gaps, links, judged, named,
                   embedded, status, desk>>

-----------------------------------------------------------------------------
\* read-claims, link-claims, find-entities: one transaction per answer.

\* Variant: a gap is noted only when the model said what is missing.
NotesGapWhenTold(admission, onTopic, missing) == ~onTopic /\ admission # "rejected" /\ missing

\* The first reading of a statement stands; topics and gap are written whether
\* or not this one is it.
NotesGap(admission, onTopic, missing) == ~onTopic /\ admission # "rejected"

RecordReading(p) ==
    LET c == pass[p].item IN
    /\ c # Nothing /\ In(p, "read-claims")
    /\ \E admission \in Admissions, onTopic \in BOOLEAN, missing \in BOOLEAN :
          /\ onTopic => ~missing
          /\ reading' = [reading EXCEPT ![c] = IF @ = "none" THEN admission ELSE @]
          /\ placed' = IF onTopic THEN placed \cup {c} ELSE placed
          /\ gaps' = IF NotesGap(admission, onTopic, missing) THEN gaps \cup {c} ELSE gaps
    /\ Put(p)
    /\ UNCHANGED <<spent, runs, open, claims, links, judged, named, embedded,
                   status, desk>>

RecordLink(p) ==
    LET q == pass[p].item IN
    /\ q # Nothing /\ In(p, "link-claims")
    /\ \/ \E t \in LinkTypes : links' = links \cup {<<q[1], q[2], t>>} /\ UNCHANGED judged
       \/ judged' = judged \cup {q} /\ UNCHANGED links
    /\ Put(p)
    /\ UNCHANGED <<spent, runs, open, claims, reading, placed, gaps, named,
                   embedded, status, desk>>

RecordMentions(p) ==
    LET c == pass[p].item IN
    /\ c # Nothing /\ In(p, "find-entities")
    /\ named' = named \cup {c}
    /\ Put(p)
    /\ UNCHANGED <<spent, runs, open, claims, reading, placed, gaps, links, judged,
                   embedded, status, desk>>

-----------------------------------------------------------------------------
\* The embedding timer and the owner.

Embed ==
    /\ embedded # Statements
    /\ embedded' = Statements
    /\ UNCHANGED <<pass, spent, runs, open, claims, reading, placed, gaps, links, judged,
                   named, status, desk>>

Decided(kind, c) == \E n \in 1..Len(decisions) : decisions[n].kind = kind /\ decisions[n].claim = c

\* Both ends of a supports link count, once per source.
Confirmers(c) == {d \in Statements : <<c, d, "supports">> \in links \/ <<d, c, "supports">> \in links}
Independent(c) == Cardinality({Document[claims[d]] : d \in Confirmers(c)})

PromotionQueue ==
    {c \in Admitted : /\ Confirmers(c) # {} /\ Independent(c) >= PromotionFloor
                      /\ status[c] = "observed_signal"
                      /\ ~Decided("status_promotion", c)}

FreshnessQueue ==
    {c \in Admitted \cap Stale : ~Decided("freshness_review", c)}

\* The owner's page lists the queues as they are when it is loaded.
LoadDesk ==
    /\ shown' = {<<"status_promotion", c>> : c \in PromotionQueue}
                \cup {<<"freshness_review", c>> : c \in FreshnessQueue}
    /\ shown' # shown
    /\ UNCHANGED <<pass, spent, tables, decisions>>

\* A verdict on something the page shows; only a confirmed promotion moves the
\* status.
DecideOnDesk ==
    Len(decisions) < MaxDecisions /\ \E item \in shown, verdict \in {"confirmed", "rejected"} :
        /\ decisions' = Append(decisions, [kind |-> item[1], claim |-> item[2], verdict |-> verdict])
        /\ status' = IF item[1] = "status_promotion" /\ verdict = "confirmed"
                     THEN [status EXCEPT ![item[2]] = "operationalization"] ELSE status
        /\ shown' = shown \ {item}
        /\ UNCHANGED <<pass, spent, runs, open, claims, reading, placed, gaps, links, judged,
                       named, embedded>>

-----------------------------------------------------------------------------

PassStep(p) ==
    \/ StartPass(p) \/ OpenStage(p) \/ Ask(p) \/ Refused(p) \/ EndRead(p) \/ EndPass(p)
    \/ KillPass(p) \/ RecordFirst(p) \/ ReadRun(p) \/ RecordRetry(p)
    \/ RecordReading(p) \/ RecordLink(p) \/ RecordMentions(p)

ChainNext ==
    \/ \E p \in Passes : PassStep(p)
    \/ Embed \/ LoadDesk \/ DecideOnDesk

ChainSpec == ChainInit /\ [][ChainNext]_chainVars

-----------------------------------------------------------------------------

\* Every table holds rows of its kind.
ChainTypeOK ==
    /\ runs \in [Fragments -> {"none", "failed", "succeeded"}]
    /\ open \in [Fragments -> SUBSET {"failure", "quotation"}]
    /\ claims \in Seq(Fragments) /\ Len(claims) <= MaxClaims
    /\ reading \in [Ids -> Admissions \cup {"none"}]
    /\ placed \cup gaps \cup named \cup embedded \subseteq Statements
    /\ links \subseteq Ids \X Ids \X LinkTypes /\ judged \subseteq Ids \X Ids
    /\ status \in [Ids -> {"none", "observed_signal", "operationalization"}]
    /\ spent \in Nat

\* Nothing the base admitted falls between its subjects and the list of what
\* it lacks: however readers overlap, an admitted statement has a topic or a
\* gap (database.py: "a statement whose every subject was invented left neither
\* a placement nor a gap").
PlacedOrGap == \A c \in Admitted : c \in placed \/ c \in gaps

\* A statement stands at operationalization exactly when the owner confirmed
\* its promotion, whatever the passes write afterwards.
PromotionStands ==
    \A c \in Ids :
        status[c] = "operationalization" <=>
            \E n \in 1..Len(decisions) :
                decisions[n] = [kind |-> "status_promotion", claim |-> c, verdict |-> "confirmed"]

\* What a statement names is read of admitted statements only, and a promotion
\* rests on admitted ones: a rejected statement takes part in nothing.
RejectedStaysOut ==
    \A c \in Statements : reading[c] = "rejected" =>
        /\ c \notin named /\ status[c] # "operationalization"
        /\ \A d \in Statements : ~Linked(c, d) /\ ~Linked(d, c)

\* A catch-up never leaves more rows of egress_audit than its budget (the unit:
\* "it holds even when a pass's own estimate of its cost is wrong").
BudgetHolds ==
    Cardinality(Passes) = 1 =>
        \A p \in Passes : pass[p].command = "catch-up" => spent - pass[p].base <= Budget

\* Running the same fragment with the same recipe records nothing twice.
RecordsOnce == \A f \in Fragments : Cardinality({c \in Statements : claims[c] = f}) <= 1

\* What a rejected statement lacks is not a gap of the base.
GapIsAdmitted == \A c \in gaps : reading[c] # "rejected"
=============================================================================
