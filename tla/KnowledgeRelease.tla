--------------------------- MODULE KnowledgeRelease ---------------------------
(***************************************************************************)
(* From quotations to the slice that readers see: publish_quotes and its   *)
(* quarantine, the editor's decisions on bindings and ideas, the graph and *)
(* wiki snapshots, and the releases of schema kb with their pointer and    *)
(* their event log (database.py, release.py, publication.py).              *)
(*                                                                         *)
(* A handler is one transaction at READ COMMITTED, so each statement reads *)
(* what is committed when it begins: a build and a switch are several      *)
(* steps, and the handlers of other processes commit in between.           *)
(***************************************************************************)
EXTENDS Naturals, Sequences, FiniteSets, SequencesExt

CONSTANTS
    Claims,         \* claims with an exact quotation, each of its own version
    Foreign,        \* those whose source is not in the readers' language
    Statements,     \* statements of the wiki's page
    Since,          \* the import that brings each, [Statements -> numbers]
    Ideas,          \* candidate ideas
    Operators,      \* processes that build, publish and roll back
    MaxImports,     \* bound: imported wiki snapshots
    MaxChanges,     \* bound: editorial changes
    MaxBuilds,      \* bound: builds
    MaxSwitches     \* bound: publications and rollbacks

ASSUME ClaimsAssumption == Foreign \subseteq Claims /\ IsFiniteSet(Claims)
ASSUME SinceAssumption ==
    Since \in [Statements -> 1..MaxImports] /\ IsFiniteSet(Statements) /\ IsFiniteSet(Operators)
ASSUME ReleaseBounds == {MaxImports, MaxChanges, MaxBuilds, MaxSwitches} \subseteq Nat

VARIABLES
    provenance,     \* what version_provenance_current says of a claim's version
    translation,    \* quote_translations, by claim
    quotes,         \* published_quotes: <<claim, with a translation or not>>
    quarantine,     \* open entries of publication_quarantine
    publisher,      \* publish_quotes in progress
    binding,        \* concept_evidence
    idea,           \* ideas
    imported,       \* number of imported wiki snapshots
    families,       \* number of source_family_decisions
    graphs,         \* graph_snapshots, in the order they were stored
    releases,       \* kb.releases with their rows
    active,         \* kb.active_release
    events,         \* knowledge_release_events that move the pointer
    op,             \* what each operator's transaction has read
    changes, builds, switches

content == <<provenance, translation, binding, idea, imported, families>>
published == <<quotes, quarantine, publisher>>
slice == <<releases, active, events>>
counters == <<changes, builds, switches>>
releaseVars == <<content, published, graphs, slice, op, counters>>

----------------------------------------------------------------------------
Provenance == {"none", "complete", "review"}
Translation == {"none", "verified", "rejected"}
Binding == {"none", "proposed", "confirmed", "rejected"}
Condition == {"provenance_invalid", "publication_blocked"}
Quote == Claims \X BOOLEAN
Idea == [state: {"none", "proposed", "accepted", "rejected"}, admitted: BOOLEAN]
NoneActive == [quotes |-> {}]
Idle == [step |-> "idle"]

\* The statements that have been imported; those of older versions stay.
Known == {s \in Statements : Since[s] <= imported}
Pairs == Statements \X Claims

\* record_graph_snapshot's identity: what the store projects to.
GraphOf == [binding |-> binding, idea |-> idea, imported |-> imported, families |-> families]
LatestGraph == IF graphs = <<>> THEN <<>> ELSE <<Last(graphs)>>

\* What _slice_rows reads, one definition for each of its statements.
ConfirmedCount(s) == Cardinality({c \in Claims : binding[<<s, c>>] = "confirmed"})
Counts == [s \in Known |-> ConfirmedCount(s)]
Admitted == {i \in Ideas : idea[i].admitted}

Evidence == {e \in Known \X quotes : binding[<<e[1], e[2][1]>>] = "confirmed"}

ReleaseTypeOK ==
    /\ provenance \in [Claims -> Provenance]
    /\ translation \in [Claims -> Translation]
    /\ quotes \subseteq Quote
    /\ quarantine \subseteq Claims \X Condition
    /\ binding \in [Pairs -> Binding]
    /\ idea \in [Ideas -> Idea]
    /\ imported \in 0..MaxImports
    /\ active = NoneActive \/ \E r \in releases : r.id = active
    /\ \A r \in releases : /\ r.id.quotes \subseteq Quote
                           /\ r.evidence \subseteq Statements \X r.id.quotes
    /\ \A e \in Range(events) : e.action \in {"published", "rolled_back"}
    /\ DOMAIN op = Operators

ReleaseInit ==
    /\ provenance = [c \in Claims |-> "none"]
    /\ translation = [c \in Claims |-> "none"]
    /\ quotes = {} /\ quarantine = {} /\ publisher = Idle
    /\ binding = [p \in Pairs |-> "none"]
    /\ idea = [i \in Ideas |-> [state |-> "none", admitted |-> FALSE]]
    /\ imported = 0 /\ families = 0 /\ graphs = <<>>
    /\ releases = {} /\ active = NoneActive /\ events = <<>>
    /\ op = [o \in Operators |-> Idle]
    /\ changes = 0 /\ builds = 0 /\ switches = 0

----------------------------------------------------------------------------
(* The editor and the machine: each is one transaction.                    *)

Change ==
    /\ changes < MaxChanges /\ changes' = changes + 1
    /\ UNCHANGED <<published, slice, op, builds, switches>>

\* record_version_provenance and the backfill: a later row replaces the view's.
RecordProvenance(c, p) ==
    /\ Change
    /\ p # "none" /\ p # provenance[c]
    /\ provenance' = [provenance EXCEPT ![c] = p]
    /\ UNCHANGED <<translation, binding, idea, imported, families, graphs>>

\* record_translation: the invariants decide its state; a second answer of the
\* same translator is not stored.
RecordTranslation(c, state) ==
    /\ Change
    /\ c \in Foreign /\ translation[c] = "none" /\ state # "none"
    /\ translation' = [translation EXCEPT ![c] = state]
    /\ UNCHANGED <<provenance, binding, idea, imported, families, graphs>>

\* import_wiki_concepts: a new version of the page and its statements.
ImportWiki ==
    /\ Change
    /\ imported < MaxImports /\ imported' = imported + 1
    /\ UNCHANGED <<provenance, translation, binding, idea, families, graphs>>

\* bind_concept_evidence proposes, and leaves a pair that has a row alone.
ProposeBinding(s, c) ==
    /\ Change
    /\ s \in Known /\ binding[<<s, c>>] = "none"
    /\ binding' = [binding EXCEPT ![<<s, c>>] = "proposed"]
    /\ UNCHANGED <<provenance, translation, idea, imported, families, graphs>>

\* decide_binding takes a proposal, decide_wiki_suggestion any pair: it writes
\* the row or turns an earlier verdict round.
DecideBinding(s, c, verdict) ==
    /\ Change
    /\ s \in Known
    /\ verdict \in {"confirmed", "rejected"} /\ binding[<<s, c>>] # verdict
    /\ binding' = [binding EXCEPT ![<<s, c>>] = verdict]
    /\ UNCHANGED <<provenance, translation, idea, imported, families, graphs>>

\* record_idea freezes the independence verdict; decide_idea changes the state
\* of a proposed one, and the table's CHECK refuses it for one not admitted.
RecordIdea(i, admitted) ==
    /\ Change
    /\ idea[i].state = "none"
    /\ idea' = [idea EXCEPT ![i] = [state |-> "proposed", admitted |-> admitted]]
    /\ UNCHANGED <<provenance, translation, binding, imported, families, graphs>>

DecideIdea(i, state) ==
    /\ Change
    /\ idea[i].state = "proposed" /\ idea[i].admitted
    /\ state \in {"accepted", "rejected"}
    /\ idea' = [idea EXCEPT ![i].state = state]
    /\ UNCHANGED <<provenance, translation, binding, imported, families, graphs>>

\* apply_family_batch.
DecideFamily ==
    /\ Change
    /\ families' = families + 1
    /\ UNCHANGED <<provenance, translation, binding, idea, imported, graphs>>

\* build_graph and record_graph_snapshot: a graph that is stored already is
\* not stored again, and keeps its place in the order.
SnapshotGraph ==
    /\ Change
    /\ GraphOf \notin Range(graphs)
    /\ graphs' = Append(graphs, GraphOf)
    /\ UNCHANGED content

Edit ==
    \/ \E c \in Claims, p \in Provenance : RecordProvenance(c, p)
    \/ \E c \in Claims, t \in Translation : RecordTranslation(c, t)
    \/ \E s \in Statements, c \in Claims : ProposeBinding(s, c)
    \/ \E s \in Statements, c \in Claims, v \in Binding : DecideBinding(s, c, v)
    \/ \E i \in Ideas, a \in BOOLEAN : RecordIdea(i, a)
    \/ \E i \in Ideas, v \in {"accepted", "rejected"} : DecideIdea(i, v)
    \/ ImportWiki \/ DecideFamily \/ SnapshotGraph

----------------------------------------------------------------------------
(* publish_quotes: the candidates are read in one transaction, written in  *)
(* a second one, and a third sweeps the quarantine.                        *)

\* The conditions of decide that a quotation of c fails now.
Failed(c) ==
    {f \in Condition : \/ f = "provenance_invalid" /\ provenance[c] = "none"
                       \/ f = "publication_blocked" /\ provenance[c] = "review"}

\* A rejected translation does not count; a quotation without one waits when
\* the readers do not have its language.
Candidates ==
    {<<c, translation[c] = "verified">> :
        c \in {c \in Claims : c \in Foreign => translation[c] = "verified"}} \ quotes

QuotesRead ==
    /\ publisher = Idle
    /\ Candidates # {}
    /\ publisher' = [step |-> "read", rows |-> {[quote |-> q, failed |-> Failed(q[1])] : q \in Candidates}]
    /\ UNCHANGED <<content, quotes, quarantine, graphs, slice, op, counters>>

QuotesWrite ==
    /\ publisher.step = "read"
    /\ quotes' = quotes \cup {r.quote : r \in {r \in publisher.rows : r.failed = {}}}
    /\ quarantine' = quarantine \cup
          UNION {{<<r.quote[1], f>> : f \in r.failed} : r \in publisher.rows}
    /\ publisher' = [step |-> "resolve"]
    /\ UNCHANGED <<content, graphs, slice, op, counters>>

\* resolve_quarantine_for_published.
QuotesResolve ==
    /\ publisher.step = "resolve"
    /\ quarantine' = {e \in quarantine : \A q \in quotes : q[1] # e[1]}
    /\ publisher' = Idle
    /\ UNCHANGED <<content, quotes, graphs, slice, op, counters>>

\* A transaction that dies leaves nothing behind; what is left here is a sweep
\* that is not made.
PublisherDies ==
    /\ publisher.step = "resolve"
    /\ publisher' = Idle
    /\ UNCHANGED <<content, quotes, quarantine, graphs, slice, op, counters>>

----------------------------------------------------------------------------
(* build_release: _slice_rows statement by statement (quotations and pages,*)
(* statements and ideas, evidence and snapshots), then the rows.           *)

BuildBegin(o) ==
    /\ op[o] = Idle
    /\ builds < MaxBuilds /\ builds' = builds + 1
    /\ op' = [op EXCEPT ![o] = [step |-> "quotes", quotes |-> quotes, body |-> imported]]
    /\ UNCHANGED <<content, published, graphs, slice, changes, switches>>

BuildStatements(o) ==
    /\ op[o].step = "quotes"
    /\ op' = [op EXCEPT ![o] = [step |-> "statements", quotes |-> @.quotes, body |-> @.body,
                                counts |-> Counts, ideas |-> Admitted]]
    /\ UNCHANGED <<content, published, graphs, slice, counters>>

\* A release that is there already stays as it is.
Stored(id, evidence) ==
    IF \E r \in releases : r.id = id THEN releases
    ELSE releases \cup {[id |-> id, evidence |-> evidence]}

\* compose does not look at the evidence rows; the foreign keys of
\* kb.statement_evidence do, and a build that breaks one is undone.
BuildWrite(o) ==
    LET id == [quotes |-> op[o].quotes, body |-> op[o].body, counts |-> op[o].counts,
               ideas |-> op[o].ideas, wiki |-> imported, graph |-> LatestGraph,
               families |-> families]
    IN
    /\ op[o].step = "statements"
    /\ releases' = IF Evidence \subseteq (DOMAIN id.counts) \X id.quotes
                   THEN Stored(id, Evidence) ELSE releases
    /\ op' = [op EXCEPT ![o] = Idle]
    /\ UNCHANGED <<content, published, graphs, active, events, counters>>

----------------------------------------------------------------------------
(* publish_release and rollback_release: what is read first is not locked, *)
(* the row of active_release is locked from its update to the commit.      *)

PublishRead(o, id) ==
    /\ op[o] = Idle /\ id # active
    /\ switches < MaxSwitches /\ switches' = switches + 1
    /\ op' = [op EXCEPT ![o] = [step |-> "publish", release |-> id, previous |-> active]]
    /\ UNCHANGED <<content, published, graphs, slice, changes, builds>>

PublishWrite(o) ==
    /\ op[o].step = "publish"
    /\ active' = op[o].release
    /\ events' = Append(events, [action |-> "published", release |-> op[o].release,
                                 previous |-> op[o].previous])
    /\ op' = [op EXCEPT ![o] = Idle]
    /\ UNCHANGED <<content, published, graphs, releases, counters>>

Publications == {k \in DOMAIN events : events[k].action = "published"}
LastPublication == CHOOSE k \in Publications : \A j \in Publications : j <= k

RollbackRead(o) ==
    /\ op[o] = Idle
    /\ switches < MaxSwitches /\ switches' = switches + 1
    /\ Publications # {} /\ events[LastPublication].previous # NoneActive
    /\ op' = [op EXCEPT ![o] = [step |-> "rollback", last |-> events[LastPublication]]]
    /\ UNCHANGED <<content, published, graphs, slice, changes, builds>>

\* Variant: the event names the release that was left.
RollbackEventOld(last) ==
    [action |-> "rolled_back", release |-> last.release, previous |-> last.previous]

RollbackEvent(last) ==
    [action |-> "rolled_back", release |-> last.previous, previous |-> last.release]

RollbackWrite(o) ==
    /\ op[o].step = "rollback"
    /\ active' = op[o].last.previous
    /\ events' = Append(events, RollbackEvent(op[o].last))
    /\ op' = [op EXCEPT ![o] = Idle]
    /\ UNCHANGED <<content, published, graphs, releases, counters>>

----------------------------------------------------------------------------
PublishQuotes == QuotesRead \/ QuotesWrite \/ QuotesResolve \/ PublisherDies
Build(o) == BuildBegin(o) \/ BuildStatements(o) \/ BuildWrite(o)
Switch(o) ==
    \/ \E r \in releases : PublishRead(o, r.id)
    \/ PublishWrite(o) \/ RollbackRead(o) \/ RollbackWrite(o)

ReleaseNext ==
    \/ Edit
    \/ PublishQuotes
    \/ \E o \in Operators : Build(o) \/ Switch(o)

ReleaseSpec == ReleaseInit /\ [][ReleaseNext]_releaseVars

----------------------------------------------------------------------------
(* Properties.                                                             *)

\* The last event that moves the pointer names the active release, whatever
\* publications and rollbacks of other processes came between a handler's
\* read and its write (publish_release, rollback_release).
EventsTellActive ==
    active = IF events = <<>> THEN NoneActive ELSE events[Len(events)].release

\* No release shows readers a quotation in a language they do not have without
\* a translation that passed its check, though published rows are immutable
\* and translations arrive at any time (publishable_quotes, publish_quotes).
ForeignTranslated ==
    \A r \in releases : \A q \in r.id.quotes :
        q[1] \in Foreign => q[2] /\ translation[q[1]] = "verified"

\* A release cites as evidence only pairs that the editor has decided, never
\* what the search proposed (bind_concept_evidence, _slice_rows).
CitedIsDecided ==
    \A r \in releases : \A e \in r.evidence :
        binding[<<e[1], e[2][1]>>] \in {"confirmed", "rejected"}

\* A release contains only what somebody confirmed (_slice_rows): a release
\* that is new contains no idea that was rejected before its build began.
RejectedIdeaStaysOut ==
    [][\A r \in releases' \ releases : \A i \in r.id.ideas :
          idea[i].state # "rejected"]_releaseVars

\* The active release may fall behind the store, but never without being told:
\* when reconcile_release finds it identical, it cites the evidence that the
\* store confirms (ReleaseReconciliation, reconcile_release).
Identical(id) ==
    /\ id.quotes = quotes /\ id.body = imported
    /\ id.counts = Counts /\ id.ideas = Admitted
ReconcileKnows ==
    \A r \in releases : r.id = active /\ Identical(r.id) => r.evidence = Evidence

\* A rollback moves the pointer to what was active before the last publication
\* (rollback_release).
BeforeLastPublication ==
    IF LastPublication = 1 THEN NoneActive ELSE events[LastPublication - 1].release
RollbackReturns ==
    [][\A o \in Operators : RollbackWrite(o) => active' = BeforeLastPublication]_releaseVars
=============================================================================
