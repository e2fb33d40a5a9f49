----------------------------- MODULE Derivation -----------------------------
(***************************************************************************)
(* How a candidate becomes rows: two builders bind candidates to the       *)
(* source database, replay the mutations on a private staging copy and     *)
(* register an immutable package in a shared store; one publisher marks    *)
(* the staging copy as a release, derives the delta, has production apply  *)
(* it and advances the source.  Builders and the publisher may die         *)
(* anywhere.                                                               *)
(***************************************************************************)
EXTENDS ContentRows

CONSTANTS
  Builders,       \* processes building packages at the same time
  Materials,      \* material ids, small integers ordered as their text is
  Start,          \* the cards of the published issue 1, in order
  Contents,       \* what an issue may ask for: its cards in order, the cards its
                  \* analysis cites, and the rubric of its cards
  Assets,         \* what a gazette may ask for: sets of asset paths
  CandidateNames,          \* pairs of a candidate id and an idempotency key
  MaxComposed     \* bound: candidates composed in a behaviour

Nobody == "nobody"

ASSUME DerivationAssumption ==
  /\ Nobody \notin Builders
  /\ Materials \subseteq Nat /\ CandidateNames \subseteq (Nat \ {0}) \X Nat
  /\ Start \in Seq(Materials) /\ \E m \in Materials : m \notin ToSet(Start)
  /\ \A c \in Contents :
       c.materials \in Seq(Materials) /\ c.cites \subseteq Materials /\ c.rubric \in {1, 2}
  /\ Assets \subseteq SUBSET Nat /\ \A a \in Assets : IsFiniteSet(a)

VARIABLES
  current,     \* the release and rows behind the source pointer
  served,      \* the release and rows production serves
  store,       \* registered packages
  temporary,   \* a temporary directory left in the store by a dead builder
  storeLock,   \* the builder inside the store, or Nobody
  builder,     \* what each builder holds
  publisher,   \* the publisher's place in publish_candidate
  bases,       \* retained base pointers, by candidate
  releases,    \* releases/<candidate>.sqlite
  deltas,      \* deltas/<candidate>.json
  evidence,    \* candidates whose result is saved
  composed     \* number of candidates composed so far

builderVars == <<store, temporary, storeLock, builder, composed>>
publisherVars == <<current, served, publisher, bases, releases, deltas, evidence>>
derivationVars == <<builderVars, publisherVars>>

Resting == [pc |-> "idle"]
Draft == 9                       \* an unpublished issue already in the database
IssueFor == [daily |-> 2, correction |-> 1]

LinkRow(i, m) == <<"issue_materials", <<i, m>>>>
Rubric(i, m, r) == <<"material_rubrics", <<i, m, r>>>>
LinksOf(db, i) == {id \in RowsOf(db, "issue_materials") : id[2][1] = i}
Cards(db, i) == {id[2][2] : id \in LinksOf(db, i)}

StartRows ==
  LET first == ToSet(Start)
      drafted == CHOOSE m \in Materials : m \notin first
      place(m) == CHOOSE n \in DOMAIN Start : Start[n] = m
      ids == {<<"materials", <<m>>>> : m \in first \cup {drafted}}
             \cup {LinkRow(1, m) : m \in first} \cup {Rubric(1, m, 1) : m \in first}
             \cup {<<"issues", <<1>>>>, <<"issue_analysis", <<1>>>>, <<"issues", <<Draft>>>>,
                   LinkRow(Draft, drafted), <<"editorial_queue", <<1>>>>}
  IN  [id \in ids |->
         CASE id[1] = "materials" -> [created |-> 0, at |-> 0]
           [] id[1] = "issue_materials" ->
                [sort_order |-> IF id[2][1] = Draft THEN 0 ELSE place(id[2][2]) - 1,
                 created |-> 0, at |-> 0]
           [] id[1] = "material_rubrics" -> [origin |-> "candidate"]
           [] id[1] = "issues" ->
                [issue_date |-> id[2][1], at |-> 0,
                 status |-> IF id[2][1] = Draft THEN "draft" ELSE "published"]
           [] id[1] = "issue_analysis" -> [cites |-> {Start[1]}, at |-> 0]
           [] id[1] = "editorial_queue" ->
                [material |-> drafted, state |-> "deferred", at |-> 0]]

Marked(db, release, sequence, base, candidate) ==
  WithRow(db, <<"content_releases", <<release>>>>,
    [sequence |-> sequence, base |-> base, candidate |-> candidate, after |-> State(db)])

DerivationInit ==
  LET rows == Marked(StartRows, 0, 0, 0, 0)
  IN  /\ current = [release |-> 0, db |-> rows]
      /\ served = [release |-> 0, db |-> rows]
      /\ store = {} /\ temporary = FALSE /\ storeLock = Nobody
      /\ builder = [b \in Builders |-> Resting]
      /\ publisher = Resting
      /\ bases = << >> /\ releases = << >> /\ deltas = << >>
      /\ evidence = {} /\ composed = 0

-----------------------------------------------------------------------------
(***************************************************************************)
(* Candidates.                                                             *)
(***************************************************************************)

\* What an author may write down against the release it sees.
CandidatesOn(base) ==
  {[candidateId |-> n[1], idempotencyKey |-> n[2], base |-> base.release, operation |-> o,
    materials |-> c.materials, cites |-> c.cites, rubric |-> c.rubric] :
      n \in CandidateNames, o \in {"daily", "correction"}, c \in Contents}
  \cup
  {[candidateId |-> n[1], idempotencyKey |-> n[2], base |-> base.release,
    operation |-> "gazette", assets |-> a,
    expected |-> Row(base.db, <<"gazettes", <<1>>>>)] : n \in CandidateNames, a \in Assets}

\* validate_candidate, as far as it relates parts of a candidate to each other.
ValidCandidate(c) ==
  c.operation # "gazette" =>
    /\ \A n, k \in DOMAIN c.materials : n # k => c.materials[n] # c.materials[k]
    /\ c.cites \subseteq ToSet(c.materials)

\* The candidate fits the rows it is bound to.
Bindable(db, c) ==
  /\ Latest(db).id = c.base
  /\ \A r \in RowsOf(db, "content_releases") : db[r].candidate # c.candidateId
  /\ c.operation = "daily" =>
       /\ \A i \in RowsOf(db, "issues") :
            i # <<"issues", <<IssueFor.daily>>>> /\ db[i].issue_date # IssueFor.daily
       /\ \A l \in RowsOf(db, "issue_materials") : l[2][2] \notin ToSet(c.materials)
  /\ c.operation = "correction" => <<"issues", <<IssueFor.correction>>>> \in DOMAIN db
  /\ c.operation = "gazette" => Row(db, <<"gazettes", <<1>>>>) = c.expected

-----------------------------------------------------------------------------
(***************************************************************************)
(* The mutations of a candidate.                                           *)
(***************************************************************************)
MutationOf(db, action, id, row) ==
  [action |-> action, id |-> id, before |-> Row(db, id), after |-> row]
DeleteOf(db, id) == MutationOf(db, "delete", id, Absent)
Created(db, id, c) == IF id \in DOMAIN db THEN db[id].created ELSE c.candidateId

\* Variant: the cards a correction no longer names stay.
NothingDropped(db, c) == {}

\* A correction drops the cards it no longer names, children first.
Dropped(db, c) ==
  LET i == IssueFor[c.operation]
      gone == Cards(db, i) \ ToSet(c.materials)
  IN  IF c.operation # "correction" THEN {}
      ELSE {DeleteOf(db, r) : r \in {x \in RowsOf(db, "material_rubrics") :
                                     x[2][1] = i /\ x[2][2] \in gone}}
           \cup {DeleteOf(db, LinkRow(i, m)) : m \in gone}

CardMutations(db, c) ==
  {MutationOf(db, "upsert", <<"materials", <<m>>>>,
     [created |-> Created(db, <<"materials", <<m>>>>, c), at |-> c.candidateId]) :
       m \in ToSet(c.materials)}

LinkMutations(db, c) ==
  LET i == IssueFor[c.operation]
      cards == ToSet(c.materials)
      place(m) == CHOOSE n \in DOMAIN c.materials : c.materials[n] = m
  IN  {MutationOf(db, "upsert", LinkRow(i, m),
         [sort_order |-> place(m) - 1, created |-> Created(db, LinkRow(i, m), c),
          at |-> c.candidateId]) : m \in cards}
      \cup {MutationOf(db, "upsert", Rubric(i, m, c.rubric), [origin |-> "candidate"]) : m \in cards}
      \cup {DeleteOf(db, r) : r \in {x \in RowsOf(db, "material_rubrics") :
              x[2][1] = i /\ x[2][2] \in cards /\ x[2][3] # c.rubric}}

IssueRowMutations(db, c) ==
  LET i == IssueFor[c.operation]
  IN  {MutationOf(db, "upsert", <<"issues", <<i>>>>,
         [issue_date |-> i, status |-> "published", at |-> c.candidateId]),
       MutationOf(db, "upsert", <<"issue_analysis", <<i>>>>, [cites |-> c.cites, at |-> c.candidateId])}

AttemptMutations(db, c) ==
  {MutationOf(db, "insert", <<"llm_attempts", <<c.candidateId>>>>, [issue |-> IssueFor[c.operation]])}

\* A daily candidate takes its card's entry out of the queue.
QueueMutations(db, c) ==
  {DeleteOf(db, <<"editorial_queue", <<q>>>>) :
     q \in {x \in {1} : c.operation = "daily" /\ <<"editorial_queue", <<x>>>> \in DOMAIN db}}

SnapshotMutations(db, c) ==
  {MutationOf(db, "insert", <<"source_snapshots", <<c.candidateId>>>>, [at |-> c.candidateId]) :
     o \in {c.operation} \cap {"daily"}}

GazetteMutations(db, c) ==
  LET old == {a \in RowsOf(db, "gazette_assets") : a[2][2] \notin c.assets}
  IN  {DeleteOf(db, a) : a \in old}
      \cup {MutationOf(db, "upsert", <<"gazettes", <<1>>>>, [content |-> c.assets, at |-> c.candidateId])}
      \cup {MutationOf(db, "upsert", <<"gazette_assets", <<1, a>>>>, [bytes |-> a]) : a \in c.assets}

\* The rest of the queue and every draft are written down again as they are, unless the
\* candidate already writes that row.
Restated(db, mutations) ==
  LET drafts == {i \in RowsOf(db, "issues") : db[i].status = "draft"}
      numbers == {i[2][1] : i \in drafts}
      links == UNION {LinksOf(db, i) : i \in numbers}
      rows == RowsOf(db, "editorial_queue") \cup drafts \cup links
              \cup {r \in RowsOf(db, "material_rubrics") : r[2][1] \in numbers}
              \cup {<<"materials", <<l[2][2]>>>> : l \in links}
  IN  {MutationOf(db, "upsert", id, db[id]) : id \in rows \ {m.id : m \in mutations}}

PlanOf(db, c) ==
  LET wanted == IF c.operation = "gazette" THEN GazetteMutations(db, c)
                ELSE Dropped(db, c) \cup CardMutations(db, c) \cup IssueRowMutations(db, c)
                     \cup LinkMutations(db, c) \cup AttemptMutations(db, c)
                     \cup SnapshotMutations(db, c) \cup QueueMutations(db, c)
  IN  Ordered(wanted \cup Restated(db, wanted), Priority)

\* validate_mutation_document
ValidDocument(mutations) ==
  /\ mutations # <<>>
  /\ \A n \in DOMAIN mutations :
       /\ mutations[n].id[1] # "content_releases"
       /\ mutations[n].action \in Allowed[mutations[n].id[1]]
       /\ mutations[n].action = "delete" => mutations[n].before # Absent
  /\ \A n, k \in DOMAIN mutations : n # k => mutations[n].id # mutations[k].id

-----------------------------------------------------------------------------
(***************************************************************************)
(* build_candidate_package                                                 *)
(***************************************************************************)
BuilderAt(b, pc) == builder[b].pc = pc
Goes(b, state) == builder' = [builder EXCEPT ![b] = state]
GivesUp(b) == Goes(b, Resting)

Compose(b) ==
  /\ BuilderAt(b, "idle") /\ composed < MaxComposed
  /\ \E c \in CandidatesOn(current) :
       /\ ValidCandidate(c)
       /\ Goes(b, [pc |-> "composed", candidate |-> c])
  /\ composed' = composed + 1
  /\ UNCHANGED <<store, temporary, storeLock, publisherVars>>

\* One read transaction on the source.
MakePlan(b) ==
  LET c == builder[b].candidate
      plan == PlanOf(current.db, c)
  IN  /\ BuilderAt(b, "composed")
      /\ IF Bindable(current.db, c) /\ ValidDocument(plan)
         THEN Goes(b, [pc |-> "planned", candidate |-> c, plan |-> plan])
         ELSE GivesUp(b)
      /\ UNCHANGED <<store, temporary, storeLock, composed, publisherVars>>

\* Every entry of the store must verify as a package, and none may carry the same
\* candidate id or idempotency key.
StoreAdmits(c) ==
  /\ ~temporary
  /\ \A p \in store : /\ p.candidate.candidateId # c.candidateId
                      /\ p.candidate.idempotencyKey # c.idempotencyKey

CheckStore(b) ==
  /\ BuilderAt(b, "planned") /\ storeLock = Nobody
  /\ IF StoreAdmits(builder[b].candidate)
     THEN Goes(b, [builder[b] EXCEPT !.pc = "checked"])
     ELSE GivesUp(b)
  /\ UNCHANGED <<store, temporary, storeLock, composed, publisherVars>>

\* replay_to_staging: refused when the source moved on or a mutation fails.
ReplayToStaging(b) ==
  LET c == builder[b].candidate
      t == Applied(current.db, builder[b].plan)
  IN  /\ BuilderAt(b, "checked")
      /\ \/ /\ current.release # c.base /\ GivesUp(b)
         \/ /\ current.release = c.base /\ ~t.ok
            /\ Goes(b, [pc |-> "refused", candidate |-> c])
         \/ /\ current.release = c.base /\ t.ok
            /\ Goes(b, [pc |-> "replayed", candidate |-> c, staging |-> t.db])
      /\ UNCHANGED <<store, temporary, storeLock, composed, publisherVars>>

ReportRefusal(b) ==
  /\ BuilderAt(b, "refused") /\ GivesUp(b)
  /\ UNCHANGED <<store, temporary, storeLock, composed, publisherVars>>

\* Variant: the store was looked at before the long build, and that is enough.
BeginUnchecked(b) ==
  /\ BuilderAt(b, "replayed") /\ storeLock = Nobody
  /\ Goes(b, [builder[b] EXCEPT !.pc = "writing"])
  /\ storeLock' = b
  /\ UNCHANGED <<store, temporary, composed, publisherVars>>

\* The second check and the write are under one lock.
BeginPackage(b) ==
  /\ BuilderAt(b, "replayed") /\ storeLock = Nobody
  /\ IF StoreAdmits(builder[b].candidate)
     THEN /\ Goes(b, [builder[b] EXCEPT !.pc = "writing"])
          /\ storeLock' = b
     ELSE GivesUp(b) /\ UNCHANGED storeLock
  /\ UNCHANGED <<store, temporary, composed, publisherVars>>

FinishPackage(b) ==
  /\ BuilderAt(b, "writing")
  /\ store' = store \cup {[candidate |-> builder[b].candidate,
                           staging   |-> builder[b].staging]}
  /\ storeLock' = Nobody
  /\ GivesUp(b)
  /\ UNCHANGED <<temporary, composed, publisherVars>>

\* The kernel drops the lock of a dead builder; its half-written directory stays.
BuilderDies(b) ==
  /\ ~BuilderAt(b, "idle")
  /\ GivesUp(b)
  /\ temporary' = (temporary \/ storeLock = b)
  /\ storeLock' = IF storeLock = b THEN Nobody ELSE storeLock
  /\ UNCHANGED <<store, composed, publisherVars>>

-----------------------------------------------------------------------------
(***************************************************************************)
(* publish_candidate, under the mutation lock.                             *)
(***************************************************************************)
PublisherAt(pc) == publisher.pc = pc
Proceed(pc) == publisher' = [publisher EXCEPT !.pc = pc]
Put(f, x, v) == [y \in DOMAIN f \cup {x} |-> IF y = x THEN v ELSE f[y]]

\* The base is the source pointer, or the retained one when the source already is
\* at this candidate's release.
OpenCandidate ==
  /\ PublisherAt("idle")
  /\ \E p \in store :
       LET id == p.candidate.candidateId
           base == IF current.release = id /\ id \in DOMAIN bases THEN bases[id] ELSE current
       IN  /\ id \notin evidence
           /\ base.release = p.candidate.base
           /\ bases' = Put(bases, id, base)
           /\ publisher' = [pc |-> IF id \in DOMAIN releases THEN "finalized" ELSE "opened",
                            package |-> p]
  /\ UNCHANGED <<current, served, releases, deltas, evidence, builderVars>>

\* finalize_release_database copies the staging file ...
CopyRelease ==
  LET p == publisher.package
  IN  /\ PublisherAt("opened")
      /\ Latest(p.staging).id = p.candidate.base
      /\ releases' = Put(releases, p.candidate.candidateId, p.staging)
      /\ Proceed("copied")
      /\ UNCHANGED <<current, served, bases, deltas, evidence, builderVars>>

\* ... and adds the marker in a transaction of its own.
MarkRelease ==
  LET id == publisher.package.candidate.candidateId
      rows == releases[id]
  IN  /\ PublisherAt("copied")
      /\ releases' = [releases EXCEPT ![id] =
                        Marked(rows, id, Latest(rows).row.sequence + 1, Latest(rows).id, id)]
      /\ Proceed("finalized")
      /\ UNCHANGED <<current, served, bases, deltas, evidence, builderVars>>

\* A release file that is not sealed, or differs from the package, stops the publication.
DeriveDelta ==
  LET c == publisher.package.candidate
      id == c.candidateId
      base == bases[id]
      target == releases[id]
      operations == DeltaOperations(base.db, target)
      envelope == [release |-> id, candidate |-> id, base |-> c.base,
                   sequence |-> Latest(target).row.sequence]
  IN  /\ PublisherAt("finalized")
      /\ IF /\ Sealed(target) /\ State(target) = State(publisher.package.staging)
            /\ DeltaBuilds(base.db, target, id)
            /\ ValidDelta(operations, envelope)
         THEN /\ deltas' = Put(deltas, id, operations)
              /\ Proceed("sent")
         ELSE /\ publisher' = Resting /\ UNCHANGED deltas
      /\ UNCHANGED <<current, served, bases, releases, evidence, builderVars>>

\* apply_delta_to_staging on the far side and the switch to the result: fenced by the
\* base release, a second arrival finds its own release and changes nothing.
DeltaArrives ==
  LET id == publisher.package.candidate.candidateId
      t == Applied(served.db, deltas[id])
      there == Latest(served.db).id = id
  IN  /\ PublisherAt("sent")
      /\ IF there THEN Proceed("answered") /\ UNCHANGED served
         ELSE IF Latest(served.db).id = bases[id].release /\ t.ok /\ Sealed(t.db)
         THEN /\ Proceed("answered")
              /\ served' = [release |-> id, db |-> t.db]
         ELSE publisher' = Resting /\ UNCHANGED served
      /\ UNCHANGED <<current, bases, releases, deltas, evidence, builderVars>>

CommitSource ==
  LET id == publisher.package.candidate.candidateId
  IN  /\ PublisherAt("answered")
      /\ current' = [release |-> id, db |-> releases[id]]
      /\ Proceed("committed")
      /\ UNCHANGED <<served, bases, releases, deltas, evidence, builderVars>>

SaveEvidence ==
  /\ PublisherAt("committed")
  /\ evidence' = evidence \cup {publisher.package.candidate.candidateId}
  /\ publisher' = Resting
  /\ UNCHANGED <<current, served, bases, releases, deltas, builderVars>>

PublisherDies ==
  /\ ~PublisherAt("idle")
  /\ publisher' = Resting
  /\ UNCHANGED <<current, served, bases, releases, deltas, evidence, builderVars>>

DerivationNext ==
  \/ \E b \in Builders :
       \/ Compose(b) \/ MakePlan(b) \/ CheckStore(b) \/ ReplayToStaging(b)
       \/ ReportRefusal(b) \/ BeginPackage(b) \/ FinishPackage(b) \/ BuilderDies(b)
  \/ OpenCandidate \/ CopyRelease \/ MarkRelease \/ DeriveDelta \/ DeltaArrives
  \/ CommitSource \/ SaveEvidence \/ PublisherDies

DerivationSpec == DerivationInit /\ [][DerivationNext]_derivationVars

-----------------------------------------------------------------------------
DerivationTypeOK ==
  /\ storeLock \in Builders \cup {Nobody}
  /\ temporary \in BOOLEAN
  /\ composed \in 0..MaxComposed
  /\ DOMAIN deltas \subseteq DOMAIN releases /\ DOMAIN releases \subseteq DOMAIN bases

\* Production reaches, by applying the delta, the rows the source reaches by replaying the
\* candidate: a derived delta always applies to the base it was derived from, with the
\* release file's rows as the result (build_delta, apply_delta_to_staging).
SameRows ==
  LET id == publisher.package.candidate.candidateId
  IN  /\ current.release = served.release => current.db = served.db
      /\ PublisherAt("sent") /\ served.release = bases[id].release
           => Applied(served.db, deltas[id]) = [ok |-> TRUE, db |-> releases[id]]

\* Two builders never register the same candidate id or the same idempotency key
\* (build_candidate_package checks before the long build and again under the lock).
OneOfEach ==
  \A p, q \in store :
    p # q => /\ p.candidate.candidateId # q.candidate.candidateId
             /\ p.candidate.idempotencyKey # q.candidate.idempotencyKey

\* What production serves after a candidate is what the candidate asked for, and every row
\* that is not about its issue or gazette is as it was before (build_candidate_mutations).
Asked(db, c) ==
  LET i == IssueFor[c.operation]
      cards == ToSet(c.materials)
  IN  IF c.operation = "gazette"
      THEN {a[2][2] : a \in RowsOf(db, "gazette_assets")} = c.assets
      ELSE /\ Cards(db, i) = cards
           /\ \A n \in DOMAIN c.materials : db[LinkRow(i, c.materials[n])].sort_order = n - 1
           /\ {r[2] : r \in {x \in RowsOf(db, "material_rubrics") : x[2][1] = i}}
                = {<<i, m, c.rubric>> : m \in cards}
           /\ db[<<"issue_analysis", <<i>>>>].cites = c.cites
About(id, c) ==
  LET i == IssueFor[c.operation]
  IN  CASE c.operation = "gazette" -> id[1] \in {"gazettes", "gazette_assets"}
        [] id[1] = "materials" -> id[2][1] \in ToSet(c.materials)
        [] id[1] \in {"source_snapshots", "llm_attempts"} -> id[2][1] = c.candidateId
        [] id[1] = "editorial_queue" -> c.operation = "daily" /\ id[2] = <<1>>
        [] OTHER -> id[2][1] = i
AsDesired ==
  \A p \in store :
    LET c == p.candidate
        before == State(bases[c.candidateId].db)
        after == State(served.db)
    IN  served.release = c.candidateId =>
          /\ Asked(served.db, c)
          /\ \A id \in DOMAIN before \cup DOMAIN after :
               About(id, c) \/ Row(before, id) = Row(after, id)

\* A correction can replace the desired issue aggregate (docs/radar-stage5-project-manager-
\* playbooks-2026-08-19.md): a candidate bound to the current source is not refused by the
\* replay of its own mutations.
ReplacesTheIssue == \A b \in Builders : ~BuilderAt(b, "refused")
=============================================================================
