---------------------------- MODULE ContentRows ----------------------------
(***************************************************************************)
(* The rows of a content database and what may be done to them: the tables *)
(* of the first migration with their keys, the typed mutations of a        *)
(* candidate and the operations of a delta.                                *)
(*                                                                         *)
(* A database is a function from row identities <<table, primary key>> to  *)
(* rows; equality of rows stands for equality of their canonical hashes.   *)
(* Tables that follow the same path as a modelled one are left out:        *)
(* sources, material_sources and material_evidence (as materials),         *)
(* material_analysis and material_quality (as material_rubrics),           *)
(* daily_stats (as issue_analysis), source_rules (not written).            *)
(***************************************************************************)
EXTENDS Integers, Sequences, FiniteSets, SequencesExt

\* The row that is not there.
Absent == [absent |-> TRUE]
Row(db, id) == IF id \in DOMAIN db THEN db[id] ELSE Absent
RowsOf(db, table) == {id \in DOMAIN db : id[1] = table}
Without(db, ids) == [id \in DOMAIN db \ ids |-> db[id]]
WithRow(db, id, row) ==
  [x \in DOMAIN db \cup {id} |-> IF x = id THEN row ELSE db[x]]

(***************************************************************************)
(* What a writer may do to each table.                                     *)
(***************************************************************************)
Allowed ==
  [source_snapshots |-> {"insert"}, materials |-> {"upsert"},
   editorial_queue  |-> {"upsert", "delete"}, issues |-> {"upsert"},
   issue_materials  |-> {"upsert", "delete"},
   issue_analysis   |-> {"upsert", "delete"}, llm_attempts |-> {"insert"},
   material_rubrics |-> {"upsert", "delete"}, gazettes |-> {"upsert"},
   gazette_assets   |-> {"upsert", "delete"}, content_releases |-> {"insert"}]

\* The order in which a delta writes the tables; it deletes in the reverse order.
UpsertOrder ==
  <<"source_snapshots", "materials", "editorial_queue", "issues",
    "issue_materials", "issue_analysis", "llm_attempts", "material_rubrics",
    "gazettes", "gazette_assets", "content_releases">>
Position == [table \in ToSet(UpsertOrder) |-> CHOOSE n \in DOMAIN UpsertOrder : UpsertOrder[n] = table]

\* The order in which a candidate's mutations are replayed.
DeletePriority ==
  [material_rubrics |-> 0, issue_materials |-> 3, gazette_assets |-> 4,
   editorial_queue |-> 5, issue_analysis |-> 10]
UpsertPriority ==
  [source_snapshots |-> 20, materials |-> 22, issues |-> 30,
   issue_materials |-> 31, issue_analysis |-> 32, llm_attempts |-> 34,
   material_rubrics |-> 36, editorial_queue |-> 40, gazettes |-> 50,
   gazette_assets |-> 51]
Priority(m) ==
  IF m.action = "delete" THEN DeletePriority[m.id[1]] ELSE UpsertPriority[m.id[1]]

(***************************************************************************)
(* Constraints of the schema.                                              *)
(***************************************************************************)
Parents(id, row) ==
  CASE id[1] = "issue_materials" ->
         {<<"issues", <<id[2][1]>>>>, <<"materials", <<id[2][2]>>>>}
    [] id[1] = "material_rubrics" -> {<<"issue_materials", <<id[2][1], id[2][2]>>>>}
    [] id[1] = "issue_analysis"   -> {<<"issues", id[2]>>}
    [] id[1] = "llm_attempts"     -> {<<"issues", <<row.issue>>>>}
    [] id[1] = "editorial_queue"  -> {<<"materials", <<row.material>>>>}
    [] id[1] = "gazette_assets"   -> {<<"gazettes", <<id[2][1]>>>>}
    [] OTHER -> {}

ReferencesHold(db) == \A id \in DOMAIN db : Parents(id, db[id]) \subseteq DOMAIN db

\* UNIQUE(issue_id, sort_order), UNIQUE(issue_date), UNIQUE(sequence), UNIQUE(candidate_id)
Clash(db, a, b) ==
  /\ a # b /\ a[1] = b[1]
  /\ \/ /\ a[1] = "issue_materials" /\ a[2][1] = b[2][1]
        /\ db[a].sort_order = db[b].sort_order
     \/ a[1] = "issues" /\ db[a].issue_date = db[b].issue_date
     \/ /\ a[1] = "content_releases"
        /\ db[a].sequence = db[b].sequence \/ db[a].candidate = db[b].candidate
UniqueHolds(db, id) == \A x \in RowsOf(db, id[1]) : ~Clash(db, id, x)

(***************************************************************************)
(* One statement on an open transaction.  A delete takes the dependent     *)
(* rows with it (ON DELETE CASCADE); a write that breaks a constraint      *)
(* raises and the transaction is lost.                                     *)
(***************************************************************************)
Dependents(db, id) == {x \in DOMAIN db : id \in Parents(x, db[x])}

Executed(db, m) ==
  IF m.action = "delete"
  THEN [ok |-> TRUE, db |-> Without(db, {m.id} \cup Dependents(db, m.id))]
  ELSE LET after == WithRow(db, m.id, m.after)
       IN  [ok |-> UniqueHolds(after, m.id)
                   /\ Parents(m.id, m.after) \subseteq DOMAIN after,
            db |-> after]

\* One mutation or one delta operation: skipped when the row is already as wanted,
\* refused when it is not as expected.
AppliedTo(t, m) ==
  LET current == Row(t.db, m.id)
      done    == IF m.action = "delete" THEN current = Absent ELSE current = m.after
  IN  IF ~t.ok \/ done THEN t
      ELSE IF current # m.before THEN [t EXCEPT !.ok = FALSE]
      ELSE Executed(t.db, m)

\* A whole document, mutation by mutation in one transaction.
Replay(db, operations) ==
  LET t[n \in 0..Len(operations)] ==
        IF n = 0 THEN [ok |-> TRUE, db |-> db] ELSE AppliedTo(t[n - 1], operations[n])
  IN  t
Applied(db, operations) ==
  LET t == Replay(db, operations)[Len(operations)]
  IN  [t EXCEPT !.ok = @ /\ ReferencesHold(t.db)]

(***************************************************************************)
(* Ordering: by a rank, then by table and by the canonical text of the key.*)
(***************************************************************************)
KeyBefore(k, l) ==
  \E n \in DOMAIN k : k[n] < l[n] /\ \A j \in 1..(n - 1) : k[j] = l[j]
Before(r(_), m, n) ==
  \/ r(m) < r(n)
  \/ r(m) = r(n) /\ Position[m.id[1]] < Position[n.id[1]]
  \/ r(m) = r(n) /\ m.id[1] = n.id[1] /\ KeyBefore(m.id[2], n.id[2])
\* The place of each mutation among the others.
Places(operations, r(_)) ==
  [m \in operations |-> 1 + Cardinality({k \in operations : Before(r, k, m)})]
Ordered(operations, r(_)) ==
  LET place == Places(operations, r)
  IN  [n \in 1..Cardinality(operations) |-> CHOOSE m \in operations : place[m] = n]

(***************************************************************************)
(* A delta: everything that differs between two release databases.         *)
(***************************************************************************)
State(db) == Without(db, RowsOf(db, "content_releases"))
Latest(db) ==
  LET releases == RowsOf(db, "content_releases")
      last == CHOOSE r \in releases : \A s \in releases : db[s].sequence <= db[r].sequence
  IN  [id |-> last[2][1], row |-> db[last]]
\* inspect_release_database: the newest marker tells the state the database holds.
Sealed(db) == Latest(db).row.after = State(db)

\* Variant: the old rows leave when the new ones are there, right before the marker.
RankDeletesLast(m) ==
  IF m.action = "delete" THEN 2 * Len(UpsertOrder) - 1 ELSE 2 * Position[m.id[1]]

DeltaRank(m) ==
  IF m.action = "delete" THEN Len(UpsertOrder) - Position[m.id[1]]
  ELSE Len(UpsertOrder) + Position[m.id[1]]

DeltaOperations(base, target) ==
  Ordered(
    {[action |-> "delete", id |-> id, before |-> base[id], after |-> Absent] :
        id \in DOMAIN base \ DOMAIN target}
    \cup
    {[action |-> IF id \notin DOMAIN base /\ "insert" \in Allowed[id[1]]
                 THEN "insert" ELSE "upsert",
      id |-> id, before |-> Row(base, id), after |-> target[id]] :
        id \in {x \in DOMAIN target : Row(base, x) # target[x]}},
    DeltaRank)

\* validate_delta: only allowed actions, one operation per row, the marker last and in
\* agreement with the envelope.
ValidDelta(operations, envelope) ==
  /\ operations # <<>>
  /\ \A n \in DOMAIN operations : operations[n].action \in Allowed[operations[n].id[1]]
  /\ \A n, k \in DOMAIN operations : n # k => operations[n].id # operations[k].id
  /\ \A n \in DOMAIN operations :
       operations[n].id[1] = "content_releases" <=> n = Len(operations)
  /\ LET marker == operations[Len(operations)]
     IN  /\ marker.id[2] = <<envelope.release>>
         /\ marker.after.candidate = envelope.candidate
         /\ marker.after.base = envelope.base
         /\ marker.after.sequence = envelope.sequence

\* build_delta refuses databases that are not sealed or not consecutive.
DeltaBuilds(base, target, release) ==
  /\ Sealed(base) /\ Sealed(target)
  /\ Latest(target).id = release
  /\ Latest(target).row.sequence = Latest(base).row.sequence + 1
=============================================================================
