------------------------------ MODULE DailyProofs ------------------------------
(***************************************************************************)
(* What holds of a day's issue on its way to production for every set of   *)
(* builders, launchers, dates and contents.                                *)
(***************************************************************************)
EXTENDS ContentProofs, DailyRun, DualRun

-----------------------------------------------------------------------------
(***************************************************************************)
(* Packages: whoever writes into the store holds its lock since it looked  *)
(* for a package of the same names.                                        *)
(***************************************************************************)
NamesDiffer(c, d) ==
  c.candidateId # d.candidateId /\ c.idempotencyKey # d.idempotencyKey

BuilderFits(b) ==
  /\ {"pc", "candidate"} \subseteq DOMAIN builder[b] \/ builder[b] = Resting
  /\ builder[b].pc = "writing" =>
       /\ storeLock = b
       /\ \A p \in store : NamesDiffer(p.candidate, builder[b].candidate)

StoreInv ==
  /\ DOMAIN builder = Builders
  /\ \A b \in Builders : BuilderFits(b)
  /\ OneOfEach

\* A builder that does not write moves on without touching the store or its lock.
LEMMA BuilderMoves ==
  ASSUME StoreInv, NEW b \in Builders, NEW k, builder' = [builder EXCEPT ![b] = k],
         {"pc", "candidate"} \subseteq DOMAIN k \/ k = Resting, k.pc # "writing",
         UNCHANGED <<store, storeLock>>
  PROVE  StoreInv'
<1>1. DOMAIN builder' = Builders /\ \A a \in Builders : builder'[a] = IF a = b THEN k ELSE builder[a]
  BY DEF StoreInv
<1>2. ASSUME NEW a \in Builders PROVE BuilderFits(a)'
  BY <1>1 DEF StoreInv, BuilderFits
<1>3. OneOfEach'
  BY DEF StoreInv, OneOfEach
<1>4. QED
  BY <1>1, <1>2, <1>3 DEF StoreInv

\* Every step of a builder keeps the store's names apart.
LEMMA BuilderStep ==
  ASSUME StoreInv, NEW b \in Builders,
         \/ Compose(b) \/ MakePlan(b) \/ CheckStore(b) \/ ReplayToStaging(b)
         \/ ReportRefusal(b) \/ BeginPackage(b) \/ FinishPackage(b) \/ BuilderDies(b)
  PROVE  StoreInv'
<1> DEFINE k0 == builder[b]
<1>0. /\ DOMAIN builder = Builders /\ BuilderFits(b)
      /\ k0.pc # "idle" => {"pc", "candidate"} \subseteq DOMAIN k0
  BY DEF StoreInv, BuilderFits, Resting
<1>R. Resting.pc # "writing"
  BY DEF Resting
<1>1. CASE Compose(b)
  <2>1. PICK c : builder' = [builder EXCEPT ![b] = [pc |-> "composed", candidate |-> c]]
    BY <1>1 DEF Compose, Goes
  <2>2. UNCHANGED <<store, storeLock>>
    BY <1>1 DEF Compose
  <2> DEFINE k == [pc |-> "composed", candidate |-> c]
  <2>3. {"pc", "candidate"} \subseteq DOMAIN k /\ k.pc # "writing"
    OBVIOUS
  <2>4. builder' = [builder EXCEPT ![b] = k]
    BY <2>1
  <2> HIDE DEF k
  <2>5. QED
    BY <2>2, <2>3, <2>4, BuilderMoves
<1>2. CASE MakePlan(b)
  <2>1. UNCHANGED <<store, storeLock>>
    BY <1>2 DEF MakePlan
  <2>2. CASE builder' = [builder EXCEPT ![b] = Resting]
    BY <1>R, <2>1, <2>2, BuilderMoves
  <2>3. ASSUME NEW c, NEW plan, builder' = [builder EXCEPT ![b] = [pc |-> "planned", candidate |-> c, plan |-> plan]]
        PROVE  StoreInv'
    <3> DEFINE k == [pc |-> "planned", candidate |-> c, plan |-> plan]
    <3>1. {"pc", "candidate"} \subseteq DOMAIN k /\ k.pc # "writing"
      OBVIOUS
    <3>2. builder' = [builder EXCEPT ![b] = k]
      BY <2>3
    <3> HIDE DEF k
    <3>3. QED
      BY <2>1, <3>1, <3>2, BuilderMoves
  <2>4. QED
    BY <1>2, <2>2, <2>3 DEF MakePlan, Goes, GivesUp
<1>3. CASE CheckStore(b)
  <2>1. UNCHANGED <<store, storeLock>> /\ k0.pc # "idle"
    BY <1>3 DEF CheckStore, BuilderAt
  <2>2. CASE builder' = [builder EXCEPT ![b] = Resting]
    BY <1>R, <2>1, <2>2, BuilderMoves
  <2>3. ASSUME builder' = [builder EXCEPT ![b] = [k0 EXCEPT !.pc = "checked"]]
        PROVE  StoreInv'
    <3> DEFINE k == [k0 EXCEPT !.pc = "checked"]
    <3>1. {"pc", "candidate"} \subseteq DOMAIN k /\ k.pc # "writing"
      BY <1>0, <2>1
    <3>2. builder' = [builder EXCEPT ![b] = k]
      BY <2>3
    <3> HIDE DEF k
    <3>3. QED
      BY <2>1, <3>1, <3>2, BuilderMoves
  <2>4. QED
    BY <1>3, <2>2, <2>3 DEF CheckStore, Goes, GivesUp
<1>4. CASE ReplayToStaging(b)
  <2>1. UNCHANGED <<store, storeLock>>
    BY <1>4 DEF ReplayToStaging
  <2>2. CASE builder' = [builder EXCEPT ![b] = Resting]
    BY <1>R, <2>1, <2>2, BuilderMoves
  <2>3. ASSUME NEW c, builder' = [builder EXCEPT ![b] = [pc |-> "refused", candidate |-> c]]
        PROVE  StoreInv'
    <3> DEFINE k == [pc |-> "refused", candidate |-> c]
    <3>1. {"pc", "candidate"} \subseteq DOMAIN k /\ k.pc # "writing"
      OBVIOUS
    <3>2. builder' = [builder EXCEPT ![b] = k]
      BY <2>3
    <3> HIDE DEF k
    <3>3. QED
      BY <2>1, <3>1, <3>2, BuilderMoves
  <2>4. ASSUME NEW c, NEW db, builder' = [builder EXCEPT ![b] = [pc |-> "replayed", candidate |-> c, staging |-> db]]
        PROVE  StoreInv'
    <3> DEFINE k == [pc |-> "replayed", candidate |-> c, staging |-> db]
    <3>1. {"pc", "candidate"} \subseteq DOMAIN k /\ k.pc # "writing"
      OBVIOUS
    <3>2. builder' = [builder EXCEPT ![b] = k]
      BY <2>4
    <3> HIDE DEF k
    <3>3. QED
      BY <2>1, <3>1, <3>2, BuilderMoves
  <2>5. QED
    BY <1>4, <2>2, <2>3, <2>4 DEF ReplayToStaging, Goes, GivesUp
<1>5. CASE ReportRefusal(b)
  BY <1>5, <1>R, BuilderMoves DEF ReportRefusal, Goes, GivesUp
<1>6. CASE BeginPackage(b)
  <2>1. store' = store /\ storeLock = Nobody /\ k0.pc = "replayed"
    BY <1>6 DEF BeginPackage, BuilderAt
  <2>2. CASE builder' = [builder EXCEPT ![b] = Resting] /\ storeLock' = storeLock
    BY <1>R, <2>1, <2>2, BuilderMoves
  <2>3. CASE /\ builder' = [builder EXCEPT ![b] = [k0 EXCEPT !.pc = "writing"]]
             /\ storeLock' = b /\ StoreAdmits(k0.candidate)
    <3> DEFINE k == [k0 EXCEPT !.pc = "writing"]
    <3>1. {"pc", "candidate"} \subseteq DOMAIN k /\ k.candidate = k0.candidate
      BY <1>0, <2>1
    <3>2. /\ DOMAIN builder' = Builders
          /\ \A a \in Builders : builder'[a] = IF a = b THEN k ELSE builder[a]
      BY <1>0, <2>3
    <3> HIDE DEF k
    <3>3. \A a \in Builders : builder[a].pc # "writing"
      BY <2>1, DerivationAssumption DEF StoreInv, BuilderFits
    <3>4. \A p \in store : NamesDiffer(p.candidate, k.candidate)
      BY <2>3, <3>1 DEF StoreAdmits, NamesDiffer
    <3>5. ASSUME NEW a \in Builders PROVE BuilderFits(a)'
      BY <2>1, <2>3, <3>1, <3>2, <3>3, <3>4 DEF StoreInv, BuilderFits
    <3>6. OneOfEach'
      BY <2>1 DEF StoreInv, OneOfEach
    <3>7. QED
      BY <3>2, <3>5, <3>6 DEF StoreInv
  <2>4. QED
    BY <1>6, <2>2, <2>3 DEF BeginPackage, Goes, GivesUp
<1>7. CASE FinishPackage(b)
  <2> DEFINE new == [candidate |-> k0.candidate, staging |-> k0.staging]
  <2>1. /\ k0.pc = "writing" /\ builder' = [builder EXCEPT ![b] = Resting]
        /\ store' = store \cup {new} /\ storeLock' = Nobody
    BY <1>7 DEF FinishPackage, BuilderAt, Goes, GivesUp
  <2>2. \A p \in store : NamesDiffer(p.candidate, new.candidate)
    BY <1>0, <2>1 DEF BuilderFits
  <2> HIDE DEF new
  <2>3. OneOfEach'
    BY <2>1, <2>2 DEF StoreInv, OneOfEach, NamesDiffer
  <2>4. \A a \in Builders : builder'[a] = IF a = b THEN Resting ELSE builder[a]
    BY <1>0, <2>1
  <2>5. \A a \in Builders : a # b => builder[a].pc # "writing"
    BY <1>0, <2>1 DEF StoreInv, BuilderFits
  <2>6. ASSUME NEW a \in Builders PROVE BuilderFits(a)'
    BY <1>R, <2>4, <2>5 DEF StoreInv, BuilderFits
  <2>7. QED
    BY <1>0, <2>1, <2>3, <2>6 DEF StoreInv
<1>8. CASE BuilderDies(b)
  <2>1. store' = store /\ builder' = [builder EXCEPT ![b] = Resting]
        /\ storeLock' = IF storeLock = b THEN Nobody ELSE storeLock
    BY <1>8 DEF BuilderDies, Goes, GivesUp
  <2>2. \A a \in Builders : builder'[a] = IF a = b THEN Resting ELSE builder[a]
    BY <1>0, <2>1
  <2>3. ASSUME NEW a \in Builders PROVE BuilderFits(a)'
    BY <1>R, <2>1, <2>2 DEF StoreInv, BuilderFits
  <2>4. OneOfEach'
    BY <2>1 DEF StoreInv, OneOfEach
  <2>5. QED
    BY <1>0, <2>1, <2>3, <2>4 DEF StoreInv
<1>9. QED
  BY <1>1, <1>2, <1>3, <1>4, <1>5, <1>6, <1>7, <1>8

\* Behaviour of build_candidate_package: for any builders, deaths and publications in
\* between, no two packages of the store carry the same candidate id or idempotency key.
THEOREM PackagesAreUnique == DerivationSpec => []OneOfEach
<1>1. DerivationInit => StoreInv
  <2> SUFFICES ASSUME DerivationInit PROVE StoreInv
    OBVIOUS
  <2>1. Resting.pc # "writing"
    BY DEF Resting
  <2>2. DOMAIN builder = Builders /\ \A b \in Builders : builder[b] = Resting
    BY DEF DerivationInit
  <2>3. store = {}
    BY DEF DerivationInit
  <2>4. QED
    BY <2>1, <2>2, <2>3 DEF StoreInv, BuilderFits, OneOfEach
<1>2. StoreInv /\ [DerivationNext]_derivationVars => StoreInv'
  <2> SUFFICES ASSUME StoreInv, [DerivationNext]_derivationVars PROVE StoreInv'
    OBVIOUS
  <2>1. CASE UNCHANGED builderVars
    BY <2>1 DEF builderVars, StoreInv, BuilderFits, OneOfEach
  <2>2. CASE \/ OpenCandidate \/ CopyRelease \/ MarkRelease \/ DeriveDelta \/ DeltaArrives
             \/ CommitSource \/ SaveEvidence \/ PublisherDies
    BY <2>1, <2>2 DEF OpenCandidate, CopyRelease, MarkRelease, DeriveDelta, DeltaArrives,
                      CommitSource, SaveEvidence, PublisherDies
  <2>3. QED
    BY <2>1, <2>2, BuilderStep DEF DerivationNext, derivationVars
<1>3. StoreInv => OneOfEach
  BY DEF StoreInv
<1>4. QED
  BY <1>1, <1>2, <1>3, PTL DEF DerivationSpec

-----------------------------------------------------------------------------
(***************************************************************************)
(* Rows on their way to production: every release that is named anywhere   *)
(* has the rows of the first one or of a marked release file, and whoever  *)
(* works on a candidate works from the rows of the release that it is      *)
(* bound to.                                                               *)
(***************************************************************************)
\* The rows of a release: of the first one, or of a release file that is marked.
IsRelease(r, db) ==
  IF r = 0 THEN db = StartDb
  ELSE r \in DOMAIN releases /\ db = releases[r] /\ Latest(db).id = r

\* The staging copy of a package comes from the release its candidate is bound to.
PackageFits(c, s) == \E db : IsRelease(c.base, db) /\ Packaged(c, db, s)

\* What a builder has found out so far.
Planned(k) ==
  /\ {"pc", "candidate", "plan"} \subseteq DOMAIN k
  /\ \E db : /\ IsRelease(k.candidate.base, db) /\ Bound(k.candidate, db)
             /\ k.plan = PlanOf(db, k.candidate)
Replayed(k) ==
  /\ {"pc", "candidate", "staging"} \subseteq DOMAIN k
  /\ PackageFits(k.candidate, k.staging)
\* What each place of a builder says of what it holds.
BuilderKnows(k) ==
  /\ k.pc = "composed" => CandidateFits(k.candidate) /\ ValidCandidate(k.candidate)
  /\ k.pc \in {"planned", "checked"} => Planned(k)
  /\ k.pc \in {"replayed", "writing"} => Replayed(k)

\* A release file is a package's staging copy, marked or not yet; a retained base is the
\* release its candidate is bound to.
FileFits(r) ==
  /\ Sound(releases[r]) /\ Markers(releases[r]) /\ r \in DOMAIN bases
  /\ \E p \in store : p.candidate.candidateId = r /\ releases[r] \in Copies(p.candidate, p.staging)
BaseFits(r) ==
  /\ IsRelease(bases[r].release, bases[r].db)
  /\ \E p \in store : p.candidate.candidateId = r /\ p.candidate.base = bases[r].release

\* What the publisher knows at each of its places.
PublisherFits ==
  LET p == publisher.package
      id == p.candidate.candidateId
  IN  publisher # Resting =>
        /\ publisher = [pc |-> publisher.pc, package |-> p] /\ p \in store /\ id \in DOMAIN bases
        /\ publisher.pc = "opened" => id \notin DOMAIN releases
        /\ publisher.pc # "opened" => id \in DOMAIN releases
        /\ publisher.pc = "copied" => releases[id] = p.staging
        /\ publisher.pc = "sent" => Applied(bases[id].db, deltas[id]) = [ok |-> TRUE, db |-> releases[id]]
        /\ publisher.pc \in {"sent", "answered"} => Latest(releases[id]).id = id

\* All of them together.
BuildersKnow == \A b \in Builders : BuilderKnows(builder[b])
PackagesFit == \A p \in store : PackageFits(p.candidate, p.staging)
FilesFit == \A r \in DOMAIN releases : FileFits(r)
BasesFit == \A r \in DOMAIN bases : BaseFits(r)
PointersFit == IsRelease(current.release, current.db) /\ IsRelease(served.release, served.db)

\* The inductive invariant: it names the packages and files behind every release.
DerivationInv ==
  /\ StoreInv /\ BuildersKnow /\ PackagesFit /\ FilesFit /\ BasesFit /\ PointersFit /\ PublisherFits

\* What a release holds.
LEMMA ReleaseHolds ==
  ASSUME FilesFit, NEW r, NEW db, IsRelease(r, db)
  PROVE  Sound(db) /\ Markers(db) /\ Latest(db).id = r
BY StartDbHolds DEF IsRelease, FilesFit, FileFits

\* A release has one set of rows.
LEMMA ReleaseIsOne ==
  ASSUME NEW r, NEW d, NEW e, IsRelease(r, d), IsRelease(r, e)
  PROVE  d = e
BY DEF IsRelease

\* A candidate that can be composed fits.
LEMMA ComposedFits ==
  ASSUME NEW base, NEW c \in CandidatesOn(base)
  PROVE  CandidateFits(c)
<1>1. CASE \E n \in CandidateNames, o \in {"daily", "correction"}, d \in Contents :
             c = [candidateId |-> n[1], idempotencyKey |-> n[2], base |-> base.release, operation |-> o,
                  materials |-> d.materials, cites |-> d.cites, rubric |-> d.rubric]
  <2>1. PICK n \in CandidateNames, o \in {"daily", "correction"}, d \in Contents :
             c = [candidateId |-> n[1], idempotencyKey |-> n[2], base |-> base.release, operation |-> o,
                  materials |-> d.materials, cites |-> d.cites, rubric |-> d.rubric]
    BY <1>1
  <2>2. n[1] \in Nat \ {0} /\ d.materials \in Seq(Materials) /\ d.rubric \in {1, 2}
    BY DerivationAssumption
  <2>3. c.candidateId = n[1] /\ c.operation = o /\ c.materials = d.materials /\ c.rubric = d.rubric
    BY <2>1
  <2>4. QED
    BY <2>2, <2>3 DEF CandidateFits
<1>2. CASE \E n \in CandidateNames, a \in Assets :
             c = [candidateId |-> n[1], idempotencyKey |-> n[2], base |-> base.release,
                  operation |-> "gazette", assets |-> a, expected |-> Row(base.db, <<"gazettes", <<1>>>>)]
  <2>1. PICK n \in CandidateNames, a \in Assets :
             c = [candidateId |-> n[1], idempotencyKey |-> n[2], base |-> base.release,
                  operation |-> "gazette", assets |-> a, expected |-> Row(base.db, <<"gazettes", <<1>>>>)]
    BY <1>2
  <2>2. n[1] \in Nat \ {0} /\ a \in SUBSET Nat /\ IsFiniteSet(a)
    BY DerivationAssumption
  <2>3. c.candidateId = n[1] /\ c.operation = "gazette" /\ c.assets = a
    BY <2>1
  <2>4. QED
    BY <2>2, <2>3 DEF CandidateFits
<1>3. QED
  BY <1>1, <1>2 DEF CandidatesOn

-----------------------------------------------------------------------------
\* A step that keeps every release keeps what is known of them.
Kept == \A r, db : IsRelease(r, db) => IsRelease(r, db)'

\* What a builder knows stays known,
LEMMA BuilderStillKnows ==
  ASSUME Kept, NEW k, BuilderKnows(k)
  PROVE  BuilderKnows(k)'
<1>1. Planned(k) => Planned(k)'
  BY DEF Kept, Planned
<1>2. Replayed(k) => Replayed(k)'
  BY DEF Kept, Replayed, PackageFits
<1>3. QED
  BY <1>1, <1>2 DEF BuilderKnows

\* and a package still fits its base.
LEMMA PackageStillFits ==
  ASSUME Kept, NEW c, NEW s, PackageFits(c, s)
  PROVE  PackageFits(c, s)'
BY DEF Kept, PackageFits

\* A step that leaves the release files alone keeps every release.
LEMMA FilesUntouched ==
  ASSUME releases' = releases
  PROVE  Kept
BY DEF Kept, IsRelease

\* A builder that goes on with something known.
LEMMA BuilderGoesOn ==
  ASSUME DOMAIN builder = Builders, BuildersKnow, NEW b \in Builders, NEW k, Goes(b, k),
         BuilderKnows(k), releases' = releases
  PROVE  BuildersKnow'
<1>1. \A a \in Builders : builder'[a] = IF a = b THEN k ELSE builder[a]
  BY DEF Goes
<1>2. Kept
  BY FilesUntouched
<1>3. ASSUME NEW a \in Builders PROVE BuilderKnows(builder[a])'
  <2>1. PICK x : BuilderKnows(x) /\ builder'[a] = x
    BY <1>1 DEF BuildersKnow
  <2>2. BuilderKnows(x)'
    BY <1>2, <2>1, BuilderStillKnows
  <2>3. QED
    BY <2>1, <2>2 DEF BuilderKnows, Planned, Replayed
<1>4. QED
  BY <1>3 DEF BuildersKnow

\* Nothing is asked of a resting builder.
LEMMA BuilderGivesUp ==
  ASSUME DOMAIN builder = Builders, BuildersKnow, NEW b \in Builders, GivesUp(b), releases' = releases
  PROVE  BuildersKnow'
<1>1. BuilderKnows(Resting)
  BY DEF BuilderKnows, Resting
<1>2. QED
  BY <1>1, BuilderGoesOn DEF GivesUp

\* Every step of a builder keeps what the builders know.
LEMMA BuildersLearn ==
  ASSUME DerivationInv, NEW b \in Builders,
         \/ Compose(b) \/ MakePlan(b) \/ CheckStore(b) \/ ReplayToStaging(b)
         \/ ReportRefusal(b) \/ BeginPackage(b) \/ FinishPackage(b) \/ BuilderDies(b)
  PROVE  BuildersKnow' /\ UNCHANGED publisherVars
<1> DEFINE k0 == builder[b]
           c == k0.candidate
<1>0. DOMAIN builder = Builders /\ BuildersKnow /\ BuilderKnows(k0) /\ FilesFit /\ PointersFit
  BY DEF DerivationInv, StoreInv, BuildersKnow
<1>1. UNCHANGED publisherVars /\ releases' = releases
  BY DEF Compose, MakePlan, CheckStore, ReplayToStaging, ReportRefusal, BeginPackage, FinishPackage,
         BuilderDies, publisherVars
<1>2. CASE GivesUp(b)
  BY <1>0, <1>1, <1>2, BuilderGivesUp
<1>3. CASE Compose(b)
  <2>1. PICK d \in CandidatesOn(current) :
             ValidCandidate(d) /\ Goes(b, [pc |-> "composed", candidate |-> d])
    BY <1>3 DEF Compose
  <2> DEFINE k == [pc |-> "composed", candidate |-> d]
  <2>2. k.pc = "composed" /\ k.candidate = d
    OBVIOUS
  <2>3. Goes(b, k)
    BY <2>1
  <2> HIDE DEF k
  <2>4. BuilderKnows(k)
    BY <2>1, <2>2, ComposedFits DEF BuilderKnows
  <2>5. QED
    BY <1>0, <1>1, <2>3, <2>4, BuilderGoesOn
<1>4. CASE MakePlan(b) /\ ~GivesUp(b)
  <2> DEFINE plan == PlanOf(current.db, c)
             k == [pc |-> "planned", candidate |-> c, plan |-> plan]
  <2>1. k0.pc = "composed" /\ Bindable(current.db, c) /\ Goes(b, k)
    BY <1>4 DEF MakePlan, BuilderAt
  <2>2. CandidateFits(c) /\ ValidCandidate(c)
    BY <1>0, <2>1 DEF BuilderKnows
  <2>3. Latest(current.db).id = c.base
    BY <2>1 DEF Bindable
  <2>4. IsRelease(c.base, current.db)
    BY <1>0, <2>3, ReleaseHolds DEF PointersFit
  <2>5. k.pc = "planned" /\ k.candidate = c /\ k.plan = plan /\ DOMAIN k = {"pc", "candidate", "plan"}
    OBVIOUS
  <2> HIDE DEF k
  <2>6. BuilderKnows(k)
    <3>1. Bound(k.candidate, current.db) /\ IsRelease(k.candidate.base, current.db)
          /\ k.plan = PlanOf(current.db, k.candidate)
      BY <2>1, <2>2, <2>4, <2>5 DEF Bound
    <3>2. Planned(k)
      BY <2>5, <3>1 DEF Planned
    <3>3. QED
      BY <2>5, <3>2 DEF BuilderKnows
  <2>7. QED
    BY <1>0, <1>1, <2>1, <2>6, BuilderGoesOn
<1>5. CASE CheckStore(b) /\ ~GivesUp(b)
  <2> DEFINE k == [k0 EXCEPT !.pc = "checked"]
  <2>1. k0.pc = "planned" /\ Goes(b, k)
    BY <1>5 DEF CheckStore, BuilderAt
  <2>2. Planned(k0)
    BY <1>0, <2>1 DEF BuilderKnows
  <2>3. k.pc = "checked" /\ k.candidate = k0.candidate /\ k.plan = k0.plan /\ DOMAIN k = DOMAIN k0
    BY <2>2 DEF Planned
  <2> HIDE DEF k
  <2>4. BuilderKnows(k)
    BY <2>2, <2>3 DEF BuilderKnows, Planned
  <2>5. QED
    BY <1>0, <1>1, <2>1, <2>4, BuilderGoesOn
<1>6. CASE ReplayToStaging(b) /\ ~GivesUp(b)
  <2> DEFINE t == Applied(current.db, k0.plan)
  <2>1. k0.pc = "checked" /\ current.release = c.base
    BY <1>6 DEF ReplayToStaging, BuilderAt
  <2>2. PICK db : IsRelease(c.base, db) /\ Bound(c, db) /\ k0.plan = PlanOf(db, c)
    BY <1>0, <2>1 DEF BuilderKnows, Planned
  <2>3. db = current.db
    BY <1>0, <2>1, <2>2, ReleaseIsOne DEF PointersFit
  <2>4. Sound(db)
    BY <1>0, <2>2, ReleaseHolds
  <2>5. CASE Goes(b, [pc |-> "refused", candidate |-> c])
    <3> DEFINE k == [pc |-> "refused", candidate |-> c]
    <3>1. k.pc = "refused" /\ Goes(b, k)
      BY <2>5
    <3> HIDE DEF k
    <3>2. BuilderKnows(k)
      BY <3>1 DEF BuilderKnows
    <3>3. QED
      BY <1>0, <1>1, <3>1, <3>2, BuilderGoesOn
  <2>6. CASE t.ok /\ Goes(b, [pc |-> "replayed", candidate |-> c, staging |-> t.db])
    <3> DEFINE s == t.db
               k == [pc |-> "replayed", candidate |-> c, staging |-> s]
    <3>1. t = Applied(db, PlanOf(db, c))
      BY <2>2, <2>3
    <3> HIDE DEF t
    <3>2. Applied(db, PlanOf(db, c)).ok
      BY <2>6, <3>1
    <3>3. Applied(db, PlanOf(db, c)) = [ok |-> TRUE, db |-> s]
      BY <2>2, <2>4, <3>1, <3>2, VerdictOfPlan DEF Bound
    <3>4. Packaged(c, db, s)
      BY <2>2, <3>3 DEF Packaged
    <3>5. PackageFits(c, s)
      BY <2>2, <3>4 DEF PackageFits
    <3>6. k.pc = "replayed" /\ k.candidate = c /\ k.staging = s /\ DOMAIN k = {"pc", "candidate", "staging"}
      OBVIOUS
    <3>7. Goes(b, k)
      BY <2>6 DEF t
    <3> HIDE DEF k, s
    <3>8. BuilderKnows(k)
      BY <3>5, <3>6 DEF BuilderKnows, Replayed
    <3>9. QED
      BY <1>0, <1>1, <3>7, <3>8, BuilderGoesOn
  <2>7. QED
    BY <1>6, <2>5, <2>6 DEF ReplayToStaging
<1>7. CASE BeginPackage(b) /\ ~GivesUp(b)
  <2> DEFINE k == [k0 EXCEPT !.pc = "writing"]
  <2>1. k0.pc = "replayed" /\ Goes(b, k)
    BY <1>7 DEF BeginPackage, BuilderAt
  <2>2. Replayed(k0)
    BY <1>0, <2>1 DEF BuilderKnows
  <2>3. k.pc = "writing" /\ k.candidate = k0.candidate /\ k.staging = k0.staging /\ DOMAIN k = DOMAIN k0
    BY <2>2 DEF Replayed
  <2> HIDE DEF k
  <2>4. BuilderKnows(k)
    BY <2>2, <2>3 DEF BuilderKnows, Replayed
  <2>5. QED
    BY <1>0, <1>1, <2>1, <2>4, BuilderGoesOn
<1>8. QED
  BY <1>1, <1>2, <1>3, <1>4, <1>5, <1>6, <1>7 DEF ReportRefusal, FinishPackage, BuilderDies

\* A builder adds to the store only what it has replayed.
LEMMA StoreLearns ==
  ASSUME DerivationInv, NEW b \in Builders,
         \/ Compose(b) \/ MakePlan(b) \/ CheckStore(b) \/ ReplayToStaging(b)
         \/ ReportRefusal(b) \/ BeginPackage(b) \/ FinishPackage(b) \/ BuilderDies(b)
  PROVE  PackagesFit' /\ store \subseteq store'
<1>1. releases' = releases
  BY BuildersLearn DEF publisherVars
<1>2. \A p \in store : PackageFits(p.candidate, p.staging)
  BY DEF DerivationInv, PackagesFit
<1>3. Kept
  BY <1>1, FilesUntouched
<1>4. ASSUME NEW p \in store' PROVE PackageFits(p.candidate, p.staging)
  <2>1. CASE p \in store
    BY <1>2, <2>1
  <2>2. CASE p \notin store
    <3> DEFINE k0 == builder[b]
               new == [candidate |-> k0.candidate, staging |-> k0.staging]
    <3>1. k0.pc = "writing" /\ p = new
      BY <2>2 DEF Compose, MakePlan, CheckStore, ReplayToStaging, ReportRefusal, BeginPackage,
                  FinishPackage, BuilderDies, BuilderAt
    <3>2. BuilderKnows(k0)
      BY DEF DerivationInv, BuildersKnow
    <3>3. PackageFits(k0.candidate, k0.staging)
      BY <3>1, <3>2 DEF BuilderKnows, Replayed
    <3>4. p.candidate = k0.candidate /\ p.staging = k0.staging
      BY <3>1
    <3> HIDE DEF k0
    <3>5. QED
      BY <3>3, <3>4
  <2>3. QED
    BY <2>1, <2>2
<1>5. ASSUME NEW p \in store' PROVE PackageFits(p.candidate, p.staging)'
  BY <1>3, <1>4, PackageStillFits
<1>6. PackagesFit'
  BY <1>5 DEF PackagesFit
<1>7. store \subseteq store'
  BY DEF Compose, MakePlan, CheckStore, ReplayToStaging, ReportRefusal, BeginPackage, FinishPackage,
         BuilderDies
<1>8. QED
  BY <1>6, <1>7

\* Every step of a builder keeps the whole.
LEMMA BuilderKeeps ==
  ASSUME DerivationInv, NEW b \in Builders,
         \/ Compose(b) \/ MakePlan(b) \/ CheckStore(b) \/ ReplayToStaging(b)
         \/ ReportRefusal(b) \/ BeginPackage(b) \/ FinishPackage(b) \/ BuilderDies(b)
  PROVE  DerivationInv'
<1>1. UNCHANGED publisherVars /\ BuildersKnow' /\ PackagesFit' /\ store \subseteq store'
  BY BuildersLearn, StoreLearns
<1>2. StoreInv'
  BY BuilderStep DEF DerivationInv
<1>3. UNCHANGED <<current, served, publisher, bases, releases, deltas, evidence>>
  BY <1>1 DEF publisherVars
<1>4. FilesFit'
  BY <1>1, <1>3 DEF DerivationInv, FilesFit, FileFits
<1>5. BasesFit'
  BY <1>1, <1>3 DEF DerivationInv, BasesFit, BaseFits, IsRelease
<1>6. PointersFit'
  BY <1>3 DEF DerivationInv, PointersFit, IsRelease
<1>7. PublisherFits'
  BY <1>1, <1>3 DEF DerivationInv, PublisherFits
<1>8. QED
  BY <1>1, <1>2, <1>4, <1>5, <1>6, <1>7 DEF DerivationInv

\* What the builders and the packages rest on stays while every release is kept.
LEMMA StoreStillFits ==
  ASSUME DerivationInv, Kept, UNCHANGED builderVars
  PROVE  StoreInv' /\ BuildersKnow' /\ PackagesFit'
<1>1. builder' = builder /\ store' = store /\ storeLock' = storeLock
  BY DEF builderVars
<1>2. StoreInv'
  BY <1>1 DEF DerivationInv, StoreInv, BuilderFits, OneOfEach
<1>3. ASSUME NEW b \in Builders PROVE BuilderKnows(builder[b])'
  <2>1. PICK x : BuilderKnows(x) /\ builder'[b] = x
    BY <1>1 DEF DerivationInv, BuildersKnow
  <2>2. BuilderKnows(x)'
    BY <2>1, BuilderStillKnows
  <2>3. QED
    BY <2>1, <2>2 DEF BuilderKnows, Planned, Replayed
<1>4. ASSUME NEW p \in store' PROVE PackageFits(p.candidate, p.staging)'
  BY <1>1, PackageStillFits DEF DerivationInv, PackagesFit
<1>5. QED
  BY <1>2, <1>3, <1>4 DEF BuildersKnow, PackagesFit

\* What the publisher's package holds.
LEMMA PackageInHand ==
  ASSUME DerivationInv, publisher # Resting
  PROVE  LET p == publisher.package
             c == p.candidate
         IN  /\ p \in store /\ c.candidateId \in DOMAIN bases
             /\ IsRelease(c.base, bases[c.candidateId].db) /\ bases[c.candidateId].release = c.base
             /\ Packaged(c, bases[c.candidateId].db, p.staging)
             /\ Sound(bases[c.candidateId].db) /\ Markers(bases[c.candidateId].db)
             /\ c.candidateId \in Nat \ {0}
             /\ Sound(p.staging) /\ Markers(p.staging)
             /\ Latest(p.staging).id # c.candidateId
             /\ c.candidateId \in DOMAIN releases => releases[c.candidateId] \in Copies(c, p.staging)
<1> DEFINE p == publisher.package
           c == p.candidate
           id == c.candidateId
<1>1. p \in store /\ id \in DOMAIN bases
  BY DEF DerivationInv, PublisherFits
<1>2. \A q \in store : q.candidate.candidateId = id => q = p
  BY <1>1 DEF DerivationInv, StoreInv, OneOfEach
<1>3. IsRelease(bases[id].release, bases[id].db) /\ bases[id].release = c.base
  BY <1>1, <1>2 DEF DerivationInv, BasesFit, BaseFits
<1>4. PackageFits(c, p.staging)
  BY <1>1 DEF DerivationInv, PackagesFit
<1>5. PICK db : IsRelease(c.base, db) /\ Packaged(c, db, p.staging)
  BY <1>4 DEF PackageFits
<1>6. db = bases[id].db
  BY <1>3, <1>5, ReleaseIsOne
<1>7. Sound(db) /\ Markers(db)
  BY <1>5, ReleaseHolds DEF DerivationInv
<1>8. /\ Sound(p.staging) /\ Markers(p.staging) /\ id \in Nat \ {0}
      /\ Latest(p.staging).id # id
  BY <1>5, <1>7, PackageHolds
<1>9. id \in DOMAIN releases => releases[id] \in Copies(c, p.staging)
  BY <1>2 DEF DerivationInv, FilesFit, FileFits
<1>10. QED
  BY <1>1, <1>3, <1>5, <1>6, <1>7, <1>8, <1>9

\* A step that keeps the release files and the retained bases.
LEMMA FilesStillFit ==
  ASSUME DerivationInv, UNCHANGED <<builderVars, bases, releases>>
  PROVE  StoreInv' /\ BuildersKnow' /\ PackagesFit' /\ FilesFit' /\ BasesFit' /\ Kept
<1>1. Kept
  BY FilesUntouched
<1>2. StoreInv' /\ BuildersKnow' /\ PackagesFit' /\ store' = store
  BY <1>1, StoreStillFits DEF builderVars
<1>3. FilesFit' /\ BasesFit'
  BY <1>2 DEF DerivationInv, FilesFit, FileFits, BasesFit, BaseFits, IsRelease
<1>4. QED
  BY <1>1, <1>2, <1>3

\* So do the pointers of source and production.
LEMMA PointersStillFit ==
  ASSUME DerivationInv, UNCHANGED <<current, served, releases>>
  PROVE  PointersFit'
BY DEF DerivationInv, PointersFit, IsRelease

\* The publisher gives up: nothing is asked of it.
LEMMA PublisherRests ==
  ASSUME publisher' = Resting
  PROVE  PublisherFits'
BY DEF PublisherFits

\* The publisher's place and package after a move.
LEMMA PublisherMoves ==
  ASSUME DerivationInv, publisher # Resting, NEW s, publisher' = [publisher EXCEPT !.pc = s]
  PROVE  publisher'.pc = s /\ publisher'.package = publisher.package
         /\ publisher' = [pc |-> publisher'.pc, package |-> publisher'.package]
<1>1. publisher = [pc |-> publisher.pc, package |-> publisher.package]
  BY DEF DerivationInv, PublisherFits
<1>2. [[pc |-> publisher.pc, package |-> publisher.package] EXCEPT !.pc = s]
        = [pc |-> s, package |-> publisher.package]
  OBVIOUS
<1>3. publisher' = [pc |-> s, package |-> publisher.package]
  BY <1>1, <1>2
<1>4. QED
  BY <1>3

\* A publication begins: the base that it retains is the release its candidate is bound to.
LEMMA OpenKeeps == DerivationInv /\ OpenCandidate => DerivationInv'
<1> SUFFICES ASSUME DerivationInv, OpenCandidate PROVE DerivationInv'
  OBVIOUS
<1>1. UNCHANGED <<current, served, releases, deltas, evidence, builderVars>> /\ store' = store
  BY DEF OpenCandidate, builderVars
<1>2. PICK p \in store :
        LET id == p.candidate.candidateId
            base == IF current.release = id /\ id \in DOMAIN bases THEN bases[id] ELSE current
        IN  /\ base.release = p.candidate.base
            /\ bases' = Put(bases, id, base)
            /\ publisher' = [pc |-> IF id \in DOMAIN releases THEN "finalized" ELSE "opened",
                             package |-> p]
  BY DEF OpenCandidate
<1> DEFINE id == p.candidate.candidateId
           base == IF current.release = id /\ id \in DOMAIN bases THEN bases[id] ELSE current
<1>3. base.release = p.candidate.base /\ IsRelease(base.release, base.db)
  BY <1>2 DEF DerivationInv, PointersFit, BasesFit, BaseFits
<1>4. /\ DOMAIN bases' = DOMAIN bases \cup {id}
      /\ \A r \in DOMAIN bases' : bases'[r] = IF r = id THEN base ELSE bases[r]
  BY <1>2 DEF Put
<1> HIDE DEF base
<1>5. Kept
  BY <1>1, FilesUntouched
<1>6. StoreInv' /\ BuildersKnow' /\ PackagesFit'
  BY <1>1, <1>5, StoreStillFits
<1>7. FilesFit'
  BY <1>1, <1>4 DEF DerivationInv, FilesFit, FileFits
<1>8. BasesFit'
  <2>1. ASSUME NEW r \in DOMAIN bases' PROVE BaseFits(r)'
    <3>1. CASE r = id
      BY <1>1, <1>2, <1>3, <1>4, <3>1 DEF BaseFits, IsRelease
    <3>2. CASE r # id
      <4>1. r \in DOMAIN bases /\ bases'[r] = bases[r]
        BY <1>4, <2>1, <3>2
      <4>2. QED
        BY <1>1, <4>1 DEF DerivationInv, BasesFit, BaseFits, IsRelease
    <3>3. QED
      BY <3>1, <3>2
  <2>2. QED
    BY <2>1 DEF BasesFit
<1>9. PointersFit'
  BY <1>1, PointersStillFit
<1>10. PublisherFits'
  <2>1. /\ publisher'.pc = IF id \in DOMAIN releases THEN "finalized" ELSE "opened"
        /\ publisher'.package = p /\ publisher' = [pc |-> publisher'.pc, package |-> publisher'.package]
    BY <1>2
  <2>2. id \in DOMAIN bases'
    BY <1>4
  <2>3. QED
    BY <1>1, <2>1, <2>2 DEF PublisherFits
<1>11. QED
  BY <1>6, <1>7, <1>8, <1>9, <1>10 DEF DerivationInv

\* A release file that is written or marked was not a release yet.
LEMMA FileWritten ==
  ASSUME DerivationInv, publisher # Resting,
         UNCHANGED <<current, served, bases, deltas, evidence, builderVars>>,
         LET c == publisher.package.candidate
             id == c.candidateId
         IN  /\ id \in DOMAIN releases => Latest(releases[id]).id # id
             /\ DOMAIN releases' = DOMAIN releases \cup {id}
             /\ \A r \in DOMAIN releases : r # id => releases'[r] = releases[r]
             /\ releases'[id] \in Copies(c, publisher.package.staging)
  PROVE  StoreInv' /\ BuildersKnow' /\ PackagesFit' /\ FilesFit' /\ BasesFit' /\ PointersFit'
<1> DEFINE p == publisher.package
           c == p.candidate
           id == c.candidateId
           e == releases'[id]
<1>1. store' = store
  BY DEF builderVars
<1>2. Kept
  BY DEF Kept, IsRelease
<1>3. StoreInv' /\ BuildersKnow' /\ PackagesFit'
  BY <1>2, StoreStillFits
<1>4. FilesFit'
  <2>1. p \in store /\ id \in DOMAIN bases /\ e \in Copies(c, p.staging)
    BY PackageInHand
  <2>2. Sound(e) /\ Markers(e)
    BY <2>1, PackageInHand, CopyHolds
  <2>3. PICK i : i = id
    OBVIOUS
  <2>4. releases'[i] = e /\ i \in DOMAIN bases /\ i = c.candidateId
    BY <2>1, <2>3
  <2> HIDE DEF e
  <2>5. FileFits(i)'
    BY <1>1, <2>1, <2>2, <2>4 DEF FileFits
  <2>6. ASSUME NEW r \in DOMAIN releases, r # id PROVE FileFits(r)'
    BY <1>1, <2>6 DEF DerivationInv, FilesFit, FileFits
  <2>7. QED
    BY <2>3, <2>5, <2>6 DEF FilesFit
<1>5. BasesFit'
  BY <1>1, <1>2 DEF DerivationInv, BasesFit, BaseFits, Kept
<1>6. PointersFit'
  BY <1>2 DEF DerivationInv, PointersFit, Kept
<1>7. QED
  BY <1>3, <1>4, <1>5, <1>6

\* The staging copy becomes a release file, not a release yet.
LEMMA CopyKeeps == DerivationInv /\ CopyRelease => DerivationInv'
<1> SUFFICES ASSUME DerivationInv, CopyRelease PROVE DerivationInv'
  OBVIOUS
<1> DEFINE p == publisher.package
           c == p.candidate
           id == c.candidateId
<1>1. /\ publisher.pc = "opened" /\ releases' = Put(releases, id, p.staging)
      /\ publisher' = [publisher EXCEPT !.pc = "copied"]
      /\ UNCHANGED <<current, served, bases, deltas, evidence, builderVars>>
  BY DEF CopyRelease, PublisherAt, Proceed
<1>2. publisher # Resting
  BY <1>1 DEF Resting
<1>3. id \notin DOMAIN releases /\ p \in store /\ id \in DOMAIN bases
  BY <1>1, <1>2 DEF DerivationInv, PublisherFits
<1>4. /\ DOMAIN releases' = DOMAIN releases \cup {id}
      /\ \A r \in DOMAIN releases' : releases'[r] = IF r = id THEN p.staging ELSE releases[r]
  BY <1>1 DEF Put
<1>5. releases'[id] = p.staging
  BY <1>4
<1>6. releases'[id] \in Copies(c, p.staging)
  BY <1>5 DEF Copies
<1>7. StoreInv' /\ BuildersKnow' /\ PackagesFit' /\ FilesFit' /\ BasesFit' /\ PointersFit'
  BY <1>1, <1>2, <1>3, <1>4, <1>6, FileWritten
<1>8. PublisherFits'
  <2>1. publisher'.pc = "copied" /\ publisher'.package = p
        /\ publisher' = [pc |-> publisher'.pc, package |-> publisher'.package]
    BY <1>1, <1>2, PublisherMoves
  <2>2. store' = store
    BY <1>1 DEF builderVars
  <2>3. QED
    BY <1>1, <1>3, <1>4, <1>5, <2>1, <2>2 DEF PublisherFits
<1>9. QED
  BY <1>7, <1>8 DEF DerivationInv

\* The marker makes it one.
LEMMA MarkKeeps == DerivationInv /\ MarkRelease => DerivationInv'
<1> SUFFICES ASSUME DerivationInv, MarkRelease PROVE DerivationInv'
  OBVIOUS
<1> DEFINE p == publisher.package
           c == p.candidate
           id == c.candidateId
           e == Marked(releases[id], id, Latest(releases[id]).row.sequence + 1, Latest(releases[id]).id, id)
<1>1. /\ publisher.pc = "copied" /\ releases' = [releases EXCEPT ![id] = e]
      /\ publisher' = [publisher EXCEPT !.pc = "finalized"]
      /\ UNCHANGED <<current, served, bases, deltas, evidence, builderVars>>
  BY DEF MarkRelease, PublisherAt, Proceed
<1>2. publisher # Resting
  BY <1>1 DEF Resting
<1>3. id \in DOMAIN releases /\ p \in store /\ id \in DOMAIN bases /\ releases[id] = p.staging
  BY <1>1, <1>2 DEF DerivationInv, PublisherFits
<1>4. e = MarkedFrom(p.staging, id)
  BY <1>3 DEF MarkedFrom
<1> HIDE DEF e
<1>5. /\ DOMAIN releases' = DOMAIN releases
      /\ releases'[id] = e /\ \A r \in DOMAIN releases : r # id => releases'[r] = releases[r]
  BY <1>1, <1>3
<1>6. Latest(releases[id]).id # id
  BY <1>2, <1>3, PackageInHand
<1>7. releases'[id] \in Copies(c, p.staging) /\ DOMAIN releases' = DOMAIN releases \cup {id}
  BY <1>3, <1>4, <1>5 DEF Copies
<1>8. StoreInv' /\ BuildersKnow' /\ PackagesFit' /\ FilesFit' /\ BasesFit' /\ PointersFit'
  BY <1>1, <1>2, <1>5, <1>6, <1>7, FileWritten
<1>9. PublisherFits'
  <2>1. publisher'.pc = "finalized" /\ publisher'.package = p
        /\ publisher' = [pc |-> publisher'.pc, package |-> publisher'.package]
    BY <1>1, <1>2, PublisherMoves
  <2>2. store' = store
    BY <1>1 DEF builderVars
  <2>3. QED
    BY <1>1, <1>3, <1>5, <2>1, <2>2 DEF PublisherFits
<1>10. QED
  BY <1>8, <1>9 DEF DerivationInv

\* A derived delta applies to its base with the release file's rows as the result.
LEMMA DeriveKeeps == DerivationInv /\ DeriveDelta => DerivationInv'
<1> SUFFICES ASSUME DerivationInv, DeriveDelta PROVE DerivationInv'
  OBVIOUS
<1> DEFINE p == publisher.package
           c == p.candidate
           id == c.candidateId
           base == bases[id].db
           target == releases[id]
           ops == DeltaOperations(base, target)
<1>1. /\ publisher.pc = "finalized"
      /\ UNCHANGED <<current, served, bases, releases, evidence, builderVars>>
  BY DEF DeriveDelta, PublisherAt
<1>2. publisher # Resting
  BY <1>1 DEF Resting
<1>3. id \in DOMAIN releases /\ p \in store /\ id \in DOMAIN bases
  BY <1>1, <1>2 DEF DerivationInv, PublisherFits
<1>4. StoreInv' /\ BuildersKnow' /\ PackagesFit' /\ FilesFit' /\ BasesFit'
  BY <1>1, FilesStillFit
<1>5. PointersFit'
  BY <1>1, PointersStillFit
<1>6. CASE publisher' = Resting
  BY <1>4, <1>5, <1>6, PublisherRests DEF DerivationInv
<1>7. CASE /\ DeltaBuilds(base, target, id)
           /\ \A n \in DOMAIN ops : ops[n].action \in Allowed[ops[n].id[1]]
           /\ deltas' = Put(deltas, id, ops) /\ Proceed("sent")
  <2>1. Sound(base) /\ Markers(base) /\ Packaged(c, base, p.staging) /\ target \in Copies(c, p.staging)
    BY <1>2, <1>3, PackageInHand
  <2>2. Sound(target) /\ NoCrossing(base, target)
    BY <2>1, CopyHolds
  <2>3. DeletesAllowed(base, target)
    BY <1>7, <2>1, <2>2, DeletesAreAllowed
  <2>4. Applied(base, ops) = [ok |-> TRUE, db |-> target]
    BY <2>1, <2>2, <2>3, DeltaApplies
  <2>5. Latest(target).id = id
    BY <1>7 DEF DeltaBuilds
  <2> HIDE DEF ops
  <2>6. deltas'[id] = ops
    BY <1>7 DEF Put
  <2>7. publisher'.pc = "sent" /\ publisher'.package = p
        /\ publisher' = [pc |-> publisher'.pc, package |-> publisher'.package]
    BY <1>2, <1>7, PublisherMoves DEF Proceed
  <2>8. store' = store
    BY <1>1 DEF builderVars
  <2>9. PublisherFits'
    BY <1>1, <1>3, <2>4, <2>5, <2>6, <2>7, <2>8 DEF PublisherFits
  <2>10. QED
    BY <1>4, <1>5, <2>9 DEF DerivationInv
<1>8. QED
  BY <1>6, <1>7 DEF DeriveDelta, ValidDelta

\* Production switches to the rows of the release file.
LEMMA ArrivalKeeps == DerivationInv /\ DeltaArrives => DerivationInv'
<1> SUFFICES ASSUME DerivationInv, DeltaArrives PROVE DerivationInv'
  OBVIOUS
<1> DEFINE p == publisher.package
           id == p.candidate.candidateId
           t == Applied(served.db, deltas[id])
<1>1. /\ publisher.pc = "sent"
      /\ UNCHANGED <<current, bases, releases, deltas, evidence, builderVars>>
  BY DEF DeltaArrives, PublisherAt
<1>2. publisher # Resting
  BY <1>1 DEF Resting
<1>3. /\ id \in DOMAIN releases /\ p \in store /\ id \in DOMAIN bases /\ Latest(releases[id]).id = id
      /\ Applied(bases[id].db, deltas[id]) = [ok |-> TRUE, db |-> releases[id]]
  BY <1>1, <1>2 DEF DerivationInv, PublisherFits
<1>4. StoreInv' /\ BuildersKnow' /\ PackagesFit' /\ FilesFit' /\ BasesFit' /\ store' = store
  BY <1>1, FilesStillFit DEF builderVars
<1>5. ASSUME publisher' = Resting \/ Proceed("answered") PROVE PublisherFits'
  <2>1. CASE Proceed("answered")
    <3>1. publisher'.pc = "answered" /\ publisher'.package = p
          /\ publisher' = [pc |-> publisher'.pc, package |-> publisher'.package]
      BY <1>2, <2>1, PublisherMoves DEF Proceed
    <3>2. QED
      BY <1>1, <1>3, <1>4, <3>1 DEF PublisherFits
  <2>2. QED
    BY <1>5, <2>1, PublisherRests
<1>6. CASE served' = served /\ (publisher' = Resting \/ Proceed("answered"))
  BY <1>1, <1>4, <1>5, <1>6, PointersStillFit DEF DerivationInv
<1>7. CASE /\ Latest(served.db).id = bases[id].release
           /\ Proceed("answered") /\ served' = [release |-> id, db |-> t.db]
  <2>1. IsRelease(served.release, served.db) /\ IsRelease(current.release, current.db)
    BY DEF DerivationInv, PointersFit
  <2>2. Latest(served.db).id = served.release
    BY <2>1, ReleaseHolds DEF DerivationInv
  <2>3. IsRelease(bases[id].release, bases[id].db)
    BY <1>3 DEF DerivationInv, BasesFit, BaseFits
  <2>4. served.db = bases[id].db
    BY <1>7, <2>1, <2>2, <2>3, ReleaseIsOne
  <2>5. t.db = releases[id]
    BY <1>3, <2>4
  <2> HIDE DEF t
  <2>6. served'.release = id /\ served'.db = releases[id]
    BY <1>7, <2>5
  <2>7. id # 0
    BY <1>2, PackageInHand
  <2>8. PointersFit'
    BY <1>1, <1>3, <2>1, <2>6, <2>7 DEF PointersFit, IsRelease
  <2>9. QED
    BY <1>4, <1>5, <1>7, <2>8 DEF DerivationInv
<1>8. QED
  BY <1>6, <1>7 DEF DeltaArrives

\* The source advances to the release file.
LEMMA CommitKeeps == DerivationInv /\ CommitSource => DerivationInv'
<1> SUFFICES ASSUME DerivationInv, CommitSource PROVE DerivationInv'
  OBVIOUS
<1> DEFINE p == publisher.package
           id == p.candidate.candidateId
<1>1. /\ publisher.pc = "answered" /\ current' = [release |-> id, db |-> releases[id]]
      /\ publisher' = [publisher EXCEPT !.pc = "committed"]
      /\ UNCHANGED <<served, bases, releases, deltas, evidence, builderVars>>
  BY DEF CommitSource, PublisherAt, Proceed
<1>2. publisher # Resting
  BY <1>1 DEF Resting
<1>3. id \in DOMAIN releases /\ p \in store /\ id \in DOMAIN bases /\ Latest(releases[id]).id = id
  BY <1>1, <1>2 DEF DerivationInv, PublisherFits
<1>4. StoreInv' /\ BuildersKnow' /\ PackagesFit' /\ FilesFit' /\ BasesFit' /\ store' = store
  BY <1>1, FilesStillFit DEF builderVars
<1>5. id # 0
  BY <1>2, PackageInHand
<1>6. PointersFit'
  BY <1>1, <1>3, <1>5 DEF DerivationInv, PointersFit, IsRelease
<1>7. PublisherFits'
  <2>1. publisher'.pc = "committed" /\ publisher'.package = p
        /\ publisher' = [pc |-> publisher'.pc, package |-> publisher'.package]
    BY <1>1, <1>2, PublisherMoves
  <2>2. QED
    BY <1>1, <1>3, <1>4, <2>1 DEF PublisherFits
<1>8. QED
  BY <1>4, <1>6, <1>7 DEF DerivationInv

\* Every step of the publisher keeps the whole.
LEMMA PublisherKeeps ==
  ASSUME DerivationInv,
         \/ OpenCandidate \/ CopyRelease \/ MarkRelease \/ DeriveDelta \/ DeltaArrives
         \/ CommitSource \/ SaveEvidence \/ PublisherDies
  PROVE  DerivationInv'
<1>1. CASE SaveEvidence \/ PublisherDies
  <2>1. publisher' = Resting /\ UNCHANGED <<current, served, bases, releases, builderVars>>
    BY <1>1 DEF SaveEvidence, PublisherDies
  <2>2. QED
    BY <2>1, FilesStillFit, PointersStillFit, PublisherRests DEF DerivationInv
<1>2. QED
  BY <1>1, OpenKeeps, CopyKeeps, MarkKeeps, DeriveKeeps, ArrivalKeeps, CommitKeeps

\* Behaviour of build_candidate_package and publish_candidate: the inductive invariant
\* holds at every step of builders and publisher, whoever dies where.
THEOREM DerivationInvHolds == DerivationSpec => []DerivationInv
<1>1. DerivationInit => DerivationInv
  <2> SUFFICES ASSUME DerivationInit PROVE DerivationInv
    OBVIOUS
  <2>1. /\ builder = [b \in Builders |-> Resting] /\ store = {} /\ publisher = Resting
        /\ bases = << >> /\ releases = << >>
        /\ current = [release |-> 0, db |-> StartDb] /\ served = [release |-> 0, db |-> StartDb]
    BY DEF DerivationInit, StartDb
  <2>2. Resting.pc = "idle"
    BY DEF Resting
  <2>3. StoreInv /\ BuildersKnow
    BY <2>1, <2>2 DEF StoreInv, BuilderFits, OneOfEach, BuildersKnow, BuilderKnows
  <2>4. PackagesFit /\ FilesFit /\ BasesFit /\ PublisherFits
    BY <2>1 DEF PackagesFit, FilesFit, BasesFit, PublisherFits
  <2>5. PointersFit
    BY <2>1 DEF PointersFit, IsRelease
  <2>6. QED
    BY <2>3, <2>4, <2>5 DEF DerivationInv
<1>2. DerivationInv /\ [DerivationNext]_derivationVars => DerivationInv'
  <2> SUFFICES ASSUME DerivationInv, [DerivationNext]_derivationVars PROVE DerivationInv'
    OBVIOUS
  <2>1. CASE UNCHANGED derivationVars
    <3>1. UNCHANGED <<builderVars, bases, releases>> /\ UNCHANGED <<current, served, releases>>
          /\ publisher' = publisher /\ deltas' = deltas /\ store' = store
      BY <2>1 DEF derivationVars, publisherVars, builderVars
    <3>2. PublisherFits'
      BY <3>1 DEF DerivationInv, PublisherFits
    <3>3. QED
      BY <3>1, <3>2, FilesStillFit, PointersStillFit DEF DerivationInv
  <2>2. QED
    BY <2>1, BuilderKeeps, PublisherKeeps DEF DerivationNext
<1>3. QED
  BY <1>1, <1>2, PTL DEF DerivationSpec

\* Behaviour of build_delta and apply_delta_to_staging: for any candidates, deaths and
\* repeated publications, a delta applies to the base it was derived from with the release
\* file's rows as the result, and a release has the same rows in production as at the source.
THEOREM RowsAreTheSame == DerivationSpec => []SameRows
<1>1. DerivationInv => SameRows
  <2> SUFFICES ASSUME DerivationInv PROVE SameRows
    OBVIOUS
  <2> DEFINE id == publisher.package.candidate.candidateId
  <2>1. IsRelease(current.release, current.db) /\ IsRelease(served.release, served.db)
    BY DEF DerivationInv, PointersFit
  <2>2. current.release = served.release => current.db = served.db
    BY <2>1, ReleaseIsOne
  <2>3. ASSUME publisher.pc = "sent", served.release = bases[id].release
        PROVE  Applied(served.db, deltas[id]) = [ok |-> TRUE, db |-> releases[id]]
    <3>1. publisher # Resting
      BY <2>3 DEF Resting
    <3>2. /\ Applied(bases[id].db, deltas[id]) = [ok |-> TRUE, db |-> releases[id]]
          /\ id \in DOMAIN bases
      BY <2>3, <3>1 DEF DerivationInv, PublisherFits
    <3>3. IsRelease(bases[id].release, bases[id].db)
      BY <3>2 DEF DerivationInv, BasesFit, BaseFits
    <3>4. served.db = bases[id].db
      BY <2>1, <2>3, <3>3, ReleaseIsOne
    <3>5. QED
      BY <3>2, <3>4
  <2>4. QED
    BY <2>2, <2>3 DEF SameRows, PublisherAt
<1>2. QED
  BY <1>1, DerivationInvHolds, PTL

\* Behaviour of build_candidate_mutations up to the switch: what production serves after a
\* candidate is what the candidate asked for, and no row it is not about has changed.
THEOREM ServedAsDesired == DerivationSpec => []AsDesired
<1>1. DerivationInv => AsDesired
  <2> SUFFICES ASSUME DerivationInv, NEW p \in store, served.release = p.candidate.candidateId
               PROVE  LET c == p.candidate
                          before == State(bases[c.candidateId].db)
                          after == State(served.db)
                      IN  /\ Asked(served.db, c)
                          /\ \A id \in DOMAIN before \cup DOMAIN after :
                               About(id, c) \/ Row(before, id) = Row(after, id)
    BY DEF AsDesired
  <2> DEFINE c == p.candidate
             r == c.candidateId
  <2>1. PICK db : IsRelease(c.base, db) /\ Packaged(c, db, p.staging)
    BY DEF DerivationInv, PackagesFit, PackageFits
  <2>2. Sound(db) /\ Markers(db)
    BY <2>1, ReleaseHolds DEF DerivationInv
  <2>3. r # 0
    BY <2>1, <2>2, PackageHolds
  <2>4. r \in DOMAIN releases /\ served.db = releases[r]
    BY <2>3 DEF DerivationInv, PointersFit, IsRelease
  <2>5. r \in DOMAIN bases /\ \E q \in store : /\ q.candidate.candidateId = r
                                               /\ releases[r] \in Copies(q.candidate, q.staging)
    BY <2>4 DEF DerivationInv, FilesFit, FileFits
  <2>6. \A q \in store : q.candidate.candidateId = r => q = p
    BY DEF DerivationInv, StoreInv, OneOfEach
  <2>7. served.db \in Copies(c, p.staging)
    BY <2>4, <2>5, <2>6
  <2>8. IsRelease(bases[r].release, bases[r].db) /\ bases[r].release = c.base
    BY <2>5, <2>6 DEF DerivationInv, BasesFit, BaseFits
  <2>9. bases[r].db = db
    BY <2>1, <2>8, ReleaseIsOne
  <2>10. QED
    BY <2>1, <2>2, <2>7, <2>9, CopyIsDesired
<1>2. QED
  BY <1>1, DerivationInvHolds, PTL

-----------------------------------------------------------------------------
(***************************************************************************)
(* The dual run: to make a runner read other bytes unnoticed, its copy has *)
(* to be rewritten before it reads and put back after it has read.         *)
(***************************************************************************)
\* Places at which nothing is known of a branch's run, and where Legacy's is.
Forking == {"create", "open", "fork", "copy", "attest", "attested"}
BeforeV2 == {<<"read", "legacy">>, <<"baseline", "legacy">>, <<"seal", "legacy">>, <<"run", "v2">>}

\* What a branch was started on and has read.
Deceived(b) == execution[b].identity = Identity /\ consumed[b] # Identity

ReadFits(b) ==
  /\ At("read", b) /\ execution[b].identity = Identity /\ tree[b].input # Identity => writes >= 1
  /\ Deceived(b) => At("read", b) \/ (tree[b].input # Identity /\ writes >= 1) \/ writes >= 2

DualInv ==
  /\ writes \in Nat /\ writes <= MaxWrites
  /\ DOMAIN tree = Branches /\ DOMAIN execution = Branches /\ DOMAIN consumed = Branches
  /\ \A b \in Branches : DOMAIN tree[b] = {"made", "input", "attests"}
                         /\ DOMAIN execution[b] = {"status", "identity"}
  /\ pc[1] \in Forking \/ At("run", "legacy") => \A b \in Branches : ~Deceived(b)
  /\ pc \in BeforeV2 => ~Deceived("v2")
  /\ \A b \in Branches : ReadFits(b)

\* The process's steps and the writes of others keep the account of the writes.
LEMMA DualInvStep ==
  ASSUME MaxWrites \in Nat, DualInv, [DualRunNext]_dualVars
  PROVE  DualInv'
<1> USE DEF Identity, Nothing
<1>0. Nothing # Identity
  OBVIOUS
<1>1. CASE UNCHANGED dualVars
  BY <1>1 DEF dualVars, DualInv, ReadFits, Deceived, At
\* Until the runs nothing is known of them.
<1>2. ASSUME UNCHANGED <<execution, consumed, writes>>, pc[1] \in Forking, pc'[1] \in Forking \/ At("run", "legacy")' \/ pc' = <<"stopped", "both">>,
             DOMAIN tree' = Branches, \A b \in Branches : DOMAIN tree'[b] = {"made", "input", "attests"}
      PROVE  DualInv'
  <2>1. \A b \in Branches : ~Deceived(b)'
    BY <1>2 DEF DualInv, Deceived
  <2>2. \A b \in Branches : ~At("read", b)'
    BY <1>2 DEF At, Forking
  <2>3. pc' \notin BeforeV2
    BY <1>2 DEF At, Forking, BeforeV2
  <2>4. QED
    BY <1>2, <2>1, <2>2, <2>3 DEF DualInv, ReadFits
<1>3. CASE CreateSnapshot \/ OpenSnapshot
  <2>1. UNCHANGED <<tree, execution, consumed, writes>> /\ pc[1] \in Forking
        /\ (pc'[1] \in Forking \/ pc' = <<"stopped", "both">>)
    BY <1>3 DEF CreateSnapshot, OpenSnapshot, At, Goto, Stop, Forking
  <2>2. QED
    BY <1>2, <2>1 DEF DualInv
<1>4. ASSUME NEW b \in Branches, MakeBranch(b) \/ CopySnapshot(b) \/ WriteAttestation(b) \/ FinishFork(b)
      PROVE  DualInv'
  <2>1. UNCHANGED <<execution, consumed, writes>> /\ pc[1] \in Forking
    BY <1>4 DEF MakeBranch, CopySnapshot, WriteAttestation, FinishFork, At, Forking
  <2>2. pc'[1] \in Forking \/ At("run", "legacy")'
    BY <1>4 DEF MakeBranch, CopySnapshot, WriteAttestation, FinishFork, ForkFails, NextFork, At, Goto, Forking
  <2>3. DOMAIN tree' = Branches /\ \A a \in Branches : DOMAIN tree'[a] = {"made", "input", "attests"}
    <3>1. CASE tree' = tree
      BY <3>1 DEF DualInv
    <3>2. CASE tree' = [tree EXCEPT ![b] = EmptyTree]
      BY <3>2 DEF DualInv, EmptyTree, NoTree
    <3>3. CASE tree' = [tree EXCEPT ![b].input = Identity] \/ tree' = [tree EXCEPT ![b].attests = Identity]
      BY <3>3 DEF DualInv
    <3>4. QED
      BY <1>4, <3>1, <3>2, <3>3 DEF MakeBranch, CopySnapshot, WriteAttestation, FinishFork
  <2>4. QED
    BY <1>2, <2>1, <2>2, <2>3
<1>5. ASSUME NEW b \in Branches, StartRunner(b) PROVE DualInv'
  <2>1. /\ At("run", b) /\ UNCHANGED <<tree, consumed, writes>>
        /\ DOMAIN execution' = Branches
        /\ \A a \in Branches : a # b => execution'[a] = execution[a]
        /\ DOMAIN execution'[b] = {"status", "identity"}
        /\ execution'[b].identity = Nothing \/ (execution'[b].identity = tree[b].input /\ At("read", b)')
        /\ pc' \in {<<"read", b>>, <<"seal", "legacy">>, <<"hash", "v2">>}
        /\ pc' = <<"seal", "legacy">> => b = "legacy"
        /\ pc' = <<"hash", "v2">> => b = "v2"
    <3> DEFINE ready == fork[b] # Nothing /\ Attested(b) /\ tree[b].input = fork[b]
    <3>1. /\ At("run", b) /\ UNCHANGED <<tree, consumed, writes>>
          /\ execution' = [execution EXCEPT ![b] =
               IF ready THEN [status |-> "running", identity |-> tree[b].input]
               ELSE [status |-> "blocked", identity |-> Nothing]]
          /\ ready => pc' = <<"read", b>>
          /\ ~ready /\ b = "legacy" => pc' = <<"seal", b>>
          /\ ~ready /\ b # "legacy" => pc' = <<"hash", b>>
      BY <1>5 DEF StartRunner, Goto
    <3> HIDE DEF ready
    <3>2. b \in {"legacy", "v2"} /\ DOMAIN execution = Branches
      BY DEF Branches, DualInv
    <3>3. CASE ready
      BY <3>1, <3>2, <3>3 DEF At
    <3>4. CASE ~ready
      <4>1. execution' = [execution EXCEPT ![b] = [status |-> "blocked", identity |-> Nothing]]
        BY <3>1, <3>4
      <4>2. /\ DOMAIN execution' = Branches /\ execution'[b] = [status |-> "blocked", identity |-> Nothing]
            /\ \A a \in Branches : a # b => execution'[a] = execution[a]
        BY <3>2, <4>1
      <4>3. DOMAIN execution'[b] = {"status", "identity"} /\ execution'[b].identity = Nothing
        BY <4>2
      <4>4. /\ pc' \in {<<"read", b>>, <<"seal", "legacy">>, <<"hash", "v2">>}
            /\ pc' = <<"seal", "legacy">> => b = "legacy"
            /\ pc' = <<"hash", "v2">> => b = "v2"
        BY <3>1, <3>2, <3>4
      <4>5. QED
        BY <3>1, <4>2, <4>3, <4>4
    <3>5. QED
      BY <3>3, <3>4
  <2>2. /\ ~Deceived(b)
        /\ b = "legacy" => ~Deceived("v2")
    BY <2>1 DEF DualInv, At, Branches, BeforeV2
  <2>3. \A a \in Branches : Deceived(a)' => Deceived(a) \/ (a = b /\ At("read", b)')
    BY <2>1 DEF Deceived
  <2>4. ASSUME NEW a \in Branches PROVE ReadFits(a)'
    <3>1. At("read", a)' => a = b /\ execution'[b].identity \in {Nothing, tree[b].input}
      BY <2>1 DEF At
    <3>2. ~At("read", a)
      BY <2>1 DEF At
    <3>3. CASE a = b
      <4>1. tree'[b].input = tree[b].input
        BY <2>1
      <4>2. Deceived(b)' => At("read", b)'
        BY <2>2, <2>3
      <4>3. At("read", b)' /\ execution'[b].identity = Identity => tree[b].input = Identity
        BY <2>1, <3>1
      <4>4. QED
        BY <3>3, <4>1, <4>2, <4>3 DEF ReadFits, At
    <3>4. CASE a # b
      BY <2>1, <2>3, <3>1, <3>2, <3>4 DEF DualInv, ReadFits
    <3>5. QED
      BY <3>3, <3>4
  <2>5. ~(pc'[1] \in Forking) /\ ~At("run", "legacy")'
    BY <2>1 DEF At, Forking
  <2>6. pc' \in BeforeV2 => b = "legacy"
    BY <2>1 DEF BeforeV2, Branches
  <2>7. pc' \in BeforeV2 => ~Deceived("v2")'
    BY <2>1, <2>2, <2>3, <2>6 DEF Branches
  <2>8. QED
    BY <2>1, <2>4, <2>5, <2>7 DEF DualInv
<1>6. ASSUME NEW b \in Branches, RunBranch(b) PROVE DualInv'
  <2>1. /\ At("read", b) /\ UNCHANGED <<tree, writes>>
        /\ DOMAIN consumed' = Branches /\ consumed'[b] = tree[b].input
        /\ \A a \in Branches : a # b => consumed'[a] = consumed[a]
        /\ pc' = <<IF b = "legacy" THEN "baseline" ELSE "hash", b>>
    BY <1>6 DEF RunBranch, DualInv, Goto
  <2>2. /\ DOMAIN execution' = Branches
        /\ \A a \in Branches : /\ DOMAIN execution'[a] = {"status", "identity"}
                               /\ execution'[a].identity = execution[a].identity
    BY <1>6 DEF RunBranch, DualInv
  <2>3. QED
    BY <2>1, <2>2 DEF DualInv, ReadFits, Deceived, At, Branches, Forking, BeforeV2
<1>7. CASE CheckBaseline \/ SealLegacy \/ CheckIsolation
  <2>1. /\ UNCHANGED <<tree, consumed, writes>>
        /\ \/ pc = <<"baseline", "legacy">> /\ pc' = <<"seal", "legacy">>
           \/ pc = <<"seal", "legacy">> /\ pc' \in {<<"run", "v2">>, <<"compare", "both">>}
           \/ pc = <<"hash", "v2">> /\ pc' = <<"compare", "both">>
    BY <1>7 DEF CheckBaseline, SealLegacy, CheckIsolation, At, Goto
  <2>2. /\ DOMAIN execution' = Branches
        /\ \A a \in Branches : /\ DOMAIN execution'[a] = {"status", "identity"}
                               /\ execution'[a].identity \in {Nothing, execution[a].identity}
    BY <1>7 DEF CheckBaseline, SealLegacy, CheckIsolation, DualInv, Branches
  <2>3. QED
    BY <2>1, <2>2 DEF DualInv, ReadFits, Deceived, At, Branches, Forking, BeforeV2
<1>8. CASE WriteComparison
  <2>1. UNCHANGED <<tree, execution, consumed, writes>> /\ pc = <<"compare", "both">> /\ pc' = <<"stopped", "both">>
    BY <1>8 DEF WriteComparison, At, Stop, Goto
  <2>2. QED
    BY <2>1 DEF DualInv, ReadFits, Deceived, At, Branches, Forking, BeforeV2
<1>9. CASE ForeignWrite
  <2>1. UNCHANGED <<execution, consumed, pc>> /\ writes < MaxWrites /\ writes' = writes + 1
    BY <1>9 DEF ForeignWrite
  <2>2. DOMAIN tree' = Branches /\ \A a \in Branches : DOMAIN tree'[a] = {"made", "input", "attests"}
    BY <1>9 DEF ForeignWrite, DualInv
  <2>3. writes' \in Nat /\ writes' <= MaxWrites /\ writes' >= 1
    BY <2>1 DEF DualInv
  <2>4. ASSUME NEW b \in Branches PROVE ReadFits(b)'
    <3>1. Deceived(b)' => Deceived(b)
      BY <2>1 DEF Deceived
    <3>2. At("read", b)' = At("read", b)
      BY <2>1 DEF At
    <3>3. tree'[b].input = Identity \/ tree'[b].input # Identity
      OBVIOUS
    <3>4. QED
      BY <2>1, <2>3, <3>1, <3>2, <3>3 DEF DualInv, ReadFits
  <2>5. QED
    BY <2>1, <2>2, <2>3, <2>4 DEF DualInv, Deceived, At
<1>10. CASE Restart
  <2>1. /\ UNCHANGED <<tree, writes>> /\ pc'[1] \in Forking
        /\ execution' = [b \in Branches |-> NotRun] /\ consumed' = [b \in Branches |-> Nothing]
    BY <1>10 DEF Restart, Goto, Forking
  <2>2. DOMAIN NotRun = {"status", "identity"} /\ NotRun.identity # Identity
    BY DEF NotRun
  <2>3. \A b \in Branches : ~Deceived(b)'
    BY <2>1, <2>2 DEF Deceived
  <2>4. QED
    BY <2>1, <2>2, <2>3 DEF DualInv, ReadFits, Branches
<1>11. QED
  BY <1>1, <1>3, <1>4, <1>5, <1>6, <1>7, <1>8, <1>9, <1>10 DEF DualRunNext

\* Behaviour of verify_consumption_attestation around the two runs and the comparison:
\* for any number of restarts, a single foreign write into any of the trees, at any time,
\* cannot bring a runner to read other bytes than the comparison claims.
THEOREM OneWriteIsNoticed ==
  ASSUME MaxWrites \in {0, 1} PROVE DualRunSpec => SameInput
<1>1. DualRunInit => DualInv
  <2> SUFFICES ASSUME DualRunInit PROVE DualInv
    OBVIOUS
  <2>1. DOMAIN NoTree = {"made", "input", "attests"}
    BY DEF NoTree
  <2>2. DOMAIN NotRun = {"status", "identity"} /\ NotRun.identity # Identity
    BY DEF NotRun, Identity, Nothing
  <2>3. \A b \in Branches : ~Deceived(b)
    BY <2>2 DEF DualRunInit, Deceived
  <2>4. QED
    BY <2>1, <2>2, <2>3 DEF DualRunInit, DualInv, ReadFits, Branches
<1>2. DualInv /\ [DualRunNext]_dualVars => DualInv'
  BY DualInvStep
<1>3. DualInv /\ [DualRunNext]_dualVars =>
        [comparison' # comparison => \A b \in Branches : consumed[b] = Identity]_comparison
  <2> SUFFICES ASSUME DualInv, DualRunNext, comparison' # comparison, NEW b \in Branches
               PROVE  consumed[b] = Identity
    BY DEF dualVars
  <2>1. WriteComparison
    BY DEF DualRunNext, CreateSnapshot, OpenSnapshot, MakeBranch, CopySnapshot, WriteAttestation,
           FinishFork, StartRunner, RunBranch, CheckBaseline, SealLegacy, CheckIsolation,
           ForeignWrite, Restart
  <2>2. pc = <<"compare", "both">> /\ tree[b].input = Identity /\ execution[b].identity = Identity
    BY <2>1 DEF WriteComparison, Comparable, At
  <2>3. writes \in Nat /\ ~(writes >= 2) /\ ReadFits(b)
    BY DEF DualInv
  <2>4. QED
    BY <2>2, <2>3 DEF ReadFits, Deceived, At
<1>4. QED
  BY <1>1, <1>2, <1>3, PTL DEF DualRunSpec, SameInput

-----------------------------------------------------------------------------
(***************************************************************************)
(* Launches: what they leave of the issues that are there.                 *)
(***************************************************************************)
\* The least of some naturals is one of them.
LEMMA MinIsOne ==
  ASSUME NEW S \in SUBSET Nat, S # {} PROVE Min(S) \in S
<1>1. PICK x \in S : \A y \in S : ~(<<y, x>> \in OpToRel(<, Nat))
  BY NatLessThanWellFounded, WFMin
<1>2. \A y \in S : x =< y
  <2> SUFFICES ASSUME NEW y \in S PROVE x =< y
    OBVIOUS
  <2>1. x \in Nat /\ y \in Nat /\ <<y, x>> \in Nat \X Nat
    OBVIOUS
  <2>2. ~(y < x)
    BY <1>1, <2>1 DEF OpToRel
  <2>3. QED
    BY <2>1, <2>2
<1>3. QED
  BY <1>2 DEF Min

-----------------------------------------------------------------------------
\* A sequence of whatever.
IsSeq(s) == \E S : s \in Seq(S)

\* A release without the issue of a date.
Lacks(r, d) == d \notin DOMAIN r.issues

\* Places of a launch: at work on a date; with a package that is not prepared yet; under
\* the lock.
AtWork == {"started", "pointing", "building", "chosen", "retained", "sending", "answered",
           "committed", "published"}
Carrying == {"chosen", "retained"}
Locked == {"sending", "answered", "committed"}
JobFields == {"pc", "date", "attempt", "sha", "base", "package", "retry"}

\* What a launch carries was built on a release without the issue; under the lock the
\* source is the base of the prepared release or that release.
JobFits(l, k) ==
  /\ k.pc \in AtWork => DOMAIN k = JobFields /\ k.date \in Dates /\ k.attempt \in DOMAIN attempts[k.date]
  /\ k.pc \in Carrying => Lacks(k.package.base, k.date)
  /\ k.pc \in Locked => /\ lock = l /\ k.date \in DOMAIN prepared
                        /\ source \in {prepared[k.date].base, ReleaseOf(k.date)}

\* So were the packages that were retained.
AttemptsFit(d) ==
  /\ IsSeq(attempts[d])
  /\ \A n \in Retained(d) : Lacks(attempts[d][n].package.base, d)

\* The bases of what was prepared lack the issue, and a release of the source that has the
\* id of a date's release is that release.
ReleasesFit ==
  /\ DOMAIN prepared \subseteq Dates
  /\ \A d \in DOMAIN prepared : Lacks(prepared[d].base, d)
  /\ \A d \in Dates : source.id = ReleaseId(d) => d \in DOMAIN prepared /\ source = ReleaseOf(d)

DailyInv ==
  /\ DOMAIN launcher = Launchers /\ DOMAIN attempts = Dates /\ byHand \in Nat
  /\ \A d \in Dates : AttemptsFit(d)
  /\ ReleasesFit
  /\ \A l \in Launchers : JobFits(l, launcher[l])

\* A launch notes something in its attempt, or moves on by itself.
LEMMA LaunchNotes ==
  ASSUME DailyInv, NEW l \in Launchers, NEW k, launcher' = [launcher EXCEPT ![l] = k],
         UNCHANGED <<source, prepared, byHand>>, lock \notin {l, Unlocked} => lock' = lock,
         JobFits(l, k)', DOMAIN attempts' = Dates,
         \A d \in Dates : AttemptsFit(d)' /\ DOMAIN attempts[d] \subseteq DOMAIN attempts'[d]
  PROVE  DailyInv'
<1>1. DOMAIN launcher' = Launchers /\ \A m \in Launchers : launcher'[m] = IF m = l THEN k ELSE launcher[m]
  BY DEF DailyInv
<1>2. \A d : ReleaseOf(d)' = ReleaseOf(d)
  BY DEF ReleaseOf
<1>3. ASSUME NEW m \in Launchers, m # l PROVE JobFits(m, launcher[m])'
  <2>1. launcher'[m] = launcher[m] /\ JobFits(m, launcher[m])
    BY <1>1, <1>3 DEF DailyInv
  <2>2. lock = m => lock' = m
    BY <1>3, DailyRunAssumption
  <2>3. QED
    BY <1>2, <2>1, <2>2 DEF JobFits
<1>4. ASSUME NEW m \in Launchers PROVE JobFits(m, launcher[m])'
  BY <1>1, <1>3, <1>4
<1>5. ReleasesFit'
  BY <1>2 DEF DailyInv, ReleasesFit
<1>6. QED
  BY <1>1, <1>4, <1>5 DEF DailyInv

\* A launch that moves on keeps what it chose and leaves the others alone.
LEMMA LaunchMoves ==
  ASSUME DailyInv, NEW l \in Launchers, NEW k, launcher' = [launcher EXCEPT ![l] = k],
         UNCHANGED <<attempts, source, prepared, byHand>>, lock \notin {l, Unlocked} => lock' = lock,
         JobFits(l, k)'
  PROVE  DailyInv'
<1>1. \A d \in Dates : AttemptsFit(d)' /\ DOMAIN attempts[d] \subseteq DOMAIN attempts'[d]
  BY DEF DailyInv, AttemptsFit, Retained
<1>2. DOMAIN attempts' = Dates
  BY DEF DailyInv
<1>3. QED
  BY <1>1, <1>2, LaunchNotes

\* A launch that ends leaves everything as it is, and its lock to the others.
LEMMA LaunchEnds ==
  ASSUME DailyInv, NEW l \in Launchers, NEW k, launcher' = [launcher EXCEPT ![l] = k],
         k.pc \in {"idle", "refused"},
         UNCHANGED <<attempts, source, prepared, byHand>>, lock \notin {l, Unlocked} => lock' = lock
  PROVE  DailyInv'
<1>1. JobFits(l, k)'
  BY DEF JobFits, AtWork, Carrying, Locked
<1>2. QED
  BY <1>1, LaunchMoves

\* A launch that gives up leaves the others alone.
LEMMA LaunchFails ==
  ASSUME DailyInv, NEW l \in Launchers, Fails(l),
         UNCHANGED <<attempts, source, prepared, byHand>>, lock \notin {l, Unlocked} => lock' = lock
  PROVE  DailyInv'
<1>1. PICK k : k = Waiting
  OBVIOUS
<1>2. k.pc \in {"idle", "refused"} /\ launcher' = [launcher EXCEPT ![l] = k]
  BY <1>1 DEF Waiting, Fails, Becomes
<1>3. QED
  BY <1>2, LaunchEnds

\* A launch begins an attempt.
LEMMA LaunchStep ==
  ASSUME DailyInv, NEW l \in Launchers, Launch(l) PROVE DailyInv'
<1>1. Unfinished \subseteq Dates /\ Unfinished \subseteq Nat
  BY DailyRunAssumption DEF Unfinished
<1>2. \A d \in Selected : d \in Dates
  BY <1>1, MinIsOne DEF Selected
<1>3. PICK d \in Selected :
        /\ attempts' = [attempts EXCEPT ![d] = Append(@, None)]
        /\ launcher' = [launcher EXCEPT ![l] =
             [pc |-> "started", date |-> d, attempt |-> Len(attempts[d]) + 1,
              sha |-> 0, base |-> None, package |-> None, retry |-> FALSE]]
  BY DEF Launch, Becomes
<1>4. UNCHANGED <<source, prepared, byHand, lock>>
  BY DEF Launch
<1>5. PICK s : s = attempts[d]
  OBVIOUS
<1>6. PICK S : s \in Seq(S)
  BY <1>2, <1>5 DEF DailyInv, AttemptsFit, IsSeq
<1>7. PICK t : t = Append(s, None)
  OBVIOUS
<1>8. /\ t \in Seq(S \cup {None}) /\ DOMAIN t = DOMAIN s \cup {Len(s) + 1}
      /\ t[Len(s) + 1] = None /\ \A n \in DOMAIN s : t[n] = s[n]
  <2>1. s \in Seq(S \cup {None})
    BY <1>6
  <2>2. QED
    BY <1>7, <2>1
<1>9. /\ DOMAIN attempts' = Dates /\ \A e \in Dates : attempts'[e] = IF e = d THEN t ELSE attempts[e]
  BY <1>2, <1>3, <1>5, <1>7 DEF DailyInv
<1>10. ASSUME NEW e \in Dates PROVE AttemptsFit(e)' /\ DOMAIN attempts[e] \subseteq DOMAIN attempts'[e]
  <2>1. AttemptsFit(e)
    BY DEF DailyInv
  <2>2. CASE e # d
    BY <1>9, <2>1, <2>2 DEF AttemptsFit, Retained
  <2>3. CASE e = d
    <3>1. IsSeq(attempts'[d])
      BY <1>2, <1>8, <1>9 DEF IsSeq
    <3>2. \A n \in Retained(d)' : n \in Retained(d) /\ attempts'[d][n] = attempts[d][n]
      BY <1>2, <1>5, <1>8, <1>9 DEF Retained
    <3>3. QED
      BY <1>2, <1>5, <1>8, <1>9, <2>1, <2>3, <3>1, <3>2 DEF AttemptsFit
  <2>4. QED
    BY <2>2, <2>3
<1>11. PICK k : k = [pc |-> "started", date |-> d, attempt |-> Len(attempts[d]) + 1,
                     sha |-> 0, base |-> None, package |-> None, retry |-> FALSE]
  OBVIOUS
<1>12. k.pc = "started" /\ k.date = d /\ k.attempt = Len(s) + 1 /\ DOMAIN k = JobFields
  BY <1>5, <1>11 DEF JobFields
<1>13. JobFits(l, k)'
  BY <1>2, <1>8, <1>9, <1>12 DEF JobFits, AtWork, Carrying, Locked
<1>14. launcher' = [launcher EXCEPT ![l] = k]
  BY <1>3, <1>11
<1>15. QED
  BY <1>4, <1>9, <1>10, <1>13, <1>14, LaunchNotes

\* A launch looks for a package, an issue or a base.
LEMMA ChooseStep ==
  ASSUME DailyInv, NEW l \in Launchers, Choose(l) PROVE DailyInv'
<1>1. PICK job, d : job = launcher[l] /\ d = job.date
  OBVIOUS
<1>2. PICK first : first = attempts[d][Min(Retained(d))]
  OBVIOUS
<1>3. job.pc = "started" /\ UNCHANGED <<attempts, source, prepared, byHand, lock>>
  BY <1>1 DEF Choose, Doing
<1>4. DOMAIN job = JobFields /\ d \in Dates /\ job.attempt \in DOMAIN attempts[d] /\ AttemptsFit(d)
  BY <1>1, <1>3 DEF DailyInv, JobFits, AtWork
<1>5. CASE Retained(d) # {} /\ first.sha # exported[d]
  BY <1>1, <1>2, <1>3, <1>5, LaunchFails DEF Choose
<1>6. CASE Retained(d) # {} /\ first.sha = exported[d]
  <2>1. PICK k : k = [job EXCEPT !.pc = "chosen", !.sha = first.sha, !.package = first.package, !.retry = TRUE]
    OBVIOUS
  <2>2. launcher' = [launcher EXCEPT ![l] = k]
    BY <1>1, <1>2, <1>6, <2>1 DEF Choose, Becomes
  <2>3. /\ DOMAIN k = JobFields /\ k.pc = "chosen" /\ k.date = d /\ k.attempt = job.attempt
        /\ k.package = first.package
    BY <1>1, <1>4, <2>1 DEF JobFields
  <2>4. Retained(d) \in SUBSET Nat
    <3>1. PICK S : attempts[d] \in Seq(S)
      BY <1>4 DEF AttemptsFit, IsSeq
    <3>2. DOMAIN attempts[d] \subseteq Nat
      BY <3>1
    <3>3. QED
      BY <3>2 DEF Retained
  <2>5. Lacks(first.package.base, d)
    BY <1>2, <1>4, <1>6, <2>4, MinIsOne DEF AttemptsFit
  <2>6. JobFits(l, k)'
    BY <1>3, <1>4, <2>3, <2>5 DEF JobFits, AtWork, Carrying, Locked, Lacks
  <2>7. QED
    BY <1>3, <2>2, <2>6, LaunchMoves
<1>7. CASE Retained(d) = {}
  <2>1. PICK k : /\ k \in {[job EXCEPT !.pc = "published"], [job EXCEPT !.pc = "pointing", !.sha = exported[d]]}
                 /\ launcher' = [launcher EXCEPT ![l] = k]
    BY <1>1, <1>7 DEF Choose, Becomes
  <2>2. DOMAIN k = JobFields /\ k.pc \in {"published", "pointing"} /\ k.date = d /\ k.attempt = job.attempt
    BY <1>1, <1>4, <2>1 DEF JobFields
  <2>3. JobFits(l, k)'
    BY <1>3, <1>4, <2>2 DEF JobFits, AtWork, Carrying, Locked
  <2>4. QED
    BY <1>3, <2>1, <2>3, LaunchMoves
<1>8. QED
  BY <1>5, <1>6, <1>7

\* The base a launch points at is the source it just read.
LEMMA PickBaseStep ==
  ASSUME DailyInv, NEW l \in Launchers, PickBase(l) PROVE DailyInv'
<1>1. PICK job : job = launcher[l]
  OBVIOUS
<1>2. PICK k : k = [job EXCEPT !.pc = "building", !.base = source]
  OBVIOUS
<1>3. /\ job.pc = "pointing" /\ UNCHANGED <<attempts, source, prepared, byHand, lock>>
      /\ launcher' = [launcher EXCEPT ![l] = k]
  BY <1>1, <1>2 DEF PickBase, Doing, Becomes
<1>4. DOMAIN job = JobFields /\ job.date \in Dates /\ job.attempt \in DOMAIN attempts[job.date]
  BY <1>1, <1>3 DEF DailyInv, JobFits, AtWork
<1>5. DOMAIN k = JobFields /\ k.pc = "building" /\ k.date = job.date /\ k.attempt = job.attempt
  BY <1>2, <1>4 DEF JobFields
<1>6. JobFits(l, k)'
  BY <1>3, <1>4, <1>5 DEF JobFits, AtWork, Carrying, Locked
<1>7. QED
  BY <1>3, <1>6, LaunchMoves

\* A package is built on a release that lacks the issue.
LEMMA BuildStep ==
  ASSUME DailyInv, NEW l \in Launchers, BuildPackage(l) PROVE DailyInv'
<1>1. PICK job : job = launcher[l]
  OBVIOUS
<1>2. job.pc = "building" /\ UNCHANGED <<attempts, source, prepared, byHand, lock>>
  BY <1>1 DEF BuildPackage, Doing
<1>3. DOMAIN job = JobFields /\ job.date \in Dates /\ job.attempt \in DOMAIN attempts[job.date]
  BY <1>1, <1>2 DEF DailyInv, JobFits, AtWork
<1>4. CASE job.date \in DOMAIN job.base.issues
  BY <1>1, <1>2, <1>4, LaunchFails DEF BuildPackage
<1>5. CASE job.date \notin DOMAIN job.base.issues
  <2>0. PICK p : p = PackageOf(job)
    OBVIOUS
  <2>1. PICK k : k = [job EXCEPT !.pc = "chosen", !.package = p]
    OBVIOUS
  <2>2. launcher' = [launcher EXCEPT ![l] = k]
    BY <1>1, <1>5, <2>0, <2>1 DEF BuildPackage, Becomes
  <2>3. /\ DOMAIN k = JobFields /\ k.pc = "chosen" /\ k.date = job.date /\ k.attempt = job.attempt
        /\ k.package.base = job.base
    BY <1>1, <1>3, <2>0, <2>1 DEF JobFields, PackageOf
  <2>4. JobFits(l, k)'
    BY <1>2, <1>3, <1>5, <2>3 DEF JobFits, AtWork, Carrying, Locked, Lacks
  <2>5. QED
    BY <1>2, <2>2, <2>4, LaunchMoves
<1>6. QED
  BY <1>4, <1>5

\* A package is kept with the attempt.
LEMMA RetainStep ==
  ASSUME DailyInv, NEW l \in Launchers, RetainInput(l) PROVE DailyInv'
<1>1. PICK job, d, i : job = launcher[l] /\ d = job.date /\ i = job.attempt
  OBVIOUS
<1>2. PICK x : x = [sha |-> job.sha, package |-> job.package]
  OBVIOUS
<1>3. PICK s : s = attempts[d]
  OBVIOUS
<1>4. PICK t : t = [s EXCEPT ![i] = x]
  OBVIOUS
<1>5. /\ job.pc = "chosen" /\ UNCHANGED <<source, prepared, byHand, lock>>
      /\ attempts' = [attempts EXCEPT ![d][i] = x]
  BY <1>1, <1>2 DEF RetainInput, Doing
<1>6. /\ DOMAIN job = JobFields /\ d \in Dates /\ i \in DOMAIN s /\ AttemptsFit(d)
      /\ Lacks(job.package.base, d)
  BY <1>1, <1>3, <1>5 DEF DailyInv, JobFits, AtWork, Carrying
<1>7. PICK S : s \in Seq(S)
  BY <1>3, <1>6 DEF AttemptsFit, IsSeq
<1>8. t \in Seq(S \cup {x}) /\ DOMAIN t = DOMAIN s /\ t[i] = x /\ \A n \in DOMAIN s : n # i => t[n] = s[n]
  <2>1. s \in Seq(S \cup {x})
    BY <1>7
  <2>2. QED
    BY <1>4, <1>6, <2>1
<1>9. /\ DOMAIN attempts' = Dates /\ \A e \in Dates : attempts'[e] = IF e = d THEN t ELSE attempts[e]
  BY <1>3, <1>4, <1>5, <1>6 DEF DailyInv
<1>10. ASSUME NEW e \in Dates PROVE AttemptsFit(e)' /\ DOMAIN attempts[e] \subseteq DOMAIN attempts'[e]
  <2>1. AttemptsFit(e)
    BY DEF DailyInv
  <2>2. CASE e # d
    BY <1>9, <2>1, <2>2 DEF AttemptsFit, Retained
  <2>3. CASE e = d
    <3>1. IsSeq(attempts'[d])
      BY <1>6, <1>8, <1>9 DEF IsSeq
    <3>2. ASSUME NEW n \in Retained(d)' PROVE Lacks(attempts'[d][n].package.base, d)
      <4>1. CASE n = i
        <5>1. attempts'[d][n].package = job.package
          BY <1>2, <1>6, <1>8, <1>9, <4>1
        <5>2. QED
          BY <1>6, <5>1
      <4>2. CASE n # i
        <5>1. n \in Retained(d) /\ attempts'[d][n] = attempts[d][n]
          BY <1>3, <1>6, <1>8, <1>9, <4>2 DEF Retained
        <5>2. QED
          BY <1>6, <5>1 DEF AttemptsFit
      <4>3. QED
        BY <4>1, <4>2
    <3>3. DOMAIN attempts'[d] = DOMAIN attempts[d]
      BY <1>3, <1>6, <1>8, <1>9
    <3>4. \A n \in Retained(d)' : Lacks(attempts'[d][n].package.base, d)
      BY <3>2
    <3>5. QED
      BY <2>3, <3>1, <3>3, <3>4 DEF AttemptsFit, Lacks
  <2>4. QED
    BY <2>2, <2>3
<1>11. PICK k : k = [job EXCEPT !.pc = "retained"]
  OBVIOUS
<1>12. launcher' = [launcher EXCEPT ![l] = k]
  BY <1>1, <1>11 DEF RetainInput, Step, Becomes
<1>13. /\ DOMAIN k = JobFields /\ k.pc = "retained" /\ k.date = d /\ k.attempt = i
       /\ k.package = job.package
  BY <1>1, <1>6, <1>11 DEF JobFields
<1>14. JobFits(l, k)'
  BY <1>3, <1>6, <1>8, <1>9, <1>13 DEF JobFits, AtWork, Carrying, Locked, Lacks
<1>15. QED
  BY <1>5, <1>9, <1>10, <1>12, <1>14, LaunchNotes

\* Publishing begins: the package is bound to the source, or to what the source was made
\* from, and the release of the date is prepared, or is the one prepared before.
LEMMA PrepareStep ==
  ASSUME DailyInv, NEW l \in Launchers, Prepare(l) PROVE DailyInv'
<1>1. PICK job, d : job = launcher[l] /\ d = job.date
  OBVIOUS
<1>2. PICK base : base = IF source.id = ReleaseId(d) /\ d \in DOMAIN prepared THEN prepared[d].base ELSE source
  OBVIOUS
<1>3. job.pc = "retained" /\ UNCHANGED <<attempts, source, byHand>>
  BY <1>1 DEF Prepare, Doing
<1>4. /\ DOMAIN job = JobFields /\ d \in Dates /\ job.attempt \in DOMAIN attempts[d]
      /\ Lacks(job.package.base, d)
  BY <1>1, <1>3 DEF DailyInv, JobFits, AtWork, Carrying
<1>5. ASSUME Fails(l), lock' = lock, prepared' = prepared PROVE DailyInv'
  BY <1>3, <1>5, LaunchFails
<1>6. ASSUME Step(l, "published"), lock' = lock, prepared' = prepared PROVE DailyInv'
  <2>1. PICK k : k = [job EXCEPT !.pc = "published"]
    OBVIOUS
  <2>2. launcher' = [launcher EXCEPT ![l] = k]
    BY <1>1, <1>6, <2>1 DEF Step, Becomes
  <2>3. DOMAIN k = JobFields /\ k.pc = "published" /\ k.date = d /\ k.attempt = job.attempt
    BY <1>1, <1>4, <2>1 DEF JobFields
  <2>4. JobFits(l, k)'
    BY <1>3, <1>4, <2>3 DEF JobFits, AtWork, Carrying, Locked
  <2>5. QED
    BY <1>3, <1>6, <2>2, <2>4, LaunchMoves
<1>7. ASSUME Becomes(l, [pc |-> "refused", retry |-> job.retry]), lock' = lock, prepared' = prepared
      PROVE  DailyInv'
  <2>1. PICK k : k = [pc |-> "refused", retry |-> job.retry]
    OBVIOUS
  <2>2. k.pc = "refused" /\ launcher' = [launcher EXCEPT ![l] = k]
    BY <1>7, <2>1 DEF Becomes
  <2>3. QED
    BY <1>3, <1>7, <2>2, LaunchEnds
<1>8. ASSUME lock = Unlocked, lock' = l, Step(l, "sending"), base = job.package.base,
             d \in DOMAIN prepared => prepared[d] = [base |-> base, package |-> job.package],
             prepared' = With(prepared, d, [base |-> base, package |-> job.package])
      PROVE  DailyInv'
  <2>1. /\ DOMAIN prepared' = DOMAIN prepared \cup {d} /\ prepared'[d].base = base
        /\ \A e \in DOMAIN prepared : prepared'[e] = prepared[e]
    BY <1>8 DEF With
  <2>2. \A e \in DOMAIN prepared : ReleaseOf(e)' = ReleaseOf(e)
    BY <2>1 DEF ReleaseOf
  <2>3. ReleasesFit /\ DOMAIN launcher = Launchers
    BY DEF DailyInv
  <2>4. ReleasesFit'
    <3>1. DOMAIN prepared' \subseteq Dates
      BY <1>4, <2>1, <2>3 DEF ReleasesFit
    <3>2. \A e \in DOMAIN prepared' : Lacks(prepared'[e].base, e)
      BY <1>4, <1>8, <2>1, <2>3 DEF ReleasesFit
    <3>3. \A e \in Dates : source'.id = ReleaseId(e) => e \in DOMAIN prepared' /\ source' = ReleaseOf(e)'
      BY <1>3, <2>1, <2>2, <2>3 DEF ReleasesFit
    <3>4. QED
      BY <3>1, <3>2, <3>3 DEF ReleasesFit, Lacks
  <2>5. source' \in {prepared'[d].base, ReleaseOf(d)'}
    BY <1>2, <1>3, <1>4, <2>1, <2>2, <2>3 DEF ReleasesFit
  <2>6. PICK k : k = [job EXCEPT !.pc = "sending"]
    OBVIOUS
  <2>7. launcher' = [launcher EXCEPT ![l] = k]
    BY <1>1, <1>8, <2>6 DEF Step, Becomes
  <2>8. DOMAIN k = JobFields /\ k.pc = "sending" /\ k.date = d /\ k.attempt = job.attempt
    BY <1>1, <1>4, <2>6 DEF JobFields
  <2>9. JobFits(l, k)'
    BY <1>3, <1>4, <1>8, <2>1, <2>5, <2>8 DEF JobFits, AtWork, Carrying, Locked
  <2>10. ASSUME NEW m \in Launchers PROVE JobFits(m, launcher[m])'
    <3>1. CASE m = l
      BY <2>3, <2>7, <2>9, <3>1 DEF JobFits
    <3>2. CASE m # l
      <4>1. launcher'[m] = launcher[m] /\ JobFits(m, launcher[m])
        BY <2>7, <3>2 DEF DailyInv
      <4>2. lock # m
        BY <1>8, DailyRunAssumption
      <4>3. QED
        BY <1>3, <4>1, <4>2 DEF JobFits
    <3>3. QED
      BY <3>1, <3>2
  <2>11. \A e \in Dates : AttemptsFit(e)'
    BY <1>3 DEF DailyInv, AttemptsFit, Retained
  <2>12. QED
    BY <1>3, <2>4, <2>7, <2>10, <2>11 DEF DailyInv
<1>9. QED
  BY <1>1, <1>2, <1>5, <1>6, <1>7, <1>8 DEF Prepare

\* Production is asked; what this leaves of its issues is said below.
LEMMA SendStep ==
  ASSUME DailyInv, NEW l \in Launchers, Send(l) PROVE DailyInv'
<1>1. PICK job, k : job = launcher[l] /\ k = [job EXCEPT !.pc = "answered"]
  OBVIOUS
<1>2. job.pc = "sending" /\ UNCHANGED <<attempts, source, prepared, byHand>>
  BY <1>1 DEF Send, Doing
<1>3. JobFits(l, job)
  BY <1>1 DEF DailyInv
<1>4. lock = l /\ DOMAIN job = JobFields
  BY <1>2, <1>3 DEF JobFits, AtWork, Locked
<1>5. CASE Fails(l)
  BY <1>2, <1>4, <1>5, LaunchFails
<1>6. CASE Step(l, "answered") /\ lock' = lock
  <2>1. launcher' = [launcher EXCEPT ![l] = k]
    BY <1>1, <1>6 DEF Step, Becomes
  <2>2. k.pc = "answered" /\ k.date = job.date /\ k.attempt = job.attempt /\ DOMAIN k = JobFields
    BY <1>1, <1>4 DEF JobFields
  <2>3. JobFits(l, k)'
    BY <1>2, <1>3, <1>6, <2>2 DEF JobFits, AtWork, Carrying, Locked, ReleaseOf
  <2>4. QED
    BY <1>2, <1>6, <2>1, <2>3, LaunchMoves
<1>7. QED
  BY <1>5, <1>6 DEF Send

\* The source comes to the release that was prepared: nobody else is under the lock.
LEMMA AdvanceStep ==
  ASSUME DailyInv, NEW l \in Launchers, AdvanceSource(l) PROVE DailyInv'
<1>1. PICK job, k, d : job = launcher[l] /\ k = [job EXCEPT !.pc = "committed"] /\ d = job.date
  OBVIOUS
<1>2. /\ job.pc = "answered" /\ UNCHANGED <<attempts, prepared, byHand, lock>>
      /\ source' = ReleaseOf(d) /\ launcher' = [launcher EXCEPT ![l] = k]
  BY <1>1 DEF AdvanceSource, Doing, Step, Becomes
<1>3. /\ lock = l /\ DOMAIN job = JobFields /\ d \in Dates /\ job.attempt \in DOMAIN attempts[d]
      /\ d \in DOMAIN prepared
  BY <1>1, <1>2 DEF DailyInv, JobFits, AtWork, Locked
<1>4. k.pc = "committed" /\ k.date = d /\ k.attempt = job.attempt /\ DOMAIN k = JobFields
  BY <1>1, <1>3 DEF JobFields
<1>5. \A e : ReleaseOf(e)' = ReleaseOf(e)
  BY <1>2 DEF ReleaseOf
<1>6. JobFits(l, k)'
  BY <1>2, <1>3, <1>4, <1>5 DEF JobFits, AtWork, Carrying, Locked
<1>7. ASSUME NEW m \in Launchers PROVE JobFits(m, launcher[m])'
  <2>1. CASE m = l
    BY <1>2, <1>6, <2>1 DEF DailyInv, JobFits
  <2>2. CASE m # l
    <3>1. launcher'[m] = launcher[m] /\ JobFits(m, launcher[m])
      BY <1>2, <2>2 DEF DailyInv
    <3>2. QED
      BY <1>2, <1>3, <2>2, <3>1 DEF JobFits
  <2>3. QED
    BY <2>1, <2>2
<1>8. ReleasesFit'
  <2>1. source'.id = ReleaseId(d)
    BY <1>2 DEF ReleaseOf
  <2>2. \A e \in Dates : ReleaseId(e) = ReleaseId(d) => e = d
    BY DEF ReleaseId
  <2>3. QED
    BY <1>2, <1>3, <1>5, <2>1, <2>2 DEF DailyInv, ReleasesFit
<1>9. \A e \in Dates : AttemptsFit(e)'
  BY <1>2 DEF DailyInv, AttemptsFit, Retained
<1>10. QED
  BY <1>2, <1>7, <1>8, <1>9 DEF DailyInv

\* Saving a result touches neither the source nor production.
LEMMA SaveStep ==
  ASSUME DailyInv, NEW l \in Launchers, SaveResult(l) PROVE DailyInv'
<1>1. PICK job, k : job = launcher[l] /\ k = [job EXCEPT !.pc = "published"]
  OBVIOUS
<1>2. /\ job.pc = "committed" /\ UNCHANGED <<attempts, source, prepared, byHand>>
      /\ launcher' = [launcher EXCEPT ![l] = k]
  BY <1>1 DEF SaveResult, Doing, Step, Becomes
<1>3. /\ lock = l /\ DOMAIN job = JobFields /\ job.date \in Dates
      /\ job.attempt \in DOMAIN attempts[job.date]
  BY <1>1, <1>2 DEF DailyInv, JobFits, AtWork, Locked
<1>4. k.pc = "published" /\ k.date = job.date /\ k.attempt = job.attempt /\ DOMAIN k = JobFields
  BY <1>1, <1>3 DEF JobFields
<1>5. JobFits(l, k)'
  BY <1>2, <1>3, <1>4 DEF JobFits, AtWork, Carrying, Locked
<1>6. QED
  BY <1>2, <1>3, <1>5, LaunchMoves

\* Others publish only while nobody holds the lock.
LEMMA ByHandStep ==
  ASSUME DailyInv, PublishByHand PROVE DailyInv'
<1>1. /\ lock = Unlocked /\ source'.id = <<"hand", byHand + 1>> /\ byHand' = byHand + 1
      /\ UNCHANGED <<attempts, prepared, lock, launcher>>
  BY DEF PublishByHand
<1>2. ReleasesFit'
  BY <1>1 DEF DailyInv, ReleasesFit, ReleaseId, ReleaseOf
<1>3. ASSUME NEW m \in Launchers PROVE JobFits(m, launcher[m])'
  <2>1. JobFits(m, launcher[m]) /\ lock # m
    BY <1>1, DailyRunAssumption DEF DailyInv
  <2>2. QED
    BY <1>1, <2>1 DEF JobFits
<1>4. \A e \in Dates : AttemptsFit(e)'
  BY <1>1 DEF DailyInv, AttemptsFit, Retained
<1>5. QED
  BY <1>1, <1>2, <1>3, <1>4 DEF DailyInv

\* A step of the clock, of the exporter, or of nobody.
LEMMA OthersStep ==
  ASSUME DailyInv, UNCHANGED <<attempts, source, prepared, lock, launcher, byHand>> PROVE DailyInv'
<1>1. \A e \in Dates : AttemptsFit(e)'
  BY DEF DailyInv, AttemptsFit, Retained
<1>2. ReleasesFit'
  BY DEF DailyInv, ReleasesFit, ReleaseOf
<1>3. \A m \in Launchers : JobFits(m, launcher[m])'
  BY DEF DailyInv, JobFits, ReleaseOf
<1>4. QED
  BY <1>1, <1>2, <1>3 DEF DailyInv

\* Every step keeps the invariant.
LEMMA DailyStep ==
  ASSUME DailyInv, [DailyRunNext]_dailyVars PROVE DailyInv'
<1>1. CASE NextDay
  BY <1>1, OthersStep DEF NextDay
<1>2. CASE ExportIssue
  BY <1>2, OthersStep DEF ExportIssue
<1>3. CASE UNCHANGED dailyVars
  BY <1>3, OthersStep DEF dailyVars
<1>4. ASSUME NEW l \in Launchers, ReportRefused(l) \/ WriteReport(l) \/ LauncherDies(l) PROVE DailyInv'
  <2>1. Fails(l) /\ UNCHANGED <<attempts, source, prepared, byHand>>
    BY <1>4 DEF ReportRefused, WriteReport, LauncherDies
  <2>2. lock \notin {l, Unlocked} => lock' = lock
    BY <1>4 DEF ReportRefused, WriteReport, LauncherDies
  <2>3. QED
    BY <2>1, <2>2, LaunchFails
<1>5. QED
  BY <1>1, <1>2, <1>3, <1>4, ByHandStep, LaunchStep, ChooseStep, PickBaseStep, BuildStep, RetainStep,
     PrepareStep, SendStep, AdvanceStep, SaveStep DEF DailyRunNext

\* The day before the first launch.
LEMMA DailyBegins == DailyRunInit => DailyInv
<1> SUFFICES ASSUME DailyRunInit PROVE DailyInv
  OBVIOUS
<1>1. \A d \in Dates : attempts[d] = <<>>
  BY DEF DailyRunInit
<1>2. \A d \in Dates : AttemptsFit(d)
  <2>1. \A d \in Dates : IsSeq(attempts[d])
    <3>1. <<>> \in Seq({})
      OBVIOUS
    <3>2. QED
      BY <1>1, <3>1 DEF IsSeq
  <2>2. \A d \in Dates : Retained(d) = {}
    BY <1>1 DEF Retained
  <2>3. QED
    BY <2>1, <2>2 DEF AttemptsFit
<1>3. ReleasesFit
  <2>1. DOMAIN prepared = {} /\ source.id = <<"seed", 0>>
    BY DEF DailyRunInit
  <2>2. QED
    BY <2>1 DEF ReleasesFit, ReleaseId
<1>4. \A l \in Launchers : JobFits(l, launcher[l])
  BY DEF DailyRunInit, JobFits, Waiting, AtWork, Carrying, Locked
<1>5. QED
  BY <1>2, <1>3, <1>4 DEF DailyInv, DailyRunInit

\* The release of a date has the issues of its base.
LEMMA ReleaseAdds ==
  ASSUME DailyInv, NEW d \in DOMAIN prepared PROVE StandsIn(prepared[d].base, ReleaseOf(d))
<1>1. Lacks(prepared[d].base, d)
  BY DEF DailyInv, ReleasesFit
<1>2. PICK base : base = prepared[d].base
  OBVIOUS
<1>3. \A e \in DOMAIN base.issues : e \in DOMAIN ReleaseOf(d).issues /\ ReleaseOf(d).issues[e] = base.issues[e]
  BY <1>1, <1>2 DEF ReleaseOf, With, Lacks
<1>4. QED
  BY <1>2, <1>3 DEF StandsIn

\* Launches only add, for any issues, launches that overlap and die, lost replies, exports
\* between a launch's reads and corrections by hand: no step of a launch changes or takes
\* back an issue that production serves or the source holds.
THEOREM LaunchesOnlyAdd == DailyRunSpec => IssuesStand
<1>1. ASSUME DailyInv, [DailyRunNext]_dailyVars, byHand' = byHand
      PROVE  StandsIn(source, source') /\ StandsIn(production, production')
  <2>1. CASE UNCHANGED <<source, production>>
    BY <2>1 DEF StandsIn
  <2>2. ASSUME NEW l \in Launchers, Send(l)
        PROVE  StandsIn(source, source') /\ StandsIn(production, production')
    <3>1. PICK d : d = launcher[l].date
      OBVIOUS
    <3>2. d \in DOMAIN prepared
      BY <1>1, <2>2, <3>1 DEF Send, Doing, DailyInv, JobFits, Locked
    <3>3. /\ source' = source
          /\ \/ production' = production
             \/ production = prepared[d].base /\ production' = ReleaseOf(d)
      BY <2>2, <3>1 DEF Send
    <3>4. QED
      BY <1>1, <3>2, <3>3, ReleaseAdds DEF StandsIn
  <2>3. ASSUME NEW l \in Launchers, AdvanceSource(l)
        PROVE  StandsIn(source, source') /\ StandsIn(production, production')
    <3>1. PICK d : d = launcher[l].date
      OBVIOUS
    <3>2. d \in DOMAIN prepared /\ source \in {prepared[d].base, ReleaseOf(d)}
      BY <1>1, <2>3, <3>1 DEF AdvanceSource, Doing, DailyInv, JobFits, Locked
    <3>3. source' = ReleaseOf(d) /\ production' = production
      BY <2>3, <3>1 DEF AdvanceSource
    <3>4. QED
      BY <1>1, <3>2, <3>3, ReleaseAdds DEF StandsIn
  <2>4. CASE PublishByHand
    BY <1>1, <2>4 DEF PublishByHand, DailyInv
  <2>5. ASSUME NEW l \in Launchers,
               \/ Launch(l) \/ Choose(l) \/ PickBase(l) \/ BuildPackage(l) \/ RetainInput(l)
               \/ Prepare(l) \/ ReportRefused(l) \/ SaveResult(l) \/ WriteReport(l) \/ LauncherDies(l)
        PROVE  UNCHANGED <<source, production>>
    BY <2>5 DEF Launch, Choose, PickBase, BuildPackage, RetainInput, Prepare, ReportRefused, SaveResult,
                WriteReport, LauncherDies
  <2>6. CASE NextDay \/ ExportIssue \/ UNCHANGED dailyVars
    BY <2>1, <2>6 DEF NextDay, ExportIssue, dailyVars
  <2>7. QED
    BY <1>1, <2>1, <2>2, <2>3, <2>4, <2>5, <2>6 DEF DailyRunNext
<1>2. DailyInv /\ [DailyRunNext]_dailyVars
        => [byHand' = byHand => StandsIn(source, source') /\ StandsIn(production, production')]_dailyVars
  BY <1>1
<1>3. QED
  BY <1>2, DailyBegins, DailyStep, PTL DEF DailyRunSpec, IssuesStand
=============================================================================
