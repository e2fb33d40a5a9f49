------------------------------ MODULE SiteProofs ------------------------------
(***************************************************************************)
(* Proofs about what readers meet: the components of MCSite.               *)
(*                                                                         *)
(* The database manager: the bytes read first name the database that was   *)
(* opened, unless the pointer moved in between; then only an equal third   *)
(* reading keeps it, and it is known to waver.                             *)
(***************************************************************************)
EXTENDS ActiveDatabase, RadarPage, KnowledgeRelease, FetchQueue,
        FiniteSetTheorems, TLAPS

----------------------------------------------------------------------------
(* The database manager of the public API.                                 *)

\* What the thread that reopens has read: the pointer was there since its request
\* arrived, and is what the thread read first unless it slipped away.
ReopeningFits ==
  \A t \in Thread :
    /\ pc[t] \in {"opening", "comparing"} => before \in Release
    /\ pc[t] = "opening" => pointer = before \/ slipped
    /\ pc[t] = "comparing" =>
         candidate \in Release /\ candidate \in during[t] /\ (candidate = before \/ slipped)

\* A thread that holds the lock is not idle and does not wait.
ThreadsFit ==
  /\ pc \in [Thread -> ThreadPlace]
  /\ \A t \in Thread : pc[t] \notin {"idle", "waiting"} => lock = t
  /\ during \in [Thread -> SUBSET Release]
  /\ \A t \in Thread : pc[t] # "idle" => pointer \in during[t]

ManagerInv ==
  /\ pointer \in Release
  /\ ThreadsFit /\ ReopeningFits
  /\ KeptWithItsBytes
  /\ \A t \in Thread : pc[t] = "answering" => opened \in during[t] \/ wavered

\* Nothing is opened at the start.
LEMMA ManagerBegins == ManagerInit => ManagerInv
BY InitialAssumption
   DEF ManagerInit, ManagerInv, ThreadsFit, ReopeningFits, ThreadPlace, KeptWithItsBytes

\* Every step keeps it, wherever the pointer moves.
LEMMA ManagerInvStep == ManagerInv /\ [ManagerNext]_managerVars => ManagerInv'
<1> SUFFICES ASSUME ManagerInv, [ManagerNext]_managerVars PROVE ManagerInv'
  OBVIOUS
<1> USE NoneAssumption DEF ManagerInv, KeptWithItsBytes
<1>1. CASE UNCHANGED managerVars
  BY <1>1 DEF managerVars, manager, reopening, ThreadsFit, ReopeningFits
<1>2. CASE Move
  <2>1. pointer' \in Release
    BY <1>2, MovesAssumption DEF Move
  <2>2. /\ during' = [t \in Thread |-> IF pc[t] = "idle" THEN {} ELSE during[t] \cup {pointer'}]
        /\ UNCHANGED <<opened, openedBytes, wavered, lock, pc, before, candidate, attempt>>
        /\ \A t \in Thread : pc[t] = "opening" => slipped'
        /\ slipped => slipped'
    BY <1>2 DEF Move, manager
  <2>3. ThreadsFit'
    BY <2>1, <2>2 DEF ThreadsFit
  <2>4. ReopeningFits'
    BY <2>1, <2>2 DEF ReopeningFits
  <2>5. \A t \in Thread : pc'[t] = "answering" => opened' \in during'[t] \/ wavered'
    BY <2>2
  <2>6. QED
    BY <2>1, <2>2, <2>3, <2>4, <2>5
<1>3. CASE Close
  BY <1>3 DEF Close, ThreadsFit, ReopeningFits, reopening
<1>4. ASSUME NEW t \in Thread, Arrive(t) PROVE ManagerInv'
  BY <1>4 DEF Arrive, Goto, ThreadsFit, ReopeningFits, ThreadPlace, manager, reopening
<1>5. ASSUME NEW t \in Thread, Acquire(t) PROVE ManagerInv'
  BY <1>5 DEF Acquire, Goto, ThreadsFit, ReopeningFits, ThreadPlace, manager, reopening
<1>6. ASSUME NEW t \in Thread, Observe(t) PROVE ManagerInv'
  BY <1>6 DEF Observe, Goto, ThreadsFit, ReopeningFits, ThreadPlace, manager
<1>7. ASSUME NEW t \in Thread, ReadBefore(t) PROVE ManagerInv'
  BY <1>7 DEF ReadBefore, Leave, Goto, ThreadsFit, ReopeningFits, ThreadPlace, manager
<1>8. ASSUME NEW t \in Thread, Open(t) PROVE ManagerInv'
  BY <1>8 DEF Open, Goto, ThreadsFit, ReopeningFits, ThreadPlace, manager
<1>9. ASSUME NEW t \in Thread, Compare(t) PROVE ManagerInv'
  BY <1>9 DEF Compare, Goto, ThreadsFit, ReopeningFits, ThreadPlace, manager, reopening
<1>10. ASSUME NEW t \in Thread, Answer(t) PROVE ManagerInv'
  BY <1>10 DEF Answer, Leave, Goto, ThreadsFit, ReopeningFits, ThreadPlace, manager, reopening
<1>11. QED
  BY <1>1, <1>2, <1>3, <1>4, <1>5, <1>6, <1>7, <1>8, <1>9, <1>10 DEF ManagerNext, Serve

\* Behaviour of ActiveDatabaseManager: a request is answered from a release that
\* was active between its arrival and its answer, unless the database was opened
\* while the pointer went away and came back.
THEOREM AnswersAreCurrent == ManagerSpec => AnswerCurrent
<1>1. ManagerInv /\ [ManagerNext]_managerVars =>
        [\A t \in Thread : pc[t] = "answering" /\ pc'[t] = "idle"
                            => opened \in during[t] \/ wavered]_managerVars
  BY DEF ManagerInv
<1>2. QED
  BY <1>1, ManagerBegins, ManagerInvStep, PTL DEF ManagerSpec, AnswerCurrent

\* Behaviour of ActiveDatabaseManager: the database kept open is the one that the
\* kept pointer bytes name, with the same exception.
THEOREM OpenedWithItsBytes == ManagerSpec => []KeptWithItsBytes
<1>1. ManagerInv => KeptWithItsBytes
  BY DEF ManagerInv
<1>2. QED
  BY <1>1, ManagerBegins, ManagerInvStep, PTL DEF ManagerSpec

----------------------------------------------------------------------------
(* The page of the Radar.                                                  *)

\* The reload that may draw asked for what is chosen now.
LastIsChosen ==
  \A l \in loads : l.gen <= generation
                   /\ (Started /\ l.gen = generation => l.request = Request(view, latest))

\* The choice and the addresses are of their kinds.
ViewFits == view \in View /\ history \in Seq(Address) /\ at \in 1..Len(history)

PageInv ==
  /\ ViewFits
  /\ generation \in Nat /\ \A l \in loads : l.gen \in Nat
  /\ latest \in {Nothing, Latest}
  /\ start = "catalog" \/ Started => latest = Latest
  /\ current \in BOOLEAN /\ loading \in BOOLEAN /\ (current => ~loading)
  /\ LastIsChosen
  /\ ShowsTheChoice

\* Nothing is asked for at the start.
LEMMA PageBegins == PageInit => PageInv
<1> SUFFICES ASSUME PageInit PROVE PageInv
  OBVIOUS
<1>1. /\ generation = 0 /\ loads = {} /\ latest = Nothing /\ current = FALSE /\ loading = FALSE
      /\ start = "asking"
  BY DEF PageInit
<1>2. ViewFits
  BY PageAssumption DEF PageInit, Init0View, ViewFits, View, Periods
<1>3. QED
  BY <1>1, <1>2 DEF PageInv, LastIsChosen, ShowsTheChoice, Started

\* A reload for what is chosen is the last one.
LEMMA ReloadStep ==
  ASSUME PageInv, ViewFits', NEW try, Reload(view', latest, try), latest' = latest,
         start' = "catalog" \/ Started' => latest = Latest
  PROVE  PageInv'
<1> DEFINE new == [gen |-> generation + 1, request |-> Request(view', latest), attempt |-> try]
<1>1. /\ generation' = generation + 1 /\ loads' = loads \cup {new}
      /\ current' = FALSE /\ loading' = TRUE
  BY DEF Reload
<1>2. new.gen = generation + 1 /\ new.request = Request(view', latest)
  OBVIOUS
<1> HIDE DEF new
<1>3. LastIsChosen'
  BY <1>1, <1>2 DEF PageInv, LastIsChosen, Request, ActiveDate
<1>4. QED
  <2>1. generation' \in Nat /\ \A l \in loads' : l.gen \in Nat
    BY <1>1, <1>2 DEF PageInv
  <2>2. current' \in BOOLEAN /\ loading' \in BOOLEAN /\ ~current'
    BY <1>1, Zenon
  <2>3. latest' \in {Nothing, Latest} /\ (start' = "catalog" \/ Started' => latest' = Latest)
    BY DEF PageInv
  <2>4. ShowsTheChoice'
    BY <2>2, Zenon DEF ShowsTheChoice
  <2>5. QED
    BY <1>3, <2>1, <2>2, <2>3, <2>4 DEF PageInv

\* A step after which nothing more is asked for or shown.
LEMMA QuietStep ==
  ASSUME PageInv, ViewFits', loads' \subseteq loads, generation' \in {generation, generation + 1},
         latest' = latest, start' = start \/ (Started /\ Started'),
         \/ view' = view /\ drawn' = drawn /\ current' = current /\ generation' = generation
         \/ current' = FALSE /\ (view' = view \/ generation' = generation + 1),
         loading' = loading \/ loading' = FALSE
  PROVE  PageInv'
<1>1. Started' = Started \/ (Started /\ Started')
  BY DEF Started
<1>2. start' = "catalog" \/ Started' => latest = Latest
  BY DEF PageInv, Started
<1>3. LastIsChosen'
  BY <1>1 DEF PageInv, LastIsChosen, Request, ActiveDate
<1>4. ShowsTheChoice'
  BY <1>1 DEF PageInv, ShowsTheChoice, Request, ActiveDate
<1>5. generation' \in Nat /\ \A l \in loads' : l.gen \in Nat
  BY DEF PageInv
<1>6. current' \in BOOLEAN /\ loading' \in BOOLEAN /\ (current' => ~loading')
  <2>1. (current' = current \/ current' = FALSE) /\ (loading' = loading \/ loading' = FALSE)
    OBVIOUS
  <2>2. current \in BOOLEAN /\ loading \in BOOLEAN /\ (current => ~loading)
    BY DEF PageInv
  <2>3. FALSE \in BOOLEAN
    OBVIOUS
  <2>4. CASE current' = FALSE
    BY <2>1, <2>2, <2>3, <2>4, Zenon
  <2>5. CASE current' = current /\ loading' = loading
    BY <2>2, <2>5, Zenon
  <2>6. CASE current' = current /\ loading' = FALSE
    BY <2>2, <2>3, <2>6, Zenon
  <2>7. QED
    BY <2>1, <2>4, <2>5, <2>6, Zenon
<1>7. QED
  BY <1>2, <1>3, <1>4, <1>5, <1>6 DEF PageInv

\* Every step of the page keeps it.
LEMMA PageInvStep == PageInv /\ [PageNext]_pageVars => PageInv'
<1> SUFFICES ASSUME PageInv, [PageNext]_pageVars PROVE PageInv'
  OBVIOUS
<1>0. Latest # Nothing
  BY PageAssumption
<1>V. ViewFits'
  <2>0. latest \in Dates \cup {Nothing} /\ YesterdayOf(latest) \in Dates \cup {Nothing}
    BY PageAssumption DEF PageInv, YesterdayOf
  <2>1. view' \in View
    <3>1. ASSUME NEW a \in Address, NEW l \in {Nothing, latest}, view' = ReadAddress(a, l) PROVE view' \in View
      BY <2>0, <3>1, PageAssumption DEF ReadAddress, View, Address, Periods, YesterdayOf
    <3>2. view \in View /\ Here \in Address
      BY DEF PageInv, ViewFits, Here
    <3>3. CASE Choose
      <4>1. view' \in Chosen
        BY <3>3 DEF Choose
      <4>2. [view EXCEPT !.period = "7d", !.issueDate = Nothing] \in View
        BY <3>2 DEF View, Periods
      <4>3. [view EXCEPT !.period = "issue", !.issueDate = Nothing] \in View
        BY <3>2 DEF View, Periods
      <4>4. [view EXCEPT !.period = "yesterday", !.issueDate = YesterdayOf(latest)] \in View
        BY <2>0, <3>2 DEF View, Periods
      <4>5. \A d \in Present : [view EXCEPT !.period = "issue", !.issueDate = d] \in View
        BY <3>2, PageAssumption DEF View, Periods
      <4>6. \A q \in Queries : [view EXCEPT !.query = q] \in View
        BY <3>2 DEF View
      <4>7. QED
        BY <4>1, <4>2, <4>3, <4>4, <4>5, <4>6 DEF Chosen
    <3>4. CASE Type \/ ClearFilters \/ ToggleRubric
      BY <3>2, <3>4, PageAssumption DEF Type, ClearFilters, ToggleRubric, View
    <3>5. CASE Check
      BY <3>2, <3>5 DEF Check, View
    <3>6. CASE FirstReload
      BY <3>1, <3>2, <3>6 DEF FirstReload
    <3>7. CASE Step
      <4>1. at' \in 1..Len(history) /\ (view' = view \/ view' = ReadAddress(history[at'], latest))
        BY <3>7 DEF Step
      <4>2. history[at'] \in Address
        BY <4>1 DEF PageInv, ViewFits
      <4>3. QED
        BY <3>1, <3>2, <4>1, <4>2
    <3>8. QED
      BY <3>2, <3>3, <3>4, <3>5, <3>6, <3>7
         DEF pageVars, PageNext, LatestAnswers, StartAgain, Finish, NewsArrive, NewsFail, SourcesArrive,
             RetryFires, TypingEnds, ToTop, PressRetry
  <2>2. history' \in Seq(Address) /\ at' \in 1..Len(history')
    <3>0. history \in Seq(Address) /\ at \in 1..Len(history) /\ Len(history) \in Nat
      BY DEF PageInv, ViewFits
    <3>1. ASSUME NEW v \in View PROVE AddressOf(v, latest) \in Address
      BY <3>1 DEF AddressOf, View, Address, Periods, Dated
    <3>2. ASSUME NEW a \in Address, Push(a) \/ Replace(a)
          PROVE  history' \in Seq(Address) /\ at' \in 1..Len(history')
      <4>1. CASE history' = Append(SubSeq(history, 1, at), a) /\ at' = at + 1
        <5>1. SubSeq(history, 1, at) \in Seq(Address) /\ Len(SubSeq(history, 1, at)) = at
          BY <3>0
        <5>2. history' \in Seq(Address) /\ Len(history') = at + 1
          BY <4>1, <5>1
        <5>3. QED
          BY <3>0, <4>1, <5>2
      <4>2. CASE history' = [history EXCEPT ![at] = a] /\ at' = at
        BY <3>0, <4>2
      <4>3. QED
        BY <3>0, <3>2, <4>1, <4>2 DEF Push, Replace
    <3>3. CASE Choose \/ ClearFilters \/ ToggleRubric
      BY <2>1, <3>1, <3>2, <3>3 DEF Choose, ClearFilters, ToggleRubric
    <3>4. CASE TypingEnds \/ Finish \/ Check
      <4>1. view \in View
        BY DEF PageInv, ViewFits
      <4>2. QED
        BY <3>0, <3>1, <3>2, <3>4, <4>1 DEF TypingEnds, Finish, Check
    <3>5. CASE ToTop
      <4>1. Here \in Address
        BY <3>0 DEF Here
      <4>2. history' = Append(SubSeq(history, 1, at), Here) /\ at' = at + 1
        BY <3>5 DEF ToTop
      <4>3. SubSeq(history, 1, at) \in Seq(Address) /\ Len(SubSeq(history, 1, at)) = at
        BY <3>0
      <4>4. history' \in Seq(Address) /\ Len(history') = at + 1
        BY <4>1, <4>2, <4>3
      <4>5. QED
        BY <3>0, <4>2, <4>4
    <3>6. CASE Step
      BY <3>0, <3>6 DEF Step
    <3>7. QED
      BY <3>0, <3>3, <3>4, <3>5, <3>6
         DEF pageVars, PageNext, LatestAnswers, StartAgain, FirstReload, NewsArrive, NewsFail,
             SourcesArrive, RetryFires, Type, PressRetry
  <2>3. QED
    BY <2>1, <2>2 DEF ViewFits
<1>1. CASE UNCHANGED pageVars
  BY <1>1, <1>V, QuietStep DEF pageVars
<1>2. CASE LatestAnswers
  <2>1. /\ UNCHANGED <<loads, generation, current, loading, view, drawn>>
        /\ start = "asking" /\ start' \in {"catalog", "failed"} /\ ~Started /\ ~Started'
        /\ latest' = Latest \/ (latest' = latest /\ start' = "failed")
    BY <1>2 DEF LatestAnswers, Started
  <2>2. QED
    BY <1>V, <2>1 DEF PageInv, LastIsChosen, ShowsTheChoice
<1>3. CASE StartAgain
  <2>1. /\ UNCHANGED <<loads, generation, current, loading, view, drawn, latest>>
        /\ start' = "asking" /\ ~Started'
    BY <1>3 DEF StartAgain, Started
  <2>2. QED
    BY <1>V, <2>1 DEF PageInv, LastIsChosen, ShowsTheChoice
<1>4. CASE FirstReload
  BY <1>4, <1>V, ReloadStep DEF FirstReload, PageInv
<1>5. CASE Check
  <2>1. Started /\ Started' /\ latest' = latest /\ latest = Latest
    BY <1>5 DEF Check, Started, PageInv
  <2>2. CASE Absent(view.issueDate)
    BY <1>5, <2>1, <2>2, <1>V, ReloadStep DEF Check
  <2>3. CASE ~Absent(view.issueDate)
    BY <1>5, <2>1, <2>3, <1>V, QuietStep DEF Check
  <2>4. QED
    BY <2>2, <2>3
<1>6. CASE Finish
  BY <1>6, <1>V, QuietStep DEF Finish, Started
\* The reload that init awaits moves init on within the places of a started page.
<1>7. ASSUME NEW l \in loads, Awaited(l)
      PROVE  start' = start \/ (Started /\ Started')
  BY <1>7 DEF Awaited, Started
<1>8. ASSUME NEW l \in loads, NewsArrive(l) PROVE PageInv'
  <2>1. loads' \subseteq loads /\ UNCHANGED <<generation, latest, view>>
        /\ (start' = start \/ (Started /\ Started'))
    BY <1>7, <1>8 DEF NewsArrive
  <2>2. CASE ~LastAttempt(l)
    BY <1>8, <2>1, <2>2, <1>V, QuietStep DEF NewsArrive
  <2>3. CASE LastAttempt(l)
    <3>1. current' = TRUE /\ loading' = FALSE
      BY <1>8, <2>3 DEF NewsArrive
    <3>2. Started' = Started
      BY <2>1 DEF Started
    <3>3. start' = "catalog" \/ Started' => latest = Latest
      BY <2>1, <3>2 DEF PageInv, Started
    <3>4. LastIsChosen'
      BY <2>1, <3>2 DEF PageInv, LastIsChosen, Request, ActiveDate
    <3>5. ASSUME Started PROVE drawn' = [request |-> Request(view, latest), rubric |-> view.rubric]
      <4>1. latest # Nothing /\ l.request = Request(view, latest)
        BY <1>0, <2>3, <3>5 DEF PageInv, LastIsChosen, LastAttempt
      <4>2. QED
        BY <1>8, <2>3, <4>1 DEF NewsArrive
    <3>6. ShowsTheChoice'
      BY <2>1, <3>2, <3>5 DEF ShowsTheChoice, Request, ActiveDate
    <3>7. QED
      BY <1>V, <2>1, <3>1, <3>3, <3>4, <3>6 DEF PageInv
  <2>4. QED
    BY <2>2, <2>3
<1>9. ASSUME NEW l \in loads, NewsFail(l) PROVE PageInv'
  <2>1. /\ loads' \subseteq loads /\ UNCHANGED <<generation, latest, view, drawn, current>>
        /\ start' = start \/ (Started /\ Started')
        /\ loading' = loading \/ loading' = FALSE
    BY <1>7, <1>9 DEF NewsFail
  <2>2. QED
    BY <2>1, <1>V, QuietStep
<1>10. ASSUME NEW l \in sources, SourcesArrive(l) PROVE PageInv'
  BY <1>10, <1>V, QuietStep DEF SourcesArrive
<1>11. ASSUME NEW try, Reload(view', latest, try), latest' = latest, start' = start
       PROVE  PageInv'
  <2>1. start' = "catalog" \/ Started' => latest = Latest
    BY <1>11 DEF PageInv, Started
  <2>2. QED
    BY <1>11, <2>1, <1>V, ReloadStep
<1>12. CASE RetryFires \/ PressRetry
  <2>1. view' = view /\ latest' = latest /\ start' = start
    BY <1>12 DEF RetryFires, PressRetry
  <2>2. \E try : Reload(view, latest, try)
    BY <1>12 DEF RetryFires, PressRetry
  <2>3. QED
    BY <1>11, <2>1, <2>2
<1>13. CASE TypingEnds
  <2>1. view' = view /\ latest' = latest /\ start' = start /\ Reload(view, latest, 0)
    BY <1>13 DEF TypingEnds
  <2>2. QED
    BY <1>11, <2>1
<1>14. CASE Choose \/ ClearFilters
  <2>1. latest' = latest /\ start' = start /\ Reload(view', latest, 0)
    BY <1>14 DEF Choose, ClearFilters
  <2>2. QED
    BY <1>11, <2>1
<1>15. CASE Type
  BY <1>15, <1>V, QuietStep DEF Type
<1>16. CASE ToggleRubric
  <2>1. /\ UNCHANGED <<latest, generation, loads, current, loading, start>>
        /\ view' = [view EXCEPT !.rubric = ~@]
        /\ drawn' = IF Redraws /\ drawn # Nothing THEN [drawn EXCEPT !.rubric = view'.rubric] ELSE drawn
    BY <1>16 DEF ToggleRubric
  <2>2. Request(view', latest') = Request(view, latest)
    BY <2>1 DEF PageInv, ViewFits, View, Request, ActiveDate
  <2>3. LastIsChosen'
    BY <2>1, <2>2 DEF PageInv, LastIsChosen, Started
  <2>4. ASSUME Started, current PROVE drawn' = [request |-> Request(view', latest'), rubric |-> view'.rubric]
    <3>1. drawn = [request |-> Request(view, latest), rubric |-> view.rubric] /\ Redraws
      BY <2>4 DEF PageInv, ShowsTheChoice, Redraws
    <3>2. drawn # Nothing
      <4>1. drawn \in Drawing
        BY <3>1, PageAssumption DEF PageInv, ViewFits, View, Drawing, RequestType, Request, ActiveDate
      <4>2. QED
        BY <4>1, PageAssumption
    <3>3. QED
      BY <2>1, <2>2, <3>1, <3>2
  <2>5. ShowsTheChoice'
    BY <2>1, <2>4 DEF ShowsTheChoice, Started
  <2>6. QED
    BY <1>V, <2>1, <2>3, <2>5 DEF PageInv, Started
<1>17. CASE ToTop
  BY <1>17, <1>V, QuietStep DEF ToTop
<1>18. CASE Step
  <2>1. latest' = latest /\ start' = start
    BY <1>18 DEF Step
  <2>2. CASE history[at'] = shown
    BY <1>18, <2>1, <2>2, <1>V, QuietStep DEF Step
  <2>3. CASE history[at'] # shown
    BY <1>11, <1>18, <2>1, <2>3 DEF Step
  <2>4. QED
    BY <2>2, <2>3
<1>19. QED
  BY <1>1, <1>2, <1>3, <1>4, <1>5, <1>6, <1>8, <1>9, <1>10, <1>12, <1>13, <1>14, <1>15, <1>16,
     <1>17, <1>18 DEF PageNext

\* Behaviour of app.mjs reload: for any dates, choices and delays, news called
\* current are those of what is chosen now, whatever replies, timers and clicks came
\* in between.
THEOREM CurrentIsChosen == PageSpec => []ShowsTheChoice
<1>1. PageInv => ShowsTheChoice
  BY DEF PageInv
<1>2. QED
  BY <1>1, PageBegins, PageInvStep, PTL DEF PageSpec

\* Data that are not current have a reply, a timer or the notice's button ahead of them,
\* also while init is about to act.
AheadOfPage ==
  /\ (Started /\ ~current) =>
        (\E l \in loads : l.gen = generation) \/ retry # Nothing \/ typing \/ notice = "press"
  /\ generation \in Nat /\ \A l \in loads : l.gen \in Nat /\ l.attempt \in Nat
  /\ retry # Nothing => retry.attempt \in Nat

\* Behaviour of reload, its retries and the search timer: nothing is awaited for ever,
\* because whatever takes away the last thing to wait for leaves another.
THEOREM PageGoesOn == PageSpec => []SomethingAhead
<1>1. PageInit => AheadOfPage
  BY DEF PageInit, AheadOfPage, Started
<1>2. ASSUME AheadOfPage, NEW v, NEW try \in Nat, Reload(v, latest, try) PROVE AheadOfPage'
  <2> DEFINE new == [gen |-> generation + 1, request |-> Request(v, latest), attempt |-> try]
  <2>1. /\ loads' = loads \cup {new} /\ generation' = generation + 1 /\ retry' = Nothing
        /\ new.gen = generation + 1 /\ new.attempt = try
    BY <1>2 DEF Reload
  <2> HIDE DEF new
  <2>2. QED
    BY <1>2, <2>1 DEF AheadOfPage
<1>3. ASSUME AheadOfPage, UNCHANGED <<loads, generation, retry, typing, notice, current>>,
             Started' => Started
      PROVE  AheadOfPage'
  BY <1>3 DEF AheadOfPage
<1>4. ASSUME AheadOfPage, NEW l \in loads, NewsArrive(l) \/ NewsFail(l) PROVE AheadOfPage'
  <2>1. Started' => Started
    BY <1>4 DEF NewsArrive, NewsFail, Awaited, Started
  <2>2. loads' = loads \ {l} /\ UNCHANGED <<generation, typing>>
    BY <1>4 DEF NewsArrive, NewsFail
  <2>3. CASE LastAttempt(l) /\ NewsArrive(l)
    BY <1>4, <2>2, <2>3 DEF NewsArrive, AheadOfPage
  <2>4. CASE LastAttempt(l) /\ NewsFail(l)
    <3>1. l.gen \in Nat /\ l.attempt + 1 \in Nat
      BY <1>4 DEF AheadOfPage
    <3>2. CASE retry' = [gen |-> l.gen, attempt |-> l.attempt + 1]
      <4>1. retry' \in [gen : Nat, attempt : Nat]
        BY <3>1, <3>2
      <4>2. retry' # Nothing /\ retry'.attempt \in Nat
        BY <4>1, PageAssumption
      <4>3. QED
        BY <1>4, <2>2, <4>2 DEF AheadOfPage
    <3>3. CASE notice' = "press" /\ retry' = retry
      BY <1>4, <2>2, <3>3 DEF AheadOfPage
    <3>4. QED
      BY <2>4, <3>2, <3>3 DEF NewsFail
  <2>5. CASE ~LastAttempt(l)
    <3>1. UNCHANGED <<retry, notice, current>>
      BY <1>4, <2>5 DEF NewsArrive, NewsFail
    <3>2. \A m \in loads : m.gen = generation => m \in loads'
      BY <2>2, <2>5 DEF LastAttempt
    <3>3. QED
      BY <1>4, <2>1, <2>2, <3>1, <3>2 DEF AheadOfPage
  <2>6. QED
    BY <1>4, <2>3, <2>4, <2>5
<1>5. ASSUME AheadOfPage, [PageNext]_pageVars PROVE AheadOfPage'
  <2>0. 0 \in Nat
    OBVIOUS
  <2>1. CASE FirstReload \/ TypingEnds \/ Choose \/ ClearFilters \/ PressRetry
    BY <1>2, <1>5, <2>0, <2>1 DEF FirstReload, TypingEnds, Choose, ClearFilters, PressRetry
  <2>8. CASE RetryFires
    BY <1>2, <1>5, <2>8 DEF RetryFires, AheadOfPage
  <2>2. CASE Check
    <3>1. CASE Absent(view.issueDate)
      BY <1>2, <1>5, <2>0, <2>2, <3>1 DEF Check
    <3>2. CASE ~Absent(view.issueDate)
      BY <1>3, <1>5, <2>2, <3>2 DEF Check, Started
    <3>3. QED
      BY <3>1, <3>2
  <2>3. CASE Step
    <3>1. CASE history[at'] = shown
      BY <1>3, <1>5, <2>3, <3>1 DEF Step, StopsTyping, Started
    <3>2. CASE history[at'] # shown
      BY <1>2, <1>5, <2>0, <2>3, <3>2 DEF Step
    <3>3. QED
      BY <3>1, <3>2
  <2>4. CASE LatestAnswers \/ StartAgain
    BY <1>5, <2>4 DEF LatestAnswers, StartAgain, AheadOfPage, Started
  <2>5. CASE Finish \/ ToggleRubric \/ ToTop \/ UNCHANGED pageVars
    BY <1>3, <1>5, <2>5 DEF Finish, ToggleRubric, ToTop, pageVars, Started
  <2>6. CASE \E l \in sources : SourcesArrive(l)
    BY <1>3, <1>5, <2>6 DEF SourcesArrive, Started
  <2>7. CASE Type
    BY <1>5, <2>7 DEF Type, AheadOfPage
  <2>9. QED
    BY <1>4, <1>5, <2>1, <2>2, <2>3, <2>4, <2>5, <2>6, <2>7, <2>8 DEF PageNext
<1>6. AheadOfPage => SomethingAhead
  BY DEF AheadOfPage, SomethingAhead
<1>7. QED
  BY <1>1, <1>5, <1>6, PTL DEF PageSpec

\* What is drawn, and the reloads whose sources the footer may still show.
FooterInv ==
  /\ generation \in Nat
  /\ \A l \in loads \cup sources : l.gen \in Nat /\ l.gen <= generation
  /\ \A l \in loads, m \in loads : l.gen = m.gen => l = m
  /\ \A l \in loads, m \in sources : l.gen # m.gen
  /\ drawn = Nothing \/ DOMAIN drawn = {"request", "rubric"}
  /\ drawn # Nothing => \A m \in sources : m.gen = drawnBy => m.request = drawn.request
  /\ FooterOfTheNews

\* Behaviour of the footer's sources, which are asked for after the news: for any delays
\* they are listed only under the news they belong to.
THEOREM FooterBelongs == PageSpec => []FooterOfTheNews
<1>1. PageInit => FooterInv
  BY DEF PageInit, FooterInv, FooterOfTheNews
<1>2. ASSUME FooterInv, NEW v, NEW try, Reload(v, latest, try) PROVE FooterInv'
  <2> DEFINE new == [gen |-> generation + 1, request |-> Request(v, latest), attempt |-> try]
  <2>1. /\ loads' = loads \cup {new} /\ new.gen = generation + 1 /\ generation' = generation + 1
        /\ UNCHANGED <<drawn, drawnBy, footer, sources>>
    BY <1>2 DEF Reload
  <2> HIDE DEF new
  <2>2. QED
    BY <1>2, <2>1 DEF FooterInv, FooterOfTheNews
<1>3. ASSUME FooterInv, UNCHANGED <<sources, drawn, drawnBy, footer>>, loads' \subseteq loads,
             generation' \in {generation, generation + 1}
      PROVE  FooterInv'
  BY <1>3 DEF FooterInv, FooterOfTheNews
<1>4. ASSUME FooterInv, NEW l \in loads, NewsArrive(l) PROVE FooterInv'
  <2>1. loads' = loads \ {l} /\ generation' = generation
    BY <1>4 DEF NewsArrive
  <2>2. CASE UNCHANGED <<drawn, drawnBy, footer, sources>>
    BY <1>3, <1>4, <2>1, <2>2
  <2>3. CASE drawnBy' = l.gen /\ UNCHANGED <<drawn, footer, sources>>
    BY <1>4, <2>1, <2>3 DEF FooterInv, FooterOfTheNews
  <2>4. CASE /\ drawnBy' = l.gen /\ drawn' = [request |-> l.request, rubric |-> view.rubric]
             /\ footer' = [request |-> l.request, rows |-> FALSE] /\ sources' = sources \cup {l}
    <3>1. DOMAIN drawn' = {"request", "rubric"} /\ drawn'.request = l.request /\ footer'.request = l.request
      BY <2>4
    <3>2. \A m \in sources' : m.gen = drawnBy' => m.request = l.request
      BY <1>4, <2>4 DEF FooterInv
    <3>3. /\ \A m \in loads' \cup sources' : m.gen \in Nat /\ m.gen <= generation'
          /\ \A k \in loads', m \in loads' : k.gen = m.gen => k = m
          /\ \A k \in loads', m \in sources' : k.gen # m.gen
          /\ generation' \in Nat
      BY <1>4, <2>1, <2>4 DEF FooterInv
    <3>4. QED
      BY <3>1, <3>2, <3>3 DEF FooterInv, FooterOfTheNews
  <2>5. QED
    BY <1>4, <2>2, <2>3, <2>4 DEF NewsArrive
<1>5. ASSUME FooterInv, NEW l \in sources, SourcesArrive(l) PROVE FooterInv'
  <2>1. /\ sources' = sources \ {l} /\ UNCHANGED <<loads, generation, drawn, drawnBy>>
        /\ footer' = IF OfTheNews(l) THEN [request |-> l.request, rows |-> TRUE] ELSE footer
    BY <1>5 DEF SourcesArrive
  <2>2. FooterOfTheNews'
    BY <1>5, <2>1 DEF FooterInv, FooterOfTheNews, OfTheNews
  <2>3. QED
    BY <1>5, <2>1, <2>2 DEF FooterInv
<1>6. ASSUME FooterInv, ToggleRubric PROVE FooterInv'
  <2>1. /\ UNCHANGED <<loads, sources, generation, drawnBy, footer>>
        /\ drawn' = IF Redraws /\ drawn # Nothing THEN [drawn EXCEPT !.rubric = view'.rubric] ELSE drawn
    BY <1>6 DEF ToggleRubric
  <2>2. CASE drawn' = drawn
    BY <1>3, <1>6, <2>1, <2>2
  <2>3. CASE drawn # Nothing /\ drawn' = [drawn EXCEPT !.rubric = view'.rubric]
    <3>1. DOMAIN drawn' = {"request", "rubric"} /\ drawn'.request = drawn.request
      BY <1>6, <2>3 DEF FooterInv
    <3>2. QED
      BY <1>6, <2>1, <2>3, <3>1 DEF FooterInv, FooterOfTheNews
  <2>4. QED
    BY <2>1, <2>2, <2>3
<1>7. ASSUME FooterInv, [PageNext]_pageVars PROVE FooterInv'
  <2>1. CASE FirstReload \/ RetryFires \/ TypingEnds \/ Choose \/ ClearFilters \/ PressRetry
    BY <1>2, <1>7, <2>1 DEF FirstReload, RetryFires, TypingEnds, Choose, ClearFilters, PressRetry
  <2>2. CASE Check
    BY <1>2, <1>3, <1>7, <2>2 DEF Check
  <2>3. CASE Step
    BY <1>2, <1>3, <1>7, <2>3 DEF Step
  <2>4. CASE LatestAnswers \/ StartAgain \/ Finish \/ ToTop \/ Type \/ UNCHANGED pageVars
    BY <1>3, <1>7, <2>4 DEF LatestAnswers, StartAgain, Finish, ToTop, Type, pageVars
  <2>5. ASSUME NEW l \in loads, NewsFail(l) PROVE FooterInv'
    BY <1>3, <1>7, <2>5 DEF NewsFail
  <2>6. QED
    BY <1>4, <1>5, <1>6, <1>7, <2>1, <2>2, <2>3, <2>4, <2>5 DEF PageNext
<1>8. FooterInv => FooterOfTheNews
  BY DEF FooterInv
<1>9. QED
  BY <1>1, <1>7, <1>8, PTL DEF PageSpec

----------------------------------------------------------------------------
(* The releases of the knowledge section.                                  *)

\* The event log is a sequence that tells the active release.
EventsInv == (\E S : events \in Seq(S)) /\ EventsTellActive

\* A further event tells what its handler has made active.
LEMMA OneMoreEvent ==
  ASSUME EventsInv, NEW e, events' = Append(events, e), active' = e.release
  PROVE  EventsInv'
<1>1. PICK S : events \in Seq(S)
  BY DEF EventsInv
<1>2. events \in Seq(S \cup {e}) /\ e \in S \cup {e}
  BY <1>1
<1>3. /\ events' \in Seq(S \cup {e}) /\ Len(events') = Len(events) + 1 /\ Len(events) \in Nat
      /\ events'[Len(events) + 1] = e
  BY <1>2
<1>4. events' # <<>>
  BY <1>3
<1>5. QED
  BY <1>3, <1>4 DEF EventsInv, EventsTellActive

\* Behaviour of publish_release and rollback_release: for any operators, however
\* their reads and writes interleave, the last event names the active release.
THEOREM EventsNameActive == ReleaseSpec => []EventsTellActive
<1>1. ReleaseInit => EventsInv
  <2>1. <<>> \in Seq({})
    OBVIOUS
  <2>2. QED
    BY <2>1 DEF ReleaseInit, EventsInv, EventsTellActive
<1>2. EventsInv /\ [ReleaseNext]_releaseVars => EventsInv'
  <2> SUFFICES ASSUME EventsInv, [ReleaseNext]_releaseVars PROVE EventsInv'
    OBVIOUS
  <2>1. CASE UNCHANGED <<active, events>>
    BY <2>1 DEF EventsInv, EventsTellActive
  <2>2. ASSUME NEW o \in Operators, PublishWrite(o) PROVE EventsInv'
    BY <2>2, OneMoreEvent DEF PublishWrite
  <2>3. ASSUME NEW o \in Operators, RollbackWrite(o) PROVE EventsInv'
    BY <2>3, OneMoreEvent DEF RollbackWrite, RollbackEvent
  <2>4. QED
    BY <2>1, <2>2, <2>3
       DEF ReleaseNext, releaseVars, slice, Edit, Change, RecordProvenance, RecordTranslation,
           ProposeBinding, DecideBinding, RecordIdea, DecideIdea, ImportWiki, DecideFamily,
           SnapshotGraph, PublishQuotes, QuotesRead, QuotesWrite, QuotesResolve, PublisherDies,
           Build, BuildBegin, BuildStatements, BuildWrite, Switch, PublishRead, RollbackRead
<1>3. EventsInv => EventsTellActive
  BY DEF EventsInv
<1>4. QED
  BY <1>1, <1>2, <1>3, PTL DEF ReleaseSpec

\* Quotations are of claims, the editor's table has every pair, and what a release
\* cites the editor has decided.
CitedFits ==
  /\ DOMAIN binding = Pairs
  /\ quotes \subseteq Quote
  /\ publisher.step = "read" => \A r \in publisher.rows : r.quote \in Quote
  /\ \A r \in releases : \A e \in r.evidence : <<e[1], e[2][1]>> \in Pairs
  /\ CitedIsDecided

\* Behaviour of bind_concept_evidence, decide_binding and build_release: a release
\* cites only pairs that the editor decided, however builds and decisions overlap.
THEOREM CitedAreDecided == ReleaseSpec => []CitedIsDecided
<1>1. ReleaseInit => CitedFits
  BY DEF ReleaseInit, CitedFits, CitedIsDecided, Idle
<1>2. CitedFits /\ [ReleaseNext]_releaseVars => CitedFits'
  <2> SUFFICES ASSUME CitedFits, [ReleaseNext]_releaseVars PROVE CitedFits'
    OBVIOUS
  <2>1. CASE UNCHANGED <<binding, quotes, publisher, releases>>
    BY <2>1 DEF CitedFits, CitedIsDecided
  <2>2. ASSUME NEW s \in Statements, NEW c \in Claims, ProposeBinding(s, c) PROVE CitedFits'
    <3>1. /\ binding[<<s, c>>] = "none" /\ binding' = [binding EXCEPT ![<<s, c>>] = "proposed"]
          /\ UNCHANGED <<quotes, publisher, releases>>
      BY <2>2 DEF ProposeBinding, Change, published, slice
    <3>2. QED
      BY <3>1 DEF CitedFits, CitedIsDecided
  <2>3. ASSUME NEW s \in Statements, NEW c \in Claims, NEW v \in {"confirmed", "rejected"},
               DecideBinding(s, c, v)
        PROVE  CitedFits'
    <3>1. binding' = [binding EXCEPT ![<<s, c>>] = v] /\ UNCHANGED <<quotes, publisher, releases>>
      BY <2>3 DEF DecideBinding, Change, published, slice
    <3>2. QED
      BY <3>1 DEF CitedFits, CitedIsDecided
  <2>4. CASE QuotesRead
    <3>1. /\ publisher' = [step |-> "read",
                           rows |-> {[quote |-> q, failed |-> Failed(q[1])] : q \in Candidates}]
          /\ UNCHANGED <<binding, quotes, releases>>
      BY <2>4 DEF QuotesRead, content, slice
    <3>2. ASSUME NEW q \in Candidates PROVE q \in Quote
      <4>1. PICK c \in Claims : q = <<c, translation[c] = "verified">>
        BY DEF Candidates
      <4>2. (translation[c] = "verified") \in BOOLEAN
        OBVIOUS
      <4>3. QED
        BY <4>1, <4>2 DEF Quote
    <3>3. \A r \in publisher'.rows : r.quote \in Quote
      BY <3>1, <3>2
    <3>4. QED
      BY <3>1, <3>3 DEF CitedFits, CitedIsDecided
  <2>5. CASE QuotesWrite
    <3>1. /\ publisher' = [step |-> "resolve"] /\ publisher.step = "read"
          /\ quotes' = quotes \cup {r.quote : r \in {r \in publisher.rows : r.failed = {}}}
          /\ UNCHANGED <<binding, releases>>
      BY <2>5 DEF QuotesWrite, content, slice
    <3>2. QED
      BY <3>1 DEF CitedFits, CitedIsDecided
  <2>6. CASE QuotesResolve \/ PublisherDies
    <3>1. publisher' = Idle /\ UNCHANGED <<binding, quotes, releases>>
      BY <2>6 DEF QuotesResolve, PublisherDies, content, slice
    <3>2. QED
      BY <3>1 DEF CitedFits, CitedIsDecided, Idle
  <2>7. ASSUME NEW o \in Operators, BuildWrite(o) PROVE CitedFits'
    <3>1. UNCHANGED <<binding, quotes, publisher>>
      BY <2>7 DEF BuildWrite, content, published
    <3>2. PICK id : releases' = releases \/ releases' = releases \cup {[id |-> id, evidence |-> Evidence]}
      BY <2>7 DEF BuildWrite, Stored
    <3>3. \A e \in Evidence : <<e[1], e[2][1]>> \in Pairs /\ binding[<<e[1], e[2][1]>>] = "confirmed"
      BY DEF Evidence, Known, Pairs, CitedFits, Quote
    <3>4. \A r \in releases' : r \in releases \/ r.evidence = Evidence
      BY <3>2
    <3> HIDE DEF Evidence
    <3>5. QED
      BY <3>1, <3>3, <3>4 DEF CitedFits, CitedIsDecided
  <2>8. QED
    BY <2>1, <2>2, <2>3, <2>4, <2>5, <2>6, <2>7
       DEF ReleaseNext, releaseVars, content, published, slice, Edit, Change, RecordProvenance,
           RecordTranslation, RecordIdea, DecideIdea, ImportWiki, DecideFamily, SnapshotGraph,
           DecideBinding, PublishQuotes, Build, BuildBegin, BuildStatements, Switch, PublishRead,
           PublishWrite, RollbackRead, RollbackWrite
<1>3. CitedFits => CitedIsDecided
  BY DEF CitedFits
<1>4. QED
  BY <1>1, <1>2, <1>3, PTL DEF ReleaseSpec

\* A quotation in a foreign language goes with a translation that passed its check.
Told(q, t) == q[1] \in Foreign => q[2] = TRUE /\ t[q[1]] = "verified"
AllTold(rows, t) == \A q \in rows : Told(q, t)

\* The quotations on the way to readers, and those of the releases, are told.
ForeignFits ==
  /\ DOMAIN translation = Claims
  /\ AllTold(quotes, translation)
  /\ publisher.step = "read" => \A r \in publisher.rows : Told(r.quote, translation)
  /\ \A o \in Operators : op[o].step \in {"quotes", "statements"} => AllTold(op[o].quotes, translation)
  /\ \A r \in releases : AllTold(r.id.quotes, translation)

\* An operator's step that takes up only quotations that are told, and no release.
LEMMA ForeignKept ==
  ASSUME ForeignFits, NEW o \in Operators, NEW k, op' = [op EXCEPT ![o] = k],
         k.step \in {"quotes", "statements"} => AllTold(k.quotes, translation),
         UNCHANGED <<translation, quotes, publisher, releases>>
  PROVE  ForeignFits'
<1>1. \A p \in Operators : op'[p].step \in {"quotes", "statements"}
        => AllTold(op'[p].quotes, translation)
  <2> SUFFICES ASSUME NEW p \in Operators, op'[p].step \in {"quotes", "statements"}
               PROVE  AllTold(op'[p].quotes, translation)
    OBVIOUS
  <2>1. CASE p = o /\ o \in DOMAIN op
    <3>1. op'[p] = k
      BY <2>1
    <3>2. QED
      BY <3>1
  <2>2. CASE ~(p = o /\ o \in DOMAIN op)
    <3>1. op'[p] = op[p]
      BY <2>2
    <3>2. QED
      BY <3>1 DEF ForeignFits
  <2>3. QED
    BY <2>1, <2>2
<1>2. QED
  BY <1>1 DEF ForeignFits, AllTold, Told

\* Behaviour of publishable_quotes, publish_quotes and build_release: no release shows a
\* foreign quotation without a translation that passed its check, although published rows
\* stay and translations arrive at any time.
THEOREM ForeignsAreTranslated == ReleaseSpec => []ForeignTranslated
<1>1. ReleaseInit => ForeignFits
  <2> SUFFICES ASSUME ReleaseInit PROVE ForeignFits
    OBVIOUS
  <2>1. \A o \in Operators : op[o].step = "idle"
    BY DEF ReleaseInit, Idle
  <2>2. QED
    BY <2>1 DEF ReleaseInit, ForeignFits, AllTold, Idle
<1>2. ForeignFits /\ [ReleaseNext]_releaseVars => ForeignFits'
  <2> SUFFICES ASSUME ForeignFits, [ReleaseNext]_releaseVars PROVE ForeignFits'
    OBVIOUS
  <2>1. CASE UNCHANGED <<translation, quotes, publisher, op, releases>>
    BY <2>1 DEF ForeignFits, AllTold, Told
  <2>2. ASSUME NEW c \in Claims, NEW s \in Translation, RecordTranslation(c, s) PROVE ForeignFits'
    <3>1. /\ translation[c] = "none" /\ translation' = [translation EXCEPT ![c] = s]
          /\ UNCHANGED <<quotes, publisher, op, releases>>
      BY <2>2 DEF RecordTranslation, Change, published, slice
    <3>2. \A q : Told(q, translation) => Told(q, translation')
      BY <3>1 DEF Told
    <3>3. QED
      BY <3>1, <3>2 DEF ForeignFits, AllTold
  <2>3. CASE QuotesRead
    <3>1. /\ publisher' = [step |-> "read",
                           rows |-> {[quote |-> q, failed |-> Failed(q[1])] : q \in Candidates}]
          /\ UNCHANGED <<translation, quotes, op, releases>>
      BY <2>3 DEF QuotesRead, content, slice
    <3>2. ASSUME NEW q \in Candidates PROVE Told(q, translation)
      <4>1. PICK c \in Claims : /\ c \in Foreign => translation[c] = "verified"
                                /\ q = <<c, translation[c] = "verified">>
        BY DEF Candidates
      <4>2. q[1] = c /\ q[2] = (translation[c] = "verified")
        BY <4>1
      <4>3. translation[c] = "verified" => (translation[c] = "verified") = TRUE
        OBVIOUS
      <4>4. QED
        BY <4>1, <4>2, <4>3, Zenon DEF Told
    <3>3. \A r \in publisher'.rows : Told(r.quote, translation)
      BY <3>1, <3>2
    <3>4. QED
      BY <3>1, <3>3 DEF ForeignFits, AllTold, Told
  <2>4. CASE QuotesWrite
    <3>1. /\ publisher' = [step |-> "resolve"] /\ publisher.step = "read"
          /\ quotes' = quotes \cup {r.quote : r \in {r \in publisher.rows : r.failed = {}}}
          /\ UNCHANGED <<translation, op, releases>>
      BY <2>4 DEF QuotesWrite, content, slice
    <3>2. AllTold(quotes', translation)
      BY <3>1 DEF ForeignFits, AllTold
    <3>3. QED
      BY <3>1, <3>2 DEF ForeignFits, AllTold, Told
  <2>5. CASE QuotesResolve \/ PublisherDies
    <3>1. publisher' = Idle /\ UNCHANGED <<translation, quotes, op, releases>>
      BY <2>5 DEF QuotesResolve, PublisherDies, content, slice
    <3>2. QED
      BY <3>1 DEF ForeignFits, AllTold, Told, Idle
  <2>6. ASSUME NEW o \in Operators, BuildBegin(o) PROVE ForeignFits'
    <3> DEFINE k == [step |-> "quotes", quotes |-> quotes, body |-> imported]
    <3>1. op' = [op EXCEPT ![o] = k] /\ UNCHANGED <<translation, quotes, publisher, releases>>
      BY <2>6 DEF BuildBegin, content, published, slice
    <3>2. AllTold(k.quotes, translation)
      BY DEF ForeignFits
    <3> HIDE DEF k
    <3>3. QED
      BY <3>1, <3>2, ForeignKept
  <2>7. ASSUME NEW o \in Operators, BuildStatements(o) PROVE ForeignFits'
    <3> DEFINE k == [step |-> "statements", quotes |-> op[o].quotes, body |-> op[o].body,
                     counts |-> Counts, ideas |-> Admitted]
    <3>1. /\ op[o].step = "quotes" /\ op' = [op EXCEPT ![o] = k]
          /\ UNCHANGED <<translation, quotes, publisher, releases>>
      BY <2>7 DEF BuildStatements, content, published, slice
    <3>2. AllTold(k.quotes, translation)
      BY <3>1 DEF ForeignFits
    <3> HIDE DEF k
    <3>3. QED
      BY <3>1, <3>2, ForeignKept
  <2>8. ASSUME NEW o \in Operators, BuildWrite(o) PROVE ForeignFits'
    <3>1. /\ op[o].step = "statements" /\ op' = [op EXCEPT ![o] = Idle]
          /\ UNCHANGED <<translation, quotes, publisher>>
      BY <2>8 DEF BuildWrite, content, published
    <3>2. PICK id : /\ id.quotes = op[o].quotes
                    /\ releases' = releases \/ releases' = releases \cup {[id |-> id, evidence |-> Evidence]}
      BY <2>8 DEF BuildWrite, Stored
    <3>3. \A r \in releases' : AllTold(r.id.quotes, translation)
      BY <3>1, <3>2 DEF ForeignFits
    <3>4. \A p \in Operators : op'[p].step \in {"quotes", "statements"} => op'[p] = op[p]
      BY <3>1 DEF Idle
    <3>5. QED
      BY <3>1, <3>3, <3>4 DEF ForeignFits, AllTold, Told
  <2>9. ASSUME NEW o \in Operators, Switch(o) PROVE ForeignFits'
    <3>1. PICK k : op' = [op EXCEPT ![o] = k] /\ k.step \notin {"quotes", "statements"}
      BY <2>9 DEF Switch, PublishRead, PublishWrite, RollbackRead, RollbackWrite, Idle
    <3>2. UNCHANGED <<translation, quotes, publisher, releases>>
      BY <2>9 DEF Switch, PublishRead, PublishWrite, RollbackRead, RollbackWrite, content,
                  published, slice
    <3>3. QED
      BY <3>1, <3>2, ForeignKept
  <2>10. QED
    BY <2>1, <2>2, <2>3, <2>4, <2>5, <2>6, <2>7, <2>8, <2>9
       DEF ReleaseNext, releaseVars, content, published, slice, Edit, Change, RecordProvenance,
           ProposeBinding, DecideBinding, RecordIdea, DecideIdea, ImportWiki, DecideFamily,
           SnapshotGraph, PublishQuotes, Build
<1>3. ForeignFits => ForeignTranslated
  <2> SUFFICES ASSUME ForeignFits, NEW r \in releases, NEW q \in r.id.quotes, q[1] \in Foreign
               PROVE  q[2] /\ translation[q[1]] = "verified"
    BY DEF ForeignTranslated
  <2>1. q[2] = TRUE /\ translation[q[1]] = "verified"
    BY DEF ForeignFits, AllTold, Told
  <2>2. QED
    BY <2>1, Zenon
<1>4. QED
  BY <1>1, <1>2, <1>3, PTL DEF ReleaseSpec

----------------------------------------------------------------------------
(* The fetch queue.                                                        *)

RowsFit ==
  /\ queue \in [Docs -> Row]
  /\ \A d \in Docs : queue[d].status = "succeeded" => best[d] # NoVersion

\* A request names only what a complete text was recorded with.
ValidatorsFit ==
  /\ validator \in [Docs -> 0..MaxEdition]
  /\ \A d \in Docs : validator[d] # 0 => best[d] # NoVersion

\* A task's etag was such a validator; a site answers 304 to nothing else.
TaskFits(t, texts) ==
  /\ t \in Task
  /\ t.etag # 0 => texts[t.doc] # NoVersion
  /\ t.result \in HasBody => t.edition \in Edition
  /\ t.result = "unchanged" => t.etag # 0

TasksFit ==
  /\ flight \in [Workers -> [Slots -> Task \cup {Free}]]
  /\ \A w \in Workers, s \in Slots : flight[w][s] # Free => TaskFits(flight[w][s], best)

ClaimsFit ==
  txn \in [Workers -> [step : {"none", "chosen", "picked"}, expired : SUBSET Docs,
                       chosen : SUBSET Docs, picked : SUBSET Docs]]

PassFits ==
  \/ pass = [kind |-> "none", rows |-> {}]
  \/ \E rows \in SUBSET [doc : Docs, body : Body] : pass = [kind |-> "reparse", rows |-> rows]
  \/ \E rows \in SUBSET [doc : Docs, rung : Nat, error : ErrorClass, tried : SUBSET Nat] :
        pass = [kind |-> "plan", rows |-> rows]

TextsFit ==
  /\ best \in [Docs -> Version \cup {NoVersion}]
  /\ bodies \in [Docs -> SUBSET Body]
  /\ time \in [Docs -> Nat]

QueueInv == RowsFit /\ ValidatorsFit /\ TasksFit /\ ClaimsFit /\ PassFits /\ TextsFit

\* Nothing is queued at the start.
LEMMA QueueBegins == Init => QueueInv
<1> SUFFICES ASSUME Init PROVE QueueInv
  OBVIOUS
<1>1. RowsFit
  BY DEF Init, RowsFit, NoRow, Row, Status, ErrorClass
<1>2. ValidatorsFit /\ TasksFit /\ ClaimsFit /\ PassFits
  BY BoundsAssumption DEF Init, ValidatorsFit, TasksFit, ClaimsFit, PassFits, NoTxn, NoPass
<1>3. TextsFit
  BY DEF Init, TextsFit
<1>4. QED
  BY <1>1, <1>2, <1>3 DEF QueueInv

\* No document loses its text.
BestStays ==
  /\ best' \in [Docs -> Version \cup {NoVersion}]
  /\ \A d \in Docs : best[d] # NoVersion => best'[d] # NoVersion

\* What an insertion leaves: a complete version becomes a document's text at least
\* when it has none.
LEMMA InsertStep ==
  ASSUME TextsFit, NEW d \in Docs, NEW v \in Version, NEW complete \in BOOLEAN, NEW when,
         Insert(d, v, complete, when)
  PROVE  BestStays /\ (complete => best'[d] # NoVersion)
<1>1. v # NoVersion
  BY BoundsAssumption DEF Version, NoVersion, Content, Excerpt
<1>2. best' = best \/ best' = [best EXCEPT ![d] = v]
  BY DEF Insert
<1>3. complete /\ best[d] = NoVersion => best' = [best EXCEPT ![d] = v]
  BY DEF Insert
<1>4. QED
  BY <1>1, <1>2, <1>3 DEF BestStays, TextsFit

\* What a step leaves alone is as it was.
LEMMA PartsStay ==
  ASSUME QueueInv, BestStays
  PROVE  /\ UNCHANGED queue => RowsFit'
         /\ UNCHANGED validator => ValidatorsFit'
         /\ UNCHANGED flight => TasksFit'
         /\ UNCHANGED txn => ClaimsFit'
         /\ UNCHANGED pass => PassFits'
         /\ UNCHANGED <<bodies, time>> => TextsFit'
<1>1. UNCHANGED queue => RowsFit'
  BY DEF QueueInv, RowsFit, BestStays
<1>2. UNCHANGED validator => ValidatorsFit'
  BY DEF QueueInv, ValidatorsFit, BestStays
<1>3. UNCHANGED flight => TasksFit'
  <2> SUFFICES ASSUME UNCHANGED flight, NEW w \in Workers, NEW s \in Slots, flight[w][s] # Free
               PROVE  TaskFits(flight[w][s], best')
    BY DEF QueueInv, TasksFit
  <2>1. TaskFits(flight[w][s], best) /\ flight[w][s].doc \in Docs
    BY DEF QueueInv, TasksFit, TaskFits, Task
  <2>2. QED
    BY <2>1 DEF TaskFits, BestStays
<1>4. (UNCHANGED txn => ClaimsFit') /\ (UNCHANGED pass => PassFits')
  BY DEF QueueInv, ClaimsFit, PassFits
<1>5. UNCHANGED <<bodies, time>> => TextsFit'
  BY DEF QueueInv, TextsFit, BestStays
<1>6. QED
  BY <1>1, <1>2, <1>3, <1>4, <1>5

\* A row is written.
LEMMA RowStep ==
  ASSUME QueueInv, BestStays, NEW d \in Docs, NEW row \in Row,
         queue' = [queue EXCEPT ![d] = row], row.status = "succeeded" => best'[d] # NoVersion
  PROVE  RowsFit'
BY DEF QueueInv, RowsFit, BestStays

\* Rows are released or requeued.
LEMMA RowsReleased ==
  ASSUME NEW row \in Row
  PROVE  /\ Released(row) \in Row /\ Released(row).status = "retry"
         /\ Requeued(row) \in Row /\ Requeued(row).status = "retry"
<1>1. row.attempts \in Nat
  BY DEF Row
<1>2. (IF row.attempts > 0 THEN row.attempts - 1 ELSE 0) \in Nat
  BY <1>1
<1>3. Requeued(row) \in Row /\ Requeued(row).status = "retry"
  BY DEF Row, Requeued, Status
<1>4. Released(row) \in Row /\ Released(row).status = "retry"
  BY <1>2 DEF Row, Released, Status, ErrorClass
<1>5. QED
  BY <1>3, <1>4

\* What a claim reads of a row.
LEMMA RowOfClaim ==
  ASSUME QueueInv, NEW expired, NEW d \in Docs
  PROVE  /\ RowInClaim(expired, d) \in Row
         /\ RowInClaim(expired, d).status = "succeeded" => best[d] # NoVersion
BY RowsReleased DEF QueueInv, RowsFit, RowInClaim


\* A table of tasks, all of which fit.
LEMMA TasksStep ==
  ASSUME QueueInv, BestStays, NEW w \in Workers, NEW seats \in [Slots -> Task \cup {Free}],
         flight' = [flight EXCEPT ![w] = seats],
         \A s \in Slots : seats[s] # Free => TaskFits(seats[s], best')
  PROVE  TasksFit'
<1>1. flight \in [Workers -> [Slots -> Task \cup {Free}]]
  BY DEF QueueInv, TasksFit
<1>2. flight' \in [Workers -> [Slots -> Task \cup {Free}]]
  BY <1>1
<1>3. ASSUME NEW v \in Workers, NEW s \in Slots, flight'[v][s] # Free
      PROVE  TaskFits(flight'[v][s], best')
  <2>1. CASE v = w
    BY <1>1, <1>3, <2>1
  <2>2. CASE v # w
    <3>1. flight'[v][s] = flight[v][s]
      BY <1>1, <2>2
    <3>2. TaskFits(flight[v][s], best) /\ flight[v][s].doc \in Docs
      BY <1>3, <3>1 DEF QueueInv, TasksFit, TaskFits, Task
    <3>3. QED
      BY <3>1, <3>2 DEF TaskFits, BestStays
  <2>3. QED
    BY <2>1, <2>2
<1>4. QED
  BY <1>2, <1>3 DEF TasksFit

\* One slot of a worker changes.
LEMMA SlotStep ==
  ASSUME QueueInv, BestStays, NEW w \in Workers, NEW s \in Slots, NEW task \in Task \cup {Free},
         flight' = [flight EXCEPT ![w][s] = task], task # Free => TaskFits(task, best')
  PROVE  TasksFit'
<1> DEFINE seats == [flight[w] EXCEPT ![s] = task]
<1>1. flight \in [Workers -> [Slots -> Task \cup {Free}]]
  BY DEF QueueInv, TasksFit
<1>2. seats \in [Slots -> Task \cup {Free}] /\ flight' = [flight EXCEPT ![w] = seats]
  BY <1>1
<1>3. ASSUME NEW z \in Slots, seats[z] # Free PROVE TaskFits(seats[z], best')
  <2>1. CASE z = s
    BY <1>1, <1>3, <2>1
  <2>2. CASE z # s
    <3>1. seats[z] = flight[w][z]
      BY <1>1, <2>2
    <3>2. TaskFits(flight[w][z], best) /\ flight[w][z].doc \in Docs
      BY <1>3, <3>1 DEF QueueInv, TasksFit, TaskFits, Task
    <3>3. QED
      BY <3>1, <3>2 DEF TaskFits, BestStays
  <2>3. QED
    BY <2>1, <2>2
<1> HIDE DEF seats
<1>4. QED
  BY <1>2, <1>3, TasksStep

\* A claim gives a task of its own to each row.
LEMMA CommitStep ==
  ASSUME QueueInv, NEW w \in Workers, ClaimCommit(w)
  PROVE  QueueInv'
<1>1. BestStays
  BY DEF ClaimCommit, QueueInv, TextsFit, BestStays
<1>2. txn[w].picked \subseteq Docs
  BY DEF QueueInv, ClaimsFit
<1>3. ASSUME NEW row \in Row
      PROVE  /\ [row EXCEPT !.status = "running", !.attempts = @ + 1, !.lapsed = FALSE] \in Row
             /\ [row EXCEPT !.status = "running", !.attempts = @ + 1, !.lapsed = FALSE].status
                  = "running"
  <2>1. row.attempts + 1 \in Nat
    BY DEF Row
  <2>2. QED
    BY <2>1 DEF Row, Status
<1>4. RowsFit'
  <2>1. queue' = [d \in Docs |->
          IF d \in txn[w].picked
          THEN [RowInClaim(txn[w].expired, d) EXCEPT !.status = "running", !.attempts = @ + 1, !.lapsed = FALSE]
          ELSE RowInClaim(txn[w].expired, d)]
    BY DEF ClaimCommit
  <2>2. ASSUME NEW d \in Docs
        PROVE  queue'[d] \in Row /\ (queue'[d].status = "succeeded" => best[d] # NoVersion)
    <3>1. /\ RowInClaim(txn[w].expired, d) \in Row
          /\ RowInClaim(txn[w].expired, d).status = "succeeded" => best[d] # NoVersion
      BY RowOfClaim
    <3>2. CASE d \in txn[w].picked
      <4>1. /\ [RowInClaim(txn[w].expired, d) EXCEPT !.status = "running", !.attempts = @ + 1, !.lapsed = FALSE] \in Row
            /\ [RowInClaim(txn[w].expired, d) EXCEPT !.status = "running", !.attempts = @ + 1, !.lapsed = FALSE].status
                 = "running"
        BY <1>3, <3>1
      <4>2. queue'[d] \in Row /\ queue'[d].status = "running"
        BY <2>1, <3>2, <4>1
      <4>3. QED
        BY <4>2
    <3>3. CASE d \notin txn[w].picked
      BY <2>1, <3>1, <3>3
    <3>4. QED
      BY <3>2, <3>3
  <2>3. queue' \in [Docs -> Row]
    <3>1. queue' = [d \in Docs |-> queue'[d]]
      BY <2>1
    <3>2. QED
      BY <2>2, <3>1
  <2>4. QED
    BY <1>1, <2>2, <2>3 DEF RowsFit, BestStays
<1>5. ClaimsFit'
  BY DEF ClaimCommit, QueueInv, ClaimsFit, NoTxn
<1>6. TasksFit'
  <2> DEFINE task(d) == [doc |-> d, attempts |-> queue'[d].attempts, etag |-> validator[d],
                         override |-> queue[d].override, result |-> "open",
                         edition |-> 0, at |-> 0]
  <2>1. PICK seat \in [txn[w].picked -> FreeSlots(w)] :
          flight' = [flight EXCEPT ![w] = [s \in Slots |->
                IF \E d \in txn[w].picked : seat[d] = s
                THEN task(CHOOSE d \in txn[w].picked : seat[d] = s)
                ELSE flight[w][s]]]
    BY DEF ClaimCommit
  <2> DEFINE seats == [s \in Slots |-> IF \E d \in txn[w].picked : seat[d] = s
                                       THEN task(CHOOSE d \in txn[w].picked : seat[d] = s)
                                       ELSE flight[w][s]]
  <2>2. ASSUME NEW d \in Docs PROVE task(d) \in Task /\ TaskFits(task(d), best')
    <3> DEFINE t == task(d)
    <3>1. queue[d] \in Row /\ queue'[d] \in Row /\ validator[d] \in 0..MaxEdition
      BY <1>4 DEF QueueInv, RowsFit, ValidatorsFit
    <3>2. t \in Task
      BY <3>1, BoundsAssumption DEF Task, Row, Result
    <3>3. t.etag # 0 => best'[t.doc] # NoVersion
      BY <1>1 DEF QueueInv, ValidatorsFit, BestStays
    <3>4. t.result = "open"
      OBVIOUS
    <3> HIDE DEF t
    <3>5. TaskFits(t, best')
      BY <3>2, <3>3, <3>4 DEF TaskFits, HasBody
    <3>6. QED
      BY <3>2, <3>5 DEF t
  <2> HIDE DEF task
  <2>3. ASSUME NEW s \in Slots
        PROVE  seats[s] \in Task \cup {Free} /\ (seats[s] # Free => TaskFits(seats[s], best'))
    <3>0. flight \in [Workers -> [Slots -> Task \cup {Free}]]
      BY DEF QueueInv, TasksFit
    <3>1. CASE \E d \in txn[w].picked : seat[d] = s
      <4> DEFINE d == CHOOSE d \in txn[w].picked : seat[d] = s
      <4>1. d \in Docs
        BY <1>2, <3>1
      <4>2. seats[s] = task(d)
        BY <3>1
      <4> HIDE DEF d, seats
      <4>3. QED
        BY <2>2, <4>1, <4>2
    <3>2. CASE ~\E d \in txn[w].picked : seat[d] = s
      <4>1. seats[s] = flight[w][s]
        BY <3>2
      <4>2. flight[w][s] # Free => TaskFits(flight[w][s], best) /\ flight[w][s].doc \in Docs
        BY DEF QueueInv, TasksFit, TaskFits, Task
      <4>3. flight[w][s] # Free => TaskFits(flight[w][s], best')
        BY <1>1, <4>2 DEF TaskFits, BestStays
      <4> HIDE DEF seats
      <4>4. QED
        BY <3>0, <4>1, <4>3
    <3>3. QED
      BY <3>1, <3>2
  <2>4. seats \in [Slots -> Task \cup {Free}]
    <3>1. \A s \in Slots : seats[s] \in Task \cup {Free}
      BY <2>3
    <3>2. QED
      BY <3>1
  <2>5. flight' = [flight EXCEPT ![w] = seats]
    BY <2>1
  <2> HIDE DEF seats
  <2>6. QED
    BY <1>1, <2>3, <2>4, <2>5, TasksStep
<1>7. UNCHANGED <<validator, pass, bodies, time>>
  BY DEF ClaimCommit, world
<1>8. QED
  BY <1>1, <1>4, <1>5, <1>6, <1>7, PartsStay DEF QueueInv

\* What a claim chose is queued.
LEMMA ReadStep ==
  ASSUME QueueInv, NEW w \in Workers, ClaimRead(w) \/ ClaimLock(w)
  PROVE  QueueInv'
<1>1. BestStays
  BY DEF ClaimRead, ClaimLock, tables, QueueInv, TextsFit, BestStays
<1>2. ClaimsFit'
  <2>1. CASE ClaimRead(w)
    <3>1. PICK expired \in SUBSET Docs, chosen \in SUBSET Docs :
            txn' = [txn EXCEPT ![w] = [step |-> "chosen", expired |-> expired,
                                       chosen |-> chosen, picked |-> {}]]
      BY <2>1 DEF ClaimRead
    <3>2. QED
      BY <3>1 DEF QueueInv, ClaimsFit
  <2>2. CASE ClaimLock(w)
    <3>1. PICK others :
            txn' = [txn EXCEPT ![w].step = "picked", ![w].picked = txn[w].chosen \ others]
      BY <2>2 DEF ClaimLock
    <3>2. txn[w].chosen \ others \in SUBSET Docs
      BY DEF QueueInv, ClaimsFit
    <3>3. QED
      BY <3>1, <3>2 DEF QueueInv, ClaimsFit
  <2>3. QED
    BY <2>1, <2>2
<1>3. UNCHANGED <<queue, validator, flight, pass, bodies, time>>
  BY DEF ClaimRead, ClaimLock, tables, world
<1>4. QED
  BY <1>1, <1>2, <1>3, PartsStay DEF QueueInv

\* A site answers.
LEMMA DownloadStep ==
  ASSUME QueueInv, NEW w \in Workers, NEW s \in Slots, Download(w, s)
  PROVE  QueueInv'
<1>1. BestStays
  BY DEF Download, tables, QueueInv, TextsFit, BestStays
<1> DEFINE task == flight[w][s]
           d == task.doc
<1>2. task \in Task /\ TaskFits(task, best) /\ d \in Docs /\ task.result = "open"
  BY DEF Download, QueueInv, TasksFit, Task
<1>E. PICK edition \in DOMAIN Parse[d] : \E t \in PageAnswer(task, edition) :
        /\ flight' = [flight EXCEPT ![w][s] = t]
        /\ time' = [time EXCEPT ![d] = IF t.result \in HasBody THEN @ + 1 ELSE @]
  BY DEF Download
<1>3. PICK t \in PageAnswer(task, edition) :
        /\ flight' = [flight EXCEPT ![w][s] = t]
        /\ time' = [time EXCEPT ![d] = IF t.result \in HasBody THEN @ + 1 ELSE @]
  BY <1>E
<1>4. edition \in 1..MaxEdition /\ Parse[d][edition] \in {"complete", "partial", "unreadable"}
  BY <1>2, <1>E, ParseAssumption
<1>5. time[d] \in Nat /\ 2 * (time[d] + 1) \in Nat
  BY <1>2 DEF QueueInv, TextsFit
<1>6. MaxEdition \in Nat
  BY BoundsAssumption
<1> HIDE DEF task
<1>7. t \in Task /\ TaskFits(t, best)
  <2>0. /\ edition \in 0..MaxEdition /\ edition # 0 /\ task.edition \in 0..MaxEdition
        /\ task.etag \in 0..MaxEdition
    BY <1>2, <1>4, <1>6 DEF Task
  <2>1. CASE t = [task EXCEPT !.result = Parse[d][edition], !.edition = edition, !.at = 2 * (time[d] + 1)]
    BY <1>2, <1>4, <1>5, <2>0, <2>1 DEF Task, Result, TaskFits, HasBody, Edition
  <2>2. CASE t = [task EXCEPT !.result = "transient"] \/ t = [task EXCEPT !.result = "ended"]
             \/ t = [task EXCEPT !.result = "refused"]
    BY <1>2, <2>2 DEF Task, Result, TaskFits, HasBody
  <2>3. CASE t = [task EXCEPT !.result = "unchanged"] /\ task.etag = edition
    BY <1>2, <2>0, <2>3 DEF Task, Result, TaskFits, HasBody
  <2>4. QED
    BY <1>3, <2>1, <2>2, <2>3 DEF PageAnswer
<1>8. TaskFits(t, best')
  BY <1>1, <1>7 DEF TaskFits, BestStays, Task
<1>9. TasksFit'
  BY <1>1, <1>3, <1>7, <1>8, SlotStep
<1>10. UNCHANGED <<queue, best, bodies, validator, txn, pass>>
  BY DEF Download, tables
<1>11. TextsFit'
  <2>1. PICK n \in Nat : time' = [time EXCEPT ![d] = n]
    <3>1. time[d] + 1 \in Nat
      BY <1>5
    <3>2. time' = [time EXCEPT ![d] = time[d] + 1] \/ time' = [time EXCEPT ![d] = time[d]]
      BY <1>3
    <3>3. QED
      BY <1>5, <3>1, <3>2
  <2>2. time' \in [Docs -> Nat]
    BY <2>1 DEF QueueInv, TextsFit
  <2>3. QED
    BY <1>10, <2>2 DEF QueueInv, TextsFit
<1>12. QED
  BY <1>1, <1>9, <1>10, <1>11, PartsStay DEF QueueInv

\* A result is recorded: success comes with a text, or for a text that was known.
LEMMA RecordStep ==
  ASSUME QueueInv, NEW w \in Workers, NEW s \in Slots, Record(w, s)
  PROVE  QueueInv'
<1> DEFINE t == flight[w][s]
           d == t.doc
           row == [queue[d] EXCEPT !.status = NextStatus(t), !.due = (NextStatus(t) # "retry"),
                                   !.lapsed = FALSE, !.error = ErrorOf(t)]
<1>1. t \in Task /\ TaskFits(t, best) /\ d \in Docs /\ MaxEdition \in Nat
  BY BoundsAssumption DEF Record, QueueInv, TasksFit, Task
<1>2. BestStays /\ (t.result \in {"complete", "unchanged"} => best'[d] # NoVersion)
  <2>1. CASE t.result \in {"complete", "partial"}
    <3>1. [edition |-> t.edition, release |-> 0] \in Version
      <4>1. t.edition \in 1..MaxEdition
        BY <1>1, <2>1 DEF TaskFits, HasBody, Edition
      <4>2. t.edition \in Content
        BY <1>1, <4>1 DEF Content, Excerpt
      <4>3. QED
        BY <4>2 DEF Version, ParserRelease
    <3>2. Insert(d, [edition |-> t.edition, release |-> 0], t.result = "complete", t.at)
      BY <2>1 DEF Record
    <3>3. BestStays /\ ((t.result = "complete") => best'[d] # NoVersion)
      <4>1. TextsFit
        BY DEF QueueInv
      <4>2. (t.result = "complete") \in BOOLEAN
        OBVIOUS
      <4> HIDE DEF d, t
      <4>3. QED
        BY <1>1, <3>1, <3>2, <4>1, <4>2, InsertStep
    <3>4. QED
      BY <2>1, <3>3
  <2>2. CASE t.result \notin {"complete", "partial"}
    <3>1. best' = best
      BY <2>2 DEF Record
    <3>2. t.result = "unchanged" => best[d] # NoVersion
      BY <1>1 DEF TaskFits
    <3>3. QED
      BY <2>2, <3>1, <3>2 DEF BestStays, QueueInv, TextsFit
  <2>3. QED
    BY <2>1, <2>2
<1>3. RowsFit'
  <2>1. /\ queue[d] \in Row /\ NextStatus(t) \in Status /\ ErrorOf(t) \in ErrorClass
        /\ NextStatus(t) = "succeeded" => t.result \in {"complete", "unchanged"}
        /\ (NextStatus(t) # "retry") \in BOOLEAN
    BY <1>1 DEF QueueInv, RowsFit, NextStatus, ErrorOf, Status, ErrorClass
  <2>2. queue' = [queue EXCEPT ![d] = row]
    <3>1. queue' = [queue EXCEPT ![d].status = NextStatus(t), ![d].due = (NextStatus(t) # "retry"),
                                 ![d].lapsed = FALSE, ![d].error = ErrorOf(t)]
      BY DEF Record
    <3>2. queue \in [Docs -> Row]
      BY DEF QueueInv, RowsFit
    <3> HIDE DEF d, t
    <3>3. QED
      BY <1>1, <3>1, <3>2
  <2>3. row \in Row /\ row.status = NextStatus(t)
    <3> HIDE DEF d, t
    <3>1. QED
      BY <2>1 DEF Row
  <2> HIDE DEF row, d, t
  <2>4. QED
    BY <1>1, <1>2, <2>1, <2>2, <2>3, RowStep
<1>4. ValidatorsFit'
  <2>1. \/ validator' = validator
        \/ t.result = "complete" /\ validator' = [validator EXCEPT ![d] = t.edition]
        \/ t.result = "unchanged" /\ validator' = [validator EXCEPT ![d] = t.etag]
    BY DEF Record
  <2>2. t.edition \in 0..MaxEdition /\ t.etag \in 0..MaxEdition
    BY <1>1 DEF Task
  <2> HIDE DEF d, t
  <2>3. QED
    BY <1>1, <1>2, <2>1, <2>2 DEF QueueInv, ValidatorsFit, BestStays
<1>5. TasksFit'
  <2>1. flight' = [flight EXCEPT ![w][s] = Free]
    BY DEF Record
  <2>2. QED
    BY <1>2, <2>1, SlotStep
<1>6. TextsFit'
  <2>1. 2 * time[d] + 1 \in Nat
    BY <1>1 DEF QueueInv, TextsFit
  <2>2. bodies' = bodies \/ (t.result \in HasBody /\ bodies' = [bodies EXCEPT ![d] = @ \cup
                               {[edition |-> t.edition, finished |-> 2 * time[d] + 1]}])
    BY DEF Record
  <2>3. t.result \in HasBody => [edition |-> t.edition, finished |-> 2 * time[d] + 1] \in Body
    BY <1>1, <2>1 DEF TaskFits, Body
  <2> HIDE DEF d, t
  <2>4. bodies' \in [Docs -> SUBSET Body]
    BY <1>1, <2>2, <2>3 DEF QueueInv, TextsFit
  <2>5. QED
    BY <1>2, <2>4 DEF Record, world, QueueInv, TextsFit, BestStays
<1>7. UNCHANGED <<txn, pass>>
  BY DEF Record
<1>8. QED
  BY <1>2, <1>3, <1>4, <1>5, <1>6, <1>7, PartsStay DEF QueueInv

\* Rows are rewritten while texts, tasks, claims and the pass stay.
LEMMA RewriteStep ==
  ASSUME QueueInv, UNCHANGED <<best, validator, flight, txn, pass, bodies, time>>, RowsFit'
  PROVE  QueueInv'
<1>1. BestStays
  BY DEF QueueInv, TextsFit, BestStays
<1>2. QED
  BY <1>1, PartsStay DEF QueueInv

\* Time passes, workers die.
LEMMA ClockStep ==
  ASSUME QueueInv, \/ \E d \in Docs : BecomeDue(d) \/ LeaseEnds(d)
                   \/ \E w \in Workers : WorkerDies(w)
  PROVE  QueueInv'
<1>0. BestStays \/ best' # best
  BY DEF QueueInv, TextsFit, BestStays
<1>1. ASSUME NEW d \in Docs, BecomeDue(d) \/ LeaseEnds(d) PROVE QueueInv'
  <2>0. queue \in [Docs -> Row]
    BY DEF QueueInv, RowsFit
  <2>1. PICK row \in Row : queue' = [queue EXCEPT ![d] = row] /\ row.status = queue[d].status
    <3>1. CASE BecomeDue(d)
      <4>1. [queue[d] EXCEPT !.due = TRUE] \in Row /\ [queue[d] EXCEPT !.due = TRUE].status = queue[d].status
        BY <2>0 DEF Row
      <4>2. queue' = [queue EXCEPT ![d] = [queue[d] EXCEPT !.due = TRUE]]
        BY <3>1 DEF BecomeDue
      <4>3. QED
        BY <4>1, <4>2
    <3>2. CASE LeaseEnds(d)
      <4>1. [queue[d] EXCEPT !.lapsed = TRUE] \in Row /\ [queue[d] EXCEPT !.lapsed = TRUE].status = queue[d].status
        BY <2>0 DEF Row
      <4>2. queue' = [queue EXCEPT ![d] = [queue[d] EXCEPT !.lapsed = TRUE]]
        BY <3>2 DEF LeaseEnds
      <4>3. QED
        BY <4>1, <4>2
    <3>3. QED
      BY <1>1, <3>1, <3>2
  <2>2. UNCHANGED <<best, validator, flight, txn, pass, bodies, time>>
    BY <1>1 DEF BecomeDue, LeaseEnds, world
  <2>3. queue[d].status = "succeeded" => best'[d] # NoVersion
    BY <2>2 DEF QueueInv, RowsFit
  <2>4. RowsFit'
    BY <1>0, <2>1, <2>2, <2>3, RowStep
  <2>5. QED
    BY <2>2, <2>4, RewriteStep
<1>2. ASSUME NEW w \in Workers, WorkerDies(w) PROVE QueueInv'
  <2>1. UNCHANGED <<queue, best, bodies, validator, pass, time>>
    BY <1>2 DEF WorkerDies, tables, world
  <2>2. ClaimsFit'
    BY <1>2 DEF WorkerDies, QueueInv, ClaimsFit, NoTxn
  <2>3. TasksFit'
    <3>1. flight' = [flight EXCEPT ![w] = [s \in Slots |-> Free]]
      BY <1>2 DEF WorkerDies
    <3> DEFINE seats == [s \in Slots |-> Free]
    <3>2. seats \in [Slots -> Task \cup {Free}] /\ \A s \in Slots : seats[s] = Free
      OBVIOUS
    <3>3. BestStays
      BY <1>0, <2>1
    <3> HIDE DEF seats
    <3>4. flight' = [flight EXCEPT ![w] = seats]
      BY <3>1 DEF seats
    <3>5. QED
      BY <3>2, <3>3, <3>4, TasksStep
  <2>4. QED
    BY <1>0, <2>1, <2>2, <2>3, PartsStay DEF QueueInv
<1>3. QED
  BY <1>1, <1>2

\* Commands that rewrite rows.
LEMMA CommandStep ==
  ASSUME QueueInv,
         \/ \E d \in Docs, high \in BOOLEAN : Import({d}, high)
         \/ \E codes \in SUBSET ErrorClass : RequeueFailed(codes)
         \/ \E override, requeue \in BOOLEAN : PreparePerimeter(override, requeue)
  PROVE  QueueInv'
<1>0. queue \in [Docs -> Row] /\ \A d \in Docs : queue[d].status = "succeeded" => best[d] # NoVersion
  BY DEF QueueInv, RowsFit
<1>1. UNCHANGED <<best, validator, flight, txn, pass, bodies, time>>
  BY DEF Import, RequeueFailed, PreparePerimeter, Keep, world
<1>2. ASSUME NEW rows, queue' = [d \in Docs |-> rows[d]],
             \A d \in Docs : rows[d] \in Row /\ (rows[d].status = "succeeded" => best[d] # NoVersion)
      PROVE  QueueInv'
  <2>1. RowsFit'
    BY <1>1, <1>2 DEF RowsFit
  <2>2. QED
    BY <1>1, <2>1, RewriteStep
<1>3. ASSUME NEW docs, NEW high \in BOOLEAN, Import(docs, high) PROVE QueueInv'
  <2> DEFINE new == [NoRow EXCEPT !.status = "pending", !.high = high]
             rows == [d \in Docs |-> IF d \in docs /\ queue[d].status = "none" THEN new ELSE queue[d]]
  <2>1. new \in Row /\ new.status = "pending"
    BY DEF Row, NoRow, Status, ErrorClass
  <2>2. queue' = rows
    BY <1>3 DEF Import
  <2> HIDE DEF new
  <2>3. \A d \in Docs : rows[d] \in Row /\ (rows[d].status = "succeeded" => best[d] # NoVersion)
    BY <1>0, <2>1
  <2>4. queue' = [d \in Docs |-> rows[d]]
    BY <2>2
  <2> HIDE DEF rows
  <2>5. QED
    BY <1>2, <2>3, <2>4
<1>4. ASSUME NEW codes, RequeueFailed(codes) PROVE QueueInv'
  <2> DEFINE rows == [d \in Docs |-> IF queue[d].status = "failed" /\ queue[d].error \in codes
                                     THEN Requeued(queue[d]) ELSE queue[d]]
  <2>1. queue' = rows
    BY <1>4 DEF RequeueFailed
  <2>2. \A d \in Docs : rows[d] \in Row /\ (rows[d].status = "succeeded" => best[d] # NoVersion)
    BY <1>0, RowsReleased
  <2>3. queue' = [d \in Docs |-> rows[d]]
    BY <2>1
  <2> HIDE DEF rows
  <2>4. QED
    BY <1>2, <2>2, <2>3
<1>5. ASSUME NEW override \in BOOLEAN, NEW requeue \in BOOLEAN, PreparePerimeter(override, requeue)
      PROVE  QueueInv'
  <2> DEFINE Marked(d) == [queue[d] EXCEPT !.high = TRUE,
                                           !.override = @ \/ (override /\ best[d] = NoVersion)]
             Prepared(d) == IF requeue /\ best[d] = NoVersion /\ Marked(d).status = "failed"
                            THEN Requeued(Marked(d)) ELSE Marked(d)
             rows == [d \in Docs |-> IF d \in Perimeter /\ queue[d].status # "none"
                                     THEN Prepared(d) ELSE queue[d]]
  <2>1. queue' = rows
    BY <1>5 DEF PreparePerimeter
  <2>2. ASSUME NEW d \in Docs PROVE Marked(d) \in Row /\ Marked(d).status = queue[d].status
    <3>1. queue[d] \in Row
      BY <1>0
    <3>2. (queue[d].override \/ (override /\ best[d] = NoVersion)) \in BOOLEAN
      OBVIOUS
    <3>3. QED
      BY <3>1, <3>2 DEF Row
  <2> HIDE DEF Marked
  <2>3. ASSUME NEW d \in Docs
        PROVE  rows[d] \in Row /\ (rows[d].status = "succeeded" => best[d] # NoVersion)
    <3>1. Prepared(d) \in Row /\ (Prepared(d).status = "succeeded" => best[d] # NoVersion)
      BY <1>0, <2>2, RowsReleased
    <3>2. QED
      BY <1>0, <3>1
  <2>4. queue' = [d \in Docs |-> rows[d]]
    BY <2>1
  <2> HIDE DEF rows
  <2>5. QED
    BY <1>2, <2>3, <2>4
<1>6. QED
  BY <1>3, <1>4, <1>5

\* Versions are stored by commands and by a re-parse.
LEMMA StoreStep ==
  ASSUME QueueInv,
         \/ \E d \in Docs, complete \in BOOLEAN : \E moment \in {0, 2 * time[d] + 1} :
               StoreArtifact(d, complete, moment)
         \/ \E d \in Docs, taken \in {Snapshot, Excerpt}, complete \in BOOLEAN :
               StoreCached(d, taken, complete)
         \/ \E r \in pass.rows, release \in ParserRelease : Reparse(r, release)
  PROVE  QueueInv'
<1>0. queue \in [Docs -> Row] /\ TextsFit /\ MaxEdition \in Nat
  BY BoundsAssumption DEF QueueInv, RowsFit
<1>1. {Artifact, Snapshot, Excerpt} \subseteq Content /\ Edition \subseteq Content
  BY <1>0 DEF Artifact, Snapshot, Excerpt, Content, Edition
<1>2. ASSUME NEW d \in Docs, NEW complete \in BOOLEAN, NEW moment, StoreArtifact(d, complete, moment)
      PROVE  QueueInv'
  <2>1. [edition |-> Artifact, release |-> 0] \in Version
    BY <1>1 DEF Version, ParserRelease
  <2>2. BestStays /\ (complete => best'[d] # NoVersion)
    BY <1>0, <1>2, <2>1, InsertStep DEF StoreArtifact
  <2>3. UNCHANGED <<bodies, validator, pass, txn, flight, time>>
    BY <1>2 DEF StoreArtifact, Keep, world
  <2>4. CASE queue' = queue
    BY <2>2, <2>3, <2>4, PartsStay DEF QueueInv
  <2>5. CASE complete /\ queue' = [queue EXCEPT ![d].status = "succeeded", ![d].lapsed = FALSE]
    <3> DEFINE row == [queue[d] EXCEPT !.status = "succeeded", !.lapsed = FALSE]
    <3>1. row \in Row
      BY <1>0 DEF Row, Status
    <3>2. queue' = [queue EXCEPT ![d] = row]
      BY <1>0, <2>5
    <3> HIDE DEF row
    <3>3. RowsFit'
      BY <2>2, <2>5, <3>1, <3>2, RowStep
    <3>4. QED
      BY <2>2, <2>3, <3>3, PartsStay DEF QueueInv
  <2>6. QED
    BY <1>2, <2>4, <2>5 DEF StoreArtifact
<1>3. ASSUME NEW d \in Docs, NEW taken \in {Snapshot, Excerpt}, NEW complete \in BOOLEAN,
             StoreCached(d, taken, complete)
      PROVE  QueueInv'
  <2>1. [edition |-> taken, release |-> 0] \in Version
    BY <1>1 DEF Version, ParserRelease
  <2>2. BestStays
    BY <1>0, <1>3, <2>1, InsertStep DEF StoreCached
  <2>3. UNCHANGED <<queue, validator, pass, txn, flight, time>>
    BY <1>3 DEF StoreCached, Keep, world
  <2>4. TextsFit'
    <3>1. [edition |-> Snapshot, finished |-> 0] \in Body
      BY DEF Body
    <3>2. bodies' \in [Docs -> SUBSET Body]
      BY <1>0, <1>3, <3>1 DEF StoreCached, TextsFit
    <3>3. QED
      BY <1>0, <2>2, <2>3, <3>2 DEF TextsFit, BestStays
  <2>5. QED
    BY <2>2, <2>3, <2>4, PartsStay DEF QueueInv
<1>4. ASSUME NEW r \in pass.rows, NEW release \in ParserRelease, Reparse(r, release) PROVE QueueInv'
  <2>1. pass.kind = "reparse"
    BY <1>4 DEF Reparse
  <2>2. PICK rows \in SUBSET [doc : Docs, body : Body] : pass = [kind |-> "reparse", rows |-> rows]
    BY <2>1 DEF QueueInv, PassFits
  <2>3. r \in [doc : Docs, body : Body]
    BY <2>2
  <2> DEFINE d == r.doc
  <2>4. d \in Docs /\ [edition |-> r.body.edition, release |-> release] \in Version
    BY <1>1, <2>3 DEF Body, Version
  <2>5. BestStays /\ best'[d] # NoVersion
    <3>1. Insert(d, [edition |-> r.body.edition, release |-> release], TRUE, r.body.finished)
      BY <1>4 DEF Reparse
    <3>2. TRUE \in BOOLEAN
      OBVIOUS
    <3> HIDE DEF d
    <3>3. BestStays /\ (TRUE => best'[d] # NoVersion)
      BY <1>0, <2>4, <3>1, <3>2, InsertStep
    <3>4. QED
      BY <3>3
  <2>6. UNCHANGED <<bodies, validator, txn, flight, time>>
    BY <1>4 DEF Reparse, Keep, world
  <2>7. PassFits'
    <3>1. pass' = [kind |-> "reparse", rows |-> rows \ {r}]
      BY <1>4, <2>2 DEF Reparse
    <3>2. QED
      BY <3>1 DEF PassFits
  <2>8. RowsFit'
    <3>1. CASE queue' = queue
      BY <2>5, <3>1, PartsStay
    <3>2. CASE queue' = [queue EXCEPT ![d].status = "succeeded", ![d].error = "none", ![d].due = TRUE]
      <4> DEFINE row == [queue[d] EXCEPT !.status = "succeeded", !.error = "none", !.due = TRUE]
      <4> HIDE DEF d
      <4>1. row \in Row
        BY <1>0, <2>4 DEF Row, Status, ErrorClass
      <4>2. queue' = [queue EXCEPT ![d] = row]
        BY <1>0, <2>4, <3>2
      <4> HIDE DEF row
      <4>3. QED
        BY <2>4, <2>5, <4>1, <4>2, RowStep
    <3>3. QED
      BY <1>4, <3>1, <3>2 DEF Reparse
  <2>9. QED
    BY <2>5, <2>6, <2>7, <2>8, PartsStay DEF QueueInv
<1>5. QED
  BY <1>2, <1>3, <1>4

\* Passes read their rows; a plan writes them one by one.
LEMMA PassStep ==
  ASSUME QueueInv, ReparseRead \/ PlanRead \/ PassEnds \/ \E r \in pass.rows : PlanTerminal(r) \/ Escalate(r)
  PROVE  QueueInv'
<1>0. queue \in [Docs -> Row] /\ UNCHANGED <<best, bodies, validator, txn, flight, time>>
  <2>1. queue \in [Docs -> Row]
    BY DEF QueueInv, RowsFit
  <2>2. CASE ReparseRead \/ PlanRead \/ PassEnds
    BY <2>1, <2>2 DEF ReparseRead, PlanRead, PassEnds, Keep, tables, world
  <2>3. ASSUME NEW r \in pass.rows, PlanTerminal(r) \/ Escalate(r)
        PROVE  UNCHANGED <<best, bodies, validator, txn, flight, time>>
    BY <2>3 DEF PlanTerminal, Escalate, Keep, world
  <2>4. QED
    BY <2>1, <2>2, <2>3
<1>1. BestStays
  BY <1>0 DEF QueueInv, TextsFit, BestStays
<1>2. CASE ReparseRead \/ PlanRead \/ PassEnds
  <2>1. UNCHANGED queue
    BY <1>2 DEF ReparseRead, PlanRead, PassEnds, tables
  <2>2. PassFits'
    <3>1. CASE ReparseRead
      <4>1. \A d \in Docs : bodies[d] \subseteq Body
        BY DEF QueueInv, TextsFit
      <4>2. [doc : Docs, body : UNION {bodies[d] : d \in Docs}] \subseteq [doc : Docs, body : Body]
        BY <4>1
      <4> DEFINE Newest(d, b) == \A c \in bodies[d] : c.edition = b.edition => c.finished <= b.finished
                 gaps == {[doc |-> d, body |-> b] : d \in {d \in Perimeter : best[d] = NoVersion},
                                                    b \in UNION {bodies[d] : d \in Docs}}
                 retained == {r \in [doc : Docs, body : UNION {bodies[d] : d \in Docs}] :
                                r.body \in bodies[r.doc] /\ Newest(r.doc, r.body)}
      <4>3. pass' = [kind |-> "reparse", rows |-> gaps \cap retained]
        BY <3>1 DEF ReparseRead
      <4>4. retained \subseteq [doc : Docs, body : UNION {bodies[d] : d \in Docs}]
        OBVIOUS
      <4> HIDE DEF gaps, retained
      <4>5. PICK rows \in SUBSET [doc : Docs, body : Body] : pass' = [kind |-> "reparse", rows |-> rows]
        BY <4>2, <4>3, <4>4
      <4>6. QED
        BY <4>5 DEF PassFits
    <3>2. CASE PlanRead
      <4> DEFINE rows == {[doc |-> d, rung |-> queue[d].rung, error |-> queue[d].error,
                           tried |-> queue[d].tried \cup {queue[d].rung}] :
                          d \in {d \in Docs : /\ queue[d].status # "none"
                                              /\ ~queue[d].terminal /\ Incomplete(d)}}
      <4>1. pass' = [kind |-> "plan", rows |-> rows]
        BY <3>2 DEF PlanRead
      <4>2. rows \in SUBSET [doc : Docs, rung : Nat, error : ErrorClass, tried : SUBSET Nat]
        BY <1>0 DEF Row
      <4> HIDE DEF rows
      <4>3. QED
        BY <4>1, <4>2 DEF PassFits
    <3>3. CASE PassEnds
      BY <3>3 DEF PassEnds, NoPass, PassFits
    <3>4. QED
      BY <1>2, <3>1, <3>2, <3>3
  <2>3. QED
    BY <1>0, <1>1, <2>1, <2>2, PartsStay DEF QueueInv
<1>3. ASSUME NEW r \in pass.rows, PlanTerminal(r) \/ Escalate(r) PROVE QueueInv'
  <2>1. PICK rows \in SUBSET [doc : Docs, rung : Nat, error : ErrorClass, tried : SUBSET Nat] :
           pass = [kind |-> "plan", rows |-> rows]
    <3>1. pass.kind = "plan"
      BY <1>3 DEF PlanTerminal, Escalate
    <3>2. QED
      BY <3>1 DEF QueueInv, PassFits
  <2>2. r.doc \in Docs /\ r.tried \subseteq Nat
    BY <2>1
  <2>3. PassFits'
    <3>1. pass' = [kind |-> "plan", rows |-> rows \ {r}]
      BY <1>3, <2>1 DEF PlanTerminal, Escalate
    <3>2. QED
      BY <3>1 DEF PassFits
  <2>4. RowsFit'
    <3>1. CASE PlanTerminal(r)
      <4> DEFINE row == [queue[r.doc] EXCEPT !.tried = r.tried, !.terminal = TRUE]
      <4>0. queue[r.doc] \in Row /\ r.tried \in SUBSET Nat
        BY <1>0, <2>2
      <4>1. row \in Row /\ row.status = queue[r.doc].status
        BY <4>0 DEF Row
      <4>2. queue' = [queue EXCEPT ![r.doc] = row]
        BY <1>0, <2>2, <3>1 DEF PlanTerminal
      <4>3. queue[r.doc].status = "succeeded" => best'[r.doc] # NoVersion
        BY <1>0, <2>2 DEF QueueInv, RowsFit
      <4> HIDE DEF row
      <4>4. QED
        BY <1>1, <2>2, <4>1, <4>2, <4>3, RowStep
    <3>2. CASE Escalate(r)
      <4>1. PICK rung \in (1..MaxRung) \ r.tried :
              queue' = [queue EXCEPT ![r.doc].rung = rung, ![r.doc].tried = r.tried,
                                     ![r.doc].status = "retry", ![r.doc].due = TRUE]
        BY <3>2 DEF Escalate
      <4> DEFINE row == [queue[r.doc] EXCEPT !.rung = rung, !.tried = r.tried,
                                             !.status = "retry", !.due = TRUE]
      <4>2. rung \in Nat
        BY <4>1, BoundsAssumption
      <4>0. queue[r.doc] \in Row /\ r.tried \in SUBSET Nat
        BY <1>0, <2>2
      <4>3. row \in Row /\ row.status = "retry"
        BY <4>0, <4>2 DEF Row, Status
      <4>4. queue' = [queue EXCEPT ![r.doc] = row]
        BY <1>0, <2>2, <4>1
      <4> HIDE DEF row
      <4>5. QED
        BY <1>1, <2>2, <4>3, <4>4, RowStep
    <3>3. QED
      BY <1>3, <3>1, <3>2
  <2>5. QED
    BY <1>0, <1>1, <2>3, <2>4, PartsStay DEF QueueInv
<1>4. QED
  BY <1>2, <1>3

\* Every step of the queue keeps it.
LEMMA QueueStep == QueueInv /\ [Next]_vars => QueueInv'
<1> SUFFICES ASSUME QueueInv, [Next]_vars PROVE QueueInv'
  OBVIOUS
<1>1. CASE UNCHANGED vars
  <2>1. RowsFit'
    BY <1>1 DEF vars, tables, QueueInv, RowsFit
  <2>2. QED
    BY <1>1, <2>1, RewriteStep DEF vars, tables, world
<1>2. CASE \E w \in Workers : Claim(w)
  BY <1>2, ReadStep, CommitStep DEF Claim
<1>3. CASE \E w \in Workers, s \in Slots : Download(w, s) \/ Record(w, s)
  BY <1>3, DownloadStep, RecordStep
<1>4. CASE (\E d \in Docs : BecomeDue(d) \/ LeaseEnds(d)) \/ \E w \in Workers : WorkerDies(w)
  BY <1>4, ClockStep
<1>5. CASE Operate
  BY <1>5, CommandStep, StoreStep, PassStep DEF Operate
<1>6. QED
  BY <1>1, <1>2, <1>3, <1>4, <1>5 DEF Next

\* Behaviour of record_fetch_result, store_artifact_version and
\* reparse_perimeter_gaps: for any documents, workers and answers, a document whose
\* row says succeeded has text.
THEOREM SucceededHaveText == Spec => []SucceededHasText
<1>1. QueueInv => SucceededHasText
  BY DEF QueueInv, RowsFit, SucceededHasText
<1>2. QED
  BY <1>1, QueueBegins, QueueStep, PTL DEF Spec

\* The fetches whose answer has a body.
Bodied == {t \in {flight[w][s] : w \in Workers, s \in Slots} : t.result \in HasBody}

\* What was known of a page at a moment is not newer than what any later fetch
\* brought, and than what the site serves.
Seen(d, edition, when) ==
  edition \in Edition =>
    /\ edition <= page[d]
    /\ \A t \in Bodied : t.doc = d /\ when <= t.at => edition <= t.edition

VersionsSeen ==
  /\ DOMAIN stored = Docs
  /\ \A d \in Docs : \A v \in DOMAIN stored[d] :
       stored[d][v].at \in Nat /\ Seen(d, v.edition, stored[d][v].at)
  /\ \A d \in Docs : best[d] # NoVersion => best[d] \in DOMAIN stored[d]

BodiesSeen == \A d \in Docs : \A b \in bodies[d] : Seen(d, b.edition, b.finished)
RowsSeen ==
  pass.kind = "reparse" => \A r \in pass.rows : Seen(r.doc, r.body.edition, r.body.finished)
FetchesSeen == \A t \in Bodied : t.at <= 2 * time[t.doc] /\ Seen(t.doc, t.edition, t.at)

AgesFit ==
  /\ page \in [Docs -> Nat]
  /\ VersionsSeen /\ BodiesSeen /\ RowsSeen /\ FetchesSeen

\* A fetch with a body is a task.
LEMMA BodiedFit ==
  ASSUME QueueInv
  PROVE  \A t \in Bodied : t \in Task /\ t.doc \in Docs /\ t.at \in Nat /\ t.edition \in Edition
<1> SUFFICES ASSUME NEW w \in Workers, NEW s \in Slots, flight[w][s].result \in HasBody
             PROVE  LET t == flight[w][s] IN
                    t \in Task /\ t.doc \in Docs /\ t.at \in Nat /\ t.edition \in Edition
  BY DEF Bodied
<1>1. flight[w][s] # Free
  BY DEF Free, HasBody
<1>2. TaskFits(flight[w][s], best)
  BY <1>1 DEF QueueInv, TasksFit
<1>3. QED
  BY <1>2 DEF TaskFits, Task

\* With no new fetch and the sites as they are, what was seen was seen.
LEMMA SeenStays ==
  ASSUME Bodied' \subseteq Bodied, UNCHANGED page, NEW d, NEW edition, NEW when,
         Seen(d, edition, when)
  PROVE  Seen(d, edition, when)'
BY DEF Seen, Edition

\* What a step writes down was seen.
LEMMA AgesStep ==
  ASSUME AgesFit, QueueInv, Bodied' \subseteq Bodied, UNCHANGED <<page, time>>,
         DOMAIN stored' = Docs,
         \A d \in Docs : \A v \in DOMAIN stored'[d] :
            \/ v \in DOMAIN stored[d] /\ stored'[d][v] = stored[d][v]
            \/ stored'[d][v].at \in Nat /\ Seen(d, v.edition, stored'[d][v].at),
         \A d \in Docs : best'[d] # NoVersion => best'[d] \in DOMAIN stored'[d],
         \A d \in Docs : \A b \in bodies'[d] : b \in bodies[d] \/ Seen(d, b.edition, b.finished),
         pass'.kind = "reparse" =>
            \A r \in pass'.rows : Seen(r.doc, r.body.edition, r.body.finished)
  PROVE  AgesFit'
<1>0. ASSUME NEW d, NEW edition, NEW when, Seen(d, edition, when)
      PROVE  edition \in Edition => /\ edition <= page'[d]
                                    /\ \A t \in Bodied' : t.doc = d /\ when <= t.at => edition <= t.edition
  BY <1>0 DEF Seen
<1>1. VersionsSeen'
  <2> SUFFICES ASSUME NEW d \in Docs, NEW v \in DOMAIN stored'[d]
               PROVE  /\ stored'[d][v].at \in Nat
                      /\ v.edition \in Edition =>
                           /\ v.edition <= page'[d]
                           /\ \A t \in Bodied' : t.doc = d /\ stored'[d][v].at <= t.at
                                                 => v.edition <= t.edition
    BY DEF VersionsSeen, Seen, Edition
  <2>1. stored'[d][v].at \in Nat /\ Seen(d, v.edition, stored'[d][v].at)
    BY DEF AgesFit, VersionsSeen
  <2>2. QED
    BY <1>0, <2>1
<1>2. BodiesSeen'
  <2> SUFFICES ASSUME NEW d \in Docs, NEW b \in bodies'[d] PROVE Seen(d, b.edition, b.finished)'
    BY DEF BodiesSeen
  <2>1. Seen(d, b.edition, b.finished)
    BY DEF AgesFit, BodiesSeen
  <2>2. QED
    BY <1>0, <2>1 DEF Seen, Edition
<1>3. RowsSeen'
  <2> SUFFICES ASSUME pass'.kind = "reparse", NEW r \in pass'.rows
               PROVE  Seen(r.doc, r.body.edition, r.body.finished)'
    BY DEF RowsSeen
  <2>1. Seen(r.doc, r.body.edition, r.body.finished)
    OBVIOUS
  <2>2. QED
    BY <1>0, <2>1 DEF Seen, Edition
<1>4. FetchesSeen'
  <2> SUFFICES ASSUME NEW t \in Bodied' PROVE t.at <= 2 * time'[t.doc] /\ Seen(t.doc, t.edition, t.at)'
    BY DEF FetchesSeen
  <2>1. t.at <= 2 * time[t.doc] /\ Seen(t.doc, t.edition, t.at)
    BY DEF AgesFit, FetchesSeen
  <2>2. QED
    BY <1>0, <2>1 DEF Seen, Edition
<1>5. QED
  BY <1>1, <1>2, <1>3, <1>4 DEF AgesFit

\* A step that stores nothing.
LEMMA NothingStored ==
  ASSUME AgesFit, QueueInv, Bodied' \subseteq Bodied, UNCHANGED <<stored, best, bodies, page, time>>,
         pass'.kind = "reparse" =>
            \A r \in pass'.rows : Seen(r.doc, r.body.edition, r.body.finished)
  PROVE  AgesFit'
<1>1. /\ DOMAIN stored = Docs
      /\ \A d \in Docs : best[d] # NoVersion => best[d] \in DOMAIN stored[d]
  BY DEF AgesFit, VersionsSeen
<1>2. QED
  BY <1>1, AgesStep

\* What an insertion leaves of versions, and which text it replaces.
LEMMA InsertAges ==
  ASSUME AgesFit, NEW d \in Docs, NEW v, v # NoVersion, NEW complete, NEW when \in Nat,
         Insert(d, v, complete, when), Seen(d, v.edition, when), best \in [Docs -> Version \cup {NoVersion}]
  PROVE  /\ DOMAIN stored' = Docs
         /\ \A c \in Docs : \A u \in DOMAIN stored'[c] :
               \/ u \in DOMAIN stored[c] /\ stored'[c][u] = stored[c][u]
               \/ stored'[c][u].at \in Nat /\ Seen(c, u.edition, stored'[c][u].at)
         /\ \A c \in Docs : best'[c] # NoVersion => best'[c] \in DOMAIN stored'[c]
         /\ \A c \in Docs : best'[c] = best[c]
               \/ (c = d /\ best'[c] = v /\ (best[c] = NoVersion \/ stored[c][best[c]].at <= when))
<1> DEFINE old == stored[d]
           new == [u \in DOMAIN old \cup {v} |->
                     IF u \in DOMAIN old THEN old[u] ELSE [complete |-> complete, at |-> when]]
<1>1. DOMAIN stored = Docs /\ \A c \in Docs : best[c] # NoVersion => best[c] \in DOMAIN stored[c]
  BY DEF AgesFit, VersionsSeen
<1>2. stored' = [stored EXCEPT ![d] = new]
  BY DEF Insert
<1>3. \A c \in Docs : stored'[c] = IF c = d THEN new ELSE stored[c]
  BY <1>1, <1>2
<1>4. DOMAIN new = DOMAIN old \cup {v}
      /\ \A u \in DOMAIN new : (u \in DOMAIN old /\ new[u] = old[u]) \/ (u = v /\ new[u].at = when)
  OBVIOUS
<1> HIDE DEF new
<1>5. \A c \in Docs : \A u \in DOMAIN stored'[c] :
        \/ u \in DOMAIN stored[c] /\ stored'[c][u] = stored[c][u]
        \/ stored'[c][u].at \in Nat /\ Seen(c, u.edition, stored'[c][u].at)
  BY <1>3, <1>4
<1>6. \A c \in Docs : best'[c] = best[c]
        \/ (c = d /\ best'[c] = v /\ (best[c] = NoVersion \/ stored[c][best[c]].at <= when))
  BY DEF Insert
<1>7. \A c \in Docs : best'[c] # NoVersion => best'[c] \in DOMAIN stored'[c]
  BY <1>1, <1>3, <1>4, <1>6
<1>8. QED
  BY <1>1, <1>2, <1>5, <1>6, <1>7

\* A claim brings no body, and a site's answer is not older than what was seen of it.
LEMMA FetchAges ==
  ASSUME AgesFit, QueueInv,
         \E w \in Workers : Claim(w) \/ WorkerDies(w) \/ \E s \in Slots : Download(w, s)
  PROVE  AgesFit' /\ UNCHANGED best
<1>1. ASSUME NEW w \in Workers, ClaimRead(w) \/ ClaimLock(w) \/ ClaimCommit(w) \/ WorkerDies(w)
      PROVE  AgesFit' /\ UNCHANGED best
  <2>1. UNCHANGED <<stored, best, bodies, page, time, pass>>
    BY <1>1 DEF ClaimRead, ClaimLock, ClaimCommit, WorkerDies, tables, world
  <2>2. Bodied' \subseteq Bodied
    <3>1. CASE flight' = flight
      BY <3>1 DEF Bodied
    <3>2. CASE flight' # flight
      <4>1. PICK seats : flight' = [flight EXCEPT ![w] = seats]
                         /\ \A s \in Slots : seats[s] = flight[w][s] \/ seats[s].result \notin HasBody
        <5>1. CASE ClaimCommit(w)
          <6> DEFINE task(d) == [doc |-> d, attempts |-> queue'[d].attempts, etag |-> validator[d],
                                 override |-> queue[d].override, result |-> "open",
                                 edition |-> 0, at |-> 0]
          <6>1. PICK seat \in [txn[w].picked -> FreeSlots(w)] :
                  flight' = [flight EXCEPT ![w] = [s \in Slots |->
                        IF \E d \in txn[w].picked : seat[d] = s
                        THEN task(CHOOSE d \in txn[w].picked : seat[d] = s)
                        ELSE flight[w][s]]]
            BY <5>1 DEF ClaimCommit
          <6>2. \A d : task(d).result \notin HasBody
            BY DEF HasBody
          <6> HIDE DEF task
          <6> DEFINE seats == [s \in Slots |-> IF \E d \in txn[w].picked : seat[d] = s
                                               THEN task(CHOOSE d \in txn[w].picked : seat[d] = s)
                                               ELSE flight[w][s]]
          <6>3. flight' = [flight EXCEPT ![w] = seats]
            BY <6>1
          <6>4. ASSUME NEW s \in Slots PROVE seats[s] = flight[w][s] \/ seats[s].result \notin HasBody
            <7>1. CASE \E d \in txn[w].picked : seat[d] = s
              BY <6>2, <7>1
            <7>2. CASE ~\E d \in txn[w].picked : seat[d] = s
              BY <7>2
            <7>3. QED
              BY <7>1, <7>2
          <6> HIDE DEF seats
          <6>5. QED
            BY <6>3, <6>4
        <5>2. CASE WorkerDies(w)
          <6>1. flight' = [flight EXCEPT ![w] = [s \in Slots |-> Free]]
            BY <5>2 DEF WorkerDies
          <6>2. Free.result \notin HasBody
            BY DEF Free, HasBody
          <6> DEFINE seats == [s \in Slots |-> Free]
          <6>3. flight' = [flight EXCEPT ![w] = seats] /\ \A s \in Slots : seats[s] = Free
            BY <6>1
          <6> HIDE DEF seats
          <6>4. QED
            BY <6>2, <6>3
        <5>3. QED
          BY <1>1, <3>2, <5>1, <5>2 DEF ClaimRead, ClaimLock
      <4>2. ASSUME NEW v \in Workers, NEW s \in Slots, flight'[v][s].result \in HasBody
            PROVE  flight'[v][s] = flight[v][s]
        BY <4>1, <4>2 DEF QueueInv, TasksFit
      <4>3. QED
        BY <4>2 DEF Bodied
    <3>3. QED
      BY <3>1, <3>2
  <2>3. QED
    BY <2>1, <2>2, NothingStored DEF AgesFit, RowsSeen
<1>2. ASSUME NEW w \in Workers, NEW s \in Slots, Download(w, s) PROVE AgesFit' /\ UNCHANGED best
  <2> DEFINE task == flight[w][s]
             d == task.doc
  <2>1. task \in Task /\ task.result = "open" /\ d \in Docs /\ task.result \notin HasBody
    <3>1. task # Free /\ task.result = "open"
      BY <1>2 DEF Download
    <3>2. TaskFits(task, best)
      BY <3>1 DEF QueueInv, TasksFit
    <3>3. QED
      BY <3>1, <3>2 DEF TaskFits, Task, HasBody
  <2>2. PICK edition \in DOMAIN Parse[d] : \E t \in PageAnswer(task, edition) :
          /\ edition >= page[d]
          /\ flight' = [flight EXCEPT ![w][s] = t]
          /\ page' = [page EXCEPT ![d] = edition]
          /\ time' = [time EXCEPT ![d] = IF t.result \in HasBody THEN @ + 1 ELSE @]
    BY <1>2 DEF Download
  <2>3. PICK t \in PageAnswer(task, edition) :
          /\ edition >= page[d]
          /\ flight' = [flight EXCEPT ![w][s] = t]
          /\ page' = [page EXCEPT ![d] = edition]
          /\ time' = [time EXCEPT ![d] = IF t.result \in HasBody THEN @ + 1 ELSE @]
    BY <2>2
  <2>4. UNCHANGED <<stored, best, bodies, pass>>
    BY <1>2 DEF Download, tables
  <2>5. /\ edition \in 1..MaxEdition /\ Parse[d][edition] \in HasBody /\ edition \in Edition
        /\ MaxEdition \in Nat /\ time \in [Docs -> Nat] /\ page \in [Docs -> Nat]
    BY <2>1, <2>2, ParseAssumption, BoundsAssumption DEF HasBody, Edition, QueueInv, TextsFit, AgesFit
  <2> HIDE DEF task
  <2>6. \/ t.result \in HasBody /\ t.doc = d /\ t.edition = edition /\ t.at = 2 * (time[d] + 1)
        \/ t.result \notin HasBody
    <3>1. CASE t = [task EXCEPT !.result = Parse[d][edition], !.edition = edition, !.at = 2 * (time[d] + 1)]
      BY <2>1, <2>5, <3>1 DEF Task
    <3>2. ASSUME NEW r \in {"transient", "ended", "refused", "unchanged"}, t = [task EXCEPT !.result = r]
          PROVE  t.result \notin HasBody
      BY <2>1, <3>2 DEF Task, HasBody
    <3>3. QED
      BY <2>3, <3>1, <3>2 DEF PageAnswer
  <2>7. \A u \in Bodied' : u \in Bodied \/ (u = t /\ t.result \in HasBody)
    <3>1. ASSUME NEW x \in Workers, NEW y \in Slots
          PROVE  flight'[x][y] = flight[x][y] \/ flight'[x][y] = t
      BY <2>3 DEF QueueInv, TasksFit
    <3>2. QED
      BY <3>1 DEF Bodied
  <2>8. /\ page' \in [Docs -> Nat] /\ \A c \in Docs : page[c] <= page'[c]
        /\ page'[d] = edition
    BY <2>1, <2>3, <2>5
  <2>9. \A c \in Docs : time[c] <= time'[c] /\ time'[c] \in Nat
        /\ (c = d /\ t.result \in HasBody => time'[c] = time[c] + 1)
    BY <2>3, <2>5
  <2>10. \A u \in Bodied : u.doc \in Docs /\ u.at \in Nat /\ u.edition \in Edition /\ u.at <= 2 * time[u.doc]
    BY BodiedFit DEF AgesFit, FetchesSeen
  <2>11. ASSUME NEW c \in Docs, NEW e, NEW when, Seen(c, e, when) PROVE Seen(c, e, when)'
    <3> SUFFICES ASSUME e \in Edition
                 PROVE  /\ e <= page'[c]
                        /\ \A u \in Bodied' : u.doc = c /\ when <= u.at => e <= u.edition
      BY DEF Seen, Edition
    <3>1. e \in Nat /\ e <= page[c] /\ \A u \in Bodied : u.doc = c /\ when <= u.at => e <= u.edition
      BY <2>5, <2>11 DEF Seen, Edition
    <3>2. e <= page'[c]
      BY <2>5, <2>8, <3>1
    <3>3. c = d => e <= edition
      BY <2>8, <3>2
    <3>4. QED
      BY <2>6, <2>7, <3>1, <3>2, <3>3
  <2>12. t.result \in HasBody => t.at <= 2 * time'[t.doc] /\ Seen(t.doc, t.edition, t.at)'
    <3> SUFFICES ASSUME t.result \in HasBody
                 PROVE  /\ t.at <= 2 * time'[t.doc] /\ t.edition <= page'[t.doc]
                        /\ \A u \in Bodied' : u.doc = t.doc /\ t.at <= u.at => t.edition <= u.edition
      BY DEF Seen, Edition
    <3>1. /\ t.doc = d /\ t.edition = edition /\ t.at = 2 * (time[d] + 1)
          /\ time'[d] = time[d] + 1 /\ time[d] \in Nat /\ edition \in Nat
      BY <2>1, <2>5, <2>6, <2>9
    <3>2. \A u \in Bodied : u.doc = d => u.at < t.at
      BY <2>10, <3>1
    <3>3. ASSUME NEW u \in Bodied', u.doc = t.doc, t.at <= u.at PROVE t.edition <= u.edition
      <4>1. CASE u = t
        BY <3>1, <4>1
      <4>2. CASE u \in Bodied
        <5>1. u.at < t.at /\ u.at \in Nat /\ t.at \in Nat
          BY <2>10, <3>1, <3>2, <3>3, <4>2
        <5>2. QED
          BY <3>3, <5>1
      <4>3. QED
        BY <2>7, <4>1, <4>2
    <3>4. t.at <= 2 * time'[t.doc] /\ t.edition <= page'[t.doc]
      BY <2>8, <3>1
    <3>5. QED
      BY <3>3, <3>4
  <2>13. VersionsSeen'
    BY <2>4, <2>11 DEF AgesFit, VersionsSeen
  <2>14. BodiesSeen'
    BY <2>4, <2>11 DEF AgesFit, BodiesSeen
  <2>15. RowsSeen'
    <3>1. pass.kind = "reparse" => \A r \in pass.rows : r.doc \in Docs
      BY DEF QueueInv, PassFits
    <3>2. QED
      BY <2>4, <2>11, <3>1 DEF AgesFit, RowsSeen
  <2>16. FetchesSeen'
    <3> SUFFICES ASSUME NEW u \in Bodied' PROVE u.at <= 2 * time'[u.doc] /\ Seen(u.doc, u.edition, u.at)'
      BY DEF FetchesSeen
    <3>1. CASE u \in Bodied
      <4>1. Seen(u.doc, u.edition, u.at) /\ u.doc \in Docs
        BY <2>10, <3>1 DEF AgesFit, FetchesSeen
      <4>2. Seen(u.doc, u.edition, u.at)'
        BY <2>11, <4>1
      <4>3. u.at <= 2 * time'[u.doc]
        BY <2>5, <2>9, <2>10, <3>1
      <4>4. QED
        BY <4>2, <4>3
    <3>2. CASE u = t /\ t.result \in HasBody
      BY <2>12, <3>2
    <3>3. QED
      BY <2>7, <3>1, <3>2
  <2>17. QED
    BY <2>4, <2>8, <2>13, <2>14, <2>15, <2>16 DEF AgesFit
<1>3. QED
  BY <1>1, <1>2 DEF Claim

\* A recorded body is not newer than what later fetches bring.
LEMMA RecordAges ==
  ASSUME AgesFit, QueueInv, NEW w \in Workers, NEW s \in Slots, Record(w, s)
  PROVE  AgesFit' /\ \A d \in Docs : KeepsNewest(d)
<1> DEFINE t == flight[w][s]
           d == t.doc
           v == [edition |-> t.edition, release |-> 0]
<1>1. TaskFits(t, best) /\ d \in Docs /\ best \in [Docs -> Version \cup {NoVersion}]
      /\ MaxEdition \in Nat /\ t.at \in Nat
  BY BoundsAssumption DEF Record, QueueInv, TasksFit, TextsFit, TaskFits, Task
<1>2. t.result \in HasBody => t \in Bodied /\ t.edition \in Edition
  BY <1>1 DEF Bodied, TaskFits
<1>3. t.result \in HasBody => t.at <= 2 * time[d] /\ Seen(d, t.edition, t.at)
  BY <1>2 DEF AgesFit, FetchesSeen
<1>4. UNCHANGED <<page, time, pass>> /\ flight' = [flight EXCEPT ![w][s] = Free]
  BY DEF Record, world
<1>5. Bodied' \subseteq Bodied
  <2>1. \A x \in Workers, y \in Slots : flight'[x][y] = flight[x][y] \/ flight'[x][y] = Free
    BY <1>4 DEF QueueInv, TasksFit
  <2>2. Free.result \notin HasBody
    BY DEF Free, HasBody
  <2>3. QED
    BY <2>1, <2>2 DEF Bodied
<1>6. \A c \in Docs : \A b \in bodies'[c] : b \in bodies[c] \/ Seen(c, b.edition, b.finished)
  <2> DEFINE new == [edition |-> t.edition, finished |-> 2 * time[d] + 1]
  <2>1. t.result \in HasBody => Seen(d, new.edition, new.finished)
    <3> SUFFICES ASSUME t.result \in HasBody
                 PROVE  /\ t.edition <= page[d]
                        /\ \A u \in Bodied : ~(u.doc = d /\ 2 * time[d] + 1 <= u.at)
      BY DEF Seen
    <3>1. t.edition <= page[d]
      BY <1>2, <1>3 DEF Seen
    <3>2. time[d] \in Nat
      BY <1>1 DEF QueueInv, TextsFit
    <3>3. ASSUME NEW u \in Bodied, u.doc = d PROVE u.at \in Nat /\ u.at <= 2 * time[d]
      BY <3>3, BodiedFit DEF AgesFit, FetchesSeen
    <3> HIDE DEF d
    <3>4. QED
      BY <3>1, <3>2, <3>3
  <2>2. \/ bodies' = bodies
        \/ t.result \in HasBody /\ bodies' = [bodies EXCEPT ![d] = bodies[d] \cup {new}]
    BY DEF Record
  <2>3. bodies \in [Docs -> SUBSET Body]
    BY DEF QueueInv, TextsFit
  <2> HIDE DEF new
  <2>4. \A c \in Docs : \A b \in bodies'[c] : b \in bodies[c] \/ (c = d /\ b = new /\ t.result \in HasBody)
    BY <1>1, <2>2, <2>3
  <2>5. QED
    BY <2>1, <2>4
<1>7. pass'.kind = "reparse" => \A r \in pass'.rows : Seen(r.doc, r.body.edition, r.body.finished)
  BY <1>4 DEF AgesFit, RowsSeen
<1>8. CASE t.result \in {"complete", "partial"}
  <2>1. Insert(d, v, t.result = "complete", t.at) /\ t.result \in HasBody
    BY <1>8 DEF Record, HasBody
  <2>2. v # NoVersion /\ v.edition = t.edition
    BY <1>2, <2>1 DEF NoVersion, Edition
  <2>3. Seen(d, v.edition, t.at)
    BY <1>3, <2>1, <2>2
  <2> HIDE DEF v, d, t
  <2>4. /\ DOMAIN stored' = Docs
        /\ \A c \in Docs : \A u \in DOMAIN stored'[c] :
              \/ u \in DOMAIN stored[c] /\ stored'[c][u] = stored[c][u]
              \/ stored'[c][u].at \in Nat /\ Seen(c, u.edition, stored'[c][u].at)
        /\ \A c \in Docs : best'[c] # NoVersion => best'[c] \in DOMAIN stored'[c]
        /\ \A c \in Docs : best'[c] = best[c]
              \/ (c = d /\ best'[c] = v /\ (best[c] = NoVersion \/ stored[c][best[c]].at <= t.at))
    BY <1>1, <2>1, <2>2, <2>3, InsertAges
  <2>5. AgesFit'
    BY <1>4, <1>5, <1>6, <1>7, <2>4, AgesStep
  <2>6. ASSUME NEW c \in Docs PROVE KeepsNewest(c)
    <3> SUFFICES ASSUME best[c].edition \in Edition, best'[c].edition \in Edition
                 PROVE  best'[c].edition >= best[c].edition
      BY DEF KeepsNewest
    <3>1. CASE best'[c] = best[c]
      BY <1>1, <3>1 DEF Edition
    <3>2. CASE best'[c] # best[c]
      <4>1. c = d /\ best'[c] = v /\ (best[c] = NoVersion \/ stored[c][best[c]].at <= t.at)
        BY <2>4, <3>2
      <4>2. best[c] # NoVersion
        BY DEF NoVersion, Edition
      <4>3. Seen(c, best[c].edition, stored[c][best[c]].at)
        BY <4>2 DEF AgesFit, VersionsSeen
      <4>4. t \in Bodied /\ t.doc = c
        BY <1>2, <2>1, <4>1 DEF d
      <4>5. best[c].edition <= t.edition
        BY <4>1, <4>2, <4>3, <4>4 DEF Seen
      <4>6. QED
        BY <1>1, <2>2, <4>1, <4>5 DEF Edition
    <3>3. QED
      BY <3>1, <3>2
  <2>7. QED
    BY <2>5, <2>6
<1>9. CASE t.result \notin {"complete", "partial"}
  <2>1. UNCHANGED <<best, stored>>
    BY <1>9 DEF Record
  <2>2. /\ DOMAIN stored = Docs
        /\ \A c \in Docs : best[c] # NoVersion => best[c] \in DOMAIN stored[c]
    BY DEF AgesFit, VersionsSeen
  <2>3. AgesFit'
    BY <1>4, <1>5, <1>6, <1>7, <2>1, <2>2, AgesStep
  <2>4. \A c \in Docs : KeepsNewest(c)
    BY <1>1, <2>1 DEF KeepsNewest, Edition
  <2>5. QED
    BY <2>3, <2>4
<1>10. QED
  BY <1>8, <1>9

\* What an operator hands over, and the caches, are no edition of the page; a
\* re-parse stores what was seen when its body was recorded.
LEMMA StoreAges ==
  ASSUME AgesFit, QueueInv, NEW d \in Docs, NEW v, v # NoVersion, NEW complete, NEW when \in Nat,
         Insert(d, v, complete, when), Seen(d, v.edition, when),
         UNCHANGED <<flight, page, time>>,
         \A c \in Docs : \A b \in bodies'[c] : b \in bodies[c] \/ Seen(c, b.edition, b.finished),
         pass'.kind = "reparse" =>
            \A r \in pass'.rows : Seen(r.doc, r.body.edition, r.body.finished)
  PROVE  AgesFit' /\ (v.edition \notin Edition => \A c \in Docs : KeepsNewest(c))
<1>1. best \in [Docs -> Version \cup {NoVersion}] /\ MaxEdition \in Nat
  BY BoundsAssumption DEF QueueInv, TextsFit
<1>2. /\ DOMAIN stored' = Docs
      /\ \A c \in Docs : \A u \in DOMAIN stored'[c] :
            \/ u \in DOMAIN stored[c] /\ stored'[c][u] = stored[c][u]
            \/ stored'[c][u].at \in Nat /\ Seen(c, u.edition, stored'[c][u].at)
      /\ \A c \in Docs : best'[c] # NoVersion => best'[c] \in DOMAIN stored'[c]
      /\ \A c \in Docs : best'[c] = best[c] \/ best'[c] = v
  <2>1. /\ DOMAIN stored' = Docs
        /\ \A c \in Docs : \A u \in DOMAIN stored'[c] :
              \/ u \in DOMAIN stored[c] /\ stored'[c][u] = stored[c][u]
              \/ stored'[c][u].at \in Nat /\ Seen(c, u.edition, stored'[c][u].at)
        /\ \A c \in Docs : best'[c] # NoVersion => best'[c] \in DOMAIN stored'[c]
        /\ \A c \in Docs : best'[c] = best[c]
              \/ (c = d /\ best'[c] = v /\ (best[c] = NoVersion \/ stored[c][best[c]].at <= when))
    BY <1>1, InsertAges
  <2>2. QED
    BY <2>1
<1>3. Bodied' \subseteq Bodied
  BY DEF Bodied
<1>4. AgesFit'
  BY <1>2, <1>3, AgesStep
<1>5. v.edition \notin Edition => \A c \in Docs : KeepsNewest(c)
  BY <1>1, <1>2 DEF KeepsNewest, Edition
<1>6. QED
  BY <1>4, <1>5

\* Every step keeps what was seen, and no step but a re-parse puts an older edition
\* in the place of a text.
LEMMA AgesNext ==
  QueueInv /\ AgesFit /\ [Next]_vars
    => AgesFit' /\ (pass.kind = "reparse" \/ \A d \in Docs : KeepsNewest(d))
<1> SUFFICES ASSUME QueueInv, AgesFit, [Next]_vars
             PROVE  AgesFit' /\ (pass.kind = "reparse" \/ \A d \in Docs : KeepsNewest(d))
  OBVIOUS
<1>0. best \in [Docs -> Version \cup {NoVersion}] /\ MaxEdition \in Nat /\ time \in [Docs -> Nat]
      /\ (pass.kind = "reparse" => \A r \in pass.rows : Seen(r.doc, r.body.edition, r.body.finished))
  BY BoundsAssumption DEF QueueInv, TextsFit, AgesFit, RowsSeen
<1>1. UNCHANGED best => \A d \in Docs : KeepsNewest(d)
  BY <1>0 DEF KeepsNewest, Edition
\* A step over rows alone.
<1>2. ASSUME UNCHANGED <<stored, best, bodies, page, time, flight>>,
             pass'.kind = "reparse" =>
               \A r \in pass'.rows : Seen(r.doc, r.body.edition, r.body.finished)
      PROVE  AgesFit' /\ \A d \in Docs : KeepsNewest(d)
  <2>1. Bodied' \subseteq Bodied
    BY <1>2 DEF Bodied
  <2>2. QED
    BY <1>1, <1>2, <2>1, NothingStored
<1>3. CASE UNCHANGED vars
  BY <1>0, <1>2, <1>3 DEF vars, tables, world
<1>4. CASE \E w \in Workers : Claim(w) \/ WorkerDies(w) \/ \E s \in Slots : Download(w, s)
  BY <1>1, <1>4, FetchAges
<1>5. CASE \E w \in Workers, s \in Slots : Record(w, s)
  BY <1>5, RecordAges
<1>6. ASSUME NEW d \in Docs, BecomeDue(d) \/ LeaseEnds(d) PROVE AgesFit' /\ \A c \in Docs : KeepsNewest(c)
  <2>1. UNCHANGED <<stored, best, bodies, page, time, flight, pass>>
    BY <1>6 DEF BecomeDue, LeaseEnds, world
  <2>2. QED
    BY <1>0, <1>2, <2>1
<1>7. CASE \/ \E d \in Docs, high \in BOOLEAN : Import({d}, high)
           \/ \E codes \in SUBSET ErrorClass : RequeueFailed(codes)
           \/ \E override, requeue \in BOOLEAN : PreparePerimeter(override, requeue)
  <2>1. UNCHANGED <<stored, best, bodies, page, time, flight, pass>>
    BY <1>7 DEF Import, RequeueFailed, PreparePerimeter, Keep, world
  <2>2. QED
    BY <1>0, <1>2, <2>1
<1>8. CASE PlanRead \/ PassEnds \/ \E r \in pass.rows : PlanTerminal(r) \/ Escalate(r)
  <2>1. CASE PlanRead \/ PassEnds
    <3>1. UNCHANGED <<stored, best, bodies, page, time, flight>> /\ pass'.kind # "reparse"
      BY <2>1 DEF PlanRead, PassEnds, NoPass, Keep, tables, world
    <3>2. QED
      BY <1>2, <3>1
  <2>2. ASSUME NEW r \in pass.rows, PlanTerminal(r) \/ Escalate(r)
        PROVE  AgesFit' /\ \A d \in Docs : KeepsNewest(d)
    <3>1. UNCHANGED <<stored, best, bodies, page, time, flight>> /\ pass.kind = "plan"
          /\ pass' = [pass EXCEPT !.rows = @ \ {r}]
      BY <2>2 DEF PlanTerminal, Escalate, Keep, world
    <3>2. pass'.kind # "reparse"
      <4>1. PICK rows : pass = [kind |-> "plan", rows |-> rows]
        BY <3>1 DEF QueueInv, PassFits
      <4>2. QED
        BY <3>1, <4>1
    <3>3. QED
      BY <1>2, <3>1, <3>2
  <2>3. QED
    BY <1>8, <2>1, <2>2
<1>9. CASE ReparseRead
  <2>1. UNCHANGED <<stored, best, bodies, page, time, flight>>
    BY <1>9 DEF ReparseRead, Keep, tables, world
  <2>2. \A r \in pass'.rows : r.doc \in Docs /\ r.body \in bodies[r.doc]
    BY <1>9 DEF ReparseRead
  <2>3. \A r \in pass'.rows : Seen(r.doc, r.body.edition, r.body.finished)
    BY <2>2 DEF AgesFit, BodiesSeen
  <2>4. QED
    BY <1>2, <2>1, <2>3
<1>10. ASSUME NEW d \in Docs, NEW complete \in BOOLEAN, NEW when \in {0, 2 * time[d] + 1},
              StoreArtifact(d, complete, when)
       PROVE  AgesFit' /\ \A c \in Docs : KeepsNewest(c)
  <2> DEFINE v == [edition |-> Artifact, release |-> 0]
  <2>1. Insert(d, v, complete, when) /\ UNCHANGED <<flight, page, time, bodies, pass>>
    BY <1>10 DEF StoreArtifact, Keep, world
  <2>2. v # NoVersion /\ v.edition \notin Edition /\ when \in Nat
    BY <1>0 DEF Artifact, NoVersion, Edition
  <2> HIDE DEF v
  <2>3. Seen(d, v.edition, when)
    BY <2>2 DEF Seen
  <2>4. AgesFit' /\ (v.edition \notin Edition => \A c \in Docs : KeepsNewest(c))
    BY <1>0, <2>1, <2>2, <2>3, StoreAges
  <2>5. QED
    BY <2>2, <2>4
<1>11. ASSUME NEW d \in Docs, NEW taken \in {Snapshot, Excerpt}, NEW complete \in BOOLEAN,
              StoreCached(d, taken, complete)
       PROVE  AgesFit' /\ \A c \in Docs : KeepsNewest(c)
  <2> DEFINE v == [edition |-> taken, release |-> 0]
             copy == [edition |-> Snapshot, finished |-> 0]
  <2>1. Insert(d, v, complete, 0) /\ UNCHANGED <<flight, page, time, pass>>
    BY <1>11 DEF StoreCached, Keep, world
  <2>2. v # NoVersion /\ v.edition \notin Edition
    BY <1>0 DEF Snapshot, Excerpt, NoVersion, Edition
  <2>3. \A c \in Docs : Seen(c, copy.edition, copy.finished)
    BY <1>0 DEF Snapshot, Edition, Seen
  <2>4. \A c \in Docs : \A b \in bodies'[c] : b \in bodies[c] \/ b = copy
    BY <1>11 DEF StoreCached, QueueInv, TextsFit
  <2> HIDE DEF v, copy
  <2>5. Seen(d, v.edition, 0)
    BY <2>2 DEF Seen
  <2>6. \A c \in Docs : \A b \in bodies'[c] : b \in bodies[c] \/ Seen(c, b.edition, b.finished)
    BY <2>3, <2>4
  <2>7. AgesFit' /\ (v.edition \notin Edition => \A c \in Docs : KeepsNewest(c))
    BY <1>0, <2>1, <2>2, <2>5, <2>6, StoreAges
  <2>8. QED
    BY <2>2, <2>7
<1>12. ASSUME NEW r \in pass.rows, NEW release \in ParserRelease, Reparse(r, release)
       PROVE  AgesFit' /\ pass.kind = "reparse"
  <2>1. PICK rows \in SUBSET [doc : Docs, body : Body] : pass = [kind |-> "reparse", rows |-> rows]
    BY <1>12 DEF Reparse, QueueInv, PassFits
  <2>2. r.doc \in Docs /\ r.body.edition \in Nat \ {0} /\ r.body.finished \in Nat
    BY <1>0, <2>1 DEF Body, Edition, Snapshot
  <2> DEFINE v == [edition |-> r.body.edition, release |-> release]
  <2>3. Insert(r.doc, v, TRUE, r.body.finished) /\ UNCHANGED <<flight, page, time, bodies>>
        /\ pass' = [pass EXCEPT !.rows = @ \ {r}]
    BY <1>12 DEF Reparse, Keep, world
  <2>4. v # NoVersion /\ Seen(r.doc, v.edition, r.body.finished)
    BY <1>0, <2>1, <2>2 DEF NoVersion
  <2>5. \A q \in pass'.rows : Seen(q.doc, q.body.edition, q.body.finished)
    BY <1>0, <2>1, <2>3
  <2> HIDE DEF v
  <2>6. AgesFit' /\ (v.edition \notin Edition => \A c \in Docs : KeepsNewest(c))
    BY <2>2, <2>3, <2>4, <2>5, StoreAges
  <2>7. QED
    BY <2>1, <2>6
<1>13. QED
  BY <1>3, <1>4, <1>5, <1>6, <1>7, <1>8, <1>9, <1>10, <1>11, <1>12 DEF Next, Operate

\* Behaviour of record_fetch_result, store_cached_version and store_artifact_version:
\* for any workers and in whatever order results are recorded, a document's text never
\* goes back to an older edition of its page, re-parses apart.
THEOREM TextsGoForward == Spec => NeverOlderText
<1>1. Init => AgesFit
  <2> SUFFICES ASSUME Init PROVE AgesFit
    OBVIOUS
  <2>1. Bodied = {}
    BY DEF Init, Bodied, Free, HasBody
  <2>2. QED
    BY <2>1 DEF Init, AgesFit, VersionsSeen, BodiesSeen, RowsSeen, FetchesSeen, NoPass
<1>2. (QueueInv /\ AgesFit) /\ [Next]_vars => (QueueInv /\ AgesFit)'
  BY QueueStep, AgesNext
<1>3. (QueueInv /\ AgesFit) /\ [Next]_vars
        => [pass.kind = "reparse" \/ \A d \in Docs : KeepsNewest(d)]_vars
  BY AgesNext
<1>4. QED
  BY <1>1, <1>2, <1>3, QueueBegins, PTL DEF Spec, NeverOlderText

(* One worker keeps the limits of the queue.                               *)

\* A row's lease is live.
Live(row) == row.status = "running" /\ ~row.lapsed

\* The rows of a host that are fetched, or that a claim has chosen to be.
Held(h, rows, chosen) == {d \in Docs : Host[d] = h /\ (Live(rows[d]) \/ d \in chosen)}

\* Leases and claims in progress keep to both limits.
ClaimKeeps(claim, rows) ==
  /\ claim.picked \subseteq claim.chosen
  /\ \A d \in claim.chosen :
       (IF d \in claim.expired THEN Released(rows[d]).attempts ELSE rows[d].attempts) < MaxAttempts
  /\ \A h : Cardinality(Held(h, rows, claim.chosen)) <= PerHost

LimitsFit ==
  /\ \A d \in Docs : queue[d].attempts <= MaxAttempts
  /\ \A h : Cardinality(Held(h, queue, {})) <= PerHost
  /\ \A w \in Workers : ClaimKeeps(txn[w], queue)

\* A part of a finite set is not larger.
LEMMA PartIsSmaller ==
  ASSUME NEW large, IsFiniteSet(large), NEW small, small \subseteq large
  PROVE  IsFiniteSet(small) /\ Cardinality(small) \in Nat /\ Cardinality(large) \in Nat
         /\ Cardinality(small) <= Cardinality(large)
<1>1. small \in SUBSET large
  OBVIOUS
<1>2. IsFiniteSet(small) /\ Cardinality(small) <= Cardinality(large)
  BY <1>1, FS_Subset
<1>3. QED
  BY <1>2, FS_CardinalityType

\* What holds no more documents keeps to the host's limit.
LEMMA HoldsLess ==
  ASSUME NEW more, more \subseteq Docs, Cardinality(more) <= PerHost, NEW less, less \subseteq more
  PROVE  Cardinality(less) <= PerHost
<1>1. IsFiniteSet(more)
  BY DocsAssumption, PartIsSmaller
<1>2. Cardinality(less) \in Nat /\ Cardinality(more) \in Nat /\ Cardinality(less) <= Cardinality(more)
  BY <1>1, PartIsSmaller
<1>3. PerHost \in Nat
  BY BoundsAssumption
<1>4. QED
  BY <1>2, <1>3

\* A row is no more live and no more attempted than it was.
Calmer(new, old) ==
  /\ new.attempts \in Nat /\ new.attempts <= old.attempts
  /\ new.status = "running" =>
       old.status = "running" /\ (new.lapsed = old.lapsed \/ new.lapsed = TRUE)

\* A row that is given back was attempted once less.
LEMMA ReleasedAttempts ==
  ASSUME NEW row \in Row
  PROVE  /\ row.attempts \in Nat
         /\ Released(row).attempts = IF row.attempts > 0 THEN row.attempts - 1 ELSE 0
BY DEF Row, Released

\* A claim in progress keeps to its limits while rows calm down.
LEMMA CalmKeeps ==
  ASSUME NEW rows, NEW new, NEW claim, ClaimKeeps(claim, rows), claim.chosen \subseteq Docs,
         \A d \in Docs : rows[d] \in Row /\ new[d] \in Row /\ Calmer(new[d], rows[d])
  PROVE  ClaimKeeps(claim, new) /\ \A h, chosen : Held(h, new, chosen) \subseteq Held(h, rows, chosen)
<1>1. ASSUME NEW d \in Docs, Live(new[d]) PROVE Live(rows[d])
  <2>1. new[d].lapsed # TRUE /\ new[d].status = "running"
    BY <1>1, Zenon DEF Live
  <2>2. rows[d].status = "running" /\ new[d].lapsed = rows[d].lapsed
    BY <2>1 DEF Calmer
  <2>3. QED
    BY <1>1, <2>2, Zenon DEF Live
<1>2. \A h, chosen : Held(h, new, chosen) \subseteq Held(h, rows, chosen)
  BY <1>1 DEF Held
<1>3. ASSUME NEW h PROVE Cardinality(Held(h, new, claim.chosen)) <= PerHost
  <2>1. Held(h, rows, claim.chosen) \subseteq Docs
    BY DEF Held
  <2>2. Cardinality(Held(h, rows, claim.chosen)) <= PerHost
    BY DEF ClaimKeeps
  <2>3. QED
    BY <1>2, <2>1, <2>2, HoldsLess
<1>4. ASSUME NEW d \in claim.chosen
      PROVE  (IF d \in claim.expired THEN Released(new[d]).attempts ELSE new[d].attempts) < MaxAttempts
  <2>1. (IF d \in claim.expired THEN Released(rows[d]).attempts ELSE rows[d].attempts) < MaxAttempts
    BY DEF ClaimKeeps
  <2>2. new[d].attempts <= rows[d].attempts /\ MaxAttempts \in Nat
    BY BoundsAssumption DEF Calmer
  <2>3. QED
    BY <2>1, <2>2, ReleasedAttempts
<1>5. claim.picked \subseteq claim.chosen
  BY DEF ClaimKeeps
<1>6. QED
  BY <1>2, <1>3, <1>4, <1>5 DEF ClaimKeeps

\* While rows calm down and no claim moves, the limits are kept.
LEMMA CalmStep ==
  ASSUME LimitsFit, QueueInv, QueueInv', UNCHANGED txn, \A d \in Docs : Calmer(queue'[d], queue[d])
  PROVE  LimitsFit'
<1>1. \A d \in Docs : queue[d] \in Row /\ queue'[d] \in Row
  BY DEF QueueInv, RowsFit
<1>2. \A w \in Workers : txn[w].chosen \subseteq Docs /\ ClaimKeeps(txn[w], queue)
  BY DEF QueueInv, ClaimsFit, LimitsFit
<1>3. \A w \in Workers : ClaimKeeps(txn[w], queue')
  BY <1>1, <1>2, CalmKeeps
<1>4. ASSUME NEW h PROVE Cardinality(Held(h, queue', {})) <= PerHost
  <2> DEFINE none == [picked |-> {}, chosen |-> {}, expired |-> {}]
  <2>1. none.chosen = {} /\ none.picked = {} /\ none.expired = {}
    OBVIOUS
  <2> HIDE DEF none
  <2>2. \A g : Cardinality(Held(g, queue, none.chosen)) <= PerHost
    BY <2>1 DEF LimitsFit
  <2>3. ClaimKeeps(none, queue)
    BY <2>1, <2>2 DEF ClaimKeeps
  <2>4. none.chosen \subseteq Docs
    BY <2>1
  <2>5. ClaimKeeps(none, queue')
    BY <1>1, <2>3, <2>4, CalmKeeps
  <2>6. QED
    BY <2>1, <2>5 DEF ClaimKeeps
<1>5. \A d \in Docs : queue'[d].attempts <= MaxAttempts
  <2> SUFFICES ASSUME NEW d \in Docs PROVE queue'[d].attempts <= MaxAttempts
    OBVIOUS
  <2>1. /\ queue'[d].attempts \in Nat /\ queue'[d].attempts <= queue[d].attempts
        /\ queue[d].attempts <= MaxAttempts /\ MaxAttempts \in Nat
    BY BoundsAssumption DEF Calmer, LimitsFit
  <2>2. queue[d].attempts \in Nat
    BY <1>1, ReleasedAttempts
  <2>3. QED
    BY <2>1, <2>2
<1>6. QED
  BY <1>3, <1>4, <1>5 DEF LimitsFit

\* A step over one row, or over none.
LEMMA OneRow ==
  ASSUME LimitsFit, QueueInv, QueueInv', UNCHANGED txn, NEW d \in Docs, NEW row,
         queue' = [queue EXCEPT ![d] = row], Calmer(row, queue[d])
  PROVE  LimitsFit'
<1>1. \A c \in Docs : queue'[c] = IF c = d THEN row ELSE queue[c]
  BY DEF QueueInv, RowsFit
<1>2. \A c \in Docs : Calmer(queue[c], queue[c])
  BY DEF QueueInv, RowsFit, Row, Calmer
<1>3. \A c \in Docs : Calmer(queue'[c], queue[c])
  BY <1>1, <1>2
<1>4. QED
  BY <1>3, CalmStep

\* There is one worker process.
Lone == \A v, w \in Workers : v = w

\* What a lone worker's claim chooses fits beside the leases that are live.
LEMMA ChosenFit ==
  ASSUME LimitsFit, QueueInv, Lone, NEW w \in Workers, ClaimRead(w)
  PROVE  LimitsFit'
<1> DEFINE late == {d \in Docs : queue[d].status = "running" /\ queue[d].lapsed}
           ready == {d \in Docs : Waiting(RowInClaim(late, d))}
           room(h) == IF Load(late, h) < PerHost THEN PerHost - Load(late, h) ELSE 0
<1>1. PICK ranked \in SUBSET ready : \E c \in SUBSET ranked :
        /\ \A h \in {Host[d] : d \in Docs} :
              FirstOf({d \in ranked : Host[d] = h}, {d \in ready : Host[d] = h}, room(h))
        /\ txn' = [txn EXCEPT ![w] = [step |-> "chosen", expired |-> late,
                                      chosen |-> c, picked |-> {}]]
  BY DEF ClaimRead
<1>2. PICK chosen \in SUBSET ranked :
        /\ \A h \in {Host[d] : d \in Docs} :
              FirstOf({d \in ranked : Host[d] = h}, {d \in ready : Host[d] = h}, room(h))
        /\ txn' = [txn EXCEPT ![w] = [step |-> "chosen", expired |-> late,
                                      chosen |-> chosen, picked |-> {}]]
  BY <1>1
<1> DEFINE claim == [step |-> "chosen", expired |-> late, chosen |-> chosen, picked |-> {}]
<1>3. queue' = queue /\ PerHost \in Nat /\ txn'[w] = claim
  BY <1>2, BoundsAssumption DEF ClaimRead, tables, QueueInv, ClaimsFit
<1>4. ready \subseteq Docs /\ late \subseteq Docs
  OBVIOUS
<1>5. ASSUME NEW d \in chosen
      PROVE  (IF d \in late THEN Released(queue[d]).attempts ELSE queue[d].attempts) < MaxAttempts
  <2>1. d \in ready
    OBVIOUS
  <2>2. RowInClaim(late, d).attempts < MaxAttempts
    BY <2>1 DEF Waiting
  <2> HIDE DEF late, ready
  <2>3. QED
    BY <2>2 DEF RowInClaim
<1>6. ASSUME NEW h PROVE Cardinality(Held(h, queue, chosen)) <= PerHost
  <2> DEFINE live == Held(h, queue, {})
             added == {d \in chosen : Host[d] = h}
             running == {d \in Docs \ late : Host[d] = h /\ queue[d].status = "running"}
  <2>1. live \subseteq running
    BY DEF Held, Live
  <2>2. Held(h, queue, chosen) = live \cup added
    BY <1>4 DEF Held
  <2>3. live \subseteq Docs /\ added \subseteq Docs /\ running \subseteq Docs
    BY <1>4 DEF Held
  <2>4. /\ IsFiniteSet(live) /\ IsFiniteSet(added) /\ IsFiniteSet(running)
        /\ Cardinality(live) \in Nat /\ Cardinality(added) \in Nat /\ Cardinality(running) \in Nat
        /\ Cardinality(live \cap added) \in Nat
    <3>1. IsFiniteSet(live) /\ IsFiniteSet(added) /\ IsFiniteSet(running)
      BY <2>3, DocsAssumption, PartIsSmaller
    <3>2. IsFiniteSet(live \cap added)
      <4>1. live \cap added \subseteq live
        OBVIOUS
      <4> HIDE DEF live, added
      <4>2. QED
        BY <3>1, <4>1, PartIsSmaller
    <3> HIDE DEF live, added, running
    <3>3. QED
      BY <3>1, <3>2, FS_CardinalityType
  <2>5. Cardinality(live) <= Cardinality(running)
    BY <2>1, <2>4, PartIsSmaller
  <2>6. Cardinality(running) = Load(late, h)
    BY DEF Load
  <2>7. Cardinality(live \cup added) = Cardinality(live) + Cardinality(added) - Cardinality(live \cap added)
    BY <2>4, FS_Union
  <2>8. Cardinality(live) <= PerHost
    BY DEF LimitsFit
  <2>9. CASE h \in {Host[d] : d \in Docs}
    <3> DEFINE part == {d \in ranked : Host[d] = h}
               rows == {d \in ready : Host[d] = h}
    <3>1. FirstOf(part, rows, room(h))
      BY <1>2, <2>9
    <3>2. part \subseteq Docs /\ rows \subseteq Docs
      BY <1>4
    <3>3. IsFiniteSet(part) /\ Cardinality(part) \in Nat /\ Cardinality(rows) \in Nat
      <4>1. IsFiniteSet(part) /\ IsFiniteSet(rows)
        BY <3>2, DocsAssumption, PartIsSmaller
      <4> HIDE DEF part, rows
      <4>2. QED
        BY <4>1, FS_CardinalityType
    <3>4. added \subseteq part
      OBVIOUS
    <3> HIDE DEF part, rows, added, running, live, late, ready
    <3>5. Cardinality(added) <= Cardinality(part)
      BY <3>3, <3>4, PartIsSmaller
    <3>6. Cardinality(part) = SmallerOf(room(h), Cardinality(rows))
      BY <3>1 DEF FirstOf
    <3>7. room(h) \in Nat /\ room(h) = IF Cardinality(running) < PerHost THEN PerHost - Cardinality(running) ELSE 0
      BY <1>3, <2>4, <2>6
    <3> HIDE DEF room
    <3>8. Cardinality(part) <= room(h)
      BY <3>3, <3>6, <3>7 DEF SmallerOf
    <3>9. Cardinality(live) + Cardinality(added) <= PerHost
      BY <1>3, <2>4, <2>5, <2>8, <3>3, <3>5, <3>7, <3>8
    <3>10. QED
      BY <1>3, <2>2, <2>4, <2>7, <3>9
  <2>10. CASE h \notin {Host[d] : d \in Docs}
    <3>1. Held(h, queue, chosen) \subseteq live
      BY <2>10 DEF Held
    <3> HIDE DEF live
    <3>2. QED
      BY <2>3, <2>8, <3>1, HoldsLess
  <2>11. QED
    BY <2>9, <2>10
<1>7. ClaimKeeps(claim, queue)
  BY <1>5, <1>6 DEF ClaimKeeps
<1> HIDE DEF claim
<1>8. \A v \in Workers : ClaimKeeps(txn'[v], queue')
  BY <1>3, <1>7 DEF Lone
<1>9. QED
  BY <1>3, <1>8 DEF LimitsFit

\* A lone worker's claim gives what it chose, or less.
LEMMA CommitFit ==
  ASSUME LimitsFit, QueueInv, Lone, NEW w \in Workers, ClaimLock(w) \/ ClaimCommit(w) \/ WorkerDies(w)
  PROVE  LimitsFit'
<1>1. ClaimKeeps(txn[w], queue) /\ txn[w].chosen \subseteq Docs /\ MaxAttempts \in Nat
      /\ queue \in [Docs -> Row] /\ DOMAIN txn = Workers
  BY BoundsAssumption DEF LimitsFit, QueueInv, ClaimsFit, RowsFit
<1>2. ASSUME NEW claim, NEW rows, txn' = [txn EXCEPT ![w] = claim], queue' = rows,
             ClaimKeeps(claim, rows), \A d \in Docs : rows[d].attempts <= MaxAttempts,
             \A h : Cardinality(Held(h, rows, {})) <= PerHost
      PROVE  LimitsFit'
  <2>1. \A v \in Workers : txn'[v] = claim
    BY <1>1, <1>2 DEF Lone
  <2>2. QED
    BY <1>2, <2>1 DEF LimitsFit
<1>3. NoTxn.picked = {} /\ NoTxn.chosen = {}
  BY DEF NoTxn
<1>4. ASSUME NEW rows, \A h : Cardinality(Held(h, rows, {})) <= PerHost PROVE ClaimKeeps(NoTxn, rows)
  BY <1>3, <1>4 DEF ClaimKeeps
<1>5. CASE ClaimLock(w)
  <2> DEFINE others == UNION {txn[v].expired \cup txn[v].picked : v \in Workers \ {w}}
             claim == [txn[w] EXCEPT !.step = "picked", !.picked = txn[w].chosen \ others]
  <2>1. txn' = [txn EXCEPT ![w] = claim] /\ queue' = queue
    BY <1>5 DEF ClaimLock, tables
  <2>2. claim.chosen = txn[w].chosen /\ claim.expired = txn[w].expired /\ claim.picked \subseteq txn[w].chosen
    BY DEF QueueInv, ClaimsFit
  <2> HIDE DEF claim
  <2>3. ClaimKeeps(claim, queue)
    BY <1>1, <2>2 DEF ClaimKeeps
  <2>4. QED
    BY <1>2, <2>1, <2>3 DEF LimitsFit
<1>6. CASE WorkerDies(w)
  <2>1. txn' = [txn EXCEPT ![w] = NoTxn] /\ queue' = queue
    BY <1>6 DEF WorkerDies, tables
  <2>2. QED
    BY <1>2, <1>4, <2>1 DEF LimitsFit
<1>7. CASE ClaimCommit(w)
  <2> DEFINE claim == txn[w]
             rows == [d \in Docs |->
                        IF d \in claim.picked
                        THEN [RowInClaim(claim.expired, d) EXCEPT !.status = "running", !.attempts = @ + 1, !.lapsed = FALSE]
                        ELSE RowInClaim(claim.expired, d)]
  <2>1. queue' = rows /\ txn' = [txn EXCEPT ![w] = NoTxn]
    BY <1>7 DEF ClaimCommit
  <2>2. ASSUME NEW d \in Docs
        PROVE  /\ RowInClaim(claim.expired, d) \in Row
               /\ RowInClaim(claim.expired, d).attempts
                    = IF d \in claim.expired THEN Released(queue[d]).attempts ELSE queue[d].attempts
               /\ RowInClaim(claim.expired, d).status = "running" => RowInClaim(claim.expired, d) = queue[d]
    <3>1. RowInClaim(claim.expired, d) \in Row /\ queue[d] \in Row
      BY <1>1, RowOfClaim
    <3>2. Released(queue[d]).status = "retry"
      BY <3>1, RowsReleased
    <3>3. QED
      BY <3>1, <3>2 DEF RowInClaim
  <2>3. ASSUME NEW d \in Docs PROVE rows[d].attempts <= MaxAttempts
    <3>1. RowInClaim(claim.expired, d).attempts \in Nat
      BY <2>2, ReleasedAttempts
    <3>2. CASE d \in claim.picked
      <4>1. rows[d].attempts = RowInClaim(claim.expired, d).attempts + 1
        BY <2>2, <3>2 DEF Row
      <4>2. RowInClaim(claim.expired, d).attempts < MaxAttempts
        BY <1>1, <2>2, <3>2 DEF ClaimKeeps
      <4> HIDE DEF rows
      <4>3. QED
        BY <1>1, <3>1, <4>1, <4>2
    <3>3. CASE d \notin claim.picked
      <4>1. rows[d] = RowInClaim(claim.expired, d)
        BY <3>3
      <4>2. queue[d].attempts <= MaxAttempts
        BY DEF LimitsFit
      <4>3. queue[d] \in Row
        BY <1>1
      <4> HIDE DEF rows
      <4>4. QED
        BY <1>1, <2>2, <3>1, <4>1, <4>2, <4>3, ReleasedAttempts
    <3>4. QED
      BY <3>2, <3>3
  <2>4. ASSUME NEW h PROVE Cardinality(Held(h, rows, {})) <= PerHost
    <3>1. ASSUME NEW d \in Docs, Live(rows[d]) PROVE Live(queue[d]) \/ d \in claim.chosen
      <4>1. CASE d \in claim.picked
        BY <1>1, <4>1 DEF ClaimKeeps
      <4>2. CASE d \notin claim.picked
        <5>1. rows[d] = RowInClaim(claim.expired, d)
          BY <4>2
        <5>2. RowInClaim(claim.expired, d).status = "running"
          BY <3>1, <5>1 DEF Live
        <5>3. rows[d] = queue[d]
          BY <2>2, <5>1, <5>2
        <5> HIDE DEF rows
        <5>4. QED
          BY <3>1, <5>3
      <4>3. QED
        BY <4>1, <4>2
    <3> HIDE DEF rows
    <3>2. Held(h, rows, {}) \subseteq Held(h, queue, claim.chosen)
      BY <3>1 DEF Held
    <3>3. Held(h, queue, claim.chosen) \subseteq Docs
      BY DEF Held
    <3>4. QED
      BY <1>1, <3>2, <3>3, HoldsLess DEF ClaimKeeps
  <2> HIDE DEF rows
  <2>5. QED
    BY <1>2, <1>4, <2>1, <2>3, <2>4
<1>8. QED
  BY <1>5, <1>6, <1>7

\* What else happens to rows calms them down.
LEMMA LimitsStep ==
  Lone /\ QueueInv /\ QueueInv' /\ LimitsFit /\ [Next]_vars => LimitsFit'
<1> SUFFICES ASSUME Lone, QueueInv, QueueInv', LimitsFit, [Next]_vars PROVE LimitsFit'
  OBVIOUS
<1>0. queue \in [Docs -> Row] /\ queue' \in [Docs -> Row]
  BY DEF QueueInv, RowsFit
<1>1. CASE UNCHANGED <<queue, txn>>
  BY <1>1 DEF LimitsFit
<1>2. ASSUME NEW row \in Row
      PROVE  /\ Calmer(row, row)
             /\ \A new \in Row : new.attempts <= row.attempts /\ new.status # "running" => Calmer(new, row)
  BY ReleasedAttempts DEF Calmer
<1>3. CASE \E w \in Workers : Claim(w) \/ WorkerDies(w)
  BY <1>3, ChosenFit, CommitFit DEF Claim
\* A row that a step takes out of "running", and whose attempts it leaves.
<1>4. ASSUME NEW d \in Docs, NEW row, UNCHANGED txn, queue' = [queue EXCEPT ![d] = row],
             row.attempts = queue[d].attempts,
             row.status # "running" \/ (row.status = queue[d].status /\ row.lapsed = queue[d].lapsed)
      PROVE  LimitsFit'
  <2>1. queue[d].attempts \in Nat
    BY <1>0, ReleasedAttempts
  <2>2. Calmer(row, queue[d])
    BY <1>4, <2>1 DEF Calmer
  <2>3. QED
    BY <1>4, <2>2, OneRow
<1>5. ASSUME NEW w \in Workers, NEW s \in Slots, Download(w, s) \/ Record(w, s) PROVE LimitsFit'
  <2>1. CASE Download(w, s)
    BY <1>1, <2>1 DEF Download, tables
  <2>2. CASE Record(w, s)
    <3> DEFINE t == flight[w][s]
               d == t.doc
               row == [queue[d] EXCEPT !.status = NextStatus(t), !.due = (NextStatus(t) # "retry"),
                                       !.lapsed = FALSE, !.error = ErrorOf(t)]
    <3>1. d \in Docs /\ UNCHANGED txn
      BY <2>2 DEF Record, QueueInv, TasksFit, Task
    <3>2. queue' = [queue EXCEPT ![d].status = NextStatus(t), ![d].due = (NextStatus(t) # "retry"),
                                 ![d].lapsed = FALSE, ![d].error = ErrorOf(t)]
      BY <2>2 DEF Record
    <3>3. NextStatus(t) # "running"
      BY DEF NextStatus
    <3> HIDE DEF d, t
    <3>4. queue' = [queue EXCEPT ![d] = row] /\ row.attempts = queue[d].attempts /\ row.status = NextStatus(t)
      BY <1>0, <3>1, <3>2 DEF Row
    <3> HIDE DEF row
    <3>5. QED
      BY <1>4, <3>1, <3>3, <3>4
  <2>3. QED
    BY <1>5, <2>1, <2>2
<1>6. ASSUME NEW d \in Docs, BecomeDue(d) \/ LeaseEnds(d) PROVE LimitsFit'
  <2>1. CASE BecomeDue(d)
    <3> DEFINE row == [queue[d] EXCEPT !.due = TRUE]
    <3>1. queue' = [queue EXCEPT ![d] = row] /\ UNCHANGED txn /\ queue[d].status = "retry"
      BY <2>1 DEF BecomeDue
    <3>2. row.attempts = queue[d].attempts /\ row.status = queue[d].status
      BY <1>0 DEF Row
    <3> HIDE DEF row
    <3>3. QED
      BY <1>4, <3>1, <3>2
  <2>2. CASE LeaseEnds(d)
    <3> DEFINE row == [queue[d] EXCEPT !.lapsed = TRUE]
    <3>1. queue' = [queue EXCEPT ![d] = row] /\ UNCHANGED txn /\ queue[d].status = "running"
      BY <2>2 DEF LeaseEnds
    <3>2. row.attempts = queue[d].attempts /\ row.lapsed = TRUE /\ queue[d].attempts \in Nat
      BY <1>0 DEF Row
    <3> HIDE DEF row
    <3>3. Calmer(row, queue[d])
      BY <3>1, <3>2 DEF Calmer
    <3>4. QED
      BY <3>1, <3>3, OneRow
  <2>3. QED
    BY <1>6, <2>1, <2>2
\* A command that gives back failed rows, or touches others lightly.
<1>7. ASSUME UNCHANGED txn, \A d \in Docs : queue'[d] = queue[d]
                \/ (queue'[d].status # "running" /\ queue'[d].attempts = 0)
                \/ (queue'[d].status = queue[d].status /\ queue'[d].attempts = queue[d].attempts
                    /\ queue'[d].lapsed = queue[d].lapsed)
      PROVE  LimitsFit'
  <2>1. ASSUME NEW d \in Docs PROVE Calmer(queue'[d], queue[d])
    <3>1. queue[d].attempts \in Nat
      BY <1>0, ReleasedAttempts
    <3>2. QED
      BY <1>7, <3>1 DEF Calmer
  <2>2. QED
    BY <1>7, <2>1, CalmStep
<1>8. ASSUME NEW docs, NEW high, Import(docs, high) PROVE LimitsFit'
  <2>1. UNCHANGED txn /\ \A d \in Docs : queue'[d] = queue[d]
                            \/ queue'[d] = [NoRow EXCEPT !.status = "pending", !.high = high]
    BY <1>8 DEF Import
  <2>2. /\ [NoRow EXCEPT !.status = "pending", !.high = high].status # "running"
        /\ [NoRow EXCEPT !.status = "pending", !.high = high].attempts = 0
    BY DEF NoRow
  <2>3. QED
    BY <1>7, <2>1, <2>2
<1>9. ASSUME NEW row \in Row PROVE Requeued(row).status # "running" /\ Requeued(row).attempts = 0
  BY DEF Requeued, Row
<1>10. ASSUME NEW codes, RequeueFailed(codes) PROVE LimitsFit'
  <2>1. UNCHANGED txn /\ \A d \in Docs : queue'[d] = queue[d] \/ queue'[d] = Requeued(queue[d])
    BY <1>10 DEF RequeueFailed, Keep
  <2>2. QED
    BY <1>0, <1>7, <1>9, <2>1
<1>11. ASSUME NEW override \in BOOLEAN, NEW requeue \in BOOLEAN, PreparePerimeter(override, requeue) PROVE LimitsFit'
  <2> DEFINE Marked(d) == [queue[d] EXCEPT !.high = TRUE,
                                           !.override = @ \/ (override /\ best[d] = NoVersion)]
  <2>1. ASSUME NEW d \in Docs
        PROVE  queue'[d] = queue[d] \/ queue'[d] = Marked(d) \/ queue'[d] = Requeued(Marked(d))
    BY <1>11 DEF PreparePerimeter
  <2>2. ASSUME NEW d \in Docs
        PROVE  /\ Marked(d) \in Row /\ Marked(d).status = queue[d].status
               /\ Marked(d).attempts = queue[d].attempts /\ Marked(d).lapsed = queue[d].lapsed
    <3>1. queue[d] \in Row
      BY <1>0
    <3>2. (queue[d].override \/ (override /\ best[d] = NoVersion)) \in BOOLEAN
      OBVIOUS
    <3>3. QED
      BY <3>1, <3>2 DEF Row
  <2> HIDE DEF Marked
  <2>3. UNCHANGED txn
    BY <1>11 DEF PreparePerimeter, Keep
  <2>4. QED
    BY <1>7, <1>9, <2>1, <2>2, <2>3
<1>12. ASSUME NEW d \in Docs, NEW complete, NEW when, StoreArtifact(d, complete, when) PROVE LimitsFit'
  <2>1. UNCHANGED txn /\ (queue' = queue \/ queue' = [queue EXCEPT ![d].status = "succeeded", ![d].lapsed = FALSE])
    BY <1>12 DEF StoreArtifact, Keep
  <2> DEFINE row == [queue[d] EXCEPT !.status = "succeeded", !.lapsed = FALSE]
  <2>2. row.status = "succeeded" /\ row.attempts = queue[d].attempts
        /\ [queue EXCEPT ![d].status = "succeeded", ![d].lapsed = FALSE] = [queue EXCEPT ![d] = row]
    BY <1>0 DEF Row
  <2> HIDE DEF row
  <2>3. QED
    BY <1>1, <1>4, <2>1, <2>2
<1>13. ASSUME NEW d \in Docs, NEW taken, NEW complete, StoreCached(d, taken, complete) PROVE LimitsFit'
  BY <1>1, <1>13 DEF StoreCached, Keep
<1>14. CASE ReparseRead \/ PlanRead \/ PassEnds
  BY <1>1, <1>14 DEF ReparseRead, PlanRead, PassEnds, Keep, tables
<1>15. ASSUME NEW r \in pass.rows PROVE r.doc \in Docs
  BY DEF QueueInv, PassFits
<1>16. ASSUME NEW r \in pass.rows, NEW release, Reparse(r, release) PROVE LimitsFit'
  <2> DEFINE d == r.doc
             row == [queue[d] EXCEPT !.status = "succeeded", !.error = "none", !.due = TRUE]
  <2>1. UNCHANGED txn /\ (queue' = queue
          \/ queue' = [queue EXCEPT ![d].status = "succeeded", ![d].error = "none", ![d].due = TRUE])
    BY <1>16 DEF Reparse, Keep
  <2>2. d \in Docs
    BY <1>15
  <2> HIDE DEF d
  <2>3. row.status = "succeeded" /\ row.attempts = queue[d].attempts
        /\ [queue EXCEPT ![d].status = "succeeded", ![d].error = "none", ![d].due = TRUE] = [queue EXCEPT ![d] = row]
    BY <1>0, <2>2 DEF Row
  <2> HIDE DEF row
  <2>4. QED
    BY <1>1, <1>4, <2>1, <2>2, <2>3
<1>17. ASSUME NEW r \in pass.rows, PlanTerminal(r) PROVE LimitsFit'
  <2> DEFINE d == r.doc
             row == [queue[d] EXCEPT !.tried = r.tried, !.terminal = TRUE]
  <2>1. UNCHANGED txn /\ queue' = [queue EXCEPT ![d].tried = r.tried, ![d].terminal = TRUE]
    BY <1>17 DEF PlanTerminal, Keep
  <2>2. d \in Docs
    BY <1>15
  <2> HIDE DEF d
  <2>3. /\ queue' = [queue EXCEPT ![d] = row] /\ row.attempts = queue[d].attempts
        /\ row.status = queue[d].status /\ row.lapsed = queue[d].lapsed
    BY <1>0, <2>1, <2>2 DEF Row
  <2> HIDE DEF row
  <2>4. QED
    BY <1>4, <2>1, <2>2, <2>3
<1>18. ASSUME NEW r \in pass.rows, Escalate(r) PROVE LimitsFit'
  <2> DEFINE d == r.doc
  <2>1. d \in Docs /\ UNCHANGED txn
    BY <1>15, <1>18 DEF Escalate, Keep
  <2>2. PICK rung : queue' = [queue EXCEPT ![d].rung = rung, ![d].tried = r.tried,
                                           ![d].status = "retry", ![d].due = TRUE]
    BY <1>18 DEF Escalate
  <2> DEFINE row == [queue[d] EXCEPT !.rung = rung, !.tried = r.tried, !.status = "retry", !.due = TRUE]
  <2> HIDE DEF d
  <2>3. queue' = [queue EXCEPT ![d] = row] /\ row.attempts = queue[d].attempts /\ row.status = "retry"
    BY <1>0, <2>1, <2>2 DEF Row
  <2> HIDE DEF row
  <2>4. QED
    BY <1>4, <2>1, <2>3
<1>19. CASE UNCHANGED vars
  BY <1>1, <1>19 DEF vars, tables
<1>20. QED
  BY <1>3, <1>5, <1>6, <1>8, <1>10, <1>11, <1>12, <1>13, <1>14, <1>16, <1>17, <1>18, <1>19 DEF Next, Operate

\* Nothing is attempted at the start.
LEMMA LimitsBegin == Init => LimitsFit
<1> SUFFICES ASSUME Init PROVE LimitsFit
  OBVIOUS
<1>1. \A d \in Docs : queue[d] = NoRow
  BY DEF Init
<1>2. NoRow.status = "none" /\ NoRow.attempts = 0
  BY DEF NoRow
<1>3. \A h : Held(h, queue, {}) = {}
  BY <1>1, <1>2 DEF Held, Live
<1>4. \A h : Cardinality(Held(h, queue, {})) = 0
  BY <1>3, FS_EmptySet
<1>5. MaxAttempts \in Nat /\ PerHost \in Nat
  BY BoundsAssumption
<1>6. NoTxn.picked = {} /\ NoTxn.chosen = {}
  BY DEF NoTxn
<1>7. ClaimKeeps(NoTxn, queue)
  BY <1>4, <1>5, <1>6 DEF ClaimKeeps
<1>8. QED
  BY <1>1, <1>2, <1>4, <1>5, <1>7 DEF Init, LimitsFit

\* Behaviour of claim_tasks and record_fetch_result: with one worker no row is attempted
\* more often than the settings allow between two requeues, and no host has more live
\* leases than its limit, whatever the operator commits between the statements of a claim.
THEOREM LoneWorkerKeepsLimits ==
  ASSUME Lone PROVE Spec => [](AttemptsBounded /\ HostLimit)
<1>1. LimitsFit => AttemptsBounded /\ HostLimit
  <2> SUFFICES ASSUME LimitsFit PROVE AttemptsBounded /\ HostLimit
    OBVIOUS
  <2>1. \A h : {d \in Docs : Host[d] = h /\ queue[d].status = "running" /\ ~queue[d].lapsed}
                 = Held(h, queue, {})
    BY DEF Held, Live
  <2>2. \A h : Cardinality({d \in Docs : Host[d] = h /\ queue[d].status = "running" /\ ~queue[d].lapsed})
                 <= PerHost
    BY <2>1 DEF LimitsFit
  <2>3. QED
    BY <2>2 DEF LimitsFit, AttemptsBounded, HostLimit
<1>2. (QueueInv /\ LimitsFit) /\ [Next]_vars => (QueueInv /\ LimitsFit)'
  BY QueueStep, LimitsStep
<1>3. QED
  BY <1>1, <1>2, QueueBegins, LimitsBegin, PTL DEF Spec

=============================================================================
