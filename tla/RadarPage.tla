------------------------------- MODULE RadarPage -------------------------------
(***************************************************************************)
(* The radar page (v2/apps/web/app.mjs): one tab, whose clicks, typing,    *)
(* history steps, timers and replies interleave.  A reload counts a        *)
(* generation, asks for the news and the sources of what the reader chose, *)
(* and may draw only while its generation is the last; a failed one is     *)
(* repeated by a timer.  The address keeps the choice, and a fresh load or *)
(* a step through the history reads it back.                               *)
(* Abstracted: the perimeter and the search text are one query, the        *)
(* rubrics one switch, 7d and 30d one period; the trend panels, the        *)
(* gazette and the agent are other parts of the page.  A reload that a     *)
(* history step starts is not followed into a second banner.               *)
(***************************************************************************)
EXTENDS Naturals, Sequences

CONSTANTS
    Dates,          \* calendar dates a reader can name
    Present,        \* those with an issue
    Latest,         \* the date of the latest issue
    Yesterday,      \* the day before it
    Queries,        \* choices of perimeter and search text; NoQuery is none
    FirstAddress,   \* the address the page is opened at
    Delays,         \* length of RELOAD_RETRY_DELAYS_MS
    MaxReloads,     \* bound: generations
    MaxSteps,       \* bound: acts of the reader
    NoQuery, Root, Nothing

Periods == {"issue", "yesterday", "7d"}
Dated == {"issue", "yesterday"}
Address == [path : Dates \cup {Root}, period : Periods, query : Queries, rubric : BOOLEAN]
\* A request for news, and what the columns show.
RequestType == [period : Periods, query : Queries, issueDate : Dates \cup {Nothing}]
Drawing == [request : RequestType, rubric : BOOLEAN]

ASSUME PageAssumption ==
    /\ Present \subseteq Dates /\ Latest \in Present /\ Yesterday \in Dates
    /\ NoQuery \in Queries /\ FirstAddress \in Address
    /\ {Delays, MaxReloads, MaxSteps} \subseteq Nat
    /\ {Root, Nothing} \cap Dates = {}
    /\ Nothing \notin Drawing \cup [gen : Nat, attempt : Nat]

VARIABLES
    view,       \* state: period, issueDate, query, rubric
    latest,     \* latest: Nothing before /api/latest answered
    cache,      \* issueCache: dates whose payload, or absence, is known
    generation, \* reloadGeneration
    loads,      \* reloads whose news are awaited: generation, request, attempt
    sources,    \* drawn reloads whose sources are awaited
    retry,      \* reloadTimer: generation and attempt, or Nothing
    typing,     \* searchTimer is set
    current,    \* radarDataCurrent
    loading,    \* state.loading
    notice,     \* radarLoadNotice: "none", "updating", "retrying", "press"
    drawn,      \* the columns: request and rubric they show, or Nothing
    drawnBy,    \* renderedRadarGeneration
    footer,     \* renderFooterSources: request and whether its rows arrived
    history, at,\* addresses of the tab, and the one shown
    shown,      \* shownAddress
    start,      \* where init stands
    startGen,   \* the generation init awaits
    steps       \* acts of the reader so far

pageVars == <<view, latest, cache, generation, loads, sources, retry, typing, current,
              loading, notice, drawn, drawnBy, footer, history, at, shown, start,
              startGen, steps>>

-----------------------------------------------------------------------------
\* Addresses and choices.

View == [period : Periods, issueDate : Dates \cup {Nothing}, query : Queries, rubric : BOOLEAN]

\* activeIssueDate
ActiveDate(v, l) == IF v.issueDate # Nothing THEN v.issueDate ELSE l

YesterdayOf(l) == IF l = Nothing THEN Nothing ELSE Yesterday

\* readRadarAddress: yesterday beside another date is an issue.
ReadAddress(a, l) ==
    LET wanted == IF a.path = Root THEN Nothing ELSE a.path
        period == IF a.period = "yesterday" /\ wanted # Nothing /\ wanted # YesterdayOf(l)
                  THEN "issue" ELSE a.period
    IN  [period |-> period,
         issueDate |-> CASE period = "7d" -> Nothing
                         [] period # "7d" /\ wanted # Nothing -> wanted
                         [] period = "yesterday" /\ wanted = Nothing -> YesterdayOf(l)
                         [] period = "issue" /\ wanted = Nothing -> Nothing,
         query |-> a.query, rubric |-> a.rubric]

\* issuePath and syncIssueAddress: the latest issue has no address of its own.
AddressOf(v, l) ==
    [path |-> IF v.period \in Dated /\ v.issueDate \notin {Nothing, l} THEN v.issueDate ELSE Root,
     period |-> v.period, query |-> v.query, rubric |-> v.rubric]

Here == history[at]

Push(a) ==
    IF a = Here THEN UNCHANGED <<history, at>> /\ shown' = a
    ELSE history' = Append(SubSeq(history, 1, at), a) /\ at' = at + 1 /\ shown' = a

Replace(a) == history' = [history EXCEPT ![at] = a] /\ shown' = a /\ UNCHANGED at

Request(v, l) == [period |-> v.period, query |-> v.query, issueDate |-> ActiveDate(v, l)]

-----------------------------------------------------------------------------

Init0View == [period |-> "issue", issueDate |-> Nothing, query |-> NoQuery, rubric |-> FALSE]

PageInit ==
    /\ view = Init0View /\ latest = Nothing /\ cache = {}
    /\ generation = 0 /\ loads = {} /\ sources = {} /\ retry = Nothing /\ typing = FALSE
    /\ current = FALSE /\ loading = FALSE /\ notice = "none"
    /\ drawn = Nothing /\ drawnBy = 0 /\ footer = Nothing
    /\ history = <<FirstAddress>> /\ at = 1 /\ shown = Nothing
    /\ start = "asking" /\ startGen = 0 /\ steps = 0

\* What follows an await runs before anything else does.
Quiet == start \notin {"checking", "finishing"}

\* The synchronous part of reload, over the choice v.
Reload(v, l, attempt) ==
    /\ generation < MaxReloads
    /\ generation' = generation + 1
    /\ loads' = loads \cup {[gen |-> generation + 1, request |-> Request(v, l), attempt |-> attempt]}
    /\ retry' = Nothing
    /\ current' = FALSE /\ loading' = TRUE
    /\ notice' = IF drawn = Nothing THEN notice ELSE "updating"
    /\ UNCHANGED <<drawn, drawnBy, footer, sources>>

-----------------------------------------------------------------------------
\* init.

LatestAnswers ==
    /\ Quiet /\ start = "asking"
    /\ \/ latest' = Latest /\ cache' = cache \cup {Latest} /\ start' = "catalog"
       \/ start' = "failed" /\ UNCHANGED <<latest, cache>>
    /\ UNCHANGED <<view, generation, loads, sources, retry, typing, current, loading, notice,
                   drawn, drawnBy, footer, history, at, shown, startGen, steps>>

\* apiError's banner runs init again, by its timer or by its button.
StartAgain ==
    /\ Quiet /\ start = "failed"
    /\ start' = "asking"
    /\ UNCHANGED <<view, latest, cache, generation, loads, sources, retry, typing, current,
                   loading, notice, drawn, drawnBy, footer, history, at, shown, startGen, steps>>

\* The catalogue answered or not: the address is read and the first reload runs.
FirstReload ==
    /\ Quiet /\ start = "catalog"
    /\ view' = ReadAddress(Here, latest)
    /\ Reload(view', latest, 0)
    /\ start' = "loading" /\ startGen' = generation'
    /\ UNCHANGED <<latest, cache, typing, history, at, shown, steps>>

Absent(d) == d # Nothing /\ d \in cache /\ d \notin Present

\* Behind its first reload init falls back from an absent issue to the latest
\* one; otherwise it makes the address canonical.
Check ==
    /\ start = "checking"
    /\ IF Absent(view.issueDate)
       THEN /\ view' = [view EXCEPT !.issueDate = Nothing]
            /\ Reload(view', latest, 0)
            /\ start' = "reloading" /\ startGen' = generation'
            /\ UNCHANGED <<history, at, shown>>
       ELSE /\ Replace(AddressOf(view, latest))
            /\ start' = "settled"
            /\ UNCHANGED <<view, generation, loads, sources, retry, current, loading, notice,
                           drawn, drawnBy, footer, startGen>>
    /\ UNCHANGED <<latest, cache, typing, steps>>

Finish ==
    /\ start = "finishing"
    /\ Replace(AddressOf(view, latest))
    /\ start' = "settled"
    /\ UNCHANGED <<view, latest, cache, generation, loads, sources, retry, typing, current,
                   loading, notice, drawn, drawnBy, footer, startGen, steps>>

\* The reload that init awaits has returned.
Awaited(l) ==
    start' = IF l.gen # startGen THEN start
             ELSE CASE start = "loading" -> "checking"
                    [] start = "reloading" -> "finishing"
                    [] OTHER -> start

-----------------------------------------------------------------------------
\* Replies and timers.

\* Variant: a late reply is drawn too.
LastAny(l) == TRUE

LastAttempt(l) == l.gen = generation

\* An issue that is known, or is the latest, is not asked for.
Asks(r) == r.period = "7d" \/ r.issueDate \notin cache \cup {latest}

\* The news of a reload arrived: they are drawn if nothing was chosen since.
\* A period drawn before the latest issue is known stops at its label.
NewsArrive(l) ==
    /\ Quiet /\ l \in loads
    /\ l.request.period # "7d" => l.request.issueDate # Nothing
    /\ loads' = loads \ {l}
    /\ cache' = IF l.request.period = "7d" THEN cache ELSE cache \cup {l.request.issueDate}
    /\ IF LastAttempt(l)
       THEN /\ current' = TRUE /\ loading' = FALSE /\ notice' = "none"
            /\ drawnBy' = l.gen
            /\ IF latest = Nothing /\ view.period = "7d"
               THEN UNCHANGED <<drawn, footer, sources>>
               ELSE /\ drawn' = [request |-> l.request, rubric |-> view.rubric]
                    /\ footer' = [request |-> l.request, rows |-> FALSE]
                    /\ sources' = sources \cup {l}
       ELSE UNCHANGED <<current, loading, notice, drawn, drawnBy, footer, sources>>
    /\ Awaited(l)
    /\ UNCHANGED <<view, latest, generation, retry, typing, history, at, shown, startGen, steps>>

NewsFail(l) ==
    /\ Quiet /\ l \in loads /\ (Asks(l.request) \/ l.request.issueDate = Nothing)
    /\ loads' = loads \ {l}
    /\ IF LastAttempt(l)
       THEN /\ loading' = FALSE
            /\ IF l.attempt < Delays
               THEN retry' = [gen |-> l.gen, attempt |-> l.attempt + 1] /\ notice' = "retrying"
               ELSE notice' = "press" /\ UNCHANGED retry
       ELSE UNCHANGED <<loading, retry, notice>>
    /\ Awaited(l)
    /\ UNCHANGED <<view, latest, cache, generation, sources, typing, current, drawn, drawnBy,
                   footer, history, at, shown, startGen, steps>>

OfTheNews(l) == l.gen = drawnBy

SourcesArrive(l) ==
    /\ Quiet /\ l \in sources
    /\ sources' = sources \ {l}
    /\ footer' = IF OfTheNews(l) THEN [request |-> l.request, rows |-> TRUE] ELSE footer
    /\ UNCHANGED <<view, latest, cache, generation, loads, retry, typing, current, loading,
                   notice, drawn, drawnBy, history, at, shown, start, startGen, steps>>

RetryFires ==
    /\ Quiet /\ retry # Nothing
    /\ Reload(view, latest, retry.attempt)
    /\ UNCHANGED <<view, latest, cache, typing, history, at, shown, start, startGen, steps>>

TypingEnds ==
    /\ Quiet /\ typing
    /\ typing' = FALSE
    /\ Replace(AddressOf(view, latest))
    /\ Reload(view, latest, 0)
    /\ UNCHANGED <<view, latest, cache, start, startGen, steps>>

-----------------------------------------------------------------------------
\* The reader.

Acts == Quiet /\ steps < MaxSteps /\ steps' = steps + 1

\* A tab, a day of the calendar (it lists issues) or a filter: the choice, the
\* reload, the address.
Chosen ==
    {[view EXCEPT !.period = "7d", !.issueDate = Nothing],
     [view EXCEPT !.period = "issue", !.issueDate = Nothing],
     [view EXCEPT !.period = "yesterday", !.issueDate = YesterdayOf(latest)]}
    \cup {[view EXCEPT !.period = "issue", !.issueDate = d] : d \in Present}
    \cup {[view EXCEPT !.query = q] : q \in Queries}

Choose ==
    /\ Acts
    /\ \E v \in Chosen \ {view} : view' = v /\ Reload(v, latest, 0) /\ Push(AddressOf(v, latest))
    /\ UNCHANGED <<latest, cache, typing, start, startGen>>

\* resetFilters and the search filter's cross also stop the search timer.
ClearFilters ==
    /\ Acts
    /\ view' = [view EXCEPT !.query = NoQuery, !.rubric = FALSE]
    /\ typing' = FALSE
    /\ Reload(view', latest, 0) /\ Push(AddressOf(view', latest))
    /\ UNCHANGED <<latest, cache, start, startGen>>

\* A key in the search field: invalidateReload now, the reload 180 ms later.
Type ==
    /\ Acts /\ generation < MaxReloads
    /\ \E q \in Queries : view' = [view EXCEPT !.query = q]
    /\ generation' = generation + 1 /\ retry' = Nothing /\ current' = FALSE
    /\ typing' = TRUE
    /\ UNCHANGED <<latest, cache, loads, sources, loading, notice, drawn, drawnBy, footer,
                   history, at, shown, start, startGen>>

Redraws == ~loading /\ current

\* A rubric changes what is drawn of the same news.
ToggleRubric ==
    /\ Acts
    /\ view' = [view EXCEPT !.rubric = ~@]
    /\ Push(AddressOf(view', latest))
    /\ drawn' = IF Redraws /\ drawn # Nothing THEN [drawn EXCEPT !.rubric = view'.rubric] ELSE drawn
    /\ UNCHANGED <<latest, cache, generation, loads, sources, retry, typing, current, loading,
                   notice, drawnBy, footer, start, startGen>>

\* The logo's #top is an entry of the history with the same address.
ToTop ==
    /\ Acts
    /\ history' = Append(SubSeq(history, 1, at), Here) /\ at' = at + 1
    /\ UNCHANGED <<view, latest, cache, generation, loads, sources, retry, typing, current,
                   loading, notice, drawn, drawnBy, footer, shown, start, startGen>>

StopsTyping(a) == a # shown

Step ==
    /\ Acts
    /\ \E n \in {at - 1, at + 1} : n \in 1..Len(history) /\ at' = n
    /\ typing' = IF StopsTyping(history[at']) THEN FALSE ELSE typing
    /\ IF history[at'] = shown
       THEN UNCHANGED <<view, shown, generation, loads, sources, retry, current, loading,
                        notice, drawn, drawnBy, footer>>
       ELSE /\ shown' = history[at']
            /\ view' = ReadAddress(history[at'], latest)
            /\ Reload(view', latest, 0)
    /\ UNCHANGED <<latest, cache, history, start, startGen>>

\* "Повторить" of the load notice.
PressRetry ==
    /\ Acts /\ notice \in {"retrying", "press"}
    /\ Reload(view, latest, 0)
    /\ UNCHANGED <<view, latest, cache, typing, history, at, shown, start, startGen>>

-----------------------------------------------------------------------------

PageNext ==
    \/ LatestAnswers \/ StartAgain \/ FirstReload \/ Check \/ Finish
    \/ \E l \in loads : NewsArrive(l) \/ NewsFail(l)
    \/ \E l \in sources : SourcesArrive(l)
    \/ RetryFires \/ TypingEnds
    \/ Choose \/ ClearFilters \/ Type \/ ToggleRubric \/ ToTop \/ Step \/ PressRetry

PageSpec == PageInit /\ [][PageNext]_pageVars

-----------------------------------------------------------------------------

\* What the page keeps is of its kind.
PageTypeOK ==
    /\ view \in View /\ latest \in {Nothing, Latest} /\ cache \subseteq Dates
    /\ generation \in 0..MaxReloads /\ drawnBy \in 0..generation
    /\ \A l \in loads \cup sources : l.gen \in 1..generation /\ l.attempt \in 0..Delays
    /\ current \in BOOLEAN /\ loading \in BOOLEAN /\ typing \in BOOLEAN
    /\ at \in 1..Len(history) /\ \A n \in 1..Len(history) : history[n] \in Address
    /\ steps \in 0..MaxSteps

\* After the first reload of init every later one knows the latest issue.
Started == start \in {"loading", "checking", "reloading", "finishing", "settled"}

\* News called current are those of what is chosen now, under the rubrics
\* chosen now, whatever replies, timers and clicks came in between.
ShowsTheChoice ==
    (Started /\ current) => drawn = [request |-> Request(view, latest), rubric |-> view.rubric]

\* The footer never lists the sources of other news than the columns show.
FooterOfTheNews ==
    (drawn # Nothing /\ footer # Nothing) => footer.request = drawn.request

\* Nothing is awaited for ever: data that are not current have a reply, a timer
\* or the notice's button ahead of them.
SomethingAhead ==
    (Started /\ ~current) =>
        \/ \E l \in loads : l.gen = generation
        \/ retry # Nothing \/ typing \/ notice = "press" \/ ~Quiet

\* A link to an issue that does not exist shows the latest one: an empty screen
\* without a word about why is worse (app.mjs, init).
AbsentFallsBack ==
    (start = "settled" /\ steps = 0 /\ current) => drawn.request.issueDate \in Present \cup {Nothing}
=============================================================================
