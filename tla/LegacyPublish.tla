----------------------------- MODULE LegacyPublish -----------------------------
(***************************************************************************)
(* The nightly publication of the first Radar: the database is rebuilt     *)
(* from all reports, cards are classified, theses and the analysis of the  *)
(* day are made by models that fail, and the files the site and the second *)
(* Radar read are written one after the other.  Every script has its own   *)
(* transactions, any of them may be the last one of the night, and the     *)
(* texts of the cards can be made again by hand.                           *)
(***************************************************************************)
EXTENDS Naturals, FiniteSets, FiniteSetsExt

CONSTANTS
  Articles,    \* materials of the reports
  LastNight,   \* bound: nights
  LlmReady,    \* RADAR_LLM_* is configured for the theses
  MaxMaterials,   \* cards whose texts are asked for (--max-materials)
  MaxTries,    \* bound: publications and calls by hand
  MaxDeaths    \* bound: scripts that end early

ASSUME PublishAssumption ==
  /\ IsFiniteSet(Articles) /\ LastNight \in Nat \ {0}
  /\ LlmReady \in BOOLEAN
  /\ Cardinality(Articles) <= MaxMaterials   \* 10 of a report at most, of 20 that are asked

VARIABLES
  night,      \* the date
  reported,   \* reports in the corpus: articles of each date, NoFile where there is none
  script,     \* what runs
  issues,     \* issues: dates
  cards,      \* materials: <<date, article>>
  judged,     \* cards with rubrics and a classification
  texts,      \* material_llm_summaries: status of each card's texts, "none" without a row
  analysis,   \* issue_daily_analysis: status by date
  theses,     \* issue_llm_theses: status by date
  files,      \* issues/<date>.json
  front,      \* latest.json
  listed,     \* index.json
  tries, deaths   \* counters of the bounds

publishVars == <<night, reported, script, issues, cards, judged, texts, analysis, theses, files,
                 front, listed, tries, deaths>>

Nights == 1..LastNight
CardKeys == Nights \X Articles
NoFile == [none |-> TRUE]
Done == [pc |-> "done"]
CardsOf(d) == {c \in cards : c[1] = d}

PublishInit ==
  /\ night = 1 /\ reported = [d \in Nights |-> NoFile] /\ script = Done
  /\ issues = {} /\ cards = {} /\ judged = {} /\ texts = [c \in CardKeys |-> "none"]
  /\ analysis = [d \in Nights |-> "none"] /\ theses = [d \in Nights |-> "none"]
  /\ files = [d \in Nights |-> NoFile] /\ front = NoFile /\ listed = {}
  /\ tries = 0 /\ deaths = 0

\* The report of the night arrives in the corpus, or arrives once more, and the
\* publication follows it.  The script itself does not look whether it is there: what
\* starts it is not in the repository (docs/legacy-baseline-2026-08-19.md:105).
ReportArrives(found) ==
  /\ script = Done /\ tries < MaxTries
  /\ reported' = [reported EXCEPT ![night] = [articles |-> found]]
  /\ script' = [pc |-> "rebuild"] /\ tries' = tries + 1
  /\ UNCHANGED <<night, issues, cards, judged, texts, analysis, theses, files, front, listed, deaths>>

-----------------------------------------------------------------------------
(***************************************************************************)
(* agpm_radar_docx_backfill.py, llm_classify.py, issue_theses.py           *)
(***************************************************************************)
Dated == {d \in Nights : reported[d] # NoFile}
Reported == {c \in CardKeys : c[1] \in Dated /\ c[2] \in reported[c[1]].articles}

\* Variant: the issues are made afresh, too.
RebuildIssues ==
  /\ script.pc = "rebuild" /\ script' = [pc |-> "classify"]
  /\ issues' = Dated
  /\ cards' = Reported /\ judged' = {}
  /\ texts' = [c \in CardKeys |-> "none"]
  /\ analysis' = [d \in Nights |-> "none"]
  /\ UNCHANGED <<night, reported, theses, files, front, listed, tries, deaths>>

\* In one transaction the materials of all dates are deleted, and with them what refers to
\* them, and are made again from the reports; the issues stay.
Rebuild ==
  /\ script.pc = "rebuild" /\ script' = [pc |-> "classify"]
  /\ issues' = issues \cup Dated
  /\ cards' = Reported /\ judged' = {}
  /\ texts' = [c \in CardKeys |-> "none"]
  /\ UNCHANGED <<night, reported, analysis, theses, files, front, listed, tries, deaths>>

\* The cards without a classification; an answer that cannot be used leaves its card
\* without rubrics.
Classify(failed) ==
  /\ script.pc = "classify" /\ script' = [pc |-> "theses"]
  /\ failed \subseteq cards \ judged
  /\ judged' = cards \ failed
  /\ UNCHANGED <<night, reported, issues, cards, texts, analysis, theses, files, front, listed,
                 tries, deaths>>

\* existing_daily_analysis_current
Current(d) == analysis[d] = "success" \/ (analysis[d] = "fallback" /\ ~LlmReady)

\* All dates in one transaction; without a model the rules write the analysis.
Summarise(made) ==
  /\ script.pc = "theses" /\ script' = [pc |-> "daily"]
  /\ made \subseteq {d \in issues : ~Current(d)} /\ (LlmReady \/ made = {})
  /\ analysis' = [d \in Nights |-> IF d \notin issues \/ Current(d) THEN analysis[d]
                                   ELSE IF d \in made THEN "success" ELSE "fallback"]
  /\ UNCHANGED <<night, reported, issues, cards, judged, texts, theses, files, front, listed,
                 tries, deaths>>

-----------------------------------------------------------------------------
(***************************************************************************)
(* agpm_radar_openclaw_analysis.py for the date of the night               *)
(***************************************************************************)
\* mark_empty_issue: nothing is asked.
NothingToAnalyse ==
  /\ script.pc = "daily" /\ CardsOf(night) = {}
  /\ theses' = [theses EXCEPT ![night] = "skipped"]
  /\ script' = [pc |-> "export"]
  /\ UNCHANGED <<night, reported, issues, cards, judged, texts, analysis, files, front, listed,
                 tries, deaths>>

\* All models and attempts, then mark_error; either is committed.
AnalyseDay(status) ==
  /\ script.pc = "daily" /\ CardsOf(night) # {}
  /\ analysis' = [analysis EXCEPT ![night] = status]
  /\ script' = [pc |-> "brief"]
  /\ UNCHANGED <<night, reported, issues, cards, judged, texts, theses, files, front, listed,
                 tries, deaths>>

\* issue_context takes the first --max-materials cards, which are all of them.
AsksCards == [pc |-> "cards", left |-> CardsOf(night), ready |-> {}, byHand |-> FALSE]

BriefDay(status) ==
  /\ script.pc = "brief"
  /\ theses' = [theses EXCEPT ![night] = status]
  /\ script' = AsksCards
  /\ UNCHANGED <<night, reported, issues, cards, judged, texts, analysis, files, front, listed,
                 tries, deaths>>

\* --only-card-summaries
CardsByHand ==
  /\ script = Done /\ tries < MaxTries /\ CardsOf(night) # {}
  /\ script' = [AsksCards EXCEPT !.byHand = TRUE] /\ tries' = tries + 1
  /\ UNCHANGED <<night, reported, issues, cards, judged, texts, analysis, theses, files, front,
                 listed, deaths>>

\* Variant: a card without an article is passed over.
MarkErrors(c, status) == IF status = "fallback" THEN texts
                         ELSE [texts EXCEPT ![c] = IF @ = "success" THEN @ ELSE status]

\* mark_card_errors and mark_card_without_source: a success that is there stays.
Mark(c, status) == [texts EXCEPT ![c] = IF @ = "success" THEN @ ELSE status]

\* A card without an article, or all models and attempts fail for it.
CardLacks(c, status) ==
  /\ script.pc = "cards" /\ c \in script.left
  /\ texts' = Mark(c, status)
  /\ script' = [script EXCEPT !.left = @ \ {c}]
  /\ UNCHANGED <<night, reported, issues, cards, judged, analysis, theses, files, front, listed,
                 tries, deaths>>

\* The texts are kept in memory ...
CardMade(c) ==
  /\ script.pc = "cards" /\ c \in script.left
  /\ script' = [script EXCEPT !.left = @ \ {c}, !.ready = @ \cup {c}]
  /\ UNCHANGED <<night, reported, issues, cards, judged, texts, analysis, theses, files, front,
                 listed, tries, deaths>>

\* ... while one that repeats another is made again, in vain ...
CardRepeats(c) ==
  /\ script.pc = "cards" /\ script.left = {}
  /\ c \in script.ready /\ Cardinality(script.ready) > 1
  /\ texts' = Mark(c, "error")
  /\ script' = [script EXCEPT !.ready = @ \ {c}]
  /\ UNCHANGED <<night, reported, issues, cards, judged, analysis, theses, files, front, listed,
                 tries, deaths>>

\* ... and are written together.
WriteCards ==
  /\ script.pc = "cards" /\ script.left = {}
  /\ texts' = [c \in CardKeys |-> IF c \in script.ready THEN "success" ELSE texts[c]]
  /\ script' = IF script.byHand THEN Done ELSE [pc |-> "export"]
  /\ UNCHANGED <<night, reported, issues, cards, judged, analysis, theses, files, front, listed,
                 tries, deaths>>

-----------------------------------------------------------------------------
(***************************************************************************)
(* agpm_radar_quality.py and agpm_radar_site_export.py                     *)
(***************************************************************************)
\* issue_payload
Payload(d) ==
  [date |-> d, cards |-> {c[2] : c \in CardsOf(d)}, judged |-> {c[2] : c \in CardsOf(d) \cap judged},
   texts |-> [a \in Articles |-> texts[<<d, a>>]],
   analysis |-> analysis[d], theses |-> theses[d]]

\* validate_rubric_links ends the run when no card has a rubric.
ExportFront ==
  /\ script.pc = "export" /\ (cards # {} => judged # {})
  /\ front' = IF issues = {} THEN front ELSE Payload(Max(issues))
  /\ script' = [pc |-> "issues", left |-> issues]
  /\ UNCHANGED <<night, reported, issues, cards, judged, texts, analysis, theses, files, listed,
                 tries, deaths>>

NothingJudged ==
  /\ script.pc = "export" /\ cards # {} /\ judged = {}
  /\ script' = Done
  /\ UNCHANGED <<night, reported, issues, cards, judged, texts, analysis, theses, files, front,
                 listed, tries, deaths>>

\* The issues in the order of their dates ...
ExportIssue ==
  /\ script.pc = "issues" /\ script.left # {}
  /\ LET d == Min(script.left)
     IN  /\ files' = [files EXCEPT ![d] = Payload(d)]
         /\ script' = [script EXCEPT !.left = @ \ {d}]
  /\ UNCHANGED <<night, reported, issues, cards, judged, texts, analysis, theses, front, listed,
                 tries, deaths>>

\* ... and at last the list of them.
ExportIndex ==
  /\ script.pc = "issues" /\ script.left = {}
  /\ listed' = issues
  /\ script' = Done
  /\ UNCHANGED <<night, reported, issues, cards, judged, texts, analysis, theses, files, front,
                 tries, deaths>>

\* A script raises or dies; what it did not commit is gone.
EndsEarly ==
  /\ script # Done /\ deaths < MaxDeaths
  /\ script' = Done /\ deaths' = deaths + 1
  /\ UNCHANGED <<night, reported, issues, cards, judged, texts, analysis, theses, files, front,
                 listed, tries>>

NextNight ==
  /\ script = Done /\ night < LastNight
  /\ night' = night + 1
  /\ UNCHANGED <<reported, script, issues, cards, judged, texts, analysis, theses, files, front,
                 listed, tries, deaths>>

PublishNext ==
  \/ \E found \in SUBSET Articles : ReportArrives(found)
  \/ Rebuild
  \/ \E failed \in SUBSET CardKeys : Classify(failed)
  \/ \E made \in SUBSET Nights : Summarise(made)
  \/ NothingToAnalyse \/ CardsByHand \/ WriteCards
  \/ \E status \in {"success", "error"} : AnalyseDay(status) \/ BriefDay(status)
  \/ \E c \in CardKeys : CardMade(c) \/ CardRepeats(c) \/ CardLacks(c, "fallback") \/ CardLacks(c, "error")
  \/ ExportFront \/ NothingJudged \/ ExportIssue \/ ExportIndex
  \/ EndsEarly \/ NextNight

PublishSpec == PublishInit /\ [][PublishNext]_publishVars

-----------------------------------------------------------------------------
\* The tables and the files are of their kinds, and what refers to a card has its card.
PublishTypeOK ==
  /\ night \in Nights /\ issues \subseteq 1..night /\ listed \subseteq issues
  /\ judged \subseteq cards /\ cards \subseteq issues \X Articles
  /\ \A c \in CardKeys : texts[c] # "none" => c \in cards

\* The issue the site shows first tells of each card either its texts or why it has none,
\* although every night wipes the texts of all cards and most scripts go on after errors.
FrontIsAccounted ==
  front # NoFile => \A a \in front.cards : front.texts[a] # "none"

\* The analysis of an earlier date that a model made stays through every later night,
\* although the tables around it are rebuilt and models fail.
AnalysisStays ==
  [][\A d \in Nights : d < night /\ analysis[d] = "success" => analysis'[d] = "success"]_publishVars

\* mark_card_without_source: "a stored success stays".  The rebuild deletes the rows of
\* all materials, and the texts refer to them ON DELETE CASCADE.
StoredSuccessStays ==
  [][\A c \in CardKeys : texts[c] = "success" /\ c \in cards' => texts'[c] = "success"]_publishVars
===============================================================================
