------------------------------ MODULE MCPipeline ------------------------------
(***************************************************************************)
(* The nightly work around the two Radars, part by part: the report of the *)
(* day, the publication of the first Radar, and the observation of         *)
(* repeated events of issues the second one has published.  The part that  *)
(* moves is chosen at the start; the others stay as they began.            *)
(***************************************************************************)
EXTENDS EventObservation, DailyReport, LegacyPublish

CONSTANTS s1, s2, s3, a1, a2

VARIABLE moving

\* Three earlier dates and the day of the launches.
ThreeDates == {1, 2, 3}

\* The issue of the first is large.
FirstDate == {1}

\* The two articles are alike, and no file is read again: of one night's articles the first
\* is the one that is reported, and judged, without the other.
InOrder ==
  \A d \in Nights : /\ reported[d] # [articles |-> {a2}]
                   /\ <<d, a2>> \in judged /\ <<d, a1>> \in cards => <<d, a1>> \in judged

PipelineVars == <<moving, obsVars, reportVars, publishVars>>

PipelineInit ==
  /\ ObservationInit /\ ReportInit /\ PublishInit
  /\ moving \in {"events", "report", "publish"}
  /\ spawned = {}
  /\ jobs = [d \in Dates |-> IF moving = "events" THEN "pending" ELSE "done"]

Observe == moving = "events" /\ UNCHANGED <<moving, reportVars, publishVars>>

PipelineNext ==
  \/ Observe /\ ObservationNext
  \/ moving = "report" /\ ReportNext /\ UNCHANGED <<moving, obsVars, publishVars>>
  \/ /\ moving = "publish" /\ PublishNext /\ UNCHANGED <<moving, obsVars, reportVars>>
     /\ InOrder'

PipelineSpec ==
  PipelineInit /\ [][PipelineNext]_PipelineVars /\ WF_PipelineVars(Observe /\ Goes)
=============================================================================
