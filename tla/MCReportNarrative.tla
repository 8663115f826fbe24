-------------------------- MODULE MCReportNarrative --------------------------
(* Model-checking constants of ReportNarrative. *)
EXTENDS ReportNarrative

(* A thread can be started: what raises is everything else that matters here. *)
ThreadsStart == {"reserve", "complete", "report", "saveReport", "respond",
                 "mark", "loadDetail", "enrich"}
(* The report column can be written and a failure can be marked. *)
ReportsStored == {"complete", "report", "schedule", "respond", "enrich"}
=============================================================================
