-------------------------- MODULE MCReportPipeline --------------------------
(* Two reports, two pool slots and one download, every fault of the         *)
(* environment, one restored delivery.  The content "empty" is the export   *)
(* the task degrades to when ClickHouse does not answer.                    *)
EXTENDS ReportPipeline
=============================================================================
