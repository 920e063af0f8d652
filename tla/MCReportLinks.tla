---------------------------- MODULE MCReportLinks ----------------------------
(* A TLC instance of ReportLinks alone. *)
EXTENDS ReportLinks

=============================================================================
