----------------------------- MODULE MCReportFlow -----------------------------
(* Small instances of ReportFlow for TLC. *)
EXTENDS ReportFlow, TLC

Symmetry == Permutations(Requests) \cup Permutations(Reporters)
==============================================================================
