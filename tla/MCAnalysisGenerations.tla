------------------------ MODULE MCAnalysisGenerations ------------------------
(* Bounded instances of AnalysisGenerations for TLC. *)
EXTENDS AnalysisGenerations
=============================================================================
