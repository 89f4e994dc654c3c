--------------------------- MODULE MCPhaseWorkflow ---------------------------
\* Small instances of PhaseWorkflow, on sub-sequences of the strategic template.
EXTENDS PhaseWorkflow

Strategic == <<"classify", "audit", "strategy", "sqi", "monitor", "report">>
Short == <<"audit", "strategy", "monitor", "report">>
Core == <<"strategy", "monitor", "report">>
=============================================================================
