-------------------------- MODULE MCProviderTelemetry --------------------------
EXTENDS ProviderTelemetry
CONSTANTS p1, p2
MCPhase == {p1, p2}
OnePhase == {p1}
=============================================================================
