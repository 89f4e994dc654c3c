--------------------------- MODULE MCProviderGateway ---------------------------
(* Small instances of ProviderGateway.                                      *)
EXTENDS ProviderGateway

CONSTANTS m1, m2, m3

OneModel == <<m1>>
ThreeModels == <<m1, m2, m3>>
=============================================================================
